------------------------------- MODULE MCMiner -------------------------------
EXTENDS Miner
=============================================================================
