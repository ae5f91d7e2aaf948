------------------------------ MODULE MCWorkLoop ------------------------------
EXTENDS WorkLoop
=============================================================================
