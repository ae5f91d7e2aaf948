------------------------------ MODULE MCSealing ------------------------------
EXTENDS Sealing, TLC

Symmetry == Permutations(Goroutine)
=============================================================================
