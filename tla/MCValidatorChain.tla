-------------------------- MODULE MCValidatorChain --------------------------
EXTENDS ValidatorChain

\* Sets of one to five validators: windows of 1, 2 and 3 blocks, so that epochs
\* shrink the window by one and by two, grow it, and change who is in it.
MCAddr == 1 .. 5
MCValidatorSets == {{1}, {2, 4}, {1, 3, 5}, {1, 2, 3, 4}, {1, 2, 3, 4, 5}}
=============================================================================
