--------------------------- MODULE MCFinalization ---------------------------
EXTENDS Finalization

\* Three accounts, of which one also sends transactions, and candidate lists that
\* make an epoch keep, shrink and replace the validator set.
MCAddr == 1 .. 3
MCCandidateLists == {<<1, 2, 3>>, <<3, 1>>}
=============================================================================
