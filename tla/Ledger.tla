-------------------------------- MODULE Ledger --------------------------------
(***************************************************************************)
(* What the block chain of a node promises to those who read it by number: *)
(* at every moment, also in the middle of a reorganisation and after a     *)
(* crash at any point, one whole chain from the genesis block to a head    *)
(* block, every block of it valid.  It grows by a block on top of one of   *)
(* its blocks, which drops what was above that, or is cut back.            *)
(***************************************************************************)
CONSTANTS Genesis, Valid, Parent, Ancestry

VARIABLE chain

Init == chain = {Genesis}

\* A block becomes the head on top of a block of the chain.
Append(b) == Parent[b] \in chain /\ chain' = Ancestry[b]

\* A block of the chain becomes its head.
CutBack(b) == b \in chain /\ chain' = Ancestry[b]

Next == (\E b \in Valid \ {Genesis} : Append(b)) \/ (\E b \in chain : CutBack(b))

Spec == Init /\ [][Next]_chain
=============================================================================
