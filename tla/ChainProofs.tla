----------------------------- MODULE ChainProofs -----------------------------
(***************************************************************************)
(* Proofs about Chain, for every tree of blocks and any number of crashes  *)
(* and rewinds: the index follows the head, and the chain is a ledger.     *)
(***************************************************************************)
EXTENDS Chain, WellFoundedInduction, TLAPS

Types ==
    /\ stored \subseteq Block /\ head \in Block /\ header \in Block
    /\ canon \in [Height -> Block \cup {NoBlock}]
    /\ disk \subseteq Block /\ dirty \subseteq Block
    /\ todo \subseteq Block /\ side \in Block \cup {NoBlock} /\ adopt \subseteq Block
    /\ target \in Nat

\* The ancestors of a stored block are stored.
Closed == \A b \in stored : Ancestry[b] \subseteq stored

\* A block has a state only if it and its ancestors execute.
Executed == Genesis \in disk /\ \A b \in disk \cup dirty : Ancestry[b] \cap Bad = {}

\* The head header is on the branch of the head block, above or below it, and the index
\* names no block of another branch up to its height.
SameBranch ==
    /\ head \in Ancestry[header] \/ header \in Ancestry[head]
    /\ \A b \in Ancestry[header] : canon[Number[b]] \in {b, NoBlock}

\* What is still to be adopted is the branch from the head to a stored block, or that
\* block alone if it is below the head.
Adopting ==
    /\ adopt = {} => ~reorging
    /\ adopt # {} =>
          /\ pc = "main" /\ adopt \cap Bad = {}
          /\ \E top \in stored :
                \/ top \notin Ancestry[head] /\ adopt = Ancestry[top] \ Ancestry[head]
                \/ top \in Ancestry[head] /\ adopt = {top}

\* insertSideChain is entered on a block with a pruned parent.
SideEntered ==
    pc = "side" => side \in Block \/ (todo # {} /\ ValidateBody(First(todo)) = "pruned")

\* A process that is down does nothing.
Halted == ~up => pc = "idle"

\* Once SetHead has lowered the head header, everything stored above it is to be deleted
\* and the head is not above it.
Rewinding ==
    /\ pc # "rewind" => doomed = {}
    /\ doomed # {} =>
          /\ head \in Ancestry[header]
          /\ \A n \in doomed : n \in Nat /\ n > Number[header]
          /\ \A b \in stored : Number[b] > Number[header] => Number[b] \in doomed

Inv ==
    /\ Types /\ IndexFollowsHead /\ Closed /\ Executed /\ SameBranch /\ Adopting
    /\ SideEntered /\ Rewinding /\ Halted

-----------------------------------------------------------------------------
\* Every nonempty set of naturals has a least element.
LEMMA LeastNatural ==
    ASSUME NEW N \in SUBSET Nat, N # {}
    PROVE  \E n \in N : \A m \in N : n <= m
<1> DEFINE R == OpToRel(<, Nat)
<1>1. IsWellFoundedOn(R, Nat)
  BY NatLessThanWellFounded, Zenon
<1>2. \A m, n \in Nat : <<m, n>> \in R <=> m < n
  BY Zenon DEF OpToRel
<1> HIDE DEF R
<1>3. N \subseteq Nat
  BY Zenon
<1>4. \E n \in N : \A m \in N : ~ (<<m, n>> \in R)
  BY <1>1, <1>3, WFMin, Zenon
<1>5. \E n \in N : \A m \in N : ~ (m < n)
  BY <1>2, <1>3, <1>4, Zenon
<1> QED
  BY <1>3, <1>5

\* A branch reaches down to the genesis block, has one block at each height, and its blocks
\* are one above the other.
IsBranch(b) ==
    /\ b \in Ancestry[b] /\ Genesis \in Ancestry[b]
    /\ \A n \in 0 .. Number[b] : \E a \in Ancestry[b] : Number[a] = n
    /\ \A a \in Ancestry[b] :
          /\ Number[a] <= Number[b] /\ Ancestry[a] \subseteq Ancestry[b]
          /\ \A c \in Ancestry[b] : Number[a] <= Number[c] => a \in Ancestry[c]

\* The ancestors of every block of the tree are such a branch: a lowest block that has
\* none would have a parent that has one.
LEMMA BranchLemma ==
    \A b \in Block :
        /\ b \in Ancestry[b] /\ Genesis \in Ancestry[b]
        /\ \A n \in 0 .. Number[b] : \E a \in Ancestry[b] : Number[a] = n
        /\ \A a \in Ancestry[b] :
              /\ Number[a] <= Number[b] /\ Ancestry[a] \subseteq Ancestry[b]
              /\ \A c \in Ancestry[b] : Number[a] <= Number[c] => a \in Ancestry[c]
<1>1. ASSUME NEW b \in Block \ {Genesis}, IsBranch(Parent[b])
      PROVE  IsBranch(b)
  <2> DEFINE p == Parent[b]
  <2>1. /\ p \in Block /\ Number[b] = Number[p] + 1 /\ Ancestry[b] = {b} \cup Ancestry[p]
        /\ Number[p] \in Nat /\ Number[b] \in Nat /\ Ancestry[p] \subseteq Block
    BY TreeAssumption, Zenon
  <2>2. \A a \in Ancestry[p] : Number[a] \in Nat /\ Number[a] <= Number[p]
    BY <1>1, <2>1, TreeAssumption DEF IsBranch
  <2> HIDE DEF p
  <2>3. b \in Ancestry[b] /\ Genesis \in Ancestry[b]
    BY <1>1, <2>1, Zenon DEF IsBranch, p
  <2>4. ASSUME NEW n \in 0 .. Number[b] PROVE \E a \in Ancestry[b] : Number[a] = n
    <3>1. n = Number[b] \/ n \in 0 .. Number[p]
      BY <2>1
    <3> QED
      BY <1>1, <2>1, <2>3, <3>1, Zenon DEF IsBranch, p
  <2>5. ASSUME NEW a \in Ancestry[b]
        PROVE  Number[a] <= Number[b] /\ Ancestry[a] \subseteq Ancestry[b]
    <3>1. CASE a = b
      BY <2>1, <3>1
    <3>2. CASE a \in Ancestry[p]
      <4>1. Ancestry[a] \subseteq Ancestry[p]
        BY <1>1, <3>2, Zenon DEF IsBranch, p
      <4> QED
        BY <2>1, <2>2, <3>2, <4>1
    <3> QED
      BY <2>1, <3>1, <3>2, Zenon
  <2>6. ASSUME NEW a \in Ancestry[b], NEW c \in Ancestry[b], Number[a] <= Number[c]
        PROVE  a \in Ancestry[c]
    <3>1. CASE c = b
      BY <3>1, Zenon
    <3>2. CASE c \in Ancestry[p] /\ a = b
      BY <2>1, <2>2, <2>6, <3>2
    <3>3. CASE c \in Ancestry[p] /\ a \in Ancestry[p]
      BY <1>1, <2>6, <3>3, Zenon DEF IsBranch, p
    <3> QED
      BY <2>1, <3>1, <3>2, <3>3, Zenon
  <2> QED
    BY <2>3, <2>4, <2>5, <2>6, Zenon DEF IsBranch
<1>2. IsBranch(Genesis)
  BY TreeAssumption DEF IsBranch
<1>3. \A b \in Block : IsBranch(b)
  <2> DEFINE lacking == {b \in Block : ~IsBranch(b)}
             heights == {Number[b] : b \in lacking}
  <2> SUFFICES ASSUME lacking # {} PROVE FALSE
    BY Zenon
  <2>1. heights \in SUBSET Nat /\ heights # {}
    BY TreeAssumption
  <2>2. PICK b \in lacking : \A m \in heights : Number[b] <= m
    <3> HIDE DEF heights
    <3>1. PICK n \in heights : \A m \in heights : n <= m
      BY <2>1, LeastNatural, Zenon
    <3> QED
      BY <3>1, Zenon DEF heights
  <2>3. b # Genesis /\ b \in Block
    BY <1>2, Zenon
  <2>4. Parent[b] \in Block /\ Number[b] = Number[Parent[b]] + 1 /\ Number[Parent[b]] \in Nat
    BY <2>3, TreeAssumption, Zenon
  <2>5. Parent[b] \notin lacking
    <3>1. ASSUME Parent[b] \in lacking PROVE FALSE
      <4>1. Number[b] <= Number[Parent[b]]
        BY <2>2, <3>1, Zenon
      <4> QED
        BY <2>4, <4>1
    <3> QED
      BY <3>1, Zenon
  <2> QED
    BY <1>1, <2>3, <2>4, <2>5, Zenon
<1> QED
  BY <1>3, Zenon DEF IsBranch

\* The next block of a set is its lowest.
LEMMA FirstIsLowest ==
    ASSUME NEW S \in SUBSET Block, S # {}
    PROVE  First(S) \in S /\ \A c \in S : Number[First(S)] <= Number[c]
<1>1. \E n \in {Number[b] : b \in S} : \A m \in {Number[b] : b \in S} : n <= m
  <2>1. {Number[b] : b \in S} \in SUBSET Nat /\ {Number[b] : b \in S} # {}
    BY TreeAssumption
  <2> QED
    BY <2>1, LeastNatural, Zenon
<1> QED
  BY <1>1, Zenon DEF First

\* Rewinding ends at an ancestor.
LEMMA RewoundIsAncestor ==
    ASSUME NEW b \in Block, NEW root
    PROVE  Rewound(b, root) \in Ancestry[b]
<1> DEFINE found == {a \in Ancestry[b] :
                       \/ a = Genesis
                       \/ /\ HasState(a)
                          /\ root # NoBlock =>
                                root \in Ancestry[b] /\ Number[root] >= Number[a]}
           depth == {Number[b] - Number[a] : a \in found}
<1>1. /\ found \subseteq Block /\ Genesis \in found
      /\ \A a \in found : Number[a] \in Nat /\ Number[b] \in Nat /\ Number[a] <= Number[b]
  BY TreeAssumption, BranchLemma, Zenon
<1>2. \E d \in depth : \A e \in depth : d <= e
  <2>1. depth \in SUBSET Nat /\ depth # {}
    <3> HIDE DEF found
    <3> QED
      BY <1>1
  <2> HIDE DEF depth
  <2> QED
    BY <2>1, LeastNatural, Zenon
<1>3. \E a \in found : \A c \in found : Number[c] <= Number[a]
  <2>1. PICK a \in found : \A e \in depth : Number[b] - Number[a] <= e
    BY <1>2, Zenon
  <2>2. \A c \in found : Number[b] - Number[a] <= Number[b] - Number[c]
    BY <2>1, Zenon
  <2> HIDE DEF found
  <2> QED
    BY <1>1, <2>1, <2>2
<1>4. Rewound(b, root) = CHOOSE a \in found : \A c \in found : Number[c] <= Number[a]
  BY Zenon DEF Rewound
<1>5. Rewound(b, root) \in found
  <2> HIDE DEF found
  <2> QED
    BY <1>3, <1>4, Zenon
<1> QED
  BY <1>5, Zenon

\* An ancestor other than the block itself is lower, and an ancestor of the parent.
LEMMA ProperAncestor ==
    ASSUME NEW b \in Block, NEW a \in Ancestry[b], a # b
    PROVE  /\ b # Genesis /\ Parent[b] \in Block /\ a \in Ancestry[Parent[b]]
           /\ Number[a] < Number[b]
<1>1. b # Genesis /\ Parent[b] \in Block /\ a \in Ancestry[Parent[b]]
  BY TreeAssumption
<1>2. Number[a] <= Number[Parent[b]] /\ Number[b] = Number[Parent[b]] + 1 /\ a \in Block
  BY <1>1, TreeAssumption, BranchLemma, Zenon
<1> QED
  BY <1>1, <1>2, TreeAssumption

\* Two ancestors of a block are one above the other.
LEMMA Comparable ==
    ASSUME NEW b \in Block, NEW a \in Ancestry[b], NEW c \in Ancestry[b]
    PROVE  /\ a \in Block /\ c \in Block
           /\ a \in Ancestry[c] \/ c \in Ancestry[a]
           /\ Number[a] = Number[c] => a = c
<1>1. a \in Block /\ c \in Block
  BY TreeAssumption, Zenon
<1>2. Number[a] \in Nat /\ Number[c] \in Nat
  BY <1>1, TreeAssumption, Zenon
<1>3. /\ Number[a] <= Number[c] => a \in Ancestry[c]
      /\ Number[c] <= Number[a] => c \in Ancestry[a]
  BY BranchLemma, Zenon
<1>4. a \in Ancestry[c] \/ c \in Ancestry[a]
  BY <1>2, <1>3
<1>5. ASSUME Number[a] = Number[c], a # c PROVE FALSE
  <2>1. a \in Ancestry[c]
    BY <1>2, <1>3, <1>5
  <2>2. Number[a] < Number[c]
    BY <1>1, <1>5, <2>1, ProperAncestor, Zenon
  <2> QED
    BY <1>2, <1>5, <2>2
<1> QED
  BY <1>1, <1>4, <1>5, Zenon

\* What is read by number up to the height of h.
ReadUpTo(c, h) == {c[n] : n \in 0 .. Number[h]}

\* A branch that is indexed is what is read up to its top.
LEMMA ReadsBranch ==
    ASSUME NEW h \in Block, NEW c, \A b \in Ancestry[h] : c[Number[b]] = b
    PROVE  ReadUpTo(c, h) = Ancestry[h]
<1>1. \A n \in 0 .. Number[h] : c[n] \in Ancestry[h]
  BY BranchLemma
<1>2. \A b \in Ancestry[h] : Number[b] \in 0 .. Number[h]
  <2> SUFFICES ASSUME NEW b \in Ancestry[h] PROVE Number[b] \in 0 .. Number[h]
    BY Zenon
  <2>1. Number[b] \in Nat /\ Number[h] \in Nat
    BY TreeAssumption
  <2> QED
    BY <2>1, BranchLemma
<1>3. \A b \in Ancestry[h] : \E n \in 0 .. Number[h] : c[n] = b
  BY <1>2, Zenon
<1> QED
  <2>1. {c[n] : n \in 0 .. Number[h]} \subseteq Ancestry[h]
    BY <1>1
  <2>2. Ancestry[h] \subseteq {c[n] : n \in 0 .. Number[h]}
    BY <1>3, Zenon
  <2> QED
    BY <2>1, <2>2, Zenon DEF ReadUpTo

-----------------------------------------------------------------------------
LEMMA InitInv == Init => Inv
<1> SUFFICES ASSUME Init PROVE Inv
  BY Zenon
<1>1. Types
  BY TreeAssumption, Zenon DEF Init, Idle, Types, Height
<1>2. IndexFollowsHead /\ Closed /\ SameBranch
  BY TreeAssumption DEF Init, IndexFollowsHead, Closed, SameBranch, Height
<1>3. Executed
  BY TreeAssumption, Zenon DEF Init, Executed
<1>4. Adopting /\ SideEntered /\ Rewinding /\ Halted
  BY Zenon DEF Init, Idle, Adopting, SideEntered, Rewinding, Halted
<1> QED
  BY <1>1, <1>2, <1>3, <1>4, Zenon DEF Inv

-----------------------------------------------------------------------------
\* How the head moves: to an ancestor, or to a valid block on top of one.
HeadMoves ==
    \/ head' \in Ancestry[head]
    \/ head' \in (Block \ Bad) \ {Genesis} /\ Parent[head'] \in Ancestry[head]

\* The lowest block to be adopted is an ancestor of the head, or on top of one.
LEMMA AdoptsOnTop ==
    ASSUME Inv, adopt # {}
    PROVE  LET f == First(adopt)
           IN  /\ f \in stored \ Bad
               /\ f \in Ancestry[head] \/ (f # Genesis /\ Parent[f] \in Ancestry[head])
<1> DEFINE f == First(adopt)
<1>1. f \in adopt /\ f \in Block /\ \A c \in adopt : Number[f] <= Number[c]
  BY FirstIsLowest, Zenon DEF Inv, Types
<1>2. PICK top \in stored :
        \/ top \notin Ancestry[head] /\ adopt = Ancestry[top] \ Ancestry[head]
        \/ top \in Ancestry[head] /\ adopt = {top}
  BY Zenon DEF Inv, Adopting
<1>3. f \in stored \ Bad
  <2> HIDE DEF f
  <2>1. f \notin Bad
    BY <1>1, Zenon DEF Inv, Adopting
  <2>2. top \in stored /\ Ancestry[top] \subseteq stored
    BY Zenon DEF Inv, Closed
  <2> QED
    BY <1>1, <1>2, <2>1, <2>2, Zenon
<1>4. CASE top \in Ancestry[head] /\ adopt = {top}
  BY <1>1, <1>3, <1>4, Zenon
<1>5. CASE top \notin Ancestry[head] /\ adopt = Ancestry[top] \ Ancestry[head]
  <2> HIDE DEF f
  <2>1. f \in Ancestry[top] /\ f \notin Ancestry[head] /\ top \in Block /\ head \in Block
    BY <1>1, <1>5, Zenon DEF Inv, Types
  <2>2. f # Genesis
    BY <2>1, BranchLemma
  <2>3. /\ Parent[f] \in Block /\ Number[f] = Number[Parent[f]] + 1
        /\ Number[Parent[f]] \in Nat /\ Ancestry[f] = {f} \cup Ancestry[Parent[f]]
    BY <1>1, <2>2, TreeAssumption, Zenon
  <2>4. Parent[f] \in Ancestry[top]
    BY <2>1, <2>3, BranchLemma
  <2>5. Parent[f] \in Ancestry[head]
    BY <1>1, <1>5, <2>3, <2>4
  <2> QED
    BY <1>3, <2>2, <2>5, Zenon DEF f
<1> QED
  BY <1>2, <1>4, <1>5, Zenon

\* Writing such a block as head keeps the index on the head's branch.
LEMMA WritesHead ==
    ASSUME Inv, NEW f \in stored \ Bad, writeHeadBlock(f), UNCHANGED stored,
           f \in Ancestry[head] \/ (f # Genesis /\ Parent[f] \in Ancestry[head])
    PROVE  /\ head' \in Block /\ header' \in Block
           /\ canon' \in [Height -> Block \cup {NoBlock}]
           /\ IndexFollowsHead' /\ SameBranch' /\ HeadMoves
<1> USE DEF writeHeadBlock
<1>1. /\ f \in Block /\ head \in Block /\ header \in Block
      /\ Number[f] \in Height /\ Number[f] \in Nat
      /\ canon \in [Height -> Block \cup {NoBlock}]
  BY TreeAssumption, Zenon DEF Inv, Types, Height
<1>2. head' \in Block /\ header' \in Block /\ canon' \in [Height -> Block \cup {NoBlock}]
  BY <1>1, Zenon
<1>3. \A b \in Ancestry[f] : b # f => b \in Ancestry[head] /\ Number[b] # Number[f]
  <2> SUFFICES ASSUME NEW b \in Ancestry[f], b # f
               PROVE  b \in Ancestry[head] /\ Number[b] # Number[f]
    BY Zenon
  <2>1. b \in Block /\ b \in Ancestry[Parent[f]] /\ Number[b] < Number[f]
    BY <1>1, ProperAncestor, TreeAssumption, Zenon
  <2>2. b \in Ancestry[head]
    BY <1>1, <2>1, BranchLemma, Zenon
  <2>3. Number[b] \in Nat
    BY <2>1, TreeAssumption, Zenon
  <2> QED
    BY <1>1, <2>1, <2>2, <2>3
<1>4. \A b \in Ancestry[f] : b \in stored /\ canon'[Number[b]] = b
  <2> SUFFICES ASSUME NEW b \in Ancestry[f]
               PROVE  b \in stored /\ canon'[Number[b]] = b
    BY Zenon
  <2>1. b \in stored
    BY Zenon DEF Inv, Closed
  <2>2. CASE b = f
    BY <1>1, <2>1, <2>2, Zenon
  <2>3. CASE b # f
    <3>1. canon[Number[b]] = b /\ Number[b] # Number[f]
      BY <1>3, <2>3, Zenon DEF Inv, IndexFollowsHead
    <3>2. Number[b] \in Height
      BY <1>1, TreeAssumption, Zenon DEF Height
    <3> QED
      BY <1>1, <2>1, <3>1, <3>2, Zenon
  <2> QED
    BY <2>2, <2>3, Zenon
<1>5. IndexFollowsHead'
  BY <1>4, Zenon DEF IndexFollowsHead
<1>6. HeadMoves
  BY <1>1, Zenon DEF HeadMoves
<1>7. SameBranch'
  <2>1. CASE canon[Number[f]] # f
    <3>1. header' = f /\ head' = f /\ f \in Ancestry[f]
      BY <1>1, <2>1, BranchLemma, Zenon
    <3> QED
      BY <1>4, <3>1, Zenon DEF SameBranch
  <2>2. CASE canon[Number[f]] = f
    <3>1. header' = header /\ head' = f /\ canon' = canon
      BY <1>1, <2>2, Zenon
    <3>2. ASSUME NEW a \in Ancestry[header], Number[a] = Number[f]
          PROVE  f \in Ancestry[header]
      BY <1>1, <2>2, <3>2, TreeAssumption DEF Inv, SameBranch
    <3>3. f \in Ancestry[header] \/ header \in Ancestry[f]
      <4>1. CASE f \in Ancestry[head]
        <5>1. CASE head \in Ancestry[header]
          BY <1>1, <4>1, <5>1, BranchLemma, Zenon
        <5>2. CASE header \in Ancestry[head]
          BY <1>1, <4>1, <5>2, Comparable, Zenon
        <5> QED
          BY <5>1, <5>2, Zenon DEF Inv, SameBranch
      <4>2. CASE f # Genesis /\ Parent[f] \in Ancestry[head]
        <5> DEFINE p == Parent[f]
        <5>1. /\ p \in Block /\ Number[f] = Number[p] + 1 /\ Number[p] \in Nat
              /\ Ancestry[f] = {f} \cup Ancestry[p] /\ Number[header] \in Nat
          BY <1>1, <4>2, TreeAssumption, Zenon
        <5>2. p \in Ancestry[header] \/ header \in Ancestry[p]
          <6>1. CASE head \in Ancestry[header]
            BY <1>1, <4>2, <6>1, BranchLemma, Zenon
          <6>2. CASE header \in Ancestry[head]
            BY <1>1, <4>2, <6>2, Comparable, Zenon
          <6> QED
            BY <6>1, <6>2, Zenon DEF Inv, SameBranch
        <5>3. CASE header \in Ancestry[p]
          BY <5>1, <5>3, Zenon
        <5>4. CASE p \in Ancestry[header] /\ p # header
          <6>1. Number[p] < Number[header]
            BY <1>1, <5>4, ProperAncestor, Zenon
          <6>2. Number[f] \in 0 .. Number[header]
            BY <1>1, <5>1, <6>1
          <6>3. \E a \in Ancestry[header] : Number[a] = Number[f]
            BY <1>1, <6>2, BranchLemma, Zenon
          <6> QED
            BY <3>2, <6>3, Zenon
        <5>5. CASE p = header
          BY <5>1, <5>5, BranchLemma, Zenon
        <5> QED
          BY <5>2, <5>3, <5>4, <5>5, Zenon
      <4> QED
        BY <4>1, <4>2, Zenon
    <3> QED
      BY <3>1, <3>3, Zenon DEF Inv, SameBranch
  <2> QED
    BY <2>1, <2>2, Zenon
<1> QED
  BY <1>2, <1>5, <1>6, <1>7, Zenon

\* reorg prepares the adoption of the branch of an executed block.
LEMMA ReorgAdopts ==
    ASSUME Inv, NEW b \in Block, b \in stored', Ancestry[b] \cap Bad = {},
           reorg(b), UNCHANGED head, pc' = "main"
    PROVE  Adopting' /\ adopt' \subseteq Block
<1>1. head \in Block /\ b \in Ancestry[b] /\ head \in Ancestry[head]
  BY BranchLemma, Zenon DEF Inv, Types
<1>2. \/ b \notin Ancestry[head] /\ adopt' = Ancestry[b] \ Ancestry[head]
      \/ b \in Ancestry[head] /\ adopt' = {b}
  <2>1. CASE Parent[b] = head /\ b # Genesis
    <3>1. Ancestry[b] = {b} \cup Ancestry[head] /\ Number[b] = Number[head] + 1
      BY <2>1, TreeAssumption, Zenon
    <3>2. b \notin Ancestry[head]
      BY <1>1, <3>1, BranchLemma, TreeAssumption
    <3> QED
      BY <2>1, <3>1, <3>2, Zenon DEF reorg
  <2>2. CASE Parent[b] = head /\ b = Genesis
    BY <1>1, <2>2, BranchLemma, Zenon DEF reorg
  <2>3. CASE Parent[b] # head
    <3>1. adopt' = (Ancestry[b] \ Ancestry[head]) \cup {b}
      BY <2>3, Zenon DEF reorg
    <3>2. CASE b \in Ancestry[head]
      <4>1. Ancestry[b] \subseteq Ancestry[head]
        BY <1>1, <3>2, BranchLemma, Zenon
      <4> QED
        BY <3>1, <3>2, <4>1, Zenon
    <3>3. CASE b \notin Ancestry[head]
      BY <1>1, <3>1, <3>3, Zenon
    <3> QED
      BY <3>2, <3>3, Zenon
  <2> QED
    BY <2>1, <2>2, <2>3, Zenon
<1>3. adopt' \subseteq Ancestry[b] /\ adopt' # {}
  BY <1>1, <1>2, Zenon
<1>4. adopt' \cap Bad = {} /\ adopt' \subseteq Block
  BY <1>3, TreeAssumption, Zenon
<1> QED
  BY <1>2, <1>3, <1>4, Zenon DEF Adopting

\* Only states that were there or that of the block are there afterwards.
LEMMA CommitKeeps ==
    ASSUME NEW b, CommitState(b)
    PROVE  dirty' \subseteq dirty \cup {b} /\ disk \subseteq disk' /\ disk' \subseteq disk \cup dirty
BY Zenon DEF CommitState

\* A block is written on top of an executed one.
LEMMA WritesBlock ==
    ASSUME Inv, NEW b \in Block \ (Bad \cup {Genesis}), HasBlockAndState(Parent[b]),
           NEW rest \in SUBSET Block, writeBlockWithState(b, rest), adopt = {}, up,
           pc \in {"idle", "main"},
           UNCHANGED <<canon, head, header, lookup, up, side, target, doomed>>
    PROVE  Inv' /\ HeadMoves
<1>1. /\ Parent[b] \in stored /\ Parent[b] \in disk \cup dirty
      /\ Ancestry[b] = {b} \cup Ancestry[Parent[b]] /\ stored' = stored \cup {b}
  BY TreeAssumption, Zenon DEF HasBlockAndState, HasState, writeBlockWithState
<1>2. Ancestry[b] \subseteq stored' /\ Ancestry[b] \cap Bad = {}
  BY <1>1, Zenon DEF Inv, Closed, Executed
<1>3. /\ dirty' \subseteq dirty \cup {b} /\ disk \subseteq disk' /\ disk' \subseteq disk \cup dirty
  BY CommitKeeps, Zenon DEF writeBlockWithState
<1>4. Closed' /\ Executed'
  BY <1>1, <1>2, <1>3, Zenon DEF Inv, Closed, Executed
<1>5. IndexFollowsHead' /\ SameBranch'
  BY <1>1, Zenon DEF Inv, IndexFollowsHead, SameBranch
<1>6. HeadMoves
  BY BranchLemma, Zenon DEF Inv, Types, HeadMoves
<1>7. PICK becomes \in ForkChoice(b) :
         IF becomes
         THEN reorg(b) /\ todo' = rest /\ pc' = "main"
         ELSE Continue(rest) /\ UNCHANGED <<adopt, reorging, dropped>>
  BY Zenon DEF writeBlockWithState
<1>8. Adopting' /\ adopt' \subseteq Block /\ todo' \subseteq Block /\ pc' \in {"idle", "main"}
  <2>1. CASE becomes
    BY <1>1, <1>2, <1>7, <2>1, ReorgAdopts, Zenon
  <2>2. CASE ~becomes
    BY <1>7, <2>2, Zenon DEF Continue, Adopting, Inv
  <2> QED
    BY <2>1, <2>2, Zenon
<1>9. Types'
  BY <1>1, <1>3, <1>8, Zenon DEF Inv, Types
<1>10. SideEntered' /\ Rewinding' /\ Halted'
  BY <1>8, Zenon DEF Inv, SideEntered, Rewinding, Halted
<1> QED
  BY <1>4, <1>5, <1>6, <1>8, <1>9, <1>10, Zenon DEF Inv

\* The head may go down to any of its ancestors while nothing is being adopted.
LEMMA HeadLowered ==
    ASSUME Inv, head' \in Ancestry[head], adopt = {}, doomed = {},
           UNCHANGED <<stored, canon, header>>
    PROVE  head' \in Block /\ IndexFollowsHead' /\ SameBranch' /\ HeadMoves
<1>1. head \in Block /\ header \in Block /\ head' \in Block /\ Ancestry[head'] \subseteq Ancestry[head]
  BY TreeAssumption, BranchLemma, Zenon DEF Inv, Types
<1>2. head' \in Ancestry[header] \/ header \in Ancestry[head']
  <2>1. CASE head \in Ancestry[header]
    BY <1>1, <2>1, BranchLemma, Zenon
  <2>2. CASE header \in Ancestry[head]
    BY <1>1, <2>2, Comparable, Zenon
  <2> QED
    BY <2>1, <2>2, Zenon DEF Inv, SameBranch
<1> QED
  BY <1>1, <1>2, Zenon DEF Inv, IndexFollowsHead, SameBranch, HeadMoves

-----------------------------------------------------------------------------
LEMMA AdoptNextInv == Inv /\ AdoptNext => Inv' /\ HeadMoves
<1> SUFFICES ASSUME Inv, AdoptNext PROVE Inv' /\ HeadMoves
  BY Zenon
<1> DEFINE f == First(adopt)
<1>1. /\ adopt # {} /\ adopt \ {f} # {} /\ adopt' = adopt \ {f} /\ writeHeadBlock(f)
      /\ UNCHANGED <<stored, disk, dirty, up, pc, todo, side, reorging, target, doomed>>
  BY Zenon DEF AdoptNext
<1>2. f \in adopt /\ f \in Block /\ \A c \in adopt : Number[f] <= Number[c]
  BY <1>1, FirstIsLowest, Zenon DEF Inv, Types
<1>3. /\ f \in stored \ Bad
      /\ f \in Ancestry[head] \/ (f # Genesis /\ Parent[f] \in Ancestry[head])
  BY <1>1, AdoptsOnTop, Zenon
<1> HIDE DEF f
<1>4. /\ head' \in Block /\ header' \in Block /\ canon' \in [Height -> Block \cup {NoBlock}]
      /\ IndexFollowsHead' /\ SameBranch' /\ HeadMoves
  BY <1>1, <1>3, WritesHead, Zenon
<1>5. Types'
  BY <1>1, <1>4, Zenon DEF Inv, Types
<1>6. Closed' /\ Executed'
  BY <1>1, Zenon DEF Inv, Closed, Executed
<1>7. Adopting'
  <2>1. PICK top \in stored :
          \/ top \notin Ancestry[head] /\ adopt = Ancestry[top] \ Ancestry[head]
          \/ top \in Ancestry[head] /\ adopt = {top}
    BY <1>1, Zenon DEF Inv, Adopting
  <2>2. adopt = Ancestry[top] \ Ancestry[head] /\ top \in Block /\ head \in Block
    BY <1>1, <1>2, <2>1, Zenon DEF Inv, Types
  <2>3. \A c \in Ancestry[f] : c # f => c \notin adopt
    <3> SUFFICES ASSUME NEW c \in Ancestry[f], c # f, c \in adopt PROVE FALSE
      BY Zenon
    <3>1. Number[c] < Number[f] /\ Number[f] <= Number[c]
      BY <1>2, ProperAncestor, Zenon
    <3>2. Number[c] \in Nat /\ Number[f] \in Nat
      BY <1>2, TreeAssumption, Zenon
    <3> QED
      BY <3>1, <3>2
  <2>4. \A c \in Ancestry[top] \ Ancestry[f] : c \in adopt /\ c # f
    <3> SUFFICES ASSUME NEW c \in Ancestry[top], c \notin Ancestry[f]
                 PROVE  c \in adopt /\ c # f
      BY Zenon
    <3>1. f \in Ancestry[c] /\ c \in Block
      BY <1>2, <2>2, Comparable, Zenon
    <3>2. c \notin Ancestry[head]
      BY <1>2, <2>2, <3>1, BranchLemma, Zenon
    <3> QED
      BY <1>2, <2>2, <3>2, BranchLemma, Zenon
  <2>5. adopt' = Ancestry[top] \ Ancestry[f]
    BY <1>1, <2>2, <2>3, <2>4, <1>2, BranchLemma, Zenon
  <2>6. top \notin Ancestry[f]
    <3>1. PICK e \in adopt' : e \in Ancestry[top] /\ e \notin Ancestry[f]
      BY <1>1, <2>5, Zenon
    <3> QED
      BY <1>2, <3>1, BranchLemma, Zenon
  <2>7. head' = f /\ adopt' \cap Bad = {} /\ pc' = "main"
    BY <1>1, Zenon DEF writeHeadBlock, Inv, Adopting
  <2> QED
    BY <1>1, <2>5, <2>6, <2>7, Zenon DEF Adopting
<1>8. pc = "main"
  BY <1>1, Zenon DEF Inv, Adopting
<1>9. SideEntered' /\ Rewinding' /\ Halted'
  BY <1>1, <1>8, Zenon DEF Inv, SideEntered, Rewinding, Halted
<1> QED
  BY <1>4, <1>5, <1>6, <1>7, <1>9, Zenon DEF Inv

LEMMA DeleteIndexesInv == Inv /\ DeleteIndexes => Inv' /\ HeadMoves
<1> SUFFICES ASSUME Inv, DeleteIndexes PROVE Inv' /\ HeadMoves
  BY Zenon
<1>1. /\ UNCHANGED <<stored, head, header, disk, dirty, up, pc, todo, side, adopt, target, doomed>>
      /\ reorging' = FALSE
      /\ canon' = [n \in Height |-> IF n \in Above(Number[head]) THEN NoBlock ELSE canon[n]]
  BY Zenon DEF DeleteIndexes
<1>2. Types' /\ Closed' /\ Executed' /\ Rewinding' /\ Halted'
  BY <1>1, Zenon DEF Inv, Types, Closed, Executed, Rewinding, Halted
<1>3. \A b \in Block : Number[b] \in Height /\ Number[b] \in Nat /\ Ancestry[b] \subseteq Block
  BY TreeAssumption, ZenonT(30) DEF Height
<1>4. IndexFollowsHead'
  <2> SUFFICES ASSUME NEW b \in Ancestry[head] PROVE b \in stored' /\ canon'[Number[b]] = b
    BY <1>1, Zenon DEF IndexFollowsHead
  <2>1. head \in Block /\ b \in Block /\ Number[b] <= Number[head]
    BY <1>3, BranchLemma, Zenon DEF Inv, Types
  <2>2. Number[b] \notin Above(Number[head])
    BY <1>3, <2>1 DEF Above
  <2> QED
    BY <1>1, <1>3, <2>1, <2>2, Zenon DEF Inv, IndexFollowsHead
<1>5. SameBranch'
  BY <1>1, <1>3, Zenon DEF Inv, Types, SameBranch
<1>6. Adopting' /\ SideEntered' /\ HeadMoves
  <2>1. Adopting'
    BY <1>1, Zenon DEF Inv, Adopting
  <2>2. pc = "main"
    <3>1. adopt # {}
      BY Zenon DEF DeleteIndexes
    <3> QED
      BY <3>1, Zenon DEF Inv, Adopting
  <2> QED
    BY <1>1, <2>1, <2>2, BranchLemma, Zenon DEF Inv, Types, SideEntered, HeadMoves
<1> QED
  BY <1>2, <1>4, <1>5, <1>6, Zenon DEF Inv

LEMMA AdoptHeadInv == Inv /\ AdoptHead => Inv' /\ HeadMoves
<1> SUFFICES ASSUME Inv, AdoptHead PROVE Inv' /\ HeadMoves
  BY Zenon
<1>1. /\ adopt # {} /\ ~reorging /\ adopt' = {} /\ writeHeadBlock(First(adopt))
      /\ UNCHANGED <<stored, disk, dirty, up, side, reorging, target, doomed, todo>>
      /\ pc' \in {"idle", "main"} /\ pc = "main"
  BY Zenon DEF AdoptHead, Continue, Inv, Adopting
<1>2. /\ First(adopt) \in stored \ Bad
      /\ \/ First(adopt) \in Ancestry[head]
         \/ First(adopt) # Genesis /\ Parent[First(adopt)] \in Ancestry[head]
  BY <1>1, AdoptsOnTop, Zenon
<1>3. /\ head' \in Block /\ header' \in Block /\ canon' \in [Height -> Block \cup {NoBlock}]
      /\ IndexFollowsHead' /\ SameBranch' /\ HeadMoves
  BY <1>1, <1>2, WritesHead, Zenon
<1>4. Types' /\ Closed' /\ Executed' /\ Adopting'
  BY <1>1, <1>3, Zenon DEF Inv, Types, Closed, Executed, Adopting
<1>5. SideEntered' /\ Rewinding' /\ Halted'
  BY <1>1, Zenon DEF Inv, SideEntered, Rewinding, Halted
<1> QED
  BY <1>3, <1>4, <1>5, Zenon DEF Inv

LEMMA ImportBlockInv == Inv /\ ImportBlock => Inv' /\ HeadMoves
<1> SUFFICES ASSUME Inv, ImportBlock PROVE Inv' /\ HeadMoves
  BY Zenon
<1> DEFINE b == First(todo)
<1>1. /\ up /\ pc = "main" /\ adopt = {} /\ todo # {}
      /\ KnownBlock(b) \/ ExecutedBlock(b) \/ RefusedBlock(b)
      /\ UNCHANGED <<canon, head, header, lookup, up, side, target, doomed>>
  BY Zenon DEF ImportBlock
<1>2. b \in todo /\ b \in Block
  BY <1>1, FirstIsLowest, Zenon DEF Inv, Types
<1> HIDE DEF b
<1>3. Genesis \in stored /\ Genesis \in disk /\ head \in Ancestry[head]
  BY BranchLemma, Zenon DEF Inv, Types, IndexFollowsHead, Executed
<1>4. CASE KnownBlock(b)
  <2>1. /\ b \in stored /\ b \in disk \cup dirty /\ reorg(b) /\ todo' = todo \ {b}
        /\ UNCHANGED <<stored, disk, dirty, pc>>
    <3>1. ValidateBody(b) = "known" => HasBlockAndState(b)
      BY Zenon DEF ValidateBody
    <3> QED
      BY <1>4, <3>1, Zenon DEF KnownBlock, HasBlockAndState, HasState
  <2>2. Ancestry[b] \cap Bad = {}
    BY <2>1, Zenon DEF Inv, Executed
  <2>3. Adopting' /\ adopt' \subseteq Block
    BY <1>1, <1>2, <2>1, <2>2, ReorgAdopts, Zenon
  <2>4. Types' /\ Closed' /\ Executed' /\ IndexFollowsHead' /\ SameBranch' /\ HeadMoves
    BY <1>1, <1>3, <2>1, <2>3, ZenonT(30)
       DEF Inv, Types, Closed, Executed, IndexFollowsHead, SameBranch, HeadMoves
  <2>5. SideEntered' /\ Rewinding' /\ Halted'
    BY <1>1, <2>1, Zenon DEF Inv, SideEntered, Rewinding, Halted
  <2> QED
    BY <2>3, <2>4, <2>5, Zenon DEF Inv
<1>5. CASE ExecutedBlock(b)
  <2>1. ValidateBody(b) = "ok" /\ b \notin Bad /\ writeBlockWithState(b, todo \ {b})
    BY <1>5, Zenon DEF ExecutedBlock
  <2>2. HasBlockAndState(Parent[b]) /\ b # Genesis
    BY <1>3, <2>1, Zenon DEF ValidateBody, HasBlockAndState, HasState
  <2>3. todo \ {b} \in SUBSET Block
    BY Zenon DEF Inv, Types
  <2> QED
    BY <1>1, <1>2, <2>1, <2>2, <2>3, WritesBlock, Zenon
<1>6. CASE RefusedBlock(b)
  <2>1. /\ todo' = {} /\ pc' = "idle"
        /\ UNCHANGED <<stored, disk, dirty, adopt, reorging, dropped>>
    BY <1>6, Zenon DEF RefusedBlock, Continue
  <2>2. Types' /\ Closed' /\ Executed' /\ IndexFollowsHead' /\ SameBranch' /\ HeadMoves
    BY <1>1, <1>3, <2>1, Zenon
       DEF Inv, Types, Closed, Executed, IndexFollowsHead, SameBranch, HeadMoves
  <2>3. Adopting' /\ SideEntered' /\ Rewinding' /\ Halted'
    BY <1>1, <2>1, Zenon DEF Inv, Adopting, SideEntered, Rewinding, Halted
  <2> QED
    BY <2>2, <2>3, Zenon DEF Inv
<1> QED
  BY <1>1, <1>4, <1>5, <1>6, Zenon

LEMMA InsertChainInv ==
    ASSUME Inv, NEW from \in Block, NEW to \in Block, InsertChain(from, to)
    PROVE  Inv' /\ HeadMoves
<1> DEFINE chain == {b \in Ancestry[to] : Number[b] >= Number[from]}
           skipped == {b \in chain : \A c \in chain : Number[c] <= Number[b] =>
                           ValidateBody(c) = "known" /\ TD[c] <= TD[head]}
           rest == chain \ skipped
<1>1. /\ up /\ pc = "idle" /\ rest # {} /\ todo' = rest
      /\ pc' = IF ValidateBody(First(rest)) = "pruned" THEN "side" ELSE "main"
      /\ UNCHANGED <<db, dirty, up, side, adopt, reorging, dropped, target, doomed>>
  BY Zenon DEF InsertChain
<1>2. rest \subseteq Block
  BY TreeAssumption, Zenon
<1> HIDE DEF rest
<1>3. UNCHANGED <<stored, canon, head, header, lookup, disk, dirty, up, side, adopt, reorging,
                  target, doomed>>
  BY <1>1, Zenon DEF db
<1>4. Types' /\ Closed' /\ Executed' /\ IndexFollowsHead' /\ SameBranch' /\ HeadMoves
  BY <1>1, <1>2, <1>3, BranchLemma, ZenonT(30)
     DEF Inv, Types, Closed, Executed, IndexFollowsHead, SameBranch, HeadMoves
<1>5. Adopting' /\ Rewinding' /\ Halted'
  <2>1. pc = "idle" /\ pc' \in {"side", "main"}
    BY <1>1, Zenon
  <2>2. Adopting'
    BY <1>3, <2>1, Zenon DEF Inv, Adopting
  <2>3. Rewinding'
    BY <1>3, <2>1, Zenon DEF Inv, Rewinding
  <2>4. Halted'
    BY <1>1, <1>3 DEF Inv, Halted
  <2> QED
    BY <2>2, <2>3, <2>4, Zenon
<1>6. SideEntered'
  BY <1>1, <1>3 DEF SideEntered, ValidateBody, HasBlockAndState, HasState, First
<1> QED
  BY <1>4, <1>5, <1>6, Zenon DEF Inv

LEMMA SideInv == Inv /\ (SideBlock \/ SideDone) => Inv' /\ HeadMoves
<1> SUFFICES ASSUME Inv, SideBlock \/ SideDone PROVE Inv' /\ HeadMoves
  BY Zenon
<1>1. pc = "side" /\ adopt = {} /\ ~reorging /\ doomed = {} /\ up
  BY Zenon DEF SideBlock, SideDone, Inv, Adopting, Rewinding, Halted
<1>2. Genesis \in stored /\ Genesis \in disk /\ head \in Ancestry[head]
  BY BranchLemma, Zenon DEF Inv, Types, IndexFollowsHead, Executed
<1>3. CASE SideBlock
  <2> DEFINE b == First(todo)
  <2>1. /\ ValidateBody(b) = "pruned" /\ stored' = stored \cup {b} /\ todo' = todo \ {b}
        /\ side' = b /\ todo # {}
        /\ UNCHANGED <<canon, head, header, disk, dirty, up, pc, adopt, reorging, target, doomed>>
    BY <1>3, Zenon DEF SideBlock
  <2>2. b \in Block
    BY <2>1, FirstIsLowest, Zenon DEF Inv, Types
  <2> HIDE DEF b
  <2>3. b # Genesis /\ Parent[b] \in stored
    BY <1>2, <2>1, Zenon DEF ValidateBody, HasBlockAndState, HasState
  <2>4. Ancestry[b] = {b} \cup Ancestry[Parent[b]]
    BY <2>2, <2>3, TreeAssumption, Zenon
  <2>5. Closed' /\ IndexFollowsHead'
    BY <2>1, <2>3, <2>4, ZenonT(30) DEF Inv, Closed, IndexFollowsHead
  <2>6. Types' /\ Executed' /\ SameBranch' /\ HeadMoves
    BY <1>2, <2>1, <2>2, ZenonT(30) DEF Inv, Types, Executed, SameBranch, HeadMoves
  <2>7. Adopting' /\ SideEntered' /\ Rewinding' /\ Halted'
    BY <1>1, <2>1, <2>2, Zenon DEF Inv, Adopting, SideEntered, Rewinding, Halted
  <2> QED
    BY <2>5, <2>6, <2>7, Zenon DEF Inv
<1>4. CASE SideDone
  <2>1. side \in Block
    BY <1>1, <1>4, Zenon DEF SideDone, Inv, SideEntered
  <2>2. /\ todo' \subseteq Ancestry[side] /\ pc' \in {"idle", "main"} /\ side' = NoBlock
        /\ UNCHANGED <<db, dirty, up, adopt, reorging, target, doomed>>
    BY <1>4, Zenon DEF SideDone, Continue
  <2>3. UNCHANGED <<stored, canon, head, header, lookup, disk, dirty, up, adopt, reorging,
                    target, doomed>>
    BY <2>2, Zenon DEF db
  <2>4. todo' \subseteq Block
    BY <2>1, <2>2, TreeAssumption, Zenon
  <2>5. Types' /\ Executed' /\ HeadMoves
    BY <1>2, <2>2, <2>3, <2>4, ZenonT(30) DEF Inv, Types, Executed, HeadMoves
  <2>6. Closed' /\ IndexFollowsHead' /\ SameBranch'
    BY <2>3, ZenonT(30) DEF Inv, Closed, IndexFollowsHead, SameBranch
  <2>7. Adopting' /\ SideEntered' /\ Rewinding' /\ Halted'
    BY <1>1, <2>2, <2>3 DEF Inv, Adopting, SideEntered, Rewinding, Halted
  <2> QED
    BY <2>5, <2>6, <2>7, Zenon DEF Inv
<1> QED
  BY <1>3, <1>4, Zenon

LEMMA SetHeadInv ==
    ASSUME Inv, NEW n \in Height, SetHead(n)
    PROVE  Inv' /\ HeadMoves
<1>1. /\ up /\ pc = "idle" /\ adopt = {} /\ ~reorging /\ doomed = {}
      /\ UNCHANGED <<stored, canon, header, disk, dirty, up, todo, side, adopt, reorging, doomed>>
  BY Zenon DEF SetHead, Inv, Adopting, Rewinding
<1>2. n \in Nat
  BY TreeAssumption DEF Height
<1>3. head' \in Ancestry[head] /\ target' \in Nat
  <2>1. head \in Block /\ head \in Ancestry[head] /\ target \in Nat
    BY BranchLemma, Zenon DEF Inv, Types
  <2> QED
    BY <1>2, <2>1, RewoundIsAncestor, ZenonT(30) DEF SetHead
<1>4. head' \in Block /\ IndexFollowsHead' /\ SameBranch' /\ HeadMoves
  BY <1>1, <1>3, HeadLowered, Zenon
<1>5. Types' /\ Closed' /\ Executed'
  BY <1>1, <1>3, <1>4, Zenon DEF Inv, Types, Closed, Executed
<1>6. Adopting' /\ SideEntered' /\ Rewinding' /\ Halted'
  <2>1. pc' \in {"idle", "rewind"}
    BY <1>1, Zenon DEF SetHead
  <2> QED
    BY <1>1, <2>1, Zenon DEF Adopting, SideEntered, Rewinding, Halted
<1> QED
  BY <1>4, <1>5, <1>6, Zenon DEF Inv

LEMMA RewindHeaderInv == Inv /\ RewindHeader => Inv' /\ HeadMoves
<1> SUFFICES ASSUME Inv, RewindHeader PROVE Inv' /\ HeadMoves
  BY Zenon
<1> DEFINE parent == Parent[header]
           leftover == {n \in Height : n > Number[header] /\
                          \A m \in Number[header] + 1 .. n : \E b \in stored : Number[b] = m}
<1>1. /\ pc = "rewind" /\ Number[header] > target /\ header' = parent
      /\ head' = IF Number[parent] <= Number[head] THEN Rewound(parent, NoBlock) ELSE head
      /\ doomed' = doomed \cup {Number[header]} \cup IF doomed = {} THEN leftover ELSE {}
      /\ UNCHANGED <<stored, canon, disk, dirty, up, pc, todo, side, adopt, reorging, target>>
  BY Zenon DEF RewindHeader
<1>2. adopt = {} /\ ~reorging /\ up
  BY <1>1, Zenon DEF Inv, Adopting, Halted
<1>3. header \in Block /\ head \in Block /\ header # Genesis
  BY <1>1, TreeAssumption DEF Inv, Types
<1>4. /\ parent \in Block /\ Number[header] = Number[parent] + 1 /\ Number[parent] \in Nat
      /\ Ancestry[header] = {header} \cup Ancestry[parent] /\ Number[head] \in Nat
      /\ parent \in Ancestry[parent]
  BY <1>3, TreeAssumption, BranchLemma, Zenon
<1> HIDE DEF parent
<1>5. head' \in Ancestry[parent] /\ head' \in Ancestry[head]
  <2>1. head \in Ancestry[header] \/ header \in Ancestry[head]
    BY Zenon DEF Inv, SameBranch
  <2>2. CASE Number[parent] <= Number[head]
    <3>1. parent \in Ancestry[head]
      <4>1. CASE header \in Ancestry[head]
        BY <1>3, <1>4, <4>1, BranchLemma, Zenon
      <4>2. CASE head = header
        BY <1>4, <4>2, Zenon
      <4>3. CASE head \in Ancestry[header] /\ head # header
        <5>1. head \in Ancestry[parent] /\ Number[head] = Number[parent]
          BY <1>4, <2>2, <4>3, BranchLemma
        <5>2. head = parent
          BY <1>4, <5>1, Comparable, Zenon
        <5> QED
          BY <1>4, <5>2, Zenon
      <4> QED
        BY <2>1, <4>1, <4>2, <4>3, Zenon
    <3>2. head' \in Ancestry[parent]
      BY <1>1, <1>4, <2>2, RewoundIsAncestor, Zenon
    <3> QED
      BY <1>3, <3>1, <3>2, BranchLemma, Zenon
  <2>3. CASE ~(Number[parent] <= Number[head])
    <3>1. head \in Ancestry[header] /\ head # header
      BY <1>3, <1>4, <2>1, <2>3, BranchLemma, Zenon
    <3> QED
      BY <1>1, <1>3, <1>4, <2>3, <3>1, BranchLemma, Zenon
  <2> QED
    BY <2>2, <2>3, Zenon
<1>6. head' \in Block /\ IndexFollowsHead' /\ SameBranch' /\ HeadMoves
  <2>1. head' \in Block /\ Ancestry[head'] \subseteq Ancestry[head]
    BY <1>3, <1>5, TreeAssumption, BranchLemma, Zenon
  <2> QED
    BY <1>1, <1>4, <1>5, <2>1, Zenon DEF Inv, IndexFollowsHead, SameBranch, HeadMoves
<1>7. Types' /\ Closed' /\ Executed'
  BY <1>1, <1>4, <1>6, Zenon DEF Inv, Types, Closed, Executed
<1>8. Adopting' /\ SideEntered' /\ Halted'
  BY <1>1, <1>2, ZenonT(30) DEF Adopting, SideEntered, Halted
<1>9. Rewinding'
  <2>1. leftover \subseteq Nat /\ \A n \in leftover : n > Number[header]
    BY TreeAssumption DEF Height
  <2>2. \A n \in doomed' : n \in Nat /\ n > Number[parent]
    <3> HIDE DEF leftover
    <3>1. \A n \in doomed : n \in Nat /\ n > Number[header]
      BY Zenon DEF Inv, Rewinding
    <3>2. ASSUME NEW n \in doomed' PROVE n \in doomed \/ n = Number[header] \/ n \in leftover
      BY <1>1, Zenon
    <3>3. ASSUME NEW n \in doomed' PROVE n \in Nat /\ n >= Number[header]
      <4>1. Number[header] \in Nat
        BY <1>4
      <4>2. CASE n \in doomed
        BY <3>1, <4>1, <4>2
      <4>3. CASE n = Number[header]
        BY <4>1, <4>3
      <4>4. CASE n \in leftover
        BY <2>1, <4>1, <4>4
      <4> QED
        BY <3>2, <4>2, <4>3, <4>4, Zenon
    <3> QED
      BY <1>4, <3>3
  <2>3. ASSUME NEW b \in stored, Number[b] > Number[parent] PROVE Number[b] \in doomed'
    <3>1. b \in Block /\ Number[b] \in Nat /\ Number[b] \in Height /\ Ancestry[b] \subseteq stored
      BY TreeAssumption, Zenon DEF Inv, Types, Closed, Height
    <3>2. CASE Number[b] = Number[header]
      BY <1>1, <3>2, Zenon
    <3>3. CASE Number[b] > Number[header] /\ doomed # {}
      BY <1>1, <3>3, Zenon DEF Inv, Rewinding
    <3>4. CASE Number[b] > Number[header] /\ doomed = {}
      <4>1. ASSUME NEW m \in Number[header] + 1 .. Number[b]
            PROVE  \E a \in stored : Number[a] = m
        <5>1. m \in 0 .. Number[b]
          BY <1>4, <3>1
        <5> QED
          BY <3>1, <5>1, BranchLemma, Zenon
      <4>2. Number[b] \in leftover
        BY <3>1, <3>4, <4>1, Zenon
      <4> HIDE DEF leftover
      <4> QED
        BY <1>1, <3>4, <4>2, Zenon
    <3>5. Number[b] = Number[header] \/ Number[b] > Number[header]
      BY <1>4, <2>3, <3>1
    <3> QED
      BY <3>2, <3>3, <3>4, <3>5, Zenon
  <2> QED
    BY <1>1, <1>5, <2>2, <2>3, Zenon DEF Rewinding
<1> QED
  BY <1>6, <1>7, <1>8, <1>9, Zenon DEF Inv

LEMMA RewindDoneInv == Inv /\ RewindDone => Inv' /\ HeadMoves
<1> SUFFICES ASSUME Inv, RewindDone PROVE Inv' /\ HeadMoves
  BY Zenon
<1>1. /\ pc = "rewind" /\ pc' = "idle" /\ target' = 0 /\ doomed' = {}
      /\ stored' = {b \in stored : Number[b] \notin doomed}
      /\ canon' = [n \in Height |-> IF n \in doomed THEN NoBlock ELSE canon[n]]
      /\ UNCHANGED <<head, header, disk, dirty, up, todo, side, adopt, reorging>>
  BY Zenon DEF RewindDone
<1>2. adopt = {} /\ ~reorging
  BY <1>1, Zenon DEF Inv, Adopting
<1>3. \A b \in Block : Number[b] \in Nat /\ Number[b] \in Height /\ Ancestry[b] \subseteq Block
  BY TreeAssumption, ZenonT(30) DEF Height
<1>4. head \in Block /\ header \in Block /\ head \in Ancestry[head]
  BY BranchLemma, Zenon DEF Inv, Types
<1>5. Closed'
  <2> SUFFICES ASSUME NEW b \in stored, Number[b] \notin doomed, NEW a \in Ancestry[b]
               PROVE  a \in stored /\ Number[a] \notin doomed
    BY <1>1, ZenonT(30) DEF Closed
  <2>1. a \in stored /\ b \in Block /\ a \in Block /\ Number[a] <= Number[b]
    BY <1>3, BranchLemma, Zenon DEF Inv, Closed, Types
  <2>2. ASSUME Number[a] \in doomed PROVE FALSE
    <3>1. Number[a] > Number[header]
      BY <2>2, Zenon DEF Inv, Rewinding
    <3>2. Number[b] > Number[header]
      BY <1>3, <1>4, <2>1, <3>1
    <3> QED
      BY <2>2, <3>2, Zenon DEF Inv, Rewinding
  <2> QED
    BY <2>1, <2>2, Zenon
<1>6. IndexFollowsHead'
  <2> SUFFICES ASSUME NEW b \in Ancestry[head]
               PROVE  b \in stored' /\ canon'[Number[b]] = b
    BY <1>1, Zenon DEF IndexFollowsHead
  <2>1. b \in Block /\ b \in stored /\ canon[Number[b]] = b
    BY <1>3, <1>4, Zenon DEF Inv, IndexFollowsHead
  <2>2. ASSUME Number[b] \in doomed PROVE FALSE
    <3>1. head \in Ancestry[header] /\ Number[b] > Number[header]
      BY <2>2, Zenon DEF Inv, Rewinding
    <3>2. Number[b] <= Number[header]
      BY <1>4, <3>1, BranchLemma, Zenon
    <3> QED
      BY <1>3, <1>4, <2>1, <3>1, <3>2
  <2> QED
    BY <1>1, <1>3, <2>1, <2>2, Zenon
<1>7. SameBranch'
  BY <1>1, <1>3, <1>4, Zenon DEF Inv, SameBranch
<1>8. Types' /\ Executed'
  BY <1>1, <1>4, Zenon DEF Inv, Types, Executed
<1>9. Adopting' /\ SideEntered' /\ Rewinding' /\ Halted' /\ HeadMoves
  BY <1>1, <1>2, <1>4, Zenon DEF Adopting, SideEntered, Rewinding, Halted, HeadMoves
<1> QED
  BY <1>5, <1>6, <1>7, <1>8, <1>9, Zenon DEF Inv

LEMMA OutageInv == Inv /\ (Crash \/ Stop) => Inv' /\ HeadMoves
<1> SUFFICES ASSUME Inv, Crash \/ Stop PROVE Inv' /\ HeadMoves
  BY Zenon
<1>1. /\ UNCHANGED <<stored, canon, head, header>> /\ dirty' = {} /\ up' = FALSE
      /\ pc' = "idle" /\ todo' = {} /\ side' = NoBlock /\ adopt' = {} /\ reorging' = FALSE
      /\ target' = 0 /\ doomed' = {}
  BY Zenon DEF Crash, Stop, Down, db
<1>2. disk \subseteq disk' /\ disk' \subseteq disk \cup dirty
  BY Zenon DEF Crash, Stop, db
<1>3. Types' /\ Closed' /\ Executed' /\ IndexFollowsHead' /\ SameBranch'
  BY <1>1, <1>2, Zenon DEF Inv, Types, Closed, Executed, IndexFollowsHead, SameBranch
<1>4. Adopting' /\ SideEntered' /\ Rewinding' /\ Halted' /\ HeadMoves
  BY <1>1, BranchLemma, Zenon
     DEF Inv, Types, Adopting, SideEntered, Rewinding, Halted, HeadMoves
<1> QED
  BY <1>3, <1>4, Zenon DEF Inv

LEMMA StartInv == Inv /\ Start => Inv' /\ HeadMoves
<1> SUFFICES ASSUME Inv, Start PROVE Inv' /\ HeadMoves
  BY Zenon
<1>1. /\ ~up /\ up' = TRUE /\ pc = "idle" /\ adopt = {} /\ ~reorging /\ doomed = {}
      /\ UNCHANGED <<stored, canon, header, disk, dirty, pc, todo, side, adopt, reorging,
                     target, doomed>>
  BY Zenon DEF Start, work, Inv, Halted, Adopting, Rewinding
<1>2. head' \in Ancestry[head]
  <2>1. head \in Block /\ head \in Ancestry[head]
    BY BranchLemma, Zenon DEF Inv, Types
  <2> QED
    BY <2>1, RewoundIsAncestor, Zenon DEF Start
<1>3. head' \in Block /\ IndexFollowsHead' /\ SameBranch' /\ HeadMoves
  BY <1>1, <1>2, HeadLowered, Zenon
<1>4. Types' /\ Closed' /\ Executed'
  BY <1>1, <1>3, Zenon DEF Inv, Types, Closed, Executed
<1>5. Adopting' /\ SideEntered' /\ Rewinding' /\ Halted'
  BY <1>1, Zenon DEF Adopting, SideEntered, Rewinding, Halted
<1> QED
  BY <1>3, <1>4, <1>5, Zenon DEF Inv

\* Every step keeps the invariant, and moves the head as a ledger's.
LEMMA StepInv == Inv /\ [Next]_vars => Inv' /\ HeadMoves
<1> SUFFICES ASSUME Inv, [Next]_vars PROVE Inv' /\ HeadMoves
  BY Zenon
<1>1. ASSUME NEW b \in Block, Mine(b) PROVE Inv' /\ HeadMoves
  <2>1. adopt = {} /\ {} \in SUBSET Block
    BY <1>1, Zenon DEF Mine, Inv, Adopting
  <2> QED
    BY <1>1, <2>1, WritesBlock, Zenon DEF Mine
<1>2. CASE UNCHANGED vars
  <2>1. /\ UNCHANGED <<stored, canon, head, header, disk, dirty, up>>
        /\ UNCHANGED <<pc, todo, side, adopt, reorging, target, doomed>>
    BY <1>2, Zenon DEF vars, db, work
  <2>2. Types' /\ Closed' /\ Executed' /\ IndexFollowsHead' /\ SameBranch'
    BY <2>1, Zenon DEF Inv, Types, Closed, Executed, IndexFollowsHead, SameBranch
  <2>3. Adopting' /\ Rewinding' /\ Halted' /\ HeadMoves
    BY <2>1, BranchLemma, Zenon DEF Inv, Types, Adopting, Rewinding, Halted, HeadMoves
  <2>4. SideEntered'
    BY <2>1 DEF Inv, SideEntered, ValidateBody, HasBlockAndState, HasState, First
  <2> QED
    BY <2>2, <2>3, <2>4, Zenon DEF Inv
<1> QED
  BY <1>1, <1>2, InsertChainInv, ImportBlockInv, SideInv, AdoptNextInv, DeleteIndexesInv,
     AdoptHeadInv, SetHeadInv, RewindHeaderInv, RewindDoneInv, OutageInv, StartInv, Zenon DEF Next

-----------------------------------------------------------------------------
\* The transactions of the blocks are indexed at these.
Indexed(S) == \A b \in S : \A t \in Txs[b] : lookup[t] = Number[b]

\* Without an outage, the chain is indexed while nothing is to be adopted; otherwise the
\* chain below the next block to be adopted is, and no transaction below a block that is
\* still to be adopted will be deleted from the index.
TxInv ==
    /\ outages \in Nat
    /\ outages = 0 =>
          /\ up
          /\ adopt = {} => Indexed(Ancestry[head])
          /\ adopt # {} => Indexed(Ancestry[First(adopt)] \ {First(adopt)})
          /\ reorging =>
                \A b \in adopt : \A c \in Ancestry[b] \ {b} : Txs[c] \cap dropped = {}

\* The next block to be adopted is on top of a block of the chain, or is one.
OnTop ==
    adopt # {} => /\ First(adopt) \in adopt /\ First(adopt) \in Block
                  /\ Ancestry[First(adopt)] \ {First(adopt)} \subseteq Ancestry[head]

LEMMA AlwaysOnTop == Inv => OnTop
<1> SUFFICES ASSUME Inv, adopt # {} PROVE OnTop
  BY Zenon DEF OnTop
<1> DEFINE f == First(adopt)
<1>1. f \in adopt /\ f \in Block /\ head \in Block
  BY FirstIsLowest, Zenon DEF Inv, Types
<1>2. f \in Ancestry[head] \/ (f # Genesis /\ Parent[f] \in Ancestry[head])
  BY AdoptsOnTop, Zenon
<1> HIDE DEF f
<1>3. Ancestry[f] \ {f} \subseteq Ancestry[head]
  <2>1. CASE f \in Ancestry[head]
    BY <1>1, <2>1, BranchLemma, Zenon
  <2>2. CASE f # Genesis /\ Parent[f] \in Ancestry[head]
    <3>1. Ancestry[f] = {f} \cup Ancestry[Parent[f]]
      BY <1>1, <2>2, TreeAssumption, Zenon
    <3>2. Ancestry[Parent[f]] \subseteq Ancestry[head]
      BY <1>1, <2>2, BranchLemma, Zenon
    <3> QED
      BY <3>1, <3>2, Zenon
  <2> QED
    BY <1>2, <2>1, <2>2, Zenon
<1> QED
  BY <1>1, <1>3, Zenon DEF OnTop, f

\* writeHeadBlock indexes the new block and touches the index of no block below it.
LEMMA WritesIndex ==
    ASSUME NEW f \in Block, writeHeadBlock(f), Indexed(Ancestry[f] \ {f})
    PROVE  Indexed(Ancestry[f])'
<1> SUFFICES ASSUME NEW b \in Ancestry[f], NEW t \in Txs[b]
             PROVE  lookup'[t] = Number[b]
  BY Zenon DEF Indexed
<1>1. /\ f \in Ancestry[f] /\ b \in Block /\ t \in Tx
      /\ lookup' = [u \in Tx |-> IF u \in Txs[f] THEN Number[f] ELSE lookup[u]]
  BY BranchLemma, TreeAssumption, Zenon DEF writeHeadBlock
<1>2. CASE b = f
  BY <1>1, <1>2, Zenon
<1>3. CASE b # f
  <2>1. t \notin Txs[f]
    BY <1>1, <1>3, TxsAssumption, Zenon
  <2>2. lookup[t] = Number[b]
    BY <1>3, Zenon DEF Indexed
  <2> QED
    BY <1>1, <2>1, <2>2, Zenon
<1> QED
  BY <1>2, <1>3, Zenon

\* reorg will delete no transaction that is below a block it adopts.
LEMMA ReorgKeeps ==
    ASSUME Inv, NEW b \in Block, reorg(b), reorging'
    PROVE  \A a \in adopt' : \A c \in Ancestry[a] \ {a} : Txs[c] \cap dropped' = {}
<1> DEFINE newChain == Ancestry[b] \ Ancestry[head]
           oldChain == Ancestry[head] \ Ancestry[b]
           addedTxs == UNION {Txs[d] : d \in newChain \ {b}}
           deletedTxs == UNION {Txs[d] : d \in oldChain}
<1>1. adopt' = newChain \cup {b} /\ dropped' = deletedTxs \ addedTxs
  BY Zenon DEF reorg
<1>2. head \in Block /\ b \in Ancestry[b]
  BY BranchLemma, Zenon DEF Inv, Types
<1> SUFFICES ASSUME NEW a \in adopt', NEW c \in Ancestry[a], c # a, NEW t \in Txs[c],
                    t \in dropped'
             PROVE  FALSE
  BY Zenon
<1>3. a \in Ancestry[b] /\ a \in Block
  BY <1>1, <1>2, TreeAssumption, Zenon
<1>4. c \in Ancestry[b] /\ c # b
  <2>1. c \in Ancestry[b] /\ Number[c] < Number[a] /\ Number[a] <= Number[b]
    BY <1>3, ProperAncestor, BranchLemma, Zenon
  <2>2. Number[a] \in Nat /\ Number[b] \in Nat
    BY <1>3, TreeAssumption, Zenon
  <2>3. ~(Number[b] < Number[a])
    BY <2>1, <2>2
  <2> QED
    BY <2>1, <2>3, Zenon
<1>5. CASE c \notin Ancestry[head]
  <2>1. c \in newChain \ {b}
    BY <1>4, <1>5, Zenon
  <2>2. t \in addedTxs
    BY <2>1, Zenon
  <2> QED
    BY <1>1, <2>2, Zenon
<1>6. CASE c \in Ancestry[head]
  <2>1. PICK d \in oldChain : t \in Txs[d]
    BY <1>1, Zenon
  <2>2. d \in Ancestry[head] /\ d # c
    BY <1>4, Zenon
  <2> QED
    BY <1>2, <1>6, <2>1, <2>2, TxsAssumption, Zenon
<1> QED
  BY <1>5, <1>6, Zenon

\* A head that goes down, or stays, leaves an indexed chain.
LEMMA LowerIndexed ==
    ASSUME NEW h \in Block, NEW g \in Ancestry[h], Indexed(Ancestry[h])
    PROVE  Indexed(Ancestry[g])
BY BranchLemma, Zenon DEF Indexed

\* A step that writes neither the index nor the head and adopts nothing, or decides to
\* adopt a block.
LEMMA TxQuiet ==
    ASSUME Inv, Inv', OnTop', TxInv, UNCHANGED <<lookup, head, outages, up>>,
           \/ UNCHANGED <<adopt, reorging, dropped>>
           \/ adopt = {} /\ \E b \in Block : reorg(b)
    PROVE  TxInv'
<1> SUFFICES ASSUME outages = 0 PROVE TxInv'
  BY Zenon DEF TxInv
<1>1. CASE UNCHANGED <<adopt, reorging, dropped>>
  BY <1>1, Zenon DEF TxInv, Indexed, First
<1>2. CASE adopt = {} /\ \E b \in Block : reorg(b)
  <2>1. PICK b \in Block : reorg(b)
    BY <1>2, Zenon
  <2>2. adopt' # {}
    BY <2>1, Zenon DEF reorg
  <2>3. Indexed(Ancestry[head])
    BY <1>2, Zenon DEF TxInv
  <2>4. (Indexed(Ancestry[First(adopt)] \ {First(adopt)}))'
    BY <2>2, <2>3, Zenon DEF OnTop, Indexed
  <2>5. reorging' => \A a \in adopt' : \A c \in Ancestry[a] \ {a} : Txs[c] \cap dropped' = {}
    BY <2>1, ReorgKeeps, Zenon
  <2> QED
    BY <2>2, <2>4, <2>5, Zenon DEF TxInv
<1> QED
  BY <1>1, <1>2, Zenon

\* Every step keeps the transactions of the chain indexed.
LEMMA StepTx == Inv /\ Inv' /\ OnTop' /\ TxInv /\ [Next]_vars => TxInv'
<1> SUFFICES ASSUME Inv, Inv', OnTop', TxInv, [Next]_vars PROVE TxInv'
  BY Zenon
<1>1. ASSUME NEW b \in Block, NEW rest, writeBlockWithState(b, rest), adopt = {},
             UNCHANGED <<lookup, head, outages, up>>
      PROVE  TxInv'
  <2>1. reorg(b) \/ UNCHANGED <<adopt, reorging, dropped>>
    BY <1>1, Zenon DEF writeBlockWithState
  <2> QED
    BY <1>1, <2>1, TxQuiet, Zenon
<1>2. ASSUME NEW b \in Block, Mine(b) PROVE TxInv'
  <2>1. adopt = {}
    BY <1>2, Zenon DEF Mine, Inv, Adopting
  <2> QED
    BY <1>1, <1>2, <2>1, Zenon DEF Mine
<1>3. ASSUME NEW from \in Block, NEW to \in Block, InsertChain(from, to) PROVE TxInv'
  BY <1>3, TxQuiet, Zenon DEF InsertChain, db
<1>4. CASE ImportBlock
  <2> DEFINE b == First(todo)
  <2>1. b \in Block
    BY <1>4, FirstIsLowest, Zenon DEF ImportBlock, Inv, Types
  <2>2. /\ adopt = {} /\ (KnownBlock(b) \/ ExecutedBlock(b) \/ RefusedBlock(b))
        /\ UNCHANGED <<lookup, head, outages, up>>
    BY <1>4, Zenon DEF ImportBlock
  <2> HIDE DEF b
  <2>3. CASE KnownBlock(b)
    BY <2>1, <2>2, <2>3, TxQuiet, Zenon DEF KnownBlock
  <2>4. CASE ExecutedBlock(b)
    BY <1>1, <2>1, <2>2, <2>4, Zenon DEF ExecutedBlock
  <2>5. CASE RefusedBlock(b)
    BY <2>2, <2>5, TxQuiet, Zenon DEF RefusedBlock
  <2> QED
    BY <2>2, <2>3, <2>4, <2>5, Zenon
<1>5. CASE SideBlock \/ SideDone
  BY <1>5, TxQuiet, Zenon DEF SideBlock, SideDone, db
<1>6. CASE AdoptNext \/ AdoptHead
  <2>0. PICK f : f = First(adopt)
    BY Zenon
  <2>1. adopt # {} /\ writeHeadBlock(f) /\ UNCHANGED <<outages, up>>
    BY <1>6, <2>0, Zenon DEF AdoptNext, AdoptHead
  <2>2. f \in Block
    BY <2>0, <2>1, FirstIsLowest, Zenon DEF Inv, Types
  <2> SUFFICES ASSUME outages = 0 PROVE TxInv'
    BY <2>1, ZenonT(30) DEF TxInv
  <2>3. Indexed(Ancestry[f] \ {f})
    BY <2>0, <2>1, Zenon DEF TxInv
  <2>4. Indexed(Ancestry[f])' /\ head' = f
    BY <2>1, <2>2, <2>3, WritesIndex, Zenon DEF writeHeadBlock
  <2>5. (adopt # {} => Indexed(Ancestry[First(adopt)] \ {First(adopt)}))'
    BY <2>4, Zenon DEF OnTop, Indexed
  <2>6. (reorging => \A b \in adopt : \A c \in Ancestry[b] \ {b} : Txs[c] \cap dropped = {})'
    BY <1>6, ZenonT(30) DEF AdoptNext, AdoptHead, TxInv
  <2>7. (adopt = {} => Indexed(Ancestry[head]))'
    BY <2>4, Zenon DEF Indexed
  <2> QED
    BY <2>1, <2>5, <2>6, <2>7, Zenon DEF TxInv
<1>7. CASE DeleteIndexes
  <2>0. PICK f : f = First(adopt)
    BY Zenon
  <2>1. /\ reorging /\ adopt = {f} /\ ~reorging' /\ UNCHANGED <<adopt, outages, up, head>>
        /\ lookup' = [t \in Tx |-> IF t \in dropped THEN -1 ELSE lookup[t]]
    BY <1>7, <2>0, Zenon DEF DeleteIndexes
  <2>2. f \in Block
    BY <2>1, Zenon DEF Inv, Types
  <2> SUFFICES ASSUME outages = 0 PROVE TxInv'
    BY <2>1, ZenonT(30) DEF TxInv
  <2>3. /\ Indexed(Ancestry[f] \ {f})
        /\ \A c \in Ancestry[f] \ {f} : Txs[c] \cap dropped = {}
    BY <2>0, <2>1, Zenon DEF TxInv
  <2>4. First(adopt)' = f
    BY <2>0, <2>1, Zenon DEF First
  <2>5. Indexed(Ancestry[f] \ {f})'
    BY <2>1, <2>2, <2>3, TreeAssumption, ZenonT(30) DEF Indexed
  <2> QED
    BY <2>1, <2>4, <2>5, Zenon DEF TxInv
<1>8. ASSUME adopt = {}, head' \in Ancestry[head],
             UNCHANGED <<lookup, outages, up, adopt, reorging>>
      PROVE  TxInv'
  <2>1. head \in Block /\ ~reorging
    BY <1>8, Zenon DEF Inv, Types, Adopting
  <2> SUFFICES ASSUME outages = 0 PROVE TxInv'
    BY <1>8, ZenonT(30) DEF TxInv
  <2>2. Indexed(Ancestry[head])
    BY <1>8, Zenon DEF TxInv
  <2>3. Indexed(Ancestry[head'])
    BY <1>8, <2>1, <2>2, LowerIndexed, Zenon
  <2>4. Indexed(Ancestry[head])'
    BY <1>8, <2>3, Zenon DEF Indexed
  <2> QED
    BY <1>8, <2>1, <2>4, ZenonT(30) DEF TxInv
<1>9. ASSUME NEW n \in Height, SetHead(n) PROVE TxInv'
  <2>1. adopt = {} /\ head \in Block /\ head \in Ancestry[head]
    BY <1>9, BranchLemma, ZenonT(30) DEF SetHead, Inv, Types, Adopting
  <2>2. head' \in Ancestry[head]
    BY <1>9, <2>1, RewoundIsAncestor, Zenon DEF SetHead
  <2> QED
    BY <1>8, <1>9, <2>1, <2>2, Zenon DEF SetHead
<1>10. CASE RewindHeader
  <2>1. adopt = {} /\ head \in Block /\ header \in Block /\ head' \in Block
    BY <1>10, ZenonT(30) DEF RewindHeader, Inv, Types, Adopting
  <2>2. Number[head] \in Nat /\ Number[head'] \in Nat
    BY <2>1, TreeAssumption, Zenon
  <2>3. Number[head'] <= Number[head]
    <3> DEFINE p == Parent[header]
    <3>1. head' = IF Number[p] <= Number[head] THEN Rewound(p, NoBlock) ELSE head
      BY <1>10, Zenon DEF RewindHeader
    <3>2. p \in Block /\ Number[p] \in Nat
      BY <1>10, <2>1, TreeAssumption, ZenonT(30) DEF RewindHeader, Inv, Types
    <3> HIDE DEF p
    <3>3. Number[Rewound(p, NoBlock)] <= Number[p] /\ Rewound(p, NoBlock) \in Block
      BY <3>2, RewoundIsAncestor, BranchLemma, TreeAssumption, Zenon
    <3> QED
      BY <2>2, <3>1, <3>2, <3>3
  <2>4. PICK a \in Ancestry[head] : Number[a] = Number[head']
    BY <2>1, <2>2, <2>3, BranchLemma
  <2>5. canon[Number[a]] = a
    BY Zenon DEF Inv, IndexFollowsHead
  <2>6. canon[Number[head']] = head'
    BY <1>10, <2>1, BranchLemma, ZenonT(30) DEF RewindHeader, Inv, IndexFollowsHead
  <2>7. head' \in Ancestry[head]
    BY <2>4, <2>5, <2>6, Zenon
  <2> QED
    BY <1>8, <1>10, <2>1, <2>7, Zenon DEF RewindHeader
<1>11. CASE RewindDone
  BY <1>11, TxQuiet, Zenon DEF RewindDone
<1>12. CASE Crash \/ Stop
  <2>1. outages' = outages + 1
    BY <1>12, Zenon DEF Crash, Stop, Down
  <2> QED
    BY <2>1 DEF TxInv
<1>13. CASE Start
  BY <1>13, ZenonT(30) DEF Start, TxInv
<1>14. CASE UNCHANGED vars
  BY <1>14, TxQuiet, Zenon DEF vars, db, work
<1> QED
  BY <1>2, <1>3, <1>4, <1>5, <1>6, <1>7, <1>9, <1>10, <1>11, <1>12, <1>13, <1>14, Zenon DEF Next

-----------------------------------------------------------------------------
\* However blocks are imported, mined, reorganised and rewound, and whenever the process
\* dies, the head block and its ancestors are stored and are what the canonical index
\* has: for every tree of blocks, and any number of outages and calls of SetHead.
THEOREM IndexAlwaysFollowsHead == Spec => []IndexFollowsHead
<1>1. Inv => IndexFollowsHead
  BY Zenon DEF Inv
<1> QED
  BY <1>1, InitInv, StepInv, PTL DEF Spec

\* Unless the process has died, between two operations every transaction of the chain is
\* indexed at its block, also those the old and the new branch of a reorganisation share.
THEOREM ChainAlwaysIndexed == Spec => []TxsIndexed
<1>1. Init => TxInv
  <2> SUFFICES ASSUME Init PROVE TxInv
    BY Zenon
  <2>1. Indexed(Ancestry[head])
    BY TreeAssumption, Zenon DEF Init, Indexed
  <2> QED
    BY <2>1, Zenon DEF Init, Idle, TxInv
<1>2. Inv /\ TxInv => TxsIndexed
  BY Zenon DEF Inv, Adopting, TxInv, Indexed, TxsIndexed
<1> QED
  BY <1>1, <1>2, InitInv, StepInv, AlwaysOnTop, StepTx, PTL DEF Spec

\* The block chain implements the ledger: writeHeadBlock appends a valid block to a
\* prefix, SetHead and the repair at start cut back, and nothing else is visible to
\* those who read the chain by number.
THEOREM ChainImplementsLedger == Spec => IsLedger
<1>1. Inv => Readable = Ancestry[head]
  <2> SUFFICES ASSUME Inv PROVE Readable = Ancestry[head]
    BY Zenon
  <2>1. head \in Block /\ \A b \in Ancestry[head] : canon[Number[b]] = b
    BY Zenon DEF Inv, Types, IndexFollowsHead
  <2>2. ReadUpTo(canon, head) = Ancestry[head]
    BY <2>1, ReadsBranch, Zenon
  <2> QED
    BY <2>2, Zenon DEF Readable, ReadUpTo
<1>2. Inv' => Readable' = Ancestry[head']
  <2> SUFFICES ASSUME Inv' PROVE Readable' = Ancestry[head']
    BY Zenon
  <2>1. head' \in Block /\ \A b \in Ancestry[head'] : canon'[Number[b]] = b
    BY Zenon DEF Inv, Types, IndexFollowsHead
  <2>2. ReadUpTo(canon', head') = Ancestry[head']
    BY <2>1, ReadsBranch, Zenon
  <2> QED
    BY <2>2, Zenon DEF Readable, ReadUpTo
<1>3. Init => L!Init
  BY <1>1, InitInv, TreeAssumption, Zenon DEF Init, L!Init
<1>4. Inv /\ Inv' /\ HeadMoves => [L!Next]_Readable
  <2> SUFFICES ASSUME Inv, Inv', HeadMoves PROVE L!Next
    BY Zenon
  <2>1. CASE head' \in Ancestry[head]
    BY <1>1, <1>2, <2>1, Zenon DEF L!Next, L!CutBack
  <2>2. CASE head' \in (Block \ Bad) \ {Genesis} /\ Parent[head'] \in Ancestry[head]
    BY <1>1, <1>2, <2>2, Zenon DEF L!Next, L!Append
  <2> QED
    BY <2>1, <2>2, Zenon DEF HeadMoves
<1> QED
  BY <1>3, <1>4, InitInv, StepInv, PTL DEF Spec, IsLedger, L!Spec
=============================================================================
