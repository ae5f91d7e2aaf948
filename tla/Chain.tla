-------------------------------- MODULE Chain --------------------------------
(***************************************************************************)
(* The block chain of one node (core/blockchain.go, core/headerchain.go):  *)
(* blocks are imported, mined, reorganised and rewound under the chain     *)
(* mutex, each operation as a row of database batches between which the    *)
(* process may die; a restart repairs what it finds.                       *)
(*                                                                         *)
(* The blocks are a fixed tree.  The node syncs in full, prunes states and *)
(* has no freezer, so the head fast block follows the head header and is   *)
(* left out, as are the in-memory copies of the markers, which the mutex's *)
(* holder writes together with the durable ones.                           *)
(***************************************************************************)
EXTENDS Integers

CONSTANTS
    Block, Genesis, NoBlock,
    Parent,         \* Parent[b] of every block but the genesis block
    Number, TD,     \* height and total difficulty of a block
    Ancestry,       \* a block and everything below it
    Tx, Txs,        \* transactions; those of a block
    Bad,            \* blocks that do not execute to the state in their header
    TriesInMemory,  \* TriesInMemory (128)
    MaxOutages, MaxRewinds  \* bounds on crashes and stops, and on SetHead

ASSUME TreeAssumption ==
    /\ Genesis \in Block /\ NoBlock \notin Block
    /\ Number \in [Block -> Nat] /\ TD \in [Block -> Nat]
    /\ Ancestry \in [Block -> SUBSET Block] /\ Txs \in [Block -> SUBSET Tx]
    /\ Bad \subseteq Block \ {Genesis}
    /\ Number[Genesis] = 0 /\ Ancestry[Genesis] = {Genesis}
    /\ \A b \in Block \ {Genesis} :
          /\ Parent[b] \in Block
          /\ Number[b] = Number[Parent[b]] + 1 /\ TD[b] > TD[Parent[b]]
          /\ Ancestry[b] = {b} \cup Ancestry[Parent[b]]

\* A branch includes a transaction once: its sender's nonce is used up.
ASSUME TxsAssumption ==
    \A b \in Block : \A a, c \in Ancestry[b] : a # c => Txs[a] \cap Txs[c] = {}

ASSUME TriesAssumption == TriesInMemory \in Nat \ {0}

Height == {Number[b] : b \in Block}

VARIABLES
    stored,   \* database: blocks with their header, body and total difficulty
    canon,    \* database: height -> canonical hash
    head,     \* database: head block
    header,   \* database: head header
    lookup,   \* database: transaction -> height it is indexed at, -1 for none
    disk,     \* database: blocks whose state is on disk
    dirty,    \* memory: blocks whose state is held by the trie database
    up,       \* the process runs
    pc,       \* what the holder of the chain mutex does
    todo,     \* the blocks insertChain or insertSideChain has still to look at
    side,     \* the last block insertSideChain has looked at
    adopt,    \* the blocks still to be written as head block
    reorging, \* reorg has still to delete the useless indexes
    dropped,  \* the transactions it will delete from the index
    target,   \* the height SetHead rewinds to
    doomed,   \* the heights whose blocks it will delete
    outages, rewinds

db == <<stored, canon, head, header, lookup, disk>>
work == <<pc, todo, side, adopt, reorging, dropped, target, doomed>>
vars == <<db, dirty, up, work, outages, rewinds>>

-----------------------------------------------------------------------------
First(S) == CHOOSE b \in S : \A c \in S : Number[b] <= Number[c]

HasState(b) == b \in disk \cup dirty
HasBlockAndState(b) == b \in stored /\ HasState(b)

\* The error of ValidateBody, after that of the header's verification.
ValidateBody(b) ==
    CASE HasBlockAndState(b) -> "known"
      [] ~HasBlockAndState(b) /\ HasBlockAndState(Parent[b]) -> "ok"
      [] ~HasBlockAndState(b) /\ ~HasBlockAndState(Parent[b]) ->
            IF Parent[b] \in stored THEN "pruned" ELSE "unknown"

Idle ==
    /\ pc = "idle" /\ todo = {} /\ side = NoBlock /\ adopt = {} /\ reorging = FALSE
    /\ dropped = {} /\ target = 0 /\ doomed = {}

Init ==
    /\ stored = {Genesis} /\ head = Genesis /\ header = Genesis
    /\ canon = [n \in Height |-> IF n = 0 THEN Genesis ELSE NoBlock]
    /\ lookup = [t \in Tx |-> IF t \in Txs[Genesis] THEN 0 ELSE -1]
    /\ disk = {Genesis} /\ dirty = {}
    /\ up = TRUE /\ Idle
    /\ outages = 0 /\ rewinds = 0

-----------------------------------------------------------------------------
(***************************************************************************)
(* Adopting a head.                                                        *)
(***************************************************************************)

\* One batch: the canonical hash, the transaction index and the markers.
writeHeadBlock(b) ==
    /\ canon' = [canon EXCEPT ![Number[b]] = b]
    /\ lookup' = [t \in Tx |-> IF t \in Txs[b] THEN Number[b] ELSE lookup[t]]
    /\ head' = b
    /\ header' = IF canon[Number[b]] = b THEN header ELSE b

reorgToHeadOnly(b) ==
    /\ adopt' = {b} /\ dropped' = {}
    /\ reorging' = (Parent[b] # head)

reorgDroppingAll(b) ==
    IF Parent[b] = head
    THEN adopt' = {b} /\ reorging' = FALSE /\ dropped' = {}
    ELSE /\ adopt' = (Ancestry[b] \ Ancestry[head]) \cup {b}
         /\ reorging' = TRUE
         /\ dropped' = UNION {Txs[c] : c \in Ancestry[head] \ Ancestry[b]}

\* reorg, if b is not the head's child, up to its first write: newChain, and what of
\* oldChain's transactions is not in newChain below b.
reorg(b) ==
    LET newChain == Ancestry[b] \ Ancestry[head]
        oldChain == Ancestry[head] \ Ancestry[b]
        deletedTxs == UNION {Txs[c] : c \in oldChain}
        addedTxs == UNION {Txs[c] : c \in newChain \ {b}}
    IN  IF Parent[b] = head
        THEN adopt' = {b} /\ reorging' = FALSE /\ dropped' = {}
        ELSE /\ adopt' = newChain \cup {b}
             /\ reorging' = TRUE
             /\ dropped' = deletedTxs \ addedTxs

\* reorg writes the blocks of newChain but the last as head, upwards ...
AdoptNext ==
    /\ reorging /\ adopt \ {First(adopt)} # {}
    /\ writeHeadBlock(First(adopt))
    /\ adopt' = adopt \ {First(adopt)}
    /\ UNCHANGED <<stored, disk, dirty, up, pc, todo, side, reorging, dropped, target,
                   doomed, outages, rewinds>>

\* Canonical hashes of consecutive heights from n + 1.
Above(n) == {i \in Height : i > n /\ \A j \in n + 1 .. i : canon[j] # NoBlock}

\* ... and deletes the useless indexes.
DeleteIndexes ==
    /\ reorging /\ adopt = {First(adopt)}
    /\ lookup' = [t \in Tx |-> IF t \in dropped THEN -1 ELSE lookup[t]]
    /\ canon' = [n \in Height |-> IF n \in Above(Number[head]) THEN NoBlock ELSE canon[n]]
    /\ reorging' = FALSE /\ dropped' = {}
    /\ UNCHANGED <<stored, head, header, disk, dirty, up, pc, todo, side, adopt, target,
                   doomed, outages, rewinds>>

\* What the operation does after the current block.
Continue(rest) ==
    /\ todo' = rest
    /\ pc' = IF rest = {} THEN "idle" ELSE "main"

\* The new head itself.
AdoptHead ==
    /\ ~reorging /\ adopt # {}
    /\ writeHeadBlock(First(adopt))
    /\ adopt' = {} /\ Continue(todo)
    /\ UNCHANGED <<stored, disk, dirty, up, side, reorging, dropped, target, doomed,
                   outages, rewinds>>

-----------------------------------------------------------------------------
(***************************************************************************)
(* Writing a block.                                                        *)
(***************************************************************************)

\* The head changes to a heavier block, to one as heavy and lower, or on the toss of a
\* coin to one as heavy and as high (shouldPreserve is false under Sonium).
ForkChoice(b) ==
    IF TD[b] # TD[head] THEN {TD[b] > TD[head]}
    ELSE IF Number[b] # Number[head] THEN {Number[b] < Number[head]}
    ELSE BOOLEAN

\* The state goes to memory; the states TriesInMemory below leave it, and once the
\* time allowance is used up the canonical one there is first written to disk.
CommitState(b) ==
    LET chosen == Number[b] - TriesInMemory
        kept == {c \in dirty : Number[c] > chosen} \cup {b}
    IN  IF chosen > 0
        THEN /\ dirty' = kept
             /\ disk' \in {disk, disk \cup (dirty \cap {canon[chosen]})}
        ELSE /\ dirty' = dirty \cup {b}
             /\ disk' = disk

writeBlockWithState(b, rest) ==
    /\ stored' = stored \cup {b}
    /\ CommitState(b)
    /\ \E becomes \in ForkChoice(b) :
          IF becomes
          THEN reorg(b) /\ todo' = rest /\ pc' = "main"
          ELSE Continue(rest) /\ UNCHANGED <<adopt, reorging, dropped>>

\* WriteBlockWithState: the worker has sealed a block.
Mine(b) ==
    /\ up /\ pc = "idle"
    /\ b \notin stored \cup Bad \cup {Genesis} /\ HasBlockAndState(Parent[b])
    /\ writeBlockWithState(b, {})
    /\ UNCHANGED <<canon, head, header, lookup, up, side, target, doomed, outages, rewinds>>

-----------------------------------------------------------------------------
(***************************************************************************)
(* InsertChain.                                                            *)
(***************************************************************************)

\* insertChain: the known blocks at the front that are not heavier than the head are
\* skipped, and the first block left decides how to go on.  A chain without an ancestor
\* is refused.
InsertChain(from, to) ==
    LET chain == {b \in Ancestry[to] : Number[b] >= Number[from]}
        skipped == {b \in chain : \A c \in chain : Number[c] <= Number[b] =>
                        ValidateBody(c) = "known" /\ TD[c] <= TD[head]}
        rest == chain \ skipped
    IN  /\ up /\ pc = "idle"
        /\ from \in Ancestry[to] \ {Genesis}
        /\ rest # {} /\ ValidateBody(First(rest)) # "unknown"
        /\ todo' = rest
        /\ pc' = IF ValidateBody(First(rest)) = "pruned" THEN "side" ELSE "main"
        /\ UNCHANGED <<db, dirty, up, side, adopt, reorging, dropped, target, doomed,
                       outages, rewinds>>

\* writeKnownBlock
KnownBlock(b) ==
    /\ ValidateBody(b) = "known"
    /\ reorg(b)
    /\ todo' = todo \ {b}
    /\ UNCHANGED <<stored, disk, dirty, pc>>

UncheckedBlock(b) ==
    /\ ValidateBody(b) = "ok"
    /\ writeBlockWithState(b, todo \ {b})

ExecutedBlock(b) ==
    /\ ValidateBody(b) = "ok" /\ b \notin Bad
    /\ writeBlockWithState(b, todo \ {b})

\* Process or ValidateState failed, or the block cannot follow.
RefusedBlock(b) ==
    /\ ValidateBody(b) # "known" /\ (ValidateBody(b) = "ok" => b \in Bad)
    /\ Continue({})
    /\ UNCHANGED <<stored, disk, dirty, adopt, reorging, dropped>>

\* The loop of insertChain over the blocks.
ImportBlock ==
    /\ up /\ pc = "main" /\ adopt = {} /\ todo # {}
    /\ LET b == First(todo) IN KnownBlock(b) \/ ExecutedBlock(b) \/ RefusedBlock(b)
    /\ UNCHANGED <<canon, head, header, lookup, up, side, target, doomed, outages, rewinds>>

\* insertSideChain: a block whose parent has no state is stored without one.
SideBlock ==
    /\ pc = "side" /\ todo # {}
    /\ LET b == First(todo)
       IN  /\ ValidateBody(b) = "pruned"
           /\ stored' = stored \cup {b}
           /\ todo' = todo \ {b}
           /\ side' = b
    /\ UNCHANGED <<canon, head, header, lookup, disk, dirty, up, pc, adopt, reorging,
                   dropped, target, doomed, outages, rewinds>>

\* Then the whole branch is executed if it is not lighter than the head.
SideDone ==
    /\ pc = "side" /\ (todo # {} => ValidateBody(First(todo)) # "pruned")
    /\ LET stateful == {b \in Ancestry[side] : HasState(b)}
           branch == {b \in Ancestry[side] : \A c \in stateful : Number[b] > Number[c]}
       IN  Continue(IF TD[head] > TD[side] THEN {} ELSE branch)
    /\ side' = NoBlock
    /\ UNCHANGED <<db, dirty, up, adopt, reorging, dropped, target, doomed, outages, rewinds>>

-----------------------------------------------------------------------------
(***************************************************************************)
(* SetHead.                                                                *)
(***************************************************************************)

\* The highest block below b that has a state and, if a root was given, is not above
\* the block of that root.
Rewound(b, root) ==
    LET found == {a \in Ancestry[b] :
                    \/ a = Genesis
                    \/ /\ HasState(a)
                       /\ root # NoBlock => root \in Ancestry[b] /\ Number[root] >= Number[a]}
    IN  CHOOSE a \in found : \A c \in found : Number[c] <= Number[a]

\* At the height of the head it only looks for a state.
SetHead(n) ==
    /\ up /\ pc = "idle"
    /\ rewinds < MaxRewinds /\ rewinds' = rewinds + 1
    /\ IF n = Number[head]
       THEN head' = Rewound(head, NoBlock) /\ UNCHANGED <<pc, target>>
       ELSE n < Number[header] /\ pc' = "rewind" /\ target' = n /\ UNCHANGED head
    /\ UNCHANGED <<stored, canon, header, lookup, disk, dirty, up, todo, side, adopt,
                   reorging, dropped, doomed, outages>>

\* One round of HeaderChain.SetHead: the markers go down a block; the deletions wait.
RewindHeader ==
    /\ pc = "rewind" /\ Number[header] > target
    /\ LET parent == Parent[header]
           leftover == {n \in Height : n > Number[header] /\
                          \A m \in Number[header] + 1 .. n : \E b \in stored : Number[b] = m}
       IN  /\ header' = parent
           /\ head' = IF Number[parent] <= Number[head] THEN Rewound(parent, NoBlock) ELSE head
           /\ doomed' = doomed \cup {Number[header]} \cup IF doomed = {} THEN leftover ELSE {}
    /\ UNCHANGED <<stored, canon, lookup, disk, dirty, up, pc, todo, side, adopt,
                   reorging, dropped, target, outages, rewinds>>

\* The batch of the deletions.
RewindDone ==
    /\ pc = "rewind" /\ Number[header] <= target
    /\ stored' = {b \in stored : Number[b] \notin doomed}
    /\ canon' = [n \in Height |-> IF n \in doomed THEN NoBlock ELSE canon[n]]
    /\ pc' = "idle" /\ target' = 0 /\ doomed' = {}
    /\ UNCHANGED <<head, header, lookup, disk, dirty, up, todo, side, adopt, reorging,
                   dropped, outages, rewinds>>

-----------------------------------------------------------------------------
(***************************************************************************)
(* Outages.                                                                *)
(***************************************************************************)

Down ==
    /\ outages < MaxOutages /\ outages' = outages + 1
    /\ up' = FALSE /\ dirty' = {}
    /\ pc' = "idle" /\ todo' = {} /\ side' = NoBlock /\ adopt' = {} /\ reorging' = FALSE
    /\ dropped' = {} /\ target' = 0 /\ doomed' = {}

\* The process dies between two batches.
Crash ==
    /\ up /\ Down
    /\ UNCHANGED <<db, rewinds>>

\* Stop interrupts an import between two blocks and writes the states of the head, of
\* its parent and of the oldest block in memory, and with state snapshots one more.
Stop ==
    /\ up /\ pc \in {"idle", "main"} /\ adopt = {} /\ Down
    /\ LET recent == {canon[Number[head] - offset] :
                        offset \in {o \in {0, 1, TriesInMemory - 1} : Number[head] > o}}
       IN  \E base \in dirty \cup {NoBlock} :
              disk' = disk \cup (dirty \cap (recent \cup {base}))
    /\ UNCHANGED <<stored, canon, head, header, lookup, rewinds>>

\* NewBlockChain: a head without its state is replaced by an ancestor that has one; with
\* state snapshots, by one that is not above the snapshot on disk.
Start ==
    /\ ~up /\ up' = TRUE
    /\ IF HasState(head)
       THEN head' = head
       ELSE \E root \in stored \cup {NoBlock} : head' = Rewound(head, root)
    /\ UNCHANGED <<stored, canon, header, lookup, disk, dirty, work, outages, rewinds>>

-----------------------------------------------------------------------------
Next ==
    \/ \E b \in Block : Mine(b)
    \/ \E from, to \in Block : InsertChain(from, to)
    \/ ImportBlock \/ SideBlock \/ SideDone
    \/ AdoptNext \/ DeleteIndexes \/ AdoptHead
    \/ \E n \in Height : SetHead(n)
    \/ RewindHeader \/ RewindDone
    \/ Crash \/ Stop \/ Start

Spec == Init /\ [][Next]_vars

-----------------------------------------------------------------------------
(***************************************************************************)
(* Properties.                                                             *)
(***************************************************************************)

\* At every moment, also between the batches of a reorganisation or a rewind and after
\* a crash at any of them, the head block and all of its ancestors are stored and are
\* what the canonical index has at their heights.
IndexFollowsHead == \A b \in Ancestry[head] : b \in stored /\ canon[Number[b]] = b

\* Reorganisations lose no transaction from the index, also one that the old branch and
\* the new one include at different heights: unless the process has died, whenever no
\* operation is under way every transaction of the chain is indexed at its block.
TxsIndexed ==
    pc = "idle" /\ outages = 0 =>
        \A b \in Ancestry[head] : \A t \in Txs[b] : lookup[t] = Number[b]

\* What GetBlockByNumber returns up to the head.
Readable == {canon[n] : n \in 0 .. Number[head]}

L == INSTANCE Ledger WITH chain <- Readable, Valid <- Block \ Bad

\* The chain is a ledger: whatever is imported, mined, rewound or repaired in whatever
\* order, those who read it by number see one branch at a time, complete and without a
\* block that failed to execute.
IsLedger == L!Spec
=============================================================================
