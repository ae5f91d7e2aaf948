---------------------------- MODULE SnapshotStore ----------------------------
(***************************************************************************)
(* Sonium.snapshot: how one node finds the snapshot of a block, from its   *)
(* in-memory cache, from the checkpoints in its database, from a trusted   *)
(* epoch block or by walking back to one of them and applying the headers  *)
(* in between, while the chain it reads is extended and reorganised by     *)
(* other goroutines, the cache evicts and the node restarts.               *)
(*                                                                         *)
(* The blocks are a fixed tree of valid headers; what changes is which of  *)
(* them the node has stored and which are canonical.                       *)
(***************************************************************************)
EXTENDS Snapshot

CONSTANTS
    Tree,        \* Tree[hash] is a header; Tree[Genesis] is the genesis header
    Genesis,
    Callers,     \* goroutines that call snapshot()
    CheckpointInterval,         \* checkpointInterval (1024)
    InMemorySnapshots,          \* inMemorySnapshots (128)
    Nodes        \* the nodes to look at, each [firstHeader, immutability, calls]:
                 \* height of the first header held (1 for a node with the whole
                 \* chain, an epoch above 1 for one that starts at a checkpoint),
                 \* params.FullImmutabilityThreshold (90000), and a bound on the
                 \* calls that are in progress at the same time

Hashes == DOMAIN Tree
Num(hash) == Tree[hash].number

\* The snapshot of a block by its definition: every header from the genesis applied.
Replay[hash \in Hashes] ==
    IF hash = Genesis
    THEN newSnapshot(0, Genesis, Tree[Genesis].validators)
    ELSE applyHeader(Replay[Tree[hash].parentHash], Tree[hash])

\* hash and everything below it.
Ancestors[hash \in Hashes] ==
    IF hash = Genesis THEN {hash} ELSE {hash} \cup Ancestors[Tree[hash].parentHash]

\* The tree holds headers that verifyCascadingFields has accepted: each one is filed under
\* its hash and is one above its parent.  An epoch block names the validators that were
\* elected, at least one.
ASSUME TreeAssumption ==
    /\ Genesis \in Hashes /\ Num(Genesis) = 0
    /\ \A hash \in Hashes :
          /\ Tree[hash].hash = hash /\ Num(hash) \in Nat
          /\ Tree[hash].validators \in SUBSET Addr
          /\ isEpoch(Num(hash)) => Tree[hash].validators # {}
    /\ \A hash \in Hashes \ {Genesis} :
          /\ Tree[hash].parentHash \in Hashes
          /\ Num(hash) = Num(Tree[hash].parentHash) + 1

\* verifySeal has accepted them too.
ASSUME SealAssumption ==
    \A hash \in Hashes \ {Genesis} :
        /\ verifySeal(Replay[Tree[hash].parentHash], Tree[hash]) = OK
        /\ applyError(Replay[Tree[hash].parentHash], Tree[hash]) = OK

ASSUME NodesAssumption == \A n \in Nodes : n.firstHeader \in Nat \ {0}

ASSUME StoreAssumption ==
    CheckpointInterval \in Nat \ {0} /\ InMemorySnapshots \in Nat \ {0}

VARIABLES
    node,     \* which of Nodes this is
    stored,   \* the headers GetHeader finds
    canon,    \* height -> hash: what GetHeaderByNumber finds
    recents,  \* hash -> snapshot: the in-memory cache
    disk,     \* hash -> snapshot: the database
    trusted,  \* history: epoch blocks snapshotted without their ancestors
    call      \* the state of each caller

storeVars == <<node, stored, canon, recents, disk, trusted, call>>

FirstHeader == node.firstHeader
FullImmutabilityThreshold == node.immutability

ErrUnknownAncestor == "unknown ancestor"
ErrDatabase == "database write failed"

Idle == [pc |-> "idle"]

\* The database files a snapshot under its hash.
store(snap) == Put(disk, snap.Hash, snap)
loadSnapshot(hash) == disk[hash]

StoreInit ==
    /\ node \in Nodes
    /\ LET held == {h \in Hashes : Num(h) = FirstHeader}
       IN  \E h \in held :
              /\ stored = {Genesis, h}
              /\ canon = [n \in {0, FirstHeader} |-> IF n = 0 THEN Genesis ELSE h]
    /\ recents = [h \in {} |-> 0]
    /\ disk = [h \in {} |-> 0]
    /\ trusted = {}
    /\ call = [c \in Callers |-> Idle]

-----------------------------------------------------------------------------
(***************************************************************************)
(* The chain around the engine.                                            *)
(***************************************************************************)

\* A verified header whose parent is held is written.
StoreHeader ==
    /\ \E h \in Hashes \ stored :
          /\ Tree[h].parentHash \in stored
          /\ Num(h) > FirstHeader
          /\ stored' = stored \cup {h}
    /\ UNCHANGED <<node, canon, recents, disk, trusted, call>>

\* writeHeadBlock: one height of the canonical chain is written.  In the middle of
\* a reorganisation the heights above it still name blocks of the old branch.
WriteCanonical ==
    /\ \E h \in stored \ Range(canon) :
          /\ Num(h) - 1 \in DOMAIN canon
          /\ canon[Num(h) - 1] = Tree[h].parentHash
          /\ canon' = Put(canon, Num(h), h)
    /\ UNCHANGED <<node, stored, recents, disk, trusted, call>>

\* reorg: the numbers above the new branch are deleted.
DeleteCanonicalAbove ==
    /\ \E n \in DOMAIN canon :
          /\ n > 0 /\ n + 1 \in DOMAIN canon
          /\ canon[n] # Tree[canon[n + 1]].parentHash
          /\ canon' = Restrict(canon, {m \in DOMAIN canon : m <= n})
    /\ UNCHANGED <<node, stored, recents, disk, trusted, call>>

\* SetHead: the headers above a height are deleted.
SetHead ==
    /\ \E n \in DOMAIN canon :
          /\ n >= FirstHeader
          /\ stored' = {h \in stored : Num(h) <= n}
          /\ canon' = Restrict(canon, {m \in DOMAIN canon : m <= n})
    /\ canon' # canon
    /\ UNCHANGED <<node, recents, disk, trusted, call>>

-----------------------------------------------------------------------------
(***************************************************************************)
(* Callers.                                                                *)
(***************************************************************************)

\* A caller may make its next call.
Free(c) ==
    /\ call[c].pc \in {"idle", "failed", "rejected"}
    /\ Cardinality({d \in Callers \ {c} : call[d] # Idle}) < node.calls

Start(c, target, parents) ==
    /\ call' = [call EXCEPT ![c] =
                   [pc |-> "lookup", number |-> Num(target), hash |-> target,
                    headers |-> << >>, parents |-> parents]]
    /\ UNCHANGED <<node, stored, canon, recents, disk, trusted>>

\* API.GetSnapshot and GetValidators: a canonical block by its number.
GetSnapshot(c) == Free(c) /\ \E n \in DOMAIN canon : Start(c, canon[n], << >>)

\* Prepare, Seal and API.GetSnapshotAtHash: a block that is stored.
GetSnapshotAtHash(c) == Free(c) /\ \E h \in stored : Start(c, h, << >>)

\* verifySeal of a child of h inside a batch given to VerifyHeaders: the headers of
\* the batch up to h are passed along as parents and need not be stored.  A batch
\* starts on a stored header.
VerifyHeaders(c) ==
    /\ Free(c)
    /\ \E h \in Hashes : \E b \in stored \cap (Ancestors[h] \ {h}) :
          /\ b = Genesis => FirstHeader = 1
          /\ Start(c, h, [i \in 1 .. Num(h) - Num(b) |->
                             Tree[CHOOSE a \in Ancestors[h] : Num(a) = Num(b) + i]])

Fail(c, err) == call' = [call EXCEPT ![c] = [pc |-> "failed", err |-> err]]

\* apply has failed; what it was given to start from is remembered with the error.
Reject(c, err) ==
    call' = [call EXCEPT ![c] = [pc |-> "rejected", err |-> err, hash |-> call[c].hash,
                                 base |-> call[c].snap.Hash]]

\* The snapshot to start from is found; the headers gathered are to be applied.  hash is
\* the block that the search has come to.
Found(c, snap) ==
    call' = [call EXCEPT ![c] = [pc |-> "apply", hash |-> call[c].hash, snap |-> snap,
                                 headers |-> call[c].headers]]

\* No snapshot for this header: gather it and move backward.
Gather(c) ==
    LET p == call[c].parents
        parent == p[Len(p)]
        next(header, parents) ==
            call' = [call EXCEPT ![c] =
                        [pc |-> "lookup", number |-> @.number - 1, hash |-> header.parentHash,
                         headers |-> Append(@.headers, header), parents |-> parents]]
    IN  IF p # << >>
        THEN IF parent.hash = call[c].hash /\ parent.number = call[c].number
             THEN next(parent, SubSeq(p, 1, Len(p) - 1))
             ELSE Fail(c, ErrUnknownAncestor)
        ELSE IF call[c].hash \in stored
             THEN next(Tree[call[c].hash], p)
             ELSE Fail(c, ErrUnknownAncestor)

MayTrustAnyBlock(c) ==
    \/ call[c].number = 0
    \/ Len(call[c].headers) > FullImmutabilityThreshold
    \/ call[c].number - 1 \notin DOMAIN canon

\* The epoch block is to be trusted: genesis, too many headers, or no parent.
MayTrust(c) ==
    LET number == call[c].number
    IN  \/ number = 0
        \/ /\ isEpoch(number)
           /\ \/ Len(call[c].headers) > FullImmutabilityThreshold
              \/ number - 1 \notin DOMAIN canon

\* One iteration of the search up to the first read of the canonical chain.
Lookup(c) ==
    /\ call[c].pc = "lookup"
    /\ LET hash == call[c].hash
       IN  IF hash \in DOMAIN recents
           THEN Found(c, recents[hash])
           ELSE IF call[c].number % CheckpointInterval = 0 /\ hash \in DOMAIN disk
           THEN Found(c, loadSnapshot(hash))
           ELSE IF MayTrust(c)
           THEN call' = [call EXCEPT ![c].pc = "trust"]
           ELSE Gather(c)
    /\ UNCHANGED <<node, stored, canon, recents, disk, trusted>>

\* The second read: the canonical header at this height, if there is one, is
\* snapshotted with no recent signers and stored.
Trust(c) ==
    /\ call[c].pc = "trust"
    /\ LET number == call[c].number
       IN  IF number \notin DOMAIN canon
           THEN Gather(c) /\ UNCHANGED <<disk, trusted>>
           ELSE LET hash == canon[number]
                    snap == newSnapshot(number, hash, Tree[hash].validators)
                IN  \/ /\ disk' = store(snap)
                       /\ trusted' = trusted \cup {hash}
                       /\ Found(c, snap)
                    \/ /\ Fail(c, ErrDatabase)
                       /\ UNCHANGED <<disk, trusted>>
    /\ UNCHANGED <<node, stored, canon, recents>>

\* The cache takes the snapshot and may drop others to stay within its size.
CacheAfterAdd(snap) ==
    LET full == Put(recents, snap.Hash, snap)
    IN  {Restrict(full, kept) :
            kept \in {k \in SUBSET DOMAIN full :
                         /\ snap.Hash \in k
                         /\ Cardinality(k) =
                               IF Cardinality(DOMAIN full) > InMemorySnapshots
                               THEN InMemorySnapshots ELSE Cardinality(DOMAIN full)}}

\* The snapshot just added to the cache is returned.
Answer(c) == call' = [call EXCEPT ![c] = Idle]

\* The headers were gathered from the newest down.
Reverse(headers) == [i \in DOMAIN headers |-> headers[Len(headers) + 1 - i]]

ApplyUnreversed(c) ==
    /\ call[c].pc = "apply"
    /\ LET result == apply(call[c].snap, call[c].headers)
       IN  IF result.err # OK
           THEN Reject(c, result.err) /\ UNCHANGED recents
           ELSE recents' \in CacheAfterAdd(result.snap) /\ Answer(c)
    /\ UNCHANGED <<node, stored, canon, disk, trusted>>

\* apply, and what is remembered of its result.
Apply(c) ==
    /\ call[c].pc = "apply"
    /\ \E headers \in {Reverse(call[c].headers)} :
       \E result \in {apply(call[c].snap, headers)} :
       LET snap == result.snap
       IN  IF result.err # OK
           THEN Reject(c, result.err) /\ UNCHANGED <<recents, disk>>
           ELSE /\ recents' \in CacheAfterAdd(snap)
                /\ IF snap.Number % CheckpointInterval = 0 /\ headers # << >>
                   THEN \/ disk' = store(snap) /\ Answer(c)
                        \/ UNCHANGED disk /\ Fail(c, ErrDatabase)
                   ELSE UNCHANGED disk /\ Answer(c)
    /\ UNCHANGED <<node, stored, canon, trusted>>

\* The process stops and starts again: the database survives.
Restart ==
    /\ recents' = [h \in {} |-> 0]
    /\ call' = [c \in Callers |-> Idle]
    /\ UNCHANGED <<node, stored, canon, disk, trusted>>

StoreNext ==
    \/ StoreHeader \/ WriteCanonical \/ DeleteCanonicalAbove \/ SetHead \/ Restart
    \/ \E c \in Callers :
          \/ GetSnapshot(c) \/ GetSnapshotAtHash(c) \/ VerifyHeaders(c)
          \/ Lookup(c) \/ Trust(c) \/ Apply(c)

StoreSpec == StoreInit /\ [][StoreNext]_storeVars

-----------------------------------------------------------------------------
(***************************************************************************)
(* Properties.                                                             *)
(***************************************************************************)

\* The heights from which a snapshot of hash may know its recent signers: the
\* genesis, or an ancestor that was trusted without its own ancestors.
Bases(hash) == {0} \cup {Num(t) : t \in trusted \cap Ancestors[hash]}

\* A snapshot is what replaying the whole chain gives, except that the signers of
\* blocks up to a trusted checkpoint may be missing.
Sound(snap) ==
    LET replay == Replay[snap.Hash]
    IN  /\ snap.Number = replay.Number
        /\ snap.Validators = replay.Validators
        /\ \E base \in Bases(snap.Hash) :
              snap.Recents =
                 Restrict(replay.Recents, {n \in DOMAIN replay.Recents : n > base})

\* Whatever the interleaving of callers, reorganisations, evictions, failed writes
\* and restarts, every snapshot the cache or the database holds is filed under
\* its own block and is sound.  An answer is in the cache when it is given.
SnapshotsSound ==
    /\ \A h \in DOMAIN recents : recents[h].Hash = h /\ Sound(recents[h])
    /\ \A h \in DOMAIN disk : disk[h].Hash = h /\ Sound(disk[h])

\* The search for hash has ended on the checkpoint of another branch: base was trusted as
\* the canonical block of an epoch, and hash is another block of its height.
OtherBranch(base, hash) ==
    base # hash /\ base \in trusted /\ isEpoch(Num(hash)) /\ Num(base) = Num(hash)

\* A snapshot is made of the branch that was asked for: what snapshot() starts from is the
\* snapshot of the very block its search has come to, and then apply rejects no header of
\* the tree.  There is one exception, which is what the code does: the checkpoint that is
\* trusted is the canonical block of its height and not the block of the branch.  If
\* headers were gathered, apply rejects them as inconsistent, though they are valid; the
\* snapshot of the other branch is returned only to a caller that asked for an epoch block.
BranchKept ==
    \A c \in Callers :
        LET k == call[c]
        IN  /\ k.pc = "apply" =>
                  k.snap.Hash = k.hash \/ OtherBranch(k.snap.Hash, k.hash)
            /\ k.pc = "rejected" =>
                  k.err = errBlockHashInconsistent /\ OtherBranch(k.base, k.hash)

\* The effect of a trusted checkpoint wears off: a snapshot as far above every
\* checkpoint it may rest on as its window is long is exact, also across restarts.
TrustWearsOff ==
    \A h \in DOMAIN recents :
        (\A base \in Bases(h) \ {0} : Num(h) - base >= Limit(Replay[h].Validators))
            => recents[h] = Replay[h]
=============================================================================
