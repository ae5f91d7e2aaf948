---------------------------- MODULE BlockFetcher ----------------------------
(***************************************************************************)
(* The block fetcher of a full node (eth/fetcher/block_fetcher.go): blocks *)
(* that peers announce are retrieved, header first and body second, and    *)
(* queued with the blocks that peers propagate until they fit on the       *)
(* chain.  One goroutine runs loop; imports run in goroutines of their     *)
(* own.  Requests and answers may be lost or arrive late.                  *)
(*                                                                         *)
(* The fetcher's maps are the fields of f.  announced counts the           *)
(* announcements of a block by each peer; the other maps name the peer     *)
(* that a block is wanted from.  A count of zero is an absent entry.       *)
(***************************************************************************)
EXTENDS Integers, FiniteSets, Sequences, Functions

CONSTANTS
    Peer, Nobody,
    Hash, Genesis,  \* blocks, and the one all nodes start from
    Parent, Number,
    AnnouncedNumber,  \* AnnouncedNumber[p][h]: the number the peer announces the block with
    Body,           \* what identifies a body: its transactions and uncles
    Empty,          \* the blocks whose body is known to be empty from the header
    Bad,            \* the blocks with an invalid header
    HashLimit, BlockLimit, MaxUncleDist, MaxQueueDist,
    MaxMsgs         \* bound: announcements and propagated blocks

ASSUME FetcherAssumption ==
    /\ IsFiniteSet(Hash) /\ Nobody \notin Peer
    /\ Number \in [Hash \cup {Genesis} -> Nat] /\ AnnouncedNumber \in [Peer -> [Hash -> Nat]]
    /\ {HashLimit, BlockLimit, MaxUncleDist, MaxQueueDist, MaxMsgs} \subseteq Nat

VARIABLES
    f,                        \* the maps of the fetcher
    pc,                       \* where loop is: at its top or waiting in select
    fetchTimer, completeTimer,  \* is the timer armed?
    importing, done,          \* blocks in import, and those that wait to tell loop
    chain, head,              \* the blocks of the local chain and its current block
    peers,                    \* the connected peers
    asked,                    \* requests that are not answered yet
    lost, msgs                \* history: blocks whose body was not delivered or that were
                              \* dropped as too old; inputs so far

fetcherVars == <<f, pc, fetchTimer, completeTimer, importing, done, chain, head, peers, asked,
                 lost, msgs>>
chainVars == <<chain, head>>

-----------------------------------------------------------------------------
(***************************************************************************)
(* Bookkeeping.                                                            *)
(***************************************************************************)
Announced(g) == {h \in Hash : \E p \in Peer : g.announced[h][p] > 0}
Those(map) == {h \in Hash : map[h] # Nobody}
Clear(map, S) == [h \in Hash |-> IF h \in S THEN Nobody ELSE map[h]]

\* The decrements of a peer's counter when S is forgotten.
Decrements(g, S, p) ==
    LET one(map, h) == IF map[h] = p THEN 1 ELSE 0
    IN  SumFunctionOnSet([h \in Hash |-> g.announced[h][p] + one(g.fetching, h)
                                         + one(g.fetched, h) + one(g.completing, h)], S)

forgetHashUncounted(g, S) ==
    [g EXCEPT !.announced  = [h \in Hash |-> [p \in Peer |-> IF h \in S THEN 0 ELSE @[h][p]]],
              !.fetching   = Clear(@, S),
              !.fetched    = Clear(@, S),
              !.completing = Clear(@, S)]

\* A counter that would not stay above zero is deleted.
forgetHash(g, S) ==
    [g EXCEPT !.announced  = [h \in Hash |-> [p \in Peer |-> IF h \in S THEN 0 ELSE @[h][p]]],
              !.fetching   = Clear(@, S),
              !.fetched    = Clear(@, S),
              !.completing = Clear(@, S),
              !.announces  = [p \in Peer |-> LET n == @[p] - Decrements(g, S, p)
                                             IN  IF n > 0 THEN n ELSE 0]]

forgetBlock(g, S) ==
    [g EXCEPT !.queues = [p \in Peer |-> @[p] - Cardinality({h \in S : g.queued[h] = p})],
              !.queued = Clear(@, S)]

Height == Number[head]
TooFar(number) == number - Height < -MaxUncleDist \/ number - Height > MaxQueueDist

enqueueKeepingHash(g, p, h) ==
    IF g.queues[p] + 1 > BlockLimit \/ TooFar(Number[h]) \/ g.queued[h] # Nobody THEN g
    ELSE [g EXCEPT !.queues[p] = @ + 1, !.queued[h] = p, !.queue = @ \cup {h}]

enqueue(g, p, h) ==
    IF g.queues[p] + 1 > BlockLimit \/ TooFar(Number[h]) THEN forgetHash(g, {h})
    ELSE IF g.queued[h] # Nobody THEN g
    ELSE [g EXCEPT !.queues[p] = @ + 1, !.queued[h] = p, !.queue = @ \cup {h}]

\* Blocks are queued one after the other, in the order of an iteration over a map.
Orders(S) == Injection(1 .. Cardinality(S), S)

deliver(g, p, order) ==
    LET after[i \in 0 .. Len(order)] ==
            IF i = 0 THEN g ELSE enqueue(after[i - 1], p, order[i])
    IN  after[Len(order)]

Request(kind, p, h) == [kind |-> kind, peer |-> p, hash |-> h]
BodiesOf(requests) == {r.hash : r \in {q \in requests : q.kind = "body"}}

\* removePeer: what the peer was asked for will not come.
dropPeer(p) ==
    LET gone == {r \in asked : r.peer = p}
    IN  peers' = peers \ {p} /\ asked' = asked \ gone /\ lost' = lost \cup BodiesOf(gone)

-----------------------------------------------------------------------------
(***************************************************************************)
(* loop.                                                                   *)
(***************************************************************************)

TopForgettingEarly ==
    /\ pc = "top"
    /\ \E expired \in SUBSET Those(f.fetching) :
          LET g == forgetHash(f, expired)
              ripe == {h \in g.queue : Number[h] <= Height + 1}
              old == {h \in ripe : Number[h] + MaxUncleDist < Height}
              stale == old \cup (ripe \cap chain)
          IN  /\ f' = [forgetBlock(g, ripe) EXCEPT !.queue = @ \ ripe]
              /\ importing' = importing \cup (ripe \ stale)
              /\ lost' = lost \cup old
    /\ pc' = "select"
    /\ UNCHANGED <<fetchTimer, completeTimer, done, chainVars, peers, asked, msgs>>

\* The top: fetches that took too long are forgotten, and the queued blocks that may fit
\* are imported, or forgotten if they are too old or known.
Top ==
    /\ pc = "top"
    /\ \E expired \in SUBSET Those(f.fetching) :
          LET g == forgetHash(f, expired)
              ripe == {h \in g.queue : Number[h] <= Height + 1}
              old == {h \in ripe : Number[h] + MaxUncleDist < Height}
              stale == old \cup (ripe \cap chain)
          IN  /\ f' = [forgetBlock(g, stale) EXCEPT !.queue = @ \ ripe]
              /\ importing' = importing \cup (ripe \ stale)
              /\ lost' = lost \cup old
    /\ pc' = "select"
    /\ UNCHANGED <<fetchTimer, completeTimer, done, chainVars, peers, asked, msgs>>

\* An announcement with the number 0 is not checked for its distance.
Useless(number) == number > 0 /\ TooFar(number)

NotifyWithoutTimer(p, h) ==
    /\ pc = "select" /\ p \in peers /\ msgs < MaxMsgs
    /\ f' = IF \/ f.announces[p] + 1 > HashLimit
               \/ Useless(AnnouncedNumber[p][h])
               \/ h \in Those(f.fetching) \cup Those(f.completing)
            THEN f
            ELSE [f EXCEPT !.announces[p] = @ + 1, !.announced[h][p] = @ + 1]
    /\ pc' = "top" /\ msgs' = msgs + 1
    /\ UNCHANGED <<fetchTimer, completeTimer, importing, done, chainVars, peers, asked, lost>>

\* NewBlockHashesMsg.  The block may have been imported since the handler looked.
Notify(p, h) ==
    /\ pc = "select" /\ p \in peers /\ msgs < MaxMsgs
    /\ IF \/ f.announces[p] + 1 > HashLimit
          \/ Useless(AnnouncedNumber[p][h])
          \/ h \in Those(f.fetching) \cup Those(f.completing)
       THEN UNCHANGED <<f, fetchTimer>>
       ELSE /\ f' = [f EXCEPT !.announces[p] = @ + 1, !.announced[h][p] = @ + 1]
            /\ fetchTimer' = (fetchTimer \/ Announced(f') = {h})
    /\ pc' = "top" /\ msgs' = msgs + 1
    /\ UNCHANGED <<completeTimer, importing, done, chainVars, peers, asked, lost>>

\* NewBlockMsg.
Enqueue(p, h) ==
    /\ pc = "select" /\ p \in peers /\ msgs < MaxMsgs
    /\ f' = enqueue(f, p, h)
    /\ pc' = "top" /\ msgs' = msgs + 1
    /\ UNCHANGED <<fetchTimer, completeTimer, importing, done, chainVars, peers, asked, lost>>

Done(h) ==
    /\ pc = "select" /\ h \in done
    /\ f' = forgetBlock(forgetHash(f, {h}), {h})
    /\ done' = done \ {h}
    /\ pc' = "top"
    /\ UNCHANGED <<fetchTimer, completeTimer, importing, chainVars, peers, asked, lost, msgs>>

\* The headers of the announcements that are old enough are asked of one announcer each.
FetchTimer(due) ==
    /\ pc = "select" /\ fetchTimer /\ due \subseteq Announced(f)
    /\ \E from \in [due -> Peer] :
          LET g == forgetHash(f, due)
              wanted == due \ chain
          IN  /\ \A h \in due : f.announced[h][from[h]] > 0
              /\ f' = [g EXCEPT !.fetching = [h \in Hash |-> IF h \in wanted THEN from[h] ELSE @[h]]]
              /\ asked' = asked \cup {Request("header", from[h], h) :
                                        h \in {k \in wanted : from[k] \in peers}}
    /\ fetchTimer' = (Announced(f') # {})
    /\ pc' = "top"
    /\ UNCHANGED <<completeTimer, importing, done, chainVars, peers, lost, msgs>>

\* The bodies of all fetched headers are asked for.
CompleteTimer ==
    LET all == Those(f.fetched)
        g == forgetHash(f, all)
        wanted == all \ chain
        from(h) == f.fetched[h]
    IN  /\ pc = "select" /\ completeTimer
        /\ f' = [g EXCEPT !.completing = [h \in Hash |-> IF h \in wanted THEN from(h) ELSE @[h]]]
        /\ asked' = asked \cup {Request("body", from(h), h) : h \in {k \in wanted : from(k) \in peers}}
        /\ lost' = lost \cup {h \in wanted : from(h) \notin peers}
        /\ completeTimer' = FALSE
        /\ pc' = "top"
        /\ UNCHANGED <<fetchTimer, importing, done, chainVars, peers, msgs>>

\* A header arrives.  One that the fetcher did not ask of this peer, or not any more, is
\* left to the downloader.
HeaderFilter(p, h) ==
    LET wanted == /\ f.fetching[h] = p
                  /\ h \notin Those(f.fetched) \cup Those(f.completing) \cup Those(f.queued)
        misnumbered == wanted /\ AnnouncedNumber[p][h] # Number[h]
    IN  /\ pc = "select" /\ Request("header", p, h) \in asked
        /\ f' = IF ~wanted THEN f
                ELSE IF misnumbered \/ h \in chain THEN forgetHash(f, {h})
                ELSE IF h \in Empty THEN enqueue([f EXCEPT !.completing[h] = p], p, h)
                ELSE [f EXCEPT !.fetched[h] = p]
        /\ completeTimer' = (completeTimer \/ (f' # f /\ Those(f'.fetched) = {h}))
        /\ IF misnumbered THEN dropPeer(p)
           ELSE asked' = asked \ {Request("header", p, h)} /\ UNCHANGED <<peers, lost>>
        /\ pc' = "top"
        /\ UNCHANGED <<fetchTimer, importing, done, chainVars, msgs>>

\* A body arrives.  It completes every block it fits that was asked of this peer.
BodyFilter(p, h) ==
    LET matched == {k \in Hash : /\ f.completing[k] = p /\ f.queued[k] = Nobody
                                 /\ Body[k] = Body[h]}
    IN  /\ pc = "select" /\ Request("body", p, h) \in asked
        /\ \E order \in Orders(matched \ chain) :
              f' = deliver(forgetHash(f, matched \cap chain), p, order)
        /\ asked' = asked \ {Request("body", p, h)}
        /\ pc' = "top"
        /\ UNCHANGED <<fetchTimer, completeTimer, importing, done, chainVars, peers, lost, msgs>>

-----------------------------------------------------------------------------
(***************************************************************************)
(* Imports, the chain and the network.                                     *)
(***************************************************************************)
Insert(h) ==
    /\ chain' = chain \cup {h}
    /\ head' \in IF Parent[h] = head THEN {h} ELSE {head, h}

\* importBlocks: without its parent a block is dropped, with an invalid header its sender
\* too; the chain may refuse it.
Import(h) ==
    /\ h \in importing
    /\ IF Parent[h] \in chain /\ h \in Bad
       THEN dropPeer(f.queued[h]) /\ UNCHANGED chainVars
       ELSE /\ UNCHANGED chainVars \/ (Parent[h] \in chain /\ h \notin chain /\ Insert(h))
            /\ UNCHANGED <<peers, asked, lost>>
    /\ importing' = importing \ {h} /\ done' = done \cup {h}
    /\ UNCHANGED <<f, pc, fetchTimer, completeTimer, msgs>>

\* The downloader inserts blocks too, as does the miner.
InsertElsewhere(h) ==
    /\ h \notin chain \cup Bad /\ Parent[h] \in chain
    /\ Insert(h)
    /\ UNCHANGED <<f, pc, fetchTimer, completeTimer, importing, done, peers, asked, lost, msgs>>

Lose(request) ==
    /\ asked' = asked \ {request} /\ lost' = lost \cup BodiesOf({request})
    /\ UNCHANGED <<f, pc, fetchTimer, completeTimer, importing, done, chainVars, peers, msgs>>

FetcherInit ==
    /\ f = [announced |-> [h \in Hash |-> [p \in Peer |-> 0]], announces |-> [p \in Peer |-> 0],
            fetching |-> [h \in Hash |-> Nobody], fetched |-> [h \in Hash |-> Nobody],
            completing |-> [h \in Hash |-> Nobody], queued |-> [h \in Hash |-> Nobody],
            queue |-> {}, queues |-> [p \in Peer |-> 0]]
    /\ pc = "top" /\ fetchTimer = TRUE /\ completeTimer = TRUE
    /\ importing = {} /\ done = {} /\ chain = {Genesis} /\ head = Genesis
    /\ peers = Peer /\ asked = {} /\ lost = {} /\ msgs = 0

FetcherNext ==
    \/ Top \/ CompleteTimer
    \/ \E due \in SUBSET Hash : FetchTimer(due)
    \/ \E p \in Peer, h \in Hash :
          Notify(p, h) \/ Enqueue(p, h) \/ HeaderFilter(p, h) \/ BodyFilter(p, h)
    \/ \E h \in Hash : Done(h) \/ Import(h) \/ InsertElsewhere(h)
    \/ \E request \in asked : Lose(request)

\* The goroutines run, and an announcement that stays grows old enough for the timer.
FetcherFairness ==
    /\ WF_fetcherVars(Top)
    /\ \A h \in Hash : SF_fetcherVars(\E due \in SUBSET Hash : h \in due /\ FetchTimer(due))

FetcherSpec == FetcherInit /\ [][FetcherNext]_fetcherVars /\ FetcherFairness

-----------------------------------------------------------------------------
(***************************************************************************)
(* Properties.                                                             *)
(***************************************************************************)

\* However announcements, timeouts, late answers and imports interleave, no peer is
\* charged for more announcements than are scheduled for it, so that its allowance is not
\* used up for ever, and it is charged for exactly the blocks queued for it.
AllowanceKept ==
    \A p \in Peer :
        /\ f.announces[p] <= SumFunctionOnSet([h \in Hash |-> f.announced[h][p]], Hash)
        /\ f.queues[p] = Cardinality({h \in Hash : f.queued[h] = p})

\* A block waits in the queue, is in import or waits to be forgotten, never two of these:
\* it is imported once however often it arrives.
ImportedOnce ==
    /\ f.queue \cup importing \cup done = Those(f.queued)
    /\ f.queue \cap importing = {} /\ f.queue \cap done = {} /\ importing \cap done = {}

\* Announcements of a block that waits for its body are ignored, without a timeout.  As
\* long as the block is new, the body is on its way or has arrived, unless an answer has
\* been lost or the block was dropped from the queue as too old: forgetBlock leaves it
\* among the blocks to be completed.
OnlyLossBlocks ==
    \A h \in Those(f.completing) :
        \/ h \in chain \cup lost \cup Those(f.queued)
        \/ Request("body", f.completing[h], h) \in asked

\* Every announcement is taken up: its header is asked for or it is forgotten.
AnnouncementsServed ==
    \A h \in Hash : h \in Announced(f) ~> h \notin Announced(f)
=============================================================================
