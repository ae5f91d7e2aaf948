-------------------------------- MODULE TxPool --------------------------------
(***************************************************************************)
(* The transaction pool (core/tx_pool.go, core/tx_list.go,                 *)
(* core/tx_noncer.go): callers add transactions under the pool's lock and  *)
(* then ask scheduleReorgLoop for a promotion; new heads ask it for a      *)
(* reset; it merges what is asked for and lets one runReorg at a time put  *)
(* the pool in order and announce what has become executable.              *)
(*                                                                         *)
(* A transaction takes one slot.  Whether an account can pay for it and    *)
(* whether it fits into a block is a constant of the block.  Heartbeats    *)
(* are left out: any remote account may be the idle or the latest one.     *)
(***************************************************************************)
EXTENDS Integers, FiniteSets

CONSTANTS
    Account, NoAccount,
    Tx, From, Nonce, Price,
    Block, Genesis, NoBlock, Parent, Number, Ancestry,
    Txs,            \* the transactions of a block
    StateNonce,     \* StateNonce[b][a]: the account's nonce in the block's state
    Payable,        \* the transactions within balance and gas limit of the block's state
    PriceLimit, Prices,  \* price demanded at start; prices the pool may be told to demand
    Arrivals,       \* the transactions that arrive, and whether they are sent locally
    AccountSlots, GlobalSlots, AccountQueue, GlobalQueue, PriceBump,
    ReorgDepth,     \* deepest reorganisation whose transactions are put back (64)
    MaxHeads,       \* bound on the heads the pool is told of
    MaxCallers      \* bound on the callers between adding and asking for the promotion

ASSUME TxPoolAssumption ==
    /\ NoAccount \notin Account /\ NoBlock \notin Block /\ Genesis \in Block
    /\ From \in [Tx -> Account] /\ Nonce \in [Tx -> Nat]
    /\ Arrivals \subseteq Tx \X BOOLEAN /\ Txs \in [Block -> SUBSET Tx]
    /\ Ancestry \in [Block -> SUBSET Block] /\ StateNonce \in [Block -> [Account -> Nat]]
    /\ AccountSlots \in Nat \ {0}

VARIABLES
    pool,      \* pending and queue, all that can be looked up, pendingNonces
    locals, gasPrice,
    current,   \* the block of currentState
    head,      \* the head known to loop
    asking,    \* accounts that callers have still to ask a promotion for
    resetFrom, \* the old head of the reset asked for, NoBlock for none
    dirty,     \* the accounts of the promotion asked for; {NoAccount} for one of none
    events,    \* queuedEvents
    run,       \* the reorg under way
    announced, \* history: pending transactions announced since they are pending
    heads, skipped, \* number of heads; history: a reset has given up
    sunk       \* history: accounts of which the last reset has discarded a mined transaction

vars == <<pool, locals, gasPrice, current, head, asking, resetFrom, dirty, events, run,
          announced, heads, skipped, sunk>>

-----------------------------------------------------------------------------
(***************************************************************************)
(* Lists of transactions (txList): sets with one transaction per slot.     *)
(***************************************************************************)
Of(S, a) == {t \in S : From[t] = a}
SameSlot(t, u) == From[t] = From[u] /\ Nonce[t] = Nonce[u]

\* The cheaper transaction, and of two as cheap the one with the higher nonce, goes first.
Worse(t, u) == Price[t] < Price[u] \/ (Price[t] = Price[u] /\ Nonce[t] > Nonce[u])

\* Add replaces a transaction only at a higher price, by PriceBump percent.
Outbids(t, old) ==
    Price[t] > Price[old] /\ Price[t] >= (Price[old] * (100 + PriceBump)) \div 100

Beaten(list, S) == {u \in list : \E t \in S : SameSlot(t, u) /\ Outbids(t, u)}
Refused(list, S) == {t \in S : \E u \in list : SameSlot(t, u) /\ ~Outbids(t, u)}
Added(list, S) == (list \ Beaten(list, S)) \cup (S \ Refused(list, S))

\* Put: an event replaces that of the same slot.
Put(evs, S) == {e \in evs : \A t \in S : ~SameSlot(e, t)} \cup S

\* Cap: the n lowest nonces of an account.
Lowest(S, a, n) == {t \in Of(S, a) : Cardinality({u \in Of(S, a) : Nonce[u] < Nonce[t]}) < n}

\* Ready: the consecutive nonces from the lowest on, if that is not above start.
Ready(S, a, start) ==
    {t \in Of(S, a) :
        \E first \in Of(S, a) :
            /\ Nonce[first] <= start
            /\ \A u \in Of(S, a) : Nonce[first] <= Nonce[u]
            /\ \A n \in Nonce[first] .. Nonce[t] : \E u \in Of(S, a) : Nonce[u] = n}

Lower(n, S) == IF \E m \in S : m < n THEN CHOOSE m \in S : \A k \in S : m <= k ELSE n

Pool(pending, queue, all, nonces) ==
    [pending |-> pending, queue |-> queue, all |-> all, nonces |-> nonces]

EnqueueKeepingOld(p, S) == Pool(p.pending, Added(p.queue, S), p.all, p.nonces)

\* enqueueTx for what falls out of the pending list.
Enqueue(p, S) ==
    Pool(p.pending, Added(p.queue, S), p.all \ Beaten(p.queue, S), p.nonces)

WithoutSettingNonces(p, S) ==
    LET gone == p.pending \cap S
        invalids == {t \in p.pending \ S : \E u \in gone : From[t] = From[u] /\ Nonce[t] > Nonce[u]}
    IN  Enqueue(Pool(p.pending \ (S \cup invalids), p.queue \ S, p.all \ S, p.nonces), invalids)

\* removeTx of several transactions: what follows them in pending goes back to the queue.
Without(p, S) ==
    LET gone == p.pending \cap S
        invalids == {t \in p.pending \ S : \E u \in gone : From[t] = From[u] /\ Nonce[t] > Nonce[u]}
        nonces == [a \in Account |-> Lower(p.nonces[a], {Nonce[t] : t \in Of(gone, a)})]
    IN  Enqueue(Pool(p.pending \ (S \cup invalids), p.queue \ S, p.all \ S, nonces), invalids)

-----------------------------------------------------------------------------
(***************************************************************************)
(* Adding.                                                                 *)
(***************************************************************************)
ValidateTx(t) ==
    /\ Price[t] >= gasPrice
    /\ StateNonce[current][From[t]] <= Nonce[t]
    /\ t \in Payable[current]

Full == Cardinality(pool.all) >= GlobalSlots + GlobalQueue

Underpriced(t) == From[t] \notin locals /\ \A u \in pool.all : Price[u] >= Price[t]

\* Discard: the worst remote transactions, to make room for one.  Stale entries of the heap
\* are skipped.  A transaction that was removed and came back is in the heap once more and
\* is counted each time, so that fewer may be discarded; how often it is there is a choice.
Discards ==
    LET remote == {u \in pool.all : From[u] \notin locals}
        slots == Cardinality(pool.all) - (GlobalSlots + GlobalQueue) + 1
    IN  {S \in SUBSET remote :
            /\ Cardinality(S) <= slots /\ (S = {} => remote = {})
            /\ \A t \in S, u \in remote \ S : ~Worse(u, t)}

ReplacePendingSilently(p, t) ==
    /\ pool' = IF Refused(p.pending, {t}) # {} THEN p
               ELSE Pool(Added(p.pending, {t}), p.queue,
                         (p.all \ Beaten(p.pending, {t})) \cup {t}, p.nonces)
    /\ UNCHANGED <<events, locals>>

\* A pending transaction is replaced at once; its event waits for the next run.
ReplacePending(p, t) ==
    /\ pool' = IF Refused(p.pending, {t}) # {} THEN p
               ELSE Pool(Added(p.pending, {t}), p.queue,
                         (p.all \ Beaten(p.pending, {t})) \cup {t}, p.nonces)
    /\ events' = IF Refused(p.pending, {t}) # {} THEN events ELSE Put(events, {t})
    /\ UNCHANGED locals

\* enqueueTx, and the sender of a local transaction becomes local.
AddToQueue(p, t, local) ==
    /\ pool' = IF Refused(p.queue, {t}) # {} THEN p
               ELSE Enqueue(Pool(p.pending, p.queue, p.all \cup {t}, p.nonces), {t})
    /\ locals' = IF local /\ Refused(p.queue, {t}) = {} THEN locals \cup {From[t]} ELSE locals
    /\ UNCHANGED events

\* add.  The sender is dirty if the transaction was added and replaced no other.
add(t, local, from) ==
    IF ~ValidateTx(t) \/ (Full /\ ~local /\ Underpriced(t))
    THEN from = NoAccount /\ UNCHANGED <<pool, locals, events>>
    ELSE \E drop \in IF Full THEN Discards ELSE {{}} :
            LET p == Without(pool, drop)
            IN  IF \E u \in p.pending : SameSlot(t, u)
                THEN from = NoAccount /\ ReplacePending(p, t)
                ELSE /\ from = IF \E u \in p.queue : SameSlot(t, u) THEN NoAccount ELSE From[t]
                     /\ AddToQueue(p, t, local)

\* The lock is held from the start of a run's reset until its end.
Unlocked == run.stage # "reinject"

\* addTxs of a transaction.  A promotion is asked for also if no account is dirty.
AddTxs(t, local) ==
    /\ Unlocked /\ t \notin pool.all /\ Cardinality(asking) < MaxCallers
    /\ \E from \in {From[t], NoAccount} : add(t, local, from) /\ asking' = asking \cup {from}
    /\ announced' = announced \cap pool'.pending
    /\ UNCHANGED <<gasPrice, current, head, resetFrom, dirty, run, heads, skipped, sunk>>

-----------------------------------------------------------------------------
(***************************************************************************)
(* Asking for a run.                                                       *)
(***************************************************************************)

RequestPromoteOverwriting ==
    /\ \E a \in asking : dirty' = {a} /\ asking' = asking \ {a}
    /\ UNCHANGED <<pool, locals, gasPrice, current, head, resetFrom, events, run, announced,
                   heads, skipped, sunk>>

\* requestPromoteExecutables of a caller.
RequestPromote ==
    /\ \E a \in asking :
          /\ dirty' = IF dirty \subseteq {NoAccount} THEN {a} ELSE dirty \cup ({a} \ {NoAccount})
          /\ asking' = asking \ {a}
    /\ UNCHANGED <<pool, locals, gasPrice, current, head, resetFrom, events, run, announced,
                   heads, skipped, sunk>>

\* loop is told of a new head, which may also be one below the last (a block imported again
\* after SetHead); a reset asked for already gets the newer head.
RequestReset(b) ==
    /\ heads < MaxHeads /\ heads' = heads + 1
    /\ b # Genesis /\ head' = b
    /\ resetFrom' = IF resetFrom = NoBlock THEN head ELSE resetFrom
    /\ UNCHANGED <<pool, locals, gasPrice, current, asking, dirty, events, run, announced,
                   skipped, sunk>>

NoRun == [stage |-> "none", from |-> NoBlock, to |-> NoBlock, dirty |-> {}, events |-> {},
          reinject |-> {}]

\* scheduleReorgLoop launches the next run when none is under way.
Launch ==
    /\ run = NoRun /\ (dirty # {} \/ resetFrom # NoBlock)
    /\ run' = [stage |-> "launched", from |-> resetFrom,
               to |-> IF resetFrom = NoBlock THEN NoBlock ELSE head,
               dirty |-> IF resetFrom = NoBlock THEN dirty ELSE {},
               events |-> events, reinject |-> {}]
    /\ resetFrom' = NoBlock /\ dirty' = {} /\ events' = {}
    /\ UNCHANGED <<pool, locals, gasPrice, current, head, asking, announced, heads, skipped,
                   sunk>>

-----------------------------------------------------------------------------
(***************************************************************************)
(* runReorg.                                                               *)
(***************************************************************************)
Deep(old, new) == Number[old] - Number[new] > ReorgDepth \/ Number[new] - Number[old] > ReorgDepth

\* reset, up to the reinjection.  The old head may be missing, after SetHead, or the state
\* of the new one: then it gives up and leaves the pool's state as it is.  (If SetHead has
\* deleted the new head itself, reset dereferences nil and the process ends.)
Reset ==
    LET old == run.from
        new == run.to
        discarded == UNION {Txs[b] : b \in Ancestry[old] \ Ancestry[new]}
        included == UNION {Txs[b] : b \in Ancestry[new] \ Ancestry[old]}
        reinject == IF old = Parent[new] \/ Deep(old, new) THEN {} ELSE discarded \ included
    IN  /\ run.stage = "launched" /\ old # NoBlock
        /\ \/ /\ current' = new
              /\ pool' = Pool(pool.pending, pool.queue, pool.all, StateNonce[new])
              /\ run' = [run EXCEPT !.stage = "reinject", !.reinject = reinject]
              /\ sunk' = {} /\ UNCHANGED skipped
           \/ /\ run' = [run EXCEPT !.stage = "reinject"]
              /\ skipped' = TRUE
              /\ UNCHANGED <<pool, current, sunk>>
        /\ UNCHANGED <<locals, gasPrice, head, asking, resetFrom, dirty, events, announced, heads>>

\* What is mined but not yet dropped from the pending lists.
Mined(p) == {t \in p.pending : Nonce[t] < StateNonce[current][From[t]]}

\* The old branch is walked down from its head.
Reinject ==
    /\ run.stage = "reinject"
    /\ LET height(t) == CHOOSE n \in {Number[b] : b \in {c \in Ancestry[run.from] : t \in Txs[c]}} : TRUE
       IN  \E t \in run.reinject :
              /\ \A u \in run.reinject : height(u) <= height(t)
              /\ IF t \in pool.all THEN UNCHANGED <<pool, locals, events>>
                 ELSE \E from \in {From[t], NoAccount} : add(t, FALSE, from)
              /\ run' = [run EXCEPT !.reinject = @ \ {t}]
    /\ announced' = announced \cap pool'.pending
    /\ sunk' = sunk \cup {From[u] : u \in Mined(pool) \ pool'.all}
    /\ UNCHANGED <<gasPrice, current, head, asking, resetFrom, dirty, heads, skipped>>

\* The nonces after the last of S, for the accounts in it.
NextNonces(nonces, S) ==
    [a \in Account |->
       IF Of(S, a) = {} THEN nonces[a]
       ELSE 1 + CHOOSE n \in {Nonce[t] : t \in Of(S, a)} : \A t \in Of(S, a) : Nonce[t] <= n]

\* What Forward and Filter drop: what is too old, and what cannot be paid.
Invalid(S) ==
    {t \in S : Nonce[t] < StateNonce[current][From[t]] \/ t \notin Payable[current]}

\* What is ready for promoteTx.
ReadyTxs(p, accounts) ==
    UNION {Ready(p.queue \ Invalid(p.queue), a, p.nonces[a]) : a \in accounts}

promoteExecutables(p, accounts) ==
    LET invalid == {t \in Invalid(p.queue) : From[t] \in accounts}
        ready == ReadyTxs(p, accounts)
        inserted == ready \ Refused(p.pending, ready)
        rest == p.queue \ (invalid \cup ready)
        caps == UNION {Of(rest, a) \ Lowest(rest, a, AccountQueue) : a \in accounts \ locals}
        lost == Refused(p.pending, ready) \cup Beaten(p.pending, ready)
    IN  Pool(Added(p.pending, ready), rest \ caps, p.all \ (invalid \cup caps \cup lost),
             NextNonces(p.nonces, inserted))

\* What was mined or cannot be paid is dropped; what follows it, or follows a gap in
\* front, goes back to the queue.
demoteUnexecutables(p) ==
    LET nonce(t) == StateNonce[current][From[t]]
        olds == {t \in p.pending : Nonce[t] < nonce(t)}
        drops == (p.pending \ olds) \ Payable[current]
        invalids == {t \in p.pending \ (olds \cup drops) :
                       \E u \in drops : From[t] = From[u] /\ Nonce[t] > Nonce[u]}
        left == p.pending \ (olds \cup drops \cup invalids)
        gapped == {t \in left : \A u \in Of(left, From[t]) : Nonce[u] # nonce(t)}
    IN  Enqueue(Pool(left \ gapped, p.queue, p.all \ (olds \cup drops), p.nonces),
                invalids \cup gapped)

\* Large remote accounts are cut to the highest level that fits, at least AccountSlots.
truncatePending(p) ==
    LET cut(n) == {t \in p.pending : From[t] \notin locals /\ t \notin Lowest(p.pending, From[t], n)}
        fits(n) == Cardinality(p.pending \ cut(n)) <= GlobalSlots
        levels == {AccountSlots} \cup {n \in AccountSlots .. Cardinality(p.pending) : fits(n)}
        caps == IF Cardinality(p.pending) <= GlobalSlots THEN {}
                ELSE cut(CHOOSE n \in levels : \A m \in levels : m <= n)
        nonces == [a \in Account |-> Lower(p.nonces[a], {Nonce[t] : t \in Of(caps, a)})]
    IN  Pool(p.pending \ caps, p.queue, p.all \ caps, nonces)

\* What truncateQueue may drop: whole remote queues, and the end of one.
QueueOverflows(p) ==
    LET drop == Cardinality(p.queue) - GlobalQueue
        remote == {t \in p.queue : From[t] \notin locals}
        partial(S) == {a \in Account : Of(S, a) # {} /\ Of(S, a) # Of(remote, a)}
    IN  IF drop <= 0 THEN {{}}
        ELSE {S \in SUBSET remote :
                /\ Cardinality(S) = drop \/ (S = remote /\ Cardinality(S) < drop)
                /\ \A a, b \in partial(S) : a = b
                /\ \A t \in S, u \in remote \ S : From[t] = From[u] => Nonce[u] < Nonce[t]}

\* The rest of runReorg under the lock, each pool from the one before.
ReorgRun ==
    LET resetting == run.from # NoBlock
        fresh == IF resetting THEN {e \in run.events : Nonce[e] >= pool.nonces[From[e]]}
                 ELSE run.events
        accounts == IF resetting THEN Account ELSE run.dirty \ {NoAccount}
        ready == ReadyTxs(pool, accounts)
        promoted == ready \ Refused(pool.pending, ready)
    IN  /\ \/ run.stage = "launched" /\ ~resetting
           \/ run.stage = "reinject" /\ run.reinject = {}
        /\ \E p1 \in {promoteExecutables(pool, accounts)} :
           \E p2 \in {IF resetting THEN demoteUnexecutables(p1) ELSE p1} :
           \E p3 \in {truncatePending(p2)} :
           \E drop \in QueueOverflows(p3) :
           \E p \in {Without(p3, drop)} :
              pool' = Pool(p.pending, p.queue, p.all, NextNonces(p.nonces, p.pending))
        /\ run' = [NoRun EXCEPT !.stage = "sending", !.events = Put(fresh, promoted)]
        /\ announced' = (announced \ promoted) \cap pool'.pending
        /\ UNCHANGED <<locals, gasPrice, current, head, asking, resetFrom, dirty, events,
                       heads, skipped, sunk>>

\* NewTxsEvent is sent and the run is over.
Announce ==
    /\ run.stage = "sending"
    /\ announced' = announced \cup (run.events \cap pool.pending)
    /\ run' = NoRun
    /\ UNCHANGED <<pool, locals, gasPrice, current, head, asking, resetFrom, dirty, events,
                   heads, skipped, sunk>>

-----------------------------------------------------------------------------
\* loop drops the queue of a remote account that has been idle for Lifetime.
Evict(a) ==
    /\ Unlocked /\ a \notin locals /\ Of(pool.queue, a) # {}
    /\ pool' = Without(pool, Of(pool.queue, a))
    /\ UNCHANGED <<locals, gasPrice, current, head, asking, resetFrom, dirty, events, run,
                   announced, heads, skipped, sunk>>

\* SetGasPrice drops the remote transactions below the price.
SetGasPrice(price) ==
    /\ Unlocked /\ price # gasPrice
    /\ gasPrice' = price
    /\ pool' = Without(pool, {t \in pool.all : From[t] \notin locals /\ Price[t] < price})
    /\ announced' = announced \cap pool'.pending
    /\ UNCHANGED <<locals, current, head, asking, resetFrom, dirty, events, run, heads, skipped,
                   sunk>>

Init ==
    /\ pool = Pool({}, {}, {}, StateNonce[Genesis])
    /\ locals = {} /\ gasPrice = PriceLimit
    /\ current = Genesis /\ head = Genesis
    /\ asking = {} /\ resetFrom = NoBlock /\ dirty = {} /\ events = {} /\ run = NoRun
    /\ announced = {} /\ heads = 0 /\ skipped = FALSE /\ sunk = {}

Next ==
    \/ \E arrival \in Arrivals : AddTxs(arrival[1], arrival[2])
    \/ RequestPromote
    \/ \E b \in Block : RequestReset(b)
    \/ Launch \/ Reset \/ Reinject \/ ReorgRun \/ Announce
    \/ \E a \in Account : Evict(a)
    \/ \E price \in Prices : SetGasPrice(price)

Spec == Init /\ [][Next]_vars

-----------------------------------------------------------------------------
(***************************************************************************)
(* Properties.                                                             *)
(***************************************************************************)

\* Whatever is added, replaced, discarded, promoted and demoted, the pool's indexes
\* agree: what can be looked up is what is pending or queued, and at most one
\* transaction of an account has a nonce.
IndexesAgree ==
    /\ pool.all = pool.pending \cup pool.queue
    /\ pool.pending \cap pool.queue = {}
    /\ \A t, u \in pool.all : SameSlot(t, u) => t = u

\* Whenever the lock is free, what an account has pending starts at its nonce in the
\* pool's state and Nonce returns a nonce above all of it; with nothing pending it returns
\* the state's nonce.  It returns less only if, while a reset put transactions back, a full
\* pool discarded one of the account that was mined and still pending.
PendingExecutable ==
    Unlocked =>
        \A a \in Account :
            LET nonces == {Nonce[t] : t \in Of(pool.pending, a)}
                state == StateNonce[current][a]
            IN  IF nonces = {} THEN pool.nonces[a] = state \/ (pool.nonces[a] < state /\ a \in sunk)
                ELSE /\ state \in nonces
                     /\ \A n \in nonces : state <= n /\ n < pool.nonces[a]

\* Every pending transaction has been announced or will be by the current or the next
\* run, whatever replaced it when, unless a reset has given up.
PendingAnnounced ==
    ~skipped => pool.pending \subseteq announced \cup events \cup run.events

\* No run leaves a transaction behind that could be executed at once: if an account has
\* nothing pending and a queued transaction at its nonce in the pool's state, a promotion is
\* asked for.  The one exception is what the code does leave behind: removeTx has lowered
\* the pending nonce below the state's for a mined transaction discarded in the last reset,
\* and Ready looks no further.  (Of an account with pending transactions, a run that resets
\* may leave the next behind.)
NoneStranded ==
    \A t \in pool.queue :
        LET a == From[t]
        IN  /\ Unlocked /\ run.stage # "launched" /\ resetFrom = NoBlock
            /\ Of(pool.pending, a) = {} /\ Nonce[t] = StateNonce[current][a]
            => \/ a \in asking \cup dirty
               \/ a \in sunk /\ pool.nonces[a] < StateNonce[current][a]
=============================================================================
