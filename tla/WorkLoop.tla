------------------------------- MODULE WorkLoop -------------------------------
(***************************************************************************)
(* How new sealing work comes about in miner/worker.go: newWorkLoop turns  *)
(* starts, chain heads and timer ticks into requests, mainLoop executes    *)
(* them (commitNewWork) and reports back on resubmitAdjustCh.  newWorkCh   *)
(* is unbuffered; chainHeadCh and resubmitAdjustCh are buffered, and a     *)
(* send waits while they are full.  A block is known by whether it is made *)
(* on the current head of the chain.  The period of the engine is not      *)
(* zero, and pre-sealing is enabled.                                       *)
(***************************************************************************)
EXTENDS Naturals

CONSTANTS
    ResubmitAdjustChanSize, ChainHeadChanSize,
    MaxTxs  \* bound on the transactions that are queued or counted

ASSUME SizeAssumption ==
    {ResubmitAdjustChanSize, ChainHeadChanSize, MaxTxs} \subseteq Nat \ {0}

VARIABLES
    running,    \* worker.running
    starting,   \* worker.start is about to send on startCh
    startCh,    \* startCh holds a request (its capacity is 1)
    posting,    \* the head's ChainHeadEvent is not sent yet; the chain's lock is held
    headCh,     \* the events in chainHeadCh
    adjustCh,   \* the adjustments in resubmitAdjustCh
    txsCh,      \* the transactions in txsCh
    newTxs,     \* worker.newTxs
    loop,       \* newWorkLoop: "select", "send" (on newWorkCh) or "sent"
    noempty,    \* the noempty of the request it sends
    armed,      \* its timer is running
    tick,       \* its timer's channel holds a tick
    main,       \* mainLoop: its place, the noempty of its request, the parent of its
                \* current block ("none", "head", "old") and how many of the two groups
                \* of transactions, the local and the remote ones, are left
    interrupt,  \* the interrupt of the request that mainLoop is executing
    sealing,    \* history: the block last sent on taskCh is one on the head
    failed      \* history: the last request for a new head met an error

loopVars == <<loop, noempty, armed, tick>>
userVars == <<running, starting>>
vars == <<userVars, startCh, posting, headCh, adjustCh, txsCh, newTxs, loopVars, main,
          interrupt, sealing, failed>>

Init ==
    /\ running = FALSE /\ starting = FALSE /\ startCh = FALSE
    /\ posting = FALSE
    /\ headCh = 0 /\ adjustCh = 0 /\ txsCh = 0 /\ newTxs = 0
    /\ loop = "select" /\ noempty = FALSE /\ armed = FALSE /\ tick = FALSE
    /\ main = [at |-> "select", noempty |-> FALSE, parent |-> "none", groups |-> 0]
    /\ interrupt = "none"
    /\ sealing = FALSE /\ failed = FALSE

-----------------------------------------------------------------------------
(***************************************************************************)
(* The surroundings: Miner.update, the chain and the transaction pool.     *)
(***************************************************************************)

\* worker.start
Start ==
    /\ ~starting
    /\ running' = TRUE /\ starting' = TRUE
    /\ UNCHANGED <<startCh, posting, headCh, adjustCh, txsCh, newTxs, loopVars, main,
                   interrupt, sealing, failed>>

SendStart ==
    /\ starting /\ ~startCh
    /\ starting' = FALSE /\ startCh' = TRUE
    /\ UNCHANGED <<running, posting, headCh, adjustCh, txsCh, newTxs, loopVars, main,
                   interrupt, sealing, failed>>

\* worker.stop
Stop ==
    /\ running /\ ~starting
    /\ running' = FALSE
    /\ UNCHANGED <<starting, startCh, posting, headCh, adjustCh, txsCh, newTxs, loopVars,
                   main, interrupt, sealing, failed>>

\* Blocks become the head under the chain's lock, one or several; one event for them is
\* sent before the lock is released.
NewHead ==
    /\ posting' = TRUE
    /\ sealing' = FALSE
    /\ main' = [main EXCEPT !.parent = IF @ = "none" THEN @ ELSE "old"]
    /\ UNCHANGED <<userVars, startCh, headCh, adjustCh, txsCh, newTxs, loopVars, interrupt,
                   failed>>

PostHead ==
    /\ posting /\ headCh < ChainHeadChanSize
    /\ posting' = FALSE /\ headCh' = headCh + 1
    /\ UNCHANGED <<userVars, startCh, adjustCh, txsCh, newTxs, loopVars, main,
                   interrupt, sealing, failed>>

\* A run of the pool sends what it has promoted to its subscribers.
TxArrives ==
    /\ txsCh + newTxs < MaxTxs
    /\ txsCh' = txsCh + 1
    /\ UNCHANGED <<userVars, startCh, posting, headCh, adjustCh, newTxs, loopVars, main,
                   interrupt, sealing, failed>>

-----------------------------------------------------------------------------
(***************************************************************************)
(* newWorkLoop.                                                            *)
(***************************************************************************)

\* The closure commit up to its send: the work in flight is interrupted.
Commit(empty, signal) ==
    /\ interrupt' = IF main.at = "select" THEN "none" ELSE signal
    /\ loop' = "send" /\ noempty' = ~empty

LoopStart ==
    /\ loop = "select" /\ startCh
    /\ startCh' = FALSE
    /\ Commit(TRUE, "new head")
    /\ UNCHANGED <<userVars, posting, headCh, adjustCh, txsCh, newTxs, armed, tick, main,
                   sealing, failed>>

LoopHeadLazy ==
    /\ loop = "select" /\ headCh > 0
    /\ headCh' = headCh - 1
    /\ IF running /\ newTxs # 0
       THEN Commit(TRUE, "new head")
       ELSE UNCHANGED <<loop, noempty, interrupt>>
    /\ UNCHANGED <<userVars, startCh, posting, adjustCh, txsCh, newTxs, armed, tick, main,
                   sealing, failed>>

LoopHead ==
    /\ loop = "select" /\ headCh > 0
    /\ headCh' = headCh - 1
    /\ IF running THEN Commit(TRUE, "new head") ELSE UNCHANGED <<loop, noempty, interrupt>>
    /\ UNCHANGED <<userVars, startCh, posting, adjustCh, txsCh, newTxs, armed, tick, main,
                   sealing, failed>>

LoopTickOnce ==
    /\ loop = "select" /\ tick
    /\ tick' = FALSE
    /\ IF running /\ newTxs # 0
       THEN Commit(FALSE, "resubmit")
       ELSE UNCHANGED <<loop, noempty, interrupt>>
    /\ UNCHANGED <<userVars, startCh, posting, headCh, adjustCh, txsCh, newTxs, armed,
                   main, sealing, failed>>

LoopTickInverted ==
    /\ loop = "select" /\ tick
    /\ tick' = FALSE
    /\ IF running /\ newTxs = 0
       THEN Commit(FALSE, "resubmit")
       ELSE UNCHANGED <<loop, noempty, interrupt>>
    /\ armed' = (armed \/ (running /\ newTxs # 0))
    /\ UNCHANGED <<userVars, startCh, posting, headCh, adjustCh, txsCh, newTxs, main,
                   sealing, failed>>

\* A tick without new transactions only sets the timer again.
LoopTick ==
    /\ loop = "select" /\ tick
    /\ tick' = FALSE
    /\ IF running /\ newTxs # 0
       THEN Commit(FALSE, "resubmit")
       ELSE UNCHANGED <<loop, noempty, interrupt>>
    /\ armed' = (armed \/ (running /\ newTxs = 0))
    /\ UNCHANGED <<userVars, startCh, posting, headCh, adjustCh, txsCh, newTxs, main,
                   sealing, failed>>

LoopAdjust ==
    /\ loop = "select" /\ adjustCh > 0
    /\ adjustCh' = adjustCh - 1
    /\ UNCHANGED <<userVars, startCh, posting, headCh, txsCh, newTxs, loopVars, main,
                   interrupt, sealing, failed>>

\* The rest of commit, after mainLoop has taken the request.
LoopSent ==
    /\ loop = "sent"
    /\ loop' = "select"
    /\ armed' = TRUE
    /\ newTxs' = 0
    /\ UNCHANGED <<userVars, startCh, posting, headCh, adjustCh, txsCh, noempty, tick,
                   main, interrupt, sealing, failed>>

\* A second tick is dropped when the first is still in the timer's channel.
TimerFires ==
    /\ armed
    /\ armed' = FALSE /\ tick' = TRUE
    /\ UNCHANGED <<userVars, startCh, posting, headCh, adjustCh, txsCh, newTxs, loop,
                   noempty, main, interrupt, sealing, failed>>

-----------------------------------------------------------------------------
(***************************************************************************)
(* mainLoop.                                                               *)
(***************************************************************************)

At(place) == main' = [main EXCEPT !.at = place] /\ UNCHANGED interrupt

\* Back to the select; the request and its interrupt are gone.
Return ==
    /\ main' = [main EXCEPT !.at = "select", !.noempty = FALSE, !.groups = 0]
    /\ interrupt' = "none"

\* newWorkCh: both sides go on.  The request has an interrupt of its own.
TakeRequest ==
    /\ loop = "send" /\ main.at = "select"
    /\ loop' = "sent" /\ noempty' = FALSE
    /\ main' = [main EXCEPT !.at = "prepare", !.noempty = noempty]
    /\ interrupt' = "none"
    /\ failed' = (failed /\ noempty)
    /\ UNCHANGED <<userVars, startCh, posting, headCh, adjustCh, txsCh, newTxs, armed, tick,
                   sealing>>

\* commitNewWork up to makeCurrent: the block is made on the head of this moment.
Prepare ==
    /\ main.at = "prepare"
    /\ main' = [main EXCEPT !.at = IF main.noempty THEN "pending" ELSE "empty",
                            !.noempty = FALSE, !.parent = "head"]
    /\ UNCHANGED <<userVars, startCh, posting, headCh, adjustCh, txsCh, newTxs, loopVars,
                   interrupt, sealing, failed>>

\* commitNewWork returns with an error: there is no account to mine for, or Prepare,
\* the state of the parent or the pool fails.
RequestFails ==
    /\ main.at \in {"prepare", "pending"}
    /\ Return
    /\ failed' = TRUE
    /\ UNCHANGED <<userVars, startCh, posting, headCh, adjustCh, txsCh, newTxs, loopVars,
                   sealing>>

\* worker.commit: taskLoop, which never waits for mainLoop, takes the task.  An error of
\* FinalizeAndAssemble makes no task.
CommitTask ==
    /\ main.at \in {"empty", "full"}
    /\ \/ sealing' = (IF running THEN main.parent = "head" ELSE sealing) /\ UNCHANGED failed
       \/ failed' = TRUE /\ UNCHANGED sealing
    /\ IF main.at = "empty" THEN At("pending") ELSE Return
    /\ UNCHANGED <<userVars, startCh, posting, headCh, adjustCh, txsCh, newTxs, loopVars>>

\* The pool may have no transactions, those of one group, or both.
Pending ==
    /\ main.at = "pending"
    /\ \/ Return
       \/ \E n \in {1, 2} : main' = [main EXCEPT !.at = "fill", !.groups = n]
                           /\ UNCHANGED interrupt
    /\ UNCHANGED <<userVars, startCh, posting, headCh, adjustCh, txsCh, newTxs, loopVars,
                   sealing, failed>>

\* commitTransactions for one group, up to the check of interrupt that ends it.
Fill ==
    /\ main.at = "fill"
    /\ IF interrupt = "new head" THEN Return ELSE At("adjust")
    /\ UNCHANGED <<userVars, startCh, posting, headCh, adjustCh, txsCh, newTxs, loopVars,
                   sealing, failed>>

\* It waits for room in resubmitAdjustCh: the group was executed, or a resubmission
\* interrupted it.
SendAdjust ==
    /\ main.at = "adjust" /\ adjustCh < ResubmitAdjustChanSize
    /\ adjustCh' = adjustCh + 1
    /\ main' = [main EXCEPT !.at = IF main.groups = 1 THEN "full" ELSE "fill",
                            !.groups = @ - 1]
    /\ UNCHANGED <<userVars, startCh, posting, headCh, txsCh, newTxs, loopVars,
                   interrupt, sealing, failed>>

\* A side block that may be an uncle makes mainLoop commit its block once more.
SideEvent ==
    /\ main.at = "select" /\ running /\ main.parent # "none"
    /\ At("full")
    /\ UNCHANGED <<userVars, startCh, posting, headCh, adjustCh, txsCh, newTxs, loopVars,
                   sealing, failed>>

\* A worker that does not run executes them on its block, and leaves them uncounted if the
\* block is full.
CountTx ==
    /\ main.at = "select" /\ txsCh > 0
    /\ txsCh' = txsCh - 1
    /\ \/ newTxs' = newTxs + 1
       \/ ~running /\ main.parent # "none" /\ UNCHANGED newTxs
    /\ UNCHANGED <<userVars, startCh, posting, headCh, adjustCh, loopVars, main,
                   interrupt, sealing, failed>>

-----------------------------------------------------------------------------
Environment == Start \/ SendStart \/ Stop \/ NewHead \/ PostHead \/ TxArrives \/ TimerFires

NewWorkLoop == LoopStart \/ LoopHead \/ LoopTick \/ LoopAdjust \/ LoopSent

\* commitNewWork
Execute == Prepare \/ RequestFails \/ CommitTask \/ Pending \/ Fill \/ SendAdjust

MainLoop == TakeRequest \/ Execute \/ SideEvent \/ CountTx

Next == Environment \/ NewWorkLoop \/ MainLoop

\* Goroutines run, the timer goes off, and a select, which chooses among its ready
\* cases at random, starves none of them.
Fairness ==
    /\ WF_vars(SendStart) /\ WF_vars(PostHead) /\ WF_vars(TimerFires)
    /\ SF_vars(LoopStart) /\ SF_vars(LoopHead) /\ SF_vars(LoopTick) /\ SF_vars(LoopAdjust)
    /\ WF_vars(LoopSent)
    /\ SF_vars(TakeRequest) /\ SF_vars(CountTx) /\ WF_vars(Execute)

Spec == Init /\ [][Next]_vars

FairSpec == Spec /\ Fairness

-----------------------------------------------------------------------------
(***************************************************************************)
(* Properties.                                                             *)
(***************************************************************************)

\* newWorkLoop waits for mainLoop to take a request, and mainLoop for newWorkLoop to
\* take an adjustment.
Standoff ==
    loop = "send" /\ main.at = "adjust" /\ adjustCh = ResubmitAdjustChanSize

\* While the worker runs, the timer that makes it resubmit is never lost, whatever the
\* order of starts, stops, ticks and heads: it is set, or its tick is waiting, or a
\* commit that sets it is under way or requested.
TimerKept == running => armed \/ tick \/ starting \/ startCh \/ loop # "select"

\* The loops follow the chain: when a running worker's chain has a new head, a block on
\* that head is sent to be sealed, unless the head changes again, the worker is
\* stopped, an error stops commitNewWork, or the loops wait for each other.
HeadFollowed ==
    (running /\ ~sealing) ~> (sealing \/ posting \/ ~running \/ failed \/ Standoff)

\* newTxs counts arrivals "since last sealing work submitting": while a running worker has
\* transactions counted, mainLoop goes on to take another request, which reads the pool
\* again, unless the loops wait for each other.  It does not hold for what is counted
\* between the handover of a request and the end of commit, when the loop is at "sent":
\* commit resets the counter only then, and forgets it.
TxsResubmitted ==
    (newTxs > 0 /\ loop # "sent") ~> (loop = "sent" \/ ~running \/ Standoff)

\* "commit aborts in-flight transaction execution with given signal and resubmits a new
\* one": a commit that has begun gets its request through.
CommitResubmits == loop = "send" ~> loop = "sent"
=============================================================================
