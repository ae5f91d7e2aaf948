------------------------------- MODULE Sealing -------------------------------
(***************************************************************************)
(* From a task to a block in miner/worker.go and Seal of the engine:       *)
(* taskLoop registers the tasks that mainLoop sends and has them sealed,   *)
(* one after the other; a goroutine of Seal waits for the block's time and *)
(* offers the result; resultLoop looks its task up and writes the block;   *)
(* newWorkLoop forgets the tasks that a new head has made stale.           *)
(* A task is the number of its block and everything else that its seal     *)
(* hash covers.  Sealing the same task twice gives the same block.         *)
(***************************************************************************)
EXTENDS Naturals, Sequences

CONSTANTS
    Contents,  \* what blocks of one number differ in: transactions, time, parent
    ResultQueueSize, ChainHeadChanSize, StaleThreshold,
    Goroutine, \* the goroutines Seal can have at a time
    Nobody,
    MaxHead    \* bound on the chain

ASSUME SealingAssumption ==
    /\ {ResultQueueSize, ChainHeadChanSize, StaleThreshold} \subseteq Nat \ {0}
    /\ MaxHead \in Nat /\ Nobody \notin Goroutine

VARIABLES
    head,          \* the number of the chain's CurrentBlock
    posting,       \* who holds the chain's lock and has the head's ChainHeadEvent to
                   \* send: "nobody", "import" or "resultLoop"
    headCh,        \* chainHeadCh
    number,        \* the number of the block that mainLoop is making, 0 if none
    taskLoop,      \* taskLoop: "select", "register" or "seal"
    prev,          \* the task it took last
    stopCh,        \* the goroutine of Seal that waits on its stopCh, if any
    pendingTasks,
    sealing,       \* the task of each goroutine of Seal
    stopped,       \* the goroutines whose stop channel is closed
    results,       \* resultCh
    writing,       \* the tasks of resultLoop between its lookup and its write
    chain,         \* the blocks of this miner in the chain's database
    cleared        \* history: the highest number clearPending was called with

workVars == <<number, taskLoop, prev>>
sealers == <<stopCh, sealing, stopped>>
chainVars == <<head, posting, headCh>>
vars == <<chainVars, workVars, pendingTasks, sealers, results, writing, chain, cleared>>

Tasks == [number : 1 .. MaxHead + 1, content : Contents]

NoTask == [number |-> 0]

Init ==
    /\ head = 0 /\ posting = "nobody" /\ headCh = <<>>
    /\ number = 0
    /\ taskLoop = "select" /\ prev = NoTask
    /\ pendingTasks = {}
    /\ stopCh = Nobody /\ sealing = [g \in Goroutine |-> NoTask] /\ stopped = {}
    /\ results = <<>> /\ writing = {}
    /\ chain = {} /\ cleared = 0

-----------------------------------------------------------------------------
(***************************************************************************)
(* The chain and the two loops of WorkLoop.                                *)
(***************************************************************************)

\* Blocks of others are inserted, on the head or in a reorganisation; one event is sent
\* for the last of them.
Import ==
    /\ posting = "nobody"
    /\ head' \in 1 .. MaxHead
    /\ posting' = "import"
    /\ UNCHANGED <<headCh, workVars, pendingTasks, sealers, results, writing, chain,
                   cleared>>

PostHead ==
    /\ posting # "nobody" /\ Len(headCh) < ChainHeadChanSize
    /\ headCh' = Append(headCh, head) /\ posting' = "nobody"
    /\ UNCHANGED <<head, workVars, pendingTasks, sealers, results, writing, chain, cleared>>

\* mainLoop begins a block on the head.
NewWork ==
    /\ number' = head + 1
    /\ UNCHANGED <<chainVars, taskLoop, prev, pendingTasks, sealers, results, writing,
                   chain, cleared>>

clearEverything(n) ==
    /\ pendingTasks' = {t \in pendingTasks : t.number > n}
    /\ cleared' = IF n > cleared THEN n ELSE cleared

clearPending(n) ==
    /\ pendingTasks' = {t \in pendingTasks : ~(t.number + StaleThreshold <= n)}
    /\ cleared' = IF n > cleared THEN n ELSE cleared

\* newWorkLoop's case of chainHeadCh; a worker that is not running ignores the event.
TakeHead ==
    /\ headCh # <<>>
    /\ headCh' = Tail(headCh)
    /\ clearPending(Head(headCh)) \/ UNCHANGED <<pendingTasks, cleared>>
    /\ UNCHANGED <<head, posting, workVars, sealers, results, writing, chain>>

\* newWorkLoop's case of startCh.
TakeStart ==
    /\ clearPending(head)
    /\ UNCHANGED <<chainVars, workVars, sealers, results, writing, chain>>

-----------------------------------------------------------------------------
(***************************************************************************)
(* taskLoop and Seal.                                                      *)
(***************************************************************************)

\* The goroutines of Seal that have not returned.
Running == {g \in Goroutine : sealing[g] # NoTask}

interruptNothing == stopCh' = Nobody /\ UNCHANGED <<sealing, stopped>>

\* The closure interrupt closes the channel it has.
interrupt ==
    /\ stopped' = stopped \union ({stopCh} \ {Nobody})
    /\ stopCh' = Nobody
    /\ UNCHANGED sealing

\* A task equal to the last one is rejected; another interrupts the sealing of it.
TakeTask ==
    /\ taskLoop = "select" /\ number > 0
    /\ \E t \in Tasks :
         /\ t.number = number
         /\ t # prev
         /\ prev' = t
    /\ taskLoop' = "register"
    /\ interrupt
    /\ UNCHANGED <<chainVars, number, pendingTasks, results, writing, chain, cleared>>

Register ==
    /\ taskLoop = "register"
    /\ pendingTasks' = pendingTasks \union {prev}
    /\ taskLoop' = "seal"
    /\ UNCHANGED <<chainVars, number, prev, sealers, results, writing, chain, cleared>>

\* Seal starts a goroutine, or it returns: with an error, or because the validator has
\* signed recently.
Seal ==
    /\ taskLoop = "seal"
    /\ \/ \E g \in Goroutine \ Running :
            sealing' = [sealing EXCEPT ![g] = prev] /\ stopCh' = g
       \/ UNCHANGED <<sealing, stopCh>>
    /\ taskLoop' = "select"
    /\ UNCHANGED <<chainVars, number, prev, pendingTasks, stopped, results, writing, chain,
                   cleared>>

\* A goroutine ends; to close its channel later has no effect.
Return(g) ==
    /\ sealing' = [sealing EXCEPT ![g] = NoTask]
    /\ stopped' = stopped \ {g}
    /\ stopCh' = IF stopCh = g THEN Nobody ELSE stopCh

\* The delay is over: the result is offered, and dropped if resultCh is full.  A
\* goroutine that was stopped in the meantime may still choose this case.
Deliver ==
    /\ \E g \in Running :
         /\ Return(g)
         /\ results' = IF Len(results) < ResultQueueSize
                       THEN Append(results, sealing[g]) ELSE results
    /\ UNCHANGED <<chainVars, workVars, pendingTasks, writing, chain, cleared>>

Quit ==
    /\ \E g \in stopped : Return(g)
    /\ UNCHANGED <<chainVars, workVars, pendingTasks, results, writing, chain, cleared>>

-----------------------------------------------------------------------------
(***************************************************************************)
(* resultLoop.                                                             *)
(***************************************************************************)

TakeAnyResult ==
    /\ writing = {} /\ posting # "resultLoop" /\ results # <<>>
    /\ results' = Tail(results)
    /\ writing' = {Head(results)} \intersect pendingTasks
    /\ UNCHANGED <<chainVars, workVars, pendingTasks, sealers, chain, cleared>>

\* A block that the chain has, or that has no task, is dropped.
TakeResult ==
    /\ writing = {} /\ posting # "resultLoop" /\ results # <<>>
    /\ results' = Tail(results)
    /\ writing' = ({Head(results)} \intersect pendingTasks) \ chain
    /\ UNCHANGED <<chainVars, workVars, pendingTasks, sealers, chain, cleared>>

\* WriteBlockWithState: the block is stored and becomes the head or not, which total
\* difficulties decide that are not modelled.  An error may leave the chain as it was.
Write ==
    /\ writing # {} /\ posting = "nobody"
    /\ \E t \in writing :
         \/ chain' = chain \union {t} /\ head' = t.number /\ posting' = "resultLoop"
         \/ chain' = chain \union {t} /\ UNCHANGED <<head, posting>>
         \/ UNCHANGED <<chain, head, posting>>
    /\ writing' = {}
    /\ UNCHANGED <<headCh, workVars, pendingTasks, sealers, results, cleared>>

-----------------------------------------------------------------------------
Next ==
    \/ Import \/ PostHead \/ NewWork \/ TakeHead \/ TakeStart
    \/ TakeTask \/ Register \/ Seal \/ Deliver \/ Quit
    \/ TakeResult \/ Write

Spec == Init /\ [][Next]_vars

-----------------------------------------------------------------------------
(***************************************************************************)
(* Properties.                                                             *)
(***************************************************************************)

\* At most one goroutine of Seal has not been told to stop: a validator works on one
\* block at a time, however its tasks follow each other.
OneSealing == \A g, h \in Running \ stopped : g = h

\* "Block found but no relative pending task" is logged as an error: wherever the
\* result of a sealing is, in its goroutine, in resultCh or with resultLoop, its task is
\* pending, unless the chain has left the block behind by staleThreshold.
TaskKept ==
    \A t \in {sealing[g] : g \in Running} \union {results[i] : i \in DOMAIN results} :
        t \in pendingTasks \/ t.number + StaleThreshold <= cleared

\* "duplicate result caused by resubmitting": no block is written a second time,
\* although the same task can be sealed twice with another one in between.
WrittenOnce == writing \intersect chain = {}
=============================================================================
