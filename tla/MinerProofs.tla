----------------------------- MODULE MinerProofs -----------------------------
(***************************************************************************)
(* Proofs about Miner and Sealing: whatever the user and the downloader    *)
(* do, the worker follows the intention kept by Miner.update; however its  *)
(* loops and the goroutines of Seal interleave, one block is sealed at a   *)
(* time, no task is lost and no block is written twice.                    *)
(***************************************************************************)
EXTENDS Miner, Sealing, SequenceTheorems, TLAPS

(***************************************************************************)
(* Miner.                                                                  *)
(***************************************************************************)
\* The places of update at which worker.start has set the flag but shouldStart may
\* still have to be set.
Sending == {"send", "send and unsubscribe"}

\* The flag of the worker, at every place of update.
Intent ==
    /\ update \notin Sending => running = (shouldStart /\ canStart)
    /\ update \in Sending => running /\ canStart

\* What update knows of the sync: it handles the end of one only when none is under
\* way, and one that is under way has been announced to it.
SyncKnown ==
    /\ subscribed /\ sync = "syncing" => update = "start event" \/ ~canStart
    /\ subscribed /\ update \in {"done event", "failed event"} => sync # "syncing"

\* The subscription outlives the first DoneEvent only by the steps of its handler.
Unsubscribed ==
    /\ done => ~subscribed \/ update \in {"send and unsubscribe", "unsubscribe"}
    /\ ~subscribed => update \notin {"start event", "done event", "failed event",
                                     "send and unsubscribe", "unsubscribe"}

\* After a stop that no start can follow, nothing is left that starts the worker.
Unwanted ==
    ~wanted => /\ starters = 0 /\ update \notin Sending \cup {"start"}
               /\ shouldStart => update = "stop"

\* The part of TypeOK that the other conjuncts need.
MinerTypes ==
    /\ running \in BOOLEAN /\ startCh \in BOOLEAN /\ shouldStart \in BOOLEAN
    /\ canStart \in BOOLEAN /\ subscribed \in BOOLEAN /\ wanted \in BOOLEAN
    /\ done \in BOOLEAN
    /\ update \in {"select", "start", "stop", "start event", "done event", "failed event",
                   "send", "send and unsubscribe", "unsubscribe"}
    /\ user \in {"idle", "stopping"}
    /\ sync \in {"idle", "post start", "syncing", "post done", "post failed"}

MinerInv == MinerTypes /\ Intent /\ SyncKnown /\ Unsubscribed

\* The initial state satisfies the inductive invariant.
LEMMA MinerInitInv == MinerInit => MinerInv
  BY DEF MinerInit, MinerInv, MinerTypes, Intent, SyncKnown, Unsubscribed, Sending

\* Every step of the user, the downloader, update and the worker preserves it.
LEMMA MinerStepInv == MinerInv /\ [MinerNext]_minerVars => MinerInv'
<1> SUFFICES ASSUME MinerInv, [MinerNext]_minerVars PROVE MinerInv'
  OBVIOUS
<1> USE DEF MinerInv, MinerTypes, Intent, SyncKnown, Unsubscribed, Sending
<1>1. CASE StartMining
  <2>1. MinerTypes'
    BY <1>1, Zenon DEF StartMining
  <2> QED
    BY <1>1, <2>1 DEF StartMining
<1>2. CASE StopMining
  <2>1. MinerTypes'
    BY <1>2, Zenon DEF StopMining
  <2> QED
    BY <1>2, <2>1 DEF StopMining
<1>3. CASE SyncStart
  BY <1>3 DEF SyncStart
<1>4. CASE SyncEnd
  BY <1>4 DEF SyncEnd
<1>5. CASE ReceiveStart
  BY <1>5 DEF ReceiveStart
<1>6. CASE ReceiveStop
  <2>1. MinerTypes'
    BY <1>6, Zenon DEF ReceiveStop
  <2> QED
    BY <1>6, <2>1 DEF ReceiveStop
<1>7. CASE ReceiveEvent
  BY <1>7 DEF ReceiveEvent
<1>8. CASE HandleStart
  BY <1>8 DEF HandleStart, WorkerStart
<1>9. CASE HandleStop
  BY <1>9 DEF HandleStop
<1>10. CASE HandleStartEvent
  BY <1>10 DEF HandleStartEvent
<1>11. CASE HandleFailedEvent
  BY <1>11 DEF HandleFailedEvent, WorkerStart
<1>12. CASE HandleDoneEvent
  BY <1>12 DEF HandleDoneEvent, WorkerStart
<1>13. CASE SendStart
  BY <1>13 DEF SendStart
<1>14. CASE Unsubscribe
  BY <1>14 DEF Unsubscribe
<1>15. CASE WorkerTakesStart
  <2>1. MinerTypes'
    <3>1. startCh' \in BOOLEAN
      BY <1>15, Zenon DEF WorkerTakesStart
    <3> QED
      BY <1>15, <3>1 DEF WorkerTakesStart
  <2> QED
    BY <1>15, <2>1 DEF WorkerTakesStart
<1>16. CASE UNCHANGED minerVars
  <2>1. /\ running' = running /\ startCh' = startCh /\ update' = update
        /\ shouldStart' = shouldStart /\ canStart' = canStart
        /\ subscribed' = subscribed /\ starters' = starters /\ user' = user
        /\ sync' = sync /\ wanted' = wanted /\ done' = done
    BY <1>16, Zenon DEF minerVars
  <2>2. MinerTypes'
    <3>1. /\ running' \in BOOLEAN /\ startCh' \in BOOLEAN /\ shouldStart' \in BOOLEAN
          /\ canStart' \in BOOLEAN /\ subscribed' \in BOOLEAN /\ wanted' \in BOOLEAN
          /\ done' \in BOOLEAN
      BY <2>1, Zenon
    <3> QED
      BY <2>1, <3>1
  <2>3. Intent'
    BY <2>1
  <2>4. SyncKnown'
    BY <2>1
  <2>5. Unsubscribed'
    BY <2>1
  <2> QED
    BY <2>2, <2>3, <2>4, <2>5
<1> QED
  BY <1>1, <1>2, <1>3, <1>4, <1>5, <1>6, <1>7, <1>8, <1>9, <1>10, <1>11, <1>12, <1>13,
     <1>14, <1>15, <1>16 DEF MinerNext, Receive, Handle

\* The inductive invariant holds in every reachable state.
THEOREM Invariance == MinerSpec => []MinerInv
  BY MinerInitInv, MinerStepInv, PTL DEF MinerSpec

\* A start is received only from a goroutine that waits in Miner.Start.
THEOREM TypeCorrect == MinerSpec => []TypeOK
<1> DEFINE Starters == starters \in 0 .. MaxStarters
<1>1. MinerInit => Starters
  BY MaxStartersAssumption DEF MinerInit
<1>2. Starters /\ [MinerNext]_minerVars => Starters'
  <2> SUFFICES ASSUME Starters, [MinerNext]_minerVars PROVE Starters'
    OBVIOUS
  <2>1. \/ UNCHANGED starters \/ ReceiveStart
        \/ starters < MaxStarters /\ starters' = starters + 1
    BY Zenon DEF minerVars, MinerNext, Receive, Handle, StartMining, StopMining, SyncStart, SyncEnd,
       ReceiveStop, ReceiveEvent, HandleStart, HandleStop, HandleStartEvent,
       HandleFailedEvent, HandleDoneEvent, SendStart, Unsubscribe, WorkerTakesStart
  <2>2. ReceiveStart => starters > 0 /\ starters' = starters - 1
    BY DEF ReceiveStart
  <2> QED
    BY <2>1, <2>2, MaxStartersAssumption, SMT
<1>3. MinerInv /\ Starters => TypeOK
  BY DEF MinerInv, MinerTypes, TypeOK
<1> QED
  BY <1>1, <1>2, <1>3, Invariance, PTL DEF MinerSpec

\* Whenever update waits, the worker runs exactly when update intends it to.
THEOREM WorkerFollowsIntent == MinerSpec => []IntentKept
<1>1. MinerInv => IntentKept
  BY DEF MinerInv, Intent, Sending, IntentKept
<1> QED
  BY <1>1, Invariance, PTL

\* Nothing makes the worker run during a sync that update has been told of.
THEOREM NeverMinesDuringSync == MinerSpec => []NoMiningDuringSync
<1>1. MinerInv => NoMiningDuringSync
  BY DEF MinerInv, MinerTypes, Intent, SyncKnown, Sending, NoMiningDuringSync
<1> QED
  BY <1>1, Invariance, PTL

\* After the first successful sync only calls of the user start or stop the worker.
THEOREM SyncsNoLongerMatter == MinerSpec => UndisturbedAfterDone
<1>1. MinerInv /\ [MinerNext]_minerVars => [done /\ running' # running => update \in {"start", "stop"}]_minerVars
  <2> SUFFICES ASSUME MinerInv, MinerNext, done, running' # running
               PROVE  update \in {"start", "stop"}
    BY DEF minerVars
  <2>1. /\ ~HandleStartEvent /\ ~HandleFailedEvent /\ ~HandleDoneEvent
    BY DEF MinerInv, Unsubscribed, HandleStartEvent, HandleFailedEvent, HandleDoneEvent
  <2>2. HandleStart \/ HandleStop
    BY <2>1 DEF MinerNext, Receive, Handle, StartMining, StopMining, SyncStart, SyncEnd,
       ReceiveStart, ReceiveStop, ReceiveEvent, SendStart, Unsubscribe, WorkerTakesStart
  <2> QED
    BY <2>2 DEF HandleStart, HandleStop
<1> QED
  BY <1>1, Invariance, PTL DEF MinerSpec, UndisturbedAfterDone

\* After StopMining has returned, only a StartMining that follows it, or one whose
\* goroutine is still waiting, starts the worker.
THEOREM StopIsFinal == MinerSpec => StopTerminates
<1>0. starters > 0 => starters # 0
  OBVIOUS
<1>1. MinerInit => Unwanted
  BY DEF MinerInit, Unwanted, Sending
<1>2. MinerInv /\ Unwanted /\ [MinerNext]_minerVars => Unwanted'
  <2> SUFFICES ASSUME MinerInv, Unwanted, [MinerNext]_minerVars PROVE Unwanted'
    OBVIOUS
  <2> USE DEF MinerInv, MinerTypes, Intent, Unwanted, Sending
  <2>1. CASE StartMining
    BY <2>1, Zenon DEF StartMining
  <2>2. CASE ReceiveStart
    BY <2>2, <1>0, Zenon DEF ReceiveStart
  <2>3. CASE ReceiveStop
    BY <2>3 DEF ReceiveStop
  <2>4. CASE ReceiveEvent
    BY <2>4 DEF ReceiveEvent
  <2>5. CASE HandleStart
    BY <2>5 DEF HandleStart, WorkerStart
  <2>6. CASE HandleStop
    BY <2>6 DEF HandleStop
  <2>7. CASE HandleStartEvent
    BY <2>7 DEF HandleStartEvent
  <2>8. CASE HandleFailedEvent
    BY <2>8 DEF HandleFailedEvent, WorkerStart
  <2>9. CASE HandleDoneEvent
    BY <2>9 DEF HandleDoneEvent, WorkerStart
  <2>10. CASE SendStart
    BY <2>10 DEF SendStart
  <2>11. CASE Unsubscribe
    BY <2>11 DEF Unsubscribe
  <2>12. CASE UNCHANGED <<update, shouldStart, starters, wanted>>
    BY <2>12
  <2> QED
    BY <2>1, <2>2, <2>3, <2>4, <2>5, <2>6, <2>7, <2>8, <2>9, <2>10, <2>11, <2>12
       DEF minerVars, MinerNext, Receive, Handle, StopMining, SyncStart, SyncEnd, WorkerTakesStart
<1>3. MinerInv /\ Unwanted /\ [MinerNext]_minerVars => [~running /\ running' => wanted]_minerVars
  <2> SUFFICES ASSUME MinerInv, Unwanted, MinerNext, ~running, running' PROVE wanted
    BY DEF minerVars
  <2>1. HandleStart \/ HandleFailedEvent \/ HandleDoneEvent
    BY DEF MinerNext, Receive, Handle, StartMining, StopMining, SyncStart, SyncEnd,
       ReceiveStart, ReceiveStop, ReceiveEvent, HandleStop, HandleStartEvent, SendStart,
       Unsubscribe, WorkerTakesStart
  <2> QED
    BY <2>1 DEF MinerInv, MinerTypes, Unwanted, Sending, HandleStart, HandleFailedEvent,
       HandleDoneEvent, WorkerStart
<1> QED
  BY <1>1, <1>2, <1>3, Invariance, PTL DEF MinerSpec, StopTerminates

-----------------------------------------------------------------------------
(***************************************************************************)
(* Sealing.                                                                *)
(***************************************************************************)
SealingTypes ==
    /\ head \in Nat /\ headCh \in Seq(Nat) /\ cleared \in Nat
    /\ prev \in Tasks \union {NoTask} /\ (taskLoop # "select" => prev \in Tasks)
    /\ pendingTasks \subseteq Tasks
    /\ sealing \in [Goroutine -> Tasks \union {NoTask}]
    /\ stopCh \in Goroutine \union {Nobody}
    /\ results \in Seq(Tasks) /\ writing \subseteq Tasks

\* A goroutine that has not been stopped is the one taskLoop can stop, and there is none
\* from the interrupt to the next call of Seal.
LiveStoppable ==
    /\ Running \ stopped \subseteq {stopCh}
    /\ taskLoop # "select" => stopCh = Nobody

\* The task is pending, or stale.
Kept(t) == t \in pendingTasks \/ t.number + StaleThreshold <= cleared

\* What TaskKept says of the results, and of a task that is about to be sealed.
TasksKept ==
    /\ \A g \in Running : Kept(sealing[g])
    /\ \A i \in DOMAIN results : Kept(results[i])
    /\ taskLoop = "seal" => Kept(prev)

SealingInv == SealingTypes /\ LiveStoppable /\ TasksKept /\ WrittenOnce

-----------------------------------------------------------------------------
LEMMA NoTaskIsNone == NoTask \notin Tasks
BY SealingAssumption DEF NoTask, Tasks

LEMMA SealingInitInv == Init => SealingInv
<1> SUFFICES ASSUME Init PROVE SealingInv
  OBVIOUS
<1>1. SealingTypes
  BY DEF Init, SealingTypes
<1>2. Running = {}
  BY DEF Init, Running
<1>3. LiveStoppable /\ TasksKept /\ WrittenOnce
  BY <1>2 DEF Init, LiveStoppable, TasksKept, WrittenOnce
<1> QED
  BY <1>1, <1>3 DEF SealingInv

\* clearPending keeps every task that is not stale.
LEMMA ClearKeeps ==
    ASSUME SealingTypes, NEW n \in Nat, clearPending(n)
    PROVE  /\ cleared' \in Nat /\ pendingTasks' \subseteq Tasks
           /\ \A t \in Tasks : Kept(t) => Kept(t)'
<1>1. StaleThreshold \in Nat /\ cleared \in Nat /\ pendingTasks \subseteq Tasks
  BY SealingAssumption DEF SealingTypes
<1>2. cleared' \in Nat /\ cleared' >= cleared /\ cleared' >= n /\ pendingTasks' \subseteq Tasks
  BY <1>1 DEF clearPending
<1>3. ASSUME NEW t \in Tasks, Kept(t) PROVE Kept(t)'
  <2>1. t.number \in Nat
    BY SealingAssumption DEF Tasks
  <2>2. CASE t \in pendingTasks
    BY <1>1, <1>2, <2>1, <2>2 DEF clearPending, Kept
  <2>3. CASE t.number + StaleThreshold <= cleared
    BY <1>1, <1>2, <2>1, <2>3 DEF Kept
  <2> QED
    BY <1>3, <2>2, <2>3 DEF Kept
<1> QED
  BY <1>2, <1>3

\* newWorkLoop only forgets tasks.
LEMMA ClearInv ==
    ASSUME SealingInv, NEW n \in Nat, clearPending(n), head' \in Nat, headCh' \in Seq(Nat),
           UNCHANGED <<workVars, sealers, results, writing, chain>>
    PROVE  SealingInv'
<1>1. /\ cleared' \in Nat /\ pendingTasks' \subseteq Tasks
      /\ \A t \in Tasks : Kept(t) => Kept(t)'
  BY ClearKeeps DEF SealingInv
<1>2. UNCHANGED <<number, taskLoop, prev, stopCh, sealing, stopped, results, writing, chain>>
  BY DEF workVars, sealers
<1>3. SealingTypes'
  BY <1>1, <1>2 DEF SealingInv, SealingTypes
<1>4. LiveStoppable' /\ WrittenOnce'
  BY <1>2 DEF SealingInv, LiveStoppable, Running, WrittenOnce
<1>5. TasksKept'
  <2>1. \A g \in Running : sealing[g] \in Tasks
    BY DEF SealingInv, SealingTypes, Running
  <2>2. \A i \in DOMAIN results : results[i] \in Tasks
    BY DEF SealingInv, SealingTypes
  <2>3. taskLoop = "seal" => prev \in Tasks
    BY DEF SealingInv, SealingTypes
  <2>4. Running' = Running
    BY <1>2 DEF Running
  <2> QED
    BY <1>1, <1>2, <2>1, <2>2, <2>3, <2>4 DEF SealingInv, TasksKept
<1> QED
  BY <1>3, <1>4, <1>5 DEF SealingInv

LEMMA ChainStepInv ==
    SealingInv /\ (Import \/ PostHead \/ NewWork \/ UNCHANGED vars) => SealingInv'
<1> SUFFICES ASSUME SealingInv, Import \/ PostHead \/ NewWork \/ UNCHANGED vars PROVE SealingInv'
  OBVIOUS
<1>1. /\ UNCHANGED <<taskLoop, prev, pendingTasks, stopCh, sealing, stopped, results>>
      /\ UNCHANGED <<writing, chain, cleared>>
  BY DEF Import, PostHead, NewWork, vars, workVars, sealers
<1>2. head' \in Nat
  BY SealingAssumption DEF SealingInv, SealingTypes, Import, PostHead, NewWork, vars, chainVars
<1>3. headCh' \in Seq(Nat)
  <2>1. head \in Nat /\ headCh \in Seq(Nat)
    BY DEF SealingInv, SealingTypes
  <2>2. headCh' = headCh \/ headCh' = Append(headCh, head)
    BY DEF Import, PostHead, NewWork, vars, chainVars
  <2> QED
    BY <2>1, <2>2, AppendProperties
<1>4. SealingTypes'
  BY <1>1, <1>2, <1>3 DEF SealingInv, SealingTypes
<1>5. LiveStoppable' /\ WrittenOnce'
  BY <1>1 DEF SealingInv, LiveStoppable, Running, WrittenOnce
<1>6. TasksKept'
  BY <1>1 DEF SealingInv, TasksKept, Running, Kept
<1> QED
  BY <1>4, <1>5, <1>6 DEF SealingInv

LEMMA TakeHeadInv == SealingInv /\ (TakeHead \/ TakeStart) => SealingInv'
<1> SUFFICES ASSUME SealingInv, TakeHead \/ TakeStart PROVE SealingInv'
  OBVIOUS
<1>1. CASE TakeStart
  <2>1. head \in Nat /\ headCh \in Seq(Nat)
    BY DEF SealingInv, SealingTypes
  <2>2. /\ clearPending(head) /\ head' = head /\ headCh' = headCh
        /\ UNCHANGED <<workVars, sealers, results, writing, chain>>
    BY <1>1 DEF TakeStart, chainVars
  <2> QED
    BY <2>1, <2>2, ClearInv
<1>2. CASE TakeHead
  <2>1. /\ headCh # <<>> /\ headCh' = Tail(headCh) /\ head' = head
        /\ clearPending(Head(headCh)) \/ UNCHANGED <<pendingTasks, cleared>>
        /\ UNCHANGED <<workVars, sealers, results, writing, chain>>
    BY <1>2 DEF TakeHead
  <2>2. Head(headCh) \in Nat /\ headCh' \in Seq(Nat) /\ head' \in Nat
    BY <2>1, HeadTailProperties DEF SealingInv, SealingTypes
  <2>3. CASE clearPending(Head(headCh))
    BY <2>1, <2>2, <2>3, ClearInv
  <2>4. CASE UNCHANGED <<pendingTasks, cleared>>
    <3>1. UNCHANGED <<taskLoop, prev, stopCh, sealing, stopped, results, writing, chain>>
      BY <2>1 DEF workVars, sealers
    <3>2. SealingTypes'
      BY <2>2, <2>4, <3>1 DEF SealingInv, SealingTypes
    <3>3. LiveStoppable' /\ WrittenOnce' /\ TasksKept'
      BY <2>4, <3>1 DEF SealingInv, LiveStoppable, Running, WrittenOnce, TasksKept, Kept
    <3> QED
      BY <3>2, <3>3 DEF SealingInv
  <2> QED
    BY <2>1, <2>3, <2>4
<1> QED
  BY <1>1, <1>2

LEMMA TakeTaskInv == SealingInv /\ TakeTask => SealingInv'
<1> SUFFICES ASSUME SealingInv, TakeTask PROVE SealingInv'
  OBVIOUS
<1>1. /\ taskLoop' = "register" /\ prev' \in Tasks /\ stopCh' = Nobody
      /\ stopped' = stopped \union ({stopCh} \ {Nobody})
      /\ UNCHANGED <<head, headCh, pendingTasks, sealing, results, writing, chain, cleared>>
  BY DEF TakeTask, interrupt, chainVars
<1>2. SealingTypes'
  BY <1>1 DEF SealingInv, SealingTypes
<1>3. LiveStoppable'
  <2>1. Running' = Running /\ Running \subseteq Goroutine
    BY <1>1 DEF Running
  <2>2. Nobody \notin Running
    BY <2>1, SealingAssumption
  <2> QED
    BY <1>1, <2>1, <2>2 DEF SealingInv, LiveStoppable
<1>4. TasksKept' /\ WrittenOnce'
  BY <1>1 DEF SealingInv, TasksKept, Running, Kept, WrittenOnce
<1> QED
  BY <1>2, <1>3, <1>4 DEF SealingInv

LEMMA RegisterInv == SealingInv /\ Register => SealingInv'
<1> SUFFICES ASSUME SealingInv, Register PROVE SealingInv'
  OBVIOUS
<1>1. /\ taskLoop = "register" /\ taskLoop' = "seal"
      /\ pendingTasks' = pendingTasks \union {prev}
      /\ UNCHANGED <<head, headCh, prev, stopCh, sealing, stopped, results, writing>>
      /\ UNCHANGED <<chain, cleared>>
  BY DEF Register, chainVars, sealers
<1>2. SealingTypes'
  BY <1>1 DEF SealingInv, SealingTypes
<1>3. LiveStoppable' /\ WrittenOnce'
  BY <1>1 DEF SealingInv, LiveStoppable, Running, WrittenOnce
<1>4. TasksKept'
  BY <1>1 DEF SealingInv, TasksKept, Running, Kept
<1> QED
  BY <1>2, <1>3, <1>4 DEF SealingInv

LEMMA SealInv == SealingInv /\ Seal => SealingInv'
<1> SUFFICES ASSUME SealingInv, Seal PROVE SealingInv'
  OBVIOUS
<1>1. /\ taskLoop = "seal" /\ taskLoop' = "select" /\ stopCh = Nobody /\ Kept(prev)
      /\ UNCHANGED <<head, headCh, prev, pendingTasks, stopped, results, writing>>
      /\ UNCHANGED <<chain, cleared>>
  BY DEF Seal, chainVars, SealingInv, LiveStoppable, TasksKept
<1>2. WrittenOnce'
  BY <1>1 DEF SealingInv, WrittenOnce
<1>3. Running \ stopped = {}
  BY <1>1, SealingAssumption DEF SealingInv, LiveStoppable, Running
<1>4. CASE UNCHANGED <<sealing, stopCh>>
  BY <1>1, <1>2, <1>4 DEF SealingInv, SealingTypes, LiveStoppable, Running, TasksKept, Kept
<1>5. CASE \E g \in Goroutine \ Running : sealing' = [sealing EXCEPT ![g] = prev] /\ stopCh' = g
  <2>1. PICK g \in Goroutine \ Running : sealing' = [sealing EXCEPT ![g] = prev] /\ stopCh' = g
    BY <1>5
  <2>2. SealingTypes'
    BY <1>1, <2>1 DEF SealingInv, SealingTypes
  <2>3. Running' \subseteq Running \union {g}
    BY <2>1 DEF SealingInv, SealingTypes, Running
  <2>4. LiveStoppable'
    BY <1>1, <1>3, <2>1, <2>3 DEF LiveStoppable
  <2>5. \A h \in Running' : (sealing'[h] = sealing[h] /\ h \in Running) \/ sealing'[h] = prev
    BY <2>1, <2>3 DEF SealingInv, SealingTypes
  <2>6. TasksKept'
    BY <1>1, <2>5 DEF SealingInv, TasksKept, Kept
  <2> QED
    BY <1>2, <2>2, <2>4, <2>6 DEF SealingInv
<1> QED
  BY <1>4, <1>5 DEF Seal

\* A goroutine of Seal ends; its result, if it offers one, has its task.
LEMMA ReturnInv == SealingInv /\ (Deliver \/ Quit) => SealingInv'
<1> SUFFICES ASSUME SealingInv, Deliver \/ Quit PROVE SealingInv'
  OBVIOUS
<1>1. /\ UNCHANGED <<head, headCh, taskLoop, prev, pendingTasks, writing, chain, cleared>>
  BY DEF Deliver, Quit, chainVars, workVars
<1>2. PICK g : /\ Return(g)
               /\ \/ results' = results
                  \/ g \in Running /\ results' = Append(results, sealing[g])
  BY DEF Deliver, Quit
<1>3. \A h \in Running : sealing[h] \in Tasks /\ Kept(sealing[h])
  BY DEF SealingInv, SealingTypes, TasksKept, Running
<1>4. results' \in Seq(Tasks) /\ \A i \in DOMAIN results' : Kept(results'[i])
  <2>1. CASE results' = results
    BY <2>1 DEF SealingInv, SealingTypes, TasksKept
  <2>2. CASE g \in Running /\ results' = Append(results, sealing[g])
    <3>1. /\ results' \in Seq(Tasks) /\ Len(results') = Len(results) + 1
          /\ \A i \in 1 .. Len(results) : results'[i] = results[i]
          /\ results'[Len(results) + 1] = sealing[g]
      BY <1>3, <2>2, AppendProperties DEF SealingInv, SealingTypes
    <3>2. ASSUME NEW i \in DOMAIN results' PROVE Kept(results'[i])
      <4>1. i \in 1 .. Len(results) + 1 /\ Len(results) \in Nat /\ DOMAIN results = 1 .. Len(results)
        BY <3>1 DEF SealingInv, SealingTypes
      <4>2. CASE i = Len(results) + 1
        BY <1>3, <2>2, <3>1, <4>2
      <4>3. CASE i \in 1 .. Len(results)
        BY <3>1, <4>1, <4>3 DEF SealingInv, TasksKept
      <4> QED
        BY <4>1, <4>2, <4>3
    <3> QED
      BY <3>1, <3>2
  <2> QED
    BY <1>2, <2>1, <2>2
<1>5. /\ sealing' = [sealing EXCEPT ![g] = NoTask] /\ stopped' = stopped \ {g}
      /\ stopCh' = IF stopCh = g THEN Nobody ELSE stopCh
  BY <1>2 DEF Return
<1>6. SealingTypes'
  BY <1>1, <1>4, <1>5 DEF SealingInv, SealingTypes
<1>7. Running' = Running \ {g} /\ \A h \in Running' : sealing'[h] = sealing[h]
  BY <1>5 DEF SealingInv, SealingTypes, Running
<1>8. LiveStoppable'
  BY <1>1, <1>5, <1>7 DEF SealingInv, LiveStoppable
<1>9. TasksKept'
  <2>1. \A h \in Running' : Kept(sealing'[h])
    BY <1>3, <1>7
  <2> QED
    BY <1>1, <1>4, <2>1 DEF SealingInv, TasksKept, Kept
<1>10. WrittenOnce'
  BY <1>1 DEF SealingInv, WrittenOnce
<1> QED
  BY <1>6, <1>8, <1>9, <1>10 DEF SealingInv

LEMMA ResultInv == SealingInv /\ (TakeResult \/ Write) => SealingInv'
<1> SUFFICES ASSUME SealingInv, TakeResult \/ Write PROVE SealingInv'
  OBVIOUS
<1>1. /\ UNCHANGED <<headCh, taskLoop, prev, pendingTasks, stopCh, sealing, stopped, cleared>>
  BY DEF TakeResult, Write, chainVars, workVars, sealers
<1>2. LiveStoppable'
  BY <1>1 DEF SealingInv, LiveStoppable, Running
<1>3. CASE TakeResult
  <2>1. /\ results # <<>> /\ results' = Tail(results) /\ head' = head
        /\ writing' = ({Head(results)} \intersect pendingTasks) \ chain /\ chain' = chain
    BY <1>3 DEF TakeResult, chainVars
  <2>2. results' \in Seq(Tasks) /\ \A i \in DOMAIN results' : \E j \in DOMAIN results : results'[i] = results[j]
    <3>1. /\ results' \in Seq(Tasks) /\ Len(results') = Len(results) - 1 /\ Len(results) \in Nat
          /\ \A i \in 1 .. Len(results') : results'[i] = results[i + 1]
      BY <2>1, HeadTailProperties DEF SealingInv, SealingTypes
    <3>2. DOMAIN results' = 1 .. Len(results') /\ DOMAIN results = 1 .. Len(results)
      BY <3>1 DEF SealingInv, SealingTypes
    <3>3. \A i \in 1 .. Len(results') : i + 1 \in DOMAIN results
      BY <3>1, <3>2
    <3> QED
      BY <3>1, <3>2, <3>3
  <2>3. SealingTypes' /\ WrittenOnce'
    BY <1>1, <2>1, <2>2 DEF SealingInv, SealingTypes, WrittenOnce
  <2>4. TasksKept'
    BY <1>1, <2>2 DEF SealingInv, TasksKept, Running, Kept
  <2> QED
    BY <1>2, <2>3, <2>4 DEF SealingInv
<1>4. CASE Write
  <2>1. writing' = {} /\ results' = results
    BY <1>4 DEF Write
  <2>2. head' \in Nat
    <3>1. \A t \in writing : t.number \in Nat
      BY SealingAssumption DEF SealingInv, SealingTypes, Tasks
    <3> QED
      BY <1>4, <3>1 DEF Write, SealingInv, SealingTypes
  <2>3. SealingTypes' /\ WrittenOnce'
    BY <1>1, <2>1, <2>2 DEF SealingInv, SealingTypes, WrittenOnce
  <2>4. TasksKept'
    BY <1>1, <2>1 DEF SealingInv, TasksKept, Running, Kept
  <2> QED
    BY <1>2, <2>3, <2>4 DEF SealingInv
<1> QED
  BY <1>3, <1>4

LEMMA SealingStepInv == SealingInv /\ [Next]_vars => SealingInv'
BY ChainStepInv, TakeHeadInv, TakeTaskInv, RegisterInv, SealInv, ReturnInv, ResultInv DEF Next

-----------------------------------------------------------------------------
\* However tasks follow each other and however late the goroutines of Seal notice that
\* they are stopped, at most one of them has not been told to stop.
THEOREM OneSealingAtATime == Spec => []OneSealing
<1>1. SealingInv => OneSealing
  BY DEF SealingInv, LiveStoppable, OneSealing
<1> QED
  BY <1>1, SealingInitInv, SealingStepInv, PTL DEF Spec

\* No result of a sealing is without its pending task, whatever the order in which heads
\* clear tasks, tasks are sealed again and results are delivered, unless it is stale.
THEOREM TaskAlwaysKept == Spec => []TaskKept
<1>1. SealingInv => TaskKept
  BY DEF SealingInv, TasksKept, Kept, TaskKept
<1> QED
  BY <1>1, SealingInitInv, SealingStepInv, PTL DEF Spec

\* No block of the miner is written to the chain a second time.
THEOREM NeverWrittenTwice == Spec => []WrittenOnce
<1>1. SealingInv => WrittenOnce
  BY DEF SealingInv
<1> QED
  BY <1>1, SealingInitInv, SealingStepInv, PTL DEF Spec
=============================================================================
