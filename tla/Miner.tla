-------------------------------- MODULE Miner --------------------------------
(***************************************************************************)
(* Who decides whether the node mines: the user through StartMining and    *)
(* StopMining, and the downloader, whose events suspend mining during a    *)
(* sync.  Both reach Miner.update, a goroutine with a select over          *)
(* unbuffered channels.  A send on one of them is taken at the moment      *)
(* update receives it; what update then does is a later step, and the      *)
(* sender does not wait for it.                                            *)
(***************************************************************************)
EXTENDS Naturals

CONSTANT MaxStarters  \* bound on the goroutines waiting in Miner.Start

ASSUME MaxStartersAssumption == MaxStarters \in Nat \ {0}

VARIABLES
    running,      \* worker.running, what Mining() returns
    startCh,      \* worker.startCh holds a request (its capacity is 1)
    update,       \* where Miner.update is
    shouldStart,  \* its local variables
    canStart,
    subscribed,   \* its subscription to the downloader's events
    starters,     \* goroutines made by StartMining that wait in Miner.Start
    user,         \* where the user's call is: "idle" or "stopping"
    sync,         \* where the downloader is
    wanted,       \* history: the user has called StartMining since the last StopMining,
                  \* or a goroutine of an earlier call was waiting when that returned
    done          \* history: a DoneEvent has been handled

minerVars == <<running, startCh, update, shouldStart, canStart, subscribed,
          starters, user, sync, wanted, done>>

MinerInit ==
    /\ running = FALSE /\ startCh = FALSE
    /\ update = "select"
    /\ shouldStart = FALSE /\ canStart = TRUE /\ subscribed = TRUE
    /\ starters = 0
    /\ user = "idle"
    /\ sync = "idle"
    /\ wanted = FALSE /\ done = FALSE

-----------------------------------------------------------------------------
(***************************************************************************)
(* The user and the downloader.                                            *)
(***************************************************************************)

\* StartMining: a goroutine will call Miner.Start, unless the node mines already.  (A
\* call without an account to sign with returns an error and changes nothing here.)
StartMining ==
    /\ user = "idle"
    /\ running \/ starters < MaxStarters
    /\ starters' = IF running THEN starters ELSE starters + 1
    /\ wanted' = TRUE
    /\ UNCHANGED <<running, startCh, update, shouldStart, canStart, subscribed, user,
                   sync, done>>

\* StopMining: the call itself waits in Miner.Stop.
StopMining ==
    /\ user = "idle"
    /\ user' = "stopping"
    /\ UNCHANGED <<running, startCh, update, shouldStart, canStart, subscribed,
                   starters, sync, wanted, done>>

\* synchronise posts StartEvent and waits until every subscriber has received it.
SyncStart ==
    /\ sync = "idle"
    /\ sync' = IF subscribed THEN "post start" ELSE "syncing"
    /\ UNCHANGED <<running, startCh, update, shouldStart, canStart, subscribed,
                   starters, user, wanted, done>>

\* The sync ends well or not, which is posted in the same way.
SyncEnd ==
    /\ sync = "syncing"
    /\ sync' \in IF subscribed THEN {"post done", "post failed"} ELSE {"idle"}
    /\ UNCHANGED <<running, startCh, update, shouldStart, canStart, subscribed,
                   starters, user, wanted, done>>

-----------------------------------------------------------------------------
(***************************************************************************)
(* Miner.update.                                                           *)
(***************************************************************************)

\* The cases of the select: the sender goes on, update handles what it received.
ReceiveStart ==
    /\ update = "select" /\ starters > 0
    /\ starters' = starters - 1
    /\ update' = "start"
    /\ UNCHANGED <<running, startCh, shouldStart, canStart, subscribed, user, sync,
                   wanted, done>>

ReceiveStop ==
    /\ update = "select" /\ user = "stopping"
    /\ user' = "idle"
    /\ wanted' = (starters # 0)
    /\ update' = "stop"
    /\ UNCHANGED <<running, startCh, shouldStart, canStart, subscribed, starters,
                   sync, done>>

ReceiveEvent ==
    /\ update = "select" /\ subscribed
    /\ \/ sync = "post start"  /\ update' = "start event"  /\ sync' = "syncing"
       \/ sync = "post done"   /\ update' = "done event"   /\ sync' = "idle"
       \/ sync = "post failed" /\ update' = "failed event" /\ sync' = "idle"
    /\ UNCHANGED <<running, startCh, shouldStart, canStart, subscribed, starters,
                   user, wanted, done>>

\* worker.start sets the flag and then waits for room in startCh.
WorkerStart(next) ==
    /\ running' = TRUE
    /\ update' = next

HandleStartAlways ==
    /\ update = "start"
    /\ WorkerStart("send") /\ UNCHANGED shouldStart
    /\ UNCHANGED <<startCh, canStart, subscribed, starters, user, sync, wanted, done>>

\* A start during a sync is only remembered.
HandleStart ==
    /\ update = "start"
    /\ IF canStart
       THEN WorkerStart("send") /\ UNCHANGED shouldStart
       ELSE shouldStart' = TRUE /\ update' = "select" /\ UNCHANGED running
    /\ UNCHANGED <<startCh, canStart, subscribed, starters, user, sync, wanted, done>>

HandleStopForgetful ==
    /\ update = "stop"
    /\ running' = FALSE
    /\ update' = "select"
    /\ UNCHANGED <<startCh, shouldStart, canStart, subscribed, starters, user, sync,
                   wanted, done>>

HandleStopIfRunning ==
    /\ update = "stop"
    /\ shouldStart' = (shouldStart /\ ~running)
    /\ running' = FALSE
    /\ update' = "select"
    /\ UNCHANGED <<startCh, canStart, subscribed, starters, user, sync, wanted, done>>

HandleStop ==
    /\ update = "stop"
    /\ shouldStart' = FALSE
    /\ running' = FALSE
    /\ update' = "select"
    /\ UNCHANGED <<startCh, canStart, subscribed, starters, user, sync, wanted, done>>

HandleStartEvent ==
    /\ update = "start event"
    /\ shouldStart' = (shouldStart \/ running)
    /\ running' = FALSE
    /\ canStart' = FALSE
    /\ update' = "select"
    /\ UNCHANGED <<startCh, subscribed, starters, user, sync, wanted, done>>

HandleFailedGivingUp ==
    /\ update = "failed event"
    /\ update' = "select"
    /\ UNCHANGED <<running, startCh, shouldStart, canStart, subscribed, starters,
                   user, sync, wanted, done>>

HandleFailedEvent ==
    /\ update = "failed event"
    /\ canStart' = TRUE
    /\ IF shouldStart THEN WorkerStart("send") ELSE update' = "select" /\ UNCHANGED running
    /\ UNCHANGED <<startCh, shouldStart, subscribed, starters, user, sync, wanted, done>>

HandleDoneEvent ==
    /\ update = "done event"
    /\ canStart' = TRUE
    /\ IF shouldStart
       THEN WorkerStart("send and unsubscribe")
       ELSE update' = "unsubscribe" /\ UNCHANGED running
    /\ done' = TRUE
    /\ UNCHANGED <<startCh, shouldStart, subscribed, starters, user, sync, wanted>>

\* The rest of worker.start.  After a start of the user shouldStart is set, after an
\* event it is set already.
SendStart ==
    /\ update \in {"send", "send and unsubscribe"}
    /\ ~startCh
    /\ startCh' = TRUE
    /\ shouldStart' = TRUE
    /\ update' = IF update = "send" THEN "select" ELSE "unsubscribe"
    /\ UNCHANGED <<running, canStart, subscribed, starters, user, sync, wanted, done>>

KeepSubscription ==
    /\ update = "unsubscribe"
    /\ update' = "select"
    /\ UNCHANGED <<running, startCh, shouldStart, canStart, subscribed, starters, user,
                   sync, wanted, done>>

\* Unsubscribe also ends a Post that is waiting for this subscriber.
Unsubscribe ==
    /\ update = "unsubscribe"
    /\ subscribed' = FALSE
    /\ sync' = CASE sync = "post start" -> "syncing"
                 [] sync \in {"post done", "post failed"} -> "idle"
                 [] OTHER -> sync
    /\ update' = "select"
    /\ UNCHANGED <<running, startCh, shouldStart, canStart, starters, user, wanted, done>>

\* newWorkLoop takes the request.
WorkerTakesStart ==
    /\ startCh
    /\ startCh' = FALSE
    /\ UNCHANGED <<running, update, shouldStart, canStart, subscribed, starters,
                   user, sync, wanted, done>>

-----------------------------------------------------------------------------
Receive == ReceiveStart \/ ReceiveStop \/ ReceiveEvent

Handle ==
    \/ HandleStart \/ HandleStop \/ SendStart \/ Unsubscribe
    \/ HandleStartEvent \/ HandleFailedEvent \/ HandleDoneEvent

MinerNext ==
    \/ StartMining \/ StopMining \/ SyncStart \/ SyncEnd
    \/ Receive \/ Handle \/ WorkerTakesStart

\* The goroutines run; update's select, which chooses among ready cases at random,
\* starves none of them; every sync ends.
MinerFairness ==
    /\ SF_minerVars(ReceiveStart) /\ SF_minerVars(ReceiveStop) /\ SF_minerVars(ReceiveEvent)
    /\ WF_minerVars(Handle) /\ WF_minerVars(WorkerTakesStart) /\ WF_minerVars(SyncEnd)

MinerSpec == MinerInit /\ [][MinerNext]_minerVars

FairMinerSpec == MinerSpec /\ MinerFairness

-----------------------------------------------------------------------------
(***************************************************************************)
(* Properties.                                                             *)
(***************************************************************************)

\* Every variable has its type; in particular Miner.update takes no start that nobody
\* sent.
TypeOK ==
    /\ running \in BOOLEAN /\ startCh \in BOOLEAN /\ shouldStart \in BOOLEAN
    /\ canStart \in BOOLEAN /\ subscribed \in BOOLEAN /\ wanted \in BOOLEAN
    /\ done \in BOOLEAN
    /\ update \in {"select", "start", "stop", "start event", "done event", "failed event",
                   "send", "send and unsubscribe", "unsubscribe"}
    /\ starters \in 0 .. MaxStarters
    /\ user \in {"idle", "stopping"}
    /\ sync \in {"idle", "post start", "syncing", "post done", "post failed"}

\* The worker runs exactly when mining is wanted and no sync stands in its way,
\* whenever update is waiting: no sequence of starts, stops and syncs leaves the
\* worker running or idle against the loop's own intention.
IntentKept == update = "select" => running = (shouldStart /\ canStart)

\* "Starting the miner after the downloader should not work" (a test): while a sync
\* that update has been told of is under way, nothing makes the worker run.
NoMiningDuringSync == subscribed /\ sync = "syncing" => update = "start event" \/ ~running

\* Mining suspended for a sync is resumed, however the sync ends and however many
\* syncs there are, unless the user stops it.
MiningResumes == shouldStart ~> (running \/ ~shouldStart)

\* "Subsequent downloader events after a successful DoneEvent should not cause the
\* miner to start or stop" (a test): then only calls of the user change it.
UndisturbedAfterDone ==
    [][done /\ running' # running => update \in {"start", "stop"}]_minerVars

\* "StopMining terminates the miner": after it has returned, no event of the downloader
\* and nothing update remembers starts the worker again, only another StartMining, or
\* one whose goroutine was still waiting in Miner.Start and is overtaken by the stop.
StopTerminates == [][~running /\ running' => wanted]_minerVars
=============================================================================
