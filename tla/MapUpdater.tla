------------------------------ MODULE MapUpdater ------------------------------
(***************************************************************************)
(* The map tick of the world server.  MapManager::Update (world thread)    *)
(* hands every base map to MapUpdater; worker threads pop the requests     *)
(* from a ProducerConsumerQueue and run Map::Update.  The update of an     *)
(* instanced base map (MapInstanced::Update) itself schedules, or unloads, *)
(* the instances below it.  MapManager::Update waits until no request is   *)
(* pending before it runs DelayedUpdate and lets sessions touch maps.      *)
(*                                                                         *)
(* A block executed under one mutex is one action: schedule_update and     *)
(* update_finished hold MapUpdater::_lock, WaitAndPop and Push hold        *)
(* _queueLock; Push runs inside schedule_update's critical section.        *)
(* Worker threads exist (MapUpdate.Threads > 0).                           *)
(***************************************************************************)
EXTENDS Integers, Sequences, FiniteSets

CONSTANTS BaseMaps,     \* ids of maps MapManager can hold in i_maps
          Instances,    \* ids of instance maps (dungeon, battleground, arena)
          Parent,       \* the MapInstanced each instance belongs to
          Workers,      \* the worker threads started by activate()
          NoMap         \* the null request pointer

ASSUME ParentAssumption == Parent \in [Instances -> BaseMaps]
ASSUME WorkersAssumption == IsFiniteSet(Workers) /\ Workers # {}
ASSUME MapsAssumption == /\ BaseMaps \cap Instances = {}
                         /\ NoMap \notin BaseMaps \cup Instances

Maps == BaseMaps \cup Instances

VARIABLES
  iMaps,      \* MapManager::i_maps: the base maps loaded
  instanced,  \* the union of all m_InstancedMaps: the instance maps loaded
  queue,      \* MapUpdater::_queue: the maps of the queued requests
  shutdown,   \* ProducerConsumerQueue::_shutdown
  pending,    \* MapUpdater::pending_requests
  token,      \* MapUpdater::_cancelationToken
  main,       \* where the world thread is
  toSchedule, \* the rest of the i_maps iteration of MapManager::Update
  wpc,        \* where each worker thread is
  req,        \* the request each worker holds
  iter,       \* the rest of each worker's loop over m_InstancedMaps
  updates     \* history: how often each map was updated in this tick

worldVars  == <<main, toSchedule>>
mapVars    == <<iMaps, instanced>>
workerVars == <<wpc, req, iter>>
vars == <<iMaps, instanced, queue, shutdown, pending, token, main, toSchedule,
          wpc, req, iter, updates>>

TypeOK ==
  /\ iMaps \subseteq BaseMaps
  /\ instanced \subseteq Instances
  /\ queue \in Seq(Maps)
  /\ shutdown \in BOOLEAN
  /\ pending \in Nat
  /\ token \in BOOLEAN
  /\ main \in {"idle", "schedule", "wait", "asleep", "delayed",
               "deactivate", "drain", "drainAsleep", "cancel", "join", "stopped"}
  /\ toSchedule \subseteq BaseMaps
  /\ wpc \in [Workers -> {"pop", "blocked", "popped", "update", "iterate",
                          "finish", "exited"}]
  /\ req \in [Workers -> Maps \cup {NoMap}]
  /\ iter \in [Workers -> SUBSET Instances]
  /\ updates \in [Maps -> Nat]

\* activate() has started the workers; no map is loaded yet.
Init ==
  /\ iMaps = {} /\ instanced = {}
  /\ queue = <<>> /\ shutdown = FALSE /\ pending = 0 /\ token = FALSE
  /\ main = "idle" /\ toSchedule = {}
  /\ wpc = [w \in Workers |-> "pop"]
  /\ req = [w \in Workers |-> NoMap]
  /\ iter = [w \in Workers |-> {}]
  /\ updates = [m \in Maps |-> 0]

-----------------------------------------------------------------------------
(* Parts of the actions.                                                   *)

\* _condition.notify_one(): some blocked worker, if any, resumes its loop.
\* pc is the workers' program counters after the caller's own step.
NotifyOne(pc) ==
  \/ /\ \A w \in Workers : pc[w] # "blocked"
     /\ wpc' = pc
  \/ \E w \in Workers : /\ pc[w] = "blocked"
                        /\ wpc' = [pc EXCEPT ![w] = "pop"]

\* Mutant: the request is queued before it is counted, and the count is lost.
ScheduleUpdate_Uncounted(m, pc) ==
  /\ pending' = pending
  /\ queue' = Append(queue, m)
  /\ NotifyOne(pc)

\* MapUpdater::schedule_update, with Push inside its critical section.
ScheduleUpdate(m, pc) ==
  /\ pending' = pending + 1
  /\ queue' = Append(queue, m)
  /\ NotifyOne(pc)

\* Mutant: update_finished does not notify.
NotifyWorld_Missing == main' = main

\* Mutant: wait() tests pending_requests with "if" instead of "while".
NotifyWorld_If ==
  main' = CASE main = "asleep" -> "delayed"
            [] main = "drainAsleep" -> "cancel"
            [] OTHER -> main

\* What the notify_all of update_finished does to the world thread, the only
\* thread that ever waits for pending_requests.
NotifyWorld ==
  main' = CASE main = "asleep" -> "wait"
            [] main = "drainAsleep" -> "drain"
            [] OTHER -> main

-----------------------------------------------------------------------------
(* The world thread between two map ticks.                                 *)

CreateBaseMap(b) ==
  /\ main = "idle"
  /\ b \notin iMaps
  /\ iMaps' = iMaps \cup {b}
  /\ UNCHANGED <<instanced, queue, shutdown, pending, token, worldVars, workerVars, updates>>

\* CreateInstance and CreateBattleground for a player entering instance i.
CreateInstance(i) ==
  /\ main = "idle"
  /\ Parent[i] \in iMaps
  /\ i \notin instanced
  /\ instanced' = instanced \cup {i}
  /\ UNCHANGED <<iMaps, queue, shutdown, pending, token, worldVars, workerVars, updates>>

(* MapManager::Update.                                                     *)

StartTick ==
  /\ main = "idle"
  /\ main' = "schedule"
  /\ toSchedule' = iMaps
  /\ updates' = [m \in Maps |-> 0]
  /\ UNCHANGED <<mapVars, queue, shutdown, pending, token, workerVars>>

ScheduleBaseMap(m) ==
  /\ main = "schedule"
  /\ m \in toSchedule
  /\ ScheduleUpdate(m, wpc)
  /\ toSchedule' = toSchedule \ {m}
  /\ UNCHANGED <<mapVars, shutdown, token, main, req, iter, updates>>

AllScheduled ==
  /\ main = "schedule"
  /\ toSchedule = {}
  /\ main' = "wait"
  /\ UNCHANGED <<mapVars, queue, shutdown, pending, token, toSchedule, workerVars, updates>>

\* One turn of the loop of MapUpdater::wait(), called at the end of a tick
\* ("wait") and from deactivate() ("drain").
Wait ==
  /\ \/ /\ main = "wait"
        /\ main' = IF pending > 0 THEN "asleep" ELSE "delayed"
     \/ /\ main = "drain"
        /\ main' = IF pending > 0 THEN "drainAsleep" ELSE "cancel"
  /\ UNCHANGED <<mapVars, queue, shutdown, pending, token, toSchedule, workerVars, updates>>

\* DelayedUpdate of every base map and of the instances below it.
DelayedUpdate ==
  /\ main = "delayed"
  /\ main' = "idle"
  /\ UNCHANGED <<mapVars, queue, shutdown, pending, token, toSchedule, workerVars, updates>>

(* Shutdown: MapManager::UnloadAll, then MapUpdater::deactivate().         *)

UnloadAll ==
  /\ main = "idle"
  /\ iMaps' = {} /\ instanced' = {}
  /\ main' = "deactivate"
  /\ UNCHANGED <<queue, shutdown, pending, token, toSchedule, workerVars, updates>>

\* Mutant: deactivate() does not set the cancelation token.
Deactivate_NoToken ==
  /\ main = "deactivate"
  /\ token' = token
  /\ main' = "drain"
  /\ UNCHANGED <<mapVars, queue, shutdown, pending, toSchedule, workerVars, updates>>

Deactivate ==
  /\ main = "deactivate"
  /\ token' = TRUE
  /\ main' = "drain"
  /\ UNCHANGED <<mapVars, queue, shutdown, pending, toSchedule, workerVars, updates>>

\* Mutant: Cancel sets _shutdown but wakes no blocked worker.
Cancel_NoNotify ==
  /\ main = "cancel"
  /\ queue' = <<>>
  /\ shutdown' = TRUE
  /\ main' = "join"
  /\ UNCHANGED <<mapVars, pending, token, toSchedule, workerVars, updates>>

\* ProducerConsumerQueue::Cancel
Cancel ==
  /\ main = "cancel"
  /\ queue' = <<>>
  /\ shutdown' = TRUE
  /\ wpc' = [w \in Workers |-> IF wpc[w] = "blocked" THEN "pop" ELSE wpc[w]]
  /\ main' = "join"
  /\ UNCHANGED <<mapVars, pending, token, toSchedule, req, iter, updates>>

Join ==
  /\ main = "join"
  /\ \A w \in Workers : wpc[w] = "exited"
  /\ main' = "stopped"
  /\ UNCHANGED <<mapVars, queue, shutdown, pending, token, toSchedule, workerVars, updates>>

\* A condition variable may return without a notification.
SpuriousWakeup ==
  /\ \/ /\ NotifyWorld /\ main' # main
        /\ UNCHANGED wpc
     \/ /\ \E w \in Workers : wpc[w] = "blocked" /\ wpc' = [wpc EXCEPT ![w] = "pop"]
        /\ UNCHANGED main
  /\ UNCHANGED <<mapVars, queue, shutdown, pending, token, toSchedule, req, iter, updates>>

-----------------------------------------------------------------------------
(* A worker thread: MapUpdater::WorkerThread.                              *)

\* WaitAndPop on an empty queue that is not shut down.
Block(w) ==
  /\ wpc[w] = "pop"
  /\ queue = <<>> /\ ~shutdown
  /\ wpc' = [wpc EXCEPT ![w] = "blocked"]
  /\ UNCHANGED <<mapVars, queue, shutdown, pending, token, worldVars, req, iter, updates>>

\* WaitAndPop returns: with the head of the queue, or with nothing when the
\* queue is shut down (the request pointer then stays null).
Pop(w) ==
  /\ wpc[w] = "pop"
  /\ wpc' = [wpc EXCEPT ![w] = "popped"]
  /\ \/ /\ shutdown
        /\ UNCHANGED <<queue, req>>
     \/ /\ ~shutdown /\ queue # <<>>
        /\ req' = [req EXCEPT ![w] = Head(queue)]
        /\ queue' = Tail(queue)
  /\ UNCHANGED <<mapVars, shutdown, pending, token, worldVars, iter, updates>>

\* The check of _cancelationToken: a worker that leaves drops its request.
CheckToken(w) ==
  /\ wpc[w] = "popped"
  /\ wpc' = [wpc EXCEPT ![w] = IF token THEN "exited" ELSE "update"]
  /\ UNCHANGED <<mapVars, queue, shutdown, pending, token, worldVars, req, iter, updates>>

\* Mutant: every instanced base map goes over the instances of all of them.
UpdateMap_AllInstances(w) ==
  /\ wpc[w] = "update"
  /\ req[w] # NoMap
  /\ updates' = [updates EXCEPT ![req[w]] = @ + 1]
  /\ iter' = [iter EXCEPT ![w] = IF req[w] \in BaseMaps THEN instanced ELSE {}]
  /\ wpc' = [wpc EXCEPT ![w] = "iterate"]
  /\ UNCHANGED <<mapVars, queue, shutdown, pending, token, worldVars, req>>

\* The requested map's own Map::Update; for an instanced base map the loop
\* over m_InstancedMaps follows.
UpdateMap(w) ==
  /\ wpc[w] = "update"
  /\ req[w] # NoMap
  /\ updates' = [updates EXCEPT ![req[w]] = @ + 1]
  /\ iter' = [iter EXCEPT ![w] = {i \in instanced : Parent[i] = req[w]}]
  /\ wpc' = [wpc EXCEPT ![w] = "iterate"]
  /\ UNCHANGED <<mapVars, queue, shutdown, pending, token, worldVars, req>>

\* One turn of the loop of MapInstanced::Update.  CanUnload depends on the
\* unload timer, DestroyInstance fails while a player is still inside.
ScheduleInstance(w, i) ==
  /\ wpc[w] = "iterate" /\ i \in iter[w]
  /\ ScheduleUpdate(i, wpc)
  /\ iter' = [iter EXCEPT ![w] = @ \ {i}]
  /\ UNCHANGED <<mapVars, shutdown, token, worldVars, req, updates>>

\* Mutant: the loop schedules an instance it has just destroyed.
DestroyInstance_ThenSchedule(w, i) ==
  /\ wpc[w] = "iterate" /\ i \in iter[w]
  /\ instanced' \in {instanced, instanced \ {i}}
  /\ ScheduleUpdate(i, wpc)
  /\ iter' = [iter EXCEPT ![w] = @ \ {i}]
  /\ UNCHANGED <<iMaps, shutdown, token, worldVars, req, updates>>

DestroyInstance(w, i) ==
  /\ wpc[w] = "iterate" /\ i \in iter[w]
  /\ instanced' \in {instanced, instanced \ {i}}
  /\ iter' = [iter EXCEPT ![w] = @ \ {i}]
  /\ UNCHANGED <<iMaps, queue, shutdown, pending, token, worldVars, wpc, req, updates>>

EndUpdate(w) ==
  /\ wpc[w] = "iterate" /\ iter[w] = {}
  /\ wpc' = [wpc EXCEPT ![w] = "finish"]
  /\ UNCHANGED <<mapVars, queue, shutdown, pending, token, worldVars, req, iter, updates>>

\* Mutant: the request is counted as finished twice.
UpdateFinished_Twice(w) ==
  /\ wpc[w] = "finish"
  /\ pending' = pending - 2
  /\ NotifyWorld
  /\ req' = [req EXCEPT ![w] = NoMap]
  /\ wpc' = [wpc EXCEPT ![w] = "pop"]
  /\ UNCHANGED <<mapVars, queue, shutdown, token, toSchedule, iter, updates>>

\* MapUpdater::update_finished, after which the request is deleted.
UpdateFinished(w) ==
  /\ wpc[w] = "finish"
  /\ pending' = pending - 1
  /\ NotifyWorld
  /\ req' = [req EXCEPT ![w] = NoMap]
  /\ wpc' = [wpc EXCEPT ![w] = "pop"]
  /\ UNCHANGED <<mapVars, queue, shutdown, token, toSchedule, iter, updates>>

-----------------------------------------------------------------------------
WorkerStep(w) ==
  \/ Block(w) \/ Pop(w) \/ CheckToken(w) \/ UpdateMap(w)
  \/ \E i \in Instances : ScheduleInstance(w, i) \/ DestroyInstance(w, i)
  \/ EndUpdate(w) \/ UpdateFinished(w)

\* The steps of the world thread inside a tick and inside deactivate().
WorldStep ==
  \/ \E m \in BaseMaps : ScheduleBaseMap(m)
  \/ AllScheduled \/ Wait \/ DelayedUpdate
  \/ Deactivate \/ Cancel \/ Join

\* What the world thread does between ticks is up to players and operators.
Environment ==
  \/ \E b \in BaseMaps : CreateBaseMap(b)
  \/ \E i \in Instances : CreateInstance(i)
  \/ StartTick \/ UnloadAll \/ SpuriousWakeup

\* The process ends; nothing happens any more.
Terminated == main = "stopped" /\ UNCHANGED vars

Next == WorldStep \/ Environment \/ (\E w \in Workers : WorkerStep(w)) \/ Terminated

\* The operating system runs every thread, and every Map::Update returns.
Fairness == WF_vars(WorldStep) /\ \A w \in Workers : WF_vars(WorkerStep(w))

Spec == Init /\ [][Next]_vars /\ Fairness

-----------------------------------------------------------------------------
\* Workers inside WorkerThread with a request in hand.
Holding == {w \in Workers : req[w] # NoMap}

\* The requests not finished: queued ones and those a worker holds.
Outstanding == {queue[k] : k \in 1 .. Len(queue)} \cup {req[w] : w \in Holding}

\* When MapUpdater::wait() has returned, and until the next tick starts, no
\* request is queued and no worker is inside a map: DelayedUpdate, session
\* handlers and UnloadAll have the maps to themselves.
Barrier ==
  main \notin {"schedule", "wait", "asleep"} => Outstanding = {}

\* A worker that gets past the cancelation check has a request to call: the
\* null pointer WaitAndPop leaves on shutdown is never dereferenced.
NoNullCall ==
  \A w \in Workers : wpc[w] = "update" => req[w] # NoMap

\* A request never outlives its map: DestroyInstance and UnloadAll delete
\* only maps that nobody is about to update.
NoUpdateOfDeletedMap == Outstanding \subseteq iMaps \cup instanced

\* At DelayedUpdate every loaded base map was updated in this tick, and no map
\* more than once.
TickComplete ==
  main = "delayed" => /\ \A b \in iMaps : updates[b] = 1
                      /\ \A m \in Maps : updates[m] <= 1

\* What MapManager::Update and its callers see of a tick.
Phase ==
  CASE main \in {"schedule", "wait", "asleep"} -> "updating"
    [] main \in {"idle", "delayed"} -> main
    [] OTHER -> "stopped"
Updated == {m \in Maps : updates[m] > 0} \ Outstanding

\* MapUpdater implements MapTick: the queue, the counter, the condition
\* variables and the nested scheduling of instances give MapManager::Update
\* the tick it is written for.
Tick == INSTANCE MapTick WITH phase <- Phase, outstanding <- Outstanding, updated <- Updated
ImplementsMapTick == Tick!TickSpec

\* Every tick gets to DelayedUpdate: wait() misses no notification and no
\* request is forgotten.
TickEnds == main = "schedule" ~> main = "delayed"

\* deactivate() returns: workers blocked in WaitAndPop are all released and
\* the world thread does not wait for requests nobody will serve.
DeactivateReturns == main = "deactivate" ~> main = "stopped"
=============================================================================
