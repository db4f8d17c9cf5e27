--------------------------- MODULE MapUpdater_proofs ---------------------------
(***************************************************************************)
(* Proofs about MapUpdater, for any number of maps and worker threads, and *)
(* about PacketRouting, whose two threads are the world thread and one of  *)
(* those workers.                                                          *)
(* The inductive invariant IInv says that pending_requests counts the      *)
(* queued requests and those in the hands of workers, and ties the         *)
(* counter to the world thread's place in its tick.                        *)
(***************************************************************************)
EXTENDS MapUpdater, PacketRouting, FiniteSetTheorems, SequenceTheorems, TLAPS

\* pending_requests is the number of requests queued or being served.
Count == pending = Len(queue) + Cardinality(Holding)

\* Outside the part of the tick that schedules and waits nothing is pending.
Quiet == main \notin {"schedule", "wait", "asleep"} => pending = 0

\* The two shutdown flags are set only by deactivate().
ShutdownOrder ==
  /\ token <=> main \in {"drain", "drainAsleep", "cancel", "join", "stopped"}
  /\ shutdown => token

\* A worker has a request in hand from Pop to UpdateFinished, except when it
\* was released by Cancel.
InHand ==
  \A w \in Workers :
    /\ wpc[w] \in {"pop", "blocked"} => req[w] = NoMap
    /\ wpc[w] = "popped" /\ req[w] = NoMap => token
    /\ wpc[w] \in {"update", "iterate", "finish"} => req[w] # NoMap

IInv == TypeOK /\ Count /\ Quiet /\ ShutdownOrder /\ InHand

\* The second invariant is about the maps themselves.
Queued == {queue[k] : k \in 1 .. Len(queue)}

\* No map has two requests, queued or held.
Single ==
  /\ \A j, k \in 1 .. Len(queue) : queue[j] = queue[k] => j = k
  /\ \A w \in Holding : req[w] \notin Queued
  /\ \A v, w \in Holding : req[v] = req[w] => v = w

\* A base map that is still to be scheduled is loaded, and not yet requested
\* or updated in this tick.
Planned ==
  /\ toSchedule \subseteq iMaps
  /\ \A m \in toSchedule : main = "schedule" /\ m \notin Outstanding /\ updates[m] = 0

\* So is an instance in the rest of a loop over m_InstancedMaps, which runs in
\* the update of the one map the instance belongs to.
Iterating ==
  \A w \in Workers : \A i \in iter[w] :
    /\ wpc[w] = "iterate" /\ Parent[i] = req[w]
    /\ i \in instanced /\ i \notin Outstanding /\ updates[i] = 0

\* A requested map is updated once its worker has come to it, and only then.
Served ==
  /\ \A m \in Queued : updates[m] = 0
  /\ \A w \in Holding : updates[req[w]] = IF wpc[w] \in {"iterate", "finish"} THEN 1 ELSE 0

\* An instance is requested only by the update of its parent.
Nested ==
  \A i \in Instances : i \in Outstanding \/ updates[i] > 0 => updates[Parent[i]] > 0

\* No base map is left out of a tick, no map is updated twice.
Complete ==
  /\ main \in {"schedule", "wait", "asleep", "delayed"} =>
       \A b \in iMaps : b \in toSchedule \/ b \in Outstanding \/ updates[b] = 1
  /\ \A m \in Maps : updates[m] <= 1

MapsInv == Single /\ NoUpdateOfDeletedMap /\ Planned /\ Iterating /\ Served /\ Nested /\ Complete

-----------------------------------------------------------------------------
LEMMA HoldingFinite == IsFiniteSet(Holding)
BY FS_Subset, WorkersAssumption DEF Holding

LEMMA HoldingPrimeFinite == IsFiniteSet(Holding')
BY FS_Subset, WorkersAssumption DEF Holding

\* A worker that holds a request is counted by pending_requests.
LEMMA HeldIsPending ==
  ASSUME IInv, NEW w \in Workers, req[w] # NoMap
  PROVE  pending > 0
<1>1. w \in Holding
  BY DEF Holding
<1>2. Cardinality(Holding) \in Nat /\ Cardinality(Holding) # 0
  BY <1>1, HoldingFinite, FS_CardinalityType, FS_EmptySet
<1> QED
  BY <1>2 DEF IInv, Count, TypeOK

\* Initially the counter is zero and nobody holds a request.
LEMMA InitIInv == Init => IInv
<1> SUFFICES ASSUME Init PROVE IInv
  OBVIOUS
<1>1. Holding = {}
  BY DEF Init, Holding
<1>2. Count
  BY <1>1, FS_EmptySet DEF Count, Init
<1>3. TypeOK
  <2>1. queue \in Seq(Maps)
    BY DEF Init
  <2>2. /\ wpc \in [Workers -> {"pop", "blocked", "popped", "update", "iterate",
                               "finish", "exited"}]
        /\ req \in [Workers -> Maps \cup {NoMap}]
        /\ iter \in [Workers -> SUBSET Instances]
        /\ updates \in [Maps -> Nat]
    BY DEF Init
  <2> QED
    BY <2>1, <2>2 DEF Init, TypeOK
<1> QED
  BY <1>2, <1>3 DEF IInv, Quiet, ShutdownOrder, InHand, Init

\* A step that leaves queue, counter and requests alone keeps the count.
LEMMA CountUnchanged ==
  ASSUME Count, UNCHANGED <<queue, pending, req>>
  PROVE  Count'
BY DEF Count, Holding

\* schedule_update counts the request it queues.
LEMMA CountSchedule ==
  ASSUME TypeOK, Count, NEW m \in Maps, NEW pc, ScheduleUpdate(m, pc), UNCHANGED req
  PROVE  Count'
<1>1. Cardinality(Holding) \in Nat
  BY HoldingFinite, FS_CardinalityType
<1>2. Len(queue') = Len(queue) + 1
  BY DEF ScheduleUpdate, TypeOK
<1>3. Holding' = Holding
  BY DEF Holding
<1>4. Len(queue) \in Nat
  BY DEF TypeOK
<1> QED
  BY <1>1, <1>2, <1>3, <1>4 DEF Count, ScheduleUpdate, TypeOK

\* notify_one only moves a blocked worker back to the head of its loop.
LEMMA NotifyOneType ==
  ASSUME TypeOK, NotifyOne(wpc)
  PROVE  /\ wpc' \in [Workers -> {"pop", "blocked", "popped", "update", "iterate",
                                  "finish", "exited"}]
         /\ \A w \in Workers : \/ wpc'[w] = wpc[w]
                               \/ wpc[w] = "blocked" /\ wpc'[w] = "pop"
BY DEF NotifyOne, TypeOK

-----------------------------------------------------------------------------
(* One lemma per action that changes the counted state; the others below. *)

LEMMA ScheduleBaseMapIInv ==
  ASSUME IInv, NEW m \in BaseMaps, ScheduleBaseMap(m)
  PROVE  IInv'
<1> USE DEF IInv
<1>0. m \in Maps
  BY DEF Maps
<1>1. /\ wpc' \in [Workers -> {"pop", "blocked", "popped", "update", "iterate",
                                  "finish", "exited"}]
      /\ \A w \in Workers : \/ wpc'[w] = wpc[w]
                            \/ wpc[w] = "blocked" /\ wpc'[w] = "pop"
  BY NotifyOneType DEF ScheduleBaseMap, ScheduleUpdate
<1>2. TypeOK'
  BY <1>0, <1>1 DEF TypeOK, ScheduleBaseMap, ScheduleUpdate, mapVars
<1>3. Count'
  BY <1>0, CountSchedule DEF ScheduleBaseMap
<1>4. Quiet' /\ ShutdownOrder'
  BY DEF ScheduleBaseMap, Quiet, ShutdownOrder
<1>5. InHand'
  BY <1>1 DEF ScheduleBaseMap, InHand
<1> QED
  BY <1>2, <1>3, <1>4, <1>5

LEMMA ScheduleInstanceIInv ==
  ASSUME IInv, NEW v \in Workers, NEW i \in Instances, ScheduleInstance(v, i)
  PROVE  IInv'
<1> USE DEF IInv
<1>0. i \in Maps
  BY DEF Maps
<1>1. /\ wpc' \in [Workers -> {"pop", "blocked", "popped", "update", "iterate",
                                  "finish", "exited"}]
      /\ \A w \in Workers : \/ wpc'[w] = wpc[w]
                            \/ wpc[w] = "blocked" /\ wpc'[w] = "pop"
  BY NotifyOneType DEF ScheduleInstance, ScheduleUpdate
<1>2. TypeOK'
  <2>1. iter' \in [Workers -> SUBSET Instances]
    BY DEF TypeOK, ScheduleInstance
  <2>2. queue' \in Seq(Maps) /\ pending' \in Nat
    BY <1>0 DEF TypeOK, ScheduleInstance, ScheduleUpdate
  <2> QED
    BY <1>1, <2>1, <2>2 DEF TypeOK, ScheduleInstance, mapVars, worldVars
<1>3. Count'
  BY <1>0, CountSchedule DEF ScheduleInstance
<1>4. main \in {"schedule", "wait", "asleep"}
  <2>1. req[v] # NoMap
    BY DEF ScheduleInstance, InHand
  <2>2. pending > 0
    BY <2>1, HeldIsPending
  <2> QED
    BY <2>2 DEF Quiet
<1>5. Quiet' /\ ShutdownOrder'
  BY <1>4 DEF ScheduleInstance, Quiet, ShutdownOrder, worldVars
<1>6. InHand'
  BY <1>1 DEF ScheduleInstance, InHand
<1> QED
  BY <1>2, <1>3, <1>5, <1>6

LEMMA PopIInv ==
  ASSUME IInv, NEW v \in Workers, Pop(v)
  PROVE  IInv'
<1> USE DEF IInv
<1>1. CASE shutdown
  <2>1. UNCHANGED <<queue, pending, req>>
    BY <1>1 DEF Pop
  <2>2. TypeOK'
    BY <1>1 DEF TypeOK, Pop, mapVars, worldVars
  <2>3. Count'
    BY <2>1, CountUnchanged
  <2>4. Quiet' /\ ShutdownOrder'
    BY <1>1 DEF Pop, Quiet, ShutdownOrder, worldVars
  <2>5. InHand'
    BY <1>1 DEF Pop, InHand, TypeOK, ShutdownOrder
  <2> QED
    BY <2>2, <2>3, <2>4, <2>5
<1>2. CASE ~shutdown /\ queue # <<>>
  <2>1. /\ req' = [req EXCEPT ![v] = Head(queue)]
        /\ queue' = Tail(queue)
        /\ wpc' = [wpc EXCEPT ![v] = "popped"]
    BY <1>2 DEF Pop
  <2>2. Head(queue) \in Maps /\ Head(queue) # NoMap
    BY <1>2, MapsAssumption DEF TypeOK, Maps
  <2>3. TypeOK'
    BY <1>2, <2>1, <2>2 DEF TypeOK, Pop, mapVars, worldVars
  <2>4. req[v] = NoMap
    BY DEF Pop, InHand
  <2>5. Holding' = Holding \cup {v} /\ v \notin Holding
    BY <2>1, <2>2, <2>4 DEF Holding, TypeOK
  <2>6. Cardinality(Holding') = Cardinality(Holding) + 1
    BY <2>5, HoldingFinite, FS_AddElement
  <2>7. Len(queue') = Len(queue) - 1 /\ Len(queue) \in Nat
    BY <1>2, <2>1 DEF TypeOK
  <2>8. Cardinality(Holding) \in Nat
    BY HoldingFinite, FS_CardinalityType
  <2>9. Count'
    BY <2>6, <2>7, <2>8 DEF Count, Pop, TypeOK
  <2>10. Quiet' /\ ShutdownOrder'
    BY DEF Pop, Quiet, ShutdownOrder, worldVars
  <2>11. InHand'
    BY <2>1, <2>2 DEF Pop, InHand, TypeOK
  <2> QED
    BY <2>3, <2>9, <2>10, <2>11
<1> QED
  BY <1>1, <1>2 DEF Pop

LEMMA UpdateFinishedIInv ==
  ASSUME IInv, NEW v \in Workers, UpdateFinished(v)
  PROVE  IInv'
<1> USE DEF IInv
<1>1. req[v] # NoMap
  BY DEF UpdateFinished, InHand
<1>2. pending > 0
  BY <1>1, HeldIsPending
<1>3. Holding' = Holding \ {v} /\ v \in Holding
  BY <1>1 DEF UpdateFinished, Holding, TypeOK
<1>4. Cardinality(Holding') = Cardinality(Holding) - 1
  BY <1>3, HoldingFinite, FS_RemoveElement
<1>5. Cardinality(Holding) \in Nat /\ Len(queue) \in Nat
  BY HoldingFinite, FS_CardinalityType DEF TypeOK
<1>6. Count'
  BY <1>4, <1>5 DEF Count, UpdateFinished, TypeOK
<1>7. main \in {"schedule", "wait", "asleep"}
  BY <1>2 DEF Quiet
<1>8. main' \in {"schedule", "wait"}
  BY <1>7 DEF UpdateFinished, NotifyWorld
<1>9. TypeOK'
  BY <1>2, <1>8 DEF TypeOK, UpdateFinished, mapVars
<1>10. Quiet' /\ ShutdownOrder'
  BY <1>7, <1>8 DEF UpdateFinished, Quiet, ShutdownOrder
<1>11. InHand'
  BY DEF UpdateFinished, InHand, TypeOK
<1> QED
  BY <1>6, <1>9, <1>10, <1>11

\* deactivate() empties an already empty queue: nothing is pending.
LEMMA CancelIInv ==
  ASSUME IInv, Cancel
  PROVE  IInv'
<1> USE DEF IInv
<1>1. pending = 0
  BY DEF Cancel, Quiet
<1>2. Cardinality(Holding) \in Nat /\ Len(queue) \in Nat
  BY HoldingFinite, FS_CardinalityType DEF TypeOK
<1>3. Len(queue) = 0
  BY <1>1, <1>2 DEF Count
<1>4. Len(queue') = 0 /\ UNCHANGED <<pending, req>>
  BY DEF Cancel
<1>5. Count'
  BY <1>3, <1>4 DEF Count, Holding
<1>6. TypeOK'
  BY DEF TypeOK, Cancel, mapVars
<1>7. Quiet' /\ ShutdownOrder'
  BY <1>1 DEF Cancel, Quiet, ShutdownOrder
<1>8. InHand'
  BY DEF Cancel, InHand, TypeOK
<1> QED
  BY <1>5, <1>6, <1>7, <1>8

-----------------------------------------------------------------------------
LEMMA NextIInv == IInv /\ [Next]_vars => IInv'
<1> SUFFICES ASSUME IInv, [Next]_vars PROVE IInv'
  OBVIOUS
<1> USE DEF IInv
<1>1. ASSUME NEW m \in BaseMaps, ScheduleBaseMap(m) PROVE IInv'
  BY <1>1, ScheduleBaseMapIInv
<1>2. ASSUME NEW w \in Workers, WorkerStep(w) PROVE IInv'
  <2>1. CASE Block(w) \/ CheckToken(w) \/ UpdateMap(w) \/ EndUpdate(w)
             \/ \E i \in Instances : DestroyInstance(w, i)
    <3>1. UNCHANGED <<queue, pending, req, main, token, shutdown>>
      BY <2>1 DEF Block, CheckToken, UpdateMap, EndUpdate, DestroyInstance, worldVars
    <3>2. Count'
      BY <3>1, CountUnchanged
    <3>3. Quiet' /\ ShutdownOrder'
      BY <3>1 DEF Quiet, ShutdownOrder
    <3>4. InHand'
      BY <2>1, <3>1 DEF InHand, TypeOK, Block, CheckToken, UpdateMap, EndUpdate, DestroyInstance
    <3>5. TypeOK'
      <4>1. CASE Block(w)
        BY <4>1 DEF TypeOK, Block, mapVars, worldVars
      <4>2. CASE CheckToken(w)
        BY <4>2 DEF TypeOK, CheckToken, mapVars, worldVars
      <4>3. CASE UpdateMap(w)
        BY <4>3 DEF TypeOK, UpdateMap, mapVars, worldVars
      <4>4. CASE EndUpdate(w)
        BY <4>4 DEF TypeOK, EndUpdate, mapVars, worldVars
      <4>5. CASE \E i \in Instances : DestroyInstance(w, i)
        BY <4>5 DEF TypeOK, DestroyInstance, worldVars
      <4> QED
        BY <2>1, <4>1, <4>2, <4>3, <4>4, <4>5
    <3> QED
      BY <3>2, <3>3, <3>4, <3>5
  <2>2. CASE Pop(w)
    BY <2>2, PopIInv
  <2>3. ASSUME NEW i \in Instances, ScheduleInstance(w, i) PROVE IInv'
    BY <2>3, ScheduleInstanceIInv
  <2>4. CASE UpdateFinished(w)
    BY <2>4, UpdateFinishedIInv
  <2> QED
    BY <1>2, <2>1, <2>2, <2>3, <2>4 DEF WorkerStep
<1>3. CASE AllScheduled \/ Wait \/ DelayedUpdate \/ Deactivate \/ Join
  <2>1. UNCHANGED <<queue, pending, req, wpc, shutdown>>
    BY <1>3 DEF AllScheduled, Wait, DelayedUpdate, Deactivate, Join, workerVars
  <2>2. Count'
    BY <2>1, CountUnchanged
  <2>3. TypeOK'
    BY <1>3 DEF TypeOK, AllScheduled, Wait, DelayedUpdate, Deactivate, Join, mapVars, workerVars
  <2>4. Quiet' /\ ShutdownOrder'
    BY <1>3 DEF Quiet, ShutdownOrder, TypeOK, AllScheduled, Wait, DelayedUpdate, Deactivate, Join
  <2>5. InHand'
    BY <1>3, <2>1 DEF InHand, AllScheduled, Wait, DelayedUpdate, Deactivate, Join
  <2> QED
    BY <2>2, <2>3, <2>4, <2>5
<1>4. CASE Cancel
  BY <1>4, CancelIInv
<1>5. CASE Environment
  <2>1. UNCHANGED <<queue, pending, req, token, shutdown>>
    BY <1>5 DEF Environment, CreateBaseMap, CreateInstance, StartTick, UnloadAll,
                SpuriousWakeup, workerVars
  <2>2. Count'
    BY <2>1, CountUnchanged
  <2>3. TypeOK'
    <3>1. CASE \E b \in BaseMaps : CreateBaseMap(b)
      BY <3>1 DEF TypeOK, CreateBaseMap, worldVars, workerVars
    <3>2. CASE \E i \in Instances : CreateInstance(i)
      BY <3>2 DEF TypeOK, CreateInstance, worldVars, workerVars
    <3>3. CASE StartTick
      BY <3>3 DEF TypeOK, StartTick, mapVars, workerVars
    <3>4. CASE UnloadAll
      BY <3>4 DEF TypeOK, UnloadAll, workerVars
    <3>5. CASE SpuriousWakeup
      BY <3>5 DEF TypeOK, SpuriousWakeup, NotifyWorld, mapVars
    <3> QED
      BY <1>5, <3>1, <3>2, <3>3, <3>4, <3>5 DEF Environment
  <2>4. Quiet' /\ ShutdownOrder'
    BY <1>5, <2>1 DEF Quiet, ShutdownOrder, Environment, CreateBaseMap, CreateInstance,
                      StartTick, UnloadAll, SpuriousWakeup, NotifyWorld, worldVars
  <2>5. InHand'
    <3>1. CASE SpuriousWakeup
      BY <2>1, <3>1 DEF InHand, TypeOK, SpuriousWakeup
    <3>2. CASE ~SpuriousWakeup
      BY <1>5, <2>1, <3>2 DEF InHand, Environment, CreateBaseMap, CreateInstance, StartTick,
                              UnloadAll, workerVars
    <3> QED
      BY <3>1, <3>2
  <2> QED
    BY <2>2, <2>3, <2>4, <2>5
<1>6. CASE Terminated \/ UNCHANGED vars
  <2>1. UNCHANGED vars
    BY <1>6 DEF Terminated
  <2>2. TypeOK'
    BY <2>1 DEF vars, TypeOK
  <2>3. Count'
    BY <2>1, CountUnchanged DEF vars
  <2>4. Quiet' /\ ShutdownOrder' /\ InHand'
    BY <2>1 DEF vars, Quiet, ShutdownOrder, InHand
  <2> QED
    BY <2>2, <2>3, <2>4
<1> QED
  BY <1>1, <1>2, <1>3, <1>4, <1>5, <1>6 DEF Next, WorldStep

\* The inductive invariant holds in every reachable state.
THEOREM IInvInvariant == Spec => []IInv
<1>1. Spec => Init /\ [][Next]_vars
  BY DEF Spec
<1> QED
  BY <1>1, InitIInv, NextIInv, PTL

\* Type correctness; in particular the unsigned pending_requests never
\* underflows.
THEOREM TypeCorrect == Spec => []TypeOK
<1>1. IInv => TypeOK
  BY DEF IInv
<1> QED
  BY <1>1, IInvInvariant, PTL

\* MapUpdater::wait() is a barrier: whenever the world thread is past it, no
\* request is queued and no worker is inside a map.
THEOREM BarrierHolds == Spec => []Barrier
<1>1. IInv => Barrier
  <2> SUFFICES ASSUME IInv, main \notin {"schedule", "wait", "asleep"}
               PROVE  Outstanding = {}
    BY DEF Barrier
  <2>1. Cardinality(Holding) \in Nat /\ Len(queue) \in Nat
    BY HoldingFinite, FS_CardinalityType DEF IInv, TypeOK
  <2>2. Len(queue) = 0 /\ Cardinality(Holding) = 0
    BY <2>1 DEF IInv, Quiet, Count
  <2>3. Holding = {}
    BY <2>2, HoldingFinite, FS_EmptySet
  <2> QED
    BY <2>2, <2>3 DEF Outstanding
<1> QED
  BY <1>1, IInvInvariant, PTL

\* request->call() is never made on the null request.
THEOREM NoNullCallHolds == Spec => []NoNullCall
<1>1. IInv => NoNullCall
  BY DEF IInv, InHand, NoNullCall
<1> QED
  BY <1>1, IInvInvariant, PTL

-----------------------------------------------------------------------------
(* The maps: what each kind of step does to the outstanding requests.      *)

\* Nothing is outstanding when nothing is pending.
LEMMA NothingPending ==
  ASSUME IInv, pending = 0
  PROVE  Outstanding = {} /\ Holding = {} /\ queue = <<>>
<1>1. Cardinality(Holding) \in Nat /\ Len(queue) \in Nat
  BY HoldingFinite, FS_CardinalityType DEF IInv, TypeOK
<1>2. Len(queue) = 0 /\ Cardinality(Holding) = 0
  BY <1>1 DEF IInv, Count
<1>3. Holding = {}
  BY <1>2, HoldingFinite, FS_EmptySet
<1> QED
  BY <1>2, <1>3 DEF Outstanding, IInv, TypeOK

LEMMA QueuedOutstanding ==
  /\ Outstanding = Queued \cup {req[w] : w \in Holding}
  /\ Queued \subseteq Outstanding
  /\ \A w \in Holding : req[w] \in Outstanding
BY DEF Outstanding, Queued

\* A worker in the middle of an update is one that holds its request.
LEMMA BusyHolds ==
  ASSUME IInv, NEW w \in Workers, wpc[w] \in {"update", "iterate", "finish"}
  PROVE  w \in Holding /\ req[w] \in Maps /\ main \in {"schedule", "wait", "asleep"}
<1>1. req[w] # NoMap
  BY DEF IInv, InHand
<1>2. pending > 0
  BY <1>1, HeldIsPending
<1> QED
  BY <1>1, <1>2 DEF Holding, IInv, TypeOK, Quiet

LEMMA OutstandingUnchanged ==
  ASSUME Single, UNCHANGED <<queue, req>>
  PROVE  Outstanding' = Outstanding /\ Queued' = Queued /\ Holding' = Holding /\ Single'
BY DEF Single, Outstanding, Queued, Holding

\* schedule_update makes m outstanding.
LEMMA OutstandingSchedule ==
  ASSUME IInv, Single, NEW m \in Maps, m \notin Outstanding,
         queue' = Append(queue, m), UNCHANGED req
  PROVE  /\ Outstanding' = Outstanding \cup {m} /\ Queued' = Queued \cup {m}
         /\ Holding' = Holding /\ Single'
<1>1. queue \in Seq(Maps) /\ Len(queue) \in Nat
  BY DEF IInv, TypeOK
<1>2. /\ Len(queue') = Len(queue) + 1 /\ queue'[Len(queue) + 1] = m
      /\ \A k \in 1 .. Len(queue) : queue'[k] = queue[k]
  BY <1>1
<1>3. Holding' = Holding
  BY DEF Holding
<1>4. Queued' = Queued \cup {m}
  <2>1. 1 .. Len(queue') = (1 .. Len(queue)) \cup {Len(queue) + 1}
    BY <1>1, <1>2
  <2> QED
    BY <1>2, <2>1 DEF Queued
<1>5. m \notin Queued /\ \A w \in Holding : req[w] # m
  BY QueuedOutstanding
<1>6. Single'
  <2>1. ASSUME NEW j \in 1 .. Len(queue'), NEW k \in 1 .. Len(queue'), queue'[j] = queue'[k]
        PROVE  j = k
    BY <1>1, <1>2, <1>5, <2>1 DEF Single, Queued
  <2> QED
    BY <1>3, <1>4, <1>5, <2>1 DEF Single
<1>7. Outstanding' = Queued' \cup {req'[w] : w \in Holding'}
  BY DEF Outstanding, Queued
<1> QED
  BY <1>3, <1>4, <1>6, <1>7, QueuedOutstanding

\* WaitAndPop moves a request from the queue into the hands of a worker.
LEMMA OutstandingPop ==
  ASSUME IInv, Single, NEW v \in Workers, Pop(v), ~shutdown
  PROVE  /\ Outstanding' = Outstanding /\ Queued' = Queued \ {Head(queue)}
         /\ Holding' = Holding \cup {v} /\ v \notin Holding /\ Head(queue) \in Queued
         /\ Single'
<1>1. /\ queue \in Seq(Maps) /\ queue # <<>> /\ Len(queue) \in Nat /\ Len(queue) >= 1
      /\ queue' = Tail(queue) /\ req' = [req EXCEPT ![v] = Head(queue)]
  BY DEF IInv, TypeOK, Pop
<1>2. /\ Len(queue') = Len(queue) - 1 /\ Head(queue) = queue[1] /\ Head(queue) \in Maps
      /\ \A k \in 1 .. Len(queue) - 1 : queue'[k] = queue[k + 1]
  BY <1>1
<1>3. Head(queue) # NoMap
  BY <1>2, MapsAssumption DEF Maps
<1>4. req \in [Workers -> Maps \cup {NoMap}] /\ req[v] = NoMap
  BY DEF IInv, TypeOK, InHand, Pop
<1>5. Holding' = Holding \cup {v} /\ v \notin Holding
  BY <1>1, <1>3, <1>4 DEF Holding
<1>6. Head(queue) \in Queued
  BY <1>1, <1>2 DEF Queued
<1>7. Queued' = Queued \ {Head(queue)}
  <2>1. ASSUME NEW k \in 1 .. Len(queue') PROVE queue'[k] \in Queued \ {Head(queue)}
    <3>1. k + 1 \in 1 .. Len(queue) /\ 1 \in 1 .. Len(queue) /\ k + 1 # 1
      BY <1>1, <1>2
    <3> QED
      BY <1>2, <3>1 DEF Single, Queued
  <2>2. ASSUME NEW j \in 1 .. Len(queue), queue[j] # Head(queue) PROVE queue[j] \in Queued'
    <3>1. j - 1 \in 1 .. Len(queue') /\ queue'[j - 1] = queue[j]
      BY <1>1, <1>2, <2>2
    <3> QED
      BY <3>1 DEF Queued
  <2> QED
    BY <2>1, <2>2 DEF Queued
<1>8. \A w \in Holding : req'[w] = req[w] /\ req[w] # Head(queue)
  BY <1>1, <1>4, <1>5, <1>6 DEF Single, Holding
<1>9. Single'
  <2>1. ASSUME NEW j \in 1 .. Len(queue'), NEW k \in 1 .. Len(queue'), queue'[j] = queue'[k]
        PROVE  j = k
    <3>1. j + 1 \in 1 .. Len(queue) /\ k + 1 \in 1 .. Len(queue)
      BY <1>1, <1>2
    <3> QED
      BY <1>2, <2>1, <3>1 DEF Single
  <2>2. req'[v] = Head(queue)
    BY <1>1, <1>4
  <2> QED
    BY <1>5, <1>7, <1>8, <2>1, <2>2 DEF Single
<1>10. Outstanding' = Outstanding
  <2>1. Outstanding' = Queued' \cup {req'[w] : w \in Holding'}
    BY DEF Outstanding, Queued
  <2>2. {req'[w] : w \in Holding'} = {req[w] : w \in Holding} \cup {Head(queue)}
    BY <1>1, <1>4, <1>5, <1>8 DEF Holding
  <2> QED
    BY <1>6, <1>7, <2>1, <2>2, QueuedOutstanding
<1> QED
  BY <1>5, <1>6, <1>7, <1>9, <1>10

\* update_finished removes the request of the worker, and no other.
LEMMA OutstandingFinished ==
  ASSUME IInv, Single, NEW v \in Workers, UpdateFinished(v)
  PROVE  /\ Outstanding' = Outstanding \ {req[v]} /\ Queued' = Queued
         /\ Holding' = Holding \ {v} /\ v \in Holding /\ Single'
<1>1. req \in [Workers -> Maps \cup {NoMap}] /\ v \in Holding
  BY BusyHolds DEF IInv, TypeOK, UpdateFinished
<1>2. queue' = queue /\ req' = [req EXCEPT ![v] = NoMap]
  BY DEF UpdateFinished
<1>3. Holding' = Holding \ {v}
  BY <1>1, <1>2 DEF Holding
<1>4. Queued' = Queued
  BY <1>2 DEF Queued
<1>5. \A w \in Holding \ {v} : req'[w] = req[w] /\ req[w] # req[v]
  BY <1>1, <1>2 DEF Single, Holding
<1>6. req[v] \notin Queued
  BY <1>1 DEF Single
<1>7. Outstanding' = Queued' \cup {req'[w] : w \in Holding'}
  BY DEF Outstanding, Queued
<1>8. Outstanding' = Outstanding \ {req[v]}
  BY <1>1, <1>3, <1>4, <1>5, <1>6, <1>7, QueuedOutstanding
<1>9. Single'
  BY <1>2, <1>3, <1>4, <1>5 DEF Single
<1> QED
  BY <1>1, <1>3, <1>4, <1>8, <1>9

-----------------------------------------------------------------------------
(* One lemma per action that the second invariant depends on.              *)

LEMMA InitMaps == Init => MapsInv
<1> SUFFICES ASSUME Init PROVE MapsInv
  OBVIOUS
<1>1. Holding = {} /\ queue = <<>> /\ Outstanding = {} /\ Queued = {}
  BY DEF Init, Holding, Outstanding, Queued
<1>2. Single /\ NoUpdateOfDeletedMap /\ Served
  BY <1>1 DEF Single, NoUpdateOfDeletedMap, Served
<1>3. Planned /\ Iterating
  BY DEF Init, Planned, Iterating
<1>4. Nested /\ Complete
  BY <1>1, ParentAssumption DEF Init, Nested, Complete, Maps
<1> QED
  BY <1>2, <1>3, <1>4 DEF MapsInv

LEMMA ScheduleBaseMapMaps ==
  ASSUME IInv, MapsInv, NEW m \in BaseMaps, ScheduleBaseMap(m)
  PROVE  MapsInv'
<1> USE DEF MapsInv
<1>1. m \in Maps /\ m \notin Outstanding /\ m \in iMaps /\ updates[m] = 0
  BY DEF Maps, ScheduleBaseMap, Planned
<1>2. /\ Outstanding' = Outstanding \cup {m} /\ Queued' = Queued \cup {m}
      /\ Holding' = Holding /\ Single'
  BY <1>1, OutstandingSchedule DEF ScheduleBaseMap, ScheduleUpdate
<1>3. \A w \in Workers : wpc'[w] = wpc[w] \/ (wpc[w] = "blocked" /\ wpc'[w] = "pop")
  BY NotifyOneType DEF IInv, ScheduleBaseMap, ScheduleUpdate
<1>4. UNCHANGED <<iMaps, instanced, main, req, iter, updates>> /\ toSchedule' = toSchedule \ {m}
  BY DEF ScheduleBaseMap, mapVars
<1>5. NoUpdateOfDeletedMap'
  BY <1>1, <1>2, <1>4 DEF NoUpdateOfDeletedMap
<1>6. Planned'
  BY <1>2, <1>4 DEF Planned
<1>7. Iterating'
  BY <1>2, <1>3, <1>4, MapsAssumption DEF Iterating, IInv, TypeOK
<1>8. Served'
  BY <1>1, <1>2, <1>3, <1>4 DEF Served, Holding
<1>9. Nested' /\ Complete'
  BY <1>2, <1>4, MapsAssumption DEF Nested, Complete
<1> QED
  BY <1>2, <1>5, <1>6, <1>7, <1>8, <1>9

LEMMA ScheduleInstanceMaps ==
  ASSUME IInv, MapsInv, NEW v \in Workers, NEW i \in Instances, ScheduleInstance(v, i)
  PROVE  MapsInv'
<1> USE DEF MapsInv
<1>1. /\ i \in Maps /\ i \notin Outstanding /\ i \in instanced /\ updates[i] = 0
      /\ Parent[i] = req[v] /\ wpc[v] = "iterate"
  BY DEF Maps, ScheduleInstance, Iterating
<1>2. /\ Outstanding' = Outstanding \cup {i} /\ Queued' = Queued \cup {i}
      /\ Holding' = Holding /\ Single'
  BY <1>1, OutstandingSchedule DEF ScheduleInstance, ScheduleUpdate
<1>3. \A w \in Workers : wpc'[w] = wpc[w] \/ (wpc[w] = "blocked" /\ wpc'[w] = "pop")
  BY NotifyOneType DEF IInv, ScheduleInstance, ScheduleUpdate
<1>4. /\ UNCHANGED <<iMaps, instanced, main, toSchedule, req, updates>>
      /\ iter' = [iter EXCEPT ![v] = @ \ {i}]
  BY DEF ScheduleInstance, mapVars, worldVars
<1>5. v \in Holding
  BY <1>1, BusyHolds
<1>6. NoUpdateOfDeletedMap'
  BY <1>1, <1>2, <1>4 DEF NoUpdateOfDeletedMap
<1>7. Planned'
  BY <1>2, <1>4, MapsAssumption DEF Planned, IInv, TypeOK
<1>8. Iterating'
  <2> SUFFICES ASSUME NEW w \in Workers, NEW j \in iter'[w]
               PROVE  /\ wpc'[w] = "iterate" /\ Parent[j] = req'[w]
                      /\ j \in instanced' /\ j \notin Outstanding' /\ updates'[j] = 0
    BY DEF Iterating
  <2>1. iter \in [Workers -> SUBSET Instances]
    BY DEF IInv, TypeOK
  <2>2. j \in iter[w] /\ (w = v => j # i)
    BY <1>4, <2>1
  <2>3. /\ wpc[w] = "iterate" /\ Parent[j] = req[w]
        /\ j \in instanced /\ j \notin Outstanding /\ updates[j] = 0
    BY <2>2 DEF Iterating
  <2>4. j # i
    <3>1. w \in Holding
      BY <2>3, BusyHolds
    <3> QED
      BY <1>1, <1>5, <2>2, <2>3, <3>1 DEF Single
  <2> QED
    BY <1>2, <1>3, <1>4, <2>3, <2>4
<1>9. Served'
  BY <1>1, <1>2, <1>3, <1>4 DEF Served, Holding
<1>10. Nested'
  <2>1. updates[req[v]] = 1
    BY <1>1, <1>5 DEF Served
  <2> QED
    BY <1>1, <1>2, <1>4, <2>1 DEF Nested
<1>11. Complete'
  BY <1>2, <1>4 DEF Complete
<1> QED
  BY <1>2, <1>6, <1>7, <1>8, <1>9, <1>10, <1>11

LEMMA DestroyInstanceMaps ==
  ASSUME IInv, MapsInv, NEW v \in Workers, NEW i \in Instances, DestroyInstance(v, i)
  PROVE  MapsInv'
<1> USE DEF MapsInv
<1>1. i \notin Outstanding /\ Parent[i] = req[v] /\ wpc[v] = "iterate"
  BY DEF DestroyInstance, Iterating
<1>2. /\ UNCHANGED <<iMaps, main, toSchedule, wpc, req, queue, updates>>
      /\ iter' = [iter EXCEPT ![v] = @ \ {i}] /\ instanced \ {i} \subseteq instanced'
  BY DEF DestroyInstance, worldVars
<1>3. Outstanding' = Outstanding /\ Queued' = Queued /\ Holding' = Holding /\ Single'
  BY <1>2, OutstandingUnchanged
<1>4. v \in Holding
  BY <1>1, BusyHolds
<1>5. NoUpdateOfDeletedMap'
  BY <1>1, <1>2, <1>3 DEF NoUpdateOfDeletedMap
<1>6. Iterating'
  <2> SUFFICES ASSUME NEW w \in Workers, NEW j \in iter'[w]
               PROVE  /\ wpc'[w] = "iterate" /\ Parent[j] = req'[w]
                      /\ j \in instanced' /\ j \notin Outstanding' /\ updates'[j] = 0
    BY DEF Iterating
  <2>1. iter \in [Workers -> SUBSET Instances]
    BY DEF IInv, TypeOK
  <2>2. j \in iter[w] /\ (w = v => j # i)
    BY <1>2, <2>1
  <2>3. /\ wpc[w] = "iterate" /\ Parent[j] = req[w]
        /\ j \in instanced /\ j \notin Outstanding /\ updates[j] = 0
    BY <2>2 DEF Iterating
  <2>4. j # i
    <3>1. w \in Holding
      BY <2>3, BusyHolds
    <3> QED
      BY <1>1, <1>4, <2>2, <2>3, <3>1 DEF Single
  <2> QED
    BY <1>2, <1>3, <2>3, <2>4
<1>7. Planned' /\ Served' /\ Nested' /\ Complete'
  BY <1>2, <1>3 DEF Planned, Served, Nested, Complete
<1> QED
  BY <1>3, <1>5, <1>6, <1>7

LEMMA PopMaps ==
  ASSUME IInv, MapsInv, NEW v \in Workers, Pop(v)
  PROVE  MapsInv'
<1> USE DEF MapsInv
<1>1. /\ UNCHANGED <<iMaps, instanced, main, toSchedule, iter, updates>>
      /\ wpc[v] = "pop" /\ wpc' = [wpc EXCEPT ![v] = "popped"]
  BY DEF Pop, mapVars, worldVars
<1>2. \A w \in Workers : wpc'[w] = IF w = v THEN "popped" ELSE wpc[w]
  BY <1>1 DEF IInv, TypeOK
<1>3. /\ Outstanding' = Outstanding /\ Single' /\ Queued' \subseteq Queued
      /\ \A w \in Workers \ {v} : req'[w] = req[w]
      /\ \A w \in Holding' : w \in Holding \/ (w = v /\ req'[v] \in Queued)
  <2>1. CASE shutdown
    <3>1. UNCHANGED <<queue, req>>
      BY <2>1 DEF Pop
    <3> QED
      BY <3>1, OutstandingUnchanged
  <2>2. CASE ~ shutdown
    <3>1. req \in [Workers -> Maps \cup {NoMap}] /\ req' = [req EXCEPT ![v] = Head(queue)]
      BY <2>2 DEF IInv, TypeOK, Pop
    <3> QED
      BY <2>2, <3>1, OutstandingPop
  <2> QED
    BY <2>1, <2>2
<1>4. NoUpdateOfDeletedMap' /\ Planned' /\ Nested' /\ Complete'
  BY <1>1, <1>3 DEF NoUpdateOfDeletedMap, Planned, Nested, Complete
<1>5. Iterating'
  BY <1>1, <1>2, <1>3 DEF Iterating
<1>6. Served'
  <2>1. v \notin Holding
    BY <1>1 DEF IInv, InHand, Holding
  <2> QED
    BY <1>1, <1>2, <1>3, <2>1 DEF Served, Holding
<1> QED
  BY <1>3, <1>4, <1>5, <1>6

\* Map::Update: the instances below the map have not been requested yet,
\* because only this update requests them.
LEMMA UpdateMapMaps ==
  ASSUME IInv, MapsInv, NEW v \in Workers, UpdateMap(v)
  PROVE  MapsInv'
<1> USE DEF MapsInv
<1>1. v \in Holding /\ req[v] \in Maps /\ req[v] \in Outstanding /\ wpc[v] = "update"
  BY BusyHolds, QueuedOutstanding DEF UpdateMap
<1>2. updates[req[v]] = 0
  BY <1>1 DEF Served
<1>3. /\ UNCHANGED <<iMaps, instanced, main, toSchedule, req, queue>>
      /\ updates \in [Maps -> Nat] /\ updates' = [updates EXCEPT ![req[v]] = @ + 1]
      /\ iter \in [Workers -> SUBSET Instances]
      /\ iter' = [iter EXCEPT ![v] = {i \in instanced : Parent[i] = req[v]}]
      /\ wpc' = [wpc EXCEPT ![v] = "iterate"] /\ DOMAIN wpc = Workers
  BY DEF IInv, TypeOK, UpdateMap, mapVars, worldVars
<1>4. \A m \in Maps : updates'[m] = IF m = req[v] THEN 1 ELSE updates[m]
  BY <1>2, <1>3
<1>5. \A w \in Workers : wpc'[w] = IF w = v THEN "iterate" ELSE wpc[w]
  BY <1>3
<1>6. Outstanding' = Outstanding /\ Queued' = Queued /\ Holding' = Holding /\ Single'
  BY <1>3, OutstandingUnchanged
<1>7. NoUpdateOfDeletedMap'
  BY <1>3, <1>6 DEF NoUpdateOfDeletedMap
<1>8. Planned'
  BY <1>1, <1>3, <1>4, <1>6 DEF Planned, IInv, TypeOK, Maps
<1>9. Iterating'
  <2> SUFFICES ASSUME NEW w \in Workers, NEW j \in iter'[w]
               PROVE  /\ wpc'[w] = "iterate" /\ Parent[j] = req'[w]
                      /\ j \in instanced' /\ j \notin Outstanding' /\ updates'[j] = 0
    BY DEF Iterating
  <2>1. CASE w = v
    <3>1. j \in instanced /\ j \in Instances /\ Parent[j] = req[v]
      BY <1>3, <2>1 DEF IInv, TypeOK
    <3>2. j \in Maps /\ updates[j] = 0 /\ j \notin Outstanding
      BY <1>2, <1>3, <3>1 DEF Nested, Maps
    <3>3. j # req[v]
      BY <1>1, <3>2
    <3> QED
      BY <1>3, <1>4, <1>5, <1>6, <2>1, <3>1, <3>2, <3>3
  <2>2. CASE w # v
    <3>1. j \in iter[w] /\ j \in Instances
      BY <1>3, <2>2
    <3>2. /\ wpc[w] = "iterate" /\ Parent[j] = req[w] /\ j \in Maps
          /\ j \in instanced /\ j \notin Outstanding /\ updates[j] = 0
      BY <3>1 DEF Iterating, Maps
    <3> QED
      BY <1>1, <1>3, <1>4, <1>5, <1>6, <2>2, <3>2
  <2> QED
    BY <2>1, <2>2
<1>10. Served'
  <2>1. \A m \in Queued : m \in Maps /\ m # req[v]
    BY <1>1 DEF Single, Queued, IInv, TypeOK
  <2>2. \A w \in Holding : w \in Workers /\ req[w] \in Maps /\ (w # v => req[w] # req[v])
    BY <1>1 DEF Single, Holding, IInv, TypeOK
  <2> QED
    BY <1>3, <1>4, <1>5, <1>6, <2>1, <2>2 DEF Served
<1>11. Nested'
  <2>1. \A i \in Instances : i \in Maps /\ Parent[i] \in Maps
    BY ParentAssumption DEF Maps
  <2> QED
    BY <1>1, <1>3, <1>4, <1>6, <2>1 DEF Nested
<1>12. Complete'
  BY <1>2, <1>3, <1>4, <1>6 DEF Complete, IInv, TypeOK, Maps
<1> QED
  BY <1>6, <1>7, <1>8, <1>9, <1>10, <1>11, <1>12

\* update_finished: the map has been updated, so the tick stays complete.
LEMMA UpdateFinishedMaps ==
  ASSUME IInv, MapsInv, NEW v \in Workers, UpdateFinished(v)
  PROVE  MapsInv'
<1> USE DEF MapsInv
<1>1. /\ Outstanding' = Outstanding \ {req[v]} /\ Queued' = Queued
      /\ Holding' = Holding \ {v} /\ v \in Holding /\ Single'
  BY OutstandingFinished
<1>2. wpc[v] = "finish" /\ main \in {"schedule", "wait", "asleep"} /\ updates[req[v]] = 1
  BY <1>1, BusyHolds DEF UpdateFinished, Served
<1>3. /\ UNCHANGED <<iMaps, instanced, toSchedule, iter, updates>>
      /\ \A w \in Workers \ {v} : req'[w] = req[w] /\ wpc'[w] = wpc[w]
      /\ main' \in {"schedule", "wait"} /\ (main = "schedule" => main' = main)
  BY <1>2 DEF IInv, TypeOK, UpdateFinished, mapVars, NotifyWorld
<1>4. NoUpdateOfDeletedMap' /\ Planned'
  BY <1>1, <1>3 DEF NoUpdateOfDeletedMap, Planned
<1>5. Iterating'
  BY <1>1, <1>2, <1>3 DEF Iterating
<1>6. Served'
  BY <1>1, <1>3 DEF Served, Holding
<1>7. Nested'
  BY <1>1, <1>3 DEF Nested
<1>8. Complete'
  BY <1>1, <1>2, <1>3 DEF Complete
<1> QED
  BY <1>1, <1>4, <1>5, <1>6, <1>7, <1>8

\* The check of the cancelation token and the end of the loop move only the
\* worker, Block too.
LEMMA WorkerMoveMaps ==
  ASSUME IInv, MapsInv, NEW v \in Workers, Block(v) \/ CheckToken(v) \/ EndUpdate(v)
  PROVE  MapsInv'
<1> USE DEF MapsInv
<1>1. UNCHANGED <<iMaps, instanced, main, toSchedule, req, queue, iter, updates>>
  BY DEF Block, CheckToken, EndUpdate, mapVars, worldVars
<1>2. Outstanding' = Outstanding /\ Queued' = Queued /\ Holding' = Holding /\ Single'
  BY <1>1, OutstandingUnchanged
<1>3. /\ \A w \in Workers \ {v} : wpc'[w] = wpc[w]
      /\ wpc[v] \in {"iterate", "finish"} <=> wpc'[v] \in {"iterate", "finish"}
      /\ wpc[v] = "iterate" => iter[v] = {}
  BY DEF Block, CheckToken, EndUpdate, IInv, TypeOK
<1>4. Iterating'
  BY <1>1, <1>2, <1>3 DEF Iterating
<1>5. Served'
  BY <1>1, <1>2, <1>3 DEF Served, Holding
<1>6. NoUpdateOfDeletedMap' /\ Planned' /\ Nested' /\ Complete'
  BY <1>1, <1>2 DEF NoUpdateOfDeletedMap, Planned, Nested, Complete
<1> QED
  BY <1>2, <1>4, <1>5, <1>6

\* When nothing is pending nobody is in a loop over instances either.
LEMMA NobodyIterates ==
  ASSUME IInv, MapsInv, main \notin {"schedule", "wait", "asleep"}
  PROVE  /\ Outstanding = {} /\ Holding = {} /\ queue = <<>> /\ toSchedule = {}
         /\ \A w \in Workers : iter[w] = {}
<1>1. pending = 0
  BY DEF IInv, Quiet
<1>2. Outstanding = {} /\ Holding = {} /\ queue = <<>>
  BY <1>1, NothingPending
<1>3. \A w \in Workers : wpc[w] # "iterate"
  BY BusyHolds
<1> QED
  BY <1>2, <1>3 DEF MapsInv, Iterating, Planned

\* wait() returns only when nothing is pending: what is not yet scheduled or
\* outstanding has been updated.
LEMMA WorldMaps ==
  ASSUME IInv, MapsInv,
         AllScheduled \/ Wait \/ DelayedUpdate \/ Deactivate \/ Cancel \/ Join
  PROVE  MapsInv'
<1> USE DEF MapsInv
<1>1. UNCHANGED <<iMaps, instanced, toSchedule, req, iter, updates>>
  BY DEF AllScheduled, Wait, DelayedUpdate, Deactivate, Cancel, Join, mapVars, workerVars
<1>2. queue' = queue
  <2>1. CASE Cancel
    BY <2>1, NobodyIterates DEF Cancel
  <2> QED
    BY <2>1 DEF AllScheduled, Wait, DelayedUpdate, Deactivate, Join
<1>3. Outstanding' = Outstanding /\ Queued' = Queued /\ Holding' = Holding /\ Single'
  BY <1>1, <1>2, OutstandingUnchanged
<1>4. \A w \in Workers : wpc'[w] = wpc[w] \/ (wpc[w] = "blocked" /\ wpc'[w] = "pop")
  BY DEF AllScheduled, Wait, DelayedUpdate, Deactivate, Cancel, Join, workerVars, IInv, TypeOK
<1>5. Iterating' /\ Served'
  BY <1>1, <1>3, <1>4 DEF Iterating, Served, Holding
<1>6. NoUpdateOfDeletedMap' /\ Nested'
  BY <1>1, <1>3 DEF NoUpdateOfDeletedMap, Nested
<1>7. Planned'
  <2>1. main = "schedule" => toSchedule = {}
    BY DEF AllScheduled, Wait, DelayedUpdate, Deactivate, Cancel, Join
  <2>2. toSchedule = {}
    BY <2>1 DEF Planned
  <2> QED
    BY <1>1, <2>2 DEF Planned
<1>8. Complete'
  <2>1. main' \in {"schedule", "wait", "asleep", "delayed"} =>
          main \in {"schedule", "wait", "asleep", "delayed"}
    BY DEF AllScheduled, Wait, DelayedUpdate, Deactivate, Cancel, Join
  <2> QED
    BY <1>1, <1>3, <2>1 DEF Complete
<1> QED
  BY <1>3, <1>5, <1>6, <1>7, <1>8

\* Between ticks nothing is pending, so maps may come, go and be planned.
LEMMA IdleMaps ==
  ASSUME IInv, MapsInv,
         \/ \E b \in BaseMaps : CreateBaseMap(b)
         \/ \E i \in Instances : CreateInstance(i)
         \/ StartTick \/ UnloadAll
  PROVE  MapsInv'
<1> USE DEF MapsInv
<1>1. main = "idle" /\ UNCHANGED <<queue, wpc, req, iter>>
  BY DEF CreateBaseMap, CreateInstance, StartTick, UnloadAll, workerVars
<1>2. /\ Outstanding = {} /\ Holding = {} /\ toSchedule = {} /\ queue = <<>>
      /\ \A w \in Workers : iter[w] = {}
  BY <1>1, NobodyIterates
<1>3. Outstanding' = {} /\ Queued' = {} /\ Holding' = {} /\ Single'
  BY <1>1, <1>2, OutstandingUnchanged, QueuedOutstanding
<1>4. NoUpdateOfDeletedMap' /\ Iterating' /\ Served'
  BY <1>1, <1>2, <1>3 DEF NoUpdateOfDeletedMap, Iterating, Served
<1>5. Planned' /\ Nested' /\ Complete'
  <2>1. CASE StartTick
    <3>1. iMaps \subseteq Maps
      BY DEF IInv, TypeOK, Maps
    <3>2. toSchedule' = iMaps /\ iMaps' = iMaps /\ main' = "schedule" /\ \A m \in Maps : updates'[m] = 0
      BY <2>1 DEF StartTick, mapVars
    <3> QED
      BY <1>3, <3>1, <3>2 DEF Planned, Nested, Complete, Maps
  <2>2. CASE ~StartTick
    <3>1. UNCHANGED <<toSchedule, updates>> /\ main' \in {"idle", "deactivate"}
      BY <1>1, <2>2 DEF CreateBaseMap, CreateInstance, UnloadAll, worldVars
    <3> QED
      BY <1>2, <1>3, <3>1 DEF Planned, Nested, Complete
  <2> QED
    BY <2>1, <2>2
<1> QED
  BY <1>3, <1>4, <1>5

LEMMA StutterMaps ==
  ASSUME IInv, MapsInv, SpuriousWakeup \/ Terminated \/ UNCHANGED vars
  PROVE  MapsInv'
<1> USE DEF MapsInv
<1>1. UNCHANGED <<iMaps, instanced, toSchedule, queue, req, iter, updates>>
  BY DEF SpuriousWakeup, Terminated, vars, mapVars
<1>2. /\ \A w \in Workers : wpc'[w] = wpc[w] \/ (wpc[w] = "blocked" /\ wpc'[w] = "pop")
      /\ \/ main' = main
         \/ main = "asleep" /\ main' = "wait"
         \/ main = "drainAsleep" /\ main' = "drain"
  BY DEF SpuriousWakeup, NotifyWorld, Terminated, vars, IInv, TypeOK
<1>3. Outstanding' = Outstanding /\ Queued' = Queued /\ Holding' = Holding /\ Single'
  BY <1>1, OutstandingUnchanged
<1>4. Iterating' /\ Served'
  BY <1>1, <1>2, <1>3 DEF Iterating, Served, Holding
<1>5. NoUpdateOfDeletedMap' /\ Nested' /\ Planned' /\ Complete'
  BY <1>1, <1>2, <1>3 DEF NoUpdateOfDeletedMap, Nested, Planned, Complete
<1> QED
  BY <1>3, <1>4, <1>5

LEMMA NextMaps == IInv /\ MapsInv /\ [Next]_vars => MapsInv'
<1> SUFFICES ASSUME IInv, MapsInv, [Next]_vars PROVE MapsInv'
  OBVIOUS
<1>1. CASE WorldStep
  BY <1>1, ScheduleBaseMapMaps, WorldMaps DEF WorldStep
<1>2. CASE Environment
  BY <1>2, IdleMaps, StutterMaps DEF Environment
<1>3. ASSUME NEW w \in Workers, WorkerStep(w) PROVE MapsInv'
  <2>1. CASE \E i \in Instances : ScheduleInstance(w, i) \/ DestroyInstance(w, i)
    BY <2>1, ScheduleInstanceMaps, DestroyInstanceMaps
  <2> QED
    BY <1>3, <2>1, WorkerMoveMaps, PopMaps, UpdateMapMaps, UpdateFinishedMaps DEF WorkerStep
<1>4. CASE Terminated \/ UNCHANGED vars
  BY <1>4, StutterMaps
<1> QED
  BY <1>1, <1>2, <1>3, <1>4 DEF Next

\* The invariant of the maps holds in every reachable state.
THEOREM MapsInvariant == Spec => []MapsInv
<1>1. Spec => Init /\ [][Next]_vars
  BY DEF Spec
<1> QED
  BY <1>1, InitMaps, NextMaps, IInvInvariant, PTL

\* Nobody updates, or will update, a map that has been deleted.
THEOREM NoRequestOutlivesItsMap == Spec => []NoUpdateOfDeletedMap
<1>1. MapsInv => NoUpdateOfDeletedMap
  BY DEF MapsInv
<1> QED
  BY <1>1, MapsInvariant, PTL

\* When DelayedUpdate runs, every loaded base map has been updated once in the
\* tick, and no map twice.
THEOREM EachMapOnce == Spec => []TickComplete
<1>1. IInv /\ MapsInv => TickComplete
  <2> SUFFICES ASSUME IInv, MapsInv, main = "delayed" PROVE TickComplete
    BY DEF TickComplete
  <2>1. Outstanding = {} /\ toSchedule = {}
    BY NobodyIterates
  <2> QED
    BY <2>1 DEF MapsInv, Complete, TickComplete
<1> QED
  BY <1>1, IInvInvariant, MapsInvariant, PTL

-----------------------------------------------------------------------------
(* The refinement of MapTick: each step of the threads is one step of the  *)
(* abstract tick, or none.                                                 *)

LEMMA TickOfSchedule ==
  ASSUME IInv, MapsInv, NEW m \in Maps, m \notin Outstanding, updates[m] = 0,
         queue' = Append(queue, m), UNCHANGED <<req, updates, main>>,
         main \in {"schedule", "wait", "asleep"}
  PROVE  Tick!Request(m)
<1>1. Outstanding' = Outstanding \cup {m}
  BY OutstandingSchedule DEF MapsInv
<1>2. Phase = "updating" /\ Phase' = Phase
  BY DEF Phase
<1>3. m \notin Updated /\ Updated' = Updated
  BY <1>1 DEF Updated
<1> QED
  BY <1>1, <1>2, <1>3 DEF Tick!Request

LEMMA TickOfFinished ==
  ASSUME IInv, MapsInv, NEW v \in Workers, UpdateFinished(v)
  PROVE  Tick!Finish(req[v])
<1>1. Outstanding' = Outstanding \ {req[v]} /\ v \in Holding
  BY OutstandingFinished DEF MapsInv
<1>2. /\ main \in {"schedule", "wait", "asleep"} /\ updates[req[v]] = 1 /\ req[v] \in Maps
      /\ req[v] \in Outstanding
  BY <1>1, BusyHolds, QueuedOutstanding DEF UpdateFinished, MapsInv, Served
<1>3. Phase = "updating" /\ Phase' = Phase
  BY <1>2 DEF Phase, UpdateFinished, NotifyWorld
<1>4. Updated' = Updated \cup {req[v]}
  <2>1. updates' = updates
    BY DEF UpdateFinished
  <2> QED
    BY <1>1, <1>2, <2>1 DEF Updated
<1> QED
  BY <1>1, <1>2, <1>3, <1>4 DEF Tick!Finish

\* Every other step of a worker is invisible: a map counts as updated only
\* when its update is finished.
LEMMA TickOfWorker ==
  ASSUME IInv, MapsInv, NEW v \in Workers,
         \/ Block(v) \/ Pop(v) \/ CheckToken(v) \/ UpdateMap(v) \/ EndUpdate(v)
         \/ \E i \in Instances : DestroyInstance(v, i)
  PROVE  UNCHANGED <<Phase, Outstanding, Updated>>
<1>1. main' = main
  BY DEF Block, Pop, CheckToken, UpdateMap, EndUpdate, DestroyInstance, worldVars
<1>2. Outstanding' = Outstanding
  <2>1. CASE Pop(v)
    <3>1. shutdown => UNCHANGED <<queue, req>>
      BY <2>1 DEF Pop
    <3> QED
      BY <2>1, <3>1, OutstandingUnchanged, OutstandingPop DEF MapsInv
  <2>2. CASE ~Pop(v)
    <3>1. UNCHANGED <<queue, req>>
      BY <2>2 DEF Block, CheckToken, UpdateMap, EndUpdate, DestroyInstance
    <3> QED
      BY <3>1, OutstandingUnchanged DEF MapsInv
  <2> QED
    BY <2>1, <2>2
<1>3. Updated' = Updated
  <2>1. CASE UpdateMap(v)
    <3>1. req[v] \in Outstanding
      BY <2>1, BusyHolds, QueuedOutstanding DEF UpdateMap
    <3>2. \A m \in Maps \ {req[v]} : updates'[m] = updates[m]
      BY <2>1 DEF UpdateMap, IInv, TypeOK
    <3> QED
      BY <1>2, <3>1, <3>2 DEF Updated
  <2>2. CASE ~UpdateMap(v)
    <3>1. updates' = updates
      BY <2>2 DEF Block, Pop, CheckToken, EndUpdate, DestroyInstance
    <3> QED
      BY <1>2, <3>1 DEF Updated
  <2> QED
    BY <2>1, <2>2
<1> QED
  BY <1>1, <1>2, <1>3 DEF Phase

LEMMA TickOfWorld ==
  ASSUME IInv, MapsInv,
         AllScheduled \/ Wait \/ DelayedUpdate \/ Deactivate \/ Cancel \/ Join
  PROVE  Tick!Release \/ Tick!End \/ UNCHANGED <<Phase, Outstanding, Updated>>
<1>1. UNCHANGED <<req, updates>>
  BY DEF AllScheduled, Wait, DelayedUpdate, Deactivate, Cancel, Join, workerVars
<1>2. queue' = queue
  <2>1. CASE Cancel
    BY <2>1, NobodyIterates DEF Cancel
  <2> QED
    BY <2>1 DEF AllScheduled, Wait, DelayedUpdate, Deactivate, Join
<1>3. Outstanding' = Outstanding
  BY <1>1, <1>2, OutstandingUnchanged DEF MapsInv
<1>4. Updated' = Updated
  BY <1>1, <1>3 DEF Updated
<1>5. CASE Wait /\ main = "wait" /\ pending = 0
  <2>1. Outstanding = {}
    BY <1>5, NothingPending
  <2>2. Phase = "updating" /\ Phase' = "delayed"
    BY <1>5 DEF Wait, Phase
  <2> QED
    BY <1>3, <1>4, <2>1, <2>2 DEF Tick!Release
<1>6. CASE DelayedUpdate
  <2>1. Phase = "delayed" /\ Phase' = "idle"
    BY <1>6 DEF DelayedUpdate, Phase
  <2> QED
    BY <1>3, <1>4, <2>1 DEF Tick!End
<1>7. CASE ~DelayedUpdate /\ ~(Wait /\ main = "wait" /\ pending = 0)
  <2>1. pending \in Nat
    BY DEF IInv, TypeOK
  <2>2. Phase' = Phase
    BY <1>7, <2>1 DEF AllScheduled, Wait, Deactivate, Cancel, Join, Phase
  <2> QED
    BY <1>3, <1>4, <2>2
<1> QED
  BY <1>5, <1>6, <1>7

LEMMA TickOfIdle ==
  ASSUME IInv, MapsInv,
         \/ \E b \in BaseMaps : CreateBaseMap(b)
         \/ \E i \in Instances : CreateInstance(i)
         \/ StartTick \/ UnloadAll
  PROVE  Tick!Begin \/ Tick!Stop \/ UNCHANGED <<Phase, Outstanding, Updated>>
<1>1. main = "idle" /\ UNCHANGED <<queue, req>>
  BY DEF CreateBaseMap, CreateInstance, StartTick, UnloadAll, workerVars
<1>2. Outstanding' = Outstanding /\ Phase = "idle"
  BY <1>1, OutstandingUnchanged DEF MapsInv, Phase
<1>3. CASE StartTick
  <2>1. Phase' = "updating" /\ Updated' = {}
    BY <1>3 DEF StartTick, Phase, Updated
  <2> QED
    BY <1>2, <2>1 DEF Tick!Begin
<1>4. CASE ~StartTick
  <2>1. updates' = updates /\ (UnloadAll \/ main' = main)
    BY <1>4 DEF CreateBaseMap, CreateInstance, UnloadAll, worldVars
  <2>2. UnloadAll => Phase' = "stopped"
    BY DEF UnloadAll, Phase
  <2>3. Updated' = Updated /\ (main' = main => Phase' = Phase)
    BY <1>2, <2>1 DEF Updated, Phase
  <2> QED
    BY <1>2, <2>1, <2>2, <2>3 DEF Tick!Stop
<1> QED
  BY <1>3, <1>4

LEMMA TickOfStutter ==
  ASSUME MapsInv, SpuriousWakeup \/ Terminated \/ UNCHANGED vars
  PROVE  UNCHANGED <<Phase, Outstanding, Updated>>
<1>1. UNCHANGED <<queue, req, updates>>
  BY DEF SpuriousWakeup, Terminated, vars
<1>2. Outstanding' = Outstanding /\ Updated' = Updated
  BY <1>1, OutstandingUnchanged DEF MapsInv, Updated
<1>3. Phase' = Phase
  BY DEF SpuriousWakeup, NotifyWorld, Terminated, vars, Phase
<1> QED
  BY <1>2, <1>3

LEMMA NextImplementsTick ==
  IInv /\ MapsInv /\ [Next]_vars => [Tick!TickNext]_<<Phase, Outstanding, Updated>>
<1> SUFFICES ASSUME IInv, MapsInv, [Next]_vars
    PROVE  Tick!TickNext \/ UNCHANGED <<Phase, Outstanding, Updated>>
  OBVIOUS
<1>1. ASSUME NEW m \in BaseMaps, ScheduleBaseMap(m) PROVE Tick!TickNext
  <2>1. m \in Maps /\ m \notin Outstanding /\ updates[m] = 0
    BY <1>1 DEF Maps, ScheduleBaseMap, MapsInv, Planned
  <2>2. Tick!Request(m)
    BY <1>1, <2>1, TickOfSchedule DEF ScheduleBaseMap, ScheduleUpdate
  <2> QED
    BY <2>1, <2>2 DEF Tick!TickNext
<1>2. ASSUME NEW w \in Workers, NEW i \in Instances, ScheduleInstance(w, i) PROVE Tick!TickNext
  <2>1. i \in Maps /\ i \notin Outstanding /\ updates[i] = 0
    BY <1>2 DEF Maps, ScheduleInstance, MapsInv, Iterating
  <2>2. main \in {"schedule", "wait", "asleep"}
    BY <1>2, BusyHolds DEF ScheduleInstance
  <2>3. Tick!Request(i)
    BY <1>2, <2>1, <2>2, TickOfSchedule DEF ScheduleInstance, ScheduleUpdate, worldVars
  <2> QED
    BY <2>1, <2>3 DEF Tick!TickNext
<1>3. ASSUME NEW w \in Workers, UpdateFinished(w) PROVE Tick!TickNext
  <2>1. req[w] \in Maps
    BY <1>3, BusyHolds DEF UpdateFinished
  <2> QED
    BY <1>3, <2>1, TickOfFinished DEF Tick!TickNext
<1>4. ASSUME NEW w \in Workers, WorkerStep(w)
      PROVE  Tick!TickNext \/ UNCHANGED <<Phase, Outstanding, Updated>>
  BY <1>2, <1>3, <1>4, TickOfWorker DEF WorkerStep
<1>5. CASE WorldStep
  BY <1>1, <1>5, TickOfWorld DEF WorldStep, Tick!TickNext
<1>6. CASE Environment
  BY <1>6, TickOfIdle, TickOfStutter DEF Environment, Tick!TickNext
<1>7. CASE Terminated \/ UNCHANGED vars
  BY <1>7, TickOfStutter
<1> QED
  BY <1>4, <1>5, <1>6, <1>7 DEF Next

\* MapUpdater implements MapTick: whatever the interleaving of the threads,
\* MapManager::Update sees requests, finished maps and one release per tick.
THEOREM TickImplemented == Spec => ImplementsMapTick
<1>1. Init => Tick!TickInit
  <2> SUFFICES ASSUME Init PROVE Phase = "idle" /\ Outstanding = {} /\ Updated = {}
    BY DEF Tick!TickInit
  <2>1. Outstanding = {}
    BY DEF Init, Outstanding, Holding
  <2> QED
    BY <2>1 DEF Init, Phase, Updated
<1> QED
  BY <1>1, NextImplementsTick, IInvInvariant, MapsInvariant, PTL
     DEF Spec, ImplementsMapTick, Tick!TickSpec, Tick!tickVars

-----------------------------------------------------------------------------
(* The packets of a session, PacketRouting, beside the tick: the two       *)
(* threads that take them, of the world and of the map, are those of       *)
(* MapUpdater, and Barrier is why at most one of them is in Update.  The   *)
(* results are about any number of characters and packets and any limit of *)
(* packets per update, and need no assumption about the constants.         *)

\* Every packet the server has yet to handle, in the order in which it will be:
\* those put aside, then those in the queue.
Waiting == requeue \o recv

APacket == [id : Nat, kind : Kinds, of : Nat]

RoutingTypes ==
  /\ recv \in Seq(APacket) /\ requeue \in Seq(APacket)
  /\ toClient \in Seq({"transfer", "left"})
  /\ character \in Nat /\ sent \in Nat /\ last.id \in Nat
  /\ player \in Nat /\ loading \in Nat
  /\ inWorld \in BOOLEAN /\ recentlyLogout \in BOOLEAN /\ logoutTime \in BOOLEAN

\* The ids rise along the packets, from the one that was handled last to the
\* one that was sent last.
Rising(w) ==
  /\ \A j, k \in 1 .. Len(w) : j < k => w[j].id < w[k].id
  /\ \A k \in 1 .. Len(w) : last.id < w[k].id /\ w[k].id <= sent
  /\ last.id <= sent

\* Packets are put aside for a character that is being loaded only.
Aside == requeue # <<>> => loading # 0 /\ ~ recentlyLogout

\* Only who plays is in a world and can be logged out in it.
NoBody == player = 0 => ~ inWorld /\ ~ logoutTime

\* The packets in w were sent by the present character, and are of these kinds.
OfNow(w, kinds) == \A k \in 1 .. Len(w) : w[k].of = character /\ w[k].kind \in kinds

(* What the session and its client go through, from one character to the   *)
(* next.                                                                   *)
Playing(w) ==
  /\ player = character /\ player # 0 /\ loading = 0 /\ screen = "world"
  /\ \A k \in 1 .. Len(toClient) : toClient[k] = "transfer"
  /\ OfNow(w, LoggedIn \cup {"ack"})

\* The client plays on until it reads that it has left.
Leaving(w) ==
  /\ player = 0 /\ loading = 0 /\ recentlyLogout /\ screen = "world"
  /\ toClient # <<>>
  /\ \A k \in 1 .. Len(toClient) : toClient[k] = "left" <=> k = Len(toClient)
  /\ OfNow(w, LoggedIn \cup {"ack"})

Gone(w) ==
  /\ player = 0 /\ loading = 0 /\ recentlyLogout /\ screen = "connected"
  /\ toClient = <<>>
  /\ OfNow(w, LoggedIn \cup {"ack", "cancel"})

\* The request for the characters is the last packet of the last character; the
\* server remembers the logout until it comes to it.
Choosing(w) ==
  /\ player = 0 /\ loading = 0 /\ screen = "characters" /\ toClient = <<>>
  /\ \A k \in 1 .. Len(w) : w[k].kind # "login" /\ (w[k].kind = "enum" => k = Len(w))
  /\ ~ recentlyLogout => w = <<>>

\* The same with the login behind it, and then packets of the new character.
LoginAt(w, k) ==
  /\ w[k].kind = "login" /\ w[k].of = character
  /\ \A j \in 1 .. k - 1 : w[j].kind # "login" /\ (w[j].kind = "enum" => j = k - 1)
  /\ \A j \in k + 1 .. Len(w) : w[j].of = character /\ w[j].kind \in LoggedIn
  /\ ~ recentlyLogout => k = 1

Entering(w) ==
  /\ player = 0 /\ loading = 0 /\ screen = "world" /\ toClient = <<>> /\ character # 0
  /\ \E k \in 1 .. Len(w) : LoginAt(w, k)

Loading(w) ==
  /\ player = 0 /\ loading = character /\ loading # 0 /\ screen = "world"
  /\ toClient = <<>>
  /\ OfNow(w, LoggedIn)

Stage(w) ==
  Playing(w) \/ Leaving(w) \/ Gone(w) \/ Choosing(w) \/ Entering(w) \/ Loading(w)

RoutingInv ==
  /\ RoutingTypes /\ Aside /\ NoBody /\ ForItsPlayer
  /\ Rising(Waiting) /\ Stage(Waiting)

-----------------------------------------------------------------------------
(* Packets one behind the other.                                           *)

\* A packet that arrives is the last of all that wait.
LEMMA ArrivesLast ==
  ASSUME NEW S, NEW q \in Seq(S), NEW r \in Seq(S), NEW x \in S
  PROVE  q \o Append(r, x) = Append(q \o r, x)
<1>1. q \o r \in Seq(S) /\ <<x>> \in Seq(S)
  BY ConcatProperties
<1>2. Append(r, x) = r \o <<x>> /\ Append(q \o r, x) = (q \o r) \o <<x>>
  BY <1>1, AppendIsConcat
<1> QED
  BY <1>1, <1>2, ConcatAssociative

\* Whether a packet is the last of those put aside or the first of the others
\* makes no difference.
LEMMA PutAside ==
  ASSUME NEW S, NEW q \in Seq(S), NEW r \in Seq(S), r # <<>>
  PROVE  Append(q, Head(r)) \o Tail(r) = q \o r
<1>1. /\ Head(r) \in S /\ Tail(r) \in Seq(S) /\ Head(r) = r[1] /\ Len(r) \in Nat \ {0}
      /\ Len(Tail(r)) = Len(r) - 1
      /\ \A k \in 1 .. Len(Tail(r)) : Tail(r)[k] = r[k + 1]
  BY HeadTailProperties
<1> DEFINE h == <<Head(r)>>
           b == h \o Tail(r)
<1>2. h \in Seq(S) /\ Len(h) = 1 /\ h[1] = r[1]
  BY <1>1
<1>3. /\ b \in Seq(S) /\ Len(b) = Len(h) + Len(Tail(r))
      /\ \A k \in 1 .. Len(h) + Len(Tail(r)) :
           b[k] = IF k <= Len(h) THEN h[k] ELSE Tail(r)[k - Len(h)]
  BY <1>1, <1>2, ConcatProperties
<1>4. Append(q, Head(r)) = q \o h
  BY <1>1, AppendIsConcat
<1> HIDE DEF h, b
<1>5. Len(b) = Len(r) /\ \A k \in 1 .. Len(r) : b[k] = r[k]
  BY <1>1, <1>2, <1>3
<1>6. b = r
  BY <1>3, <1>5, SeqEqual
<1>7. \A u \in Seq(S), v \in Seq(S) : (q \o u) \o v = q \o (u \o v)
  BY ConcatAssociative
<1>8. (q \o h) \o Tail(r) = q \o b
  BY <1>1, <1>2, <1>7 DEF b
<1> QED
  BY <1>4, <1>6, <1>8

\* Arrival of a packet with the next id and the present character.
Arrives(p) ==
  /\ Waiting' = Append(Waiting, p) /\ p \in APacket
  /\ p.id = sent + 1 /\ p.of = character'
  /\ sent' = sent + 1 /\ last' = last

LEMMA SendArrives ==
  ASSUME RoutingTypes, NEW kind \in Kinds, Send(kind), character' \in Nat,
         toClient' \in Seq({"transfer", "left"})
  PROVE  /\ \E p \in APacket : p.kind = kind /\ Arrives(p)
         /\ RoutingTypes'
         /\ UNCHANGED <<requeue, player, inWorld, loading, recentlyLogout, logoutTime, last>>
<1> DEFINE p == [id |-> sent + 1, kind |-> kind, of |-> character']
<1>1. p \in APacket
  BY DEF RoutingTypes, APacket
<1>2. /\ recv' = Append(recv, p) /\ sent' = sent + 1
      /\ UNCHANGED <<requeue, player, inWorld, loading, recentlyLogout, logoutTime, last>>
  BY DEF Send, updateVars, playerVars
<1>3. p.id = sent + 1 /\ p.kind = kind /\ p.of = character'
  OBVIOUS
<1> HIDE DEF p
<1>4. Waiting' = Append(Waiting, p)
  BY <1>1, <1>2, ArrivesLast DEF Waiting, RoutingTypes
<1>5. recv' \in Seq(APacket)
  BY <1>1, <1>2, AppendProperties DEF RoutingTypes
<1>6. RoutingTypes'
  BY <1>2, <1>5 DEF RoutingTypes
<1> QED
  BY <1>1, <1>2, <1>3, <1>4, <1>6 DEF Arrives

LEMMA WaitingTyped ==
  ASSUME RoutingTypes
  PROVE  /\ Waiting \in Seq(APacket) /\ Len(Waiting) \in Nat
         /\ \A k \in 1 .. Len(Waiting) :
              Waiting[k].id \in Nat /\ Waiting[k].of \in Nat /\ Waiting[k].kind \in Kinds
<1>1. Waiting \in Seq(APacket)
  BY ConcatProperties DEF RoutingTypes, Waiting
<1>2. Len(Waiting) \in Nat /\ \A k \in 1 .. Len(Waiting) : Waiting[k] \in APacket
  BY <1>1
<1> QED
  BY <1>1, <1>2 DEF APacket

\* What a packet that arrives does to the places of the others.
LEMMA ArrivedAt ==
  ASSUME RoutingTypes, NEW p \in APacket, Arrives(p)
  PROVE  /\ Len(Waiting') = Len(Waiting) + 1
         /\ Waiting'[Len(Waiting) + 1] = p
         /\ \A k \in 1 .. Len(Waiting) : Waiting'[k] = Waiting[k]
BY WaitingTyped, AppendProperties DEF Arrives

LEMMA ArrivesRising ==
  ASSUME RoutingTypes, Rising(Waiting), NEW p \in APacket, Arrives(p)
  PROVE  Rising(Waiting)'
<1>1. /\ Len(Waiting') = Len(Waiting) + 1
      /\ Waiting'[Len(Waiting) + 1].id = sent + 1
      /\ \A k \in 1 .. Len(Waiting) : Waiting'[k] = Waiting[k]
  BY ArrivedAt DEF Arrives
<1>2. /\ sent \in Nat /\ last.id \in Nat /\ sent' = sent + 1 /\ last' = last /\ Len(Waiting) \in Nat
      /\ \A k \in 1 .. Len(Waiting) : Waiting[k].id \in Nat
  BY WaitingTyped DEF RoutingTypes, Arrives
<1>3. /\ \A j, k \in 1 .. Len(Waiting) : j < k => Waiting[j].id < Waiting[k].id
      /\ \A k \in 1 .. Len(Waiting) : last.id < Waiting[k].id /\ Waiting[k].id <= sent
      /\ last.id <= sent
  BY DEF Rising
<1>4. \A k \in 1 .. Len(Waiting') : k \in 1 .. Len(Waiting) \/ k = Len(Waiting) + 1
  BY <1>1, <1>2
<1>5. \A k \in 1 .. Len(Waiting') : last'.id < Waiting'[k].id /\ Waiting'[k].id <= sent'
  BY <1>1, <1>2, <1>3, <1>4
<1>6. \A j, k \in 1 .. Len(Waiting') : j < k => Waiting'[j].id < Waiting'[k].id
  BY <1>1, <1>2, <1>3, <1>4
<1> QED
  BY <1>2, <1>3, <1>5, <1>6 DEF Rising

LEMMA ArrivesOfNow ==
  ASSUME RoutingTypes, NEW p \in APacket, Arrives(p), character' = character,
         NEW kinds, NEW more, OfNow(Waiting, kinds), kinds \subseteq more, p.kind \in more
  PROVE  OfNow(Waiting, more)'
<1>1. /\ Len(Waiting') = Len(Waiting) + 1
      /\ Waiting'[Len(Waiting) + 1] = p
      /\ \A k \in 1 .. Len(Waiting) : Waiting'[k] = Waiting[k]
  BY ArrivedAt
<1>2. p.of = character /\ Len(Waiting) \in Nat
  BY WaitingTyped DEF Arrives
<1> QED
  BY <1>1, <1>2 DEF OfNow

LEMMA PlayKeeps ==
  ASSUME RoutingInv, NEW kind \in LoggedIn, Play(kind)
  PROVE  RoutingInv'
<1>1. /\ screen = "world" /\ UNCHANGED <<screen, character, toClient>> /\ Send(kind)
      /\ kind \in Kinds
      /\ RoutingTypes /\ Rising(Waiting) /\ Stage(Waiting)
  BY DEF Play, Kinds, RoutingInv
<1>2. character' \in Nat /\ toClient' \in Seq({"transfer", "left"})
  BY <1>1 DEF RoutingTypes
<1>3. /\ RoutingTypes'
      /\ UNCHANGED <<requeue, player, inWorld, loading, recentlyLogout, logoutTime, last>>
  BY <1>1, <1>2, SendArrives
<1>4. PICK p \in APacket : p.kind = kind /\ Arrives(p)
  BY <1>1, <1>2, SendArrives
<1>5. Rising(Waiting)'
  BY <1>1, <1>4, ArrivesRising
<1>6. Stage(Waiting)'
  <2>1. CASE Playing(Waiting)
    <3>1. OfNow(Waiting, LoggedIn \cup {"ack"})'
      BY <1>1, <1>4, <2>1, ArrivesOfNow DEF Playing
    <3> QED
      BY <1>1, <1>3, <2>1, <3>1 DEF Playing, Stage
  <2>2. CASE Leaving(Waiting)
    <3>1. OfNow(Waiting, LoggedIn \cup {"ack"})'
      BY <1>1, <1>4, <2>2, ArrivesOfNow DEF Leaving
    <3> QED
      BY <1>1, <1>3, <2>2, <3>1 DEF Leaving, Stage
  <2>3. CASE Entering(Waiting)
    <3>1. PICK k \in 1 .. Len(Waiting) : LoginAt(Waiting, k)
      BY <2>3 DEF Entering
    <3>2. /\ Len(Waiting') = Len(Waiting) + 1 /\ Len(Waiting) \in Nat
          /\ Waiting'[Len(Waiting) + 1].of = character
          /\ Waiting'[Len(Waiting) + 1].kind \in LoggedIn
          /\ \A j \in 1 .. Len(Waiting) : Waiting'[j] = Waiting[j]
      BY <1>1, <1>4, ArrivedAt, WaitingTyped DEF Arrives
    <3>3. LoginAt(Waiting, k)'
      BY <1>1, <1>3, <3>1, <3>2, SMTT(30) DEF LoginAt
    <3>4. k \in 1 .. Len(Waiting')
      BY <3>2
    <3> QED
      BY <1>1, <1>3, <2>3, <3>3, <3>4 DEF Entering, Stage
  <2>4. CASE Loading(Waiting)
    <3>1. OfNow(Waiting, LoggedIn)'
      BY <1>1, <1>4, <2>4, ArrivesOfNow DEF Loading
    <3> QED
      BY <1>1, <1>3, <2>4, <3>1 DEF Loading, Stage
  <2> QED
    BY <1>1, <2>1, <2>2, <2>3, <2>4 DEF Stage, Gone, Choosing
<1> QED
  BY <1>3, <1>5, <1>6 DEF RoutingInv, Aside, NoBody, ForItsPlayer

LEMMA AskCharactersKeeps ==
  ASSUME RoutingInv, AskCharacters
  PROVE  RoutingInv'
<1>1. /\ screen = "connected" /\ screen' = "characters"
      /\ UNCHANGED <<character, toClient>> /\ Send("enum")
      /\ "enum" \in Kinds
      /\ RoutingTypes /\ Rising(Waiting) /\ Stage(Waiting)
  BY DEF AskCharacters, Kinds, Authed, RoutingInv
<1>2. character' \in Nat /\ toClient' \in Seq({"transfer", "left"})
  BY <1>1 DEF RoutingTypes
<1>3. /\ RoutingTypes'
      /\ UNCHANGED <<requeue, player, inWorld, loading, recentlyLogout, logoutTime, last>>
  BY <1>1, <1>2, SendArrives
<1>4. PICK p \in APacket : p.kind = "enum" /\ Arrives(p)
  BY <1>1, <1>2, SendArrives
<1>5. Rising(Waiting)'
  BY <1>1, <1>4, ArrivesRising
<1>6. Gone(Waiting)
  BY <1>1 DEF Stage, Playing, Leaving, Choosing, Entering, Loading
<1>7. /\ Len(Waiting') = Len(Waiting) + 1 /\ Len(Waiting) \in Nat
      /\ Waiting'[Len(Waiting) + 1].kind = "enum"
      /\ \A j \in 1 .. Len(Waiting) : Waiting'[j] = Waiting[j]
  BY <1>1, <1>4, ArrivedAt, WaitingTyped
<1>8. \A k \in 1 .. Len(Waiting) : Waiting[k].kind \notin {"login", "enum"}
  BY <1>6 DEF Gone, OfNow, LoggedIn
<1>9. \A k \in 1 .. Len(Waiting') :
        Waiting'[k].kind # "login" /\ (Waiting'[k].kind = "enum" => k = Len(Waiting'))
  BY <1>7, <1>8
<1>10. Choosing(Waiting)'
  BY <1>1, <1>3, <1>6, <1>9 DEF Gone, Choosing
<1> QED
  BY <1>3, <1>5, <1>10 DEF RoutingInv, Stage, Aside, NoBody, ForItsPlayer

LEMMA EnterWorldKeeps ==
  ASSUME RoutingInv, EnterWorld
  PROVE  RoutingInv'
<1>1. /\ screen = "characters" /\ screen' = "world" /\ character' = character + 1
      /\ UNCHANGED toClient /\ Send("login")
      /\ "login" \in Kinds
      /\ RoutingTypes /\ Rising(Waiting) /\ Stage(Waiting)
  BY DEF EnterWorld, Kinds, Authed, RoutingInv
<1>2. character' \in Nat /\ character' # 0 /\ toClient' \in Seq({"transfer", "left"})
  BY <1>1 DEF RoutingTypes
<1>3. /\ RoutingTypes'
      /\ UNCHANGED <<requeue, player, inWorld, loading, recentlyLogout, logoutTime, last>>
  BY <1>1, <1>2, SendArrives
<1>4. PICK p \in APacket : p.kind = "login" /\ Arrives(p)
  BY <1>1, <1>2, SendArrives
<1>5. Rising(Waiting)'
  BY <1>1, <1>4, ArrivesRising
<1>6. Choosing(Waiting)
  BY <1>1 DEF Stage, Playing, Leaving, Gone, Entering, Loading
<1>7. /\ Len(Waiting') = Len(Waiting) + 1 /\ Len(Waiting) \in Nat
      /\ Waiting'[Len(Waiting) + 1].kind = "login"
      /\ Waiting'[Len(Waiting) + 1].of = character'
      /\ \A j \in 1 .. Len(Waiting) : Waiting'[j] = Waiting[j]
  BY <1>1, <1>4, ArrivedAt, WaitingTyped DEF Arrives
<1>8. \A j \in 1 .. Len(Waiting) :
        Waiting[j].kind # "login" /\ (Waiting[j].kind = "enum" => j = Len(Waiting))
  BY <1>6 DEF Choosing
<1>9. ~ recentlyLogout => Len(Waiting) = 0
  BY <1>6 DEF Choosing
<1>10. Len(Waiting') \in 1 .. Len(Waiting')
  BY <1>7
<1>11. Entering(Waiting)'
  <2>1. \E j \in 1 .. Len(Waiting') : LoginAt(Waiting, j)'
    BY <1>3, <1>7, <1>8, <1>9, <1>10 DEF LoginAt
  <2> QED
    BY <1>1, <1>2, <1>3, <1>6, <2>1 DEF Choosing, Entering
<1> QED
  BY <1>3, <1>5, <1>11 DEF RoutingInv, Stage, Aside, NoBody, ForItsPlayer

\* The client reads of a transfer while it plays or while it leaves, and that
\* it has left.
LEMMA ReadKeeps ==
  ASSUME RoutingInv, Read
  PROVE  RoutingInv'
<1>1. /\ toClient # <<>> /\ toClient' = Tail(toClient) /\ UNCHANGED character
      /\ \/ Head(toClient) = "transfer" /\ UNCHANGED screen /\ Send("ack")
         \/ Head(toClient) # "transfer" /\ screen' = "connected" /\ Send("cancel")
      /\ "ack" \in Kinds /\ "cancel" \in Kinds
      /\ RoutingTypes /\ Rising(Waiting) /\ Stage(Waiting)
  BY DEF Read, Kinds, RoutingInv
<1>2. /\ toClient' \in Seq({"transfer", "left"}) /\ Len(toClient) \in Nat \ {0}
      /\ Head(toClient) = toClient[1]
      /\ Len(toClient') = Len(toClient) - 1
      /\ \A k \in 1 .. Len(toClient') : toClient'[k] = toClient[k + 1]
  BY <1>1, HeadTailProperties DEF RoutingTypes
<1>3. character' \in Nat
  BY <1>1 DEF RoutingTypes
<1>4. /\ RoutingTypes'
      /\ UNCHANGED <<requeue, player, inWorld, loading, recentlyLogout, logoutTime, last>>
  BY <1>1, <1>2, <1>3, SendArrives
<1>5. PICK p \in APacket :
        /\ Arrives(p) /\ p.kind \in {"ack", "cancel"}
        /\ IF Head(toClient) = "transfer" THEN p.kind = "ack" /\ UNCHANGED screen
                                          ELSE p.kind = "cancel" /\ screen' = "connected"
  BY <1>1, <1>2, <1>3, SendArrives
<1>6. Rising(Waiting)'
  BY <1>1, <1>5, ArrivesRising
<1>7. Stage(Waiting)'
  <2>1. CASE Playing(Waiting)
    <3>1. Head(toClient) = "transfer"
      BY <1>2, <2>1 DEF Playing
    <3>2. OfNow(Waiting, LoggedIn \cup {"ack"})'
      BY <1>1, <1>5, <2>1, <3>1, ArrivesOfNow DEF Playing
    <3>3. \A k \in 1 .. Len(toClient') : toClient'[k] = "transfer"
      BY <1>2, <2>1 DEF Playing
    <3> QED
      BY <1>1, <1>4, <1>5, <2>1, <3>1, <3>2, <3>3 DEF Playing, Stage
  <2>2. CASE Leaving(Waiting) /\ Head(toClient) = "transfer"
    <3>1. OfNow(Waiting, LoggedIn \cup {"ack"})'
      BY <1>1, <1>5, <2>2, ArrivesOfNow DEF Leaving
    <3>2. Len(toClient) # 1
      BY <1>2, <2>2 DEF Leaving
    <3>3. toClient' # <<>>
      BY <1>2, <3>2
    <3>4. \A k \in 1 .. Len(toClient') : toClient'[k] = "left" <=> k = Len(toClient')
      BY <1>2, <2>2 DEF Leaving
    <3> QED
      BY <1>1, <1>4, <1>5, <2>2, <3>1, <3>3, <3>4 DEF Leaving, Stage
  <2>3. CASE Leaving(Waiting) /\ Head(toClient) # "transfer"
    <3>1. OfNow(Waiting, LoggedIn \cup {"ack", "cancel"})'
      BY <1>1, <1>5, <2>3, ArrivesOfNow DEF Leaving
    <3>2. toClient[1] \in {"transfer", "left"}
      BY <1>1, <1>2 DEF RoutingTypes
    <3>3. Len(toClient) = 1
      BY <1>2, <2>3, <3>2 DEF Leaving
    <3>4. toClient' = <<>>
      BY <1>2, <3>3
    <3> QED
      BY <1>1, <1>4, <1>5, <2>3, <3>1, <3>4 DEF Leaving, Gone, Stage
  <2> QED
    BY <1>1, <2>1, <2>2, <2>3 DEF Stage, Gone, Choosing, Entering, Loading
<1> QED
  BY <1>4, <1>6, <1>7 DEF RoutingInv, Aside, NoBody, ForItsPlayer

-----------------------------------------------------------------------------
(* The server.                                                             *)

\* The client does nothing, and the packets that wait are the same.
Still == UNCHANGED <<screen, character, sent, last>> /\ Waiting' = Waiting

LEMMA BeginKeeps ==
  ASSUME RoutingInv, NEW t \in {"world", "map"}, Begin(t)
  PROVE  RoutingInv'
<1>1. UNCHANGED <<screen, character, sent, toClient, recv, requeue, player, inWorld, loading,
                  recentlyLogout, logoutTime, last>>
  BY DEF Begin, clientVars, playerVars
<1>2. Waiting' = Waiting
  BY <1>1 DEF Waiting
<1> QED
  BY <1>1, <1>2 DEF RoutingInv, RoutingTypes, Aside, NoBody, ForItsPlayer, Rising, Stage,
     Playing, Leaving, Gone, Choosing, Entering, LoginAt, Loading, OfNow

LEMMA TeleportToKeeps ==
  ASSUME RoutingInv, TeleportTo
  PROVE  RoutingInv'
<1>1. /\ player # 0 /\ inWorld' = FALSE /\ toClient' = Append(toClient, "transfer")
      /\ UNCHANGED <<screen, character, sent, recv, requeue, player, loading, recentlyLogout,
                     logoutTime, last>>
      /\ RoutingTypes /\ Stage(Waiting)
  BY DEF TeleportTo, clientVars, updateVars, RoutingInv
<1>2. Waiting' = Waiting
  BY <1>1 DEF Waiting
<1>3. /\ toClient' \in Seq({"transfer", "left"}) /\ Len(toClient) \in Nat
      /\ Len(toClient') = Len(toClient) + 1 /\ toClient'[Len(toClient) + 1] = "transfer"
      /\ \A k \in 1 .. Len(toClient) : toClient'[k] = toClient[k]
  BY <1>1, AppendProperties DEF RoutingTypes
<1>4. Playing(Waiting)
  BY <1>1 DEF Stage, Leaving, Gone, Choosing, Entering, Loading
<1>5. \A k \in 1 .. Len(toClient') : toClient'[k] = "transfer"
  BY <1>3, <1>4 DEF Playing
<1>6. Stage(Waiting)'
  BY <1>1, <1>2, <1>4, <1>5 DEF Playing, Stage, OfNow
<1>7. RoutingTypes'
  BY <1>1, <1>3 DEF RoutingTypes
<1>8. Rising(Waiting)'
  BY <1>1, <1>2 DEF Rising, RoutingInv
<1> QED
  BY <1>1, <1>6, <1>7, <1>8 DEF RoutingInv, Aside, NoBody, ForItsPlayer

LEMMA LogoutLeaves ==
  ASSUME RoutingTypes, NEW w, Playing(w), LogoutPlayer
  PROVE  /\ player' = 0 /\ ~ inWorld' /\ ~ logoutTime' /\ recentlyLogout' /\ loading' = 0
         /\ inWorld' \in BOOLEAN /\ logoutTime' \in BOOLEAN /\ recentlyLogout' \in BOOLEAN
         /\ toClient' \in Seq({"transfer", "left"}) /\ toClient' # <<>>
         /\ \A k \in 1 .. Len(toClient') : toClient'[k] = "left" <=> k = Len(toClient')
<1>1. player # 0 /\ loading = 0 /\ \A k \in 1 .. Len(toClient) : toClient[k] = "transfer"
  BY DEF Playing
<1>2. /\ player' = 0 /\ inWorld' = FALSE /\ logoutTime' = FALSE /\ recentlyLogout' = TRUE
      /\ loading' = 0 /\ toClient' = Append(toClient, "left")
  BY <1>1 DEF LogoutPlayer
<1>3. /\ toClient' \in Seq({"transfer", "left"}) /\ toClient' # <<>> /\ Len(toClient) \in Nat
      /\ Len(toClient') = Len(toClient) + 1 /\ toClient'[Len(toClient) + 1] = "left"
      /\ \A k \in 1 .. Len(toClient) : toClient'[k] = toClient[k]
  BY <1>2, AppendProperties DEF RoutingTypes
<1>4. \A k \in 1 .. Len(toClient') : toClient'[k] = "left" <=> k = Len(toClient')
  BY <1>1, <1>3
<1> QED
  BY <1>2, <1>3, <1>4

\* What End leaves as it is: the packets that wait, and their order.
LEMMA EndStill ==
  ASSUME RoutingTypes, NEW answered \in BOOLEAN, NEW expired \in BOOLEAN, End(answered, expired)
  PROVE  Still /\ recv' \in Seq(APacket) /\ requeue' = <<>> /\ requeue' \in Seq(APacket)
<1>1. /\ recv' = requeue \o recv /\ requeue' = <<>>
      /\ UNCHANGED <<screen, character, sent, last>>
  BY DEF End, readd, clientVars
<1>2. recv' \in Seq(APacket)
  BY <1>1, ConcatProperties DEF RoutingTypes
<1>3. requeue' \o recv' = requeue \o recv
  BY <1>1, <1>2, ConcatEmptySeq
<1>4. requeue' \in Seq(APacket)
  BY <1>1
<1> QED
  BY <1>1, <1>2, <1>3, <1>4 DEF Still, Waiting

LEMMA EndKeeps ==
  ASSUME RoutingInv, NEW answered \in BOOLEAN, NEW expired \in BOOLEAN, End(answered, expired)
  PROVE  RoutingInv'
<1>1. RoutingTypes /\ NoBody /\ Rising(Waiting) /\ Stage(Waiting)
  BY DEF RoutingInv
<1>2. /\ UNCHANGED <<screen, character, sent, last>> /\ Waiting' = Waiting
      /\ recv' \in Seq(APacket) /\ requeue' = <<>> /\ requeue' \in Seq(APacket)
  BY <1>1, EndStill DEF Still
<1>3. Rising(Waiting)'
  BY <1>1, <1>2 DEF Rising
<1>4. ForItsPlayer'
  BY <1>2 DEF RoutingInv, ForItsPlayer
<1>5. Aside'
  BY <1>2 DEF Aside
<1>6. CASE LogoutPlayer /\ logoutTime /\ loading = 0
  <2>1. Playing(Waiting)
    BY <1>1, <1>6 DEF NoBody, Stage, Leaving, Gone, Choosing, Entering, Loading
  <2>2. /\ player' = 0 /\ ~ inWorld' /\ ~ logoutTime' /\ recentlyLogout' /\ loading' = 0
        /\ inWorld' \in BOOLEAN /\ logoutTime' \in BOOLEAN /\ recentlyLogout' \in BOOLEAN
        /\ toClient' \in Seq({"transfer", "left"}) /\ toClient' # <<>>
        /\ \A k \in 1 .. Len(toClient') : toClient'[k] = "left" <=> k = Len(toClient')
    BY <1>1, <1>6, <2>1, LogoutLeaves
  <2>3. Stage(Waiting)'
    BY <1>2, <2>1, <2>2 DEF Playing, Leaving, OfNow, Stage
  <2>4. RoutingTypes'
    BY <1>1, <1>2, <2>2 DEF RoutingTypes
  <2> QED
    BY <1>3, <1>4, <1>5, <2>2, <2>3, <2>4 DEF RoutingInv, NoBody
<1>7. CASE /\ answered /\ loading # 0 /\ player' = loading /\ inWorld' = TRUE /\ loading' = 0
           /\ UNCHANGED <<recentlyLogout, logoutTime, toClient>>
  <2>1. Loading(Waiting)
    BY <1>1, <1>7 DEF Stage, Playing, Leaving, Gone, Choosing, Entering
  <2>2. OfNow(Waiting, LoggedIn \cup {"ack"})'
    BY <1>2, <2>1 DEF Loading, OfNow
  <2>3. \A k \in 1 .. Len(toClient') : toClient'[k] = "transfer"
    BY <1>7, <2>1 DEF Loading
  <2>4. Stage(Waiting)'
    BY <1>2, <1>7, <2>1, <2>2, <2>3 DEF Loading, Playing, Stage
  <2>5. RoutingTypes'
    BY <1>1, <1>2, <1>7 DEF RoutingTypes
  <2> QED
    BY <1>3, <1>4, <1>5, <1>7, <2>4, <2>5 DEF RoutingInv, NoBody
<1>8. CASE UNCHANGED <<player, inWorld, loading, recentlyLogout, logoutTime, toClient>>
  <2>1. Stage(Waiting)'
    BY <1>1, <1>2, <1>8 DEF Stage, Playing, Leaving, Gone, Choosing, Entering, LoginAt, Loading, OfNow
  <2>2. RoutingTypes'
    BY <1>1, <1>2, <1>8 DEF RoutingTypes
  <2> QED
    BY <1>1, <1>3, <1>4, <1>5, <1>8, <2>1, <2>2 DEF RoutingInv, NoBody
<1> QED
  BY <1>1, <1>6, <1>7, <1>8 DEF End, RoutingTypes

\* A round that puts the packet aside leaves the packets that wait as they are.
PutsAside ==
  /\ Still /\ loading # 0 /\ ~ recentlyLogout
  /\ UNCHANGED <<player, inWorld, loading, recentlyLogout, logoutTime, toClient>>

\* A round that takes the first of all packets that wait, and drops or handles it.
Takes ==
  /\ requeue = <<>> /\ requeue' = <<>>
  /\ Waiting # <<>> /\ Waiting' = Tail(Waiting)
  /\ UNCHANGED <<screen, character, sent>>
  /\ \/ Waiting[1].kind \notin Authed /\ Drop
     \/ Call(Waiting[1]) /\ (player = 0 => Waiting[1].kind \in Authed \cup {"cancel"})

LEMMA HeadWaits ==
  ASSUME RoutingTypes, recv # <<>>
  PROVE  \E k \in 1 .. Len(Waiting) : Head(recv) = Waiting[k]
<1>1. recv \in Seq(APacket) /\ requeue \in Seq(APacket)
  BY DEF RoutingTypes
<1>2. Head(recv) = recv[1] /\ Len(recv) \in Nat \ {0} /\ Len(requeue) \in Nat
  BY <1>1
<1>3. /\ Len(Waiting) = Len(requeue) + Len(recv)
      /\ \A k \in 1 .. Len(requeue) + Len(recv) :
           Waiting[k] = IF k <= Len(requeue) THEN requeue[k] ELSE recv[k - Len(requeue)]
  BY <1>1, ConcatProperties DEF Waiting
<1>4. Len(requeue) + 1 \in 1 .. Len(Waiting) /\ Waiting[Len(requeue) + 1] = recv[1]
  BY <1>2, <1>3
<1> QED
  BY <1>2, <1>4

\* A packet is put aside only while its player is being loaded.
LEMMA AsideForLoading ==
  ASSUME RoutingInv, recv # <<>>, Head(recv).kind \in LoggedIn, player = 0, ~ recentlyLogout
  PROVE  loading # 0
<1>1. RoutingTypes /\ Aside /\ Stage(Waiting)
  BY DEF RoutingInv
<1>2. CASE requeue = <<>>
  <2>1. Waiting = recv /\ Head(recv) = recv[1]
    BY <1>1, <1>2, ConcatEmptySeq DEF Waiting, RoutingTypes
  <2>2. Waiting # <<>> /\ Waiting[1].kind # "login"
    BY <2>1 DEF LoggedIn
  <2>3. ~ Entering(Waiting)
    BY <2>2 DEF Entering, LoginAt
  <2> QED
    BY <1>1, <2>2, <2>3 DEF Stage, Playing, Leaving, Gone, Choosing, Loading
<1>3. CASE requeue # <<>>
  BY <1>1, <1>3 DEF Aside
<1> QED
  BY <1>2, <1>3

LEMMA ProcessDoes ==
  ASSUME RoutingInv, Process
  PROVE  (PutsAside \/ Takes) /\ recv' \in Seq(APacket) /\ requeue' \in Seq(APacket)
<1> DEFINE p == Head(recv)
<1>1. RoutingTypes /\ Aside /\ Stage(Waiting) /\ recv \in Seq(APacket) /\ requeue \in Seq(APacket)
  BY DEF RoutingInv, RoutingTypes
<1>2. /\ recv # <<>> /\ recv' = Tail(recv) /\ Dispatch(p)
      /\ UNCHANGED <<screen, character, sent>>
  BY DEF Process, HasNext, clientVars
<1>3. recv' \in Seq(APacket) /\ p = recv[1] /\ p \in APacket
  BY <1>1, <1>2, HeadTailProperties
<1> HIDE DEF p
<1>4. CASE /\ p.kind \in LoggedIn /\ player = 0 /\ ~ recentlyLogout
           /\ requeue' = Append(requeue, p)
           /\ UNCHANGED <<playerVars, toClient, last>>
  <2>1. loading # 0
    BY <1>2, <1>4, AsideForLoading DEF p
  <2>2. requeue' \in Seq(APacket)
    BY <1>1, <1>3, <1>4, AppendProperties
  <2>3. Waiting' = Waiting
    <3>1. Append(requeue, Head(recv)) \o Tail(recv) = requeue \o recv
      BY <1>1, <1>2, PutAside
    <3> QED
      BY <1>2, <1>4, <3>1 DEF Waiting, p
  <2> QED
    BY <1>2, <1>3, <1>4, <2>1, <2>2, <2>3 DEF PutsAside, Still, playerVars
<1>5. CASE /\ requeue' = requeue
           /\ \/ p.kind \notin Authed /\ Drop
              \/ Call(p) /\ (player = 0 => p.kind \in Authed \cup {"cancel"})
           /\ ~ (p.kind \in LoggedIn /\ player = 0 /\ ~ recentlyLogout)
  <2>1. requeue = <<>>
    <3>1. SUFFICES ASSUME requeue # <<>> PROVE FALSE
      OBVIOUS
    <3>2. Loading(Waiting) /\ ~ recentlyLogout
      BY <1>1, <3>1 DEF Aside, Stage, Playing, Leaving, Gone, Choosing, Entering
    <3>3. PICK k \in 1 .. Len(Waiting) : p = Waiting[k]
      BY <1>1, <1>2, HeadWaits DEF p
    <3> QED
      BY <1>5, <3>2, <3>3 DEF Loading, OfNow
  <2>2. Waiting = recv /\ Waiting' = recv'
    BY <1>1, <1>3, <1>5, <2>1, ConcatEmptySeq DEF Waiting
  <2> QED
    BY <1>1, <1>2, <1>3, <1>5, <2>1, <2>2 DEF Takes
<1>6. p.kind \in Kinds
  BY <1>3 DEF APacket
<1> QED
  BY <1>2, <1>4, <1>5, <1>6 DEF Dispatch, Authed, LoggedIn, Kinds

LEMMA TakenAt ==
  ASSUME RoutingTypes, Takes
  PROVE  /\ Len(Waiting) \in Nat \ {0} /\ Len(Waiting') = Len(Waiting) - 1
         /\ Waiting[1] \in APacket
         /\ \A k \in 1 .. Len(Waiting') : k + 1 \in 1 .. Len(Waiting) /\ Waiting'[k] = Waiting[k + 1]
<1>1. Waiting \in Seq(APacket) /\ Waiting # <<>> /\ Waiting' = Tail(Waiting)
  BY WaitingTyped DEF Takes
<1>2. /\ Len(Waiting) \in Nat \ {0} /\ Len(Waiting') = Len(Waiting) - 1
      /\ Waiting[1] \in APacket
      /\ \A k \in 1 .. Len(Waiting') : Waiting'[k] = Waiting[k + 1]
  BY <1>1, HeadTailProperties
<1> QED
  BY <1>2

LEMMA TakenOfNow ==
  ASSUME RoutingTypes, Takes, NEW kinds, OfNow(Waiting, kinds)
  PROVE  /\ OfNow(Waiting, kinds)'
         /\ Waiting[1].of = character /\ Waiting[1].kind \in kinds
BY TakenAt DEF OfNow, Takes

\* What is remembered of a packet that is handled.
LEMMA HandledAs ==
  ASSUME RoutingTypes, Takes
  PROVE  \/ last' = last
         \/ /\ last'.id = Waiting[1].id /\ last'.kind = Waiting[1].kind
            /\ last'.of = Waiting[1].of /\ last'.for = player
<1>1. CASE Drop
  BY <1>1 DEF Drop
<1>2. CASE Call(Waiting[1])
  <2>1. last' = [id |-> Waiting[1].id, kind |-> Waiting[1].kind, of |-> Waiting[1].of, for |-> player]
    BY <1>2 DEF Call
  <2> QED
    BY <2>1
<1> QED
  BY <1>1, <1>2 DEF Takes

LEMMA TakenRising ==
  ASSUME RoutingTypes, Takes, Rising(Waiting)
  PROVE  Rising(Waiting)' /\ last'.id \in Nat /\ (last' # last => last'.id > last.id)
<1>1. /\ Len(Waiting) \in Nat \ {0} /\ Len(Waiting') = Len(Waiting) - 1
      /\ \A k \in 1 .. Len(Waiting') : k + 1 \in 1 .. Len(Waiting) /\ Waiting'[k] = Waiting[k + 1]
      /\ \A k \in 1 .. Len(Waiting) : Waiting[k].id \in Nat
  BY TakenAt, WaitingTyped
<1>2. /\ \A j, k \in 1 .. Len(Waiting) : j < k => Waiting[j].id < Waiting[k].id
      /\ \A k \in 1 .. Len(Waiting) : last.id < Waiting[k].id /\ Waiting[k].id <= sent
      /\ last.id <= sent
  BY DEF Rising
<1>3. sent' = sent /\ sent \in Nat /\ last.id \in Nat /\ 1 \in 1 .. Len(Waiting)
  BY <1>1 DEF Takes, RoutingTypes
<1>4. last' = last \/ last'.id = Waiting[1].id
  BY HandledAs
<1>5. \A j, k \in 1 .. Len(Waiting') : j < k => Waiting'[j].id < Waiting'[k].id
  BY <1>1, <1>2, SMTT(30)
<1>6. \A k \in 1 .. Len(Waiting') : Waiting[1].id < Waiting'[k].id /\ Waiting'[k].id <= sent
  <2>1. ASSUME NEW k \in 1 .. Len(Waiting')
        PROVE  Waiting[1].id < Waiting[k + 1].id /\ Waiting[k + 1].id <= sent
    <3>1. k + 1 \in 1 .. Len(Waiting) /\ 1 < k + 1
      BY <1>1
    <3> QED
      BY <1>2, <1>3, <3>1
  <2> QED
    BY <1>1, <2>1
<1>7. \A k \in 1 .. Len(Waiting') : last'.id < Waiting'[k].id /\ Waiting'[k].id <= sent'
  BY <1>1, <1>2, <1>3, <1>4, <1>6
<1>8. last'.id <= sent' /\ last'.id \in Nat /\ (last' # last => last'.id > last.id)
  BY <1>1, <1>2, <1>3, <1>4
<1> QED
  BY <1>5, <1>7, <1>8 DEF Rising

\* Without a player, a packet changes at most what is remembered of the logout
\* and which login is read.
LEMMA WithoutPlayer ==
  ASSUME RoutingTypes, Takes, player = 0
  PROVE  /\ UNCHANGED <<player, inWorld, logoutTime, toClient>>
         /\ Waiting[1].kind # "enum" => UNCHANGED recentlyLogout
         /\ Waiting[1].kind # "login" => UNCHANGED loading
         /\ Waiting[1].kind = "login" /\ loading = 0 => loading' = Waiting[1].of
         /\ recentlyLogout' \in BOOLEAN
<1>1. CASE Drop /\ Waiting[1].kind \notin Authed
  BY <1>1 DEF Drop, playerVars, RoutingTypes, Authed
<1>2. CASE Call(Waiting[1]) /\ Waiting[1].kind \in Authed \cup {"cancel"}
  <2>1. CASE Waiting[1].kind = "enum"
    BY <1>2, <2>1 DEF Call, RoutingTypes
  <2>2. CASE Waiting[1].kind = "login" /\ loading = 0
    BY <1>2, <2>2 DEF Call, RoutingTypes
  <2>3. CASE (Waiting[1].kind = "login" /\ loading # 0) \/ Waiting[1].kind = "cancel"
    BY <1>2, <2>3 DEF Call, playerVars, RoutingTypes
  <2> QED
    BY <1>2, <2>1, <2>2, <2>3 DEF Authed
<1> QED
  BY <1>1, <1>2 DEF Takes

\* The player in the world: he may be logged out, and get back on a map.
LEMMA WithPlayer ==
  ASSUME RoutingTypes, Takes, player # 0, Waiting[1].kind \in LoggedIn \cup {"ack"}
  PROVE  \/ LogoutPlayer
         \/ /\ UNCHANGED <<player, loading, recentlyLogout, toClient>>
            /\ inWorld' \in BOOLEAN /\ logoutTime' \in BOOLEAN
<1>1. CASE Drop
  BY <1>1 DEF Drop, playerVars, RoutingTypes
<1>2. CASE Call(Waiting[1])
  <2>1. CASE Waiting[1].kind = "logout"
    BY <1>2, <2>1 DEF Call, RoutingTypes
  <2>2. CASE Waiting[1].kind = "ack"
    BY <1>2, <2>2 DEF Call, RoutingTypes
  <2>3. CASE Waiting[1].kind \in {"move", "talk"}
    BY <1>2, <2>3 DEF Call, playerVars, RoutingTypes
  <2> QED
    BY <2>1, <2>2, <2>3 DEF LoggedIn
<1> QED
  BY <1>1, <1>2 DEF Takes

LEMMA TakesWhilePlaying ==
  ASSUME RoutingInv, Takes, Playing(Waiting)
  PROVE  /\ Stage(Waiting)' /\ NoBody' /\ Waiting[1].of = player
         /\ toClient' \in Seq({"transfer", "left"}) /\ player' \in Nat /\ loading' \in Nat
         /\ inWorld' \in BOOLEAN /\ recentlyLogout' \in BOOLEAN /\ logoutTime' \in BOOLEAN
<1>1. RoutingTypes /\ UNCHANGED <<screen, character>>
  BY DEF RoutingInv, Takes
<1>2. player = character /\ player # 0 /\ OfNow(Waiting, LoggedIn \cup {"ack"})
  BY DEF Playing
<1>3. /\ OfNow(Waiting, LoggedIn \cup {"ack"})'
      /\ Waiting[1].of = character /\ Waiting[1].kind \in LoggedIn \cup {"ack"}
  BY <1>1, <1>2, TakenOfNow
<1>4. CASE LogoutPlayer
  <2>1. /\ player' = 0 /\ ~ inWorld' /\ ~ logoutTime' /\ recentlyLogout' /\ loading' = 0
        /\ inWorld' \in BOOLEAN /\ logoutTime' \in BOOLEAN /\ recentlyLogout' \in BOOLEAN
        /\ toClient' \in Seq({"transfer", "left"}) /\ toClient' # <<>>
        /\ \A k \in 1 .. Len(toClient') : toClient'[k] = "left" <=> k = Len(toClient')
    BY <1>1, <1>4, LogoutLeaves
  <2>2. Leaving(Waiting)'
    BY <1>1, <1>3, <2>1 DEF Playing, Leaving
  <2> QED
    BY <1>2, <1>3, <2>1, <2>2 DEF Stage, NoBody
<1>5. CASE /\ UNCHANGED <<player, loading, recentlyLogout, toClient>>
           /\ inWorld' \in BOOLEAN /\ logoutTime' \in BOOLEAN
  <2>1. Playing(Waiting)'
    BY <1>1, <1>3, <1>5 DEF Playing
  <2> QED
    BY <1>1, <1>2, <1>3, <1>5, <2>1 DEF Stage, NoBody, RoutingTypes
<1> QED
  BY <1>1, <1>2, <1>3, <1>4, <1>5, WithPlayer

LEMMA TakesWithoutPlayer ==
  ASSUME RoutingInv, Takes, ~ Playing(Waiting)
  PROVE  /\ Stage(Waiting)' /\ NoBody' /\ player = 0
         /\ toClient' \in Seq({"transfer", "left"}) /\ player' \in Nat /\ loading' \in Nat
         /\ inWorld' \in BOOLEAN /\ recentlyLogout' \in BOOLEAN /\ logoutTime' \in BOOLEAN
<1>1. RoutingTypes /\ NoBody /\ UNCHANGED <<screen, character>> /\ Stage(Waiting)
  BY DEF RoutingInv, Takes
<1>2. player = 0
  BY <1>1 DEF Stage, Leaving, Gone, Choosing, Entering, Loading
<1>3. /\ UNCHANGED <<player, inWorld, logoutTime, toClient>>
      /\ Waiting[1].kind # "enum" => UNCHANGED recentlyLogout
      /\ Waiting[1].kind # "login" => UNCHANGED loading
      /\ Waiting[1].kind = "login" /\ loading = 0 => loading' = Waiting[1].of
      /\ recentlyLogout' \in BOOLEAN
  BY <1>1, <1>2, WithoutPlayer
<1>4. /\ Len(Waiting) \in Nat \ {0} /\ Len(Waiting') = Len(Waiting) - 1
      /\ Waiting[1] \in APacket /\ Waiting[1].of \in Nat
      /\ \A k \in 1 .. Len(Waiting') : k + 1 \in 1 .. Len(Waiting) /\ Waiting'[k] = Waiting[k + 1]
  BY <1>1, TakenAt DEF APacket
<1>5. Stage(Waiting)' /\ loading' \in Nat
  <2>1. CASE Leaving(Waiting)
    <3>1. /\ OfNow(Waiting, LoggedIn \cup {"ack"})'
          /\ Waiting[1].kind \in LoggedIn \cup {"ack"}
      BY <1>1, <2>1, TakenOfNow DEF Leaving
    <3>2. UNCHANGED <<recentlyLogout, loading>>
      BY <1>3, <3>1 DEF LoggedIn
    <3>3. Leaving(Waiting)'
      BY <1>1, <1>3, <2>1, <3>1, <3>2 DEF Leaving
    <3> QED
      BY <1>1, <3>2, <3>3 DEF Stage, RoutingTypes
  <2>2. CASE Gone(Waiting)
    <3>1. /\ OfNow(Waiting, LoggedIn \cup {"ack", "cancel"})'
          /\ Waiting[1].kind \in LoggedIn \cup {"ack", "cancel"}
      BY <1>1, <2>2, TakenOfNow DEF Gone
    <3>2. UNCHANGED <<recentlyLogout, loading>>
      BY <1>3, <3>1 DEF LoggedIn
    <3>3. Gone(Waiting)'
      BY <1>1, <1>3, <2>2, <3>1, <3>2 DEF Gone
    <3> QED
      BY <1>1, <3>2, <3>3 DEF Stage, RoutingTypes
  <2>3. CASE Choosing(Waiting)
    <3>1. \A k \in 1 .. Len(Waiting) :
            Waiting[k].kind # "login" /\ (Waiting[k].kind = "enum" => k = Len(Waiting))
      BY <2>3 DEF Choosing
    <3>2. Waiting[1].kind # "login" /\ (Waiting[1].kind = "enum" => Len(Waiting) = 1)
      BY <1>4, <3>1
    <3>3. UNCHANGED loading /\ recentlyLogout
      BY <1>3, <2>3, <3>2 DEF Choosing, Takes
    <3>4. \A k \in 1 .. Len(Waiting') :
            Waiting'[k].kind # "login" /\ (Waiting'[k].kind = "enum" => k = Len(Waiting'))
      <4>1. ASSUME NEW k \in 1 .. Len(Waiting')
            PROVE  Waiting'[k].kind # "login" /\ (Waiting'[k].kind = "enum" => k = Len(Waiting'))
        <5>1. Waiting'[k] = Waiting[k + 1] /\ k + 1 \in 1 .. Len(Waiting)
          BY <1>4
        <5>2. Waiting[k + 1].kind # "login" /\ (Waiting[k + 1].kind = "enum" => k + 1 = Len(Waiting))
          BY <3>1, <5>1
        <5> QED
          BY <1>4, <5>1, <5>2
      <4> QED
        BY <4>1
    <3>5. ~ recentlyLogout' => Len(Waiting') = 0
      <4>1. ~ recentlyLogout' => Waiting[1].kind = "enum"
        BY <1>3, <3>3
      <4> QED
        BY <1>4, <3>2, <4>1
    <3>6. ~ recentlyLogout' => Waiting' = <<>>
      <4>1. Waiting \in Seq(APacket) /\ Waiting' = Tail(Waiting) /\ Waiting # <<>>
        BY <1>1, WaitingTyped DEF Takes
      <4>2. Waiting' \in Seq(APacket)
        BY <4>1, HeadTailProperties
      <4> QED
        BY <3>5, <4>2
    <3>7. Choosing(Waiting)'
      BY <1>1, <1>3, <2>3, <3>3, <3>4, <3>6 DEF Choosing
    <3> QED
      BY <1>1, <3>3, <3>7 DEF Stage, RoutingTypes
  <2>4. CASE Entering(Waiting)
    <3>1. PICK k \in 1 .. Len(Waiting) : LoginAt(Waiting, k)
      BY <2>4 DEF Entering
    <3>2. /\ Waiting[k].kind = "login" /\ Waiting[k].of = character
          /\ \A j \in 1 .. k - 1 :
               Waiting[j].kind # "login" /\ (Waiting[j].kind = "enum" => j = k - 1)
          /\ \A j \in k + 1 .. Len(Waiting) :
               Waiting[j].of = character /\ Waiting[j].kind \in LoggedIn
          /\ ~ recentlyLogout => k = 1
      BY <3>1 DEF LoginAt
    <3>3. CASE k = 1
      <4>1. loading' = character /\ UNCHANGED recentlyLogout
        BY <1>3, <2>4, <3>2, <3>3 DEF Entering
      <4>2. OfNow(Waiting, LoggedIn)'
        <5>1. ASSUME NEW j \in 1 .. Len(Waiting')
              PROVE  Waiting'[j].of = character /\ Waiting'[j].kind \in LoggedIn
          <6>1. Waiting'[j] = Waiting[j + 1] /\ j + 1 \in k + 1 .. Len(Waiting)
            BY <1>4, <3>3
          <6> QED
            BY <3>2, <6>1
        <5> QED
          BY <1>1, <5>1 DEF OfNow
      <4>3. Loading(Waiting)'
        BY <1>1, <1>2, <1>3, <2>4, <4>1, <4>2 DEF Entering, Loading
      <4> QED
        BY <1>1, <4>1, <4>3 DEF Stage, RoutingTypes
    <3>4. CASE k # 1
      <4>1. k - 1 \in 1 .. Len(Waiting') /\ 1 \in 1 .. k - 1 /\ recentlyLogout
        BY <1>4, <3>2, <3>4 DEF RoutingTypes
      <4>2. Waiting[1].kind # "login" /\ (Waiting[1].kind = "enum" => k - 1 = 1)
        BY <3>2, <4>1
      <4>3. UNCHANGED loading /\ (~ recentlyLogout' => k - 1 = 1)
        BY <1>3, <4>1, <4>2
      <4>4. Waiting'[k - 1].kind = "login" /\ Waiting'[k - 1].of = character
        <5>1. Waiting'[k - 1] = Waiting[(k - 1) + 1] /\ (k - 1) + 1 = k
          BY <1>4, <4>1
        <5> QED
          BY <3>2, <5>1
      <4>5. ASSUME NEW j \in 1 .. (k - 1) - 1
            PROVE  Waiting'[j].kind # "login" /\ (Waiting'[j].kind = "enum" => j = (k - 1) - 1)
        <5>1. Waiting'[j] = Waiting[j + 1] /\ j + 1 \in 1 .. k - 1
          BY <1>4, <4>1, SMTT(30)
        <5> QED
          BY <3>2, <5>1
      <4>6. ASSUME NEW j \in (k - 1) + 1 .. Len(Waiting')
            PROVE  Waiting'[j].of = character /\ Waiting'[j].kind \in LoggedIn
        <5>1. Waiting'[j] = Waiting[j + 1] /\ j + 1 \in k + 1 .. Len(Waiting)
          BY <1>4, <4>1
        <5> QED
          BY <3>2, <5>1
      <4>7. \E i \in 1 .. Len(Waiting') : LoginAt(Waiting, i)'
        BY <1>1, <4>1, <4>3, <4>4, <4>5, <4>6 DEF LoginAt
      <4>8. Entering(Waiting)'
        BY <1>1, <1>3, <2>4, <4>3, <4>7 DEF Entering
      <4> QED
        BY <1>1, <4>3, <4>8 DEF Stage, RoutingTypes
    <3> QED
      BY <3>3, <3>4
  <2>5. CASE Loading(Waiting)
    <3>1. OfNow(Waiting, LoggedIn)' /\ Waiting[1].kind \in LoggedIn
      BY <1>1, <2>5, TakenOfNow DEF Loading
    <3>2. UNCHANGED <<recentlyLogout, loading>>
      BY <1>3, <3>1 DEF LoggedIn
    <3>3. Loading(Waiting)'
      BY <1>1, <1>3, <2>5, <3>1, <3>2 DEF Loading
    <3> QED
      BY <1>1, <3>2, <3>3 DEF Stage, RoutingTypes
  <2> QED
    BY <1>1, <2>1, <2>2, <2>3, <2>4, <2>5 DEF Stage
<1> QED
  BY <1>1, <1>2, <1>3, <1>5 DEF NoBody, RoutingTypes

LEMMA ProcessKeeps ==
  ASSUME RoutingInv, Process
  PROVE  RoutingInv' /\ (last' # last => last'.id > last.id)
<1>1. /\ RoutingTypes /\ Rising(Waiting) /\ Stage(Waiting) /\ NoBody /\ ForItsPlayer
      /\ recv' \in Seq(APacket) /\ requeue' \in Seq(APacket)
  BY ProcessDoes DEF RoutingInv
<1>2. CASE PutsAside
  <2>1. /\ UNCHANGED <<screen, character, sent, last, player, inWorld, loading, recentlyLogout,
                       logoutTime, toClient>>
        /\ Waiting' = Waiting /\ loading # 0 /\ ~ recentlyLogout
    BY <1>2 DEF PutsAside, Still
  <2>2. Stage(Waiting)' /\ Rising(Waiting)'
    BY <1>1, <2>1 DEF Rising, Stage, Playing, Leaving, Gone, Choosing, Entering, LoginAt, Loading, OfNow
  <2>3. RoutingTypes'
    BY <1>1, <2>1 DEF RoutingTypes
  <2> QED
    BY <1>1, <2>1, <2>2, <2>3 DEF RoutingInv, Aside, NoBody, ForItsPlayer
<1>3. CASE Takes
  <2>1. Rising(Waiting)' /\ last'.id \in Nat /\ (last' # last => last'.id > last.id)
    BY <1>1, <1>3, TakenRising
  <2>2. /\ Stage(Waiting)' /\ NoBody' /\ (player = 0 \/ Waiting[1].of = player)
        /\ toClient' \in Seq({"transfer", "left"}) /\ player' \in Nat /\ loading' \in Nat
        /\ inWorld' \in BOOLEAN /\ recentlyLogout' \in BOOLEAN /\ logoutTime' \in BOOLEAN
    BY <1>3, TakesWhilePlaying, TakesWithoutPlayer
  <2>3. ForItsPlayer'
    BY <1>1, <1>3, <2>2, HandledAs DEF ForItsPlayer
  <2>4. RoutingTypes'
    BY <1>1, <1>3, <2>1, <2>2 DEF RoutingTypes, Takes
  <2> QED
    BY <1>3, <2>1, <2>2, <2>3, <2>4 DEF RoutingInv, Aside, Takes
<1> QED
  BY <1>2, <1>3, ProcessDoes

LEMMA RoutingInit == PacketsInit => RoutingInv
<1> SUFFICES ASSUME PacketsInit PROVE RoutingInv
  OBVIOUS
<1>1. /\ screen = "characters" /\ character = 0 /\ sent = 0 /\ last.id = 0 /\ last.kind = "enum"
      /\ toClient = <<>> /\ recv = <<>> /\ requeue = <<>>
      /\ player = 0 /\ inWorld = FALSE /\ loading = 0
      /\ recentlyLogout = FALSE /\ logoutTime = FALSE
  BY DEF PacketsInit
<1>2. RoutingTypes
  <2>1. <<>> \in Seq(APacket) /\ <<>> \in Seq({"transfer", "left"})
    OBVIOUS
  <2>2. recv \in Seq(APacket) /\ requeue \in Seq(APacket) /\ toClient \in Seq({"transfer", "left"})
    BY <1>1, <2>1
  <2>3. inWorld \in BOOLEAN /\ recentlyLogout \in BOOLEAN /\ logoutTime \in BOOLEAN
    BY <1>1
  <2> QED
    BY <1>1, <2>2, <2>3 DEF RoutingTypes
<1>3. Waiting = <<>> /\ Len(Waiting) = 0
  BY <1>1, <1>2, ConcatEmptySeq DEF Waiting, RoutingTypes
<1>4. Rising(Waiting) /\ Choosing(Waiting)
  BY <1>1, <1>3 DEF Rising, Choosing
<1> QED
  BY <1>1, <1>2, <1>4 DEF RoutingInv, Stage, Aside, NoBody, ForItsPlayer, LoggedIn

LEMMA RoutingNext ==
  RoutingInv /\ [PacketsNext]_packetVars => RoutingInv' /\ (last' # last => last'.id > last.id)
<1> SUFFICES ASSUME RoutingInv, [PacketsNext]_packetVars
             PROVE  RoutingInv' /\ (last' # last => last'.id > last.id)
  OBVIOUS
<1>1. CASE Client
  <2>1. RoutingInv'
    BY <1>1, AskCharactersKeeps, EnterWorldKeeps, PlayKeeps, ReadKeeps DEF Client
  <2>2. last' = last
    BY <1>1 DEF Client, AskCharacters, EnterWorld, Play, Read, Send
  <2> QED
    BY <2>1, <2>2
<1>2. CASE \E t \in {"world", "map"} : Begin(t)
  BY <1>2, BeginKeeps DEF Begin
<1>3. CASE Process
  BY <1>3, ProcessKeeps
<1>4. CASE \E answered, expired \in BOOLEAN : End(answered, expired)
  <2>1. RoutingInv'
    BY <1>4, EndKeeps
  <2>2. last' = last
    BY <1>4 DEF End
  <2> QED
    BY <2>1, <2>2
<1>5. CASE TeleportTo
  BY <1>5, TeleportToKeeps DEF TeleportTo
<1>6. CASE UNCHANGED packetVars
  <2>1. UNCHANGED <<screen, character, sent, toClient, recv, requeue, player, inWorld, loading,
                    recentlyLogout, logoutTime, last>>
    BY <1>6 DEF packetVars, clientVars, updateVars, playerVars
  <2>2. Waiting' = Waiting
    BY <2>1 DEF Waiting
  <2> QED
    BY <2>1, <2>2 DEF RoutingInv, RoutingTypes, Aside, NoBody, ForItsPlayer, Rising, Stage,
       Playing, Leaving, Gone, Choosing, Entering, LoginAt, Loading, OfNow
<1> QED
  BY <1>1, <1>2, <1>3, <1>4, <1>5, <1>6 DEF PacketsNext, Server

\* A packet sent in the world is handled for the character it was sent for, or
\* for none: the packets of a character that has left are used up before those
\* of the next are kept for it (m_playerRecentlyLogout, HandleCharEnumOpcode).
THEOREM HandledForItsPlayer == PacketsSpec => []ForItsPlayer
<1>1. RoutingInv => ForItsPlayer
  BY DEF RoutingInv
<1> QED
  BY RoutingInit, RoutingNext, <1>1, PTL DEF PacketsSpec

\* Packets are handled in the order in which the client sent them, whichever
\* thread handles them and however often they are put aside and put back
\* (WorldSession::Update, LockedQueue::readd).
THEOREM HandledInOrder == PacketsSpec => InOrder
<1>1. RoutingInv /\ [PacketsNext]_packetVars => [last' # last => last'.id > last.id]_packetVars
  BY RoutingNext
<1> QED
  BY RoutingInit, RoutingNext, <1>1, PTL DEF PacketsSpec, InOrder
=============================================================================
