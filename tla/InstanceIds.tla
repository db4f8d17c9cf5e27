----------------------------- MODULE InstanceIds -----------------------------
(***************************************************************************)
(* The allocator of instance ids in MapManager: _freeInstanceIds, a bitset *)
(* with the bit of every free id set, and _nextInstanceId, the id to hand  *)
(* out next.  Both are unprotected.  The world thread takes ids for        *)
(* dungeons and battlegrounds and frees those of reset dungeons between    *)
(* two map ticks; within a tick every worker thread of MapUpdater may free *)
(* the ids of battlegrounds it unloads (MapInstanced::DestroyInstance).    *)
(* FreeInstanceId on a worker is therefore split at its accesses to the    *)
(* shared words: another worker's call may interleave with them.  Not      *)
(* every instance gives its id back when it ends: the global reset of      *)
(* raids and heroics and the deletion of a battleground nobody entered do  *)
(* not call FreeInstanceId.                                                *)
(***************************************************************************)
EXTENDS Integers, FiniteSets

CONSTANTS Stored,     \* ids in the table "instance" when the server starts
          MaxStored,  \* MAX(id) of that table
          MaxId,      \* the overflow mark of GenerateInstanceId, 0xFFFFFFFF
          WordBits,   \* bits in a block of the bitset (64)
          Workers     \* the threads that update maps

ASSUME StoredAssumption == MaxStored \in Nat /\ Stored \subseteq 1 .. MaxStored
ASSUME MaxIdAssumption == MaxId \in Nat
ASSUME WordAssumption == WordBits \in Nat \ {0}

VARIABLES
  next,           \* _nextInstanceId
  free,           \* _freeInstanceIds: the ids whose bit is set
  size,           \* _freeInstanceIds.size()
  toRegister,     \* rows of "instance" LoadResetTimes has still to read
  dungeons,       \* ids of saved or loaded dungeons
  battlegrounds,  \* ids of battlegrounds and arenas
  stopped,        \* World::StopNow was called
  wpc,            \* where each worker is in FreeInstanceId
  wid,            \* its argument instanceId
  wnext,          \* the minimum it has computed
  wword,          \* the block of the bitset it has computed
  forgotten,      \* history: ids of instances that ended without FreeInstanceId
  raced           \* history: two workers have been in FreeInstanceId at once

users      == <<dungeons, battlegrounds>>
workerVars == <<wpc, wid, wnext, wword>>
history    == <<forgotten, raced>>
vars == <<next, free, size, toRegister, dungeons, battlegrounds, stopped,
          wpc, wid, wnext, wword, forgotten, raced>>

TypeOK ==
  /\ size \in Nat
  /\ next \in 1 .. size - 1      \* the assertion of GenerateInstanceId
  /\ free \subseteq 1 .. size - 1
  /\ toRegister \subseteq Stored
  /\ dungeons \subseteq 1 .. size - 1
  /\ battlegrounds \subseteq 1 .. size - 1
  /\ stopped \in BOOLEAN
  /\ wpc \in [Workers -> {"idle", "writeNext", "readWord", "writeWord"}]
  /\ wid \in [Workers -> 0 .. size - 1]
  /\ wnext \in [Workers -> 0 .. size - 1]
  /\ wword \in [Workers -> SUBSET (1 .. size - 1)]
  /\ forgotten \subseteq 1 .. size - 1
  /\ raced \in BOOLEAN

\* InitInstanceIds: room for every stored id and for one id more; 0 is never
\* free.
Init ==
  /\ next = 1
  /\ size = MaxStored + 2
  /\ free = 1 .. MaxStored + 1
  /\ toRegister = Stored
  /\ dungeons = {} /\ battlegrounds = {}
  /\ stopped = FALSE
  /\ wpc = [w \in Workers |-> "idle"]
  /\ wid = [w \in Workers |-> 0]
  /\ wnext = [w \in Workers |-> 0]
  /\ wword = [w \in Workers |-> {}]
  /\ forgotten = {} /\ raced = FALSE

-----------------------------------------------------------------------------
\* The world thread runs only between map ticks (see MapUpdater!Barrier).
BetweenTicks == \A w \in Workers : wpc[w] = "idle"

Lesser(i, j) == IF i < j THEN i ELSE j

\* The ids whose bits share a block of the bitset with that of id.
Block(id) == {n \in 1 .. size - 1 : n \div WordBits = id \div WordBits}

\* Mutant: the rows of "instance" are read in any order.
RegisterInstanceId_Unordered(id) ==
  /\ id \in toRegister
  /\ toRegister' = toRegister \ {id}
  /\ dungeons' = dungeons \cup {id}
  /\ free' = free \ {id}
  /\ next' = IF next = id THEN next + 1 ELSE next
  /\ UNCHANGED <<size, battlegrounds, stopped, workerVars, history>>

\* The rows come in ascending order.
RegisterInstanceId(id) ==
  /\ id \in toRegister
  /\ \A other \in toRegister : id <= other
  /\ toRegister' = toRegister \ {id}
  /\ dungeons' = dungeons \cup {id}
  /\ free' = free \ {id}
  /\ next' = IF next = id THEN next + 1 ELSE next
  /\ UNCHANGED <<size, battlegrounds, stopped, workerVars, history>>

\* Mutant: the bitset does not grow when no bit after next is set.
FindNext_NoGrowth(rest) ==
  \/ \E n \in rest :
       /\ n > next
       /\ \A m \in rest : m > next => n <= m
       /\ next' = n /\ free' = rest /\ size' = size
  \/ /\ \A m \in rest : m <= next
     /\ next' = size /\ free' = rest /\ size' = size

\* find_next: the first id after next whose bit is set in rest, or, when there
\* is none, a new one at the end of the bitset.
FindNext(rest) ==
  \/ \E n \in rest :
       /\ n > next
       /\ \A m \in rest : m > next => n <= m
       /\ next' = n /\ free' = rest /\ size' = size
  \/ /\ \A m \in rest : m <= next
     /\ next' = size /\ free' = rest \cup {size} /\ size' = size + 1

\* Mutant: the bit of the id handed out is not cleared.
GenerateInstanceId_BitKept ==
  /\ toRegister = {} /\ BetweenTicks /\ ~stopped
  /\ next < MaxId
  /\ FindNext(free)
  /\ \/ dungeons' = dungeons \cup {next} /\ UNCHANGED battlegrounds
     \/ battlegrounds' = battlegrounds \cup {next} /\ UNCHANGED dungeons
  /\ UNCHANGED <<toRegister, stopped, workerVars, history>>

\* For a new dungeon (CreateInstanceForPlayer) or a new battleground.
GenerateInstanceId ==
  /\ toRegister = {} /\ BetweenTicks /\ ~stopped
  /\ next < MaxId
  /\ FindNext(free \ {next})
  /\ \/ dungeons' = dungeons \cup {next} /\ UNCHANGED battlegrounds
     \/ battlegrounds' = battlegrounds \cup {next} /\ UNCHANGED dungeons
  /\ UNCHANGED <<toRegister, stopped, workerVars, history>>

\* No id is left: the server stops.
Overflow ==
  /\ toRegister = {} /\ BetweenTicks /\ ~stopped
  /\ next = MaxId
  /\ stopped' = TRUE
  /\ UNCHANGED <<next, free, size, toRegister, users, workerVars, history>>

\* FreeInstanceId at the end of InstanceSaveManager::_ResetInstance.
ResetInstance(id) ==
  /\ toRegister = {} /\ BetweenTicks /\ ~stopped
  /\ id \in dungeons
  /\ dungeons' = dungeons \ {id}
  /\ next' = Lesser(id, next)
  /\ free' = free \cup {id}
  /\ UNCHANGED <<size, toRegister, battlegrounds, stopped, workerVars, history>>

\* The global reset of a raid or a heroic: the saves of one map and difficulty,
\* those with an extended bind excepted, end together, and no id is freed.  A
\* raid or heroic that Player::ResetInstances or Group::ResetInstances resets
\* ends like this too.
ResetOrWarnAll(expired) ==
  /\ toRegister = {} /\ BetweenTicks /\ ~stopped
  /\ dungeons' = dungeons \ expired
  /\ forgotten' = forgotten \cup expired
  /\ UNCHANGED <<next, free, size, toRegister, battlegrounds, stopped, workerVars, raced>>

\* ~Battleground without m_Map: nobody has entered, so there is no map whose
\* DestroyInstance would free the id.
DeleteBattleground(id) ==
  /\ toRegister = {} /\ BetweenTicks /\ ~stopped
  /\ id \in battlegrounds
  /\ battlegrounds' = battlegrounds \ {id}
  /\ forgotten' = forgotten \cup {id}
  /\ UNCHANGED <<next, free, size, toRegister, dungeons, stopped, workerVars, raced>>

-----------------------------------------------------------------------------
(* FreeInstanceId on worker w, from DestroyInstance of a battleground.     *)

\* std::min reads _nextInstanceId.
ReadNext(w, id) ==
  /\ toRegister = {} /\ ~stopped
  /\ wpc[w] = "idle"
  /\ id \in battlegrounds
  /\ battlegrounds' = battlegrounds \ {id}
  /\ wid' = [wid EXCEPT ![w] = id]
  /\ wnext' = [wnext EXCEPT ![w] = Lesser(id, next)]
  /\ wpc' = [wpc EXCEPT ![w] = "writeNext"]
  /\ raced' = (raced \/ ~ BetweenTicks)
  /\ UNCHANGED <<next, free, size, toRegister, dungeons, stopped, wword, forgotten>>

WriteNext(w) ==
  /\ wpc[w] = "writeNext"
  /\ next' = wnext[w]
  /\ wpc' = [wpc EXCEPT ![w] = "readWord"]
  /\ UNCHANGED <<free, size, toRegister, users, stopped, wid, wnext, wword, history>>

\* Setting a bit reads its block ...
ReadWord(w) ==
  /\ wpc[w] = "readWord"
  /\ wword' = [wword EXCEPT ![w] = (free \cap Block(wid[w])) \cup {wid[w]}]
  /\ wpc' = [wpc EXCEPT ![w] = "writeWord"]
  /\ UNCHANGED <<next, free, size, toRegister, users, stopped, wid, wnext, history>>

\* Mutant: the block is written without the new bit.
WriteWord_NoBit(w) ==
  /\ wpc[w] = "writeWord"
  /\ free' = (free \ Block(wid[w])) \cup (wword[w] \ {wid[w]})
  /\ wpc' = [wpc EXCEPT ![w] = "idle"]
  /\ wid' = [wid EXCEPT ![w] = 0]
  /\ wnext' = [wnext EXCEPT ![w] = 0]
  /\ wword' = [wword EXCEPT ![w] = {}]
  /\ UNCHANGED <<next, size, toRegister, users, stopped, history>>

\* ... and writes it back; the locals of the call are gone.
WriteWord(w) ==
  /\ wpc[w] = "writeWord"
  /\ free' = (free \ Block(wid[w])) \cup wword[w]
  /\ wpc' = [wpc EXCEPT ![w] = "idle"]
  /\ wid' = [wid EXCEPT ![w] = 0]
  /\ wnext' = [wnext EXCEPT ![w] = 0]
  /\ wword' = [wword EXCEPT ![w] = {}]
  /\ UNCHANGED <<next, size, toRegister, users, stopped, history>>

-----------------------------------------------------------------------------
WorldStep ==
  \/ \E id \in toRegister : RegisterInstanceId(id)
  \/ GenerateInstanceId \/ Overflow
  \/ \E id \in dungeons : ResetInstance(id)
  \/ \E expired \in SUBSET dungeons \ {{}} : ResetOrWarnAll(expired)
  \/ \E id \in battlegrounds : DeleteBattleground(id)

WorkerStep(w) ==
  \/ \E id \in battlegrounds : ReadNext(w, id)
  \/ WriteNext(w) \/ ReadWord(w) \/ WriteWord(w)

Stopped == stopped /\ UNCHANGED vars

Next == WorldStep \/ (\E w \in Workers : WorkerStep(w)) \/ Stopped

Spec == Init /\ [][Next]_vars

-----------------------------------------------------------------------------
InUse == dungeons \cup battlegrounds \cup toRegister

\* The id GenerateInstanceId hands out next belongs to no instance, whatever
\* the workers do to the bitset: two instances never share an id.
NextIsUnused ==
  /\ dungeons \cap battlegrounds = {}
  /\ toRegister = {} => next \notin InUse
  /\ \A id \in free : id \notin InUse \/ id \in toRegister

\* "Find the lowest available id starting from the current NextInstanceId
\* (which should be the lowest according to the logic in FreeInstanceId()":
\* between ticks next is the lowest id of the bitset, until two workers race in
\* FreeInstanceId.
NextIsLowest ==
  BetweenTicks /\ toRegister = {} /\ ~raced =>
    next \in free /\ \A id \in free : next <= id

\* The ids lost until the server is started again are those of the instances
\* that ended without FreeInstanceId, and no others: an id that is freed can be
\* handed out again, and finding the next one passes over none, until two
\* workers race in FreeInstanceId.
NoIdLost ==
  BetweenTicks /\ ~raced => 1 .. size - 1 = free \cup InUse \cup forgotten
=============================================================================
