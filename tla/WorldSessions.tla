---------------------------- MODULE WorldSessions ----------------------------
(***************************************************************************)
(* World sessions and the login queue of the world server.  A network      *)
(* thread hands an authenticated WorldSession to World::AddSession; the    *)
(* world thread registers it in World::UpdateSessions, lets it in or puts  *)
(* it in the login queue, and deletes it once its socket is closed.        *)
(*                                                                         *)
(* One turn of the loops of UpdateSessions is one action: the world thread *)
(* is the only one that touches m_sessions and m_QueuedPlayer.  Network    *)
(* threads append to addSessQueue and close sockets, database threads      *)
(* answer queries, all between any two steps of the world thread.          *)
(***************************************************************************)
EXTENDS Integers, Sequences, FiniteSets, SequencesExt

CONSTANTS Accounts,      \* account ids
          Sessions,      \* WorldSession objects; a deleted one may be reused
          Acct,          \* the account each session authenticates
          SkipQueue,     \* accounts with RBAC_PERM_SKIP_QUEUE
          Scenarios,     \* bound: configuration and environment of a behaviour, see EnvironmentAssumption
          Expire,        \* expireTime of a new session, in world ticks
          NoSession,     \* no entry in m_sessions
          Never          \* no entry in m_disconnects

ASSUME AcctAssumption == Acct \in [Sessions -> Accounts]
ASSUME AccountsAssumption == IsFiniteSet(Accounts) /\ SkipQueue \subseteq Accounts
ASSUME EnvironmentAssumption ==
  \A sc \in Scenarios :
    /\ sc.clients \subseteq Sessions                 \* the sessions that may be created
    /\ sc.limits \subseteq Nat /\ sc.limits # {}     \* the values PlayerLimit is given
    /\ sc.logins \in BOOLEAN                         \* whether clients log a player in
    /\ sc.tolerance \in Nat                          \* CONFIG_INTERVAL_DISCONNECT_TOLERANCE
    /\ sc.time \in Nat                               \* the last game time
ASSUME ExpireAssumption == Expire \in Nat \ {0}
ASSUME NullAssumption == NoSession \notin Sessions /\ Never \notin Nat

VARIABLES
  sess,          \* the fields of every WorldSession, see TypeOK
  addSessQueue,  \* World::addSessQueue
  inWorld,       \* World::m_sessions
  queue,         \* World::m_QueuedPlayer
  scenario,      \* the one of Scenarios that this behaviour follows
  limit,         \* World::m_playerLimit
  disconnects,   \* World::m_disconnects
  now,           \* GameTime::GetGameTime()
  pc,            \* where the world thread is
  toUpdate,      \* the rest of the m_sessions iteration of UpdateSessions
  closing        \* KickAll was called: the next UpdateSessions is the last

clock == <<scenario, limit, now>>
vars == <<sess, addSessQueue, inWorld, queue, clock, disconnects, pc, toUpdate, closing>>

\* uint32 GetActiveAndQueuedSessionCount() and GetActiveSessionCount()
GetActiveAndQueuedSessionCount(world) == Cardinality({a \in Accounts : world[a] # NoSession})
GetActiveSessionCount(world, q) == GetActiveAndQueuedSessionCount(world) - Len(q)

TypeOK ==
  /\ sess \in [Sessions -> [state: {"free", "added", "world"},
                            open: BOOLEAN,         \* m_Socket->IsOpen()
                            inQueue: BOOLEAN,      \* m_inQueue
                            forceExit: BOOLEAN,
                            loading: {"no", "reading", "refused"}, \* m_playerLoading and its query
                            player: BOOLEAN,       \* _player is set
                            initPending: BOOLEAN,  \* _realmAccountLoginCallback is valid
                            expire: 0 .. Expire,   \* expireTime
                            tolerated: BOOLEAN]]   \* history: HasRecentlyDisconnected let it pass
  /\ addSessQueue \in Seq(Sessions)
  /\ inWorld \in [Accounts -> Sessions \cup {NoSession}]
  /\ queue \in Seq(Sessions)
  /\ GetActiveSessionCount(inWorld, queue) \in Nat
  /\ scenario \in Scenarios /\ limit \in scenario.limits
  /\ disconnects \in [Accounts -> Nat \cup {Never}]
  /\ now \in 0 .. scenario.time
  /\ pc \in {"idle", "add", "update", "stopped"}
  /\ toUpdate \subseteq Accounts
  /\ closing \in BOOLEAN

\* A session after its constructor (WorldSession::WorldSession), state apart.
New(state) ==
  [state |-> state, open |-> state # "free", inQueue |-> FALSE, forceExit |-> FALSE,
   loading |-> "no", player |-> FALSE, initPending |-> FALSE, expire |-> Expire,
   tolerated |-> FALSE]

\* After "delete session": the destructor logs the player out, closes the
\* socket and drops the pending callbacks.
Deleted == New("free")

Init ==
  /\ sess = [s \in Sessions |-> Deleted]
  /\ addSessQueue = <<>>
  /\ inWorld = [a \in Accounts |-> NoSession]
  /\ queue = <<>>
  /\ scenario \in Scenarios /\ limit \in scenario.limits
  /\ disconnects = [a \in Accounts |-> Never]
  /\ now = 0
  /\ pc = "idle" /\ toUpdate = {} /\ closing = FALSE

-----------------------------------------------------------------------------
(* Parts of the actions.                                                   *)

\* Mutant: the session is forced out, its socket stays open.
KickPlayer_SocketOpen(session) == [session EXCEPT !.forceExit = TRUE]

\* WorldSession::KickPlayer on a session that still has its socket.
KickPlayer(session) == [session EXCEPT !.open = FALSE, !.forceExit = TRUE]

\* WorldSession::InitializeSession: the account data are asked for.
InitializeSession(session) == [session EXCEPT !.initPending = TRUE]

\* Mutant: the session is looked up and left in m_QueuedPlayer.
RemoveQueuedPlayer_FindOnly(s, world, q) ==
  [found |-> Contains(q, s), queue |-> q, admitted |-> {}]

\* Mutant: the session that leaves is not replaced by the first in queue.
RemoveQueuedPlayer_NoAdmission(s, world, q) ==
  [found |-> Contains(q, s), queue |-> RemoveFirst(q, s), admitted |-> {}]

\* Mutant: off by one in the comparison with the player limit.
RemoveQueuedPlayer_AtLimit(s, world, q) ==
  LET found    == Contains(q, s)
      rest     == RemoveFirst(q, s)
      active   == GetActiveSessionCount(world, q)
      sessions == IF ~found /\ active > 0 THEN active - 1 ELSE active
      admits   == (limit = 0 \/ sessions <= limit) /\ rest # <<>>
  IN [found    |-> found,
      queue    |-> IF admits THEN Tail(rest) ELSE rest,
      admitted |-> IF admits THEN {Head(rest)} ELSE {}]

\* Mutant: the last in queue is let in instead of the first.
RemoveQueuedPlayer_FromBack(s, world, q) ==
  LET found    == Contains(q, s)
      rest     == RemoveFirst(q, s)
      active   == GetActiveSessionCount(world, q)
      sessions == IF ~found /\ active > 0 THEN active - 1 ELSE active
      admits   == (limit = 0 \/ sessions < limit) /\ rest # <<>>
  IN [found    |-> found,
      queue    |-> IF admits THEN Front(rest) ELSE rest,
      admitted |-> IF admits THEN {Last(rest)} ELSE {}]

\* World::RemoveQueuedPlayer on m_sessions = world and m_QueuedPlayer = q:
\* its result, the queue it leaves and the session it lets in, if any.  The
\* m_inQueue it clears is that of a session its callers then delete.
RemoveQueuedPlayer(s, world, q) ==
  LET found    == Contains(q, s)
      rest     == RemoveFirst(q, s)
      active   == GetActiveSessionCount(world, q)
      sessions == IF ~found /\ active > 0 THEN active - 1 ELSE active
      admits   == (limit = 0 \/ sessions < limit) /\ rest # <<>>
  IN [found    |-> found,
      queue    |-> IF admits THEN Tail(rest) ELSE rest,
      admitted |-> IF admits THEN {Head(rest)} ELSE {}]

\* World::HasRecentlyDisconnected.  difftime(a, b) is a - b.  The entries it
\* erases on its way are those that fail the test, which they fail for good.
HasRecentlyDisconnected(a) ==
  scenario.tolerance > 0 /\ disconnects[a] # Never /\ disconnects[a] - now < scenario.tolerance

-----------------------------------------------------------------------------
(* The network threads, until StopNetwork, which follows the last update.  *)

\* The session is created and handed over (LoadSessionPermissionsCallback,
\* World::AddSession).
AddSession(s) ==
  /\ pc # "stopped"
  /\ s \in scenario.clients /\ sess[s].state = "free"
  /\ sess' = [sess EXCEPT ![s] = New("added")]
  /\ addSessQueue' = Append(addSessQueue, s)
  /\ UNCHANGED <<inWorld, queue, clock, disconnects, pc, toUpdate, closing>>

\* The peer goes away, or the connection is found idle.
CloseSocket(s) ==
  /\ pc # "stopped"
  /\ sess[s].open
  /\ sess' = [sess EXCEPT ![s].open = FALSE]
  /\ UNCHANGED <<addSessQueue, inWorld, queue, clock, disconnects, pc, toUpdate, closing>>

-----------------------------------------------------------------------------
(* The world thread between two calls of UpdateSessions.                   *)

UpdateGameTime ==
  /\ pc = "idle" /\ ~closing
  /\ now < scenario.time
  /\ now' = now + 1
  /\ UNCHANGED <<sess, addSessQueue, inWorld, queue, scenario, limit, disconnects, pc, toUpdate, closing>>

\* ".server plimit", or the configuration is loaded again.
SetPlayerAmountLimit(n) ==
  /\ pc = "idle" /\ ~closing
  /\ n \in scenario.limits \ {limit}
  /\ limit' = n
  /\ UNCHANGED <<sess, addSessQueue, inWorld, queue, disconnects, scenario, now, pc, toUpdate, closing>>

\* A console command kicks an account.
KickAccount(a) ==
  /\ pc = "idle" /\ ~closing
  /\ inWorld[a] # NoSession
  /\ sess' = [sess EXCEPT ![inWorld[a]] = KickPlayer(@)]
  /\ UNCHANGED <<addSessQueue, inWorld, queue, clock, disconnects, pc, toUpdate, closing>>

\* World::KickAll, called once, at shutdown.
KickAll ==
  /\ pc = "idle" /\ ~closing
  /\ closing' = TRUE
  /\ queue' = <<>>
  /\ sess' = [s \in Sessions |-> IF sess[s].state = "world"
                                   THEN KickPlayer(sess[s]) ELSE sess[s]]
  /\ UNCHANGED <<addSessQueue, inWorld, clock, disconnects, pc, toUpdate>>

-----------------------------------------------------------------------------
(* World::UpdateSessions, first loop: addSessQueue.                        *)

StartUpdate ==
  /\ pc = "idle"
  /\ pc' = "add"
  /\ UNCHANGED <<sess, addSessQueue, inWorld, queue, clock, disconnects, toUpdate, closing>>

\* AddSession_ when RemoveSession fails: the account's session is loading its
\* player, the new session is kicked and deleted.
RefuseSession ==
  /\ pc = "add" /\ addSessQueue # <<>>
  /\ LET s   == Head(addSessQueue)
         old == inWorld[Acct[s]]
     IN /\ old # NoSession /\ sess[old].loading # "no"
        /\ sess' = [sess EXCEPT ![s] = Deleted]
  /\ addSessQueue' = Tail(addSessQueue)
  /\ UNCHANGED <<inWorld, queue, clock, disconnects, pc, toUpdate, closing>>

\* AddSession_: the account's old session, if any, is kicked, taken out of the
\* queue and deleted, and the new one is registered and let in or queued.
AddSession_ ==
  /\ pc = "add" /\ addSessQueue # <<>>
  /\ LET s          == Head(addSessQueue)
         old        == inWorld[Acct[s]]
         removed    == IF old = NoSession
                         THEN [found |-> FALSE, queue |-> queue, admitted |-> {}]
                         ELSE RemoveQueuedPlayer(old, inWorld, queue)
         registered == [inWorld EXCEPT ![Acct[s]] = s]
         total      == GetActiveAndQueuedSessionCount(registered)
         count      == IF removed.found THEN total ELSE total - 1
         full       == limit > 0 /\ count >= limit /\ Acct[s] \notin SkipQueue
         queued     == full /\ ~HasRecentlyDisconnected(Acct[s])
         entered    == [sess[s] EXCEPT !.state = "world", !.inQueue = queued,
                                       !.initPending = ~queued, !.tolerated = full /\ ~queued]
     IN /\ old # NoSession => sess[old].loading = "no"
        /\ inWorld' = registered
        /\ queue' = IF queued THEN Append(removed.queue, s) ELSE removed.queue
        /\ sess' = [t \in Sessions |->
                      CASE t = s                   -> entered
                        [] t = old                 -> Deleted
                        [] t \in removed.admitted  -> InitializeSession(sess[t])
                        [] OTHER                   -> sess[t]]
  /\ addSessQueue' = Tail(addSessQueue)
  /\ UNCHANGED <<clock, disconnects, pc, toUpdate, closing>>

AllAdded ==
  /\ pc = "add" /\ addSessQueue = <<>>
  /\ pc' = "update"
  /\ toUpdate' = {a \in Accounts : inWorld[a] # NoSession}
  /\ UNCHANGED <<sess, addSessQueue, inWorld, queue, clock, disconnects, closing>>

-----------------------------------------------------------------------------
(* Second loop: WorldSession::Update of every registered session.  Its     *)
(* packets and query callbacks are steps of their own, because the socket  *)
(* may close and queries be answered between them.                         *)

Updating(a) == pc = "update" /\ a \in toUpdate

\* The fields of the session of account a become those of session.
SetSession(a, session) ==
  /\ sess' = [sess EXCEPT ![inWorld[a]] = session]
  /\ UNCHANGED <<addSessQueue, inWorld, queue, clock, disconnects, pc, toUpdate, closing>>

\* Mutant: the packet loop does not hold back STATUS_AUTHED packets of a
\* queued session.
HandlePlayerLoginOpcode_Queued(a) ==
  /\ Updating(a) /\ scenario.logins
  /\ LET session == sess[inWorld[a]] IN
     \/ /\ session.loading # "no" \/ session.player
        /\ SetSession(a, KickPlayer(session))
     \/ /\ session.loading = "no" /\ ~session.player
        /\ SetSession(a, [session EXCEPT !.loading = "reading"])

\* CMSG_PLAYER_LOGIN.  A second login, or a character of another account,
\* gets the session kicked; m_playerLoading stays set in the latter case.
HandlePlayerLoginOpcode(a) ==
  /\ Updating(a) /\ scenario.logins
  /\ LET session == sess[inWorld[a]] IN
     /\ ~session.inQueue
     /\ \/ /\ session.loading # "no" \/ session.player
           /\ SetSession(a, KickPlayer(session))
        \/ /\ session.loading = "no" /\ ~session.player
           /\ \/ SetSession(a, [session EXCEPT !.loading = "reading"])
              \/ SetSession(a, KickPlayer([session EXCEPT !.loading = "refused"]))

\* The login query is answered: HandlePlayerLogin puts the player in the
\* world, or kicks the session when LoadFromDB fails.
HandlePlayerLogin(a) ==
  /\ Updating(a)
  /\ LET session == [sess[inWorld[a]] EXCEPT !.loading = "no"] IN
     /\ sess[inWorld[a]].loading = "reading"
     /\ \/ SetSession(a, [session EXCEPT !.player = TRUE])
        \/ SetSession(a, KickPlayer(session))

\* The account data are there: the client is told that it is let in.
InitializeSessionCallback(a) ==
  /\ Updating(a)
  /\ sess[inWorld[a]].initPending
  /\ SetSession(a, [sess[inWorld[a]] EXCEPT !.initPending = FALSE, !.inQueue = FALSE])

\* The logout request is due.
LogoutPlayer(a) ==
  /\ Updating(a)
  /\ sess[inWorld[a]].player /\ sess[inWorld[a]].loading = "no"
  /\ SetSession(a, [sess[inWorld[a]] EXCEPT !.player = FALSE])

\* Mutant: expireTime is never counted down.
Aged_Never(session) == session

\* expireTime counts down in every update that finds the socket closed.
Aged(session) ==
  IF session.open THEN session
  ELSE [session EXCEPT !.expire = IF @ > 1 THEN @ - 1 ELSE 0]

\* Whether WorldSession::Update drops the socket and returns false.
Finished(session) ==
  ~session.open /\ (Aged(session).expire < 1 \/ session.forceExit \/ ~session.player)

\* Update returns true: the loop goes on with the next session.
EndUpdate(a) ==
  /\ Updating(a)
  /\ ~Finished(sess[inWorld[a]])
  /\ sess' = [sess EXCEPT ![inWorld[a]] = Aged(@)]
  /\ toUpdate' = toUpdate \ {a}
  /\ UNCHANGED <<addSessQueue, inWorld, queue, clock, disconnects, pc, closing>>

\* Update returns false: the session leaves the queue and m_sessions and is
\* deleted.  RemoveQueuedPlayer is called twice.
RemoveFinished(a) ==
  /\ Updating(a)
  /\ LET s      == inWorld[a]
         first  == RemoveQueuedPlayer(s, inWorld, queue)
         second == RemoveQueuedPlayer(s, inWorld, first.queue)
     IN /\ Finished(sess[s])
        /\ queue' = second.queue
        /\ disconnects' = IF ~first.found /\ scenario.tolerance > 0
                            THEN [disconnects EXCEPT ![a] = now] ELSE disconnects
        /\ sess' = [t \in Sessions |->
                      CASE t = s -> Deleted
                        [] t \in first.admitted \cup second.admitted -> InitializeSession(sess[t])
                        [] OTHER -> sess[t]]
  /\ inWorld' = [inWorld EXCEPT ![a] = NoSession]
  /\ toUpdate' = toUpdate \ {a}
  /\ UNCHANGED <<addSessQueue, clock, pc, closing>>

AllUpdated ==
  /\ pc = "update" /\ toUpdate = {}
  /\ pc' = IF closing THEN "stopped" ELSE "idle"
  /\ UNCHANGED <<sess, addSessQueue, inWorld, queue, clock, disconnects, toUpdate, closing>>

-----------------------------------------------------------------------------
\* The loops of UpdateSessions.
UpdateSessions ==
  \/ StartUpdate \/ RefuseSession \/ AddSession_ \/ AllUpdated
  \/ \E a \in Accounts : EndUpdate(a) \/ RemoveFinished(a)

Packets ==
  \E a \in Accounts :
    \/ HandlePlayerLoginOpcode(a) \/ HandlePlayerLogin(a)
    \/ InitializeSessionCallback(a) \/ LogoutPlayer(a)

Network == \E s \in Sessions : AddSession(s) \/ CloseSocket(s)

Operator ==
  \/ \E n \in scenario.limits : SetPlayerAmountLimit(n)
  \/ \E a \in Accounts : KickAccount(a)
  \/ KickAll

\* UpdateSessions has returned for the last time.
Stopped == pc = "stopped" /\ UNCHANGED vars

Next == \/ UpdateSessions \/ AllAdded \/ Packets
        \/ Network \/ Operator \/ UpdateGameTime
        \/ Stopped

\* The world loop keeps running.  Clients do not connect faster than the
\* first loop empties addSessQueue.
Fairness == WF_vars(UpdateSessions) /\ SF_vars(AllAdded)

Spec == Init /\ [][Next]_vars /\ Fairness

-----------------------------------------------------------------------------
Registered == {s \in Sessions : inWorld[Acct[s]] = s}
Active == Registered \ ToSet(queue)

\* No pointer outlives its session and no session is leaked: the waiting and
\* the registered sessions are the live ones, an account has one of them,
\* and the queue holds registered sessions that know they are queued, once.
NoDangling ==
  /\ \A a \in Accounts : inWorld[a] # NoSession =>
        Acct[inWorld[a]] = a /\ sess[inWorld[a]].state = "world"
  /\ \A s \in Sessions : (sess[s].state = "world") => s \in Registered
  /\ ToSet(addSessQueue) = {s \in Sessions : sess[s].state = "added"}
  /\ \A s \in ToSet(queue) : s \in Registered /\ sess[s].inQueue
  /\ Cardinality(ToSet(queue)) = Len(queue)

\* A client that was told to wait in the queue cannot log a player in, and it
\* is really queued, let in, or on its way out.
QueueGate ==
  \A s \in Registered : sess[s].inQueue =>
    /\ sess[s].loading = "no" /\ ~sess[s].player
    /\ Contains(queue, s) \/ sess[s].initPending \/ sess[s].forceExit

\* The sessions that PlayerLimit does not hold back: those with the permission
\* to skip the queue and those back within the disconnect tolerance.
Exempt(s) == Acct[s] \in SkipQueue \/ sess[s].tolerated

Full == limit > 0 /\ Cardinality(Active) >= limit

\* s comes before t in the queue q.
Before(q, s, t) == \E i, j \in 1 .. Len(q) : i < j /\ q[i] = s /\ q[j] = t

\* Players wait only for others: a session is queued when the server is full
\* or behind those who wait, and a session that leaves is replaced at once.
\* (SetPlayerAmountLimit may raise the limit and leaves the queue as it is.)
QueueOnlyWhenFull ==
  [][ ~closing' =>
        /\ ToSet(queue') \subseteq ToSet(queue) \/ queue # <<>> \/ Full'
        /\ \/ queue' = <<>> \/ Full'
           \/ Cardinality(Active') >= Cardinality(Active) ]_vars

\* Whoever is let in is exempt, or does not exceed PlayerLimit.
LimitRespected ==
  [][ \A s \in Active' \ Active :
        ~closing' /\ limit > 0 /\ ~Exempt(s)' =>
          Cardinality({t \in Active' : ~Exempt(t)'}) <= limit ]_vars

\* Nobody overtakes the queue: no session goes on waiting while one is let in
\* that was not before it in the queue, unless that one is exempt or finds a
\* raised limit with room for all.  (KickAll empties the queue, letting nobody
\* in.)
NoOvertaking ==
  [][ ~closing' =>
        \A s \in Active' \ Active, t \in ToSet(queue) \cap ToSet(queue') :
          \/ Before(queue, s, t) \/ Exempt(s)'
          \/ limit = 0 \/ Cardinality(Registered') <= limit ]_vars

\* After the last UpdateSessions no session that KickAll kicked is left: its
\* player was unloaded and saved.
ShutdownUnloads == pc = "stopped" => \A s \in Registered : ~sess[s].forceExit

\* The disconnect tolerance lets only those pass who went less than the tolerance
\* seconds ago (worldserver.conf.dist, DisconnectToleranceInterval).
ToleranceExpires ==
  [][ \A s \in Sessions : sess'[s].tolerated /\ ~sess[s].tolerated =>
        now - disconnects[Acct[s]] < scenario.tolerance ]_vars

\* A session whose socket is closed is removed, at the latest when its player
\* has been left standing in the world for the expire time.
ClosedRemoved(s) ==
  sess[s].state # "free" /\ ~sess[s].open ~> sess[s].state = "free" \/ pc = "stopped"
=============================================================================
