-------------------------- MODULE BattlegroundQueue --------------------------
(***************************************************************************)
(* One queue of BattlegroundMgr (a battleground type and level bracket):   *)
(* groups that wait, the invitations to running and to new battlegrounds,  *)
(* the events that withdraw an invitation nobody answered, and the life of *)
(* a battleground from its creation to its deletion.  Handlers of packets  *)
(* run in phase "sessions" of a world tick, BattlegroundMgr::Update in the *)
(* others.  Arenas are left out, Battleground.InvitationType is 0, and a   *)
(* reminder of an invitation, which changes nothing, is no step.           *)
(***************************************************************************)
EXTENDS Integers, FiniteSetsExt, SequencesExt

CONSTANTS Players,
          TeamOf,             \* "alliance" or "horde"
          MinPlayersPerTeam, MaxPlayersPerTeam,
          AcceptTime,         \* INVITE_ACCEPT_WAIT_TIME, in updates of the manager
          MaxBattlegrounds,   \* bound on the battlegrounds alive at once
          Leaving             \* bound: the players who may log out

Teams == {"alliance", "horde"}

ASSUME PlayersAssumption == IsFiniteSet(Players) /\ TeamOf \in [Players -> Teams]
ASSUME SizeAssumption ==
  /\ MinPlayersPerTeam \in Nat \ {0} /\ MaxPlayersPerTeam \in Nat
  /\ MinPlayersPerTeam <= MaxPlayersPerTeam
ASSUME BoundAssumption ==
  /\ AcceptTime \in Nat \ {0} /\ MaxBattlegrounds \in Nat \ {0}
  /\ Leaving \subseteq Players

Ids       == 1 .. MaxBattlegrounds   \* instance ids
NoBg      == 0
NotQueued == -1                      \* BATTLEGROUND_QUEUE_NONE

VARIABLES
  queue,      \* m_QueuedGroups[bracket]: the groups of each kind and team, in order
  info,       \* m_QueuedPlayers: what GroupQueueInfo says of the group of each player
  bgs,        \* bgDataStore[type].m_Battlegrounds
  freeSlots,  \* BGFreeSlotQueue
  events,     \* m_events: the BGQueueRemoveEvents
  scheduled,  \* m_QueueUpdateScheduler holds this queue
  qid,        \* m_bgBattlegroundQueueID of each player: NotQueued, or invitedToInstance
  bgOf,       \* m_bgData.bgInstanceID
  online,     \* "offline", "world", or "transit" while teleported to a battleground
  phase,      \* where the world thread is
  todo        \* battlegrounds BattlegroundMgr::Update has still to update

queueVars == <<queue, info, bgs, freeSlots, events, scheduled, qid, bgOf, online, phase, todo>>

Kinds == {"premade", "normal"}

\* IsInvitedToBGInstanceGUID, and RemoveInviteTime as the time that is left.
GroupQueueInfo == [invited : Ids \cup {NoBg, NotQueued}, left : 0 .. AcceptTime]
NotInQueue == [invited |-> NotQueued, left |-> 0]
Battleground == [status : {"none", "join", "progress", "leave"}, invited : [Teams -> Nat],
                 players : SUBSET Players, offline : Seq(Players)]
NoBattleground == [status |-> "none", invited |-> [t \in Teams |-> 0],
                   players |-> {}, offline |-> <<>>]

QueueTypeOK ==
  /\ queue \in [Kinds -> [Teams -> Seq((SUBSET Players) \ {{}})]]
  /\ info \in [Players -> GroupQueueInfo]
  /\ bgs \in [Ids -> Battleground]
  /\ freeSlots \in Seq(Ids)
  /\ events \subseteq [player : Players, bg : Ids, left : 1 .. AcceptTime]
  /\ scheduled \in BOOLEAN
  /\ qid \in [Players -> Ids \cup {NoBg, NotQueued}]
  /\ bgOf \in [Players -> Ids \cup {NoBg}]
  /\ online \in [Players -> {"offline", "world", "transit"}]
  /\ phase \in {"sessions", "battlegrounds", "events", "queue"}
  /\ todo \subseteq Ids

QueueInit ==
  /\ queue = [k \in Kinds |-> [t \in Teams |-> <<>>]]
  /\ info = [p \in Players |-> NotInQueue]
  /\ bgs = [b \in Ids |-> NoBattleground]
  /\ freeSlots = <<>> /\ events = {} /\ scheduled = FALSE
  /\ qid = [p \in Players |-> NotQueued]
  /\ bgOf = [p \in Players |-> NoBg]
  /\ online = [p \in Players |-> "world"]
  /\ phase = "sessions" /\ todo = {}

\* The state the functions of the queue and of the battlegrounds work on.
St == [queue |-> queue, info |-> info, bgs |-> bgs, free |-> freeSlots, events |-> events,
       scheduled |-> scheduled, qid |-> qid, bgOf |-> bgOf]
Becomes(st) ==
  /\ queue' = st.queue /\ info' = st.info /\ bgs' = st.bgs /\ freeSlots' = st.free /\ events' = st.events
  /\ scheduled' = st.scheduled /\ qid' = st.qid /\ bgOf' = st.bgOf

Alive(st, b) == b # NoBg /\ st.bgs[b].status # "none"
InQueue(st, p) == st.info[p].invited # NotQueued               \* m_QueuedPlayers.find
IsWaiting(st, g) == \E p \in g : st.info[p].invited = NoBg
Of(ps, t) == {p \in ps : TeamOf[p] = t}

-----------------------------------------------------------------------------
(* Functions of the queue.                                                 *)

DecreaseInvitedCount(bg, t) == [bg EXCEPT !.invited[t] = @ - 1]

\* The groups of a queue after p has left his; an empty group is deleted.
Without(groups, p) ==
  FoldLeft(LAMBDA kept, g : IF g = {p} THEN kept ELSE Append(kept, g \ {p}), <<>>, groups)

RemovePlayer(st, p, decreaseInvitedCount) ==
  IF ~InQueue(st, p) THEN st ELSE
  LET t == TeamOf[p]
      b == st.info[p].invited
      counted == IF decreaseInvitedCount /\ Alive(st, b)
                 THEN [st.bgs EXCEPT ![b] = DecreaseInvitedCount(@, t)] ELSE st.bgs
  IN [st EXCEPT !.queue["premade"][t] = Without(@, p),
                !.queue["normal"][t] = Without(@, p),
                !.info[p] = NotInQueue,
                !.bgs = counted]

\* InviteGroupToBG, for the groups of a selection pool (sets of players).
InvitePool(st, pool, b) ==
  LET invitees == UNION pool
  IN [st EXCEPT
       !.info = [p \in Players |->
                  IF p \in invitees THEN [invited |-> b, left |-> AcceptTime] ELSE @[p]],
       !.bgs[b].invited = [t \in Teams |-> @[t] + Cardinality(Of(invitees, t))],
       !.events = @ \cup {[player |-> p, bg |-> b, left |-> AcceptTime] : p \in invitees},
       !.qid = [p \in Players |-> IF p \in invitees THEN b ELSE @[p]]]

Count(pool) == Cardinality(UNION pool)

\* SelectionPool::AddGroup: a group that is not invited and still fits under
\* desired; nobody is added to a pool that holds enough already.
AddGroup(st, pool, g, desired, enough) ==
  IF IsWaiting(st, g) /\ Count(pool) + Cardinality(g) <= desired /\ Count(pool) < enough
  THEN pool \cup {g} ELSE pool

AddGroups(st, pool, groups, desired, enough) ==
  FoldLeft(LAMBDA sel, g : AddGroup(st, sel, g, desired, enough), pool, groups)

Smaller(x, y) == IF x < y THEN x ELSE y
Larger(x, y) == IF x > y THEN x ELSE y

\* With InvitationType 0 a battleground that is starting takes anybody.
GetFreeSlotsForTeam(bg, t) ==
  LET other == CHOOSE o \in Teams : o # t
      room == Larger(MaxPlayersPerTeam - bg.invited[t], 0)
      here == Cardinality(Of(bg.players, t))
      there == Cardinality(Of(bg.players, other))
      byInvited == IF bg.invited[other] = bg.invited[t] THEN 1
                   ELSE Larger(bg.invited[other] - bg.invited[t], 0)
      byPlayers == IF there = here THEN 1
                   ELSE IF there > here THEN there - here
                   ELSE IF bg.invited[t] <= MinPlayersPerTeam
                        THEN MinPlayersPerTeam - bg.invited[t] + 1 ELSE 0
  IN CASE bg.status = "join" -> room
       [] bg.status = "progress" -> Smaller(Smaller(byInvited, room), byPlayers)
       [] OTHER -> 0

FillPlayersToBG(st, b) ==
  LET free(t) == GetFreeSlotsForTeam(st.bgs[b], t)
  IN UNION {AddGroups(st, {}, st.queue["normal"][t], free(t), free(t) + 1) : t \in Teams}

\* A battleground that waits for players or runs is offered to the queue.
OfferSlots(st, b) ==
  IF st.bgs[b].status \notin {"join", "progress"} THEN st ELSE
  LET after == InvitePool(st, FillPlayersToBG(st, b), b)
  IN IF Cardinality(after.bgs[b].players) < 2 * MaxPlayersPerTeam THEN after
     ELSE [after EXCEPT !.free = RemoveFirst(@, b)]

\* CreateNewBattleground, the invitation of the pools, and StartBattleground.
CreateNewBattleground(st, pool) ==
  LET unused == {b \in Ids : ~Alive(st, b)}
      b == Min(unused)
  IN IF unused = {} THEN st
     ELSE LET new == [st EXCEPT !.bgs[b] = [NoBattleground EXCEPT !.status = "join"],
                                !.free = <<b>> \o @]
          IN InvitePool(new, pool, b)

\* The index of the first premade group of a team that is not invited, or 0.
FirstWaiting(st, t) == SelectInSeq(st.queue["premade"][t], LAMBDA g : IsWaiting(st, g))

\* Premade group against premade group, filled up from the normal queues; or
\* a premade group that has waited too long, or lost members, is moved.
PremadeMatch(st, late) ==
  IF \A t \in Teams : FirstWaiting(st, t) # 0 THEN
    LET first(t) == {st.queue["premade"][t][FirstWaiting(st, t)]}
        size == Smaller(Count(first("alliance")), Count(first("horde")))
    IN CreateNewBattleground(st,
         UNION {AddGroups(st, first(t), st.queue["normal"][t], size, size) : t \in Teams})
  ELSE
    LET moves(t) == LET q == st.queue["premade"][t] IN
          /\ q # <<>> /\ IsWaiting(st, Head(q))
          /\ t \in late \/ Cardinality(Head(q)) < MinPlayersPerTeam
    IN [st EXCEPT !.queue =
          [premade |-> [t \in Teams |-> IF moves(t) THEN Tail(@["premade"][t]) ELSE @["premade"][t]],
           normal  |-> [t \in Teams |-> IF moves(t) THEN <<Head(@["premade"][t])>> \o @["normal"][t]
                                                    ELSE @["normal"][t]]]]

NormalMatch(st) ==
  LET pool(t) == AddGroups(st, {}, st.queue["normal"][t], MaxPlayersPerTeam, MinPlayersPerTeam)
  IN IF \A t \in Teams : Count(pool(t)) >= MinPlayersPerTeam
     THEN CreateNewBattleground(st, UNION {pool(t) : t \in Teams}) ELSE st

\* late: the teams whose first premade group has waited too long.
BattlegroundQueueUpdate(st, late) ==
  IF \A p \in Players : ~InQueue(st, p) THEN st
  ELSE NormalMatch(PremadeMatch(FoldLeft(OfferSlots, st, st.free), late))

-----------------------------------------------------------------------------
(* Functions of a battleground.                                            *)

AddToBGFreeSlotQueue(st, b) ==
  IF b \in ToSet(st.free) THEN st ELSE [st EXCEPT !.free = <<b>> \o @]

\* RemovePlayerAtLeave of a participant; connected: its Player object is found.
RemovePlayerAtLeave(st, p, b, connected) ==
  LET bg == st.bgs[b]
      left == [st EXCEPT !.bgs[b] = [DecreaseInvitedCount(bg, TeamOf[p])
                                       EXCEPT !.players = bg.players \ {p}],
                         !.qid = IF connected THEN [@ EXCEPT ![p] = NotQueued] ELSE @,
                         !.bgOf = IF connected THEN [@ EXCEPT ![p] = NoBg] ELSE @]
  IN IF bg.status = "leave" THEN left
     ELSE [AddToBGFreeSlotQueue(left, b) EXCEPT !.scheduled = TRUE]

\* HandleMoveWorldportAck: who is not invited any more is not added.
AddPlayer(st, p) ==
  LET b == st.bgOf[p]
  IN IF Alive(st, b) /\ st.qid[p] = b THEN [st EXCEPT !.bgs[b].players = @ \cup {p}] ELSE st

-----------------------------------------------------------------------------
(* The players (phase "sessions").                                         *)

Sessions == phase = "sessions" /\ UNCHANGED <<phase, todo>>

\* CMSG_BATTLEMASTER_JOIN, alone or as a group: AddGroup.
Join(ps) ==
  /\ Sessions
  /\ \A p \in ps : online[p] = "world" /\ qid[p] = NotQueued /\ bgOf[p] = NoBg
  /\ \E t \in Teams :
       /\ ps \subseteq Of(Players, t)
       /\ LET k == IF Cardinality(ps) > 1 /\ Cardinality(ps) >= MinPlayersPerTeam
                   THEN "premade" ELSE "normal"
          IN queue' = [queue EXCEPT ![k][t] = Append(@, ps)]
  /\ info' = [p \in Players |-> IF p \in ps THEN [invited |-> NoBg, left |-> 0] ELSE info[p]]
  /\ qid' = [p \in Players |-> IF p \in ps THEN NoBg ELSE qid[p]]
  /\ scheduled' = TRUE
  /\ UNCHANGED <<bgs, freeSlots, events, bgOf, online>>

\* CMSG_BATTLEFIELD_PORT, "enter": the player leaves the queue for the battleground.
Enter(p) ==
  /\ Sessions
  /\ online[p] = "world" /\ InQueue(St, p) /\ qid[p] \in Ids
  /\ LET b == info[p].invited IN
       /\ Alive(St, b)
       /\ Becomes([RemovePlayer(St, p, FALSE) EXCEPT !.bgOf[p] = b])
  /\ online' = [online EXCEPT ![p] = "transit"]

\* CMSG_BATTLEFIELD_PORT, "leave queue" (or a deserter who wants to enter).
LeaveQueue(p) ==
  /\ Sessions
  /\ online[p] = "world" /\ InQueue(St, p)
  /\ Becomes([RemovePlayer(St, p, TRUE) EXCEPT !.qid[p] = NotQueued, !.scheduled = TRUE])
  /\ UNCHANGED online

\* MSG_MOVE_WORLDPORT_ACK.
Arrive(p) ==
  /\ Sessions
  /\ online[p] = "transit"
  /\ Becomes(AddPlayer(St, p))
  /\ online' = [online EXCEPT ![p] = "world"]

\* Player::LeaveBattleground: by packet, when AFK, or teleported away.
LeaveBattleground(p) ==
  /\ Sessions
  /\ online[p] = "world" /\ bgOf[p] # NoBg /\ p \in bgs[bgOf[p]].players
  /\ Becomes(RemovePlayerAtLeave(St, p, bgOf[p], TRUE))
  /\ UNCHANGED online

\* Mutant: the transfer is finished only after the player has left the queues.
Logout_TransferLast(p) ==
  /\ Sessions
  /\ p \in Leaving /\ online[p] # "offline"
  /\ LET out == IF bgOf[p] # NoBg /\ p \in bgs[bgOf[p]].players
                THEN [St EXCEPT !.bgs[bgOf[p]].offline = Append(@, p)] ELSE St
         gone == RemovePlayer([out EXCEPT !.qid[p] = NotQueued], p, TRUE)
     IN Becomes(IF online[p] = "transit" THEN AddPlayer(gone, p) ELSE gone)
  /\ online' = [online EXCEPT ![p] = "offline"]

\* LogoutPlayer finishes a pending transfer, tells the battleground, and
\* takes the player out of the queue.
Logout(p) ==
  /\ Sessions
  /\ p \in Leaving /\ online[p] # "offline"
  /\ LET in  == IF online[p] = "transit" THEN AddPlayer(St, p) ELSE St
         out == IF bgOf[p] # NoBg /\ p \in in.bgs[bgOf[p]].players
                THEN [in EXCEPT !.bgs[bgOf[p]].offline = Append(@, p)] ELSE in
     IN Becomes(RemovePlayer([out EXCEPT !.qid[p] = NotQueued], p, TRUE))
  /\ online' = [online EXCEPT ![p] = "offline"]

\* Player::LoadFromDB: back into the battleground, or out of one that ended.
Login(p) ==
  /\ Sessions
  /\ online[p] = "offline"
  /\ LET b == bgOf[p]
         inside == b # NoBg /\ p \in bgs[b].players
     IN IF inside /\ bgs[b].status # "leave"
        THEN Becomes([St EXCEPT !.qid[p] = b, !.bgs[b].offline = RemoveFirst(@, p)])
        ELSE Becomes([(IF inside THEN RemovePlayerAtLeave(St, p, b, FALSE) ELSE St)
                        EXCEPT !.bgOf[p] = NoBg])
  /\ online' = [online EXCEPT ![p] = "world"]

\* The game decides the battle.
EndBattleground(b) ==
  /\ Sessions
  /\ bgs[b].status = "progress"
  /\ bgs' = [bgs EXCEPT ![b].status = "leave"]
  /\ freeSlots' = RemoveFirst(freeSlots, b)
  /\ UNCHANGED <<queue, info, events, scheduled, qid, bgOf, online>>

-----------------------------------------------------------------------------
(* BattlegroundMgr::Update.                                                *)

\* The battlegrounds are updated only when m_UpdateTimer has run out.
SkipBattlegrounds ==
  /\ phase = "sessions" /\ phase' = "events"
  /\ UNCHANGED <<queue, info, bgs, freeSlots, events, scheduled, qid, bgOf, online, todo>>

UpdateBattlegrounds ==
  /\ phase = "sessions" /\ phase' = "battlegrounds"
  /\ todo' = {b \in Ids : bgs[b].status # "none"} /\ todo' # {}
  /\ UNCHANGED <<queue, info, bgs, freeSlots, events, scheduled, qid, bgOf, online>>

\* Battleground::Update of the next one.
Updates(b) ==
  /\ phase = "battlegrounds"
  /\ b \in todo /\ \A x \in todo : b <= x
  /\ todo' = todo \ {b}
  /\ phase' = IF todo' = {} THEN "events" ELSE phase
  /\ UNCHANGED online

Abandoned(b) == bgs[b].players = {} /\ \A t \in Teams : bgs[b].invited[t] = 0

Delete(b) ==
  /\ Updates(b)
  /\ Abandoned(b)
  /\ Becomes([St EXCEPT !.bgs[b] = NoBattleground, !.free = RemoveFirst(@, b)])

NothingDue(b) == Updates(b) /\ ~Abandoned(b) /\ Becomes(St)

\* _ProcessJoin: the start delay has passed.
Start(b) ==
  /\ Updates(b)
  /\ bgs[b].status = "join" /\ bgs[b].players # {}
  /\ Becomes([St EXCEPT !.bgs[b].status = "progress"])

\* _ProcessOfflineQueue: the first who logged out has been away for too long.
RemoveOffline(b) ==
  /\ Updates(b)
  /\ bgs[b].status = "progress" /\ bgs[b].offline # <<>>
  /\ Head(bgs[b].offline) \in bgs[b].players
  /\ LET p == Head(bgs[b].offline) IN
       Becomes([RemovePlayerAtLeave(St, p, b, online[p] # "offline")
                  EXCEPT !.bgs[b].offline = Tail(@)])

\* _ProcessLeave: the end time has come.
RemoveAll(b) ==
  /\ Updates(b)
  /\ bgs[b].status = "leave" /\ bgs[b].players # {}
  /\ Becomes(FoldSet(LAMBDA p, st : RemovePlayerAtLeave(st, p, b, online[p] # "offline"),
                     St, bgs[b].players))

\* Mutant: any invitation to the same battleground will do.
IsPlayerInvited_Any(st, e) ==
  st.info[e.player].invited = e.bg

\* The invitation the event was made for, told by its battleground and its time.
IsPlayerInvited(st, e) ==
  st.info[e.player] = [invited |-> e.bg, left |-> e.left]

\* BGQueueRemoveEvent::Execute.
RemoveEvent(st, e) ==
  IF online[e.player] = "offline" \/ st.qid[e.player] = NotQueued \/ ~IsPlayerInvited(st, e)
  THEN st
  ELSE [RemovePlayer(st, e.player, TRUE) EXCEPT
          !.qid[e.player] = NotQueued,
          !.scheduled = @ \/ st.bgs[e.bg].status \in {"join", "progress"}]

\* An event, or an invitation, an update later.
Later(e) == [e EXCEPT !.left = Larger(@ - 1, 0)]

\* The events that are due run, and time passes.
UpdateEvents ==
  /\ phase = "events" /\ phase' = "queue"
  /\ LET due == {e \in events : e.left = 1} IN
       Becomes([FoldSet(LAMBDA e, st : RemoveEvent(st, e), St, due) EXCEPT
         !.events = {Later(e) : e \in events \ due},
         !.info = [p \in Players |-> Later(@[p])]])
  /\ UNCHANGED <<online, todo>>

UpdateQueue ==
  /\ phase = "queue" /\ phase' = "sessions"
  /\ IF scheduled
     THEN \E late \in SUBSET {t \in Teams : queue["premade"][t] # <<>>} :
            Becomes([BattlegroundQueueUpdate(St, late) EXCEPT !.scheduled = FALSE])
     ELSE Becomes(St)
  /\ UNCHANGED <<online, todo>>

-----------------------------------------------------------------------------
PlayerStep(p) ==
  \/ Enter(p) \/ LeaveQueue(p) \/ Arrive(p) \/ LeaveBattleground(p) \/ Logout(p) \/ Login(p)

TimerRunsOut(b) == Start(b) \/ RemoveOffline(b) \/ RemoveAll(b)

MgrUpdate ==
  \/ SkipBattlegrounds \/ UpdateBattlegrounds \/ UpdateEvents \/ UpdateQueue
  \/ \E b \in Ids : Delete(b) \/ NothingDue(b) \/ TimerRunsOut(b)

QueueNext ==
  \/ \E ps \in (SUBSET Players) \ {{}} : Cardinality(ps) <= MaxPlayersPerTeam /\ Join(ps)
  \/ \E p \in Players : PlayerStep(p)
  \/ \E b \in Ids : EndBattleground(b)
  \/ MgrUpdate

\* The world thread keeps updating, m_UpdateTimer and the timer that is due
\* next in a battleground run out (its status tells which, and never goes back).
QueueFairness ==
  /\ WF_queueVars(MgrUpdate) /\ SF_queueVars(UpdateBattlegrounds)
  /\ \A b \in Ids : SF_queueVars(TimerRunsOut(b))

QueueSpec == QueueInit /\ [][QueueNext]_queueVars /\ QueueFairness

-----------------------------------------------------------------------------
\* The players a battleground has to expect or holds.
Expected(b, t) ==
  {p \in Of(Players, t) :
     \/ info[p].invited = b
     \/ online[p] = "transit" /\ bgOf[p] = b
     \/ p \in bgs[b].players}

\* The invited count of a battleground is exact, whichever way players come,
\* decline, are timed out, log out in the loading screen or leave: a count too
\* high keeps a slot, and in the end the battleground, for ever; one too low
\* deletes it under an invitation.  And no team is invited beyond its size.
InvitedCountExact ==
  \A b \in Ids, t \in Teams :
    /\ bgs[b].invited[t] = Cardinality(Expected(b, t))
    /\ bgs[b].invited[t] <= MaxPlayersPerTeam

\* An invitation ends unanswered when its time is over, not later, and not
\* earlier because of an event of an earlier invitation of the same player to
\* the same battleground (the cases in the comment of BGQueueRemoveEvent).
InvitationTime ==
  [][phase = "events" /\ phase' = "queue" =>
       \A p \in Players :
         info[p].invited \in Ids => (InQueue(St, p)' <=> info[p].left > 1)]_queueVars

\* A battleground is deleted in the end, unless somebody who is online is in it,
\* on the way to it or invited to it (again).
AbandonedDeleted ==
  \A b \in Ids :
    bgs[b].status # "none" ~>
      \/ bgs[b].status = "none"
      \/ \E p \in Players :
           online[p] # "offline" /\ (bgOf[p] = b \/ p \in Expected(b, TeamOf[p]))
=============================================================================
