---------------------------- MODULE PacketRouting ----------------------------
(***************************************************************************)
(* How the packets of one client reach their handlers.  The network thread *)
(* appends them to WorldSession::_recvQueue; the world thread takes them   *)
(* in World::UpdateSessions and then, while the player is in world, the    *)
(* thread that updates his map takes them in Map::Update.  The two filters *)
(* look at the first packet and decide whether the thread may have it;     *)
(* packets for a player who is not there yet are put back.  The two        *)
(* threads never update the session at once (MapUpdater!Barrier); the      *)
(* network thread adds packets, and the database answers, at any moment.   *)
(* The client follows the protocol of the game's client: it lists its      *)
(* characters, enters the world with one, and is told when it has left.    *)
(***************************************************************************)
EXTENDS Integers, Sequences

CONSTANTS MaxLogins,   \* bound: characters the client enters the world with
          MaxPackets,  \* bound: packets the client sends
          MaxProcessed \* MAX_PROCESSED_PACKETS_IN_SAME_WORLDSESSION_UPDATE

ASSUME BoundsAssumption ==
  MaxLogins \in Nat /\ MaxPackets \in Nat /\ MaxProcessed \in Nat

VARIABLES
  screen,     \* client: "connected", "characters" or "world"
  character,  \* client: the number of its last login
  sent,       \* client: number of packets sent
  toClient,   \* what the server told the client and it has not read yet
  recv,       \* _recvQueue
  thread,     \* which thread is in WorldSession::Update, or "none"
  turn,       \* which thread updates the session next
  requeue,    \* requeuePackets
  processed,  \* processedPackets
  player,     \* _player: the number of the login, 0 for none
  inWorld,    \* _player->IsInWorld()
  loading,    \* the login whose queries the database is running, 0 for none
  recentlyLogout, \* m_playerRecentlyLogout
  logoutTime, \* _logoutTime is set
  last        \* history: the packet handled last, and the player it was handled for

clientVars  == <<screen, character, sent>>
playerVars  == <<player, inWorld, loading, recentlyLogout, logoutTime>>
updateVars  == <<thread, turn, requeue, processed>>
packetVars == <<clientVars, toClient, recv, updateVars, playerVars, last>>

(* The opcodes, by what the opcode table says of them:                     *)
(*   enum, login  CMSG_CHAR_ENUM, CMSG_PLAYER_LOGIN: authed, thread-unsafe *)
(*   move         logged in, thread-safe                                   *)
(*   talk         logged in, thread-unsafe                                 *)
(*   logout       CMSG_LOGOUT_REQUEST: logged in, thread-unsafe            *)
(*   cancel       CMSG_CANCEL_TRADE: logged in or recently logged out      *)
(*   ack          MSG_MOVE_WORLDPORT_ACK: transfer, thread-unsafe          *)
LoggedIn == {"move", "talk", "logout"}
Authed   == {"enum", "login"}
ThreadSafe == {"move"}
Kinds    == LoggedIn \cup Authed \cup {"cancel", "ack"}

Packet == [id : 1 .. MaxPackets, kind : Kinds, of : 0 .. MaxLogins]

PacketsTypeOK ==
  /\ screen \in {"connected", "characters", "world"}
  /\ character \in 0 .. MaxLogins
  /\ sent \in 0 .. MaxPackets
  /\ toClient \in Seq({"transfer", "left"})
  /\ recv \in Seq(Packet) /\ requeue \in Seq(Packet)
  /\ thread \in {"none", "world", "map"} /\ turn \in {"world", "map"}
  /\ processed \in 0 .. MaxProcessed + 1
  /\ player \in 0 .. MaxLogins /\ loading \in 0 .. MaxLogins
  /\ inWorld \in BOOLEAN /\ recentlyLogout \in BOOLEAN /\ logoutTime \in BOOLEAN

PacketsInit ==
  /\ screen = "characters" /\ character = 0 /\ sent = 0
  /\ toClient = <<>> /\ recv = <<>> /\ requeue = <<>> /\ last = [id |-> 0, kind |-> "enum", of |-> 0, for |-> 0]
  /\ thread = "none" /\ turn = "world" /\ processed = 0
  /\ player = 0 /\ inWorld = FALSE /\ loading = 0
  /\ recentlyLogout = FALSE /\ logoutTime = FALSE

-----------------------------------------------------------------------------
(* The client, and the network thread that queues what it sends.           *)

Send(kind) ==
  /\ sent < MaxPackets
  /\ sent' = sent + 1
  /\ recv' = Append(recv, [id |-> sent + 1, kind |-> kind, of |-> character'])
  /\ UNCHANGED <<updateVars, playerVars, last>>

AskCharacters ==
  /\ screen = "connected"
  /\ screen' = "characters"
  /\ UNCHANGED <<character, toClient>>
  /\ Send("enum")

EnterWorld ==
  /\ screen = "characters" /\ character < MaxLogins
  /\ screen' = "world"
  /\ character' = character + 1
  /\ UNCHANGED toClient
  /\ Send("login")

Play(kind) ==
  /\ screen = "world"
  /\ kind \in LoggedIn
  /\ UNCHANGED <<screen, character, toClient>>
  /\ Send(kind)

\* SMSG_NEW_WORLD is answered when the new map is loaded; SMSG_LOGOUT_COMPLETE
\* with CMSG_CANCEL_TRADE, and the client asks for its characters again.
Read ==
  /\ toClient # <<>>
  /\ toClient' = Tail(toClient)
  /\ UNCHANGED character
  /\ IF Head(toClient) = "transfer" THEN UNCHANGED screen /\ Send("ack")
                                    ELSE screen' = "connected" /\ Send("cancel")

-----------------------------------------------------------------------------
(* WorldSession::Update.                                                   *)

\* Mutant: the world thread never takes a thread-safe packet.
Accepts_Strict(t, kind) ==
  IF t = "world" THEN kind \notin ThreadSafe
  ELSE kind \in ThreadSafe /\ player # 0 /\ inWorld

\* WorldSessionFilter and MapSessionFilter.
Accepts(t, kind) ==
  IF t = "world" THEN kind \in ThreadSafe => player = 0 \/ ~ inWorld
  ELSE kind \in ThreadSafe /\ player # 0 /\ inWorld

\* World::UpdateSessions, or Map::Update if the player is on its map.
Begin(t) ==
  /\ thread = "none" /\ turn = t
  /\ IF t = "world" \/ (player # 0 /\ inWorld)
     THEN thread' = t /\ UNCHANGED turn
     ELSE turn' = "world" /\ UNCHANGED thread
  /\ processed' = 0
  /\ UNCHANGED <<clientVars, toClient, recv, requeue, playerVars, last>>

\* Mutant: leaves no trace of the logout.
LogoutPlayer_Forgetful ==
  /\ player' = 0
  /\ inWorld' = FALSE
  /\ toClient' = IF player # 0 THEN Append(toClient, "left") ELSE toClient
  /\ logoutTime' = FALSE
  /\ UNCHANGED <<loading, recentlyLogout>>

\* A transfer that is pending is finished first; then the player is removed.
LogoutPlayer ==
  /\ player' = 0
  /\ inWorld' = FALSE
  /\ toClient' = IF player # 0 THEN Append(toClient, "left") ELSE toClient
  /\ logoutTime' = FALSE
  /\ recentlyLogout' = TRUE
  /\ UNCHANGED loading

\* opHandle->Call, for the handlers that change what is modelled here.  A
\* logout request is granted at once, or in some time, or refused.
Call(p) ==
  /\ last' = [id |-> p.id, kind |-> p.kind, of |-> p.of, for |-> player]
  /\ CASE p.kind = "enum" ->
            recentlyLogout' = FALSE
            /\ UNCHANGED <<player, inWorld, loading, logoutTime, toClient>>
       [] p.kind = "login" /\ loading = 0 /\ player = 0 ->
            loading' = p.of
            /\ UNCHANGED <<player, inWorld, recentlyLogout, logoutTime, toClient>>
       [] p.kind = "logout" ->
            \/ LogoutPlayer
            \/ \E later \in BOOLEAN : logoutTime' = later
               /\ UNCHANGED <<player, inWorld, loading, recentlyLogout, toClient>>
       [] p.kind = "ack" ->
            inWorld' = TRUE
            /\ UNCHANGED <<player, loading, recentlyLogout, logoutTime, toClient>>
       [] OTHER -> UNCHANGED <<playerVars, toClient>>

Drop == UNCHANGED <<playerVars, toClient, last>>

\* What the switch over the status of the opcode does with a packet.
Dispatch(p) ==
  \/ /\ p.kind \in LoggedIn /\ player = 0 /\ ~ recentlyLogout
     /\ requeue' = Append(requeue, p)
     /\ UNCHANGED <<playerVars, toClient, last>>
  \/ /\ p.kind \in LoggedIn /\ player # 0 /\ inWorld
     /\ Call(p) /\ UNCHANGED requeue
  \/ /\ p.kind \in LoggedIn
     /\ IF player = 0 THEN recentlyLogout ELSE ~ inWorld
     /\ Drop /\ UNCHANGED requeue
  \/ /\ p.kind = "cancel"
     /\ IF player = 0 /\ ~ recentlyLogout THEN Drop ELSE Call(p)
     /\ UNCHANGED requeue
  \/ /\ p.kind = "ack"
     /\ IF player = 0 \/ inWorld THEN Drop ELSE Call(p)
     /\ UNCHANGED requeue
  \/ /\ p.kind \in Authed
     /\ Call(p) /\ UNCHANGED requeue

\* _recvQueue.next(packet, updater) yields a packet and the limit is not passed.
HasNext ==
  recv # <<>> /\ processed <= MaxProcessed /\ Accepts(thread, Head(recv).kind)

\* One round of the loop.
Process ==
  /\ thread # "none"
  /\ HasNext
  /\ recv' = Tail(recv)
  /\ processed' = processed + 1
  /\ Dispatch(Head(recv))
  /\ UNCHANGED <<clientVars, thread, turn>>

\* Mutant: packets that were put aside go behind those that arrived meanwhile.
readd_Back == recv \o requeue

\* LockedQueue::readd.
readd == requeue \o recv

\* After the loop: the packets put aside go back, answered queries are
\* processed (answered: the database has run those of the login), and the
\* world thread alone logs the player out when the time has come (expired).
End(answered, expired) ==
  LET loads == answered /\ loading # 0 IN
  /\ thread # "none"
  /\ ~ HasNext
  /\ recv' = readd
  /\ requeue' = <<>>
  /\ IF thread = "world" /\ expired /\ logoutTime /\ loading = 0
     THEN LogoutPlayer
     ELSE /\ player' = IF loads THEN loading ELSE player
          /\ inWorld' = (inWorld \/ loads)
          /\ loading' = IF loads THEN 0 ELSE loading
          /\ UNCHANGED <<recentlyLogout, logoutTime, toClient>>
  /\ turn' = IF thread = "world" THEN "map" ELSE "world"
  /\ thread' = "none"
  /\ UNCHANGED <<clientVars, processed, last>>

\* A far teleport, by a spell or by another player, takes the player off his
\* map until the client acknowledges the new one.
TeleportTo ==
  /\ thread # "none" /\ player # 0 /\ inWorld
  /\ inWorld' = FALSE
  /\ toClient' = Append(toClient, "transfer")
  /\ UNCHANGED <<clientVars, recv, updateVars, player, loading, recentlyLogout,
                 logoutTime, last>>

Client == AskCharacters \/ EnterWorld \/ (\E kind \in LoggedIn : Play(kind)) \/ Read

Server ==
  \/ \E t \in {"world", "map"} : Begin(t)
  \/ Process
  \/ \E answered, expired \in BOOLEAN : End(answered, expired)

PacketsNext == Client \/ Server \/ TeleportTo

\* The server's loop goes on and the database answers; nothing is asked of the
\* client.
PacketsFairness ==
  /\ WF_packetVars(Server)
  /\ SF_packetVars(\E expired \in BOOLEAN : End(TRUE, expired))

PacketsSpec == PacketsInit /\ [][PacketsNext]_packetVars /\ PacketsFairness

-----------------------------------------------------------------------------
\* A packet the client sent in the world is never handled for another
\* character than the one it played: what is late for the last character is
\* dropped, not kept for the next (m_playerRecentlyLogout).
ForItsPlayer ==
  last.kind \in LoggedIn \cup {"cancel"} => last.for \in {0, last.of}

\* Packets are handled in the order in which the client sent them, whichever
\* thread handles them and however often they are put aside (LockedQueue).
InOrder == [][last' # last => last'.id > last.id]_packetVars

\* Every packet is handled or dropped at last: no filter waits for the other
\* thread for ever, and packets that are put aside do not starve the rest
\* ("Any leftover will be processed in next update", WorldSession.cpp).
NoneStuck ==
  \A n \in 1 .. MaxPackets :
    (\E k \in DOMAIN recv : recv[k].id = n)
      ~> (\A k \in DOMAIN recv : recv[k].id # n) /\ (\A k \in DOMAIN requeue : requeue[k].id # n)
=============================================================================
