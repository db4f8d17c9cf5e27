------------------------- MODULE WorldSocket_proofs --------------------------
(* The network thread never uses a session that is not there, whichever     *)
(* thread closes the socket; the bytes of the packets reach the peer in      *)
(* order; and a client that is refused is told so before the socket is       *)
(* closed: for any threads, packets, buffers and clients.                   *)
EXTENDS WorldSocket, SequenceTheorems, TLAPS

Types ==
  /\ closed \in BOOLEAN /\ closing \in BOOLEAN /\ reading \in BOOLEAN /\ worldSession \in BOOLEAN
  /\ closer \in [Threads -> {"no", "shutdown", "onclose"}]
  /\ query \in {"none", "ip", "account", "permissions"}
  /\ session \in {"none", "created", "added", "dying", "deleted"}
  /\ netpc \in {"idle", "drain", "check", "write", "queries", "handler", "read", "session"}
  /\ received \in Seq({"auth", "ping", "other"})
  /\ client.sent \in Seq({"auth", "ping", "other"})
  /\ client = [sent |-> client.sent, authed |-> client.authed, left |-> client.left]

\* What the client has sent and the socket has not handled.
Pending == received \o client.sent

\* A client authenticates once.
AuthOnce ==
  /\ \A i, j \in DOMAIN Pending : Pending[i] = "auth" /\ Pending[j] = "auth" => i = j
  /\ ~ client.authed \/ query \in {"account", "permissions"} \/ session # "none" =>
       \A i \in DOMAIN Pending : Pending[i] # "auth"
  /\ query \in {"account", "permissions"} \/ session # "none" => client.authed

\* While the account is not known nothing is read; a refused client is not
\* listened to.
ReadingStops ==
  /\ netpc \in {"read", "session"} => ~ reading
  /\ netpc = "session" => received # <<>>
  /\ query \in {"ip", "account"} \/ closing => ~ reading /\ netpc \notin {"read", "session"}

\* The session goes with the query.
Stages ==
  /\ query \in {"ip", "account"} => session = "none"
  /\ query = "permissions" => session = "created"
  /\ closing => query = "none" /\ session = "none"
  /\ session \in {"none", "created", "deleted"} => \A t \in Senders : NotInClose(t)
  /\ session = "dying" => \A t \in Senders \ {World} : NotInClose(t)
  /\ session \in {"dying", "deleted"} => closed

\* One thread closes, and while it does the network thread is in no handler.
Closer ==
  /\ \A t \in Threads : ~ NotInClose(t) => closed
  /\ ~ NotInClose(Net) => netpc \in {"idle", "queries"}

\* Before the session is in the world only the network thread may close its
\* socket, and that keeps it from its queries.
Early == netpc \in {"write", "queries"} /\ query # "none" => ~ closed

\* The pointer: set while the socket is open, and until the closing thread is
\* through; of a deleted session only while the network thread itself closes.
Pointer ==
  /\ session = "created" /\ ~ closed => worldSession
  /\ worldSession /\ closed => \E t \in Threads : ~ NotInClose(t)
  /\ worldSession => session # "none"
  /\ worldSession /\ session = "deleted" => ~ NotInClose(Net)

IInv == /\ Types /\ AuthOnce /\ ReadingStops
        /\ Stages /\ Closer /\ Early /\ Pointer

Requests == {"auth", "ping", "other"}

-----------------------------------------------------------------------------
LEMMA Safe == IInv => NoNullSession /\ NoDeletedSession
BY DEF IInv, Types, Stages, Closer, Early, Pointer, NoNullSession, NoDeletedSession, NetAt, NotInClose

\* What the three steps of a packet do to Pending.
LEMMA Regrouped ==
  ASSUME NEW S, NEW r \in Seq(S), NEW a \in Seq(S), NEW b \in Seq(S), NEW c, c = a \o b
  PROVE  (r \o a) \o b = r \o c
BY ConcatAssociative

LEMMA PendingRead ==
  ASSUME NEW S, NEW r \in Seq(S), NEW c \in Seq(S), NEW n \in 1 .. Len(c)
  PROVE  (r \o SubSeq(c, 1, n)) \o SubSeq(c, n + 1, Len(c)) = r \o c
<1> DEFINE a == SubSeq(c, 1, n)
           b == SubSeq(c, n + 1, Len(c))
<1>1. a \in Seq(S)
  OBVIOUS
<1>2. b \in Seq(S)
  OBVIOUS
<1>3. c = a \o b
  <2>1. a \o b = SubSeq(c, 1, Len(c))
    BY ConcatAdjacentSubSeq
  <2> QED
    BY <2>1, SubSeqFull
<1> HIDE DEF a, b
<1>4. (r \o a) \o b = r \o c
  BY <1>1, <1>2, <1>3, Regrouped
<1> QED
  BY <1>4 DEF a, b

LEMMA PendingHandled ==
  ASSUME NEW r \in Seq(Requests), NEW c \in Seq(Requests), r # <<>>
  PROVE  /\ Tail(r) \in Seq(Requests) /\ r \o c \in Seq(Requests) /\ (r \o c)[1] = Head(r)
         /\ Len(Tail(r) \o c) = Len(r \o c) - 1
         /\ \A i \in DOMAIN (Tail(r) \o c) : (Tail(r) \o c)[i] = (r \o c)[i + 1]
OBVIOUS

LEMMA PendingSent ==
  ASSUME NEW r \in Seq(Requests), NEW c \in Seq(Requests), NEW x \in Requests
  PROVE  r \o Append(c, x) = Append(r \o c, x)
OBVIOUS

-----------------------------------------------------------------------------
(* Steps that change nothing the invariant is about but netpc.             *)

Quiet == UNCHANGED <<closed, closing, closer, query, session, worldSession, receiving>>

LEMMA QuietKept ==
  ASSUME IInv, Quiet,
         netpc' \in {"idle", "drain", "check", "write", "queries", "handler"},
         netpc' \in {"write", "queries"} /\ query # "none" => ~ closed,
         netpc' = netpc \/ NotInClose(Net)
  PROVE  IInv'
<1>1. Types' /\ AuthOnce'
  BY DEF IInv, Quiet, Types, AuthOnce, Pending, receiving
<1>2. ReadingStops' /\ Stages'
  BY DEF IInv, Quiet, ReadingStops, Stages, NotInClose, receiving
<1>3. Closer' /\ Early' /\ Pointer'
  BY DEF IInv, Quiet, Closer, Early, Pointer, NotInClose
<1> QED
  BY <1>1, <1>2, <1>3 DEF IInv

LEMMA UpdateKeeps ==
  ASSUME IInv, Update \/ Dequeue \/ Drained \/ Check \/ NoQueryReady \/ WriteHandlerWrapper
  PROVE  IInv'
<1>1. Quiet
  BY DEF Update, Dequeue, Drained, Check, NoQueryReady, WriteHandlerWrapper, Quiet, flags, owned,
         receiving
<1>2. /\ netpc' \in {"idle", "drain", "check", "write", "queries", "handler"}
      /\ NotInClose(Net) /\ (netpc' \in {"write", "queries"} => ~ closed)
  BY DEF Update, Dequeue, Drained, Check, NoQueryReady, WriteHandlerWrapper, NetAt, Stops
<1> QED
  BY <1>1, <1>2, QuietKept

LEMMA SendersKeep ==
  ASSUME IInv, (\E t \in Senders : BeginSend(t) \/ EndSend(t)) \/ Break \/ UNCHANGED vars
  PROVE  IInv'
<1>1. Quiet /\ netpc' = netpc
  BY DEF BeginSend, EndSend, Break, vars, Quiet, flags, owned, othersVars, receiving
<1>2. CASE netpc \notin {"read", "session"}
  BY <1>1, <1>2, QuietKept DEF IInv, Types, Early
<1>3. CASE netpc \in {"read", "session"}
  <2>1. Types' /\ AuthOnce'
    BY <1>1 DEF IInv, Quiet, Types, AuthOnce, Pending, receiving
  <2>2. ReadingStops' /\ Stages'
    BY <1>1 DEF IInv, Quiet, ReadingStops, Stages, NotInClose, receiving
  <2>3. Closer' /\ Early' /\ Pointer'
    BY <1>1 DEF IInv, Quiet, Closer, Early, Pointer, NotInClose
  <2> QED
    BY <2>1, <2>2, <2>3 DEF IInv
<1> QED
  BY <1>2, <1>3

-----------------------------------------------------------------------------
(* Steps that close the socket, or go on closing it.                       *)

\* The network thread closes; its caller is about to return.
LEMMA NetCloses ==
  ASSUME IInv, Types', AuthOnce', NotInClose(Net), CloseSocket(Net) \/ UNCHANGED flags,
         UNCHANGED <<query, session, worldSession>>, reading' => reading,
         netpc' \in {"idle", "queries"} \/ (netpc' = "write" /\ UNCHANGED flags),
         netpc' \in {"write", "queries"} /\ query # "none" => ~ closed'
  PROVE  IInv'
<1>1. /\ closing' = closing /\ (closed => closed')
      /\ \A t \in Threads : closer'[t] = closer[t] \/ (t = Net /\ ~ closed /\ closed')
      /\ closed' => closed \/ closer'[Net] # "no"
      /\ closer'[Net] # "no" => closed'
  <2>1. CASE CloseSocket(Net) /\ ~ closed
    BY <2>1 DEF IInv, Types, NotInClose, CloseSocket, Threads
  <2>2. CASE CloseSocket(Net) /\ closed
    BY <2>2 DEF NotInClose, CloseSocket
  <2>3. CASE UNCHANGED flags
    BY <2>3 DEF NotInClose, flags
  <2> QED
    BY <2>1, <2>2, <2>3
<1>2. netpc' \notin {"read", "session"}
  OBVIOUS
<1>3. ReadingStops'
  BY <1>1, <1>2 DEF IInv, ReadingStops
<1>4. Stages'
  BY <1>1, ThreadsAssumption DEF IInv, Stages, NotInClose, Threads
<1>5. Closer'
  BY <1>1 DEF IInv, Closer, NotInClose, flags
<1>6. Early' /\ Pointer'
  BY <1>1 DEF IInv, Early, Pointer, Stages, NotInClose, Threads
<1> QED
  BY <1>3, <1>4, <1>5, <1>6 DEF IInv

LEMMA WriteKeeps ==
  ASSUME IInv, (\E n \in Nat : Write(n)) \/ WriteError
  PROVE  IInv'
<1>1. UNCHANGED <<query, session, worldSession, receiving>> /\ NotInClose(Net)
  BY DEF Write, WriteError, owned, HandlingQueue, NetAt
<1>2. (CloseSocket(Net) /\ closing) \/ UNCHANGED flags
  BY DEF Write, WriteError, Popped
<1>3. netpc' \in {"idle", "queries"} \/ (netpc' = "write" /\ UNCHANGED flags)
  <2>1. CASE WriteError
    BY <2>1 DEF WriteError, After
  <2>2. ASSUME NEW n \in Nat, Write(n), n = Len(Head(writeQueue))
        PROVE  netpc' \in {"idle", "queries"} \/ (netpc' = "write" /\ UNCHANGED flags)
    BY <2>2 DEF Write, Popped, After
  <2>3. ASSUME NEW n \in Nat, Write(n), n # Len(Head(writeQueue))
        PROVE  netpc' \in {"idle", "queries"}
    BY <2>3 DEF Write, AsyncProcessQueue, After
  <2> QED
    BY <2>1, <2>2, <2>3
<1>4. netpc' \in {"write", "queries"} /\ query # "none" => ~ closed'
  <2>1. netpc' # "idle" => netpc = "write"
    BY DEF Write, WriteError, AsyncProcessQueue, After, HandlingQueue, NetAt
  <2> QED
    BY <1>2, <2>1 DEF IInv, Early, Stages, flags
<1>5. Types'
  BY <1>1, <1>2, <1>3 DEF IInv, Types, CloseSocket, flags, receiving
<1>6. AuthOnce'
  BY <1>1 DEF IInv, AuthOnce, Pending, receiving
<1> QED
  BY <1>1, <1>2, <1>3, <1>4, <1>5, <1>6, NetCloses DEF receiving

LEMMA ClosingKeeps ==
  ASSUME IInv, NEW t \in Threads, Shutdown(t) \/ OnClose(t)
  PROVE  IInv'
<1>1. /\ UNCHANGED <<closed, closing, query, session, netpc, receiving>>
      /\ closer[t] # "no" /\ (worldSession' => worldSession /\ closer'[t] # "no")
      /\ \A u \in Threads : closer'[u] # "no" => closer[u] # "no"
      /\ \A u \in Threads \ {t} : closer'[u] = closer[u]
      /\ Types'
  <2>1. CASE Shutdown(t)
    BY <2>1 DEF Shutdown, IInv, Types, owned, receiving
  <2>2. CASE OnClose(t)
    BY <2>2, ZenonT(40) DEF OnClose, IInv, Types, receiving
  <2> QED
    BY <2>1, <2>2
<1>2. closed
  BY <1>1 DEF IInv, Closer, NotInClose
<1>3. AuthOnce' /\ ReadingStops'
  BY <1>1 DEF IInv, AuthOnce, Pending, ReadingStops, receiving
<1>4. Stages' /\ Closer' /\ Early'
  BY <1>1 DEF IInv, Stages, Closer, Early, NotInClose, Threads
<1>5. Pointer'
  BY <1>1, <1>2 DEF IInv, Pointer, NotInClose, Threads
<1> QED
  BY <1>1, <1>3, <1>4, <1>5 DEF IInv

LEMMA KickKeeps ==
  ASSUME IInv, NEW t \in Senders, KickPlayer(t) \/ (t = World /\ BeginDelete)
  PROVE  IInv'
<1>1. /\ UNCHANGED <<closing, query, worldSession, netpc, receiving>>
      /\ session = "added" /\ closed' /\ Types'
      /\ session' = "added" \/ (session' = "dying" /\ t = World /\ Unused)
      /\ \A u \in Threads \ {t} : closer'[u] = closer[u]
      /\ (closed /\ closer' = closer) \/ closer'[t] # "no"
  <2>1. CloseSocket(t) /\ UNCHANGED <<query, worldSession, netpc, receiving>>
    BY DEF KickPlayer, BeginDelete, othersVars
  <2>2. /\ session = "added"
        /\ session' = "added" \/ (session' = "dying" /\ t = World /\ Unused)
    BY DEF KickPlayer, BeginDelete
  <2>3. closing' = closing /\ closed'
    BY <2>1 DEF CloseSocket
  <2>4. CASE closed
    BY <2>1, <2>2, <2>3, <2>4 DEF CloseSocket, IInv, Types, receiving
  <2>5. CASE ~ closed
    BY <2>1, <2>2, <2>3, <2>5 DEF CloseSocket, IInv, Types, receiving, Threads
  <2> QED
    BY <2>4, <2>5
<1>2. AuthOnce' /\ ReadingStops'
  BY <1>1 DEF IInv, AuthOnce, Pending, ReadingStops, receiving
<1>3. Stages'
  BY <1>1 DEF IInv, Stages, Unused, NotInClose, Threads
<1>4. Closer'
  BY <1>1, ThreadsAssumption DEF IInv, Closer, NotInClose, Threads
<1>5. Early'
  BY <1>1 DEF IInv, Types, Stages, Early
<1>6. Pointer'
  BY <1>1 DEF IInv, Pointer, NotInClose, Threads
<1> QED
  BY <1>1, <1>2, <1>3, <1>4, <1>5, <1>6 DEF IInv

LEMMA DeleteKeeps ==
  ASSUME IInv, DropSocket \/ EndDelete
  PROVE  IInv'
<1>1. /\ UNCHANGED <<closed, closing, closer, query, worldSession, netpc, receiving>>
      /\ session \in {"added", "dying"} /\ session' = "deleted" /\ Types'
  BY DEF DropSocket, EndDelete, flags, IInv, Types, othersVars, receiving
<1>2. closed /\ \A t \in Senders : NotInClose(t)
  BY DEF DropSocket, EndDelete, IInv, Stages, Unused, IsOpen
<1>3. AuthOnce' /\ ReadingStops'
  BY <1>1 DEF IInv, AuthOnce, Pending, ReadingStops, receiving
<1>4. Stages' /\ Closer' /\ Early'
  BY <1>1, <1>2 DEF IInv, Stages, Closer, Early, NotInClose
<1>5. Pointer'
  BY <1>1, <1>2 DEF IInv, Pointer, NotInClose, Threads
<1> QED
  BY <1>1, <1>3, <1>4, <1>5 DEF IInv

-----------------------------------------------------------------------------
(* The answers of the queries.                                             *)

LEMMA CallbacksKeep ==
  ASSUME IInv, CheckIpCallback \/ HandleAuthSessionCallback \/ LoadSessionPermissionsCallback
  PROVE  IInv'
<1>1. /\ UNCHANGED <<closed, closer, received, client>>
      /\ netpc = "queries" /\ netpc' = "idle" /\ NotInClose(Net) /\ query # "none"
  BY DEF CheckIpCallback, HandleAuthSessionCallback, LoadSessionPermissionsCallback, Refuse,
         DelayedCloseSocket, QueryReady, NetAt, flags, receiving
<1>2. ~ closed /\ ~ closing
  BY <1>1 DEF IInv, Early, Stages
<1>3. \/ /\ query \in {"ip", "account"} /\ query' = "none" /\ UNCHANGED <<session, worldSession>>
         /\ closing' \in BOOLEAN /\ reading' \in BOOLEAN /\ (closing' => ~ reading')
      \/ /\ query = "account" /\ query' = "permissions" /\ session' = "created" /\ worldSession'
         /\ worldSession' = TRUE /\ closing' = closing /\ reading' \in BOOLEAN
      \/ /\ query = "permissions" /\ query' = "none" /\ session' = "added"
         /\ UNCHANGED <<worldSession, closing, reading>>
  <2>1. CASE CheckIpCallback \/ HandleAuthSessionCallback
    BY <1>2, <2>1 DEF CheckIpCallback, HandleAuthSessionCallback, Refuse, DelayedCloseSocket,
                      AsyncRead, IsOpen, QueryReady, flags, receiving, IInv, Types, ReadingStops
  <2>2. CASE LoadSessionPermissionsCallback
    BY <2>2 DEF LoadSessionPermissionsCallback, QueryReady, flags, receiving
  <2> QED
    BY <2>1, <2>2
<1>4. Types' /\ AuthOnce'
  BY <1>1, <1>3, ZenonT(40) DEF IInv, Types, AuthOnce, Pending, Stages
<1>5. ReadingStops' /\ Stages'
  BY <1>1, <1>2, <1>3 DEF IInv, ReadingStops, Stages, NotInClose
<1>6. Closer' /\ Early' /\ Pointer'
  BY <1>1, <1>2, <1>3 DEF IInv, Stages, Closer, Early, Pointer, NotInClose
<1> QED
  BY <1>4, <1>5, <1>6 DEF IInv

-----------------------------------------------------------------------------
(* What the client sends, and how it is read.                              *)

LEMMA ReadKeeps ==
  ASSUME IInv, ReadHandlerInternal
  PROVE  IInv'
<1>1. /\ netpc = "idle" /\ NotInClose(Net) /\ reading /\ reading' = FALSE
      /\ UNCHANGED <<query, session, worldSession>>
  BY DEF ReadHandlerInternal, NetAt, owned
<1>2. CASE CloseSocket(Net) /\ UNCHANGED <<netpc, received, client>>
  <2>1. Types'
    BY <1>1, <1>2 DEF IInv, Types, CloseSocket
  <2>2. AuthOnce'
    BY <1>1, <1>2 DEF IInv, AuthOnce, Pending
  <2> QED
    BY <1>1, <1>2, <2>1, <2>2, NetCloses
<1>3. ASSUME NEW n \in 1 .. Len(client.sent), UNCHANGED flags,
             received' = received \o SubSeq(client.sent, 1, n),
             client' = [client EXCEPT !.sent = SubSeq(@, n + 1, Len(@))],
             netpc' \in {"idle", "read"}
      PROVE  IInv'
  <2>1. /\ client'.sent = SubSeq(client.sent, n + 1, Len(client.sent))
        /\ client'.authed = client.authed /\ client'.left = client.left
        /\ client' = [sent |-> client'.sent, authed |-> client'.authed, left |-> client'.left]
    BY <1>3 DEF IInv, Types
  <2>2. received' \in Seq(Requests) /\ client'.sent \in Seq(Requests) /\ Pending' = Pending
    <3>1. received \in Seq(Requests) /\ client.sent \in Seq(Requests)
      BY DEF IInv, Types, Requests
    <3>2. SubSeq(client.sent, 1, n) \in Seq(Requests)
      BY <3>1
    <3>3. /\ received \o SubSeq(client.sent, 1, n) \in Seq(Requests)
          /\ SubSeq(client.sent, n + 1, Len(client.sent)) \in Seq(Requests)
      BY <3>1, <3>2
    <3>4. (received \o SubSeq(client.sent, 1, n)) \o SubSeq(client.sent, n + 1, Len(client.sent))
            = received \o client.sent
      BY <3>1, PendingRead, Zenon
    <3>5. Pending' = received' \o client'.sent
      BY DEF Pending
    <3> QED
      BY <1>3, <2>1, <3>3, <3>4, <3>5 DEF Pending
  <2>3. Types'
    BY <1>1, <1>3, <2>1, <2>2 DEF IInv, Types, flags, Requests
  <2>4. AuthOnce'
    BY <1>1, <2>1, <2>2 DEF IInv, AuthOnce
  <2>5. ReadingStops' /\ Stages'
    BY <1>1, <1>3 DEF IInv, ReadingStops, Stages, NotInClose, flags
  <2>6. Closer' /\ Early' /\ Pointer'
    BY <1>1, <1>3 DEF IInv, Closer, Early, Pointer, NotInClose, flags
  <2> QED
    BY <2>3, <2>4, <2>5, <2>6 DEF IInv
<1> QED
  BY <1>2, <1>3 DEF ReadHandlerInternal

LEMMA AllReadKeeps ==
  ASSUME IInv, AllRead \/ LockSession
  PROVE  IInv'
<1>1. /\ UNCHANGED <<flags, received, client, query, session, worldSession>>
      /\ netpc = "read" /\ NotInClose(Net)
      /\ \/ netpc' = "idle" /\ reading' \in BOOLEAN /\ (reading' => ~ closing)
         \/ netpc' = "session" /\ reading' = reading /\ received # <<>>
  BY DEF AllRead, LockSession, NetAt, AsyncRead, IsOpen, receiving, owned, IInv, Types
<1>2. Types' /\ AuthOnce'
  BY <1>1 DEF IInv, Types, AuthOnce, Pending, flags
<1>3. ReadingStops' /\ Stages'
  BY <1>1 DEF IInv, ReadingStops, Stages, NotInClose, flags
<1>4. Closer' /\ Early' /\ Pointer'
  BY <1>1 DEF IInv, Closer, Early, Pointer, NotInClose, flags
<1> QED
  BY <1>2, <1>3, <1>4 DEF IInv

\* A packet that has been handled is not pending any more.
LEMMA HandledOnce ==
  ASSUME IInv, received # <<>>, received' = Tail(received), client' = client
  PROVE  /\ received' \in Seq(Requests)
         /\ 1 \in DOMAIN Pending /\ Pending[1] = Head(received)
         /\ \A i \in DOMAIN Pending' : /\ i \in Nat /\ i + 1 \in DOMAIN Pending /\ i + 1 # 1
                                      /\ Pending'[i] = Pending[i + 1]
<1>1. received \in Seq(Requests) /\ client.sent \in Seq(Requests)
  BY DEF IInv, Types, Requests
<1>2. Pending = received \o client.sent /\ Pending' = Tail(received) \o client.sent
  BY DEF Pending
<1>3. /\ Tail(received) \in Seq(Requests) /\ Pending \in Seq(Requests)
      /\ Pending' \in Seq(Requests) /\ Pending[1] = Head(received)
      /\ Len(Pending') = Len(Pending) - 1
      /\ \A i \in DOMAIN Pending' : Pending'[i] = Pending[i + 1]
  BY <1>1, <1>2, PendingHandled
<1>4. DOMAIN Pending = 1 .. Len(Pending) /\ DOMAIN Pending' = 1 .. Len(Pending) - 1
      /\ Len(Pending) \in Nat \ {0}
  <2>1. Len(Pending') \in Nat /\ Len(Pending) \in Nat
    BY <1>3
  <2> QED
    BY <1>3, <2>1
<1> QED
  BY <1>3, <1>4

\* What is left pending is still at most one authentication, and none if there
\* was none.
LEMMA HandledKeeps ==
  ASSUME IInv, received # <<>>, received' = Tail(received), client' = client
  PROVE  /\ \A i, j \in DOMAIN Pending' : Pending'[i] = "auth" /\ Pending'[j] = "auth" => i = j
         /\ (\A i \in DOMAIN Pending : Pending[i] # "auth") \/ Head(received) = "auth" =>
              \A i \in DOMAIN Pending' : Pending'[i] # "auth"
<1>1. \A i, j \in DOMAIN Pending : Pending[i] = "auth" /\ Pending[j] = "auth" => i = j
  BY DEF IInv, AuthOnce
<1> QED
  BY <1>1, HandledOnce

LEMMA AuthKeeps ==
  ASSUME IInv, HandleAuthSession
  PROVE  IInv'
<1>1. /\ UNCHANGED <<flags, client, session, worldSession, reading>> /\ query' = "account"
      /\ netpc = "read" /\ netpc' = "idle" /\ NotInClose(Net)
      /\ received # <<>> /\ received' = Tail(received) /\ Head(received) = "auth"
  BY DEF HandleAuthSession, NetAt
<1>2. /\ client.authed /\ query \notin {"account", "permissions"} /\ session = "none"
      /\ ~ reading /\ ~ closing
  <2>1. ~ \A i \in DOMAIN Pending : Pending[i] # "auth"
    BY <1>1, HandledOnce
  <2> QED
    BY <1>1, <2>1 DEF IInv, AuthOnce, ReadingStops
<1>3. Types'
  BY <1>1, HandledOnce DEF IInv, Types, Requests, flags
<1>4. AuthOnce'
  BY <1>1, <1>2, HandledKeeps DEF AuthOnce
<1>5. ReadingStops' /\ Stages'
  BY <1>1, <1>2 DEF IInv, ReadingStops, Stages, NotInClose, flags
<1>6. Closer' /\ Early' /\ Pointer'
  BY <1>1 DEF IInv, Closer, Early, Pointer, NotInClose, flags
<1> QED
  BY <1>3, <1>4, <1>5, <1>6 DEF IInv

LEMMA DataKeeps ==
  ASSUME IInv, ReadDataHandler
  PROVE  IInv'
<1>1. /\ UNCHANGED <<client, query, session, worldSession, reading>>
      /\ netpc = "session" /\ NotInClose(Net)
      /\ received # <<>> /\ received' = Tail(received)
      /\ \/ netpc' = "read" /\ UNCHANGED flags
         \/ netpc' = "idle" /\ CloseSocket(Net)
  BY DEF ReadDataHandler, NetAt, IInv, ReadingStops
<1>2. Types'
  <2>1. received' \in Seq(Requests)
    BY <1>1, HandledOnce
  <2>2. CASE UNCHANGED flags
    BY <1>1, <2>1, <2>2 DEF IInv, Types, Requests, flags
  <2>3. CASE CloseSocket(Net)
    BY <1>1, <2>1, <2>3 DEF IInv, Types, Requests, CloseSocket
  <2> QED
    BY <1>1, <2>2, <2>3
<1>3. AuthOnce'
  BY <1>1, HandledKeeps DEF IInv, AuthOnce
<1>4. CASE netpc' = "idle" /\ CloseSocket(Net)
  BY <1>1, <1>2, <1>3, <1>4, NetCloses
<1>5. CASE netpc' = "read" /\ UNCHANGED flags
  <2>1. ReadingStops' /\ Stages'
    BY <1>1, <1>5 DEF IInv, ReadingStops, Stages, NotInClose, flags
  <2>2. Closer' /\ Early' /\ Pointer'
    BY <1>1, <1>5 DEF IInv, Closer, Early, Pointer, NotInClose, flags
  <2> QED
    BY <1>2, <1>3, <2>1, <2>2 DEF IInv
<1> QED
  BY <1>1, <1>4, <1>5

LEMMA ClientKeeps ==
  ASSUME IInv, NEW request \in Requests, ClientSends(request)
  PROVE  IInv'
<1>1. /\ UNCHANGED <<flags, query, session, worldSession, reading, received, netpc>>
      /\ client'.sent = Append(client.sent, request) /\ client'.authed
      /\ client' = [sent |-> client'.sent, authed |-> client'.authed, left |-> client'.left]
      /\ client.authed => request # "auth"
  BY DEF ClientSends, owned, IInv, Types
<1>2. received \in Seq(Requests) /\ client.sent \in Seq(Requests)
  BY DEF IInv, Types, Requests
<1>3. Pending' = Append(Pending, request) /\ Pending \in Seq(Requests)
  <2>1. Pending' = received \o Append(client.sent, request)
    BY <1>1 DEF Pending
  <2> QED
    BY <1>2, <2>1, PendingSent DEF Pending
<1>4. Types'
  BY <1>1, <1>2 DEF IInv, Types, Requests, flags
<1>5. AuthOnce'
  <2>1. /\ DOMAIN Pending' = 1 .. Len(Pending) + 1 /\ DOMAIN Pending = 1 .. Len(Pending)
        /\ Len(Pending) \in Nat
        /\ \A i \in DOMAIN Pending : Pending'[i] = Pending[i]
        /\ Pending'[Len(Pending) + 1] = request
    BY <1>3
  <2>2. CASE client.authed
    BY <1>1, <2>1, <2>2, SMTT(30) DEF IInv, AuthOnce
  <2>3. CASE ~ client.authed
    BY <1>1, <2>1, <2>3 DEF IInv, AuthOnce
  <2> QED
    BY <2>2, <2>3
<1>6. ReadingStops' /\ Stages'
  BY <1>1 DEF IInv, ReadingStops, Stages, NotInClose, flags
<1>7. Closer' /\ Early' /\ Pointer'
  BY <1>1 DEF IInv, Closer, Early, Pointer, NotInClose, flags
<1> QED
  BY <1>4, <1>5, <1>6, <1>7 DEF IInv

-----------------------------------------------------------------------------
LEMMA Starts == Init => IInv
<1> SUFFICES ASSUME Init PROVE IInv
  OBVIOUS
<1>1. Types /\ Pending = <<>>
  <2>1. client = [sent |-> <<>>, authed |-> FALSE, left |-> MaxRequests] /\ received = <<>>
    BY DEF Init
  <2>2. received \in Seq(Requests) /\ client.sent \in Seq(Requests) /\ Pending = <<>>
    BY <2>1 DEF Pending
  <2>3. client = [sent |-> client.sent, authed |-> client.authed, left |-> client.left]
    BY <2>1
  <2>4. closer \in [Threads -> {"no", "shutdown", "onclose"}]
    BY DEF Init
  <2> QED
    BY <2>2, <2>3, <2>4 DEF Init, Types, Requests
<1>2. AuthOnce
  BY <1>1 DEF Init, AuthOnce
<1> QED
  BY <1>1, <1>2 DEF Init, IInv, ReadingStops, Stages, Closer, Early, Pointer, NotInClose, Threads

LEMMA Steps == IInv /\ [Next]_vars => IInv'
<1> SUFFICES ASSUME IInv, [Next]_vars PROVE IInv'
  OBVIOUS
<1>1. CASE NetStep
  BY <1>1, UpdateKeeps, WriteKeeps, CallbacksKeep, AllReadKeeps, AuthKeeps, DataKeeps
     DEF NetStep, WriteSome, Callbacks
<1>2. CASE \E t \in Senders : BeginSend(t) \/ EndSend(t) \/ KickPlayer(t)
  BY <1>2, SendersKeep, KickKeeps
<1>3. CASE BeginDelete \/ DropSocket \/ EndDelete
  BY <1>3, KickKeeps, DeleteKeeps DEF Senders
<1>4. CASE Update \/ WriteHandlerWrapper \/ ReadHandlerInternal \/ Closing
  BY <1>4, UpdateKeeps, ReadKeeps, ClosingKeeps DEF Closing
<1>5. CASE \E request \in Requests : ClientSends(request)
  BY <1>5, ClientKeeps
<1>6. CASE Break \/ Terminated \/ UNCHANGED vars
  BY <1>6, SendersKeep DEF Terminated
<1> QED
  BY <1>1, <1>2, <1>3, <1>4, <1>5, <1>6 DEF Next, Requests

\* LoadSessionPermissionsCallback, which reads _worldSession without the lock,
\* never finds it null, however many threads may close the socket, for a client
\* that authenticates once.
THEOREM CallbackHasSession == Spec => []NoNullSession
<1>1. Spec => []IInv
  BY Starts, Steps, PTL DEF Spec
<1> QED
  BY <1>1, Safe, PTL

\* What ReadDataHandler finds in _worldSession under the lock is no deleted
\* session, whichever threads close the socket first and second.
THEOREM ReaderHasSession == Spec => []NoDeletedSession
<1>1. Spec => []IInv
  BY Starts, Steps, PTL DEF Spec
<1> QED
  BY <1>1, Safe, PTL

-----------------------------------------------------------------------------
(* Cutting a sequence into pieces.                                         *)

\* The part of s behind a, up to b.
Piece(s, a, b) == SubSeq(s, a + 1, b)

\* p is the part of length n of s behind a.
IsPiece(S, p, s, a, n) ==
  p \in Seq(S) /\ Len(p) = n /\ \A i \in 1 .. n : p[i] = s[a + i]

\* x is what the first n elements of p are, y what the others are.
Parts(p, n, x, y) == SubSeq(p, 1, n) = x /\ SubSeq(p, n + 1, Len(p)) = y

LEMMA PieceIs ==
  ASSUME NEW S, NEW s \in Seq(S), NEW a \in Nat, NEW b \in Nat, a <= b, b <= Len(s)
  PROVE  IsPiece(S, Piece(s, a, b), s, a, b - a)
<1>1. \A i \in a + 1 .. b : s[i] \in S
  OBVIOUS
<1>2. a + 1 \in Int /\ b \in Int
  OBVIOUS
<1>3. /\ SubSeq(s, a + 1, b) \in Seq(S)
      /\ Len(SubSeq(s, a + 1, b)) = IF a + 1 <= b THEN b - (a + 1) + 1 ELSE 0
      /\ \A i \in 1 .. b - (a + 1) + 1 : SubSeq(s, a + 1, b)[i] = s[a + 1 + i - 1]
  BY <1>1, <1>2, SubSeqProperties
<1> QED
  BY <1>3 DEF Piece, IsPiece

LEMMA SamePiece ==
  ASSUME NEW S, NEW p, NEW q, NEW s, NEW a, NEW n,
         IsPiece(S, p, s, a, n), IsPiece(S, q, s, a, n)
  PROVE  p = q
<1>1. p \in Seq(S) /\ q \in Seq(S) /\ Len(p) = Len(q) /\ \A i \in 1 .. Len(p) : p[i] = q[i]
  BY DEF IsPiece
<1> QED
  BY <1>1, SeqEqual

\* Adjacent pieces.
LEMMA PiecesJoin ==
  ASSUME NEW S, NEW s \in Seq(S), NEW a \in Nat, NEW b \in Nat, NEW c \in Nat,
         a <= b, b <= c, c <= Len(s)
  PROVE  Piece(s, a, b) \o Piece(s, b, c) = Piece(s, a, c)
<1>1. /\ a + 1 \in 1 .. Len(s) + 1 /\ b \in (a + 1) - 1 .. Len(s) /\ c \in b .. Len(s)
  OBVIOUS
<1> QED
  BY <1>1, ConcatAdjacentSubSeq DEF Piece

\* A piece is cut in two.
LEMMA PieceCut ==
  ASSUME NEW S, NEW s \in Seq(S), NEW a \in Nat, NEW b \in Nat, NEW e \in Nat,
         a <= e, e <= b, b <= Len(s)
  PROVE  Parts(Piece(s, a, b), e - a, Piece(s, a, e), Piece(s, e, b))
<1> DEFINE p == Piece(s, a, b)
           n == e - a
           m == b - a
<1>1. /\ n \in Nat /\ m \in Nat /\ a <= b /\ e <= Len(s)
      /\ n <= m /\ e - a = n /\ b - e = m - n /\ m = b - a
  OBVIOUS
<1>2. IsPiece(S, p, s, a, m)
  BY <1>1, PieceIs
<1> HIDE DEF n, m, p
<1>3. p \in Seq(S) /\ Len(p) = m /\ \A i \in 1 .. m : p[i] = s[a + i]
  BY <1>2 DEF IsPiece
<1>4. /\ SubSeq(p, 1, n) = Piece(p, 0, n)
      /\ SubSeq(p, n + 1, Len(p)) = Piece(p, n, m)
  BY <1>3 DEF Piece
<1>5. IsPiece(S, Piece(p, 0, n), p, 0, n - 0) /\ IsPiece(S, Piece(p, n, m), p, n, m - n)
  <2>1. /\ 0 \in Nat /\ 0 <= n /\ n <= Len(p) /\ m \in Nat /\ n <= m /\ m <= Len(p)
        /\ p \in Seq(S) /\ n \in Nat
    BY <1>1, <1>3
  <2>2. IsPiece(S, Piece(p, 0, n), p, 0, n - 0)
    BY <2>1, PieceIs, Zenon
  <2> QED
    BY <2>1, <2>2, PieceIs
<1>6. IsPiece(S, Piece(s, a, e), s, a, e - a) /\ IsPiece(S, Piece(s, e, b), s, e, b - e)
  BY <1>1, PieceIs
<1>7. Piece(p, 0, n) = Piece(s, a, e)
  <2>1. \A i \in 1 .. n : p[0 + i] = s[a + i]
    BY <1>1, <1>3, SMTT(30)
  <2>2. IsPiece(S, Piece(p, 0, n), p, 0, n) /\ IsPiece(S, Piece(s, a, e), s, a, n)
    BY <1>1, <1>5, <1>6
  <2>3. IsPiece(S, Piece(p, 0, n), s, a, n)
    BY <2>1, <2>2 DEF IsPiece
  <2> QED
    BY <2>2, <2>3, SamePiece
<1>8. Piece(p, n, m) = Piece(s, e, b)
  <2>1. ASSUME NEW i \in 1 .. m - n PROVE p[n + i] = s[e + i]
    <3>1. n + i \in 1 .. m /\ a + (n + i) = e + i
      BY <1>1
    <3> QED
      BY <1>3, <3>1
  <2>2. IsPiece(S, Piece(p, n, m), p, n, m - n) /\ IsPiece(S, Piece(s, e, b), s, e, m - n)
    BY <1>1, <1>5, <1>6
  <2>3. IsPiece(S, Piece(p, n, m), s, e, m - n)
    BY <2>1, <2>2 DEF IsPiece
  <2> QED
    BY <2>2, <2>3, SamePiece
<1> QED
  BY <1>4, <1>7, <1>8 DEF p, n, Parts

\* More is added behind the piece.
LEMMA PieceKept ==
  ASSUME NEW S, NEW s \in Seq(S), NEW t \in Seq(S), NEW a \in Nat, NEW b \in Nat,
         a <= b, b <= Len(s)
  PROVE  Piece(s \o t, a, b) = Piece(s, a, b)
<1> DEFINE u == s \o t
<1>1. u \in Seq(S) /\ b <= Len(u) /\ \A i \in 1 .. b - a : u[a + i] = s[a + i]
  OBVIOUS
<1> HIDE DEF u
<1>2. IsPiece(S, Piece(u, a, b), u, a, b - a) /\ IsPiece(S, Piece(s, a, b), s, a, b - a)
  BY <1>1, PieceIs
<1>3. IsPiece(S, Piece(u, a, b), s, a, b - a)
  BY <1>1, <1>2 DEF IsPiece
<1>4. Piece(u, a, b) = Piece(s, a, b)
  BY <1>2, <1>3, SamePiece
<1> QED
  BY <1>4 DEF u

LEMMA PieceAdded ==
  ASSUME NEW S, NEW s \in Seq(S), NEW t \in Seq(S)
  PROVE  Piece(s \o t, Len(s), Len(s) + Len(t)) = t
<1> DEFINE u == s \o t
           m == Len(s)  n == Len(t)  e == m + n
<1>1. /\ u \in Seq(S) /\ Len(u) = e /\ m \in Nat /\ n \in Nat /\ e \in Nat
      /\ m <= e /\ e <= Len(u) /\ e - m = n
      /\ \A i \in 1 .. n : u[m + i] = t[i]
  OBVIOUS
<1>2. n = Len(t)
  OBVIOUS
<1> HIDE DEF u, m, n, e
<1>3. IsPiece(S, Piece(u, m, e), u, m, e - m)
  BY <1>1, PieceIs
<1>4. IsPiece(S, t, u, m, n)
  BY <1>1, <1>2 DEF IsPiece
<1>5. IsPiece(S, Piece(u, m, e), u, m, n)
  BY <1>1, <1>3
<1>6. Piece(u, m, e) = t
  BY <1>4, <1>5, SamePiece
<1> QED
  BY <1>6 DEF u, m, n, e

-----------------------------------------------------------------------------
\* The sequences in q are adjacent pieces of s, cut at the places in c.
IsCut(S, q, s, c) ==
  /\ c \in Seq(Nat) /\ Len(c) = Len(q) + 1 /\ q \in Seq(Seq(S))
  /\ \A j, k \in 1 .. Len(c) : j <= k => c[j] <= c[k]
  /\ c[Len(c)] <= Len(s)
  /\ \A k \in 1 .. Len(q) : q[k] = Piece(s, c[k], c[k + 1])

LEMMA CutEnds ==
  ASSUME NEW S, NEW s \in Seq(S), NEW q, NEW c, IsCut(S, q, s, c)
  PROVE  /\ Len(q) \in Nat /\ Len(c) \in Nat /\ Len(c) = Len(q) + 1
         /\ c[1] \in Nat /\ c[Len(c)] \in Nat /\ c[1] <= c[Len(c)] /\ c[Len(c)] <= Len(s)
         /\ \A k \in 1 .. Len(c) : c[k] \in Nat /\ c[k] <= c[Len(c)] /\ c[1] <= c[k]
BY DEF IsCut

\* The first piece is taken away.
LEMMA CutTail ==
  ASSUME NEW S, NEW s \in Seq(S), NEW q, NEW c, IsCut(S, q, s, c), q # <<>>
  PROVE  /\ IsCut(S, Tail(q), s, Tail(c))
         /\ Tail(c)[1] = c[2] /\ Tail(c)[Len(Tail(c))] = c[Len(c)]
         /\ Head(q) = Piece(s, c[1], c[2]) /\ c[2] \in Nat /\ c[1] <= c[2]
         /\ c[2] <= c[Len(c)]
<1>1. Len(q) \in Nat \ {0} /\ Len(c) = Len(q) + 1 /\ c \in Seq(Nat) /\ q \in Seq(Seq(S))
  BY DEF IsCut
<1>2. /\ Tail(c) \in Seq(Nat) /\ Len(Tail(c)) = Len(q)
      /\ \A k \in 1 .. Len(q) : Tail(c)[k] = c[k + 1]
  BY <1>1
<1>3. /\ Tail(q) \in Seq(Seq(S)) /\ Len(Tail(q)) = Len(q) - 1
      /\ \A k \in 1 .. Len(q) - 1 : Tail(q)[k] = q[k + 1]
  BY <1>1
<1>4. /\ \A j, k \in 1 .. Len(c) : j <= k => c[j] <= c[k]
      /\ c[Len(c)] <= Len(s)
      /\ \A k \in 1 .. Len(q) : q[k] = Piece(s, c[k], c[k + 1])
  BY DEF IsCut
<1>5. \A j, k \in 1 .. Len(q) : j <= k => Tail(c)[j] <= Tail(c)[k]
  <2> SUFFICES ASSUME NEW j \in 1 .. Len(q), NEW k \in 1 .. Len(q), j <= k
               PROVE  Tail(c)[j] <= Tail(c)[k]
    OBVIOUS
  <2>1. j + 1 \in 1 .. Len(c) /\ k + 1 \in 1 .. Len(c) /\ j + 1 <= k + 1
    BY <1>1
  <2>2. c[j + 1] <= c[k + 1]
    BY <1>4, <2>1
  <2> QED
    BY <1>2, <2>2
<1>6. Tail(c)[Len(q)] = c[Len(c)] /\ Tail(c)[1] = c[2]
  BY <1>1, <1>2
<1>7. ASSUME NEW k \in 1 .. Len(q) - 1
      PROVE  Tail(q)[k] = Piece(s, Tail(c)[k], Tail(c)[k + 1])
  <2>1. k \in 1 .. Len(q) /\ k + 1 \in 1 .. Len(q)
    BY <1>1
  <2>2. q[k + 1] = Piece(s, c[k + 1], c[(k + 1) + 1])
    BY <1>4, <2>1
  <2> QED
    BY <1>2, <1>3, <2>1, <2>2
<1>8. IsCut(S, Tail(q), s, Tail(c))
  <2> DEFINE n == Len(q)  r == Tail(q)  b == Tail(c)
  <2>1. /\ b \in Seq(Nat) /\ Len(b) = n /\ r \in Seq(Seq(S)) /\ Len(r) = n - 1
        /\ \A j, k \in 1 .. n : j <= k => b[j] <= b[k]
        /\ b[n] <= Len(s) /\ n \in Nat
        /\ \A k \in 1 .. n - 1 : r[k] = Piece(s, b[k], b[k + 1])
    BY <1>1, <1>2, <1>3, <1>4, <1>5, <1>6, <1>7
  <2> HIDE DEF n, r, b
  <2>2. Len(b) = Len(r) + 1
    BY <2>1
  <2>3. IsCut(S, r, s, b)
    BY <2>1, <2>2 DEF IsCut
  <2> QED
    BY <2>3 DEF r, b
<1>9. Head(q) = Piece(s, c[1], c[2])
  <2>1. Head(q) = q[1] /\ 1 \in 1 .. Len(q)
    BY <1>1
  <2>2. q[1] = Piece(s, c[1], c[1 + 1])
    BY <1>4, <2>1
  <2> QED
    BY <2>1, <2>2
<1> QED
  BY <1>1, <1>2, <1>4, <1>6, <1>8, <1>9

\* A piece is put behind the others.
LEMMA CutAppend ==
  ASSUME NEW S, NEW s \in Seq(S), NEW q, NEW c, IsCut(S, q, s, c),
         NEW e \in Nat, c[Len(c)] <= e, e <= Len(s)
  PROVE  /\ IsCut(S, Append(q, Piece(s, c[Len(c)], e)), s, Append(c, e))
         /\ Append(c, e)[1] = c[1] /\ Append(c, e)[Len(Append(c, e))] = e
<1> DEFINE p == Piece(s, c[Len(c)], e)
           n == Len(q)
<1>1. n \in Nat /\ Len(c) = n + 1 /\ c \in Seq(Nat) /\ q \in Seq(Seq(S)) /\ c[Len(c)] \in Nat
  BY DEF IsCut
<1>2. p \in Seq(S)
  <2>1. IsPiece(S, p, s, c[Len(c)], e - c[Len(c)])
    BY <1>1, PieceIs
  <2> QED
    BY <2>1 DEF IsPiece
<1>3. p = Piece(s, c[n + 1], e)
  BY <1>1
<1> HIDE DEF p
<1>4. /\ Append(q, p) \in Seq(Seq(S)) /\ Len(Append(q, p)) = n + 1
      /\ \A k \in 1 .. n : Append(q, p)[k] = q[k]
      /\ Append(q, p)[n + 1] = p
  BY <1>1, <1>2
<1>5. /\ Append(c, e) \in Seq(Nat) /\ Len(Append(c, e)) = n + 2
      /\ \A k \in 1 .. n + 1 : Append(c, e)[k] = c[k]
      /\ Append(c, e)[n + 2] = e
  BY <1>1
<1>6. /\ \A j, k \in 1 .. n + 1 : j <= k => c[j] <= c[k]
      /\ \A k \in 1 .. n + 1 : c[k] \in Nat /\ c[k] <= e
      /\ \A k \in 1 .. n : q[k] = Piece(s, c[k], c[k + 1])
  <2>1. /\ \A j, k \in 1 .. n + 1 : j <= k => c[j] <= c[k]
        /\ \A k \in 1 .. n : q[k] = Piece(s, c[k], c[k + 1])
    BY <1>1 DEF IsCut
  <2>2. ASSUME NEW k \in 1 .. n + 1 PROVE c[k] \in Nat /\ c[k] <= e
    <3>1. n + 1 \in 1 .. n + 1 /\ k <= n + 1 /\ c[n + 1] <= e /\ c[n + 1] \in Nat
      BY <1>1
    <3>2. c[k] \in Nat
      BY <1>1
    <3> QED
      BY <2>1, <3>1, <3>2
  <2> QED
    BY <2>1, <2>2
<1> HIDE DEF n
<1>7. \A j, k \in 1 .. n + 2 : j <= k => Append(c, e)[j] <= Append(c, e)[k]
  BY <1>1, <1>5, <1>6
<1>8. ASSUME NEW k \in 1 .. n + 1
      PROVE  Append(q, p)[k] = Piece(s, Append(c, e)[k], Append(c, e)[k + 1])
  <2>1. CASE k \in 1 .. n
    <3>1. k \in 1 .. n + 1 /\ k + 1 \in 1 .. n + 1
      BY <1>1, <2>1
    <3>2. Append(q, p)[k] = q[k] /\ Append(c, e)[k] = c[k] /\ Append(c, e)[k + 1] = c[k + 1]
      BY <1>4, <1>5, <2>1, <3>1
    <3> QED
      BY <1>6, <2>1, <3>2
  <2>2. CASE k = n + 1
    <3>1. k + 1 = n + 2
      BY <1>1, <2>2
    <3>2. Append(q, p)[k] = p /\ Append(c, e)[k] = c[n + 1] /\ Append(c, e)[k + 1] = e
      BY <1>4, <1>5, <2>2, <3>1
    <3> QED
      BY <1>3, <3>2
  <2>3. k \in 1 .. n \/ k = n + 1
    BY <1>1
  <2> QED
    BY <2>1, <2>2, <2>3, Zenon
<1>9. IsCut(S, Append(q, p), s, Append(c, e))
  <2> DEFINE r == Append(q, p)  b == Append(c, e)
  <2>1. /\ b \in Seq(Nat) /\ Len(b) = n + 2 /\ r \in Seq(Seq(S)) /\ Len(r) = n + 1
        /\ \A j, k \in 1 .. n + 2 : j <= k => b[j] <= b[k]
        /\ b[n + 2] <= Len(s) /\ n \in Nat
        /\ \A k \in 1 .. n + 1 : r[k] = Piece(s, b[k], b[k + 1])
    BY <1>1, <1>4, <1>5, <1>7, <1>8
  <2> HIDE DEF r, b
  <2>2. Len(b) = Len(r) + 1
    BY <2>1
  <2>3. IsCut(S, r, s, b)
    BY <2>1, <2>2 DEF IsCut
  <2> QED
    BY <2>3 DEF r, b
<1>10. Append(c, e)[1] = c[1] /\ Append(c, e)[Len(Append(c, e))] = e
  BY <1>1, <1>5
<1> QED
  BY <1>9, <1>10 DEF p

\* A part of the first piece is taken away.
LEMMA CutHead ==
  ASSUME NEW S, NEW s \in Seq(S), NEW q, NEW c, IsCut(S, q, s, c), q # <<>>,
         NEW e \in Nat, c[1] <= e, e <= c[2]
  PROVE  \E b : /\ IsCut(S, <<Piece(s, e, c[2])>> \o Tail(q), s, b)
                /\ b[1] = e /\ b[Len(b)] = c[Len(c)]
<1> DEFINE p == Piece(s, e, c[2])
           r == <<p>> \o Tail(q)
           b == [c EXCEPT ![1] = e]
           n == Len(q)
<1>1. n \in Nat \ {0} /\ Len(c) = n + 1 /\ c \in Seq(Nat) /\ q \in Seq(Seq(S)) /\ c[2] \in Nat
  BY DEF IsCut
<1>2. p \in Seq(S)
  <2>1. c[2] <= Len(s)
    BY CutTail, CutEnds
  <2>2. IsPiece(S, p, s, e, c[2] - e)
    BY <1>1, <2>1, PieceIs
  <2> QED
    BY <2>2 DEF IsPiece
<1> HIDE DEF p
<1>3. /\ r \in Seq(Seq(S)) /\ Len(r) = n /\ r[1] = p
      /\ \A k \in 2 .. n : r[k] = q[k]
  BY <1>1, <1>2
<1>4. /\ b \in Seq(Nat) /\ Len(b) = n + 1 /\ b[1] = e
      /\ \A k \in 2 .. n + 1 : b[k] = c[k]
  BY <1>1
<1>5. /\ \A j, k \in 1 .. n + 1 : j <= k => c[j] <= c[k]
      /\ c[Len(c)] <= Len(s)
      /\ \A k \in 1 .. n : q[k] = Piece(s, c[k], c[k + 1])
      /\ \A k \in 1 .. n + 1 : c[k] \in Nat
  BY <1>1 DEF IsCut
<1> HIDE DEF n, r, b
<1>6. \A j, k \in 1 .. n + 1 : j <= k => b[j] <= b[k]
  <2> SUFFICES ASSUME NEW j \in 1 .. n + 1, NEW k \in 1 .. n + 1, j <= k PROVE b[j] <= b[k]
    OBVIOUS
  <2>1. CASE j = 1 /\ k = 1
    BY <1>4, <2>1
  <2>2. CASE j = 1 /\ k # 1
    <3>1. c[2] <= c[k] /\ b[k] = c[k] /\ c[k] \in Nat
      BY <1>1, <1>4, <1>5, <2>2
    <3> QED
      BY <1>1, <1>4, <2>2, <3>1
  <2>3. CASE j # 1
    BY <1>1, <1>4, <1>5, <2>3
  <2> QED
    BY <2>1, <2>2, <2>3
<1>7. ASSUME NEW k \in 1 .. n
      PROVE  r[k] = Piece(s, b[k], b[k + 1])
  <2>1. CASE k = 1
    <3>1. b[1 + 1] = c[2]
      BY <1>1, <1>4
    <3> QED
      BY <1>3, <1>4, <2>1, <3>1 DEF p
  <2>2. CASE k # 1
    BY <1>1, <1>3, <1>4, <1>5, <2>2
  <2> QED
    BY <2>1, <2>2
<1>8. b[Len(b)] = c[Len(c)]
  BY <1>1, <1>4
<1>9. IsCut(S, r, s, b)
  BY <1>1, <1>3, <1>4, <1>5, <1>6, <1>7, <1>8 DEF IsCut
<1> QED
  BY <1>4, <1>8, <1>9 DEF r, p

\* More is added behind s.
LEMMA CutKept ==
  ASSUME NEW S, NEW s \in Seq(S), NEW t \in Seq(S), NEW q, NEW c, IsCut(S, q, s, c)
  PROVE  IsCut(S, q, s \o t, c)
<1>1. ASSUME NEW k \in 1 .. Len(q) PROVE Piece(s \o t, c[k], c[k + 1]) = Piece(s, c[k], c[k + 1])
  <2>1. /\ Len(q) \in Nat /\ k \in 1 .. Len(c) /\ k + 1 \in 1 .. Len(c) /\ k <= k + 1
        /\ Len(c) \in 1 .. Len(c) /\ k + 1 <= Len(c)
    BY DEF IsCut
  <2>2. c[k] <= c[k + 1]
    BY <2>1 DEF IsCut
  <2>3. /\ c[k] \in Nat /\ c[k + 1] \in Nat /\ c[k + 1] <= c[Len(c)] /\ c[Len(c)] <= Len(s)
        /\ c[Len(c)] \in Nat /\ Len(s) \in Nat
    BY <2>1, CutEnds
  <2>4. c[k + 1] <= Len(s)
    BY <2>3
  <2> QED
    BY <2>2, <2>3, <2>4, PieceKept
<1>2. Len(s) <= Len(s \o t) /\ Len(s) \in Nat /\ Len(s \o t) \in Nat
  OBVIOUS
<1>3. c[Len(c)] <= Len(s \o t)
  <2>1. c[Len(c)] \in Nat /\ c[Len(c)] <= Len(s)
    BY CutEnds
  <2> QED
    BY <1>2, <2>1
<1> QED
  BY <1>1, <1>3 DEF IsCut

-----------------------------------------------------------------------------
\* What is sent, the buffers that are queued, the buffer that is filled and the
\* packets that wait are, one behind the other, all that was accepted.
Flow(S, s, sent, w, m, q) ==
  \E c, d : /\ IsCut(S, w, s, c) /\ IsCut(S, q, s, d)
            /\ sent = Piece(s, 0, c[1])
            /\ c[Len(c)] <= d[1] /\ m = Piece(s, c[Len(c)], d[1])
            /\ d[Len(d)] = Len(s)

\* A packet is accepted.
LEMMA FlowAccepts ==
  ASSUME NEW S, NEW s \in Seq(S), NEW t \in Seq(S), NEW sent, NEW w, NEW m, NEW q,
         Flow(S, s, sent, w, m, q)
  PROVE  Flow(S, s \o t, sent, w, m, Append(q, t))
<1> PICK c, d : /\ IsCut(S, w, s, c) /\ IsCut(S, q, s, d)
                /\ sent = Piece(s, 0, c[1])
                /\ c[Len(c)] <= d[1] /\ m = Piece(s, c[Len(c)], d[1])
                /\ d[Len(d)] = Len(s)
  BY DEF Flow
<1> DEFINE u == s \o t
           e == Len(s) + Len(t)
           D == Append(d, e)
<1>1. u \in Seq(S) /\ e \in Nat /\ Len(u) = e /\ Len(s) \in Nat /\ Len(s) <= e
  OBVIOUS
<1>2. /\ c[1] \in Nat /\ 0 <= c[1] /\ c[1] <= Len(s)
      /\ c[Len(c)] \in Nat /\ d[1] \in Nat /\ d[1] <= Len(s)
  <2>1. /\ c[1] \in Nat /\ c[Len(c)] \in Nat /\ c[1] <= c[Len(c)] /\ c[Len(c)] <= Len(s)
    BY CutEnds
  <2>2. /\ d[1] \in Nat /\ d[Len(d)] \in Nat /\ d[1] <= d[Len(d)] /\ d[Len(d)] <= Len(s)
    BY CutEnds
  <2> QED
    BY <1>1, <2>1, <2>2
<1>3. IsCut(S, w, u, c) /\ IsCut(S, q, u, d)
  BY CutKept
<1>4. Piece(u, 0, c[1]) = sent /\ Piece(u, c[Len(c)], d[1]) = m
  BY <1>2, PieceKept
<1>5. Piece(u, d[Len(d)], e) = t
  BY PieceAdded
<1> HIDE DEF u, e
<1>6. /\ IsCut(S, Append(q, t), u, D) /\ D[1] = d[1] /\ D[Len(D)] = e
  BY <1>1, <1>3, <1>5, CutAppend
<1> HIDE DEF D
<1>7. Flow(S, u, sent, w, m, Append(q, t))
  BY <1>1, <1>3, <1>4, <1>6 DEF Flow
<1> QED
  BY <1>7 DEF u

\* The buffer is queued.
LEMMA FlowQueues ==
  ASSUME NEW S, NEW s \in Seq(S), NEW sent, NEW w, NEW m, NEW q, Flow(S, s, sent, w, m, q)
  PROVE  Flow(S, s, sent, Append(w, m), <<>>, q)
<1> PICK c, d : /\ IsCut(S, w, s, c) /\ IsCut(S, q, s, d)
                /\ sent = Piece(s, 0, c[1])
                /\ c[Len(c)] <= d[1] /\ m = Piece(s, c[Len(c)], d[1])
                /\ d[Len(d)] = Len(s)
  BY DEF Flow
<1> DEFINE C == Append(c, d[1])
<1>1. d[1] \in Nat /\ d[1] <= Len(s)
  <2>1. /\ d[1] \in Nat /\ d[Len(d)] \in Nat /\ d[1] <= d[Len(d)] /\ d[Len(d)] <= Len(s)
    BY CutEnds
  <2> QED
    BY <2>1
<1>2. /\ IsCut(S, Append(w, m), s, C) /\ C[1] = c[1] /\ C[Len(C)] = d[1]
  BY <1>1, CutAppend
<1>3. Piece(s, d[1], d[1]) = <<>>
  BY <1>1 DEF Piece
<1> HIDE DEF C
<1>4. C[Len(C)] <= d[1]
  BY <1>1, <1>2
<1> QED
  BY <1>2, <1>3, <1>4 DEF Flow

\* A packet is written to the buffer.
LEMMA FlowFills ==
  ASSUME NEW S, NEW s \in Seq(S), NEW sent, NEW w, NEW m, NEW q, Flow(S, s, sent, w, m, q),
         q # <<>>
  PROVE  Flow(S, s, sent, w, m \o Head(q), Tail(q))
<1> PICK c, d : /\ IsCut(S, w, s, c) /\ IsCut(S, q, s, d)
                /\ sent = Piece(s, 0, c[1])
                /\ c[Len(c)] <= d[1] /\ m = Piece(s, c[Len(c)], d[1])
                /\ d[Len(d)] = Len(s)
  BY DEF Flow
<1> DEFINE D == Tail(d)
<1>1. /\ IsCut(S, Tail(q), s, D)
      /\ D[1] = d[2] /\ D[Len(D)] = d[Len(d)]
      /\ Head(q) = Piece(s, d[1], d[2]) /\ d[2] \in Nat /\ d[1] <= d[2]
      /\ d[2] <= d[Len(d)]
  <2>1. IsCut(S, q, s, d)
    OBVIOUS
  <2> QED
    BY <2>1, CutTail, Zenon
<1>2. c[Len(c)] \in Nat /\ d[1] \in Nat /\ d[Len(d)] \in Nat
  BY CutEnds
<1> HIDE DEF D
<1>3. m \o Head(q) = Piece(s, c[Len(c)], d[2])
  <2>1. d[2] <= Len(s)
    BY <1>1
  <2>2. Piece(s, c[Len(c)], d[1]) \o Piece(s, d[1], d[2]) = Piece(s, c[Len(c)], d[2])
    BY <1>1, <1>2, <2>1, PiecesJoin
  <2> QED
    BY <1>1, <2>2
<1>4. c[Len(c)] <= d[2]
  BY <1>1, <1>2
<1> QED
  BY <1>1, <1>3, <1>4 DEF Flow

\* The first n bytes of the first buffer are sent.
LEMMA FlowSends ==
  ASSUME NEW S, NEW s \in Seq(S), NEW sent, NEW w, NEW m, NEW q, Flow(S, s, sent, w, m, q),
         w # <<>>, NEW n \in Nat, n <= Len(Head(w))
  PROVE  /\ Flow(S, s, sent \o SubSeq(Head(w), 1, n),
                 <<SubSeq(Head(w), n + 1, Len(Head(w)))>> \o Tail(w), m, q)
         /\ n = Len(Head(w)) => Flow(S, s, sent \o SubSeq(Head(w), 1, n), Tail(w), m, q)
<1> PICK c, d : /\ IsCut(S, w, s, c) /\ IsCut(S, q, s, d)
                /\ sent = Piece(s, 0, c[1])
                /\ c[Len(c)] <= d[1] /\ m = Piece(s, c[Len(c)], d[1])
                /\ d[Len(d)] = Len(s)
  BY DEF Flow
<1> DEFINE first == Head(w)
           e == c[1] + n
           C == Tail(c)
<1>1. /\ IsCut(S, Tail(w), s, C)
      /\ C[1] = c[2] /\ C[Len(C)] = c[Len(c)]
      /\ first = Piece(s, c[1], c[2]) /\ c[2] \in Nat /\ c[1] <= c[2]
      /\ c[2] <= c[Len(c)]
  <2>1. IsCut(S, w, s, c)
    OBVIOUS
  <2> QED
    BY <2>1, CutTail, Zenon
<1>2. /\ c[1] \in Nat /\ c[Len(c)] \in Nat /\ c[Len(c)] <= Len(s) /\ Len(s) \in Nat
  BY CutEnds
<1>3. Len(first) = c[2] - c[1]
  <2>1. c[2] <= Len(s)
    BY <1>1, <1>2
  <2>2. IsPiece(S, first, s, c[1], c[2] - c[1])
    BY <1>1, <1>2, <2>1, PieceIs
  <2> QED
    BY <2>2 DEF IsPiece
<1>4. /\ e \in Nat /\ c[1] <= e /\ e <= c[2] /\ c[2] <= Len(s)
      /\ (n = Len(first) => e = c[2])
  <2>1. n <= Len(first)
    OBVIOUS
  <2> HIDE DEF first
  <2>2. n <= c[2] - c[1] /\ (n = Len(first) => n = c[2] - c[1])
    BY <1>3, <2>1
  <2>3. c[2] <= Len(s) /\ c[1] \in Nat /\ c[2] \in Nat
    BY <1>1, <1>2
  <2> QED
    BY <2>2, <2>3, SMTT(30)
<1>5. /\ SubSeq(first, 1, n) = Piece(s, c[1], e)
      /\ SubSeq(first, n + 1, Len(first)) = Piece(s, e, c[2])
  <2>1. first \in Seq(S) /\ e - c[1] = n
    <3>1. IsPiece(S, first, s, c[1], c[2] - c[1])
      BY <1>1, <1>2, <1>4, PieceIs
    <3> QED
      BY <1>2, <3>1 DEF IsPiece
  <2>2. Parts(Piece(s, c[1], c[2]), e - c[1], Piece(s, c[1], e), Piece(s, e, c[2]))
    BY <1>1, <1>2, <1>4, PieceCut
  <2> HIDE DEF first, e
  <2>3. Parts(first, n, Piece(s, c[1], e), Piece(s, e, c[2]))
    BY <1>1, <2>1, <2>2
  <2> QED
    BY <2>3 DEF Parts
<1> HIDE DEF first, e, C
<1>6. sent \o SubSeq(first, 1, n) = Piece(s, 0, e)
  <2>1. 0 \in Nat /\ 0 <= c[1] /\ e <= Len(s)
    BY <1>1, <1>2, <1>4
  <2>2. Piece(s, 0, c[1]) \o Piece(s, c[1], e) = Piece(s, 0, e)
    BY <1>2, <1>4, <2>1, PiecesJoin
  <2> QED
    BY <1>5, <2>2
<1>7. Flow(S, s, sent \o SubSeq(first, 1, n),
           <<SubSeq(first, n + 1, Len(first))>> \o Tail(w), m, q)
  <2>1. PICK b : /\ IsCut(S, <<Piece(s, e, c[2])>> \o Tail(w), s, b)
                 /\ b[1] = e /\ b[Len(b)] = c[Len(c)]
    BY <1>4, CutHead
  <2> QED
    BY <1>5, <1>6, <2>1 DEF Flow
<1>8. n = Len(first) => Flow(S, s, sent \o SubSeq(first, 1, n), Tail(w), m, q)
  BY <1>1, <1>4, <1>6 DEF Flow
<1> QED
  BY <1>7, <1>8 DEF first

\* What is sent comes first.
LEMMA FlowPrefix ==
  ASSUME NEW S, NEW s \in Seq(S), NEW sent, NEW w, NEW m, NEW q, Flow(S, s, sent, w, m, q)
  PROVE  IsPrefix(sent, s)
<1> PICK c, d : /\ IsCut(S, w, s, c)
                /\ sent = Piece(s, 0, c[1])
  BY DEF Flow
<1>1. c[1] \in Nat /\ c[1] <= Len(s)
  <2>1. /\ c[1] \in Nat /\ c[Len(c)] \in Nat /\ c[1] <= c[Len(c)] /\ c[Len(c)] <= Len(s)
    BY CutEnds
  <2> QED
    BY <2>1
<1>2. sent \in Seq(S) /\ Len(sent) = c[1]
  <2>1. IsPiece(S, sent, s, 0, c[1] - 0)
    BY <1>1, PieceIs
  <2> QED
    BY <1>1, <2>1 DEF IsPiece
<1>3. SubSeq(sent, 1, Len(sent)) = sent /\ SubSeq(s, 1, Len(sent)) = sent
  BY <1>2, SubSeqFull DEF Piece
<1> QED
  BY <1>1, <1>2, <1>3 DEF IsPrefix

\* When all is sent only empty buffers are left.
LEMMA FlowDone ==
  ASSUME NEW S, NEW s \in Seq(S), NEW w, NEW m, NEW q, Flow(S, s, s, w, m, q)
  PROVE  /\ \A k \in 1 .. Len(w) : w[k] = <<>>
         /\ \A k \in 1 .. Len(q) : q[k] = <<>>
<1> PICK c, d : /\ IsCut(S, w, s, c) /\ IsCut(S, q, s, d)
                /\ s = Piece(s, 0, c[1])
                /\ c[Len(c)] <= d[1]
  BY DEF Flow
<1> DEFINE z == Len(s)
<1>1. z \in Nat
  OBVIOUS
<1>2. /\ c[1] \in Nat /\ c[Len(c)] \in Nat /\ c[1] <= c[Len(c)] /\ c[Len(c)] <= z
      /\ Len(c) = Len(w) + 1 /\ Len(w) \in Nat
      /\ \A k \in 1 .. Len(c) : c[k] \in Nat /\ c[k] <= c[Len(c)] /\ c[1] <= c[k]
  BY CutEnds
<1>3. /\ d[1] \in Nat /\ d[Len(d)] \in Nat /\ d[1] <= d[Len(d)] /\ d[Len(d)] <= z
      /\ Len(d) = Len(q) + 1 /\ Len(q) \in Nat
      /\ \A k \in 1 .. Len(d) : d[k] \in Nat /\ d[k] <= d[Len(d)] /\ d[1] <= d[k]
  BY CutEnds
<1>4. c[1] = z
  <2>1. c[1] <= z
    BY <1>1, <1>2
  <2>2. IsPiece(S, s, s, 0, c[1] - 0)
    BY <1>2, <2>1, PieceIs
  <2> QED
    BY <1>2, <2>2 DEF IsPiece
<1>5. Piece(s, z, z) = <<>>
  BY <1>1 DEF Piece
<1> HIDE DEF z
<1>6. ASSUME NEW k \in 1 .. Len(w) PROVE w[k] = <<>>
  <2>1. k \in 1 .. Len(c) /\ k + 1 \in 1 .. Len(c)
    BY <1>2
  <2>2. c[k] = z /\ c[k + 1] = z
    BY <1>1, <1>2, <1>4, <2>1
  <2>3. w[k] = Piece(s, c[k], c[k + 1])
    BY DEF IsCut
  <2> QED
    BY <1>5, <2>2, <2>3
<1>7. ASSUME NEW k \in 1 .. Len(q) PROVE q[k] = <<>>
  <2>1. k \in 1 .. Len(d) /\ k + 1 \in 1 .. Len(d)
    BY <1>3
  <2>2. d[1] = z /\ d[Len(d)] = z
    BY <1>1, <1>2, <1>3, <1>4
  <2>3. d[k] = z /\ d[k + 1] = z
    BY <1>1, <1>3, <2>1, <2>2
  <2>4. q[k] = Piece(s, d[k], d[k + 1])
    BY DEF IsCut
  <2> QED
    BY <1>5, <2>3, <2>4
<1> QED
  BY <1>6, <1>7

\* When nothing waits all is sent.
LEMMA FlowOver ==
  ASSUME NEW S, NEW s \in Seq(S), NEW sent, Flow(S, s, sent, <<>>, <<>>, <<>>)
  PROVE  sent = s
<1> PICK c, d : /\ IsCut(S, <<>>, s, c) /\ IsCut(S, <<>>, s, d)
                /\ sent = Piece(s, 0, c[1])
                /\ c[Len(c)] <= d[1] /\ <<>> = Piece(s, c[Len(c)], d[1])
                /\ d[Len(d)] = Len(s)
  BY DEF Flow
<1>1. Len(c) = 1 /\ Len(d) = 1
  BY DEF IsCut
<1>2. c[1] \in Nat /\ d[1] = Len(s) /\ c[1] <= d[1] /\ Len(s) \in Nat
  BY <1>1, CutEnds
<1>3. IsPiece(S, <<>>, s, c[1], d[1] - c[1])
  BY <1>1, <1>2, PieceIs
<1>4. d[1] - c[1] = 0
  BY <1>3 DEF IsPiece
<1>5. c[1] = Len(s)
  BY <1>2, <1>4
<1> QED
  BY <1>5, SubSeqFull DEF Piece

-----------------------------------------------------------------------------
(* Prefixes.                                                               *)

LEMMA PrefixOfMore ==
  ASSUME NEW S, NEW s \in Seq(S), NEW t \in Seq(S), NEW sent \in Seq(S), IsPrefix(sent, s)
  PROVE  IsPrefix(sent, s \o t)
<1>1. Len(sent) <= Len(s) /\ SubSeq(sent, 1, Len(sent)) = SubSeq(s, 1, Len(sent))
  BY DEF IsPrefix
<1>2. Len(sent) \in Nat /\ 0 <= Len(sent)
  OBVIOUS
<1>3. Piece(s \o t, 0, Len(sent)) = Piece(s, 0, Len(sent))
  BY <1>1, <1>2, PieceKept
<1>4. SubSeq(s \o t, 1, Len(sent)) = SubSeq(s, 1, Len(sent))
  <2>1. 0 + 1 = 1
    OBVIOUS
  <2> QED
    BY <1>3, <2>1, Zenon DEF Piece
<1>5. Len(sent) <= Len(s \o t)
  BY <1>1
<1> QED
  BY <1>1, <1>4, <1>5 DEF IsPrefix

LEMMA PrefixIsAll ==
  ASSUME NEW S, NEW s \in Seq(S), NEW sent \in Seq(S), IsPrefix(sent, s), Len(s) <= Len(sent)
  PROVE  sent = s
<1>1. Len(sent) = Len(s) /\ SubSeq(sent, 1, Len(sent)) = SubSeq(s, 1, Len(sent))
  BY DEF IsPrefix
<1> QED
  BY <1>1, SubSeqFull

\* Nothing can be sent behind all there is.
LEMMA NothingBehindAll ==
  ASSUME NEW S, NEW s \in Seq(S), NEW x \in Seq(S), IsPrefix(s \o x, s)
  PROVE  s \o x = s
<1>1. Len(s \o x) <= Len(s) /\ Len(s \o x) = Len(s) + Len(x)
  BY DEF IsPrefix
<1>2. Len(x) = 0
  BY <1>1
<1> QED
  BY <1>2

-----------------------------------------------------------------------------
(* From _bufferQueue to the peer.                                          *)

Bytes == Nat \X Nat

StreamTypes ==
  /\ accepted \in Seq(Bytes) /\ stream \in Seq(Bytes) /\ buffer \in Seq(Bytes)
  /\ bufferQueue \in Seq(Seq(Bytes)) /\ writeQueue \in Seq(Seq(Bytes))

\* While the connection stands nothing that was accepted is lost on its way.
InFlow == ~ broken /\ ~ shut => Flow(Bytes, accepted, stream, writeQueue, buffer, bufferQueue)

DataInv == StreamTypes /\ InFlow /\ StreamInOrder

Standing == (broken => broken') /\ (shut => shut')

LEMMA DataKept ==
  ASSUME DataInv, Standing, UNCHANGED <<accepted, stream, buffer, writeQueue, bufferQueue>>
  PROVE  DataInv'
BY DEF DataInv, Standing, StreamTypes, InFlow, StreamInOrder

LEMMA PacketIs ==
  ASSUME DataInv, NEW size \in Sizes
  PROVE  /\ Sent \in Nat
         /\ [k \in 1 .. size |-> <<Sent + 1, k>>] \in Seq(Bytes)
         /\ Len([k \in 1 .. size |-> <<Sent + 1, k>>]) = size
         /\ size \in Nat \ {0}
<1>1. size \in Nat \ {0}
  BY SizesAssumption
<1>2. Sent \in Nat
  <2>1. accepted \in Seq(Bytes)
    BY DEF DataInv, StreamTypes
  <2>2. CASE accepted # <<>>
    <3>1. Len(accepted) \in 1 .. Len(accepted)
      BY <2>1, <2>2
    <3>2. accepted[Len(accepted)] \in Nat \X Nat
      BY <2>1, <3>1 DEF Bytes
    <3> QED
      BY <2>2, <3>2 DEF Sent, Last
  <2> QED
    BY <2>2 DEF Sent
<1>3. [k \in 1 .. size |-> <<Sent + 1, k>>] \in [1 .. size -> Bytes]
  BY <1>1, <1>2 DEF Bytes
<1>4. [k \in 1 .. size |-> <<Sent + 1, k>>] \in Seq(Bytes)
  BY <1>1, <1>3
<1>5. Len([k \in 1 .. size |-> <<Sent + 1, k>>]) = size
  BY <1>1, <1>3
<1> QED
  BY <1>1, <1>2, <1>4, <1>5

LEMMA EnqueueData ==
  ASSUME DataInv, Standing, NEW size \in Sizes, Enqueue(size),
         UNCHANGED <<stream, buffer, writeQueue>>
  PROVE  /\ DataInv'
         /\ \E packet \in Seq(Bytes) :
              /\ packet # <<>> /\ \A k \in 1 .. Len(packet) : packet[k][1] = Sent + 1
              /\ bufferQueue' = Append(bufferQueue, packet) /\ accepted' = accepted \o packet
<1> DEFINE packet == [k \in 1 .. size |-> <<Sent + 1, k>>]
<1>1. /\ packet \in Seq(Bytes) /\ packet # <<>>
      /\ \A k \in 1 .. Len(packet) : packet[k][1] = Sent + 1
  BY PacketIs
<1>2. bufferQueue' = Append(bufferQueue, packet) /\ accepted' = accepted \o packet
  BY DEF Enqueue
<1> HIDE DEF packet
<1>3. accepted \in Seq(Bytes) /\ stream \in Seq(Bytes)
  BY DEF DataInv, StreamTypes
<1>4. StreamTypes'
  BY <1>1, <1>2 DEF DataInv, StreamTypes
<1>5. InFlow'
  BY <1>1, <1>2, <1>3, FlowAccepts DEF DataInv, InFlow, Standing
<1>6. StreamInOrder'
  BY <1>1, <1>2, <1>3, PrefixOfMore DEF DataInv, StreamInOrder
<1> QED
  BY <1>1, <1>2, <1>4, <1>5, <1>6 DEF DataInv

LEMMA DequeueData ==
  ASSUME DataInv, Dequeue
  PROVE  DataInv'
<1> DEFINE packet == Head(bufferQueue)
           full  == Len(buffer) + Len(packet) > BufferSize
           large == Len(packet) > BufferSize
<1>1. /\ UNCHANGED <<broken, shut, stream, accepted>>
      /\ bufferQueue # <<>> /\ bufferQueue' = Tail(bufferQueue) /\ Packed(packet)
  BY DEF Dequeue, flags
<1>2. /\ bufferQueue \in Seq(Seq(Bytes)) /\ buffer \in Seq(Bytes) /\ writeQueue \in Seq(Seq(Bytes))
      /\ packet \in Seq(Bytes) /\ bufferQueue' \in Seq(Seq(Bytes)) /\ BufferSize \in Nat
      /\ accepted \in Seq(Bytes)
  BY <1>1, SizesAssumption DEF DataInv, StreamTypes
<1>3. large => full
  BY <1>2
<1>4. \/ ~ full /\ writeQueue' = writeQueue /\ buffer' = buffer \o packet
      \/ full /\ ~ large /\ writeQueue' = Append(writeQueue, buffer) /\ buffer' = packet
      \/ /\ full /\ large /\ buffer' = <<>>
         /\ writeQueue' = Append(Append(writeQueue, buffer), packet)
  <2>1. <<>> \o packet = packet /\ <<>> \o <<>> = <<>> /\ buffer \o <<>> = buffer
    BY <1>2
  <2>2. CASE ~ full
    BY <1>1, <1>3, <2>1, <2>2 DEF Packed
  <2>3. CASE full /\ ~ large
    BY <1>1, <2>1, <2>3 DEF Packed
  <2>4. CASE full /\ large
    BY <1>1, <2>1, <2>4 DEF Packed
  <2> QED
    BY <1>3, <2>2, <2>3, <2>4
<1> HIDE DEF full, large, packet
<1>5. <<>> \o packet = packet
  BY <1>2
<1>6. StreamTypes'
  <2>1. /\ Append(writeQueue, buffer) \in Seq(Seq(Bytes))
        /\ Append(Append(writeQueue, buffer), packet) \in Seq(Seq(Bytes))
        /\ buffer \o packet \in Seq(Bytes) /\ <<>> \in Seq(Bytes)
    BY <1>2
  <2>2. writeQueue' \in Seq(Seq(Bytes)) /\ buffer' \in Seq(Bytes)
    BY <1>2, <1>4, <2>1
  <2> QED
    BY <1>1, <1>2, <2>2 DEF DataInv, StreamTypes
<1>7. ASSUME ~ broken, ~ shut
      PROVE  Flow(Bytes, accepted, stream, writeQueue', buffer', Tail(bufferQueue))
  <2>1. Flow(Bytes, accepted, stream, writeQueue, buffer, bufferQueue)
    BY <1>7 DEF DataInv, InFlow
  <2>2. Flow(Bytes, accepted, stream, writeQueue, buffer \o packet, Tail(bufferQueue))
    BY <1>1, <1>2, <2>1, FlowFills DEF packet
  <2>3. Flow(Bytes, accepted, stream, Append(writeQueue, buffer), <<>>, bufferQueue)
    BY <1>2, <2>1, FlowQueues
  <2>4. Flow(Bytes, accepted, stream, Append(writeQueue, buffer), packet, Tail(bufferQueue))
    BY <1>1, <1>2, <1>5, <2>3, FlowFills DEF packet
  <2>5. Flow(Bytes, accepted, stream, Append(Append(writeQueue, buffer), packet), <<>>,
             Tail(bufferQueue))
    BY <1>2, <2>4, FlowQueues
  <2>6. CASE ~ full /\ writeQueue' = writeQueue /\ buffer' = buffer \o packet
    BY <2>2, <2>6
  <2>7. CASE full /\ ~ large /\ writeQueue' = Append(writeQueue, buffer) /\ buffer' = packet
    BY <2>4, <2>7
  <2>8. CASE /\ full /\ large /\ buffer' = <<>>
             /\ writeQueue' = Append(Append(writeQueue, buffer), packet)
    BY <2>5, <2>8
  <2> QED
    BY <1>4, <2>6, <2>7, <2>8
<1>8. InFlow'
  BY <1>1, <1>7 DEF InFlow
<1> QED
  BY <1>1, <1>6, <1>8 DEF DataInv, StreamInOrder

LEMMA DrainedData ==
  ASSUME DataInv, Drained
  PROVE  DataInv'
<1>1. /\ UNCHANGED <<broken, shut, stream, accepted, bufferQueue>> /\ buffer' = <<>>
      /\ writeQueue' = IF buffer = <<>> THEN writeQueue ELSE Append(writeQueue, buffer)
  BY DEF Drained, flags
<1>2. StreamTypes'
  BY <1>1 DEF DataInv, StreamTypes
<1>3. InFlow'
  <2>1. accepted \in Seq(Bytes)
    BY DEF DataInv, StreamTypes
  <2> QED
    BY <1>1, <2>1, FlowQueues DEF DataInv, InFlow
<1> QED
  BY <1>1, <1>2, <1>3 DEF DataInv, StreamInOrder

\* Only what stands first is sent, and only while the connection stands.
LEMMA WriteData ==
  ASSUME DataInv, NEW n \in Nat, Write(n)
  PROVE  /\ DataInv' /\ UNCHANGED <<accepted, broken, shut>>
         /\ \E x \in Seq(Bytes) : stream' = stream \o x
<1> DEFINE first == Head(writeQueue)
           x == SubSeq(first, 1, n)
           y == SubSeq(first, n + 1, Len(first))
<1>1. /\ writeQueue # <<>> /\ n <= Len(first) /\ (first # <<>> => ~ broken /\ ~ shut)
      /\ stream' = stream \o x /\ UNCHANGED <<bufferQueue, buffer, accepted>>
  BY DEF Write, HandlingQueue
<1>2. UNCHANGED <<broken, shut>>
  BY DEF Write, Popped, CloseSocket, flags
<1>3. \/ n = Len(first) /\ writeQueue' = Tail(writeQueue)
      \/ writeQueue' = <<y>> \o Tail(writeQueue)
  BY DEF Write, Popped
<1>4. /\ accepted \in Seq(Bytes) /\ stream \in Seq(Bytes) /\ writeQueue \in Seq(Seq(Bytes))
      /\ first \in Seq(Bytes)
  BY <1>1 DEF DataInv, StreamTypes
<1>5. x \in Seq(Bytes) /\ y \in Seq(Bytes)
  BY <1>1, <1>4
<1>6. StreamTypes'
  <2> HIDE DEF x, y
  <2>1. Tail(writeQueue) \in Seq(Seq(Bytes)) /\ <<y>> \in Seq(Seq(Bytes))
    BY <1>1, <1>4, <1>5
  <2>2. <<y>> \o Tail(writeQueue) \in Seq(Seq(Bytes))
    BY <2>1, ConcatProperties
  <2>3. writeQueue' \in Seq(Seq(Bytes))
    BY <1>3, <2>1, <2>2
  <2> QED
    BY <1>1, <1>4, <1>5, <2>3 DEF DataInv, StreamTypes
<1>7. CASE ~ broken /\ ~ shut
  <2>1. Flow(Bytes, accepted, stream, writeQueue, buffer, bufferQueue)
    BY <1>7 DEF DataInv, InFlow
  <2>2. Flow(Bytes, accepted, stream', writeQueue', buffer, bufferQueue)
    BY <1>1, <1>3, <1>4, <2>1, FlowSends
  <2>3. InFlow'
    BY <1>1, <2>2 DEF InFlow
  <2>4. StreamInOrder'
    BY <1>1, <1>4, <2>2, FlowPrefix DEF StreamInOrder
  <2> QED
    BY <1>1, <1>2, <1>5, <1>6, <2>3, <2>4 DEF DataInv
<1>8. CASE broken \/ shut
  <2>1. first = <<>> /\ n = 0
    BY <1>1, <1>4, <1>8
  <2>2. x = <<>> /\ stream' = stream
    BY <1>1, <1>4, <2>1
  <2> QED
    BY <1>1, <1>2, <1>5, <1>6, <1>8, <2>2 DEF DataInv, InFlow, StreamInOrder
<1> QED
  BY <1>7, <1>8

LEMMA WriteErrorData ==
  ASSUME DataInv, WriteError
  PROVE  DataInv' /\ UNCHANGED <<accepted, stream, broken, shut>>
<1>1. /\ writeQueue # <<>> /\ (broken \/ shut) /\ writeQueue' = Tail(writeQueue)
      /\ UNCHANGED <<accepted, stream, bufferQueue, buffer>>
  BY DEF WriteError, HandlingQueue, Popped
<1>2. UNCHANGED <<broken, shut>>
  BY DEF WriteError, Popped, CloseSocket, flags
<1>3. Tail(writeQueue) \in Seq(Seq(Bytes))
  BY <1>1 DEF DataInv, StreamTypes
<1> QED
  BY <1>1, <1>2, <1>3 DEF DataInv, StreamTypes, InFlow, StreamInOrder

-----------------------------------------------------------------------------
(* Where packets are while the socket greets, serves and refuses a client. *)

\* Update leaves nothing in its buffer, and no buffer that is queued last is
\* empty.
Queues ==
  /\ \A k \in 1 .. Len(bufferQueue) : bufferQueue[k] # <<>>
  /\ writeQueue # <<>> => writeQueue[Len(writeQueue)] # <<>>
  /\ netpc # "drain" => buffer = <<>>

\* Only a session in the world sends, and only a socket that is closed is shut
\* down.
Shut == (shut => closed) /\ (sending # {} => session = "added")

\* Until there is a session only the challenge is accepted, and a client that
\* answered it has been sent all of it.
Greeted ==
  session = "none" =>
    /\ query = "ip" => accepted = <<>> /\ ~ client.authed
    /\ ~ closing => \A k \in 1 .. Len(accepted) : accepted[k][1] = 1
    /\ client.authed /\ ~ closing => stream = accepted

\* The reason of a refusal reaches _writeQueue before HandleQueue is called
\* again, and the queue runs empty only when it is sent.
Answered ==
  closing /\ ~ broken =>
    /\ \/ bufferQueue = <<>> /\ buffer = <<>>
       \/ netpc = "drain"
       \/ netpc = "idle" /\ writeQueue = <<>>
    /\ closed => stream = accepted

StreamInv == DataInv /\ Queues /\ Shut /\ Greeted /\ Answered

\* A step that moves no byte.
Calm ==
  /\ UNCHANGED <<accepted, stream, buffer, writeQueue, bufferQueue, closing>> /\ Standing
  /\ netpc' = netpc \/ (netpc # "drain" /\ (closing /\ netpc = "idle" /\ writeQueue = <<>> =>
                                               netpc' \in {"idle", "drain"}))
  /\ shut' => closed'
  /\ closing /\ closed' => closed
  /\ sending' # {} => session' = "added"
  /\ session' = "none" =>
       /\ session = "none" /\ (query' = "ip" => query = "ip")
       /\ client'.authed => client.authed \/ closing \/ (stream = accepted /\ accepted # <<>>)

LEMMA CalmKept ==
  ASSUME IInv, StreamInv, Calm
  PROVE  StreamInv'
<1>1. DataInv'
  BY DataKept DEF StreamInv, Calm
<1>2. Queues'
  BY DEF StreamInv, Queues, Calm
<1>3. Shut'
  BY DEF Shut, Calm
<1>4. Greeted'
  BY DEF StreamInv, Greeted, Calm, IInv, Stages
<1>5. Answered'
  BY DEF StreamInv, Answered, Queues, Calm, Standing
<1> QED
  BY <1>1, <1>2, <1>3, <1>4, <1>5 DEF StreamInv

LEMMA NetCalm ==
  ASSUME IInv, StreamInv,
         Update \/ Check \/ WriteHandlerWrapper \/ NoQueryReady \/ AllRead \/ HandleAuthSession
           \/ LockSession \/ Break \/ UNCHANGED vars
  PROVE  Calm
<1>1. CASE Update
  BY <1>1 DEF Update, NetAt, StreamInv, Queues, Shut, Calm, Standing, flags, owned, receiving
<1>2. CASE Check \/ NoQueryReady
  BY <1>2 DEF Check, NoQueryReady, NetAt, StreamInv, Shut, Calm, Standing, flags, owned,
              receiving, writing
<1>3. CASE WriteHandlerWrapper
  BY <1>3 DEF WriteHandlerWrapper, NetAt, StreamInv, Shut, Calm, Standing, flags, owned,
              receiving
<1>4. CASE AllRead \/ LockSession
  BY <1>4 DEF AllRead, LockSession, NetAt, StreamInv, Shut, Calm, Standing, flags, owned,
              receiving, writing
<1>5. CASE HandleAuthSession
  BY <1>5 DEF HandleAuthSession, NetAt, StreamInv, Shut, Calm, Standing, flags, writing
<1>6. CASE Break
  BY <1>6 DEF Break, StreamInv, Shut, Calm, Standing, owned, receiving, writing
<1>7. CASE UNCHANGED vars
  BY <1>7 DEF vars, StreamInv, Shut, Calm, Standing, flags, owned, receiving, writing
<1> QED
  BY <1>1, <1>2, <1>3, <1>4, <1>5, <1>6, <1>7

LEMMA ReadCalm ==
  ASSUME IInv, StreamInv, ReadHandlerInternal
  PROVE  Calm
<1>1. ~ closing /\ netpc = "idle"
  BY DEF ReadHandlerInternal, NetAt, IInv, ReadingStops
<1>2. CloseSocket(Net) \/ UNCHANGED flags
  BY DEF ReadHandlerInternal
<1>3. client'.authed = client.authed
  <2>1. client = [sent |-> client.sent, authed |-> client.authed, left |-> client.left]
    BY DEF IInv, Types
  <2> QED
    BY <2>1 DEF ReadHandlerInternal
<1>4. (shut' => closed') /\ closing' = closing /\ Standing
  BY <1>2 DEF CloseSocket, StreamInv, Shut, Standing, flags
<1> QED
  BY <1>1, <1>3, <1>4 DEF ReadHandlerInternal, StreamInv, Shut, Calm, owned, writing

LEMMA ClosingCalm ==
  ASSUME IInv, StreamInv, NEW t \in Threads, Shutdown(t) \/ OnClose(t)
  PROVE  Calm
<1>1. CASE Shutdown(t)
  <2>1. closed
    BY <1>1 DEF Shutdown, IInv, Closer, NotInClose
  <2> QED
    BY <1>1, <2>1 DEF Shutdown, StreamInv, Shut, Calm, Standing, owned, receiving, writing
<1>2. CASE OnClose(t)
  BY <1>2 DEF OnClose, StreamInv, Shut, Calm, Standing, receiving, writing
<1> QED
  BY <1>1, <1>2

LEMMA WorldCalm ==
  ASSUME IInv, StreamInv,
         (\E t \in Senders : BeginSend(t) \/ KickPlayer(t)) \/ DropSocket \/ BeginDelete
           \/ EndDelete
  PROVE  Calm
<1>1. ASSUME NEW t \in Senders, BeginSend(t) PROVE Calm
  BY <1>1 DEF BeginSend, StreamInv, Shut, Calm, Standing, flags, othersVars, receiving, writing
<1>2. ASSUME NEW t \in Senders, KickPlayer(t) \/ BeginDelete PROVE Calm
  <2>1. session = "added" /\ ~ closing
    BY <1>2 DEF KickPlayer, BeginDelete, IInv, Stages
  <2>2. CloseSocket(t) \/ CloseSocket(World)
    BY <1>2 DEF KickPlayer, BeginDelete
  <2>3. closed' /\ closing' = closing /\ Standing
    BY <2>2 DEF CloseSocket, Standing
  <2>4. /\ UNCHANGED <<bufferQueue, othersVars, sending, accepted>>
        /\ session' # "none" /\ (sending # {} => session' = "added")
    BY <1>2, <2>1 DEF KickPlayer, BeginDelete, Unused
  <2> QED
    BY <2>1, <2>3, <2>4 DEF Calm, othersVars, writing
<1>3. CASE DropSocket
  BY <1>3 DEF DropSocket, Unused, StreamInv, Shut, Calm, Standing, flags, othersVars, receiving,
              writing
<1>4. CASE EndDelete
  BY <1>4 DEF EndDelete, StreamInv, Shut, Calm, Standing, flags, othersVars, receiving, writing
<1> QED
  BY <1>1, <1>2, <1>3, <1>4 DEF Senders

\* A client that answers has been sent all there is as long as there is no
\* session.
LEMMA ClientCalm ==
  ASSUME IInv, StreamInv, NEW request \in Requests, ClientSends(request)
  PROVE  Calm
<1>1. /\ stream # <<>> /\ \A k \in DOMAIN accepted : accepted[k][1] = 1 => k <= Len(stream)
      /\ UNCHANGED <<flags, bufferQueue, writing, netpc, owned, sending, accepted, stream>>
  BY DEF ClientSends
<1>2. accepted \in Seq(Bytes) /\ stream \in Seq(Bytes) /\ IsPrefix(stream, accepted)
  BY DEF StreamInv, DataInv, StreamTypes, StreamInOrder
<1>3. accepted # <<>>
  BY <1>1, <1>2 DEF IsPrefix
<1>4. session = "none" /\ ~ closing => stream = accepted
  <2> SUFFICES ASSUME session = "none", ~ closing PROVE stream = accepted
    OBVIOUS
  <2>1. Len(accepted) \in DOMAIN accepted /\ accepted[Len(accepted)][1] = 1
    BY <1>2, <1>3 DEF StreamInv, Greeted
  <2>2. Len(accepted) <= Len(stream)
    BY <1>1, <2>1
  <2> QED
    BY <1>2, <2>2, PrefixIsAll
<1> QED
  BY <1>1, <1>3, <1>4 DEF StreamInv, Shut, Calm, Standing, flags, owned, writing

-----------------------------------------------------------------------------
(* Steps that move bytes.                                                  *)

\* A step in which a packet may be accepted.
Offers ==
  /\ (\E size \in Sizes : Enqueue(size)) \/ UNCHANGED <<bufferQueue, accepted>>
  /\ UNCHANGED <<stream, buffer, writeQueue>> /\ Standing

LEMMA OffersKept ==
  ASSUME StreamInv, Offers
  PROVE  /\ DataInv' /\ \A k \in 1 .. Len(bufferQueue') : bufferQueue'[k] # <<>>
         /\ accepted = <<>> => \A k \in 1 .. Len(accepted') : accepted'[k][1] = 1
<1>1. ASSUME NEW size \in Sizes, Enqueue(size)
      PROVE  /\ DataInv' /\ \A k \in 1 .. Len(bufferQueue') : bufferQueue'[k] # <<>>
             /\ accepted = <<>> => \A k \in 1 .. Len(accepted') : accepted'[k][1] = 1
  <2>1. PICK packet \in Seq(Bytes) :
              /\ packet # <<>> /\ \A k \in 1 .. Len(packet) : packet[k][1] = Sent + 1
              /\ bufferQueue' = Append(bufferQueue, packet) /\ accepted' = accepted \o packet
    BY <1>1, EnqueueData DEF StreamInv, Offers
  <2>2. DataInv'
    BY <1>1, EnqueueData DEF StreamInv, Offers
  <2>3. bufferQueue \in Seq(Seq(Bytes)) /\ \A k \in 1 .. Len(bufferQueue) : bufferQueue[k] # <<>>
    BY DEF StreamInv, DataInv, StreamTypes, Queues
  <2>4. \A k \in 1 .. Len(bufferQueue') : bufferQueue'[k] # <<>>
    BY <2>1, <2>3
  <2>5. accepted = <<>> => Sent + 1 = 1 /\ accepted' = packet
    BY <2>1 DEF Sent
  <2> QED
    BY <2>1, <2>2, <2>4, <2>5
<1>2. CASE UNCHANGED <<bufferQueue, accepted>>
  <2>1. DataInv'
    BY <1>2, DataKept DEF StreamInv, Offers
  <2>2. accepted = <<>> => Len(accepted') = 0
    BY <1>2
  <2> QED
    BY <1>2, <2>1, <2>2 DEF StreamInv, Queues
<1> QED
  BY <1>1, <1>2 DEF Offers

LEMMA SendIs ==
  ASSUME NEW size \in Sizes, SendPacket(size)
  PROVE  (\E sz \in Sizes : Enqueue(sz)) \/ UNCHANGED <<bufferQueue, accepted>>
BY DEF SendPacket

\* A packet is accepted for a session.
LEMMA SessionOffers ==
  ASSUME StreamInv, Offers, session # "none", session' = session, ~ closing, closing' = closing,
         closed => closed', shut' = shut, netpc' # "drain" => netpc # "drain", sending' \subseteq sending
  PROVE  StreamInv'
<1>1. DataInv' /\ \A k \in 1 .. Len(bufferQueue') : bufferQueue'[k] # <<>>
  BY OffersKept
<1>2. Queues'
  BY <1>1 DEF StreamInv, Queues, Offers
<1>3. Shut' /\ Greeted' /\ Answered'
  BY DEF StreamInv, Shut, Greeted, Answered
<1> QED
  BY <1>1, <1>2, <1>3 DEF StreamInv

LEMMA WorldSends ==
  ASSUME IInv, StreamInv, NEW t \in Senders, EndSend(t)
  PROVE  StreamInv'
<1>1. session = "added" /\ ~ closing
  BY DEF EndSend, IInv, Stages, StreamInv, Shut
<1>2. Offers /\ UNCHANGED <<closed, closing, shut, session, netpc>>
  BY DEF EndSend, Offers, Standing, flags, othersVars, writing
<1>3. sending' \subseteq sending
  BY DEF EndSend
<1> QED
  BY <1>1, <1>2, <1>3, SessionOffers

LEMMA ReadDataStream ==
  ASSUME IInv, StreamInv, ReadDataHandler
  PROVE  StreamInv'
<1>1. /\ netpc = "session" /\ netpc' \in {"read", "idle"} /\ ~ closing
      /\ UNCHANGED <<buffer, writeQueue, client, query, session, sending, stream>>
  BY DEF ReadDataHandler, NetAt, IInv, ReadingStops, writing
<1>2. CASE worldSession
  <2>1. session # "none" /\ UNCHANGED <<closed, closing, shut, broken>>
    BY <1>2 DEF ReadDataHandler, IInv, Pointer, flags
  <2>2. Offers
    BY <1>1, <1>2, <2>1, SendIs DEF ReadDataHandler, Offers, Standing
  <2> QED
    BY <1>1, <2>1, <2>2, SessionOffers
<1>3. CASE ~ worldSession
  <2>1. CloseSocket(Net) /\ UNCHANGED <<bufferQueue, accepted>>
    BY <1>3 DEF ReadDataHandler
  <2>2. Calm
    BY <1>1, <2>1 DEF CloseSocket, Calm, Standing, StreamInv, Shut
  <2> QED
    BY <2>2, CalmKept
<1> QED
  BY <1>2, <1>3

\* A refused client has been sent all there is but the reason.
LEMMA RefuseStream ==
  ASSUME IInv, StreamInv, Refuse, netpc = "queries", netpc' = "idle", query \in {"ip", "account"}
  PROVE  StreamInv'
<1>1. ~ closed /\ ~ closing /\ ~ shut /\ session = "none" /\ buffer = <<>>
  BY DEF IInv, Early, Stages, StreamInv, Shut, Queues
<1>2. /\ UNCHANGED <<shut, broken, buffer, writeQueue, sending, session, stream>>
      /\ closing' /\ ~ closed' /\ query' = "none"
  BY <1>1 DEF Refuse, DelayedCloseSocket, writing
<1>3. Offers
  BY <1>2, SendIs DEF Refuse, SendAuthResponseError, Offers, Standing
<1>4. DataInv' /\ \A k \in 1 .. Len(bufferQueue') : bufferQueue'[k] # <<>>
  BY <1>3, OffersKept
<1>5. Queues'
  BY <1>1, <1>2, <1>4 DEF StreamInv, Queues
<1>6. Shut' /\ Greeted'
  BY <1>1, <1>2 DEF StreamInv, Shut, Greeted
<1>7. Answered'
  <2> SUFFICES ASSUME ~ broken PROVE writeQueue = <<>>
    BY <1>2 DEF Answered
  <2>1. accepted \in Seq(Bytes) /\ stream \in Seq(Bytes) /\ writeQueue \in Seq(Seq(Bytes))
    BY DEF StreamInv, DataInv, StreamTypes
  <2>2. stream = accepted
    <3>1. CASE query = "ip"
      <4>1. accepted = <<>> /\ IsPrefix(stream, accepted)
        BY <1>1, <3>1 DEF StreamInv, Greeted, DataInv, StreamInOrder
      <4> QED
        BY <2>1, <4>1 DEF IsPrefix
    <3>2. CASE query = "account"
      BY <1>1, <3>2 DEF StreamInv, Greeted, IInv, AuthOnce
    <3> QED
      BY <3>1, <3>2
  <2>3. Flow(Bytes, accepted, accepted, writeQueue, buffer, bufferQueue)
    BY <1>1, <2>2 DEF StreamInv, DataInv, InFlow
  <2>4. \A k \in 1 .. Len(writeQueue) : writeQueue[k] = <<>>
    BY <2>1, <2>3, FlowDone
  <2>5. writeQueue # <<>> => Len(writeQueue) \in 1 .. Len(writeQueue)
    BY <2>1
  <2> QED
    BY <2>4, <2>5 DEF StreamInv, Queues
<1> QED
  BY <1>4, <1>5, <1>6, <1>7 DEF StreamInv

LEMMA CallbackStream ==
  ASSUME IInv, StreamInv, Callbacks
  PROVE  StreamInv'
<1>1. netpc = "queries" /\ netpc' = "idle" /\ query # "none" /\ ~ closed /\ ~ closing
  BY DEF Callbacks, CheckIpCallback, HandleAuthSessionCallback, LoadSessionPermissionsCallback,
         QueryReady, NetAt, IInv, Early, Stages
<1>2. CASE CheckIpCallback /\ ~ Refuse
  <2>1. /\ query = "ip" /\ query' = "none" /\ session = "none" /\ accepted = <<>>
        /\ ~ client.authed
        /\ UNCHANGED <<flags, writing, client, session, sending, stream>>
    BY <1>2 DEF CheckIpCallback, QueryReady, IInv, Stages, StreamInv, Greeted
  <2>2. Offers
    BY <1>2, <2>1, SendIs DEF CheckIpCallback, Offers, Standing, flags, writing
  <2>3. /\ DataInv' /\ \A k \in 1 .. Len(bufferQueue') : bufferQueue'[k] # <<>>
        /\ \A k \in 1 .. Len(accepted') : accepted'[k][1] = 1
    BY <2>1, <2>2, OffersKept
  <2>4. Queues'
    BY <1>1, <2>1, <2>3 DEF StreamInv, Queues, writing
  <2>5. Shut' /\ Greeted' /\ Answered'
    BY <1>1, <2>1, <2>3 DEF StreamInv, Shut, Greeted, Answered, flags
  <2> QED
    BY <2>3, <2>4, <2>5 DEF StreamInv
<1>3. CASE (CheckIpCallback \/ HandleAuthSessionCallback) /\ Refuse
  BY <1>1, <1>3, RefuseStream DEF CheckIpCallback, HandleAuthSessionCallback, QueryReady
<1>4. CASE HandleAuthSessionCallback /\ ~ Refuse
  <2>1. query = "account" /\ session = "none"
    BY <1>4 DEF HandleAuthSessionCallback, QueryReady, IInv, Stages
  <2>2. Calm
    BY <1>1, <1>4, <2>1 DEF HandleAuthSessionCallback, Calm, Standing, StreamInv, Shut, flags,
                            writing
  <2> QED
    BY <2>2, CalmKept
<1>5. CASE LoadSessionPermissionsCallback
  <2>1. Calm
    BY <1>1, <1>5 DEF LoadSessionPermissionsCallback, Calm, Standing, StreamInv, Shut, flags,
                      writing
  <2> QED
    BY <2>1, CalmKept
<1> QED
  BY <1>2, <1>3, <1>4, <1>5 DEF Callbacks

-----------------------------------------------------------------------------
(* The writing of the network thread.                                      *)

LEMMA DequeueStream ==
  ASSUME IInv, StreamInv, Dequeue
  PROVE  StreamInv'
<1>1. /\ UNCHANGED <<closed, closing, shut, broken, accepted, stream, netpc, session, query,
                     client, sending>>
      /\ netpc = "drain" /\ bufferQueue # <<>> /\ bufferQueue' = Tail(bufferQueue)
  BY DEF Dequeue, NetAt, flags, owned, receiving
<1>2. DataInv'
  BY DequeueData DEF StreamInv
<1>3. /\ bufferQueue \in Seq(Seq(Bytes)) /\ writeQueue \in Seq(Seq(Bytes))
      /\ buffer \in Seq(Bytes) /\ Head(bufferQueue) \in Seq(Bytes)
      /\ BufferSize \in Nat
  BY <1>1, SizesAssumption DEF StreamInv, DataInv, StreamTypes
<1>4. Head(bufferQueue) = bufferQueue[1] /\ 1 \in 1 .. Len(bufferQueue)
  BY <1>1, <1>3
<1>5. \A k \in 1 .. Len(bufferQueue') : bufferQueue'[k] # <<>>
  <2>1. \A k \in 1 .. Len(bufferQueue') : /\ bufferQueue'[k] = bufferQueue[k + 1]
                                         /\ k + 1 \in 1 .. Len(bufferQueue)
    BY <1>1, <1>3
  <2> QED
    BY <2>1 DEF StreamInv, Queues
<1>6. writeQueue' # <<>> => writeQueue'[Len(writeQueue')] # <<>>
  <2> DEFINE packet == Head(bufferQueue)
             full  == Len(buffer) + Len(packet) > BufferSize
             large == Len(packet) > BufferSize
  <2>1. packet # <<>>
    BY <1>4 DEF StreamInv, Queues
  <2>2. CASE large
    <3>1. \E q \in Seq(Seq(Bytes)) : writeQueue' = Append(q, packet)
      <4>1. Append(writeQueue, buffer) \in Seq(Seq(Bytes))
        BY <1>3
      <4> QED
        BY <1>3, <2>2, <4>1 DEF Dequeue, Packed
    <3> HIDE DEF packet
    <3> QED
      BY <1>3, <2>1, <3>1 DEF packet
  <2>3. CASE ~ large /\ full
    <3>1. writeQueue' = Append(writeQueue, buffer)
      BY <2>3 DEF Dequeue, Packed
    <3>2. buffer # <<>>
      BY <1>3, <2>3
    <3> QED
      BY <1>3, <3>1, <3>2
  <2>4. CASE ~ large /\ ~ full
    BY <2>4 DEF Dequeue, Packed, StreamInv, Queues
  <2> QED
    BY <2>2, <2>3, <2>4
<1>7. Queues' /\ Answered'
  BY <1>1, <1>5, <1>6 DEF StreamInv, Queues, Answered
<1>8. Shut' /\ Greeted'
  BY <1>1 DEF StreamInv, Shut, Greeted
<1> QED
  BY <1>2, <1>7, <1>8 DEF StreamInv

LEMMA DrainedStream ==
  ASSUME IInv, StreamInv, Drained
  PROVE  StreamInv'
<1>1. /\ UNCHANGED <<closed, closing, shut, broken, accepted, stream, session, query, client,
                     sending, bufferQueue>>
      /\ bufferQueue = <<>> /\ buffer' = <<>>
      /\ writeQueue' = IF buffer = <<>> THEN writeQueue ELSE Append(writeQueue, buffer)
  BY DEF Drained, flags, owned, receiving
<1>2. DataInv'
  BY DrainedData DEF StreamInv
<1>3. writeQueue \in Seq(Seq(Bytes)) /\ buffer \in Seq(Bytes)
  BY DEF StreamInv, DataInv, StreamTypes
<1>4. Queues'
  BY <1>1, <1>3 DEF StreamInv, Queues
<1>5. Shut' /\ Greeted' /\ Answered'
  BY <1>1 DEF StreamInv, Shut, Greeted, Answered
<1> QED
  BY <1>2, <1>4, <1>5 DEF StreamInv

\* The socket is closed by HandleQueue only when all is sent.
LEMMA WriteStream ==
  ASSUME IInv, StreamInv, (\E n \in Nat : Write(n)) \/ WriteError
  PROVE  StreamInv'
<1>1. /\ UNCHANGED <<closing, bufferQueue, buffer, session, query, client, sending, accepted,
                     broken, shut>>
      /\ netpc \notin {"drain", "idle"} /\ netpc' # "drain" /\ (closed => closed')
      /\ writeQueue # <<>>
  <2>1. /\ UNCHANGED <<bufferQueue, buffer, session, query, client, sending, accepted>>
        /\ netpc \in {"write", "handler"} /\ writeQueue # <<>>
    BY DEF Write, WriteError, HandlingQueue, NetAt, owned, receiving
  <2>2. UNCHANGED <<closing, broken, shut>> /\ (closed => closed')
    BY DEF Write, WriteError, Popped, CloseSocket, flags
  <2>3. netpc' # "drain"
    BY <2>1 DEF Write, WriteError, AsyncProcessQueue, After
  <2> QED
    BY <2>1, <2>2, <2>3
<1>2. /\ DataInv' /\ \E x \in Seq(Bytes) : stream' = stream \o x
  <2>1. stream \in Seq(Bytes)
    BY DEF StreamInv, DataInv, StreamTypes
  <2>2. CASE WriteError
    <3>1. stream' = stream \o <<>> /\ <<>> \in Seq(Bytes)
      BY <2>1, <2>2, WriteErrorData DEF StreamInv
    <3> QED
      BY <2>2, <3>1, WriteErrorData DEF StreamInv
  <2> QED
    BY <2>2, WriteData DEF StreamInv
<1>3. /\ accepted \in Seq(Bytes) /\ stream \in Seq(Bytes) /\ IsPrefix(stream', accepted)
      /\ writeQueue \in Seq(Seq(Bytes)) /\ Head(writeQueue) \in Seq(Bytes)
  BY <1>1, <1>2 DEF StreamInv, DataInv, StreamTypes, StreamInOrder
<1>4. stream = accepted => stream' = accepted
  BY <1>2, <1>3, NothingBehindAll
<1>5. \/ writeQueue' = Tail(writeQueue)
      \/ \E y \in Seq(Bytes) : /\ y # <<>> /\ writeQueue' = <<y>> \o Tail(writeQueue)
                               /\ UNCHANGED closed
  <2>1. ASSUME NEW n \in Nat, Write(n), n # Len(Head(writeQueue))
        PROVE  \E y \in Seq(Bytes) : /\ y # <<>> /\ writeQueue' = <<y>> \o Tail(writeQueue)
                                     /\ UNCHANGED closed
    <3> DEFINE first == Head(writeQueue)
               y == SubSeq(first, n + 1, Len(first))
    <3>1. n < Len(first) /\ writeQueue' = <<y>> \o Tail(writeQueue) /\ UNCHANGED closed
      <4>1. n <= Len(first) /\ Len(first) \in Nat
        BY <1>3, <2>1 DEF Write
      <4>2. n < Len(first)
        BY <2>1, <4>1
      <4>3. writeQueue' = <<y>> \o Tail(writeQueue) /\ UNCHANGED flags
        BY <2>1 DEF Write
      <4> QED
        BY <4>2, <4>3 DEF flags
    <3>2. y \in Seq(Bytes) /\ y # <<>>
      <4>1. first \in Seq(Bytes)
        BY <1>3
      <4> HIDE DEF first
      <4>2. y \in Seq(Bytes) /\ Len(y) = Len(first) - n
        BY <3>1, <4>1
      <4> HIDE DEF y
      <4>3. Len(y) # 0
        BY <3>1, <4>1, <4>2
      <4> QED
        BY <4>2, <4>3
    <3> QED
      BY <3>1, <3>2
  <2>2. ASSUME NEW n \in Nat, Write(n), n = Len(Head(writeQueue))
        PROVE  writeQueue' = Tail(writeQueue)
    BY <2>2 DEF Write, Popped
  <2>3. CASE WriteError
    BY <2>3 DEF WriteError, Popped
  <2> QED
    BY <2>1, <2>2, <2>3
<1>6. writeQueue' # <<>> => writeQueue'[Len(writeQueue')] # <<>>
  <2>1. CASE writeQueue' = Tail(writeQueue)
    <3>1. Len(writeQueue') = Len(writeQueue) - 1
          /\ (writeQueue' # <<>> => writeQueue'[Len(writeQueue')] = writeQueue[Len(writeQueue)])
      BY <1>1, <1>3, <2>1
    <3> QED
      BY <1>1, <3>1 DEF StreamInv, Queues
  <2>2. ASSUME NEW y \in Seq(Bytes), y # <<>>, writeQueue' = <<y>> \o Tail(writeQueue)
        PROVE  writeQueue'[Len(writeQueue')] # <<>>
    <3> DEFINE r == Tail(writeQueue)
    <3>1. /\ r \in Seq(Seq(Bytes)) /\ (r # <<>> => r[Len(r)] = writeQueue[Len(writeQueue)])
          /\ writeQueue' = <<y>> \o r
      BY <1>1, <1>3, <2>2
    <3> HIDE DEF r
    <3>2. /\ r = <<>> => writeQueue'[Len(writeQueue')] = y
          /\ r # <<>> => writeQueue'[Len(writeQueue')] = r[Len(r)]
      BY <3>1
    <3> QED
      BY <1>1, <2>2, <3>1, <3>2 DEF StreamInv, Queues
  <2> QED
    BY <1>5, <2>1, <2>2
<1>7. Queues'
  BY <1>1, <1>6 DEF StreamInv, Queues
<1>8. Shut' /\ Greeted'
  BY <1>1, <1>4 DEF StreamInv, Shut, Greeted
<1>9. Answered'
  <2> SUFFICES ASSUME closing, ~ broken
               PROVE  bufferQueue = <<>> /\ buffer = <<>> /\ (closed' => stream' = accepted)
    BY <1>1 DEF Answered
  <2>1. bufferQueue = <<>> /\ buffer = <<>> /\ (closed => stream = accepted)
    BY <1>1 DEF StreamInv, Answered
  <2>2. ASSUME ~ closed, closed' PROVE stream' = accepted
    <3>1. ~ shut
      BY <2>2 DEF StreamInv, Shut
    <3>2. writeQueue' = <<>>
      <4>1. writeQueue' = Tail(writeQueue)
        BY <1>5, <2>2
      <4>2. Popped \/ UNCHANGED flags
        BY DEF Write, WriteError
      <4>3. Popped
        BY <2>2, <4>2 DEF flags
      <4> QED
        BY <2>2, <4>1, <4>3 DEF Popped, flags
    <3>3. Flow(Bytes, accepted, stream', <<>>, <<>>, <<>>)
      BY <1>1, <1>2, <2>1, <3>1, <3>2 DEF DataInv, InFlow
    <3> QED
      BY <1>3, <3>3, FlowOver
  <2> QED
    BY <1>4, <2>1, <2>2
<1> QED
  BY <1>2, <1>7, <1>8, <1>9 DEF StreamInv

-----------------------------------------------------------------------------
LEMMA StreamStarts == Init => StreamInv
<1> SUFFICES ASSUME Init PROVE StreamInv
  OBVIOUS
<1>1. StreamTypes
  BY DEF Init, StreamTypes
<1>2. StreamInOrder
  BY DEF Init, StreamInOrder, IsPrefix
<1>3. Flow(Bytes, <<>>, <<>>, <<>>, <<>>, <<>>)
  <2>1. IsCut(Bytes, <<>>, <<>>, <<0>>)
    BY DEF IsCut
  <2>2. Piece(<<>>, 0, 0) = <<>>
    BY DEF Piece
  <2>3. <<0>>[1] = 0 /\ Len(<<0>>) = 1 /\ Len(<<>>) = 0
    OBVIOUS
  <2> QED
    BY <2>1, <2>2, <2>3 DEF Flow
<1>4. InFlow
  BY <1>3 DEF Init, InFlow
<1>5. Queues /\ Shut /\ Greeted /\ Answered
  BY DEF Init, Queues, Shut, Greeted, Answered
<1> QED
  BY <1>1, <1>2, <1>4, <1>5 DEF StreamInv, DataInv

LEMMA StreamSteps == IInv /\ StreamInv /\ [Next]_vars => StreamInv'
<1> SUFFICES ASSUME IInv, StreamInv, [Next]_vars PROVE StreamInv'
  OBVIOUS
<1>1. CASE NetStep
  <2>1. CASE Dequeue \/ Drained
    BY <2>1, DequeueStream, DrainedStream
  <2>2. CASE WriteSome \/ WriteError
    <3>1. \A n \in 0 .. BufferSize + Len(accepted) : n \in Nat
      OBVIOUS
    <3> QED
      BY <2>2, <3>1, WriteStream DEF WriteSome
  <2>3. CASE Check \/ NoQueryReady \/ AllRead \/ HandleAuthSession \/ LockSession
    BY <2>3, NetCalm, CalmKept
  <2>4. CASE Callbacks \/ ReadDataHandler
    BY <2>4, CallbackStream, ReadDataStream
  <2> QED
    BY <1>1, <2>1, <2>2, <2>3, <2>4 DEF NetStep
<1>2. CASE \E t \in Senders : BeginSend(t) \/ EndSend(t) \/ KickPlayer(t)
  BY <1>2, WorldSends, WorldCalm, CalmKept
<1>3. CASE BeginDelete \/ DropSocket \/ EndDelete
  BY <1>3, WorldCalm, CalmKept
<1>4. CASE Update \/ WriteHandlerWrapper \/ ReadHandlerInternal \/ Closing
  BY <1>4, NetCalm, ReadCalm, ClosingCalm, CalmKept DEF Closing
<1>5. CASE \E request \in Requests : ClientSends(request)
  BY <1>5, ClientCalm, CalmKept
<1>6. CASE Break \/ Terminated \/ UNCHANGED vars
  BY <1>6, NetCalm, CalmKept DEF Terminated
<1> QED
  BY <1>1, <1>2, <1>3, <1>4, <1>5, <1>6 DEF Next, Requests

THEOREM StreamInvariant == Spec => [](IInv /\ StreamInv)
<1>1. Init => IInv /\ StreamInv
  BY Starts, StreamStarts
<1>2. (IInv /\ StreamInv) /\ [Next]_vars => (IInv /\ StreamInv)'
  BY Steps, StreamSteps
<1> QED
  BY <1>1, <1>2, PTL DEF Spec

\* The peer gets the bytes of the packets in the order in which they were put
\* into _bufferQueue, for any sizes of packets and buffers and any partial
\* writes.
THEOREM BytesInOrder == Spec => []StreamInOrder
<1>1. IInv /\ StreamInv => StreamInOrder
  BY DEF StreamInv, DataInv
<1> QED
  BY <1>1, StreamInvariant, PTL

\* A client that is refused has been sent everything, the reason last, when the
\* server closes the connection (DelayedCloseSocket, HandleQueue).
THEOREM RefusedGetAnswer == Spec => []AnswerBeforeClose
<1>1. IInv /\ StreamInv => AnswerBeforeClose
  BY DEF StreamInv, Answered, AnswerBeforeClose
<1> QED
  BY <1>1, StreamInvariant, PTL
=============================================================================
