----------------------------- MODULE WorldSocket -----------------------------
(***************************************************************************)
(* One connection of the world server: WorldSocket over Socket, updated by *)
(* its NetworkThread.  Packets pass from _bufferQueue, into which any      *)
(* thread puts them, through MessageBuffers in _writeQueue to the peer.    *)
(* The socket authenticates its client with three queries, creates the     *)
(* WorldSession and hands it to the world, which sends, kicks and deletes. *)
(*                                                                         *)
(* The network thread runs the timer and the completion handlers one after *)
(* the other; its steps are split where the threads of the world can come  *)
(* between.  These share with it the flags _closed and _closing, the       *)
(* queue _bufferQueue, and _worldSession under _worldSessionLock.          *)
(***************************************************************************)
EXTENDS Integers, Sequences, SequencesExt

CONSTANTS MapThreads,  \* map update threads that send to the session or kick it
          Sizes,       \* sizes of packets, header included
          BufferSize,  \* _sendBufferSize
          MaxPackets,  \* bound: packets in all when the world sends its last
          MaxRequests  \* bound: packets the client sends once authenticated

Net   == "net"    \* the network thread
World == "world"  \* the world thread
Senders == MapThreads \cup {World}
Threads == Senders \cup {Net}

ASSUME ThreadsAssumption == Net \notin Senders
ASSUME SizesAssumption == Sizes \subseteq Nat \ {0} /\ BufferSize \in Nat \ {0}
ASSUME BoundsAssumption == MaxPackets \in Nat /\ MaxRequests \in Nat

VARIABLES
  closed, closing,  \* _closed, _closing
  shut,             \* the sending side of the TCP connection is shut down
  broken,           \* the peer is gone: reading and writing fail
  closer,           \* how far each thread is in CloseSocket
  bufferQueue,      \* _bufferQueue; a packet is the sequence of its bytes
  buffer,           \* the MessageBuffer that Update fills
  writeQueue,       \* _writeQueue; a MessageBuffer is what is left to be sent of it
  isWritingAsync,   \* _isWritingAsync
  writePending,     \* the io_context waits for the socket to become writable
  reading,          \* an async_read_some is pending
  received,         \* read and not handled yet
  netpc,            \* where the network thread is
  removed,          \* the socket is not in NetworkThread::_sockets any more
  query,            \* the query of _queryProcessor
  worldSession,     \* _worldSession is not null
  locked,           \* the network thread holds _worldSessionLock
  session,          \* what became of the WorldSession
  sending,          \* threads that passed the IsOpen of SendPacket
  client,           \* what the client has sent and the server not read, and how much more it sends
  accepted,         \* history: every byte put into _bufferQueue
  stream            \* history: every byte the peer was sent

flags     == <<closed, closing, shut, broken, closer>>
writing   == <<buffer, writeQueue, isWritingAsync, writePending>>
receiving == <<reading, received, client>>
owned     == <<query, worldSession, locked, session>>
vars == <<flags, bufferQueue, writing, receiving, netpc, removed, owned, sending,
          accepted, stream>>

IsOpen == ~ closed /\ ~ closing

TypeOK ==
  /\ \A flag \in {closed, closing, shut, broken, isWritingAsync, writePending, reading,
                  removed, worldSession, locked} : flag \in BOOLEAN
  /\ closer \in [Threads -> {"no", "shutdown", "onclose"}]
  /\ bufferQueue \in Seq(Seq(Nat \X Nat)) /\ writeQueue \in Seq(Seq(Nat \X Nat))
  /\ buffer \in Seq(Nat \X Nat)
  /\ received \in Seq({"auth", "ping", "other"})
  /\ netpc \in {"idle", "drain", "check", "write", "queries", "handler", "read", "session"}
  /\ query \in {"none", "ip", "account", "permissions"}
  /\ session \in {"none", "created", "added", "dying", "deleted"}
  /\ sending \subseteq Senders
  /\ client \in [sent : Seq({"auth", "ping", "other"}), authed : BOOLEAN, left : 0 .. MaxRequests]
  /\ accepted \in Seq(Nat \X Nat) /\ stream \in Seq(Nat \X Nat)

\* A connection whose socket was started and added to a network thread.
Init ==
  /\ closed = FALSE /\ closing = FALSE /\ shut = FALSE /\ broken = FALSE
  /\ closer = [t \in Threads |-> "no"]
  /\ bufferQueue = <<>> /\ buffer = <<>> /\ writeQueue = <<>>
  /\ isWritingAsync = FALSE /\ writePending = FALSE
  /\ reading = FALSE /\ received = <<>>
  /\ netpc = "idle" /\ removed = FALSE
  /\ query = "ip"
  /\ worldSession = FALSE /\ locked = FALSE /\ session = "none"
  /\ sending = {}
  /\ client = [sent |-> <<>>, authed |-> FALSE, left |-> MaxRequests]
  /\ accepted = <<>> /\ stream = <<>>

-----------------------------------------------------------------------------
(* Parts of the actions.                                                   *)

Sent == IF accepted = <<>> THEN 0 ELSE Last(accepted)[1]

\* The part of SendPacket behind its IsOpen: _bufferQueue.Enqueue.
Enqueue(size) ==
  LET packet == [k \in 1 .. size |-> <<Sent + 1, k>>] IN
  /\ bufferQueue' = Append(bufferQueue, packet)
  /\ accepted' = accepted \o packet

\* SendPacket on the network thread.  One that passes IsOpen just before another
\* thread closes the socket only queues a packet that is never sent.
SendPacket(size) ==
  IF IsOpen THEN Enqueue(size) ELSE UNCHANGED <<bufferQueue, accepted>>

SendAuthResponseError == \E size \in Sizes : SendPacket(size)

\* Mutant: the socket is closed at once.
DelayedCloseSocket_Now == closing' = TRUE /\ closed' = TRUE

DelayedCloseSocket == closing' = TRUE /\ UNCHANGED closed

\* AsyncRead, from a state in which none is pending.
AsyncRead == reading' = IsOpen

\* The first step of CloseSocket in thread t: _closed.exchange(true).
CloseSocket(t) ==
  /\ closed' = TRUE
  /\ closer' = IF closed THEN closer ELSE [closer EXCEPT ![t] = "shutdown"]
  /\ UNCHANGED <<closing, shut, broken>>

NotInClose(t) == closer[t] = "no"

-----------------------------------------------------------------------------
(* The rest of CloseSocket, in any thread.                                 *)

Shutdown(t) ==
  /\ closer[t] = "shutdown"
  /\ shut' = TRUE
  /\ closer' = [closer EXCEPT ![t] = "onclose"]
  /\ UNCHANGED <<closed, closing, broken, bufferQueue, writing, receiving, netpc, removed,
                 owned, sending, accepted, stream>>

\* Mutant: the session stays known to the socket.
OnClose_Kept(t) ==
  /\ closer[t] = "onclose" /\ ~ locked
  /\ closer' = [closer EXCEPT ![t] = "no"]
  /\ UNCHANGED <<closed, closing, shut, broken, bufferQueue, writing, receiving, netpc,
                 removed, owned, sending, accepted, stream>>

OnClose(t) ==
  /\ closer[t] = "onclose" /\ ~ locked
  /\ worldSession' = FALSE
  /\ closer' = [closer EXCEPT ![t] = "no"]
  /\ UNCHANGED <<closed, closing, shut, broken, bufferQueue, writing, receiving, netpc,
                 removed, query, locked, session, sending, accepted, stream>>

-----------------------------------------------------------------------------
(* The network thread: WorldSocket::Update, every ten milliseconds.        *)

NetAt(place) == netpc = place /\ NotInClose(Net)

Update ==
  /\ NetAt("idle") /\ ~ removed
  /\ netpc' = "drain" /\ buffer' = <<>>
  /\ UNCHANGED <<flags, bufferQueue, writeQueue, isWritingAsync, writePending, receiving,
                 removed, owned, sending, accepted, stream>>

\* Mutant: a packet larger than a buffer overtakes the packets in the buffer.
Packed_LargeFirst(packet) ==
  IF Len(packet) > BufferSize
  THEN /\ writeQueue' = Append(writeQueue, packet)
       /\ UNCHANGED buffer
  ELSE IF Len(buffer) + Len(packet) > BufferSize
  THEN writeQueue' = Append(writeQueue, buffer) /\ buffer' = packet
  ELSE buffer' = buffer \o packet /\ UNCHANGED writeQueue

\* A dequeued packet is written to the buffer; before that a buffer with too
\* little space left is queued, even an empty one; and a packet larger than a
\* buffer is queued in a buffer of its own.
Packed(packet) ==
  LET full  == Len(buffer) + Len(packet) > BufferSize
      large == Len(packet) > BufferSize
      queue == IF full THEN Append(writeQueue, buffer) ELSE writeQueue
  IN
  /\ writeQueue' = IF large THEN Append(queue, packet) ELSE queue
  /\ buffer' = (IF full THEN <<>> ELSE buffer) \o (IF large THEN <<>> ELSE packet)

Dequeue ==
  /\ NetAt("drain") /\ bufferQueue # <<>>
  /\ Packed(Head(bufferQueue))
  /\ bufferQueue' = Tail(bufferQueue)
  /\ UNCHANGED <<flags, isWritingAsync, writePending, receiving, netpc, removed, owned,
                 sending, accepted, stream>>

Drained ==
  /\ NetAt("drain") /\ bufferQueue = <<>>
  /\ writeQueue' = IF buffer = <<>> THEN writeQueue ELSE Append(writeQueue, buffer)
  /\ buffer' = <<>>
  /\ netpc' = "check"
  /\ UNCHANGED <<flags, bufferQueue, isWritingAsync, writePending, receiving, removed, owned,
                 sending, accepted, stream>>

\* Mutant: a closed socket goes on to its queries.
Stops_Never == FALSE

\* Whether Socket::Update returns false.
Stops == closed

\* Socket::Update before its loop.  When it returns false the socket leaves the
\* network thread; only handlers that are pending still run.  With nothing queued the loop
\* does nothing, even if the socket is to be closed.
Check ==
  /\ NetAt("check")
  /\ IF Stops
     THEN removed' = TRUE /\ netpc' = "idle"
     ELSE /\ netpc' = IF isWritingAsync \/ writeQueue = <<>> THEN "queries" ELSE "write"
          /\ UNCHANGED removed
  /\ UNCHANGED <<flags, bufferQueue, writing, receiving, owned, sending, accepted, stream>>

\* A write handler calls HandleQueue once, Update calls it while it returns true.
After(more) ==
  IF netpc = "handler" THEN "idle" ELSE IF more THEN "write" ELSE "queries"

\* The first MessageBuffer is popped; a socket that is to be closed is closed
\* with the last one.
Popped ==
  /\ writeQueue' = Tail(writeQueue)
  /\ IF closing /\ Tail(writeQueue) = <<>> THEN CloseSocket(Net) ELSE UNCHANGED flags
  /\ UNCHANGED <<isWritingAsync, writePending>>

\* AsyncProcessQueue: wait until the socket is writable.
AsyncProcessQueue ==
  /\ isWritingAsync' = TRUE
  /\ writePending' = (~ isWritingAsync \/ writePending)
  /\ netpc' = After(FALSE)

HandlingQueue == (NetAt("write") \/ NetAt("handler")) /\ writeQueue # <<>>

\* HandleQueue when write_some takes the first n bytes of a buffer: all of
\* them, or some, or none because it would block.
Write(n) ==
  LET first == Head(writeQueue) IN
  /\ HandlingQueue /\ n <= Len(first)
  /\ first # <<>> => ~ broken /\ ~ shut
  /\ stream' = stream \o SubSeq(first, 1, n)
  /\ IF n = Len(first)
     THEN Popped /\ netpc' = After(n > 0 /\ Tail(writeQueue) # <<>>)
     ELSE /\ writeQueue' = <<SubSeq(first, n + 1, Len(first))>> \o Tail(writeQueue)
          /\ AsyncProcessQueue
          /\ UNCHANGED flags
  /\ UNCHANGED <<bufferQueue, buffer, receiving, removed, owned, sending, accepted>>

\* HandleQueue when write_some fails.
WriteError ==
  /\ HandlingQueue /\ Head(writeQueue) # <<>>
  /\ broken \/ shut
  /\ Popped
  /\ netpc' = After(FALSE)
  /\ UNCHANGED <<bufferQueue, buffer, receiving, removed, owned, sending, accepted, stream>>

\* Mutant: the flag is not reset.
WriteHandlerWrapper_FlagKept ==
  /\ NetAt("idle") /\ writePending
  /\ writePending' = FALSE
  /\ netpc' = IF writeQueue = <<>> THEN "idle" ELSE "handler"
  /\ UNCHANGED <<flags, bufferQueue, buffer, writeQueue, isWritingAsync, receiving, removed,
                 owned, sending, accepted, stream>>

\* The socket is writable, or broken.
WriteHandlerWrapper ==
  /\ NetAt("idle") /\ writePending
  /\ writePending' = FALSE /\ isWritingAsync' = FALSE
  /\ netpc' = IF writeQueue = <<>> THEN "idle" ELSE "handler"
  /\ UNCHANGED <<flags, bufferQueue, buffer, writeQueue, receiving, removed, owned, sending,
                 accepted, stream>>

-----------------------------------------------------------------------------
(* The network thread: ProcessReadyQueries, at the end of an update.       *)

\* No query is ready.
NoQueryReady ==
  /\ NetAt("queries")
  /\ netpc' = "idle"
  /\ UNCHANGED <<flags, bufferQueue, writing, receiving, removed, owned, sending, accepted,
                 stream>>

QueryReady(which) == NetAt("queries") /\ query = which /\ netpc' = "idle"

\* The answer of CheckIpCallback or HandleAuthSessionCallback is no.
Refuse ==
  /\ query' = "none"
  /\ SendAuthResponseError
  /\ DelayedCloseSocket
  /\ UNCHANGED <<shut, broken, closer, writing, receiving, removed, worldSession, locked,
                 session, sending, stream>>

\* The address is banned, or the challenge is sent (HandleSendAuthSession).
CheckIpCallback ==
  /\ QueryReady("ip")
  /\ \/ Refuse
     \/ /\ query' = "none"
        /\ AsyncRead
        /\ \E size \in Sizes : SendPacket(size)
        /\ UNCHANGED <<flags, writing, received, client, removed, worldSession, locked, session,
                       sending, stream>>

\* The account may not log in, or gets a session, and its permissions are
\* asked for (LoadPermissionsAsync).
HandleAuthSessionCallback ==
  /\ QueryReady("account")
  /\ \/ Refuse
     \/ /\ query' = "permissions"
        /\ session' = "created" /\ worldSession' = TRUE
        /\ AsyncRead
        /\ UNCHANGED <<flags, bufferQueue, writing, received, client, removed, locked, sending,
                       accepted, stream>>

\* LoadSessionPermissionsCallback: _worldSession is used without the lock, and
\* handed to World::AddSession.
LoadSessionPermissionsCallback ==
  /\ QueryReady("permissions")
  /\ query' = "none"
  /\ session' = "added"
  /\ UNCHANGED <<flags, bufferQueue, writing, receiving, removed, worldSession, locked, sending,
                 accepted, stream>>

-----------------------------------------------------------------------------
(* The network thread: ReadHandler.                                        *)

\* Something was received, or the peer is gone (ReadHandlerInternal).
ReadHandlerInternal ==
  /\ NetAt("idle") /\ reading
  /\ reading' = FALSE
  /\ \/ /\ broken
        /\ CloseSocket(Net)
        /\ UNCHANGED <<netpc, received, client>>
     \/ /\ ~ broken /\ client.sent # <<>>
        /\ \E n \in 1 .. Len(client.sent) :
             /\ received' = received \o SubSeq(client.sent, 1, n)
             /\ client' = [client EXCEPT !.sent = SubSeq(@, n + 1, Len(@))]
        /\ netpc' = IF IsOpen THEN "read" ELSE "idle"
        /\ UNCHANGED flags
  /\ UNCHANGED <<bufferQueue, writing, removed, owned, sending, accepted, stream>>

\* Everything received is handled: AsyncRead again.
AllRead ==
  /\ NetAt("read") /\ received = <<>>
  /\ AsyncRead
  /\ netpc' = "idle"
  /\ UNCHANGED <<flags, bufferQueue, writing, received, client, removed, owned, sending,
                 accepted, stream>>

\* The first and only CMSG_AUTH_SESSION: nothing is read until the account is
\* known (WaitingForQuery).
HandleAuthSession ==
  /\ NetAt("read") /\ received # <<>> /\ Head(received) = "auth"
  /\ received' = Tail(received)
  /\ query' = "account"
  /\ netpc' = "idle"
  /\ UNCHANGED <<flags, bufferQueue, writing, reading, client, removed, worldSession, locked,
                 session, sending, accepted, stream>>

\* Any other packet: first the lock is taken.
LockSession ==
  /\ NetAt("read") /\ received # <<>> /\ Head(received) # "auth"
  /\ locked' = TRUE
  /\ netpc' = "session"
  /\ UNCHANGED <<flags, bufferQueue, writing, receiving, removed, query, worldSession, session,
                 sending, accepted, stream>>

\* The packet is queued in the session, a ping is noted there and answered.
\* Without session the socket is closed.
ReadDataHandler ==
  /\ NetAt("session")
  /\ received' = Tail(received)
  /\ locked' = FALSE
  /\ IF worldSession
     THEN /\ netpc' = "read"
          /\ IF Head(received) = "ping"
             THEN \E size \in Sizes : SendPacket(size)
             ELSE UNCHANGED <<bufferQueue, accepted>>
          /\ UNCHANGED flags
     ELSE /\ netpc' = "idle"
          /\ CloseSocket(Net)
          /\ UNCHANGED <<bufferQueue, accepted>>
  /\ UNCHANGED <<writing, reading, client, removed, query, worldSession, session, sending,
                 stream>>

-----------------------------------------------------------------------------
(* The threads of the world.  The world thread deletes a session after the *)
(* map updates of its tick, so no map thread is using it then.             *)

othersVars == <<writing, receiving, netpc, removed, query, worldSession, locked, stream>>

Unused == sending = {} /\ \A t \in Senders : NotInClose(t)

\* WorldSession::SendPacket: the socket is open.
BeginSend(t) ==
  /\ session = "added" /\ NotInClose(t) /\ t \notin sending
  /\ IsOpen /\ Sent < MaxPackets
  /\ sending' = sending \cup {t}
  /\ UNCHANGED <<flags, bufferQueue, othersVars, session, accepted>>

EndSend(t) ==
  /\ t \in sending
  /\ sending' = sending \ {t}
  /\ \E size \in Sizes : Enqueue(size)
  /\ UNCHANGED <<flags, othersVars, session>>

\* WorldSession::KickPlayer, or the connection is found idle.
KickPlayer(t) ==
  /\ session = "added" /\ NotInClose(t) /\ t \notin sending
  /\ CloseSocket(t)
  /\ UNCHANGED <<bufferQueue, othersVars, session, sending, accepted>>

\* WorldSession::Update finds the socket closed and lets it go, and the session
\* is deleted.
DropSocket ==
  /\ session = "added" /\ Unused /\ ~ IsOpen
  /\ session' = "deleted"
  /\ UNCHANGED <<flags, bufferQueue, othersVars, sending, accepted>>

\* The session is deleted with its socket: the destructor closes it first.
BeginDelete ==
  /\ session = "added" /\ Unused
  /\ session' = "dying"
  /\ CloseSocket(World)
  /\ UNCHANGED <<bufferQueue, othersVars, sending, accepted>>

EndDelete ==
  /\ session = "dying" /\ NotInClose(World)
  /\ session' = "deleted"
  /\ UNCHANGED <<flags, bufferQueue, othersVars, sending, accepted>>

-----------------------------------------------------------------------------
(* The client and the network.  A client answers the challenge, which it   *)
(* needs in full for that, and then sends what it likes.                   *)

ClientSends(request) ==
  /\ ~ broken
  /\ stream # <<>> /\ \A k \in DOMAIN accepted : accepted[k][1] = 1 => k <= Len(stream)
  /\ IF client.authed
     THEN /\ client.left > 0 /\ request # "auth"
          /\ client' = [client EXCEPT !.sent = Append(@, request), !.left = @ - 1]
     ELSE /\ request = "auth"
          /\ client' = [client EXCEPT !.sent = Append(@, request), !.authed = TRUE]
  /\ UNCHANGED <<flags, bufferQueue, writing, reading, received, netpc, removed, owned,
                 sending, accepted, stream>>

Break ==
  /\ ~ broken
  /\ broken' = TRUE
  /\ UNCHANGED <<closed, closing, shut, closer, bufferQueue, writing, receiving, netpc,
                 removed, owned, sending, accepted, stream>>

-----------------------------------------------------------------------------
WriteSome == \E n \in 0 .. BufferSize + Len(accepted) : Write(n)

Progress == \E n \in 1 .. Len(accepted) : Write(n)

Callbacks == CheckIpCallback \/ HandleAuthSessionCallback \/ LoadSessionPermissionsCallback

\* Steps the network thread takes once it has started.
NetStep ==
  \/ Dequeue \/ Drained \/ Check \/ WriteSome \/ WriteError \/ NoQueryReady
  \/ Callbacks \/ AllRead \/ HandleAuthSession \/ LockSession \/ ReadDataHandler

Closing == \E t \in Threads : Shutdown(t) \/ OnClose(t)

\* Nothing is left of the connection but a session.
Terminated == removed /\ ~ writePending /\ NetAt("idle") /\ UNCHANGED vars

Next ==
  \/ Update \/ WriteHandlerWrapper \/ ReadHandlerInternal \/ NetStep \/ Closing
  \/ \E t \in Senders : BeginSend(t) \/ EndSend(t) \/ KickPlayer(t)
  \/ DropSocket \/ BeginDelete \/ EndDelete
  \/ \E request \in {"auth", "ping", "other"} : ClientSends(request)
  \/ Break
  \/ Terminated

\* The io_context serves its timer and its handlers in turn, and no thread
\* stops inside a function.  A peer that does not go away reads what it is
\* sent, and every query is answered in the end.
Fairness ==
  /\ WF_vars(NetStep) /\ WF_vars(Closing)
  /\ \A t \in Senders : WF_vars(EndSend(t))
  /\ SF_vars(Update) /\ SF_vars(WriteHandlerWrapper) /\ SF_vars(ReadHandlerInternal)
  /\ SF_vars(Progress) /\ SF_vars(Callbacks)

Spec == Init /\ [][Next]_vars /\ Fairness

-----------------------------------------------------------------------------
\* The peer gets the bytes of the packets in the order in which they were put
\* into _bufferQueue, none twice and none left out: across buffers that are
\* filled, buffers queued by themselves, partial writes and waiting.
StreamInOrder == IsPrefix(stream, accepted)

\* "Marks the socket for closing after write buffer becomes empty" (Socket.h):
\* a client that is refused has been sent everything, the reason last, when the
\* server closes the connection.
AnswerBeforeClose == closing /\ closed /\ ~ broken => stream = accepted

\* LoadSessionPermissionsCallback, which reads _worldSession without the lock,
\* never finds it null: whoever may close the socket by then keeps the
\* callback from running.
NoNullSession == NetAt("queries") /\ query = "permissions" => worldSession

\* What ReadDataHandler finds in _worldSession under the lock is no deleted
\* session, although a thread that closes the socket second does not wait
\* for the first to reach OnClose.
NoDeletedSession == netpc = "session" /\ worldSession => session # "deleted"

\* A connection is brought to an end or to rest: what was accepted is sent and
\* no packet waits for another one, or for a write that was not asked for; and
\* a connection that is to be closed is closed, which HandleQueue would not do
\* if no reason were queued.
NothingStuck == []<>(closed \/ (stream = accepted /\ ~ closing))
=============================================================================
