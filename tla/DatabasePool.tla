----------------------------- MODULE DatabasePool -----------------------------
(***************************************************************************)
(* DatabaseWorkerPool: operations enqueued for asynchronous execution, the *)
(* worker threads that execute them over a MySQL connection each, deadlock *)
(* retries, lost connections, and Close.  The MySQL server is external: it *)
(* is modelled by what its answers let the worker do, and by what it has   *)
(* made durable.                                                           *)
(*                                                                         *)
(* A call of mysql_query is one action.  A worker whose connection is lost *)
(* reconnects and executes the same statement again (_HandleMySQLErrno);   *)
(* the server may have executed it before the connection broke.            *)
(***************************************************************************)
EXTENDS Integers, Sequences, FiniteSets, SequencesExt

CONSTANTS Operations,    \* the SQLOperation objects callers create
          Kind,          \* "statement", "query" or "transaction", per operation
          Size,          \* the number of statements of each operation
          Workers,       \* the asynchronous connections and their threads
          Scenarios,     \* what is configured and what may happen, see below
          NoOperation, NoWorker

ASSUME OperationsAssumption ==
  /\ NoOperation \notin Operations /\ NoWorker \notin Workers
  /\ IsFiniteSet(Workers)
  /\ Kind \in [Operations -> {"statement", "query", "transaction"}]
  /\ Size \in [Operations -> Nat]
  /\ \A o \in Operations : Kind[o] # "transaction" => Size[o] = 1
\* The workers the pool is opened with, the operations callers enqueue, and
\* bounds on the connections lost, on START TRANSACTION and COMMIT refused, and
\* on statements refused by the server.
ASSUME ScenariosAssumption ==
  Scenarios \subseteq [threads : (SUBSET Workers) \ {{}}, ops : SUBSET Operations,
                      losses : Nat, ignored : Nat, errors : Nat]

VARIABLES
  queue,      \* _queue
  shutdown,   \* ProducerConsumerQueue::_shutdown
  main,       \* where the thread is that calls Close
  closing,    \* the worker whose connection Close is destroying
  token,      \* DatabaseWorker::_cancelationToken
  wpc,        \* where each worker is
  op,         \* the operation it holds
  stmt,       \* ExecuteTransaction: the statement it is at
  error,      \* what ExecuteTransaction has to return
  lock,       \* the holder of TransactionTask::_deadlockLock
  open,       \* server: the connection has an open transaction
  buffer,     \* server: the statements executed in it
  durable,    \* server: what is committed, as <<operation, statements>>
  submitted,  \* history: the operations enqueued, in order
  done,       \* history: operations that reported success
  failed,     \* history: operations that gave up
  losses, ignored, errors,
  scenario

queueVars  == <<queue, shutdown>>
mainVars   == <<main, closing, token>>
workerVars == <<wpc, op, stmt, error, lock>>
serverVars == <<open, buffer, durable>>
history    == <<submitted, done, failed>>
faults     == <<losses, ignored, errors, scenario>>
vars == <<queue, shutdown, main, closing, token, wpc, op, stmt, error, lock, open, buffer,
          durable, submitted, done, failed, losses, ignored, errors, scenario>>

TypeOK ==
  /\ queue \in Seq(Operations) /\ shutdown \in BOOLEAN
  /\ main \in {"open", "cancel", "join", "closing", "closed"}
  /\ closing \in Workers \cup {NoWorker}
  /\ token \in [Workers -> BOOLEAN]
  /\ wpc \in [Workers -> {"pop", "blocked", "popped", "single", "begin", "statement",
                          "rollback", "commit", "result", "lock", "exited"}]
  /\ op \in [Workers -> Operations \cup {NoOperation}]
  /\ \A w \in Workers : wpc[w] = "statement" => stmt[w] \in 1 .. Size[op[w]]
  /\ error \in [Workers -> {"none", "deadlock", "other"}]
  /\ lock \in Workers \cup {NoWorker}
  /\ open \in [Workers -> BOOLEAN]
  /\ buffer \in [Workers -> Seq(Nat)]
  /\ durable \in Seq(Operations \X Seq(Nat))
  /\ submitted \in Seq(Operations)
  /\ done \subseteq Operations /\ failed \subseteq Operations
  /\ scenario \in Scenarios
  /\ losses \in 0 .. scenario.losses /\ ignored \in 0 .. scenario.ignored
  /\ errors \in 0 .. scenario.errors

Init ==
  /\ scenario \in Scenarios
  /\ queue = <<>> /\ shutdown = FALSE
  /\ main = "open" /\ closing = NoWorker
  /\ token = [w \in Workers |-> w \notin scenario.threads]
  /\ wpc = [w \in Workers |-> IF w \in scenario.threads THEN "pop" ELSE "exited"]
  /\ op = [w \in Workers |-> NoOperation]
  /\ stmt = [w \in Workers |-> 1]
  /\ error = [w \in Workers |-> "none"]
  /\ lock = NoWorker
  /\ open = [w \in Workers |-> FALSE]
  /\ buffer = [w \in Workers |-> <<>>]
  /\ durable = <<>>
  /\ submitted = <<>> /\ done = {} /\ failed = {}
  /\ losses = 0 /\ ignored = 0 /\ errors = 0

-----------------------------------------------------------------------------
(* The callers of the pool.                                                *)

\* Mutant: the newest operation is served first.
Enqueue_Front(o) ==
  /\ main = "open"
  /\ o \in scenario.ops \ ToSet(submitted)
  /\ queue' = <<o>> \o queue
  /\ submitted' = Append(submitted, o)
  /\ \/ /\ \A w \in Workers : wpc[w] # "blocked"
        /\ UNCHANGED wpc
     \/ \E w \in Workers : wpc[w] = "blocked" /\ wpc' = [wpc EXCEPT ![w] = "pop"]
  /\ UNCHANGED <<shutdown, mainVars, op, stmt, error, lock, serverVars, done, failed, faults>>

\* Mutant: Push does not wake a worker.
Enqueue_NoNotify(o) ==
  /\ main = "open"
  /\ o \in scenario.ops \ ToSet(submitted)
  /\ queue' = Append(queue, o)
  /\ submitted' = Append(submitted, o)
  /\ UNCHANGED <<shutdown, mainVars, workerVars, serverVars, done, failed, faults>>

\* Execute, AsyncQuery, DelayQueryHolder, CommitTransaction: Enqueue.
Enqueue(o) ==
  /\ main = "open"
  /\ o \in scenario.ops \ ToSet(submitted)
  /\ queue' = Append(queue, o)
  /\ submitted' = Append(submitted, o)
  /\ \/ /\ \A w \in Workers : wpc[w] # "blocked"
        /\ UNCHANGED wpc
     \/ \E w \in Workers : wpc[w] = "blocked" /\ wpc' = [wpc EXCEPT ![w] = "pop"]
  /\ UNCHANGED <<shutdown, mainVars, op, stmt, error, lock, serverVars, done, failed, faults>>

\* Close destroys the asynchronous connections one after the other; the
\* destructor of each sets its worker's token, cancels the queue all workers
\* share and joins the thread.
StopWorker(w) ==
  /\ main \in {"open", "closing"}
  /\ ~token[w]
  /\ token' = [token EXCEPT ![w] = TRUE]
  /\ closing' = w
  /\ main' = "cancel"
  /\ UNCHANGED <<queueVars, workerVars, serverVars, history, faults>>

\* Mutant: Cancel does not wake the workers.
Cancel_NoNotify ==
  /\ main = "cancel"
  /\ queue' = <<>> /\ shutdown' = TRUE
  /\ main' = "join"
  /\ UNCHANGED <<closing, token, workerVars, serverVars, history, faults>>

Cancel ==
  /\ main = "cancel"
  /\ queue' = <<>> /\ shutdown' = TRUE
  /\ wpc' = [w \in Workers |-> IF wpc[w] = "blocked" THEN "pop" ELSE wpc[w]]
  /\ main' = "join"
  /\ UNCHANGED <<closing, token, op, stmt, error, lock, serverVars, history, faults>>

Join ==
  /\ main = "join"
  /\ wpc[closing] = "exited"
  /\ closing' = NoWorker
  /\ main' = IF \A w \in Workers : token[w] THEN "closed" ELSE "closing"
  /\ UNCHANGED <<queueVars, token, workerVars, serverVars, history, faults>>

-----------------------------------------------------------------------------
(* DatabaseWorker::WorkerThread.                                           *)

Block(w) ==
  /\ wpc[w] = "pop"
  /\ queue = <<>> /\ ~shutdown
  /\ wpc' = [wpc EXCEPT ![w] = "blocked"]
  /\ UNCHANGED <<queueVars, mainVars, op, stmt, error, lock, serverVars, history, faults>>

\* WaitAndPop; the operation pointer stays null when the queue is shut down.
Pop(w) ==
  /\ wpc[w] = "pop"
  /\ wpc' = [wpc EXCEPT ![w] = "popped"]
  /\ \/ /\ shutdown
        /\ UNCHANGED <<queue, op>>
     \/ /\ ~shutdown /\ queue # <<>>
        /\ op' = [op EXCEPT ![w] = Head(queue)]
        /\ queue' = Tail(queue)
  /\ UNCHANGED <<shutdown, mainVars, stmt, error, lock, serverVars, history, faults>>

SpuriousWakeup(w) ==
  /\ wpc[w] = "blocked"
  /\ wpc' = [wpc EXCEPT ![w] = "pop"]
  /\ UNCHANGED <<queueVars, mainVars, op, stmt, error, lock, serverVars, history, faults>>

\* The worker leaves when it is cancelled, whatever it has popped, and when
\* it has popped nothing.
CheckToken(w) ==
  /\ wpc[w] = "popped"
  /\ wpc' = [wpc EXCEPT ![w] =
       IF token[w] \/ op[w] = NoOperation THEN "exited"
       ELSE IF Kind[op[w]] = "transaction" THEN "begin" ELSE "single"]
  /\ UNCHANGED <<queueVars, mainVars, op, stmt, error, lock, serverVars, history, faults>>

-----------------------------------------------------------------------------
(* The server's side of one mysql_query on the connection of worker w.     *)

\* It executes statement i: within the open transaction, or at once.
Executes(w, i) ==
  IF open[w] THEN buffer' = [buffer EXCEPT ![w] = Append(@, i)] /\ UNCHANGED durable
             ELSE durable' = Append(durable, <<op[w], <<i>> >>) /\ UNCHANGED buffer

\* The open transaction of w, if any, is rolled back.
RollsBack(w) ==
  /\ open' = [open EXCEPT ![w] = FALSE]
  /\ buffer' = [buffer EXCEPT ![w] = <<>>]

Loses ==
  losses < scenario.losses /\ losses' = losses + 1 /\ UNCHANGED <<ignored, errors, scenario>>
Refuses ==
  errors < scenario.errors /\ errors' = errors + 1 /\ UNCHANGED <<losses, ignored, scenario>>

\* A statement or a query of its own.  It fails for good on any error that
\* does not mean that the connection is lost; the promise of a query is kept
\* in either case.
ExecuteSingle(w) ==
  /\ wpc[w] = "single"
  /\ \/ /\ IF Kind[op[w]] = "statement" THEN Executes(w, 1) ELSE UNCHANGED <<buffer, durable>>
        /\ done' = done \cup {op[w]}
        /\ UNCHANGED <<failed, faults>>
     \/ /\ Refuses
        /\ failed' = failed \cup {op[w]}
        /\ UNCHANGED <<done, buffer, durable>>
  /\ wpc' = [wpc EXCEPT ![w] = "pop"]
  /\ op' = [op EXCEPT ![w] = NoOperation]
  /\ UNCHANGED <<queueVars, mainVars, stmt, error, lock, open, submitted>>

\* The connection is lost; the worker reconnects and will try again.
LoseSingle(w) ==
  /\ wpc[w] = "single"
  /\ Loses
  /\ \/ Kind[op[w]] = "statement" /\ Executes(w, 1)
     \/ UNCHANGED <<buffer, durable>>
  /\ UNCHANGED <<queueVars, mainVars, workerVars, open, history>>

-----------------------------------------------------------------------------
(* MySQLConnection::ExecuteTransaction.                                    *)

\* An empty transaction is not executed, and returns -1.
RejectEmpty(w) ==
  /\ wpc[w] = "begin"
  /\ Size[op[w]] = 0
  /\ error' = [error EXCEPT ![w] = "other"]
  /\ wpc' = [wpc EXCEPT ![w] = "result"]
  /\ UNCHANGED <<queueVars, mainVars, op, stmt, lock, serverVars, history, faults>>

\* Mutant: the transaction is not opened.
BeginTransaction_Autocommit(w) ==
  /\ wpc[w] = "begin"
  /\ Size[op[w]] # 0
  /\ stmt' = [stmt EXCEPT ![w] = 1]
  /\ wpc' = [wpc EXCEPT ![w] = "statement"]
  /\ UNCHANGED <<queueVars, mainVars, op, error, lock, serverVars, history, faults>>

BeginTransaction(w) ==
  /\ wpc[w] = "begin"
  /\ Size[op[w]] # 0
  /\ open' = [open EXCEPT ![w] = TRUE]
  /\ stmt' = [stmt EXCEPT ![w] = 1]
  /\ wpc' = [wpc EXCEPT ![w] = "statement"]
  /\ UNCHANGED <<queueVars, mainVars, op, error, lock, buffer, durable, history, faults>>

\* Execute of one element succeeds.
ExecuteStatement(w) ==
  /\ wpc[w] = "statement"
  /\ Executes(w, stmt[w])
  /\ IF stmt[w] = Size[op[w]]
       THEN wpc' = [wpc EXCEPT ![w] = "commit"] /\ UNCHANGED stmt
       ELSE stmt' = [stmt EXCEPT ![w] = @ + 1] /\ UNCHANGED wpc
  /\ UNCHANGED <<queueVars, mainVars, op, error, lock, open, history, faults>>

\* Mutant: a failed statement is skipped.
RefuseStatement_Skip(w) ==
  /\ wpc[w] = "statement"
  /\ Refuses
  /\ IF stmt[w] = Size[op[w]]
       THEN wpc' = [wpc EXCEPT ![w] = "commit"] /\ UNCHANGED stmt
       ELSE stmt' = [stmt EXCEPT ![w] = @ + 1] /\ UNCHANGED wpc
  /\ UNCHANGED <<queueVars, mainVars, op, error, lock, serverVars, history>>

\* Execute fails.  The server has rolled back the transaction if the error is
\* a deadlock.
RefuseStatement(w) ==
  /\ wpc[w] = "statement"
  /\ Refuses
  /\ \/ /\ error' = [error EXCEPT ![w] = "deadlock"]
        /\ RollsBack(w)
     \/ /\ error' = [error EXCEPT ![w] = "other"]
        /\ UNCHANGED <<open, buffer>>
  /\ wpc' = [wpc EXCEPT ![w] = "rollback"]
  /\ UNCHANGED <<queueVars, mainVars, op, stmt, lock, durable, history>>

RollbackTransaction(w) ==
  /\ wpc[w] = "rollback"
  /\ RollsBack(w)
  /\ wpc' = [wpc EXCEPT ![w] = "result"]
  /\ UNCHANGED <<queueVars, mainVars, op, stmt, error, lock, durable, history, faults>>

\* Commits what the connection's transaction holds, if it has one.
Commits(w) ==
  durable' = IF open[w] THEN Append(durable, <<op[w], buffer[w]>>) ELSE durable

\* COMMIT; its result is not looked at.
CommitTransaction(w) ==
  /\ wpc[w] = "commit"
  /\ Commits(w)
  /\ RollsBack(w)
  /\ error' = [error EXCEPT ![w] = "none"]
  /\ wpc' = [wpc EXCEPT ![w] = "result"]
  /\ UNCHANGED <<queueVars, mainVars, op, stmt, lock, history, faults>>

\* START TRANSACTION or COMMIT is refused, the connection being alive: the
\* worker does not look at the result and goes on.
RefuseUnchecked(w) ==
  /\ ignored < scenario.ignored
  /\ ignored' = ignored + 1
  /\ \/ /\ wpc[w] = "begin" /\ Size[op[w]] # 0
        /\ stmt' = [stmt EXCEPT ![w] = 1]
        /\ wpc' = [wpc EXCEPT ![w] = "statement"]
        /\ UNCHANGED <<open, buffer, error>>
     \/ /\ wpc[w] = "commit"
        /\ RollsBack(w)
        /\ error' = [error EXCEPT ![w] = "none"]
        /\ wpc' = [wpc EXCEPT ![w] = "result"]
        /\ UNCHANGED stmt
  /\ UNCHANGED <<queueVars, mainVars, op, lock, durable, history, losses, errors, scenario>>

\* The connection is lost: the server rolls back, the worker reconnects (with
\* autocommit on) and executes the same statement again.
LoseTransaction(w) ==
  /\ Loses
  /\ \/ /\ wpc[w] = "statement"
        /\ \/ ~open[w] /\ Executes(w, stmt[w]) /\ UNCHANGED open
           \/ RollsBack(w) /\ UNCHANGED durable
     \/ /\ wpc[w] = "commit"
        /\ Commits(w) \/ UNCHANGED durable
        /\ RollsBack(w)
     \/ /\ wpc[w] = "rollback" \/ (wpc[w] = "begin" /\ Size[op[w]] # 0)
        /\ RollsBack(w) /\ UNCHANGED durable
  /\ UNCHANGED <<queueVars, mainVars, workerVars, history>>

-----------------------------------------------------------------------------
(* TransactionTask::Execute, after ExecuteTransaction has returned.        *)

Leave(w) ==
  /\ wpc' = [wpc EXCEPT ![w] = "pop"]
  /\ op' = [op EXCEPT ![w] = NoOperation]
  /\ lock' = IF lock = w THEN NoWorker ELSE lock

Succeed(w) ==
  /\ wpc[w] = "result" /\ error[w] = "none"
  /\ done' = done \cup {op[w]}
  /\ Leave(w)
  /\ UNCHANGED <<queueVars, mainVars, stmt, error, serverVars, submitted, failed, faults>>

\* A first deadlock: one worker at a time retries, under _deadlockLock.
AwaitLock(w) ==
  /\ wpc[w] = "result" /\ error[w] = "deadlock" /\ lock # w
  /\ wpc' = [wpc EXCEPT ![w] = "lock"]
  /\ UNCHANGED <<queueVars, mainVars, op, stmt, error, lock, serverVars, history, faults>>

AcquireLock(w) ==
  /\ wpc[w] = "lock" /\ lock = NoWorker
  /\ lock' = w
  /\ wpc' = [wpc EXCEPT ![w] = "begin"]
  /\ UNCHANGED <<queueVars, mainVars, op, stmt, error, serverVars, history, faults>>

\* Any error of a retry is retried, for DEADLOCK_MAX_RETRY_TIME_MS.
Retry(w) ==
  /\ wpc[w] = "result" /\ error[w] # "none" /\ lock = w
  /\ wpc' = [wpc EXCEPT ![w] = "begin"]
  /\ UNCHANGED <<queueVars, mainVars, op, stmt, error, lock, serverVars, history, faults>>

\* Another error, or the retries took too long: the transaction is cleaned up.
GiveUp(w) ==
  /\ wpc[w] = "result"
  /\ error[w] = "other" \/ (error[w] = "deadlock" /\ lock = w)
  /\ failed' = failed \cup {op[w]}
  /\ Leave(w)
  /\ UNCHANGED <<queueVars, mainVars, stmt, error, serverVars, submitted, done, faults>>

-----------------------------------------------------------------------------
WorkerStep(w) ==
  \/ Block(w) \/ Pop(w) \/ CheckToken(w) \/ ExecuteSingle(w)
  \/ RejectEmpty(w) \/ BeginTransaction(w) \/ ExecuteStatement(w) \/ RefuseStatement(w)
  \/ RollbackTransaction(w) \/ CommitTransaction(w)
  \/ Succeed(w) \/ AwaitLock(w) \/ AcquireLock(w) \/ Retry(w) \/ GiveUp(w)

CloseStep == Cancel \/ Join \/ (main = "closing" /\ \E w \in Workers : StopWorker(w))

Environment ==
  \/ \E o \in Operations : Enqueue(o)
  \/ main = "open" /\ \E w \in Workers : StopWorker(w)
  \/ \E w \in Workers : SpuriousWakeup(w) \/ LoseSingle(w) \/ LoseTransaction(w)
                         \/ RefuseUnchecked(w)

Closed == main = "closed" /\ UNCHANGED vars

Next == CloseStep \/ (\E w \in Workers : WorkerStep(w)) \/ Environment \/ Closed

\* Threads run and the server answers.
Fairness == WF_vars(CloseStep) /\ \A w \in Workers : WF_vars(WorkerStep(w))

Spec == Init /\ [][Next]_vars /\ Fairness

-----------------------------------------------------------------------------
\* A transaction is durable as a whole or not at all, its statements in order.
Atomic ==
  \A k \in 1 .. Len(durable) :
    durable[k][2] = [i \in 1 .. Size[durable[k][1]] |-> i]

\* So it is until a connection is lost or a START TRANSACTION refused, whatever
\* statements are refused, rolled back and retried.
AtomicWhileConnected == losses = 0 /\ ignored = 0 => Atomic

\* Until then too, an operation that reports success is durable, exactly once;
\* one that is waiting or has failed is not durable at all.
ReportedTruthfully ==
  losses = 0 /\ ignored = 0 =>
    \A o \in Operations :
      LET copies == {k \in 1 .. Len(durable) : durable[k][1] = o} IN
      /\ o \in done /\ Kind[o] # "query" => Cardinality(copies) = 1
      /\ o \in failed \cup ToSet(queue) => copies = {}

\* With one worker the operations take effect in the order of submission, also
\* when connections are lost and statements executed a second time.
InOrder ==
  Cardinality(scenario.threads) = 1 => \A j, k \in 1 .. Len(durable) : j < k =>
    \E s, t \in 1 .. Len(submitted) :
      s <= t /\ submitted[s] = durable[j][1] /\ submitted[t] = durable[k][1]

\* Every operation is served as long as the pool stays open: no worker sleeps
\* on a queue that is not empty, or waits for a lock nobody will release.
Served ==
  \A o \in Operations : o \in ToSet(submitted) ~> o \in done \cup failed \/ main # "open"

\* Close returns, although the first connection it destroys cancels the queue
\* of all the others.
CloseReturns == main = "cancel" ~> main = "closed"
=============================================================================
