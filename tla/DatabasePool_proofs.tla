------------------------- MODULE DatabasePool_proofs -------------------------
(* A transaction is durable as a whole or not at all while no connection is *)
(* lost: for any workers, operations and refused statements.                *)
EXTENDS DatabasePool, FiniteSetTheorems, TLAPS

\* Where a worker executes or retries a transaction.
InTransaction == {"begin", "statement", "rollback", "commit", "result", "lock"}
Places == InTransaction \cup {"pop", "blocked", "popped", "single", "exited"}

Types ==
  /\ queue \in Seq(Operations)
  /\ wpc \in [Workers -> Places]
  /\ op \in [Workers -> Operations \cup {NoOperation}]
  /\ stmt \in [Workers -> Nat]
  /\ open \in [Workers -> BOOLEAN]
  /\ buffer \in [Workers -> Seq(Nat)]
  /\ durable \in Seq(Operations \X Seq(Nat))
  /\ losses \in Nat /\ ignored \in Nat

\* A worker that executes something has an operation, and is at one of its
\* statements.
InHand(w) ==
  /\ wpc[w] = "single" => op[w] \in Operations /\ Size[op[w]] = 1
  /\ wpc[w] \in InTransaction => op[w] \in Operations
  /\ wpc[w] = "statement" => stmt[w] \in 1 .. Size[op[w]]
InHands == \A w \in Workers : InHand(w)

\* The first n statements, in order.
First(n) == [i \in 1 .. n |-> i]

\* What the transaction of a connection holds is what its worker has executed;
\* a worker that executes no transaction has none open.
Buffer(w) ==
  /\ wpc[w] = "statement" => open[w] /\ buffer[w] = First(stmt[w] - 1)
  /\ wpc[w] = "commit" => open[w] /\ buffer[w] = First(Size[op[w]])
  /\ wpc[w] \notin {"statement", "rollback", "commit"} => ~ open[w] /\ buffer[w] = <<>>

Connected == losses = 0 /\ ignored = 0
Buffered  == Connected => \A w \in Workers : Buffer(w)

IInv == Types /\ InHands /\ Buffered /\ AtomicWhileConnected

-----------------------------------------------------------------------------
LEMMA FirstNone == First(0) = <<>>
BY DEF First

LEMMA FirstAppend ==
  ASSUME NEW n \in Nat
  PROVE  Append(First(n), n + 1) = First(n + 1)
<1>1. First(n) \in Seq(Nat) /\ Len(First(n)) = n
  BY DEF First
<1>2. Len(Append(First(n), n + 1)) = n + 1
  BY <1>1
<1>3. ASSUME NEW i \in 1 .. n + 1
      PROVE  Append(First(n), n + 1)[i] = i
  BY <1>1 DEF First
<1> QED
  BY <1>1, <1>2, <1>3 DEF First

\* One more whole operation keeps what is durable whole.
LEMMA AppendAtomic ==
  ASSUME Types, Atomic, NEW o \in Operations, Size[o] \in Nat,
         durable' = Append(durable, <<o, First(Size[o])>>)
  PROVE  Atomic'
<1> SUFFICES ASSUME NEW k \in 1 .. Len(durable')
             PROVE  durable'[k][2] = First(Size[durable'[k][1]])
  BY DEF Atomic, First
<1>1. durable \in Seq(Operations \X Seq(Nat))
  BY DEF Types
<1>2. First(Size[o]) \in Seq(Nat)
  BY DEF First
<1>3. CASE k = Len(durable) + 1
  BY <1>1, <1>2, <1>3
<1>4. CASE k \in 1 .. Len(durable)
  <2>1. durable'[k] = durable[k]
    BY <1>1, <1>2, <1>4
  <2> QED
    BY <2>1, <1>4 DEF Atomic, First
<1> QED
  BY <1>1, <1>2, <1>3, <1>4

LEMMA SizesNat == \A o \in Operations : Size[o] \in Nat
BY OperationsAssumption

-----------------------------------------------------------------------------
(* Steps that leave the server, the statements and the faults alone, and   *)
(* take a worker from one place without a transaction to another, or to    *)
(* the start or past the end of one.                                       *)
Calm == {"pop", "blocked", "popped", "single", "begin", "result", "lock", "exited"}

LEMMA CalmKept ==
  ASSUME IInv,
         queue' \in Seq(Operations),
         wpc' \in [Workers -> Places], op' \in [Workers -> Operations \cup {NoOperation}],
         UNCHANGED <<serverVars, stmt, losses, ignored>>,
         \A w \in Workers : wpc'[w] = wpc[w] \/ (wpc[w] \in Calm /\ wpc'[w] \in Calm),
         \A w \in Workers : wpc'[w] = wpc[w] /\ op'[w] # op[w] => wpc[w] \notin InTransaction \cup {"single"},
         \A w \in Workers : wpc'[w] # wpc[w] => InHand(w)'
  PROVE  IInv'
<1> USE DEF serverVars
<1>1. Types'
  BY DEF IInv, Types
<1>2. InHands'
  <2> SUFFICES ASSUME NEW w \in Workers
               PROVE  InHand(w)'
    BY DEF InHands
  <2>1. InHand(w)
    BY DEF IInv, InHands
  <2> QED
    BY <2>1 DEF InHand, InTransaction
<1>3. Buffered'
  <2> SUFFICES ASSUME Connected', NEW w \in Workers
               PROVE  Buffer(w)'
    BY DEF Buffered
  <2>1. Buffer(w)
    BY DEF IInv, Buffered, Connected
  <2>2. wpc'[w] = "commit" => op'[w] = op[w]
    BY DEF Calm, InTransaction
  <2> QED
    BY <2>1, <2>2 DEF Buffer, Calm
<1>4. AtomicWhileConnected'
  BY DEF IInv, AtomicWhileConnected, Atomic
<1> QED
  BY <1>1, <1>2, <1>3, <1>4 DEF IInv
-----------------------------------------------------------------------------
(* The steps that do not concern the server.                               *)

LEMMA EnqueueKeeps ==
  ASSUME IInv, NEW o \in Operations, Enqueue(o)
  PROVE  IInv'
<1>1. queue' \in Seq(Operations)
  BY DEF Enqueue, IInv, Types
<1>2. /\ wpc' \in [Workers -> Places]
      /\ \A w \in Workers : wpc'[w] = wpc[w] \/ (wpc[w] = "blocked" /\ wpc'[w] = "pop")
  BY DEF Enqueue, IInv, Types, Places
<1>3. UNCHANGED <<op, stmt, serverVars, losses, ignored>>
  BY DEF Enqueue, faults
<1>4. op' \in [Workers -> Operations \cup {NoOperation}]
  BY <1>3 DEF IInv, Types
<1> QED
  BY <1>1, <1>2, <1>3, <1>4, CalmKept DEF Calm, InHand, InTransaction

LEMMA MainKeeps ==
  ASSUME IInv, (\E w \in Workers : StopWorker(w)) \/ Cancel \/ Join
  PROVE  IInv'
<1>1. UNCHANGED <<op, stmt, serverVars, losses, ignored>>
  BY DEF StopWorker, Cancel, Join, workerVars, faults
<1>2. queue' \in Seq(Operations)
  <2>1. queue' = queue \/ queue' = <<>>
    <3>1. ASSUME NEW w \in Workers, StopWorker(w) PROVE queue' = queue
      BY <3>1 DEF StopWorker, queueVars
    <3>2. Join => queue' = queue
      BY DEF Join, queueVars
    <3> QED
      BY <3>1, <3>2 DEF Cancel
  <2>2. queue \in Seq(Operations) /\ <<>> \in Seq(Operations)
    BY DEF IInv, Types
  <2> QED
    BY <2>1, <2>2
<1>3. /\ wpc' \in [Workers -> Places]
      /\ \A w \in Workers : wpc'[w] = wpc[w] \/ (wpc[w] = "blocked" /\ wpc'[w] = "pop")
  BY DEF StopWorker, Cancel, Join, workerVars, IInv, Types, Places
<1>4. op' \in [Workers -> Operations \cup {NoOperation}]
  BY <1>1 DEF IInv, Types
<1> QED
  BY <1>1, <1>2, <1>3, <1>4, CalmKept DEF Calm, InHand, InTransaction

\* Of one worker: it goes from a calm place to another; its operation changes
\* only where it has none to execute.
LEMMA WorkerMoves ==
  ASSUME IInv, NEW w \in Workers, NEW place \in Calm, NEW o \in Operations \cup {NoOperation},
         queue' \in Seq(Operations),
         wpc[w] \in Calm, wpc[w] # place,
         wpc' = [wpc EXCEPT ![w] = place], op' = [op EXCEPT ![w] = o],
         UNCHANGED <<serverVars, stmt, losses, ignored>>,
         place = "single" => o \in Operations /\ Size[o] = 1,
         place \in InTransaction => o \in Operations
  PROVE  IInv'
<1>1. /\ wpc' \in [Workers -> Places] /\ op' \in [Workers -> Operations \cup {NoOperation}]
      /\ wpc'[w] = place /\ op'[w] = o
      /\ \A x \in Workers \ {w} : wpc'[x] = wpc[x] /\ op'[x] = op[x]
  BY DEF IInv, Types, Calm, Places, InTransaction
<1>2. InHand(w)'
  BY <1>1 DEF InHand, Calm
<1> QED
  BY <1>1, <1>2, CalmKept

LEMMA PoppingKeeps ==
  ASSUME IInv, NEW w \in Workers, Block(w) \/ Pop(w) \/ SpuriousWakeup(w)
  PROVE  IInv'
<1>1. Types
  BY DEF IInv
<1>2. UNCHANGED <<serverVars, stmt, losses, ignored>>
  BY DEF Block, Pop, SpuriousWakeup, faults
<1>3. /\ queue' \in Seq(Operations) /\ op' = [op EXCEPT ![w] = op'[w]]
      /\ op'[w] \in Operations \cup {NoOperation}
  <2>1. CASE UNCHANGED <<queue, op>>
    BY <1>1, <2>1 DEF Types
  <2>2. CASE /\ queue # <<>> /\ op' = [op EXCEPT ![w] = Head(queue)]
             /\ queue' = Tail(queue)
    <3>1. Head(queue) \in Operations /\ Tail(queue) \in Seq(Operations)
      BY <1>1, <2>2 DEF Types
    <3> QED
      BY <1>1, <2>2, <3>1 DEF Types
  <2> QED
    BY <2>1, <2>2 DEF Block, Pop, SpuriousWakeup, queueVars
<1>4. PICK place \in {"pop", "blocked", "popped"} :
        wpc' = [wpc EXCEPT ![w] = place] /\ wpc[w] \in {"pop", "blocked"} /\ wpc[w] # place
  BY DEF Block, Pop, SpuriousWakeup
<1> QED
  BY <1>2, <1>3, <1>4, WorkerMoves DEF Calm, InTransaction

LEMMA CheckTokenKeeps ==
  ASSUME IInv, NEW w \in Workers, CheckToken(w)
  PROVE  IInv'
<1>1. Types
  BY DEF IInv
<1>2. /\ UNCHANGED <<serverVars, stmt, losses, ignored>> /\ wpc[w] = "popped"
      /\ queue' \in Seq(Operations) /\ op' = [op EXCEPT ![w] = op[w]]
      /\ op[w] \in Operations \cup {NoOperation}
  BY <1>1 DEF CheckToken, faults, queueVars, Types
<1>3. PICK place \in {"exited", "begin", "single"} :
        /\ wpc' = [wpc EXCEPT ![w] = place]
        /\ place # "exited" => op[w] \in Operations
        /\ place = "single" => Kind[op[w]] # "transaction"
  BY <1>2 DEF CheckToken
<1>4. place = "single" => Size[op[w]] = 1
  BY <1>3, OperationsAssumption
<1> QED
  BY <1>2, <1>3, <1>4, WorkerMoves DEF Calm, InTransaction

\* TransactionTask::Execute after ExecuteTransaction, and an empty transaction.
LEMMA ResultKeeps ==
  ASSUME IInv, NEW w \in Workers,
         RejectEmpty(w) \/ Succeed(w) \/ AwaitLock(w) \/ AcquireLock(w) \/ Retry(w) \/ GiveUp(w)
  PROVE  IInv'
<1> USE DEF RejectEmpty, Succeed, AwaitLock, AcquireLock, Retry, GiveUp, Leave
<1>1. Types /\ InHand(w)
  BY DEF IInv, InHands
<1>2. UNCHANGED <<serverVars, stmt, losses, ignored>> /\ queue' \in Seq(Operations)
  BY <1>1 DEF faults, queueVars, Types
<1>3. op[w] \in Operations
  BY <1>1 DEF InHand, InTransaction
<1>4. PICK place \in {"pop", "begin", "result", "lock"} :
        /\ wpc' = [wpc EXCEPT ![w] = place] /\ wpc[w] \in {"begin", "result", "lock"} /\ wpc[w] # place
        /\ \/ op' = [op EXCEPT ![w] = op[w]]
           \/ op' = [op EXCEPT ![w] = NoOperation] /\ place = "pop"
  BY <1>1 DEF Types
<1> QED
  BY <1>2, <1>3, <1>4, WorkerMoves DEF Calm, InTransaction

-----------------------------------------------------------------------------
(* The steps that the server takes part in.                                *)

\* A step of worker w that keeps the types and its own part of the invariant,
\* and makes no other worker's part false.
LEMMA WorkerKeeps ==
  ASSUME IInv, NEW w \in Workers, Types', InHand(w)',
         Connected' => Connected /\ Buffer(w)' /\ Atomic',
         \A x \in Workers \ {w} : /\ wpc'[x] = wpc[x] /\ op'[x] = op[x] /\ stmt'[x] = stmt[x]
                                  /\ open'[x] = open[x] /\ buffer'[x] = buffer[x]
  PROVE  IInv'
<1>1. ASSUME NEW x \in Workers \ {w} PROVE InHand(x)'
  <2>1. InHand(x)
    BY DEF IInv, InHands
  <2> QED
    BY <2>1 DEF InHand
<1>2. ASSUME NEW x \in Workers \ {w}, Connected' PROVE Buffer(x)'
  <2>1. Buffer(x)
    BY <1>2 DEF IInv, Buffered
  <2> QED
    BY <2>1 DEF Buffer
<1>3. InHands'
  BY <1>1 DEF InHands
<1>4. Buffered'
  BY <1>2 DEF Buffered
<1>5. AtomicWhileConnected'
  BY DEF AtomicWhileConnected, Connected
<1> QED
  BY <1>3, <1>4, <1>5 DEF IInv

\* The losses and ignored refusals never get fewer.
LEMMA LosesOnce ==
  ASSUME Types, Loses
  PROVE  losses' \in Nat /\ ignored' \in Nat /\ ~ Connected'
BY DEF Types, Loses, Connected

LEMMA AtomicKept ==
  ASSUME IInv, Connected, UNCHANGED durable
  PROVE  Atomic'
BY DEF IInv, AtomicWhileConnected, Connected, Atomic

LEMMA ExecutesTyped ==
  ASSUME Types, NEW w \in Workers, NEW i \in Nat, op[w] \in Operations, Executes(w, i)
  PROVE  buffer' \in [Workers -> Seq(Nat)] /\ durable' \in Seq(Operations \X Seq(Nat))
<1>1. Append(buffer[w], i) \in Seq(Nat) /\ <<i>> \in Seq(Nat)
  BY DEF Types
<1>2. CASE open[w]
  BY <1>1, <1>2 DEF Types, Executes
<1>3. CASE ~ open[w]
  <2>1. UNCHANGED buffer /\ durable' = Append(durable, <<op[w], <<i>> >>)
    BY <1>3 DEF Executes
  <2>2. <<op[w], <<i>> >> \in Operations \X Seq(Nat)
    BY <1>1
  <2> QED
    BY <2>1, <2>2 DEF Types
<1> QED
  BY <1>2, <1>3

LEMMA BeginKeeps ==
  ASSUME IInv, NEW w \in Workers, BeginTransaction(w)
  PROVE  IInv'
<1>1. Types /\ InHand(w) /\ op[w] \in Operations
  BY DEF IInv, InHands, InHand, BeginTransaction, InTransaction
<1>2. UNCHANGED <<queue, op, buffer, durable, losses, ignored>>
  BY DEF BeginTransaction, queueVars, faults
<1>3. "statement" \in Places /\ 1 \in Nat
  BY DEF Places, InTransaction
<1>4. /\ Types'
      /\ wpc'[w] = "statement" /\ op'[w] = op[w] /\ stmt'[w] = 1 /\ open'[w] /\ buffer'[w] = buffer[w]
      /\ \A x \in Workers \ {w} : /\ wpc'[x] = wpc[x] /\ op'[x] = op[x] /\ stmt'[x] = stmt[x]
                                  /\ open'[x] = open[x] /\ buffer'[x] = buffer[x]
  BY <1>1, <1>2 DEF Types, BeginTransaction, Places, InTransaction
<1>5. InHand(w)'
  BY <1>1, <1>4, SizesNat DEF InHand, BeginTransaction
<1>6. ASSUME Connected' PROVE Connected /\ Buffer(w)' /\ Atomic'
  <2>1. Connected
    BY <1>2, <1>6 DEF Connected
  <2>2. Buffer(w)
    BY <2>1 DEF IInv, Buffered
  <2>3. buffer[w] = First(0)
    BY <2>2, FirstNone DEF Buffer, BeginTransaction
  <2> QED
    BY <1>2, <1>4, <2>1, <2>3, AtomicKept DEF Buffer
<1> QED
  BY <1>4, <1>5, <1>6, WorkerKeeps

\* A statement goes into the open transaction.
LEMMA ExecuteKeeps ==
  ASSUME IInv, NEW w \in Workers, ExecuteStatement(w)
  PROVE  IInv'
<1>1. /\ Types /\ InHand(w) /\ op[w] \in Operations
      /\ wpc[w] = "statement" /\ stmt[w] \in 1 .. Size[op[w]] /\ Size[op[w]] \in Nat
  BY SizesNat DEF IInv, InHands, InHand, ExecuteStatement, InTransaction
<1>2. UNCHANGED <<queue, op, open, losses, ignored>>
  BY DEF ExecuteStatement, queueVars, faults
<1>3. \A x \in Workers \ {w} : /\ wpc'[x] = wpc[x] /\ op'[x] = op[x] /\ stmt'[x] = stmt[x]
                              /\ open'[x] = open[x] /\ buffer'[x] = buffer[x]
  BY <1>1, <1>2 DEF Types, ExecuteStatement, Executes
<1>4. Types'
  <2>1. /\ wpc' \in [Workers -> Places] /\ stmt' \in [Workers -> Nat]
    <3>1. stmt[w] + 1 \in Nat /\ "commit" \in Places
      BY <1>1 DEF Places, InTransaction
    <3> QED
      BY <3>1 DEF IInv, Types, ExecuteStatement
  <2>2. buffer' \in [Workers -> Seq(Nat)] /\ durable' \in Seq(Operations \X Seq(Nat))
    BY <1>1, ExecutesTyped DEF ExecuteStatement
  <2> QED
    BY <1>1, <1>2, <2>1, <2>2 DEF Types
<1>5. \/ wpc'[w] = "commit" /\ stmt'[w] = stmt[w] /\ stmt[w] = Size[op[w]]
      \/ wpc'[w] = "statement" /\ stmt'[w] = stmt[w] + 1 /\ stmt[w] # Size[op[w]]
  BY <1>1 DEF Types, ExecuteStatement
<1>6. InHand(w)'
  BY <1>1, <1>2, <1>5 DEF InHand
<1>7. ASSUME Connected' PROVE Connected /\ Buffer(w)' /\ Atomic'
  <2>1. Connected
    BY <1>2, <1>7 DEF Connected
  <2>2. open[w] /\ buffer[w] = First(stmt[w] - 1)
    BY <1>1, <2>1 DEF IInv, Buffered, Buffer
  <2>3. UNCHANGED durable /\ buffer'[w] = Append(First(stmt[w] - 1), stmt[w])
    BY <1>1, <2>2 DEF Types, ExecuteStatement, Executes
  <2>4. Append(First(stmt[w] - 1), stmt[w]) = First(stmt[w])
    <3>1. stmt[w] - 1 \in Nat /\ (stmt[w] - 1) + 1 = stmt[w]
      BY <1>1
    <3> QED
      BY <3>1, FirstAppend
  <2>5. stmt[w] = (stmt[w] + 1) - 1
    BY <1>1
  <2> QED
    BY <1>2, <1>5, <2>1, <2>2, <2>3, <2>4, <2>5, AtomicKept DEF Buffer
<1> QED
  BY <1>3, <1>4, <1>6, <1>7, WorkerKeeps

\* A statement is refused, or the transaction rolled back.
LEMMA RollbackKeeps ==
  ASSUME IInv, NEW w \in Workers, RefuseStatement(w) \/ RollbackTransaction(w)
  PROVE  IInv'
<1> USE DEF RefuseStatement, RollbackTransaction, RollsBack, Refuses
<1>1. Types /\ InHand(w) /\ op[w] \in Operations
  BY DEF IInv, InHands, InHand, InTransaction
<1>2. UNCHANGED <<queue, op, stmt, durable, losses, ignored>>
  BY DEF queueVars, faults
<1>3. /\ Types'
      /\ \A x \in Workers \ {w} : /\ wpc'[x] = wpc[x] /\ op'[x] = op[x] /\ stmt'[x] = stmt[x]
                                  /\ open'[x] = open[x] /\ buffer'[x] = buffer[x]
  <2>1. \E place \in {"rollback", "result"} : wpc' = [wpc EXCEPT ![w] = place]
    OBVIOUS
  <2>2. \/ UNCHANGED <<open, buffer>>
        \/ open' = [open EXCEPT ![w] = FALSE] /\ buffer' = [buffer EXCEPT ![w] = <<>>]
    OBVIOUS
  <2>3. wpc' \in [Workers -> Places]
    BY <1>1, <2>1 DEF Types, Places, InTransaction
  <2>4. open' \in [Workers -> BOOLEAN] /\ buffer' \in [Workers -> Seq(Nat)]
    <3>1. <<>> \in Seq(Nat)
      OBVIOUS
    <3>2. open' \in [Workers -> BOOLEAN]
      BY <1>1, <2>2 DEF Types
    <3>3. buffer' \in [Workers -> Seq(Nat)]
      BY <1>1, <2>2, <3>1 DEF Types
    <3> QED
      BY <3>2, <3>3
  <2>5. Types'
    BY <1>1, <1>2, <2>3, <2>4 DEF Types
  <2> QED
    BY <1>1, <1>2, <2>1, <2>2, <2>5 DEF Types
<1>4. \/ wpc'[w] = "rollback"
      \/ wpc'[w] = "result" /\ ~ open'[w] /\ buffer'[w] = <<>>
  BY <1>1 DEF Types
<1>5. InHand(w)'
  BY <1>1, <1>2, <1>4 DEF InHand
<1>6. ASSUME Connected' PROVE Connected /\ Buffer(w)' /\ Atomic'
  BY <1>2, <1>4, <1>6, AtomicKept DEF Connected, Buffer
<1> QED
  BY <1>3, <1>5, <1>6, WorkerKeeps

\* COMMIT makes durable what the transaction holds: all of it.
LEMMA CommitKeeps ==
  ASSUME IInv, NEW w \in Workers, CommitTransaction(w)
  PROVE  IInv'
<1> USE DEF CommitTransaction, RollsBack
<1>1. /\ Types /\ InHand(w) /\ op[w] \in Operations /\ Size[op[w]] \in Nat
      /\ wpc[w] = "commit" /\ buffer[w] \in Seq(Nat)
  BY SizesNat DEF IInv, InHands, InHand, InTransaction, Types
<1>2. UNCHANGED <<queue, op, stmt, losses, ignored>>
  BY DEF queueVars, faults
<1>3. durable' \in Seq(Operations \X Seq(Nat))
  BY <1>1 DEF Types, Commits
<1>4. /\ Types'
      /\ \A x \in Workers \ {w} : /\ wpc'[x] = wpc[x] /\ op'[x] = op[x] /\ stmt'[x] = stmt[x]
                                  /\ open'[x] = open[x] /\ buffer'[x] = buffer[x]
  BY <1>1, <1>2, <1>3 DEF Types, Places, InTransaction
<1>5. wpc'[w] = "result" /\ ~ open'[w] /\ buffer'[w] = <<>>
  BY <1>1 DEF Types
<1>6. InHand(w)'
  BY <1>1, <1>2, <1>5 DEF InHand
<1>7. ASSUME Connected' PROVE Connected /\ Buffer(w)' /\ Atomic'
  <2>1. Connected
    BY <1>2, <1>7 DEF Connected
  <2>2. open[w] /\ buffer[w] = First(Size[op[w]])
    BY <1>1, <2>1 DEF IInv, Buffered, Buffer
  <2>3. durable' = Append(durable, <<op[w], First(Size[op[w]])>>)
    BY <2>2 DEF Commits
  <2>4. Atomic'
    BY <1>1, <2>1, <2>3, AppendAtomic DEF IInv, AtomicWhileConnected, Connected
  <2> QED
    BY <1>5, <2>1, <2>4 DEF Buffer
<1> QED
  BY <1>4, <1>6, <1>7, WorkerKeeps

\* A statement of its own is executed at once: no transaction is open.
LEMMA SingleKeeps ==
  ASSUME IInv, NEW w \in Workers, ExecuteSingle(w)
  PROVE  IInv'
<1>1. /\ Types /\ InHand(w) /\ op[w] \in Operations /\ Size[op[w]] = 1
      /\ wpc[w] = "single"
  BY DEF IInv, InHands, InHand, ExecuteSingle
<1>2. UNCHANGED <<queue, stmt, open, losses, ignored>>
  BY DEF ExecuteSingle, queueVars, faults, Refuses
<1>3. \/ Executes(w, 1)
      \/ UNCHANGED <<buffer, durable>>
  BY DEF ExecuteSingle
<1>4. buffer' \in [Workers -> Seq(Nat)] /\ durable' \in Seq(Operations \X Seq(Nat))
  BY <1>1, <1>3, ExecutesTyped DEF Types
<1>5. /\ Types'
      /\ \A x \in Workers \ {w} : /\ wpc'[x] = wpc[x] /\ op'[x] = op[x] /\ stmt'[x] = stmt[x]
                                  /\ open'[x] = open[x] /\ buffer'[x] = buffer[x]
  <2>1. wpc' \in [Workers -> Places] /\ op' \in [Workers -> Operations \cup {NoOperation}]
    BY <1>1 DEF Types, ExecuteSingle, Places
  <2>2. \A x \in Workers \ {w} : buffer'[x] = buffer[x]
    BY <1>1, <1>3 DEF Types, Executes
  <2> QED
    BY <1>1, <1>2, <1>4, <2>1, <2>2 DEF Types, ExecuteSingle
<1>6. wpc'[w] = "pop"
  BY <1>1 DEF Types, ExecuteSingle
<1>7. InHand(w)'
  BY <1>6 DEF InHand, InTransaction
<1>8. ASSUME Connected' PROVE Connected /\ Buffer(w)' /\ Atomic'
  <2>1. Connected
    BY <1>2, <1>8 DEF Connected
  <2>2. ~ open[w] /\ buffer[w] = <<>>
    BY <1>1, <2>1 DEF IInv, Buffered, Buffer
  <2>3. UNCHANGED buffer /\ (UNCHANGED durable \/ durable' = Append(durable, <<op[w], <<1>> >>))
    BY <1>3, <2>2 DEF Executes
  <2>4. <<1>> = First(Size[op[w]])
    BY <1>1 DEF First
  <2>5. Atomic'
    BY <1>1, <2>1, <2>3, <2>4, AppendAtomic, AtomicKept DEF IInv, AtomicWhileConnected, Connected
  <2> QED
    BY <1>2, <1>6, <2>1, <2>2, <2>3, <2>5 DEF Buffer
<1> QED
  BY <1>5, <1>7, <1>8, WorkerKeeps

\* A connection is lost, or a START TRANSACTION or COMMIT refused: from then on
\* only the types and the operations in hand are claimed.
LEMMA FaultKeeps ==
  ASSUME IInv, NEW w \in Workers, LoseSingle(w) \/ LoseTransaction(w) \/ RefuseUnchecked(w)
  PROVE  IInv'
<1>1. /\ Types /\ InHand(w) /\ UNCHANGED <<queue, op>>
  BY DEF IInv, InHands, LoseSingle, LoseTransaction, RefuseUnchecked, queueVars, workerVars
<1>2. losses' \in Nat /\ ignored' \in Nat /\ ~ Connected'
  <2>1. CASE Loses
    BY <1>1, <2>1, LosesOnce
  <2>2. CASE RefuseUnchecked(w)
    BY <1>1, <2>2 DEF Types, RefuseUnchecked, Connected
  <2> QED
    BY <2>1, <2>2 DEF LoseSingle, LoseTransaction
<1>3. op[w] \in Operations /\ Size[op[w]] \in Nat
  BY <1>1, SizesNat DEF InHand, InTransaction, LoseSingle, LoseTransaction, RefuseUnchecked
<1>4. /\ wpc' = [wpc EXCEPT ![w] = wpc'[w]] /\ wpc'[w] \in Places
      /\ stmt' = [stmt EXCEPT ![w] = stmt'[w]] /\ stmt'[w] \in Nat
      /\ InHand(w)'
  <2>1. CASE UNCHANGED <<wpc, stmt>>
    BY <1>1, <2>1 DEF Types, InHand
  <2>2. CASE RefuseUnchecked(w)
    BY <1>1, <1>3, <2>2 DEF Types, InHand, RefuseUnchecked, Places, InTransaction
  <2> QED
    BY <2>1, <2>2 DEF LoseSingle, LoseTransaction, workerVars
<1>5. /\ open' = [open EXCEPT ![w] = open'[w]] /\ open'[w] \in BOOLEAN
      /\ buffer' = [buffer EXCEPT ![w] = buffer'[w]] /\ buffer'[w] \in Seq(Nat)
  <2>1. CASE UNCHANGED <<open, buffer>>
    BY <1>1, <2>1 DEF Types
  <2>2. CASE RollsBack(w)
    <3>1. <<>> \in Seq(Nat) /\ open \in [Workers -> BOOLEAN] /\ buffer \in [Workers -> Seq(Nat)]
      BY <1>1 DEF Types
    <3> QED
      BY <2>2, <3>1 DEF RollsBack
  <2>3. CASE UNCHANGED open /\ \E i \in Nat : Executes(w, i)
    <3>1. /\ open \in [Workers -> BOOLEAN] /\ buffer \in [Workers -> Seq(Nat)]
          /\ \A i \in Nat : Append(buffer[w], i) \in Seq(Nat)
      BY <1>1 DEF Types
    <3> QED
      BY <2>3, <3>1 DEF Executes
  <2>4. 1 \in Nat /\ stmt[w] \in Nat
    BY <1>1 DEF Types
  <2> QED
    BY <2>1, <2>2, <2>3, <2>4 DEF LoseSingle, LoseTransaction, RefuseUnchecked
<1>6. durable' \in Seq(Operations \X Seq(Nat))
  <2>1. CASE UNCHANGED durable
    BY <1>1, <2>1 DEF Types
  <2>2. CASE Executes(w, 1) \/ (wpc[w] = "statement" /\ Executes(w, stmt[w]))
    BY <1>1, <1>3, <2>2, ExecutesTyped DEF Types, InHand
  <2>3. CASE Commits(w)
    BY <1>1, <1>3, <2>3 DEF Types, Commits
  <2> QED
    BY <2>1, <2>2, <2>3 DEF LoseSingle, LoseTransaction, RefuseUnchecked
<1>7. /\ Types'
      /\ \A x \in Workers \ {w} : /\ wpc'[x] = wpc[x] /\ op'[x] = op[x] /\ stmt'[x] = stmt[x]
                                  /\ open'[x] = open[x] /\ buffer'[x] = buffer[x]
  BY <1>1, <1>2, <1>4, <1>5, <1>6 DEF Types
<1> QED
  BY <1>2, <1>4, <1>7, WorkerKeeps

-----------------------------------------------------------------------------
LEMMA InitIInv == Init => IInv
<1> SUFFICES ASSUME Init PROVE IInv
  OBVIOUS
<1>1. Types
  BY DEF Init, Types, Places
<1>2. InHands
  BY DEF Init, InHands, InHand, InTransaction
<1>3. Buffered
  BY DEF Init, Buffered, Buffer
<1>4. AtomicWhileConnected
  BY DEF Init, AtomicWhileConnected, Atomic
<1> QED
  BY <1>1, <1>2, <1>3, <1>4 DEF IInv

LEMMA NextIInv == IInv /\ [Next]_vars => IInv'
<1> SUFFICES ASSUME IInv, [Next]_vars PROVE IInv'
  OBVIOUS
<1>1. CASE CloseStep
  BY <1>1, MainKeeps DEF CloseStep
<1>2. ASSUME NEW w \in Workers, WorkerStep(w) PROVE IInv'
  BY <1>2, PoppingKeeps, CheckTokenKeeps, ResultKeeps, BeginKeeps, ExecuteKeeps,
     RollbackKeeps, CommitKeeps, SingleKeeps DEF WorkerStep
<1>3. CASE Environment
  <2>1. ASSUME NEW o \in Operations, Enqueue(o) PROVE IInv'
    BY <2>1, EnqueueKeeps
  <2>2. ASSUME NEW w \in Workers,
               SpuriousWakeup(w) \/ LoseSingle(w) \/ LoseTransaction(w) \/ RefuseUnchecked(w)
        PROVE  IInv'
    BY <2>2, PoppingKeeps, FaultKeeps
  <2> QED
    BY <1>3, <2>1, <2>2, MainKeeps DEF Environment
<1>4. CASE UNCHANGED vars
  BY <1>4, CalmKept DEF vars, serverVars, IInv, Types
<1> QED
  BY <1>1, <1>2, <1>3, <1>4 DEF Next, Closed

\* Until a connection is lost, or a START TRANSACTION or COMMIT refused, a
\* transaction is durable as a whole or not at all, whatever statements the
\* server refuses and however often the transaction is tried again.
THEOREM TransactionsAreWhole == Spec => []AtomicWhileConnected
<1>1. Init => IInv
  BY InitIInv
<1>2. IInv /\ [Next]_vars => IInv'
  BY NextIInv
<1>3. IInv => AtomicWhileConnected
  BY DEF IInv
<1> QED
  BY <1>1, <1>2, <1>3, PTL DEF Spec

-----------------------------------------------------------------------------
(* What is reported, and in which order.  An operation is in one place     *)
(* only: in the queue, with one worker, done or given up.                  *)

HistoryTypes ==
  /\ submitted \in Seq(Operations)
  /\ done \subseteq Operations /\ failed \subseteq Operations
  /\ error \in [Workers -> {"none", "deadlock", "other"}]

Settled == done \cup failed

Owned ==
  /\ \A i, j \in 1 .. Len(queue) : queue[i] = queue[j] => i = j
  /\ \A i \in 1 .. Len(queue) : /\ queue[i] \in ToSet(submitted) \ Settled
                                /\ \A w \in Workers : op[w] # queue[i]
  /\ \A w \in Workers : op[w] \in Operations =>
       /\ op[w] \in ToSet(submitted) \ Settled
       /\ \A x \in Workers : op[x] = op[w] => x = w
  /\ Settled \subseteq ToSet(submitted)
  /\ done \cap failed = {}

\* Only transactions are executed as such, and one that is rolled back has an
\* error to report.
OfKind(w) ==
  /\ wpc[w] = "single" => Kind[op[w]] # "transaction"
  /\ wpc[w] \in InTransaction => Kind[op[w]] = "transaction"
  /\ wpc[w] = "rollback" => error[w] # "none"
Kinds == \A w \in Workers : OfKind(w)

\* A worker has committed its transaction and not reported it yet.
ToReport(w) == wpc[w] = "result" /\ error[w] = "none"

Committed(o) == \/ o \in done /\ Kind[o] # "query"
                \/ \E w \in Workers : op[w] = o /\ ToReport(w)

IsDurable(o) == \E k \in 1 .. Len(durable) : durable[k][1] = o

\* What is durable is what has been committed, once.
DurableOnce ==
  /\ \A j, k \in 1 .. Len(durable) : durable[j][1] = durable[k][1] => j = k
  /\ \A o \in Operations : IsDurable(o) <=> Committed(o)
Truthful == Connected => DurableOnce

History == HistoryTypes /\ Kinds /\ Owned /\ Truthful

-----------------------------------------------------------------------------
LEMMA ToSetAppend ==
  ASSUME NEW s \in Seq(Operations), NEW o \in Operations
  PROVE  ToSet(Append(s, o)) = ToSet(s) \cup {o}
<1>1. Len(s) \in Nat /\ DOMAIN s = 1 .. Len(s)
  OBVIOUS
<1>2. /\ DOMAIN Append(s, o) = 1 .. Len(s) + 1
      /\ \A i \in 1 .. Len(s) : Append(s, o)[i] = s[i]
      /\ Append(s, o)[Len(s) + 1] = o
  OBVIOUS
<1>3. ToSet(Append(s, o)) \subseteq ToSet(s) \cup {o}
  BY <1>1, <1>2 DEF ToSet
<1>4. ToSet(s) \cup {o} \subseteq ToSet(Append(s, o))
  BY <1>1, <1>2 DEF ToSet
<1> QED
  BY <1>3, <1>4

(* The owner of an operation changes in four ways only.                    *)

LEMMA OwnedEnqueue ==
  ASSUME Types, HistoryTypes, Owned, NEW o \in Operations, Enqueue(o)
  PROVE  Owned'
<1>1. /\ queue' = Append(queue, o) /\ submitted' = Append(submitted, o)
      /\ o \notin ToSet(submitted) /\ UNCHANGED <<op, done, failed>>
  BY DEF Enqueue
<1>2. ToSet(submitted') = ToSet(submitted) \cup {o}
  BY <1>1, ToSetAppend DEF HistoryTypes
<1>3. /\ Len(queue) \in Nat /\ Len(queue') = Len(queue) + 1 /\ queue'[Len(queue) + 1] = o
      /\ \A i \in 1 .. Len(queue) : queue'[i] = queue[i]
  BY <1>1 DEF Types
<1>4. \A i \in 1 .. Len(queue') : i \in 1 .. Len(queue) \/ i = Len(queue) + 1
  BY <1>3
<1>5. \A i \in 1 .. Len(queue) : queue[i] # o
  BY <1>1 DEF Owned
<1>6. \A w \in Workers : op[w] # o
  BY <1>1 DEF Owned
<1>7. o \notin Settled
  BY <1>1 DEF Owned
<1>8. \A i, j \in 1 .. Len(queue') : queue'[i] = queue'[j] => i = j
  BY <1>3, <1>4, <1>5 DEF Owned
<1>9. \A i \in 1 .. Len(queue') : /\ queue'[i] \in ToSet(submitted') \ Settled
                                  /\ \A w \in Workers : op[w] # queue'[i]
  BY <1>2, <1>3, <1>4, <1>6, <1>7 DEF Owned
<1> QED
  BY <1>1, <1>2, <1>8, <1>9 DEF Owned, Settled

\* The queue stays or is emptied.
LEMMA OwnedQuiet ==
  ASSUME Types, Owned, queue' \in {queue, <<>>}, UNCHANGED <<op, submitted, done, failed>>
  PROVE  Owned'
<1>1. Len(<<>>) = 0
  OBVIOUS
<1>2. \A i \in 1 .. Len(queue') : i \in 1 .. Len(queue) /\ queue' = queue
  BY <1>1
<1> QED
  BY <1>2 DEF Owned, Settled

LEMMA OwnedPop ==
  ASSUME Types, Owned, NEW w \in Workers, queue # <<>>,
         queue' = Tail(queue), op' = [op EXCEPT ![w] = Head(queue)],
         UNCHANGED <<submitted, done, failed>>
  PROVE  Owned'
<1>1. /\ Len(queue) \in Nat \ {0} /\ Len(queue') = Len(queue) - 1 /\ Head(queue) = queue[1]
      /\ \A i \in 1 .. Len(queue') : queue'[i] = queue[i + 1]
  BY DEF Types
<1>2. /\ \A i \in 1 .. Len(queue') : i + 1 \in 1 .. Len(queue) /\ i + 1 # 1
      /\ 1 \in 1 .. Len(queue)
  BY <1>1
<1>3. op'[w] = queue[1] /\ \A x \in Workers \ {w} : op'[x] = op[x]
  BY <1>1 DEF Types
<1>4. \A i, j \in 1 .. Len(queue') : queue'[i] = queue'[j] => i = j
  <2> SUFFICES ASSUME NEW i \in 1 .. Len(queue'), NEW j \in 1 .. Len(queue'), queue'[i] = queue'[j]
               PROVE  i = j
    OBVIOUS
  <2>1. i + 1 = j + 1
    BY <1>1, <1>2 DEF Owned
  <2> QED
    BY <2>1
<1>5. \A i \in 1 .. Len(queue') : /\ queue'[i] \in ToSet(submitted) \ Settled
                                  /\ \A x \in Workers : op'[x] # queue'[i]
  <2> SUFFICES ASSUME NEW i \in 1 .. Len(queue')
               PROVE  /\ queue'[i] \in ToSet(submitted) \ Settled
                      /\ \A x \in Workers : op'[x] # queue'[i]
    OBVIOUS
  <2>1. queue[i + 1] # queue[1]
    BY <1>2 DEF Owned
  <2> QED
    BY <1>1, <1>2, <1>3, <2>1 DEF Owned
<1>6. \A x \in Workers : op'[x] \in Operations =>
        /\ op'[x] \in ToSet(submitted) \ Settled
        /\ \A y \in Workers : op'[y] = op'[x] => y = x
  BY <1>2, <1>3 DEF Owned
<1> QED
  BY <1>4, <1>5, <1>6 DEF Owned, Settled

\* A worker reports its operation, one way or the other, and lets go of it.
LEMMA OwnedLeave ==
  ASSUME Types, Owned, NEW w \in Workers, op[w] \in Operations,
         op' = [op EXCEPT ![w] = NoOperation],
         \/ done' = done \cup {op[w]} /\ UNCHANGED failed
         \/ failed' = failed \cup {op[w]} /\ UNCHANGED done,
         UNCHANGED <<queue, submitted>>
  PROVE  Owned'
<1>1. NoOperation \notin Operations
  BY OperationsAssumption
<1>2. op'[w] = NoOperation /\ \A x \in Workers \ {w} : op'[x] = op[x]
  BY DEF Types
<1>3. Settled' = Settled \cup {op[w]} /\ op[w] \in ToSet(submitted) \ Settled
  BY DEF Owned, Settled
<1>4. \A i \in 1 .. Len(queue) : /\ queue[i] \in ToSet(submitted) \ Settled'
                                 /\ queue[i] \in Operations
                                 /\ \A x \in Workers : op'[x] # queue[i]
  BY <1>1, <1>2, <1>3 DEF Owned, Types
<1>5. \A x \in Workers : op'[x] \in Operations =>
        /\ op'[x] \in ToSet(submitted) \ Settled'
        /\ \A y \in Workers : op'[y] = op'[x] => y = x
  BY <1>1, <1>2, <1>3 DEF Owned
<1>6. done' \cap failed' = {}
  BY <1>3 DEF Owned, Settled
<1> QED
  BY <1>3, <1>4, <1>5, <1>6 DEF Owned

-----------------------------------------------------------------------------
(* Steps that concern no operation's worker beyond its waking up.          *)

\* Workers only wake up, and no operation is reported or made durable.
Wakes ==
  /\ \A w \in Workers : wpc'[w] = wpc[w] \/ (wpc[w] = "blocked" /\ wpc'[w] = "pop")
  /\ UNCHANGED <<op, error, durable, done, failed, losses, ignored>>

LEMMA CallersWake ==
  ASSUME Types, \/ \E o \in Operations : Enqueue(o)
                \/ \E w \in Workers : StopWorker(w)
                \/ Cancel \/ Join
  PROVE  Wakes
BY DEF Types, Wakes, Enqueue, StopWorker, Cancel, Join, workerVars, serverVars, history, faults

LEMMA WakesKeeps ==
  ASSUME History, Wakes
  PROVE  Kinds' /\ Truthful'
<1>1. ASSUME NEW w \in Workers PROVE OfKind(w)'
  BY DEF Wakes, History, Kinds, OfKind, InTransaction
<1>2. \A w \in Workers : ToReport(w)' <=> ToReport(w)
  BY DEF Wakes, ToReport
<1>3. \A o \in Operations : Committed(o)' <=> Committed(o)
  BY <1>2 DEF Wakes, Committed
<1> QED
  BY <1>1, <1>3 DEF Wakes, History, Kinds, Truthful, Connected, DurableOnce, IsDurable

(* A step of worker w.                                                     *)

StepOf(w) ==
  /\ wpc' = [wpc EXCEPT ![w] = wpc'[w]]
  /\ op' = [op EXCEPT ![w] = op'[w]]
  /\ error' = [error EXCEPT ![w] = error'[w]]

LEMMA OthersUnchanged ==
  ASSUME Types, HistoryTypes, NEW w \in Workers, StepOf(w)
  PROVE  \A x \in Workers \ {w} : wpc'[x] = wpc[x] /\ op'[x] = op[x] /\ error'[x] = error[x]
BY DEF Types, HistoryTypes, StepOf

LEMMA KindsOfOne ==
  ASSUME Types, HistoryTypes, Kinds, NEW w \in Workers, StepOf(w), OfKind(w)'
  PROVE  Kinds'
<1>1. ASSUME NEW x \in Workers \ {w} PROVE OfKind(x)'
  BY OthersUnchanged DEF Kinds, OfKind
<1> QED
  BY <1>1 DEF Kinds

\* The step commits nothing and reports nothing that is committed.
LEMMA NothingCommitted ==
  ASSUME Types, HistoryTypes, Truthful, NEW w \in Workers, StepOf(w),
         ~ ToReport(w), ~ ToReport(w)',
         done' = done \/ (done' = done \cup {op[w]} /\ Kind[op[w]] = "query"),
         Connected' => Connected /\ UNCHANGED durable
  PROVE  Truthful'
<1> SUFFICES ASSUME Connected' PROVE DurableOnce'
  BY DEF Truthful
<1>1. \A x \in Workers : /\ ToReport(x)' <=> ToReport(x)
                         /\ ToReport(x) => op'[x] = op[x]
  BY OthersUnchanged DEF ToReport
<1>2. \A o \in Operations : Committed(o)' <=> Committed(o)
  BY <1>1 DEF Committed
<1> QED
  BY <1>2 DEF Truthful, DurableOnce, IsDurable

\* The step makes the operation of w durable, and this alone is committed by it.
LEMMA OneCommitted ==
  ASSUME Types, HistoryTypes, Owned, Truthful, NEW w \in Workers, StepOf(w),
         op[w] \in Operations, ~ ToReport(w),
         \/ ToReport(w)' /\ op'[w] = op[w] /\ done' = done
         \/ ~ ToReport(w)' /\ done' = done \cup {op[w]} /\ Kind[op[w]] # "query",
         Connected, NEW what \in Seq(Nat), durable' = Append(durable, <<op[w], what>>)
  PROVE  Truthful'
<1>1. DurableOnce
  BY DEF Truthful
<1>2. op[w] \notin done /\ \A x \in Workers : op[x] = op[w] => x = w
  BY DEF Owned, Settled
<1>3. ~ Committed(op[w])
  BY <1>2 DEF Committed
<1>4. \A x \in Workers \ {w} : (ToReport(x)' <=> ToReport(x)) /\ op'[x] = op[x]
  BY OthersUnchanged DEF ToReport
<1>5. \A o \in Operations : Committed(o)' <=> Committed(o) \/ o = op[w]
  BY <1>4 DEF Committed
<1>6. /\ Len(durable) \in Nat /\ Len(durable') = Len(durable) + 1
      /\ \A k \in 1 .. Len(durable) : durable'[k] = durable[k]
      /\ durable'[Len(durable) + 1][1] = op[w]
  BY DEF Types
<1>7. \A k \in 1 .. Len(durable') : k \in 1 .. Len(durable) \/ k = Len(durable) + 1
  BY <1>6
<1>8. \A k \in 1 .. Len(durable) : durable[k][1] # op[w]
  BY <1>1, <1>3 DEF DurableOnce, IsDurable
<1>9. \A j, k \in 1 .. Len(durable') : durable'[j][1] = durable'[k][1] => j = k
  BY <1>1, <1>6, <1>7, <1>8 DEF DurableOnce
<1>10. \A o : IsDurable(o)' <=> IsDurable(o) \/ o = op[w]
  <2>1. Len(durable) + 1 \in 1 .. Len(durable') /\ 1 .. Len(durable) \subseteq 1 .. Len(durable')
    BY <1>6
  <2> QED
    BY <1>6, <1>7, <2>1 DEF IsDurable
<1>11. DurableOnce'
  BY <1>1, <1>5, <1>9, <1>10 DEF DurableOnce
<1> QED
  BY <1>11 DEF Truthful

\* The step reports a committed transaction.
LEMMA CommittedReported ==
  ASSUME Types, HistoryTypes, Truthful, NEW w \in Workers, StepOf(w),
         ToReport(w), ~ ToReport(w)', Kind[op[w]] # "query", done' = done \cup {op[w]},
         UNCHANGED <<durable, losses, ignored>>
  PROVE  Truthful'
<1>1. \A x \in Workers \ {w} : (ToReport(x)' <=> ToReport(x)) /\ op'[x] = op[x]
  BY OthersUnchanged DEF ToReport
<1>2. \A o \in Operations : Committed(o)' <=> Committed(o)
  BY <1>1 DEF Committed
<1> QED
  BY <1>2 DEF Truthful, Connected, DurableOnce, IsDurable

-----------------------------------------------------------------------------
(* The actions.                                                            *)

LEMMA CallersKeep ==
  ASSUME IInv, History, \/ \E o \in Operations : Enqueue(o)
                        \/ \E w \in Workers : StopWorker(w)
                        \/ Cancel \/ Join
  PROVE  History'
<1>1. Types /\ HistoryTypes /\ Owned
  BY DEF IInv, History
<1>2. Kinds' /\ Truthful'
  BY <1>1, CallersWake, WakesKeeps
<1>3. CASE \E o \in Operations : Enqueue(o)
  <2>1. PICK o \in Operations : Enqueue(o)
    BY <1>3
  <2>2. HistoryTypes'
    BY <1>1, <2>1 DEF HistoryTypes, Enqueue
  <2> QED
    BY <1>1, <1>2, <2>1, <2>2, OwnedEnqueue DEF History
<1>4. CASE (\E w \in Workers : StopWorker(w)) \/ Cancel \/ Join
  <2>1. queue' \in {queue, <<>>} /\ UNCHANGED <<op, submitted, done, failed, error>>
    BY <1>4 DEF StopWorker, Cancel, Join, queueVars, workerVars, history
  <2>2. HistoryTypes'
    BY <1>1, <2>1 DEF HistoryTypes
  <2> QED
    BY <1>1, <1>2, <2>1, <2>2, OwnedQuiet DEF History
<1> QED
  BY <1>3, <1>4

\* A worker goes on with the operation it has, or sleeps.
LEMMA SilentKeeps ==
  ASSUME IInv, History, NEW w \in Workers, StepOf(w),
         UNCHANGED <<queue, op, submitted, done, failed>>,
         error'[w] \in {"none", "deadlock", "other"}, OfKind(w)',
         ~ ToReport(w), ~ ToReport(w)',
         Connected' => Connected /\ UNCHANGED durable
  PROVE  History'
<1>1. Types /\ HistoryTypes /\ Owned /\ Kinds /\ Truthful
  BY DEF IInv, History
<1>2. HistoryTypes'
  BY <1>1 DEF HistoryTypes, StepOf
<1> QED
  BY <1>1, <1>2, OwnedQuiet, KindsOfOne, NothingCommitted DEF History

LEMMA WaitingSilent ==
  ASSUME IInv, History, NEW w \in Workers,
         \/ Block(w) \/ SpuriousWakeup(w) \/ CheckToken(w)
         \/ RejectEmpty(w) \/ AwaitLock(w) \/ AcquireLock(w) \/ Retry(w)
         \/ Pop(w) /\ UNCHANGED <<queue, op>>
  PROVE  History'
<1> USE DEF Block, SpuriousWakeup, CheckToken, RejectEmpty, AwaitLock, AcquireLock, Retry, Pop
<1>1. Types /\ HistoryTypes /\ OfKind(w) /\ InHand(w)
  BY DEF IInv, History, Kinds, InHands
<1>2. UNCHANGED <<queue, op, submitted, done, failed, durable, losses, ignored>>
  BY DEF queueVars, serverVars, history, faults
<1>3. StepOf(w)
  BY <1>1 DEF Types, HistoryTypes, StepOf
<1>4. error'[w] \in {"none", "deadlock", "other"} /\ ~ ToReport(w) /\ ~ ToReport(w)'
  BY <1>1 DEF Types, HistoryTypes, ToReport
<1>5. OfKind(w)'
  BY <1>1, <1>2 DEF Types, HistoryTypes, OfKind, InTransaction
<1> QED
  BY <1>2, <1>3, <1>4, <1>5, SilentKeeps DEF Connected

LEMMA PopHistory ==
  ASSUME IInv, History, NEW w \in Workers, Pop(w), ~ UNCHANGED <<queue, op>>
  PROVE  History'
<1>1. Types /\ HistoryTypes /\ Owned /\ Kinds /\ Truthful
  BY DEF IInv, History
<1>2. /\ queue # <<>> /\ op' = [op EXCEPT ![w] = Head(queue)] /\ queue' = Tail(queue)
      /\ UNCHANGED <<error, submitted, done, failed, durable, losses, ignored>>
  BY DEF Pop, serverVars, history, faults
<1>3. StepOf(w) /\ wpc[w] = "pop" /\ wpc'[w] = "popped"
  BY <1>1, <1>2 DEF Types, HistoryTypes, StepOf, Pop
<1>4. OfKind(w)' /\ ~ ToReport(w) /\ ~ ToReport(w)'
  BY <1>3 DEF OfKind, ToReport, InTransaction
<1>5. HistoryTypes'
  BY <1>1, <1>2 DEF HistoryTypes
<1>6. Connected' => Connected /\ UNCHANGED durable
  BY <1>2 DEF Connected
<1> QED
  BY <1>1, <1>2, <1>3, <1>4, <1>5, <1>6, OwnedPop, KindsOfOne, NothingCommitted DEF History

\* Within the transaction nothing becomes durable.
LEMMA StatementsSilent ==
  ASSUME IInv, History, NEW w \in Workers,
         \/ BeginTransaction(w) \/ ExecuteStatement(w)
         \/ RefuseStatement(w) \/ RollbackTransaction(w)
  PROVE  History'
<1> USE DEF BeginTransaction, ExecuteStatement, RefuseStatement, RollbackTransaction, Refuses
<1>1. Types /\ HistoryTypes /\ OfKind(w)
  BY DEF IInv, History, Kinds
<1>2. UNCHANGED <<queue, op, submitted, done, failed, losses, ignored>>
  BY DEF queueVars, history, faults
<1>3. StepOf(w)
  BY <1>1 DEF Types, HistoryTypes, StepOf
<1>4. error'[w] \in {"none", "deadlock", "other"} /\ ~ ToReport(w) /\ ~ ToReport(w)'
  BY <1>1 DEF Types, HistoryTypes, ToReport, OfKind
<1>5. OfKind(w)'
  BY <1>1, <1>2 DEF Types, HistoryTypes, OfKind, InTransaction
<1>6. ASSUME Connected' PROVE Connected /\ UNCHANGED durable
  <2>1. Connected
    BY <1>2, <1>6 DEF Connected
  <2>2. wpc[w] = "statement" => open[w]
    BY <2>1 DEF IInv, Buffered, Buffer
  <2> QED
    BY <2>1, <2>2 DEF Executes, serverVars
<1> QED
  BY <1>2, <1>3, <1>4, <1>5, <1>6, SilentKeeps

\* A fault ends what is claimed of the durable operations.
LEMMA FaultDisconnects ==
  ASSUME Types, NEW w \in Workers, LoseSingle(w) \/ LoseTransaction(w) \/ RefuseUnchecked(w)
  PROVE  ~ Connected'
BY LosesOnce DEF Types, LoseSingle, LoseTransaction, RefuseUnchecked, Connected

LEMMA FaultHistory ==
  ASSUME IInv, History, NEW w \in Workers,
         LoseSingle(w) \/ LoseTransaction(w) \/ RefuseUnchecked(w)
  PROVE  History'
<1> USE DEF LoseSingle, LoseTransaction, RefuseUnchecked
<1>1. Types /\ HistoryTypes /\ Owned /\ Kinds /\ OfKind(w)
  BY DEF IInv, History, Kinds
<1>2. UNCHANGED <<queue, op, submitted, done, failed>>
  BY DEF queueVars, workerVars, history
<1>3. StepOf(w) /\ error'[w] \in {"none", "deadlock", "other"}
  BY <1>1 DEF Types, HistoryTypes, StepOf, workerVars
<1>4. OfKind(w)'
  BY <1>1, <1>2 DEF Types, OfKind, InTransaction, workerVars
<1>5. HistoryTypes'
  BY <1>1, <1>2, <1>3 DEF HistoryTypes, StepOf
<1>6. Truthful'
  BY <1>1, FaultDisconnects DEF Truthful
<1> QED
  BY <1>1, <1>2, <1>3, <1>4, <1>5, <1>6, OwnedQuiet, KindsOfOne DEF History

LEMMA SingleHistory ==
  ASSUME IInv, History, NEW w \in Workers, ExecuteSingle(w)
  PROVE  History'
<1>1. Types /\ HistoryTypes /\ Owned /\ Kinds /\ Truthful /\ OfKind(w)
  BY DEF IInv, History, Kinds
<1>2. op[w] \in Operations /\ Kind[op[w]] # "transaction"
  BY <1>1 DEF IInv, InHands, InHand, OfKind, ExecuteSingle
<1>3. /\ op' = [op EXCEPT ![w] = NoOperation] /\ wpc' = [wpc EXCEPT ![w] = "pop"]
      /\ UNCHANGED <<queue, submitted, error, losses, ignored>>
      /\ \/ done' = done \cup {op[w]} /\ UNCHANGED failed
         \/ failed' = failed \cup {op[w]} /\ UNCHANGED done
  BY DEF ExecuteSingle, queueVars, faults, Refuses
<1>4. StepOf(w) /\ ~ ToReport(w) /\ ~ ToReport(w)' /\ OfKind(w)'
  BY <1>1, <1>3 DEF Types, HistoryTypes, StepOf, ToReport, OfKind, InTransaction, ExecuteSingle
<1>5. HistoryTypes'
  BY <1>1, <1>2, <1>3 DEF HistoryTypes
<1>6. Truthful'
  <2>1. CASE UNCHANGED durable /\ (done' = done \/ Kind[op[w]] = "query")
    BY <1>1, <1>3, <1>4, <2>1, NothingCommitted DEF Connected
  <2>2. CASE Connected /\ Executes(w, 1) /\ done' = done \cup {op[w]} /\ Kind[op[w]] = "statement"
    <3>1. ~ open[w]
      BY <2>2 DEF IInv, Buffered, Buffer, ExecuteSingle
    <3>2. durable' = Append(durable, <<op[w], <<1>> >>) /\ <<1>> \in Seq(Nat)
      BY <2>2, <3>1 DEF Executes
    <3> QED
      BY <1>1, <1>2, <1>4, <2>2, <3>2, OneCommitted
  <2>3. CASE ~ Connected
    BY <1>3, <2>3 DEF Connected, Truthful
  <2> QED
    <3>1. Kind[op[w]] \in {"statement", "query"}
      BY <1>2, OperationsAssumption
    <3> QED
      BY <1>3, <2>1, <2>2, <2>3, <3>1 DEF ExecuteSingle
<1> QED
  BY <1>1, <1>2, <1>3, <1>4, <1>5, <1>6, OwnedLeave, KindsOfOne DEF History

LEMMA CommitHistory ==
  ASSUME IInv, History, NEW w \in Workers, CommitTransaction(w)
  PROVE  History'
<1>1. Types /\ HistoryTypes /\ Owned /\ Kinds /\ Truthful /\ OfKind(w) /\ op[w] \in Operations
  BY DEF IInv, History, Kinds, InHands, InHand, CommitTransaction, InTransaction
<1>2. UNCHANGED <<queue, op, submitted, done, failed, losses, ignored>>
  BY DEF CommitTransaction, queueVars, history, faults
<1>3. StepOf(w) /\ ~ ToReport(w) /\ ToReport(w)' /\ OfKind(w)'
  BY <1>1, <1>2 DEF Types, HistoryTypes, StepOf, ToReport, OfKind, InTransaction, CommitTransaction
<1>4. HistoryTypes'
  BY <1>1, <1>2 DEF HistoryTypes, CommitTransaction
<1>5. Truthful'
  <2>1. CASE Connected
    <3>1. open[w] /\ buffer[w] \in Seq(Nat)
      BY <1>1, <2>1 DEF IInv, Buffered, Buffer, CommitTransaction, Types
    <3>2. durable' = Append(durable, <<op[w], buffer[w]>>)
      BY <3>1 DEF CommitTransaction, Commits
    <3> QED
      BY <1>1, <1>2, <1>3, <2>1, <3>1, <3>2, OneCommitted
  <2>2. CASE ~ Connected
    BY <1>2, <2>2 DEF Connected, Truthful
  <2> QED
    BY <2>1, <2>2
<1> QED
  BY <1>1, <1>2, <1>3, <1>4, <1>5, OwnedQuiet, KindsOfOne DEF History

LEMMA ReportHistory ==
  ASSUME IInv, History, NEW w \in Workers, Succeed(w) \/ GiveUp(w)
  PROVE  History'
<1> USE DEF Succeed, GiveUp, Leave
<1>1. /\ Types /\ HistoryTypes /\ Owned /\ Kinds /\ Truthful
      /\ op[w] \in Operations /\ Kind[op[w]] = "transaction"
  BY DEF IInv, History, Kinds, OfKind, InHands, InHand, InTransaction
<1>2. /\ op' = [op EXCEPT ![w] = NoOperation] /\ wpc' = [wpc EXCEPT ![w] = "pop"]
      /\ UNCHANGED <<queue, submitted, error, durable, losses, ignored>>
      /\ \/ done' = done \cup {op[w]} /\ UNCHANGED failed
         \/ failed' = failed \cup {op[w]} /\ UNCHANGED done
  BY DEF queueVars, serverVars, faults
<1>3. StepOf(w) /\ ~ ToReport(w)' /\ OfKind(w)'
  BY <1>1, <1>2 DEF Types, HistoryTypes, StepOf, ToReport, OfKind, InTransaction
<1>4. HistoryTypes'
  BY <1>1, <1>2 DEF HistoryTypes
<1>5. Truthful'
  <2>1. CASE Succeed(w)
    BY <1>1, <1>2, <1>3, <2>1, CommittedReported DEF ToReport
  <2>2. CASE GiveUp(w)
    BY <1>1, <1>2, <1>3, <2>2, NothingCommitted DEF ToReport, Connected
  <2> QED
    BY <2>1, <2>2
<1> QED
  BY <1>1, <1>2, <1>3, <1>4, <1>5, OwnedLeave, KindsOfOne DEF History

-----------------------------------------------------------------------------
LEMMA InitHistory == Init => History
<1> SUFFICES ASSUME Init PROVE History
  OBVIOUS
<1>1. HistoryTypes /\ Kinds
  BY DEF Init, HistoryTypes, Kinds, OfKind, InTransaction
<1>2. Owned
  BY OperationsAssumption DEF Init, Owned, Settled
<1>3. Truthful
  BY DEF Init, Truthful, DurableOnce, IsDurable, Committed, ToReport
<1> QED
  BY <1>1, <1>2, <1>3 DEF History

LEMMA NextHistory == IInv /\ History /\ [Next]_vars => History'
<1> SUFFICES ASSUME IInv, History, [Next]_vars PROVE History'
  OBVIOUS
<1>1. CASE CloseStep
  BY <1>1, CallersKeep DEF CloseStep
<1>2. ASSUME NEW w \in Workers, WorkerStep(w) PROVE History'
  BY <1>2, WaitingSilent, PopHistory, StatementsSilent, SingleHistory, CommitHistory,
     ReportHistory DEF WorkerStep
<1>3. CASE Environment
  <2>1. ASSUME NEW w \in Workers,
               SpuriousWakeup(w) \/ LoseSingle(w) \/ LoseTransaction(w) \/ RefuseUnchecked(w)
        PROVE  History'
    BY <2>1, WaitingSilent, FaultHistory
  <2> QED
    BY <1>3, <2>1, CallersKeep DEF Environment
<1>4. CASE UNCHANGED vars
  <2>1. HistoryTypes' /\ Kinds' /\ Truthful'
    BY <1>4, WakesKeeps DEF vars, Wakes, History, HistoryTypes
  <2>2. Owned'
    BY <1>4, OwnedQuiet DEF vars, IInv, History
  <2> QED
    BY <2>1, <2>2 DEF History
<1> QED
  BY <1>1, <1>2, <1>3, <1>4 DEF Next, Closed

LEMMA HistoryInvariant == Spec => [](IInv /\ History)
<1> QED
  BY InitIInv, NextIInv, InitHistory, NextHistory, PTL DEF Spec

\* The copies of an operation that is durable once are one.
LEMMA OneCopy ==
  ASSUME DurableOnce, NEW o, IsDurable(o)
  PROVE  Cardinality({k \in 1 .. Len(durable) : durable[k][1] = o}) = 1
<1>1. PICK j \in 1 .. Len(durable) : durable[j][1] = o
  BY DEF IsDurable
<1>2. {k \in 1 .. Len(durable) : durable[k][1] = o} = {j}
  BY <1>1 DEF DurableOnce
<1> QED
  BY <1>2, FS_Singleton

\* Until a connection is lost, or a START TRANSACTION or COMMIT refused, an
\* operation that reported success is durable exactly once, and one that waits
\* or was given up is not durable: a deadlocked transaction that is tried again
\* leaves nothing of its first attempts.
THEOREM ReportsAreTrue == Spec => []ReportedTruthfully
<1>1. IInv /\ History => ReportedTruthfully
  <2> SUFFICES ASSUME IInv, History, Connected, NEW o \in Operations
               PROVE  /\ o \in done /\ Kind[o] # "query" =>
                           Cardinality({k \in 1 .. Len(durable) : durable[k][1] = o}) = 1
                      /\ o \in failed \cup ToSet(queue) =>
                           {k \in 1 .. Len(durable) : durable[k][1] = o} = {}
    BY DEF ReportedTruthfully, Connected
  <2>1. DurableOnce /\ Owned /\ Types
    BY DEF History, Truthful, IInv
  <2>2. CASE o \in done /\ Kind[o] # "query"
    <3>1. IsDurable(o) /\ o \notin failed
      BY <2>1, <2>2 DEF DurableOnce, Committed, Owned
    <3>2. o \notin ToSet(queue)
      BY <2>1, <2>2 DEF Owned, Settled, Types, ToSet
    <3> QED
      BY <2>1, <3>1, <3>2, OneCopy
  <2>3. CASE o \in failed \cup ToSet(queue)
    <3>1. o \notin done
      BY <2>1, <2>3 DEF Owned, Settled, Types, ToSet
    <3>2. \A w \in Workers : op[w] # o
      <4>1. CASE o \in failed
        BY <2>1, <4>1 DEF Owned, Settled
      <4>2. CASE o \in ToSet(queue)
        <5>1. PICK i \in 1 .. Len(queue) : queue[i] = o
          BY <2>1, <4>2 DEF Types, ToSet
        <5> QED
          BY <2>1, <5>1 DEF Owned
      <4> QED
        BY <2>3, <4>1, <4>2
    <3>3. ~ IsDurable(o)
      BY <2>1, <3>1, <3>2 DEF DurableOnce, Committed
    <3> QED
      BY <3>1, <3>3 DEF IsDurable
  <2> QED
    BY <2>2, <2>3
<1> QED
  BY <1>1, HistoryInvariant, PTL

-----------------------------------------------------------------------------
(* One worker: the operations go from the queue through its hands to the   *)
(* server in the order of submission, whatever fails on the way.           *)

OneWorker == \E w : scenario.threads = {w}

\* Only the threads the pool was opened with do anything.
Idle == \A w \in Workers \ scenario.threads : wpc[w] = "exited" /\ op[w] = NoOperation

Earlier(h, a, b) == \E s, t \in 1 .. Len(h) : s <= t /\ h[s] = a /\ h[t] = b

Ordering ==
  /\ \A j, k \in 1 .. Len(durable) : j < k => Earlier(submitted, durable[j][1], durable[k][1])
  /\ \A k \in 1 .. Len(durable) : Earlier(submitted, durable[k][1], durable[k][1])
  /\ \A w \in Workers : op[w] \in Operations =>
       /\ Earlier(submitted, op[w], op[w])
       /\ \A k \in 1 .. Len(durable) : Earlier(submitted, durable[k][1], op[w])
       /\ \A i \in 1 .. Len(queue) : Earlier(submitted, op[w], queue[i])
  /\ \A i \in 1 .. Len(queue) :
       /\ \A k \in 1 .. Len(durable) : Earlier(submitted, durable[k][1], queue[i])
       /\ \A j \in 1 .. Len(queue) : i <= j => Earlier(submitted, queue[i], queue[j])

InTurn == scenario \in Scenarios /\ Idle /\ (OneWorker => Ordering)

LEMMA OneOfThreads ==
  ASSUME scenario \in Scenarios, Cardinality(scenario.threads) = 1
  PROVE  OneWorker
<1>1. scenario.threads \subseteq Workers /\ IsFiniteSet(Workers)
  BY ScenariosAssumption, OperationsAssumption
<1>2. IsFiniteSet(scenario.threads)
  BY <1>1, FS_Subset
<1> QED
  BY <1>2, FS_Singleton DEF OneWorker

\* The operation enqueued comes after every one submitted before.
LEMMA EnqueueInTurn ==
  ASSUME Types, HistoryTypes, InTurn, NEW o \in Operations, Enqueue(o)
  PROVE  InTurn'
<1>1. /\ queue' = Append(queue, o) /\ submitted' = Append(submitted, o)
      /\ UNCHANGED <<op, durable, scenario>>
      /\ \A w \in Workers : wpc[w] = "exited" => wpc'[w] = "exited"
  BY DEF Enqueue, serverVars, faults, Types
<1>2. /\ Len(submitted) \in Nat /\ Len(submitted') = Len(submitted) + 1
      /\ submitted'[Len(submitted) + 1] = o
      /\ \A s \in 1 .. Len(submitted) : submitted'[s] = submitted[s]
      /\ Len(queue) \in Nat /\ Len(queue') = Len(queue) + 1 /\ queue'[Len(queue) + 1] = o
      /\ \A i \in 1 .. Len(queue) : queue'[i] = queue[i]
  BY <1>1 DEF Types, HistoryTypes
<1>3. \A s \in 1 .. Len(submitted) : s \in 1 .. Len(submitted')
  BY <1>2
<1>4. \A a, b : Earlier(submitted, a, b) => Earlier(submitted', a, b) /\ Earlier(submitted', a, o) /\ Earlier(submitted', o, o)
  <2> SUFFICES ASSUME NEW a, NEW b, Earlier(submitted, a, b)
               PROVE  Earlier(submitted', a, b) /\ Earlier(submitted', a, o) /\ Earlier(submitted', o, o)
    OBVIOUS
  <2>1. PICK s, t \in 1 .. Len(submitted) : s <= t /\ submitted[s] = a /\ submitted[t] = b
    BY DEF Earlier
  <2>2. Earlier(submitted', a, b)
    BY <1>2, <1>3, <2>1 DEF Earlier
  <2>3. s <= Len(submitted) + 1 /\ Len(submitted) + 1 \in 1 .. Len(submitted')
    BY <1>2
  <2> QED
    BY <1>2, <1>3, <2>1, <2>2, <2>3 DEF Earlier
<1>5. Earlier(submitted', o, o)
  <2>1. Len(submitted) + 1 \in 1 .. Len(submitted') /\ Len(submitted) + 1 <= Len(submitted) + 1
    BY <1>2
  <2> QED
    BY <1>2, <2>1 DEF Earlier
<1>6. OneWorker' => OneWorker
  BY <1>1 DEF OneWorker
<1>7. ASSUME Ordering PROVE Ordering'
  <2>1. \A i \in 1 .. Len(queue') : i \in 1 .. Len(queue) \/ i = Len(queue) + 1
    BY <1>2
  <2>2. \A k \in 1 .. Len(durable) : Earlier(submitted', durable[k][1], o)
    BY <1>4, <1>7 DEF Ordering
  <2>3. \A w \in Workers : op[w] \in Operations => Earlier(submitted', op[w], o)
    BY <1>4, <1>7 DEF Ordering
  <2>4. \A i \in 1 .. Len(queue) : i <= i
    BY <1>2
  <2>5. \A i \in 1 .. Len(queue) : Earlier(submitted', queue[i], o)
    BY <1>4, <1>7, <2>4 DEF Ordering
  <2>6. \A i \in 1 .. Len(queue') : \A j \in 1 .. Len(queue') :
          i <= j => Earlier(submitted', queue'[i], queue'[j])
    <3> SUFFICES ASSUME NEW i \in 1 .. Len(queue'), NEW j \in 1 .. Len(queue'), i <= j
                 PROVE  Earlier(submitted', queue'[i], queue'[j])
      OBVIOUS
    <3>1. i \in 1 .. Len(queue) \/ (i = Len(queue) + 1 /\ j = Len(queue) + 1)
      BY <1>2
    <3> QED
      BY <1>2, <1>4, <1>5, <1>7, <2>1, <2>5, <3>1 DEF Ordering
  <2>7. \A i \in 1 .. Len(queue') : \A k \in 1 .. Len(durable) : Earlier(submitted', durable[k][1], queue'[i])
    BY <1>2, <1>4, <1>7, <2>1, <2>2 DEF Ordering
  <2>8. \A w \in Workers : op[w] \in Operations =>
          \A i \in 1 .. Len(queue') : Earlier(submitted', op[w], queue'[i])
    BY <1>2, <1>4, <1>7, <2>1, <2>3 DEF Ordering
  <2>9. /\ \A j, k \in 1 .. Len(durable) : j < k => Earlier(submitted', durable[j][1], durable[k][1])
        /\ \A k \in 1 .. Len(durable) : Earlier(submitted', durable[k][1], durable[k][1])
        /\ \A w \in Workers : op[w] \in Operations =>
             /\ Earlier(submitted', op[w], op[w])
             /\ \A k \in 1 .. Len(durable) : Earlier(submitted', durable[k][1], op[w])
    BY <1>4, <1>7 DEF Ordering
  <2> QED
    BY <1>1, <2>6, <2>7, <2>8, <2>9 DEF Ordering
<1> QED
  BY <1>1, <1>6, <1>7 DEF InTurn, Idle

\* The threads stay those they were; a worker that has left has left.
LEMMA IdleKept ==
  ASSUME InTurn, UNCHANGED scenario,
         \A x \in Workers : wpc[x] = "exited" => wpc'[x] = "exited" /\ op'[x] = op[x]
  PROVE  Idle' /\ (OneWorker' => OneWorker /\ Ordering)
BY DEF InTurn, Idle, OneWorker

\* The queue stays or is emptied, operations are let go.
LEMMA QuietInTurn ==
  ASSUME Types, HistoryTypes, InTurn,
         queue' \in {queue, <<>>}, UNCHANGED <<submitted, durable, scenario>>,
         \A x \in Workers : op'[x] = op[x] \/ op'[x] = NoOperation,
         \A x \in Workers : wpc[x] = "exited" => wpc'[x] = "exited" /\ op'[x] = op[x]
  PROVE  InTurn'
<1>1. Idle' /\ (OneWorker' => OneWorker /\ Ordering)
  BY IdleKept
<1>3. \A i \in 1 .. Len(queue') : i \in 1 .. Len(queue) /\ queue' = queue
  <2>1. Len(<<>>) = 0
    OBVIOUS
  <2> QED
    BY <2>1
<1>4. NoOperation \notin Operations
  BY OperationsAssumption
<1>5. Ordering => Ordering'
  BY <1>3, <1>4 DEF Ordering
<1> QED
  BY <1>1, <1>5 DEF InTurn

LEMMA PopInTurn ==
  ASSUME Types, HistoryTypes, InTurn, NEW w \in Workers, wpc[w] # "exited", queue # <<>>,
         queue' = Tail(queue), op' = [op EXCEPT ![w] = Head(queue)],
         wpc' = [wpc EXCEPT ![w] = "popped"], UNCHANGED <<submitted, durable, scenario>>
  PROVE  InTurn'
<1>1. /\ Len(queue) \in Nat \ {0} /\ Len(queue') = Len(queue) - 1 /\ Head(queue) = queue[1]
      /\ \A i \in 1 .. Len(queue') : queue'[i] = queue[i + 1]
      /\ op'[w] = queue[1] /\ \A x \in Workers \ {w} : op'[x] = op[x] /\ wpc'[x] = wpc[x]
  BY DEF Types
<1>2. Idle' /\ (OneWorker' => OneWorker /\ Ordering)
  BY <1>1, IdleKept
<1>4. 1 \in 1 .. Len(queue) /\ \A i \in 1 .. Len(queue') : i + 1 \in 1 .. Len(queue) /\ 1 <= i + 1
  BY <1>1
<1>5. \A i, j \in 1 .. Len(queue') : i <= j => i + 1 <= j + 1
  BY <1>1
<1>6. \A x \in Workers : op'[x] \in Operations =>
        x = w \/ (x # w /\ op[x] = op'[x] /\ op[x] \in Operations)
  BY <1>1
<1>7. ASSUME Ordering PROVE Ordering'
  <2>1. /\ Earlier(submitted, op'[w], op'[w])
        /\ \A k \in 1 .. Len(durable) : Earlier(submitted, durable[k][1], op'[w])
        /\ \A i \in 1 .. Len(queue') : Earlier(submitted, op'[w], queue'[i])
    <3>1. 1 <= 1
      OBVIOUS
    <3> QED
      BY <1>1, <1>4, <1>7, <3>1 DEF Ordering
  <2>2. \A x \in Workers : op'[x] \in Operations =>
          /\ Earlier(submitted, op'[x], op'[x])
          /\ \A k \in 1 .. Len(durable) : Earlier(submitted, durable[k][1], op'[x])
          /\ \A i \in 1 .. Len(queue') : Earlier(submitted, op'[x], queue'[i])
    BY <1>1, <1>4, <1>6, <1>7, <2>1 DEF Ordering
  <2>3. \A i \in 1 .. Len(queue') :
          /\ \A k \in 1 .. Len(durable) : Earlier(submitted, durable[k][1], queue'[i])
          /\ \A j \in 1 .. Len(queue') : i <= j => Earlier(submitted, queue'[i], queue'[j])
    BY <1>1, <1>4, <1>5, <1>7 DEF Ordering
  <2> QED
    BY <1>7, <2>2, <2>3 DEF Ordering
<1> QED
  BY <1>2, <1>7 DEF InTurn

\* The only worker makes its operation durable; it may then let go of it.
LEMMA DurableInTurn ==
  ASSUME Types, HistoryTypes, InTurn, NEW w \in Workers, wpc[w] # "exited", op[w] \in Operations,
         NEW what, durable' = Append(durable, <<op[w], what>>),
         UNCHANGED <<queue, submitted, scenario>>,
         \A x \in Workers \ {w} : wpc'[x] = wpc[x] /\ op'[x] = op[x],
         op'[w] = op[w] \/ op'[w] = NoOperation
  PROVE  InTurn'
<1>1. Idle' /\ (OneWorker' => OneWorker /\ Ordering)
  BY IdleKept
<1>3. /\ Len(durable) \in Nat /\ Len(durable') = Len(durable) + 1
      /\ \A k \in 1 .. Len(durable) : durable'[k] = durable[k]
      /\ durable'[Len(durable) + 1][1] = op[w]
  BY DEF Types
<1>4. \A k \in 1 .. Len(durable') : k \in 1 .. Len(durable) \/ k = Len(durable) + 1
  BY <1>3
<1>5. OneWorker => \A x \in Workers : op'[x] \in Operations => x = w /\ op'[x] = op[w]
  <2>1. NoOperation \notin Operations
    BY OperationsAssumption
  <2> QED
    BY <2>1 DEF OneWorker, InTurn, Idle
<1>6. ASSUME OneWorker, Ordering PROVE Ordering'
  <2>1. \A j, k \in 1 .. Len(durable') : j < k => Earlier(submitted, durable'[j][1], durable'[k][1])
    <3> SUFFICES ASSUME NEW j \in 1 .. Len(durable'), NEW k \in 1 .. Len(durable'), j < k
                 PROVE  Earlier(submitted, durable'[j][1], durable'[k][1])
      OBVIOUS
    <3>1. j \in 1 .. Len(durable)
      BY <1>3
    <3> QED
      BY <1>3, <1>4, <1>6, <3>1 DEF Ordering
  <2>2. \A k \in 1 .. Len(durable') : /\ Earlier(submitted, durable'[k][1], durable'[k][1])
                                      /\ Earlier(submitted, durable'[k][1], op[w])
    BY <1>3, <1>4, <1>6 DEF Ordering
  <2>3. \A i \in 1 .. Len(queue) : \A k \in 1 .. Len(durable') : Earlier(submitted, durable'[k][1], queue[i])
    BY <1>3, <1>4, <1>6 DEF Ordering
  <2>4. \A x \in Workers : op'[x] \in Operations =>
          /\ Earlier(submitted, op'[x], op'[x])
          /\ \A k \in 1 .. Len(durable') : Earlier(submitted, durable'[k][1], op'[x])
          /\ \A i \in 1 .. Len(queue) : Earlier(submitted, op'[x], queue[i])
    BY <1>5, <1>6, <2>2 DEF Ordering
  <2> QED
    BY <1>6, <2>1, <2>2, <2>3, <2>4 DEF Ordering
<1> QED
  BY <1>1, <1>6 DEF InTurn

LEMMA WorkerInTurn ==
  ASSUME IInv, HistoryTypes, InTurn, NEW w \in Workers,
         WorkerStep(w) \/ SpuriousWakeup(w) \/ LoseSingle(w) \/ LoseTransaction(w) \/ RefuseUnchecked(w)
  PROVE  InTurn'
<1> USE DEF Block, SpuriousWakeup, CheckToken, ExecuteSingle, RejectEmpty, BeginTransaction,
            ExecuteStatement, RefuseStatement, RollbackTransaction, CommitTransaction, Succeed,
            AwaitLock, AcquireLock, Retry, GiveUp, Leave, LoseSingle, LoseTransaction,
            RefuseUnchecked, Refuses, Loses
<1>1. Types /\ InHand(w)
  BY DEF IInv, InHands
<1>2. UNCHANGED <<submitted, scenario>> /\ wpc[w] # "exited"
  BY DEF WorkerStep, Pop, history, faults
<1>3. CASE Pop(w) /\ ~ UNCHANGED <<queue, op>>
  <2>1. /\ queue # <<>> /\ queue' = Tail(queue) /\ op' = [op EXCEPT ![w] = Head(queue)]
        /\ wpc' = [wpc EXCEPT ![w] = "popped"] /\ UNCHANGED durable
    BY <1>3 DEF Pop, serverVars
  <2> QED
    BY <1>1, <1>2, <2>1, PopInTurn
<1>4. CASE ~ (Pop(w) /\ ~ UNCHANGED <<queue, op>>)
  <2>1. /\ UNCHANGED queue /\ op' \in {op, [op EXCEPT ![w] = NoOperation]}
        /\ \A x \in Workers \ {w} : wpc'[x] = wpc[x]
    BY <1>1, <1>4 DEF WorkerStep, Pop, queueVars, workerVars, Types
  <2>2. /\ \A x \in Workers \ {w} : wpc'[x] = wpc[x] /\ op'[x] = op[x]
        /\ op'[w] = op[w] \/ op'[w] = NoOperation
    BY <1>1, <2>1 DEF Types
  <2>3. \/ UNCHANGED durable
        \/ op[w] \in Operations /\ \E what : durable' = Append(durable, <<op[w], what>>)
    BY <1>1 DEF WorkerStep, Pop, serverVars, Executes, Commits, InHand, InTransaction
  <2>4. CASE UNCHANGED durable
    BY <1>1, <1>2, <2>1, <2>2, <2>4, QuietInTurn
  <2>5. CASE op[w] \in Operations /\ \E what : durable' = Append(durable, <<op[w], what>>)
    BY <1>1, <1>2, <2>1, <2>2, <2>5, DurableInTurn
  <2> QED
    BY <2>3, <2>4, <2>5
<1> QED
  BY <1>3, <1>4

LEMMA NextInTurn == IInv /\ History /\ InTurn /\ [Next]_vars => InTurn'
<1> SUFFICES ASSUME IInv, History, InTurn, [Next]_vars PROVE InTurn'
  OBVIOUS
<1>1. Types /\ HistoryTypes
  BY DEF IInv, History
<1>2. CASE \E o \in Operations : Enqueue(o)
  BY <1>1, <1>2, EnqueueInTurn
<1>3. CASE (\E w \in Workers : StopWorker(w)) \/ Cancel \/ Join \/ UNCHANGED vars
  <2>1. /\ queue' \in {queue, <<>>} /\ UNCHANGED <<submitted, durable, scenario, op>>
        /\ \A x \in Workers : wpc[x] = "exited" => wpc'[x] = "exited"
    BY <1>1, <1>3 DEF Types, StopWorker, Cancel, Join, queueVars, workerVars, serverVars, history,
                      faults, vars
  <2> QED
    BY <1>1, <2>1, QuietInTurn
<1>4. CASE \E w \in Workers : WorkerStep(w) \/ SpuriousWakeup(w) \/ LoseSingle(w)
                                \/ LoseTransaction(w) \/ RefuseUnchecked(w)
  BY <1>1, <1>4, WorkerInTurn
<1> QED
  BY <1>2, <1>3, <1>4 DEF Next, CloseStep, Environment, Closed

LEMMA InitInTurn == Init => InTurn
<1> SUFFICES ASSUME Init PROVE InTurn
  OBVIOUS
<1>1. Idle /\ scenario \in Scenarios
  BY DEF Init, Idle
<1>2. Ordering
  BY OperationsAssumption DEF Init, Ordering
<1> QED
  BY <1>1, <1>2 DEF InTurn

\* With one worker the operations are made durable in the order of submission,
\* also when connections are lost and statements are executed a second time.
THEOREM OneWorkerInOrder == Spec => []InOrder
<1>1. Init => IInv /\ History /\ InTurn
  BY InitIInv, InitHistory, InitInTurn
<1>2. IInv /\ History /\ InTurn /\ [Next]_vars => (IInv /\ History /\ InTurn)'
  BY NextIInv, NextHistory, NextInTurn
<1>3. InTurn => InOrder
  BY OneOfThreads DEF InTurn, InOrder, Ordering, Earlier
<1> QED
  BY <1>1, <1>2, <1>3, PTL DEF Spec
=============================================================================
