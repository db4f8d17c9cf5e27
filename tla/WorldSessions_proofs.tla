-------------------------- MODULE WorldSessions_proofs --------------------------
(***************************************************************************)
(* Proofs about WorldSessions, for any accounts, sessions, queue and       *)
(* player limits: m_sessions, addSessQueue and m_QueuedPlayer never point  *)
(* to a deleted session, and who is let in respects the limit and the      *)
(* order of the queue.                                                     *)
(***************************************************************************)
EXTENDS WorldSessions, FiniteSetTheorems, SequenceTheorems, TLAPS

-----------------------------------------------------------------------------
(* Sequences without duplicates.                                           *)

LEMMA ToSetIs ==
  ASSUME NEW S, NEW q \in Seq(S)
  PROVE  /\ Len(q) \in Nat /\ DOMAIN q = 1 .. Len(q) /\ ToSet(q) \subseteq S
         /\ \A x : x \in ToSet(q) <=> \E i \in 1 .. Len(q) : q[i] = x
         /\ \A x : x \in ToSet(q) <=> Contains(q, x)
         /\ q = <<>> <=> ToSet(q) = {}
<1>1. Len(q) \in Nat /\ DOMAIN q = 1 .. Len(q) /\ \A i \in 1 .. Len(q) : q[i] \in S
  OBVIOUS
<1>2. q = <<>> <=> Len(q) = 0
  OBVIOUS
<1>3. q # <<>> => 1 \in 1 .. Len(q)
  BY <1>1, <1>2
<1>4. \A x : x \in ToSet(q) <=> \E i \in 1 .. Len(q) : q[i] = x
  BY <1>1 DEF ToSet
<1>5. ToSet(q) \subseteq S
  BY <1>1, <1>4
<1>6. q = <<>> <=> ToSet(q) = {}
  <2>1. q # <<>> => q[1] \in ToSet(q)
    BY <1>3, <1>4
  <2>2. q = <<>> => ToSet(q) = {}
    BY <1>1, <1>2, <1>4
  <2> QED
    BY <2>1, <2>2
<1> QED
  BY <1>1, <1>4, <1>5, <1>6 DEF Contains

\* Duplicates or not, stated with the indices.
LEMMA InjectiveIs ==
  ASSUME NEW S, NEW q \in Seq(S)
  PROVE  IsInjective(q) <=> \A i, j \in 1 .. Len(q) : q[i] = q[j] => i = j
<1>1. DOMAIN q = 1 .. Len(q)
  OBVIOUS
<1> QED
  BY <1>1 DEF IsInjective

\* r is q with the element at place k taken out.
WithoutPlace(r, q, k) ==
  /\ Len(r) = Len(q) - 1
  /\ \A j \in 1 .. Len(q) - 1 : r[j] = IF j < k THEN q[j] ELSE q[j + 1]

LEMMA WithoutPlaceIs ==
  ASSUME NEW S, NEW q \in Seq(S), NEW r \in Seq(S), IsInjective(q),
         NEW k \in 1 .. Len(q), WithoutPlace(r, q, k)
  PROVE  /\ IsInjective(r) /\ ToSet(r) = ToSet(q) \ {q[k]}
         /\ \A x, y : Before(r, x, y) => Before(q, x, y)
<1> DEFINE at(j) == IF j < k THEN j ELSE j + 1
<1>1. Len(q) \in Nat /\ Len(r) = Len(q) - 1
  BY DEF WithoutPlace
<1>2. \A j \in 1 .. Len(r) : at(j) \in 1 .. Len(q) /\ at(j) # k /\ r[j] = q[at(j)]
  BY <1>1 DEF WithoutPlace
<1>3. \A i, j \in 1 .. Len(r) : i < j => at(i) < at(j)
  BY <1>1
<1>4. \A i, j \in 1 .. Len(q) : q[i] = q[j] => i = j
  BY InjectiveIs
<1>5. \A i, j \in 1 .. Len(r) : r[i] = r[j] => i = j
  <2> SUFFICES ASSUME NEW i \in 1 .. Len(r), NEW j \in 1 .. Len(r), r[i] = r[j] PROVE i = j
    OBVIOUS
  <2>1. at(i) = at(j)
    BY <1>2, <1>4
  <2> QED
    BY <1>1, <2>1
<1>6. ASSUME NEW x, x \in ToSet(r) PROVE x \in ToSet(q) \ {q[k]}
  <2>1. PICK j \in 1 .. Len(r) : r[j] = x
    BY <1>6, ToSetIs
  <2>2. x = q[at(j)] /\ at(j) \in 1 .. Len(q) /\ at(j) # k
    BY <1>2, <2>1
  <2>3. x \in ToSet(q) /\ x # q[k]
    BY <1>4, <2>2, ToSetIs
  <2> QED
    BY <2>3
<1>7. ASSUME NEW x, x \in ToSet(q) \ {q[k]} PROVE x \in ToSet(r)
  <2>1. PICK i \in 1 .. Len(q) : q[i] = x
    BY <1>7, ToSetIs
  <2>2. i # k
    BY <1>7, <2>1
  <2>3. CASE i < k
    <3>1. i \in 1 .. Len(r) /\ r[i] = x
      BY <1>1, <1>2, <2>1, <2>3
    <3> QED
      BY <3>1, ToSetIs
  <2>4. CASE i > k
    <3>1. i - 1 \in 1 .. Len(r) /\ at(i - 1) = i
      BY <1>1, <2>1, <2>4
    <3>2. r[i - 1] = x
      BY <1>2, <2>1, <3>1
    <3> QED
      BY <3>1, <3>2, ToSetIs
  <2> QED
    BY <2>2, <2>3, <2>4
<1>8. ASSUME NEW x, NEW y, Before(r, x, y) PROVE Before(q, x, y)
  <2>1. PICK i \in 1 .. Len(r), j \in 1 .. Len(r) : i < j /\ r[i] = x /\ r[j] = y
    BY <1>8 DEF Before
  <2>2. at(i) \in 1 .. Len(q) /\ at(j) \in 1 .. Len(q) /\ at(i) < at(j)
        /\ q[at(i)] = x /\ q[at(j)] = y
    BY <1>2, <1>3, <2>1
  <2> HIDE DEF at
  <2> QED
    BY <2>2 DEF Before
<1>9. IsInjective(r)
  BY <1>5, InjectiveIs
<1> QED
  BY <1>6, <1>7, <1>8, <1>9

LEMMA RemoveFirstIs ==
  ASSUME NEW S, NEW q \in Seq(S), IsInjective(q), NEW e
  PROVE  /\ RemoveFirst(q, e) \in Seq(S) /\ IsInjective(RemoveFirst(q, e))
         /\ ToSet(RemoveFirst(q, e)) = ToSet(q) \ {e}
         /\ \A x, y : Before(RemoveFirst(q, e), x, y) => Before(q, x, y)
<1>1. CASE ~ Contains(q, e)
  <2>1. RemoveFirst(q, e) = q
    BY <1>1 DEF RemoveFirst, Contains
  <2> QED
    BY <1>1, <2>1, ToSetIs
<1>2. ASSUME NEW k \in 1 .. Len(q), q[k] = e
      PROVE  RemoveFirst(q, e) \in Seq(S) /\ WithoutPlace(RemoveFirst(q, e), q, k)
  <2>1. RemoveFirst(q, e) = RemoveAt(q, k)
    <3> DEFINE I == {i \in 1 .. Len(q) : q[i] = e}
    <3>1. I = {k}
      BY <1>2, InjectiveIs
    <3>2. Min({k}) = k
      BY DEF Min
    <3>3. Min(I) = k
      BY <3>1, <3>2
    <3> QED
      BY <1>2, <3>1, <3>3, Zenon DEF RemoveFirst, SelectInSeq
  <2> DEFINE f == SubSeq(q, 1, k - 1)
             g == SubSeq(q, k + 1, Len(q))
  <2>2. Len(q) \in Nat /\ \A i \in 1 .. Len(q) : q[i] \in S
    OBVIOUS
  <2>3. f \in Seq(S) /\ Len(f) = k - 1 /\ \A i \in 1 .. k - 1 : f[i] = q[i]
    <3>1. \A i \in 1 .. k - 1 : q[i] \in S
      BY <2>2
    <3>2. k - 1 \in Int /\ 1 \in Int
      BY <2>2
    <3> QED
      BY <2>2, <3>1, <3>2, SubSeqProperties
  <2>4. /\ g \in Seq(S) /\ Len(g) = Len(q) - k
        /\ \A i \in 1 .. Len(q) - k : g[i] = q[k + i]
    <3>1. \A i \in k + 1 .. Len(q) : q[i] \in S
      BY <2>2
    <3>2. k + 1 \in Int /\ Len(q) \in Int
      BY <2>2
    <3>3. /\ g \in Seq(S) /\ Len(g) = IF k + 1 <= Len(q) THEN Len(q) - (k + 1) + 1 ELSE 0
          /\ \A i \in 1 .. Len(q) - (k + 1) + 1 : g[i] = q[(k + 1) + i - 1]
      BY ONLY <3>1, <3>2, SubSeqProperties
    <3>4. Len(q) - (k + 1) + 1 = Len(q) - k /\ \A i \in Int : (k + 1) + i - 1 = k + i
      BY <2>2
    <3>5. ASSUME NEW i \in 1 .. Len(q) - k PROVE g[i] = q[k + i]
      <4>1. i \in Int
        BY <2>2
      <4>2. i \in 1 .. Len(q) - (k + 1) + 1
        BY ONLY <3>4, i \in 1 .. Len(q) - k
      <4>3. (k + 1) + i - 1 = k + i
        BY ONLY <3>4, <4>1
      <4>4. g[i] = q[(k + 1) + i - 1]
        BY ONLY <3>3, <4>2
      <4> QED
        BY ONLY <4>3, <4>4
    <3>6. Len(g) = Len(q) - k
      BY <2>2, <3>3
    <3> QED
      BY <3>3, <3>5, <3>6
  <2> HIDE DEF f, g
  <2>5. /\ f \o g \in Seq(S) /\ Len(f \o g) = Len(f) + Len(g)
        /\ \A i \in 1 .. Len(f) + Len(g) :
             (f \o g)[i] = IF i <= Len(f) THEN f[i] ELSE g[i - Len(f)]
    BY <2>3, <2>4, ConcatProperties
  <2>6. RemoveFirst(q, e) = f \o g
    BY <2>1 DEF RemoveAt, f, g
  <2>7. \A j \in 1 .. Len(q) - 1 : (f \o g)[j] = IF j < k THEN q[j] ELSE q[j + 1]
    <3> SUFFICES ASSUME NEW j \in 1 .. Len(q) - 1
                 PROVE  (f \o g)[j] = IF j < k THEN q[j] ELSE q[j + 1]
      OBVIOUS
    <3>1. CASE j < k
      BY <2>2, <2>3, <2>4, <2>5, <3>1
    <3>2. CASE ~ (j < k)
      <4>1. j - (k - 1) \in 1 .. Len(q) - k /\ k + (j - (k - 1)) = j + 1
        BY <2>2, <3>2
      <4>2. g[j - (k - 1)] = q[j + 1]
        BY <2>4, <4>1
      <4> QED
        BY <2>2, <2>3, <2>4, <2>5, <3>2, <4>2
    <3> QED
      BY <3>1, <3>2
  <2>8. Len(f \o g) = Len(q) - 1
    BY <2>2, <2>3, <2>4, <2>5
  <2> QED
    BY <2>5, <2>6, <2>7, <2>8 DEF WithoutPlace
<1>3. CASE Contains(q, e)
  <2>1. PICK k \in 1 .. Len(q) : q[k] = e
    BY <1>3 DEF Contains
  <2> QED
    BY <1>2, <2>1, WithoutPlaceIs
<1> QED
  BY <1>1, <1>3

\* Letting in the first of the queue.
LEMMA TailOfQueue ==
  ASSUME NEW S, NEW q \in Seq(S), IsInjective(q), q # <<>>
  PROVE  /\ Tail(q) \in Seq(S) /\ IsInjective(Tail(q)) /\ Head(q) \in ToSet(q)
         /\ ToSet(Tail(q)) = ToSet(q) \ {Head(q)}
         /\ \A x, y : Before(Tail(q), x, y) => Before(q, x, y)
         /\ \A y \in ToSet(Tail(q)) : Before(q, Head(q), y)
<1>1. /\ Tail(q) \in Seq(S) /\ Len(q) \in Nat /\ Len(q) >= 1 /\ Head(q) = q[1]
      /\ Len(Tail(q)) = Len(q) - 1 /\ \A j \in 1 .. Len(q) - 1 : Tail(q)[j] = q[j + 1]
  OBVIOUS
<1>2. 1 \in 1 .. Len(q) /\ WithoutPlace(Tail(q), q, 1)
  BY <1>1 DEF WithoutPlace
<1>3. Head(q) \in ToSet(q)
  BY <1>1, <1>2, ToSetIs
<1>4. ASSUME NEW y \in ToSet(Tail(q)) PROVE Before(q, Head(q), y)
  <2>1. PICK j \in 1 .. Len(Tail(q)) : Tail(q)[j] = y
    BY <1>1, ToSetIs
  <2>2. 1 < j + 1 /\ j + 1 \in 1 .. Len(q) /\ q[j + 1] = y
    BY <1>1, <2>1
  <2> QED
    BY <1>1, <1>2, <2>2 DEF Before
<1>5. /\ IsInjective(Tail(q)) /\ ToSet(Tail(q)) = ToSet(q) \ {q[1]}
      /\ \A x, y : Before(Tail(q), x, y) => Before(q, x, y)
  BY <1>1, <1>2, WithoutPlaceIs
<1> QED
  BY <1>1, <1>3, <1>4, <1>5

\* Appending a new element.
LEMMA AppendToQueue ==
  ASSUME NEW S, NEW q \in Seq(S), IsInjective(q), NEW e \in S, e \notin ToSet(q)
  PROVE  /\ Append(q, e) \in Seq(S) /\ IsInjective(Append(q, e))
         /\ ToSet(Append(q, e)) = ToSet(q) \cup {e}
<1> DEFINE r == Append(q, e)
<1>1. /\ r \in Seq(S) /\ Len(q) \in Nat /\ Len(r) = Len(q) + 1 /\ r[Len(q) + 1] = e
      /\ \A i \in 1 .. Len(q) : r[i] = q[i]
  OBVIOUS
<1> HIDE DEF r
<1>2. \A i \in 1 .. Len(q) : q[i] # e
  BY ToSetIs
<1>3. \A i, j \in 1 .. Len(r) : r[i] = r[j] => i = j
  <2>1. \A i, j \in 1 .. Len(q) : q[i] = q[j] => i = j
    BY InjectiveIs
  <2> QED
    BY <1>1, <1>2, <2>1
<1>4. \A x : (\E i \in 1 .. Len(r) : r[i] = x) <=> (x = e \/ \E i \in 1 .. Len(q) : q[i] = x)
  <2>1. 1 .. Len(r) = (1 .. Len(q)) \cup {Len(q) + 1}
    BY <1>1
  <2> QED
    BY <1>1, <2>1
<1>5. ToSet(r) = ToSet(q) \cup {e}
  <2>1. \A x : x \in ToSet(r) <=> \E i \in 1 .. Len(r) : r[i] = x
    BY <1>1, ToSetIs
  <2>2. \A x : x \in ToSet(q) <=> \E i \in 1 .. Len(q) : q[i] = x
    BY ToSetIs
  <2> QED
    BY <1>4, <2>1, <2>2
<1> QED
  BY <1>1, <1>3, <1>5, InjectiveIs DEF r

\* The length of a sequence without duplicates.
LEMMA LenIsCardinality ==
  ASSUME NEW S, NEW q \in Seq(S), IsInjective(q)
  PROVE  IsFiniteSet(ToSet(q)) /\ Cardinality(ToSet(q)) = Len(q)
<1>1. Len(q) \in Nat /\ q \in [1 .. Len(q) -> S]
  OBVIOUS
<1>2. q \in Bijection(1 .. Len(q), ToSet(q))
  BY <1>1, ToSetIs DEF Bijection, Injection, Surjection
<1>3. ExistsBijection(1 .. Len(q), ToSet(q))
  BY <1>2 DEF ExistsBijection
<1>4. IsFiniteSet(ToSet(q))
  BY <1>1, <1>3, FS_NatBijection
<1> QED
  BY <1>1, <1>3, <1>4, FS_CountingElements

-----------------------------------------------------------------------------
(* What GetActiveSessionCount counts, and what RemoveQueuedPlayer does.    *)

World == [Accounts -> Sessions \cup {NoSession}]

\* The sessions registered in m_sessions = w, each under its own account.
RegisteredIn(w) == {s \in Sessions : w[Acct[s]] = s}
OwnAccounts(w) == \A a \in Accounts : w[a] # NoSession => w[a] \in Sessions /\ Acct[w[a]] = a

LEMMA CountIs ==
  ASSUME NEW w \in World, OwnAccounts(w)
  PROVE  /\ IsFiniteSet(RegisteredIn(w))
         /\ GetActiveAndQueuedSessionCount(w) = Cardinality(RegisteredIn(w))
<1> DEFINE U == {a \in Accounts : w[a] # NoSession}
           f == [a \in U |-> w[a]]
<1>1. IsFiniteSet(U)
  BY AccountsAssumption, FS_Subset
<1>2. f \in [U -> RegisteredIn(w)]
  BY DEF OwnAccounts, RegisteredIn
<1>3. \A a, b \in U : f[a] = f[b] => a = b
  BY DEF OwnAccounts
<1>4. \A s \in RegisteredIn(w) : Acct[s] \in U /\ f[Acct[s]] = s
  BY AcctAssumption, NullAssumption DEF RegisteredIn
<1>5. f \in Bijection(U, RegisteredIn(w))
  BY <1>2, <1>3, <1>4 DEF Bijection, Injection, Surjection, IsInjective
<1>6. ExistsBijection(U, RegisteredIn(w))
  BY <1>5 DEF ExistsBijection
<1> QED
  BY <1>1, <1>6, FS_Bijection DEF GetActiveAndQueuedSessionCount

LEMMA ActiveIs ==
  ASSUME NEW w \in World, OwnAccounts(w), NEW q \in Seq(Sessions), IsInjective(q),
         ToSet(q) \subseteq RegisteredIn(w)
  PROVE  /\ IsFiniteSet(RegisteredIn(w) \ ToSet(q))
         /\ GetActiveSessionCount(w, q) = Cardinality(RegisteredIn(w) \ ToSet(q))
<1>1. IsFiniteSet(RegisteredIn(w))
  BY CountIs
<1>2. RegisteredIn(w) \cap ToSet(q) = ToSet(q)
  OBVIOUS
<1>3. IsFiniteSet(RegisteredIn(w) \ ToSet(q))
  BY <1>1, FS_Subset
<1>4. Cardinality(RegisteredIn(w) \ ToSet(q)) =
        Cardinality(RegisteredIn(w)) - Cardinality(RegisteredIn(w) \cap ToSet(q))
  BY <1>1, FS_Difference
<1> QED
  BY <1>2, <1>3, <1>4, CountIs, LenIsCardinality DEF GetActiveSessionCount

\* r is what RemoveQueuedPlayer should do when s leaves the registered
\* sessions R: the rest of the queue q stays in order, and its first is let in
\* if and only if those who stay and do not wait leave room.
Removal(r, R, s, q) ==
  LET rest   == ToSet(q) \ {s}
      active == (R \ {s}) \ ToSet(q)
  IN /\ r.found \in BOOLEAN /\ (r.found <=> s \in ToSet(q))
     /\ r.queue \in Seq(Sessions) /\ IsInjective(r.queue)
     /\ \A x, y : Before(r.queue, x, y) => Before(q, x, y)
     /\ \/ /\ r.admitted = {} /\ ToSet(r.queue) = rest
           /\ rest = {} \/ (limit > 0 /\ Cardinality(active) >= limit)
        \/ \E x \in rest :
             /\ r.admitted = {x} /\ ToSet(r.queue) = rest \ {x}
             /\ limit = 0 \/ Cardinality(active) < limit
             /\ \A y \in ToSet(r.queue) : Before(q, x, y)

LEMMA RemoveQueuedPlayerIs ==
  ASSUME NEW w \in World, OwnAccounts(w), NEW q \in Seq(Sessions), IsInjective(q),
         ToSet(q) \subseteq RegisteredIn(w), NEW s \in RegisteredIn(w), limit \in Nat
  PROVE  Removal(RemoveQueuedPlayer(s, w, q), RegisteredIn(w), s, q)
<1> DEFINE R == RegisteredIn(w)
           found == Contains(q, s)
           rest == RemoveFirst(q, s)
           active == GetActiveSessionCount(w, q)
           sessions == IF ~ found /\ active > 0 THEN active - 1 ELSE active
           admits == (limit = 0 \/ sessions < limit) /\ rest # <<>>
           r == RemoveQueuedPlayer(s, w, q)
<1>1. /\ IsFiniteSet(R \ ToSet(q)) /\ active = Cardinality(R \ ToSet(q))
      /\ active \in Nat
  BY ActiveIs, FS_CardinalityType
<1>2. found <=> s \in ToSet(q)
  BY ToSetIs
<1>3. sessions = Cardinality((R \ {s}) \ ToSet(q)) /\ sessions \in Nat
  <2>1. CASE found
    <3>1. (R \ {s}) \ ToSet(q) = R \ ToSet(q)
      BY <1>2, <2>1
    <3> QED
      BY <1>1, <2>1, <3>1
  <2>2. CASE ~ found
    <3>1. (R \ {s}) \ ToSet(q) = (R \ ToSet(q)) \ {s} /\ s \in R \ ToSet(q)
      BY <1>2, <2>2
    <3> DEFINE A == R \ ToSet(q)
    <3>2. IsFiniteSet(A) /\ active = Cardinality(A) /\ s \in A
      BY <1>1, <3>1
    <3> HIDE DEF A
    <3>3. Cardinality(A \ {s}) = active - 1
      BY <3>2, FS_RemoveElement
    <3>4. active # 0
      BY <3>2, FS_EmptySet
    <3>5. Cardinality((R \ {s}) \ ToSet(q)) = active - 1
      BY <3>1, <3>3 DEF A
    <3> QED
      BY <1>1, <2>2, <3>4, <3>5
  <2> QED
    BY <2>1, <2>2
<1>4. /\ rest \in Seq(Sessions) /\ IsInjective(rest) /\ ToSet(rest) = ToSet(q) \ {s}
      /\ \A x, y : Before(rest, x, y) => Before(q, x, y)
      /\ rest = <<>> <=> ToSet(q) \ {s} = {}
  BY RemoveFirstIs, ToSetIs
<1>5. r = [found |-> found, queue |-> IF admits THEN Tail(rest) ELSE rest,
           admitted |-> IF admits THEN {Head(rest)} ELSE {}]
  BY DEF RemoveQueuedPlayer
<1>6. found \in BOOLEAN
  BY DEF Contains
<1> HIDE DEF rest, sessions, active, found
<1>7. CASE admits
  <2>1. r.found = found /\ r.queue = Tail(rest) /\ r.admitted = {Head(rest)}
    BY <1>5, <1>7
  <2>2. /\ Tail(rest) \in Seq(Sessions) /\ IsInjective(Tail(rest)) /\ Head(rest) \in ToSet(rest)
        /\ ToSet(Tail(rest)) = ToSet(rest) \ {Head(rest)}
        /\ \A x, y : Before(Tail(rest), x, y) => Before(rest, x, y)
        /\ \A y \in ToSet(Tail(rest)) : Before(rest, Head(rest), y)
    BY <1>4, <1>7, TailOfQueue
  <2> QED
    BY <1>2, <1>3, <1>4, <1>6, <1>7, <2>1, <2>2 DEF Removal
<1>8. CASE ~ admits
  <2>1. r.found = found /\ r.queue = rest /\ r.admitted = {}
    BY <1>5, <1>8
  <2>2. rest = <<>> \/ (limit > 0 /\ sessions >= limit)
    BY <1>3, <1>8
  <2> QED
    BY <1>2, <1>3, <1>4, <1>6, <2>1, <2>2 DEF Removal
<1> QED
  BY <1>7, <1>8

-----------------------------------------------------------------------------
(* The inductive invariant.                                                *)

SessionRecords ==
  [state: {"free", "added", "world"}, open: BOOLEAN, inQueue: BOOLEAN, forceExit: BOOLEAN,
   loading: {"no", "reading", "refused"}, player: BOOLEAN, initPending: BOOLEAN,
   expire: 0 .. Expire, tolerated: BOOLEAN]

Types ==
  /\ sess \in [Sessions -> SessionRecords]
  /\ addSessQueue \in Seq(Sessions)
  /\ inWorld \in World
  /\ queue \in Seq(Sessions)
  /\ scenario \in Scenarios /\ limit \in scenario.limits
  /\ disconnects \in [Accounts -> Nat \cup {Never}]
  /\ now \in 0 .. scenario.time
  /\ pc \in {"idle", "add", "update", "stopped"}
  /\ toUpdate \subseteq Accounts
  /\ closing \in BOOLEAN

\* The containers hold live sessions, each at most once.
Linked ==
  /\ OwnAccounts(inWorld)
  /\ \A s \in Sessions : s \in Registered <=> sess[s].state = "world"
  /\ \A s \in Sessions : s \in ToSet(addSessQueue) <=> sess[s].state = "added"
  /\ ToSet(queue) \subseteq Registered
  /\ IsInjective(queue) /\ IsInjective(addSessQueue)

\* What the fields of a session, which waits in the queue or not, say of it:
\* nothing has happened to one that is not registered, a kicked one has lost
\* its socket, and one that was told to wait has no player and does wait, is
\* being let in, or is kicked.
Sound(session, waits) ==
  /\ session.state # "world" =>
       /\ ~ session.inQueue /\ ~ session.forceExit /\ ~ session.player
       /\ ~ session.initPending /\ session.loading = "no"
  /\ session.forceExit => ~ session.open
  /\ waits => session.inQueue /\ ~ session.initPending
  /\ session.inQueue =>
       /\ session.loading = "no" /\ ~ session.player
       /\ waits \/ session.initPending \/ session.forceExit

AllSound == \A s \in Sessions : Sound(sess[s], s \in ToSet(queue))

\* The second loop of UpdateSessions visits registered sessions, and leaves no
\* kicked one behind.
Loop ==
  /\ \A a \in toUpdate : pc = "update" /\ inWorld[a] # NoSession
  /\ \A s \in Registered :
       sess[s].forceExit /\ pc \in {"update", "stopped"} => Acct[s] \in toUpdate

IInv == Types /\ Linked /\ AllSound /\ Loop

LEMMA RegisteredIs ==
  Registered = RegisteredIn(inWorld) /\ Registered' = RegisteredIn(inWorld')
BY DEF Registered, RegisteredIn

LEMMA LimitIsNat == Types => limit \in Nat
BY EnvironmentAssumption DEF Types

LEMMA RegisteredFinite == IInv => IsFiniteSet(Registered)
BY CountIs, RegisteredIs DEF IInv, Types, Linked

LEMMA NextRegisteredFinite == IInv' => IsFiniteSet(Registered')
BY CountIs, RegisteredIs DEF IInv, Types, Linked

LEMMA InitIInv == Init => IInv
<1> SUFFICES ASSUME Init PROVE IInv
  OBVIOUS
<1>1. sess \in [Sessions -> SessionRecords] /\ \A s \in Sessions : sess[s] = New("free")
  <2>1. New("free") \in SessionRecords
    BY ExpireAssumption DEF New, SessionRecords
  <2> QED
    BY <2>1 DEF Init, Deleted
<1>2. \A a \in Accounts : inWorld[a] = NoSession
  BY DEF Init
<1>3. Registered = {}
  BY <1>2, AcctAssumption, NullAssumption DEF Registered
<1>4. queue = <<>> /\ addSessQueue = <<>> /\ ToSet(<<>>) = {} /\ IsInjective(<<>>)
  BY DEF Init, ToSet, IsInjective
<1>5. Types
  <2>1. now \in 0 .. scenario.time
    BY EnvironmentAssumption DEF Init
  <2>2. inWorld \in World /\ disconnects \in [Accounts -> Nat \cup {Never}]
    BY DEF Init, World
  <2>3. queue \in Seq(Sessions) /\ addSessQueue \in Seq(Sessions)
    BY <1>4
  <2> QED
    BY <1>1, <2>1, <2>2, <2>3 DEF Init, Types
<1>6. Linked
  BY <1>1, <1>2, <1>3, <1>4 DEF Linked, OwnAccounts, New
<1>7. AllSound
  BY <1>1, <1>4 DEF AllSound, Sound, New
<1>8. Loop
  BY <1>3 DEF Init, Loop
<1> QED
  BY <1>5, <1>6, <1>7, <1>8 DEF IInv

-----------------------------------------------------------------------------
(* Steps that change the fields of one session, and nothing else but the   *)
(* rest of the loop.                                                       *)

LEMMA SetFields ==
  ASSUME IInv, NEW s \in Sessions, NEW session \in SessionRecords,
         sess' = [sess EXCEPT ![s] = session],
         session.state = sess[s].state, Sound(session, s \in ToSet(queue)),
         session.forceExit /\ pc \in {"update", "stopped"} => Acct[s] \in toUpdate',
         UNCHANGED <<addSessQueue, inWorld, queue, clock, disconnects, pc, closing>>,
         toUpdate' \subseteq toUpdate,
         \A t \in Registered : t # s /\ Acct[t] \in toUpdate => Acct[t] \in toUpdate'
  PROVE  IInv'
<1> USE DEF IInv
<1>1. \A t \in Sessions : sess'[t] = IF t = s THEN session ELSE sess[t]
  BY DEF Types
<1>2. Types'
  BY DEF Types, clock
<1>3. Registered' = Registered
  BY DEF Registered
<1>4. Linked'
  BY <1>1, <1>3 DEF Linked, OwnAccounts
<1>5. AllSound'
  BY <1>1 DEF AllSound
<1>6. Loop'
  BY <1>1, <1>3 DEF Loop, Registered
<1> QED
  BY <1>2, <1>4, <1>5, <1>6

\* The session of an account is registered.
LEMMA SessionOf ==
  ASSUME IInv, NEW a \in Accounts, inWorld[a] # NoSession
  PROVE  /\ inWorld[a] \in Registered /\ inWorld[a] \in Sessions /\ Acct[inWorld[a]] = a
         /\ sess[inWorld[a]] \in SessionRecords /\ sess[inWorld[a]].state = "world"
         /\ Sound(sess[inWorld[a]], inWorld[a] \in ToSet(queue))
<1>1. inWorld[a] \in Sessions /\ Acct[inWorld[a]] = a
  BY DEF IInv, Linked, OwnAccounts
<1>2. inWorld[a] \in Registered
  BY <1>1 DEF Registered
<1> QED
  BY <1>1, <1>2 DEF IInv, Types, Linked, AllSound

LEMMA KickedSound ==
  ASSUME NEW session \in SessionRecords, session.state = "world",
         NEW waits \in BOOLEAN, Sound(session, waits)
  PROVE  /\ KickPlayer(session) \in SessionRecords /\ KickPlayer(session).state = session.state
         /\ Sound(KickPlayer(session), waits)
BY DEF KickPlayer, Sound, SessionRecords

LEMMA CloseSocketIInv ==
  ASSUME IInv, NEW s \in Sessions, CloseSocket(s)
  PROVE  IInv'
<1> DEFINE session == [sess[s] EXCEPT !.open = FALSE]
<1>1. sess[s] \in SessionRecords /\ Sound(sess[s], s \in ToSet(queue)) /\ sess[s].open
  BY DEF IInv, Types, AllSound, CloseSocket
<1>2. session \in SessionRecords /\ session.state = sess[s].state
      /\ session.forceExit = sess[s].forceExit
  BY <1>1 DEF SessionRecords
<1>3. Sound(session, s \in ToSet(queue)) /\ ~ session.forceExit
  BY <1>1 DEF Sound, SessionRecords
<1>4. sess' = [sess EXCEPT ![s] = session]
  BY DEF CloseSocket
<1>5. UNCHANGED <<addSessQueue, inWorld, queue, clock, disconnects, pc, closing, toUpdate>>
  BY DEF CloseSocket
<1> HIDE DEF session
<1> QED
  BY <1>2, <1>3, <1>4, <1>5, SetFields

LEMMA KickAccountIInv ==
  ASSUME IInv, NEW a \in Accounts, KickAccount(a)
  PROVE  IInv'
<1> DEFINE s == inWorld[a]
           session == KickPlayer(sess[s])
<1>1. inWorld[a] # NoSession /\ pc = "idle"
  BY DEF KickAccount
<1>2. s \in Sessions /\ session \in SessionRecords /\ session.state = sess[s].state
      /\ Sound(session, s \in ToSet(queue))
  <2> DEFINE waits == s \in ToSet(queue)
  <2>1. /\ s \in Sessions /\ sess[s] \in SessionRecords /\ sess[s].state = "world"
        /\ Sound(sess[s], waits) /\ waits \in BOOLEAN
    BY <1>1, SessionOf
  <2> HIDE DEF s
  <2> QED
    BY <2>1, KickedSound
<1>3. sess' = [sess EXCEPT ![s] = session]
  BY DEF KickAccount
<1>4. UNCHANGED <<addSessQueue, inWorld, queue, clock, disconnects, pc, closing, toUpdate>>
  BY DEF KickAccount
<1> HIDE DEF session, s
<1> QED
  BY <1>1, <1>2, <1>3, <1>4, SetFields

\* A packet or a callback of the session that is being updated.
LEMMA SetSessionIInv ==
  ASSUME IInv, NEW a \in Accounts, Updating(a), NEW session \in SessionRecords,
         SetSession(a, session), session.state = "world",
         Sound(session, inWorld[a] \in ToSet(queue))
  PROVE  IInv'
<1>1. a \in toUpdate /\ inWorld[a] # NoSession
  BY DEF Updating, IInv, Loop
<1>2. inWorld[a] \in Sessions /\ Acct[inWorld[a]] = a /\ sess[inWorld[a]].state = "world"
  BY <1>1, SessionOf
<1>3. /\ sess' = [sess EXCEPT ![inWorld[a]] = session]
      /\ UNCHANGED <<addSessQueue, inWorld, queue, clock, disconnects, pc, closing, toUpdate>>
  BY DEF SetSession
<1> QED
  BY <1>1, <1>2, <1>3, SetFields

LEMMA PacketsIInv == IInv /\ Packets => IInv'
<1> SUFFICES ASSUME IInv, NEW a \in Accounts, Updating(a),
                    \/ HandlePlayerLoginOpcode(a) \/ HandlePlayerLogin(a)
                    \/ InitializeSessionCallback(a) \/ LogoutPlayer(a)
             PROVE  IInv'
  BY DEF Packets, HandlePlayerLoginOpcode, HandlePlayerLogin, InitializeSessionCallback, LogoutPlayer
<1> DEFINE s == sess[inWorld[a]]
           waits == inWorld[a] \in ToSet(queue)
<1>1. s \in SessionRecords /\ s.state = "world" /\ Sound(s, waits) /\ waits \in BOOLEAN
  <2>1. inWorld[a] # NoSession
    BY DEF Updating, IInv, Loop
  <2> QED
    BY <2>1, SessionOf
<1> DEFINE Result(r) == r \in SessionRecords /\ r.state = "world" /\ Sound(r, waits)
<1>2. \A r \in SessionRecords : Result(r) /\ SetSession(a, r) => IInv'
  BY SetSessionIInv
<1>3. \A r : Result(r) => Result(KickPlayer(r))
  BY KickedSound, <1>1
<1>4. CASE HandlePlayerLoginOpcode(a)
  <2>1. ~ s.inQueue
    BY <1>4 DEF HandlePlayerLoginOpcode
  <2>2. Result([s EXCEPT !.loading = "reading"]) /\ Result([s EXCEPT !.loading = "refused"])
    BY <1>1, <2>1 DEF Sound, SessionRecords
  <2>3. Result(s)
    BY <1>1
  <2>4. \/ SetSession(a, KickPlayer(s))
        \/ SetSession(a, [s EXCEPT !.loading = "reading"])
        \/ SetSession(a, KickPlayer([s EXCEPT !.loading = "refused"]))
    BY <1>4 DEF HandlePlayerLoginOpcode
  <2> HIDE DEF s, waits
  <2> QED
    BY <1>2, <1>3, <2>2, <2>3, <2>4
<1>5. CASE HandlePlayerLogin(a)
  <2>1. s.loading = "reading" /\ ~ s.inQueue
    BY <1>1, <1>5 DEF HandlePlayerLogin, Sound
  <2>2. Result([s EXCEPT !.loading = "no"]) /\ Result([[s EXCEPT !.loading = "no"] EXCEPT !.player = TRUE])
    BY <1>1, <2>1 DEF Sound, SessionRecords
  <2>3. \/ SetSession(a, [[s EXCEPT !.loading = "no"] EXCEPT !.player = TRUE])
        \/ SetSession(a, KickPlayer([s EXCEPT !.loading = "no"]))
    BY <1>5 DEF HandlePlayerLogin
  <2> HIDE DEF s, waits
  <2> QED
    BY <1>2, <1>3, <2>2, <2>3
<1>6. CASE InitializeSessionCallback(a)
  <2>1. Result([s EXCEPT !.initPending = FALSE, !.inQueue = FALSE])
    BY <1>1, <1>6 DEF InitializeSessionCallback, Sound, SessionRecords
  <2>2. SetSession(a, [s EXCEPT !.initPending = FALSE, !.inQueue = FALSE])
    BY <1>6 DEF InitializeSessionCallback
  <2> HIDE DEF s, waits
  <2> QED
    BY <1>2, <2>1, <2>2
<1>7. CASE LogoutPlayer(a)
  <2>1. Result([s EXCEPT !.player = FALSE])
    BY <1>1, <1>7 DEF LogoutPlayer, Sound, SessionRecords
  <2>2. SetSession(a, [s EXCEPT !.player = FALSE])
    BY <1>7 DEF LogoutPlayer
  <2> HIDE DEF s, waits
  <2> QED
    BY <1>2, <2>1, <2>2
<1> QED
  BY <1>4, <1>5, <1>6, <1>7

\* A session that Update keeps is not kicked: a kicked one has lost its socket
\* and is finished.
LEMMA EndUpdateIInv ==
  ASSUME IInv, NEW a \in Accounts, EndUpdate(a)
  PROVE  IInv'
<1> DEFINE s == inWorld[a]
           session == Aged(sess[s])
<1>1. a \in toUpdate /\ inWorld[a] # NoSession /\ pc = "update"
  BY DEF EndUpdate, Updating, IInv, Loop
<1>2. s \in Registered /\ s \in Sessions /\ Acct[s] = a /\ sess[s] \in SessionRecords
      /\ sess[s].state = "world" /\ Sound(sess[s], s \in ToSet(queue))
  BY <1>1, SessionOf
<1>3. ~ sess[s].forceExit
  BY <1>2 DEF EndUpdate, Finished, Sound
<1>4. session \in SessionRecords /\ session.state = "world" /\ ~ session.forceExit
  BY <1>2, <1>3, ExpireAssumption DEF Aged, SessionRecords
<1>5. Sound(session, s \in ToSet(queue))
  BY <1>2 DEF Aged, Sound, SessionRecords
<1>6. /\ sess' = [sess EXCEPT ![s] = session]
      /\ UNCHANGED <<addSessQueue, inWorld, queue, clock, disconnects, pc, closing>>
      /\ toUpdate' = toUpdate \ {a}
  BY DEF EndUpdate
<1>7. \A t \in Registered : t # s /\ Acct[t] \in toUpdate => Acct[t] \in toUpdate'
  BY <1>2, <1>6 DEF Registered
<1> HIDE DEF session, s
<1> QED
  BY <1>2, <1>4, <1>5, <1>6, <1>7, SetFields

-----------------------------------------------------------------------------
(* Steps that leave the sessions alone, and steps of addSessQueue.         *)

LEMMA AddSessionIInv ==
  ASSUME IInv, NEW s \in Sessions, AddSession(s)
  PROVE  IInv'
<1> USE DEF IInv
<1>1. /\ sess[s].state = "free" /\ sess' = [sess EXCEPT ![s] = New("added")]
      /\ addSessQueue' = Append(addSessQueue, s)
      /\ UNCHANGED <<inWorld, queue, scenario, limit, now, disconnects, pc, toUpdate, closing>>
  BY DEF AddSession, clock
<1>2. New("added") \in SessionRecords /\ Sound(New("added"), FALSE) /\ New("added").state = "added"
  BY ExpireAssumption DEF New, SessionRecords, Sound
<1>3. \A t \in Sessions : sess'[t] = IF t = s THEN New("added") ELSE sess[t]
  BY <1>1 DEF Types
<1>4. s \notin ToSet(addSessQueue) /\ s \notin Registered /\ s \notin ToSet(queue)
  BY <1>1 DEF Linked
<1>5. /\ addSessQueue' \in Seq(Sessions) /\ IsInjective(addSessQueue')
      /\ ToSet(addSessQueue') = ToSet(addSessQueue) \cup {s}
  BY <1>1, <1>4, AppendToQueue DEF Types, Linked
<1>6. Types'
  BY <1>1, <1>2, <1>5 DEF Types
<1>7. Registered' = Registered
  BY <1>1 DEF Registered
<1>8. Linked'
  BY <1>1, <1>2, <1>3, <1>4, <1>5, <1>7 DEF Linked, OwnAccounts
<1>9. AllSound'
  <2> SUFFICES ASSUME NEW t \in Sessions PROVE Sound(sess'[t], t \in ToSet(queue'))
    BY DEF AllSound
  <2>1. CASE t = s
    <3>1. sess'[t] = New("added") /\ (t \in ToSet(queue')) = FALSE
      BY <1>1, <1>3, <1>4, <2>1
    <3> QED
      BY <1>2, <3>1
  <2>2. CASE t # s
    BY <1>1, <1>3, <2>2 DEF AllSound
  <2> QED
    BY <2>1, <2>2
<1>10. Loop'
  BY <1>1, <1>3, <1>4, <1>7 DEF Loop
<1> QED
  BY <1>6, <1>8, <1>9, <1>10

\* KickAll: whoever waits is kicked, so nobody has to be in the queue.
LEMMA KickAllIInv ==
  ASSUME IInv, KickAll
  PROVE  IInv'
<1> USE DEF IInv
<1>1. /\ pc = "idle" /\ queue' = <<>> /\ closing' = TRUE
      /\ UNCHANGED <<addSessQueue, inWorld, scenario, limit, now, disconnects, pc, toUpdate>>
  BY DEF KickAll, clock
<1>2. \A t \in Sessions : sess'[t] = IF sess[t].state = "world" THEN KickPlayer(sess[t]) ELSE sess[t]
  BY DEF KickAll
<1>3. ToSet(<<>>) = {} /\ IsInjective(<<>>)
  BY DEF ToSet, IsInjective
<1>4. \A t \in Sessions : /\ sess'[t] \in SessionRecords /\ sess'[t].state = sess[t].state
                          /\ Sound(sess'[t], FALSE)
  <2> SUFFICES ASSUME NEW t \in Sessions
               PROVE  /\ sess'[t] \in SessionRecords /\ sess'[t].state = sess[t].state
                      /\ Sound(sess'[t], FALSE)
    OBVIOUS
  <2>1. sess[t] \in SessionRecords /\ Sound(sess[t], t \in ToSet(queue))
    BY DEF Types, AllSound
  <2>2. CASE sess[t].state = "world"
    <3>1. sess'[t] = [sess[t] EXCEPT !.open = FALSE, !.forceExit = TRUE]
      BY <1>2, <2>2 DEF KickPlayer
    <3>2. sess'[t] \in SessionRecords
      BY <2>1, <3>1 DEF SessionRecords
    <3>3. /\ sess'[t].state = sess[t].state /\ ~ sess'[t].open /\ sess'[t].forceExit
          /\ sess'[t].inQueue = sess[t].inQueue /\ sess'[t].loading = sess[t].loading
          /\ sess'[t].player = sess[t].player
      BY <2>1, <3>1 DEF SessionRecords
    <3> QED
      BY <2>1, <2>2, <3>2, <3>3 DEF Sound
  <2>3. CASE sess[t].state # "world"
    BY <1>2, <2>1, <2>3 DEF Sound
  <2> QED
    BY <2>2, <2>3
<1>5. Types'
  <2>1. sess' \in [Sessions -> SessionRecords]
    <3>1. sess' = [t \in Sessions |-> sess'[t]]
      BY DEF KickAll
    <3> QED
      BY <1>4, <3>1
  <2> QED
    BY <1>1, <2>1 DEF Types
<1>6. Registered' = Registered
  BY <1>1 DEF Registered
<1>7. Linked'
  BY <1>1, <1>3, <1>4, <1>6 DEF Linked, OwnAccounts
<1>8. AllSound'
  <2>1. \A t \in Sessions : (t \in ToSet(queue')) = FALSE
    BY <1>1, <1>3
  <2> QED
    BY <1>4, <2>1 DEF AllSound
<1>9. Loop'
  BY <1>1, <1>6 DEF Loop
<1> QED
  BY <1>5, <1>7, <1>8, <1>9

\* Steps of the world thread that touch no session.
LEMMA QuietIInv ==
  ASSUME IInv,
         \/ UpdateGameTime \/ StartUpdate \/ AllAdded \/ AllUpdated
         \/ \E n \in scenario.limits : SetPlayerAmountLimit(n)
         \/ UNCHANGED vars
  PROVE  IInv'
<1> USE DEF IInv
<1>1. UNCHANGED <<sess, addSessQueue, inWorld, queue, scenario, disconnects, closing>>
  BY DEF UpdateGameTime, StartUpdate, AllAdded, AllUpdated, SetPlayerAmountLimit, vars, clock
<1>2. now' \in 0 .. scenario.time /\ limit' \in scenario.limits
  <2>1. scenario.time \in Nat
    BY EnvironmentAssumption DEF Types
  <2> QED
    BY <2>1 DEF Types, UpdateGameTime, StartUpdate, AllAdded, AllUpdated, SetPlayerAmountLimit, vars, clock
<1>3. pc' \in {"idle", "add", "update", "stopped"} /\ toUpdate' \subseteq Accounts
  BY DEF Types, UpdateGameTime, StartUpdate, AllAdded, AllUpdated, SetPlayerAmountLimit, vars
<1>4. Types'
  BY <1>1, <1>2, <1>3 DEF Types
<1>5. Registered' = Registered
  BY <1>1 DEF Registered
<1>6. Linked' /\ AllSound'
  BY <1>1, <1>5 DEF Linked, OwnAccounts, AllSound
<1>7. Loop'
  <2>1. CASE AllAdded
    <3>1. pc' = "update" /\ toUpdate' = {a \in Accounts : inWorld[a] # NoSession}
      BY <2>1 DEF AllAdded
    <3>2. \A s \in Registered : Acct[s] \in Accounts /\ inWorld[Acct[s]] # NoSession
      BY AcctAssumption, NullAssumption DEF Registered
    <3> QED
      BY <1>1, <1>5, <3>1, <3>2 DEF Loop
  <2>2. CASE ~ AllAdded
    <3>1. toUpdate' = toUpdate
      BY <2>2 DEF UpdateGameTime, StartUpdate, AllUpdated, SetPlayerAmountLimit, vars
    <3>2. \/ pc' = pc
          \/ pc = "idle" /\ pc' = "add"
          \/ pc = "update" /\ toUpdate = {} /\ pc' \in {"idle", "stopped"}
      BY <2>2 DEF UpdateGameTime, StartUpdate, AllUpdated, SetPlayerAmountLimit, vars
    <3> QED
      BY <1>1, <1>5, <3>1, <3>2 DEF Loop
  <2> QED
    BY <2>1, <2>2
<1> QED
  BY <1>4, <1>6, <1>7

\* The session that waits longest for its registration.
LEMMA FirstAdded ==
  ASSUME IInv, addSessQueue # <<>>
  PROVE  /\ Head(addSessQueue) \in Sessions /\ sess[Head(addSessQueue)].state = "added"
         /\ Head(addSessQueue) \notin Registered /\ Acct[Head(addSessQueue)] \in Accounts
         /\ Tail(addSessQueue) \in Seq(Sessions) /\ IsInjective(Tail(addSessQueue))
         /\ ToSet(Tail(addSessQueue)) = ToSet(addSessQueue) \ {Head(addSessQueue)}
<1>1. addSessQueue \in Seq(Sessions) /\ IsInjective(addSessQueue)
  BY DEF IInv, Types, Linked
<1>2. /\ Tail(addSessQueue) \in Seq(Sessions) /\ IsInjective(Tail(addSessQueue))
      /\ Head(addSessQueue) \in ToSet(addSessQueue)
      /\ ToSet(Tail(addSessQueue)) = ToSet(addSessQueue) \ {Head(addSessQueue)}
  BY <1>1, TailOfQueue
<1>3. Head(addSessQueue) \in Sessions
  BY <1>1, <1>2, ToSetIs
<1> QED
  BY <1>2, <1>3, AcctAssumption DEF IInv, Linked

LEMMA DeletedIs == /\ Deleted \in SessionRecords /\ Deleted.state = "free" /\ Sound(Deleted, FALSE)
                   /\ ~ Deleted.forceExit
BY ExpireAssumption DEF Deleted, New, SessionRecords, Sound

LEMMA RefuseSessionIInv ==
  ASSUME IInv, RefuseSession
  PROVE  IInv'
<1> USE DEF IInv
<1> DEFINE s == Head(addSessQueue)
<1>1. /\ addSessQueue # <<>> /\ sess' = [sess EXCEPT ![s] = Deleted]
      /\ addSessQueue' = Tail(addSessQueue)
      /\ UNCHANGED <<inWorld, queue, scenario, limit, now, disconnects, pc, toUpdate, closing>>
  BY DEF RefuseSession, clock
<1>2. /\ s \in Sessions /\ sess[s].state = "added" /\ s \notin Registered
      /\ addSessQueue' \in Seq(Sessions) /\ IsInjective(addSessQueue')
      /\ ToSet(addSessQueue') = ToSet(addSessQueue) \ {s}
  BY <1>1, FirstAdded
<1> HIDE DEF s
<1>3. \A t \in Sessions : sess'[t] = IF t = s THEN Deleted ELSE sess[t]
  BY <1>1 DEF Types
<1>4. Types'
  BY <1>1, <1>2, DeletedIs DEF Types
<1>5. Registered' = Registered
  BY <1>1 DEF Registered
<1>6. Linked'
  BY <1>1, <1>2, <1>3, <1>5, DeletedIs DEF Linked, OwnAccounts
<1>7. AllSound'
  <2> SUFFICES ASSUME NEW t \in Sessions PROVE Sound(sess'[t], t \in ToSet(queue'))
    BY DEF AllSound
  <2>1. CASE t = s
    <3>1. sess'[t] = Deleted /\ (t \in ToSet(queue')) = FALSE
      BY <1>1, <1>2, <1>3, <2>1 DEF Linked
    <3> QED
      BY <3>1, DeletedIs
  <2>2. CASE t # s
    BY <1>1, <1>3, <2>2 DEF AllSound
  <2> QED
    BY <2>1, <2>2
<1>8. Loop'
  BY <1>1, <1>2, <1>3, <1>5 DEF Loop
<1> QED
  BY <1>4, <1>6, <1>7, <1>8

-----------------------------------------------------------------------------
(* A session leaves m_sessions: alone, in RemoveFinished, or replaced by   *)
(* its account's next one, in AddSession_.                                 *)

\* The effect on the queue, q after the step, and on those who are let in, adm:
\* the rest of the queue stays in order, and its first are let in if there is
\* room for them, and if there is room for one.
Departure(q, adm, s) ==
  LET stay == Registered \ {s}
  IN /\ q \in Seq(Sessions) /\ IsInjective(q)
     /\ ToSet(q) \cup adm = ToSet(queue) \ {s} /\ ToSet(q) \cap adm = {}
     /\ \A x \in adm, y \in ToSet(q) : Before(queue, x, y)
     /\ adm # {} => limit = 0 \/ Cardinality(stay \ ToSet(q)) <= limit
     /\ adm = {} => \/ ToSet(q) = {} \/ s \notin Registered
                    \/ limit > 0 /\ Cardinality(stay \ ToSet(queue)) >= limit

\* One more session is active than before.
LEMMA OneMore ==
  ASSUME NEW R, IsFiniteSet(R), NEW Q, NEW x \in Q, x \in R, limit \in Nat,
         limit = 0 \/ Cardinality(R \ Q) < limit
  PROVE  limit = 0 \/ Cardinality(R \ (Q \ {x})) <= limit
<1>1. R \ (Q \ {x}) = (R \ Q) \cup {x} /\ x \notin R \ Q
  OBVIOUS
<1>2. IsFiniteSet(R \ Q)
  BY FS_Subset
<1>3. Cardinality((R \ Q) \cup {x}) = Cardinality(R \ Q) + 1 /\ Cardinality(R \ Q) \in Nat
  BY <1>1, <1>2, FS_AddElement, FS_CardinalityType
<1> QED
  BY <1>1, <1>3

LEMMA RemovalIsDeparture ==
  ASSUME IInv, NEW s \in Registered, NEW r, Removal(r, Registered, s, queue)
  PROVE  Departure(r.queue, r.admitted, s) /\ s \notin ToSet(r.queue)
<1>1. limit \in Nat /\ IsFiniteSet(Registered \ {s}) /\ ToSet(queue) \subseteq Registered
  BY LimitIsNat, RegisteredFinite, FS_Subset DEF IInv, Linked
<1>2. r.queue \in Seq(Sessions) /\ IsInjective(r.queue)
  BY DEF Removal
<1>3. CASE /\ r.admitted = {} /\ ToSet(r.queue) = ToSet(queue) \ {s}
           /\ \/ ToSet(queue) \ {s} = {}
              \/ limit > 0 /\ Cardinality((Registered \ {s}) \ ToSet(queue)) >= limit
  BY <1>2, <1>3 DEF Departure
<1>4. ASSUME NEW x \in ToSet(queue) \ {s},
             r.admitted = {x}, ToSet(r.queue) = (ToSet(queue) \ {s}) \ {x},
             limit = 0 \/ Cardinality((Registered \ {s}) \ ToSet(queue)) < limit,
             \A y \in ToSet(r.queue) : Before(queue, x, y)
      PROVE  Departure(r.queue, r.admitted, s) /\ s \notin ToSet(r.queue)
  <2>1. limit = 0 \/ Cardinality((Registered \ {s}) \ (ToSet(queue) \ {x})) <= limit
    BY <1>1, <1>4, OneMore
  <2>2. (Registered \ {s}) \ (ToSet(queue) \ {x}) = (Registered \ {s}) \ ToSet(r.queue)
    BY <1>4
  <2> QED
    BY <1>2, <1>4, <2>1, <2>2 DEF Departure
<1> QED
  BY <1>3, <1>4 DEF Removal

\* RemoveQueuedPlayer called twice: the second call no longer finds s, and
\* counts without it again, so it lets in one more if there is still room.
LEMMA SecondRemoval ==
  ASSUME IInv, NEW s \in Registered, NEW r, Removal(r, Registered, s, queue),
         NEW r2, Removal(r2, Registered, s, r.queue)
  PROVE  Departure(r2.queue, r.admitted \cup r2.admitted, s) /\ s \notin ToSet(r2.queue)
<1>1. limit \in Nat /\ IsFiniteSet(Registered \ {s}) /\ ToSet(queue) \subseteq Registered
  BY LimitIsNat, RegisteredFinite, FS_Subset DEF IInv, Linked
<1>2. Departure(r.queue, r.admitted, s) /\ s \notin ToSet(r.queue)
  BY RemovalIsDeparture
<1>3. /\ r2.queue \in Seq(Sessions) /\ IsInjective(r2.queue)
      /\ ToSet(r.queue) \ {s} = ToSet(r.queue)
      /\ \A x, y : Before(r.queue, x, y) => Before(queue, x, y)
  BY <1>2 DEF Removal
<1>4. CASE /\ r2.admitted = {} /\ ToSet(r2.queue) = ToSet(r.queue)
           /\ \/ ToSet(r.queue) = {}
              \/ limit > 0 /\ Cardinality((Registered \ {s}) \ ToSet(r.queue)) >= limit
  BY <1>2, <1>3, <1>4 DEF Departure
<1>5. ASSUME NEW x \in ToSet(r.queue),
             r2.admitted = {x}, ToSet(r2.queue) = ToSet(r.queue) \ {x},
             limit = 0 \/ Cardinality((Registered \ {s}) \ ToSet(r.queue)) < limit,
             \A y \in ToSet(r2.queue) : Before(r.queue, x, y)
      PROVE  Departure(r2.queue, r.admitted \cup r2.admitted, s) /\ s \notin ToSet(r2.queue)
  <2>1. x \in Registered \ {s}
    BY <1>1, <1>2 DEF Departure
  <2>2. limit = 0 \/ Cardinality((Registered \ {s}) \ (ToSet(r.queue) \ {x})) <= limit
    BY <1>1, <1>5, <2>1, OneMore
  <2>3. ToSet(r2.queue) \subseteq ToSet(r.queue)
    BY <1>5
  <2> QED
    BY <1>2, <1>3, <1>5, <2>2, <2>3 DEF Departure
<1>6. Removal(r2, Registered, s, r.queue)
  OBVIOUS
<1> QED
  BY <1>3, <1>4, <1>5, <1>6 DEF Removal

\* The queue and those let in when the session of account a is finished.
First(a)  == RemoveQueuedPlayer(inWorld[a], inWorld, queue)
Second(a) == RemoveQueuedPlayer(inWorld[a], inWorld, First(a).queue)

LEMMA FinishedDeparts ==
  ASSUME IInv, NEW a \in Accounts, inWorld[a] # NoSession
  PROVE  /\ Departure(Second(a).queue, First(a).admitted \cup Second(a).admitted, inWorld[a])
         /\ inWorld[a] \notin ToSet(Second(a).queue)
<1>1. inWorld[a] \in Registered
  BY SessionOf
<1>2. /\ inWorld \in World /\ OwnAccounts(inWorld) /\ limit \in Nat
      /\ queue \in Seq(Sessions) /\ IsInjective(queue) /\ ToSet(queue) \subseteq Registered
  BY LimitIsNat DEF IInv, Types, Linked
<1>3. Removal(First(a), Registered, inWorld[a], queue)
  BY <1>1, <1>2, RegisteredIs, RemoveQueuedPlayerIs DEF First
<1>4. Departure(First(a).queue, First(a).admitted, inWorld[a])
  BY <1>1, <1>3, RemovalIsDeparture
<1>5. /\ First(a).queue \in Seq(Sessions) /\ IsInjective(First(a).queue)
      /\ ToSet(First(a).queue) \subseteq Registered
  BY <1>2, <1>4 DEF Departure
<1>6. Removal(Second(a), Registered, inWorld[a], First(a).queue)
  BY <1>1, <1>2, <1>5, RegisteredIs, RemoveQueuedPlayerIs DEF Second
<1> QED
  BY <1>1, <1>3, <1>6, SecondRemoval

\* The locals of AddSession_.
Added   == Head(addSessQueue)
Old     == inWorld[Acct[Added]]
Removed == IF Old = NoSession THEN [found |-> FALSE, queue |-> queue, admitted |-> {}]
           ELSE RemoveQueuedPlayer(Old, inWorld, queue)

LEMMA OldDeparts ==
  ASSUME IInv, addSessQueue # <<>>
  PROVE  /\ Departure(Removed.queue, Removed.admitted, Old)
         /\ Old \notin ToSet(Removed.queue)
         /\ Removed.found <=> Old \in ToSet(queue)
         /\ Old \in Registered \/ Old = NoSession
<1>1. /\ inWorld \in World /\ OwnAccounts(inWorld) /\ limit \in Nat
      /\ queue \in Seq(Sessions) /\ IsInjective(queue) /\ ToSet(queue) \subseteq Registered
  BY LimitIsNat DEF IInv, Types, Linked
<1>2. Acct[Added] \in Accounts
  BY FirstAdded DEF Added
<1>3. CASE Old = NoSession
  <2>1. Removed = [found |-> FALSE, queue |-> queue, admitted |-> {}]
    BY <1>3 DEF Removed
  <2>2. Old \notin Registered
    BY <1>3, NullAssumption DEF Registered
  <2> QED
    BY <1>1, <1>3, <2>1, <2>2 DEF Departure
<1>4. CASE Old # NoSession
  <2>1. Old \in Registered
    BY <1>2, <1>4, SessionOf DEF Old
  <2>2. Removal(Removed, Registered, Old, queue)
    BY <1>1, <1>4, <2>1, RegisteredIs, RemoveQueuedPlayerIs DEF Removed
  <2> QED
    BY <2>1, <2>2, RemovalIsDeparture DEF Removal
<1> QED
  BY <1>3, <1>4

\* The sessions that neither leave nor arrive.
Stayed(adm, t) == IF t \in adm THEN InitializeSession(sess[t]) ELSE sess[t]

LEMMA StayedIs ==
  ASSUME IInv, NEW s, NEW q, NEW adm, Departure(q, adm, s), NEW t \in Sessions, t # s
  PROVE  /\ Stayed(adm, t) \in SessionRecords /\ Sound(Stayed(adm, t), t \in ToSet(q))
         /\ Stayed(adm, t).state = sess[t].state /\ Stayed(adm, t).forceExit = sess[t].forceExit
         /\ Stayed(adm, t).tolerated = sess[t].tolerated
<1>1. sess[t] \in SessionRecords /\ Sound(sess[t], t \in ToSet(queue))
  BY DEF IInv, Types, AllSound
<1>2. CASE t \in adm
  <2>1. t \in ToSet(queue) /\ (t \in ToSet(q)) = FALSE
    BY <1>2 DEF Departure
  <2>2. sess[t].state = "world" /\ sess[t].inQueue
    BY <1>1, <2>1 DEF Sound, IInv, Linked
  <2>3. Stayed(adm, t) = [sess[t] EXCEPT !.initPending = TRUE]
    BY <1>2 DEF Stayed, InitializeSession
  <2>4. /\ Stayed(adm, t) \in SessionRecords /\ Stayed(adm, t).initPending
        /\ Stayed(adm, t).state = "world" /\ Stayed(adm, t).forceExit = sess[t].forceExit
        /\ Stayed(adm, t).open = sess[t].open /\ Stayed(adm, t).loading = sess[t].loading
        /\ Stayed(adm, t).player = sess[t].player /\ Stayed(adm, t).tolerated = sess[t].tolerated
    BY <1>1, <2>2, <2>3 DEF SessionRecords
  <2> QED
    BY <1>1, <2>1, <2>2, <2>4 DEF Sound
<1>3. CASE t \notin adm
  <2>1. t \in ToSet(q) <=> t \in ToSet(queue)
    BY <1>3 DEF Departure
  <2> QED
    BY <1>1, <1>3, <2>1 DEF Stayed, Sound
<1> QED
  BY <1>2, <1>3

\* What RemoveFinished does.
LEMMA FinishedIs ==
  ASSUME IInv, NEW a \in Accounts, RemoveFinished(a)
  PROVE  LET s   == inWorld[a]
             adm == First(a).admitted \cup Second(a).admitted
         IN /\ inWorld[a] # NoSession /\ s \in Registered /\ pc = "update"
            /\ Departure(queue', adm, s) /\ s \notin ToSet(queue')
            /\ Registered' = Registered \ {s}
            /\ inWorld' = [inWorld EXCEPT ![a] = NoSession] /\ toUpdate' = toUpdate \ {a}
            /\ \A t \in Sessions : sess'[t] = IF t = s THEN Deleted ELSE Stayed(adm, t)
            /\ UNCHANGED <<addSessQueue, scenario, limit, now, pc, closing>>
<1>1. a \in toUpdate /\ inWorld[a] # NoSession /\ pc = "update"
  BY DEF RemoveFinished, Updating, IInv, Loop
<1>2. inWorld[a] \in Registered /\ Acct[inWorld[a]] = a
  BY <1>1, SessionOf
<1>3. /\ queue' = Second(a).queue
      /\ sess' = [t \in Sessions |->
                    CASE t = inWorld[a] -> Deleted
                      [] t \in First(a).admitted \cup Second(a).admitted -> InitializeSession(sess[t])
                      [] OTHER -> sess[t]]
      /\ inWorld' = [inWorld EXCEPT ![a] = NoSession] /\ toUpdate' = toUpdate \ {a}
      /\ UNCHANGED <<addSessQueue, scenario, limit, now, pc, closing>>
  BY DEF RemoveFinished, First, Second, clock
<1>4. Departure(queue', First(a).admitted \cup Second(a).admitted, inWorld[a])
      /\ inWorld[a] \notin ToSet(queue')
  BY <1>1, <1>3, FinishedDeparts
<1>5. Registered' = Registered \ {inWorld[a]}
  <2>1. \A b \in Accounts : inWorld'[b] = IF b = a THEN NoSession ELSE inWorld[b]
    BY <1>3 DEF IInv, Types, World
  <2> QED
    BY <1>2, <2>1, AcctAssumption, NullAssumption DEF Registered
<1>6. \A t \in Sessions : sess'[t] = IF t = inWorld[a] THEN Deleted
                                     ELSE Stayed(First(a).admitted \cup Second(a).admitted, t)
  <2> SUFFICES ASSUME NEW t \in Sessions
               PROVE  sess'[t] = IF t = inWorld[a] THEN Deleted
                                 ELSE Stayed(First(a).admitted \cup Second(a).admitted, t)
    OBVIOUS
  <2> DEFINE adm == First(a).admitted \cup Second(a).admitted
  <2>1. sess'[t] = CASE t = inWorld[a] -> Deleted
                     [] t \in adm -> InitializeSession(sess[t])
                     [] OTHER -> sess[t]
    BY <1>3
  <2>2. inWorld[a] \notin adm
    BY <1>4 DEF Departure
  <2> HIDE DEF adm
  <2>3. sess'[t] = IF t = inWorld[a] THEN Deleted ELSE Stayed(adm, t)
    BY <2>1, <2>2 DEF Stayed
  <2> QED
    BY <2>3 DEF adm
<1> QED
  BY <1>1, <1>2, <1>3, <1>4, <1>5, <1>6

LEMMA RemoveFinishedIInv ==
  ASSUME IInv, NEW a \in Accounts, RemoveFinished(a)
  PROVE  IInv'
<1> DEFINE s == inWorld[a]
           adm == First(a).admitted \cup Second(a).admitted
<1>1. /\ inWorld[a] # NoSession /\ s \in Registered /\ pc = "update"
      /\ Departure(queue', adm, s) /\ s \notin ToSet(queue')
      /\ Registered' = Registered \ {s}
      /\ inWorld' = [inWorld EXCEPT ![a] = NoSession] /\ toUpdate' = toUpdate \ {a}
      /\ \A t \in Sessions : sess'[t] = IF t = s THEN Deleted ELSE Stayed(adm, t)
      /\ UNCHANGED <<addSessQueue, scenario, limit, now, pc, closing>>
  BY FinishedIs
<1>2. sess[s].state = "world" /\ s \in Sessions /\ Acct[s] = a
  BY <1>1, SessionOf
<1> HIDE DEF s, adm
<1>3. \A t \in Sessions \ {s} :
        /\ sess'[t] \in SessionRecords /\ Sound(sess'[t], t \in ToSet(queue'))
        /\ sess'[t].state = sess[t].state /\ sess'[t].forceExit = sess[t].forceExit
  BY <1>1, StayedIs
<1>4. sess'[s] = Deleted
  BY <1>1, <1>2
<1>5. Types'
  <2>1. \A t \in Sessions : sess'[t] \in SessionRecords
    BY <1>3, <1>4, DeletedIs
  <2>2. sess' \in [Sessions -> SessionRecords]
    <3>1. sess' = [t \in Sessions |-> sess'[t]]
      BY DEF RemoveFinished
    <3> QED
      BY <2>1, <3>1
  <2>3. disconnects' \in [Accounts -> Nat \cup {Never}]
    <3>1. now \in Nat /\ disconnects \in [Accounts -> Nat \cup {Never}]
      BY EnvironmentAssumption DEF IInv, Types
    <3>2. disconnects' = disconnects \/ disconnects' = [disconnects EXCEPT ![a] = now]
      BY DEF RemoveFinished
    <3> QED
      BY <3>1, <3>2
  <2>4. inWorld' \in World /\ queue' \in Seq(Sessions)
    BY <1>1 DEF IInv, Types, World, Departure
  <2> QED
    BY <1>1, <2>2, <2>3, <2>4 DEF IInv, Types
<1>6. Linked'
  <2>1. OwnAccounts(inWorld)'
    BY <1>1 DEF IInv, Types, Linked, OwnAccounts, World
  <2>2. \A t \in Sessions : t \in Registered' <=> sess'[t].state = "world"
    BY <1>1, <1>3, <1>4, DeletedIs DEF IInv, Linked
  <2>3. \A t \in Sessions : t \in ToSet(addSessQueue') <=> sess'[t].state = "added"
    BY <1>1, <1>2, <1>3, <1>4, DeletedIs DEF IInv, Linked
  <2>4. ToSet(queue') \subseteq Registered' /\ IsInjective(queue') /\ IsInjective(addSessQueue')
    BY <1>1 DEF Departure, IInv, Linked
  <2> QED
    BY <2>1, <2>2, <2>3, <2>4 DEF Linked
<1>7. AllSound'
  <2>1. (s \in ToSet(queue')) = FALSE
    BY <1>1
  <2>2. Sound(sess'[s], s \in ToSet(queue'))
    BY <1>4, <2>1, DeletedIs
  <2> QED
    BY <1>3, <2>2 DEF AllSound
<1>8. Loop'
  <2>1. \A b \in toUpdate' : pc' = "update" /\ inWorld'[b] # NoSession
    BY <1>1 DEF IInv, Loop, Types, World
  <2>2. ASSUME NEW t \in Registered', sess'[t].forceExit, pc' \in {"update", "stopped"}
        PROVE  Acct[t] \in toUpdate'
    <3>1. t \in Sessions \ {s} /\ t \in Registered
      BY <1>1, <2>2 DEF Registered
    <3>2. Acct[t] \in toUpdate
      BY <1>1, <1>3, <2>2, <3>1 DEF IInv, Loop
    <3>3. Acct[t] # a
      BY <1>1, <1>2, <3>1 DEF Registered
    <3> QED
      BY <1>1, <3>2, <3>3
  <2> QED
    BY <2>1, <2>2 DEF Loop
<1> QED
  BY <1>5, <1>6, <1>7, <1>8 DEF IInv

\* More locals of AddSession_.
Registering == [inWorld EXCEPT ![Acct[Added]] = Added]
Counted     == LET total == GetActiveAndQueuedSessionCount(Registering)
               IN IF Removed.found THEN total ELSE total - 1
HeldBack    == limit > 0 /\ Counted >= limit /\ Acct[Added] \notin SkipQueue
Queued      == HeldBack /\ ~ HasRecentlyDisconnected(Acct[Added])
Entered     == [sess[Added] EXCEPT !.state = "world", !.inQueue = Queued,
                                   !.initPending = ~ Queued, !.tolerated = HeldBack /\ ~ Queued]

\* What AddSession_ does.
LEMMA AddedIs ==
  ASSUME IInv, AddSession_
  PROVE  /\ pc = "add" /\ addSessQueue # <<>> /\ Added \in Sessions /\ Added \notin Registered
         /\ sess[Added].state = "added" /\ Added # Old
         /\ Old = NoSession \/ (Old \in Registered /\ Acct[Old] = Acct[Added])
         /\ inWorld' = Registering /\ Registered' = (Registered \ {Old}) \cup {Added}
         /\ Departure(Removed.queue, Removed.admitted, Old)
         /\ queue' = IF Queued THEN Append(Removed.queue, Added) ELSE Removed.queue
         /\ ToSet(Removed.queue) \subseteq Registered \ {Old}
         /\ \A t \in Sessions : sess'[t] = IF t = Added THEN Entered
                                           ELSE IF t = Old THEN Deleted
                                           ELSE Stayed(Removed.admitted, t)
         /\ sess' = [t \in Sessions |-> sess'[t]]
         /\ addSessQueue' = Tail(addSessQueue)
         /\ UNCHANGED <<scenario, limit, now, disconnects, pc, toUpdate, closing>>
<1>1. pc = "add" /\ addSessQueue # <<>>
  BY DEF AddSession_
<1>2. Added \in Sessions /\ Added \notin Registered /\ sess[Added].state = "added" /\ Acct[Added] \in Accounts
  BY <1>1, FirstAdded DEF Added
<1>3. /\ Departure(Removed.queue, Removed.admitted, Old) /\ (Old \in Registered \/ Old = NoSession)
      /\ Old \notin ToSet(Removed.queue)
  BY <1>1, OldDeparts
<1>4. Old \in Registered => Acct[Old] = Acct[Added]
  BY <1>2, NullAssumption DEF Old, IInv, Linked, OwnAccounts, Registered
<1>5. /\ inWorld' = Registering
      /\ queue' = IF Queued THEN Append(Removed.queue, Added) ELSE Removed.queue
      /\ sess' = [t \in Sessions |->
                    CASE t = Added               -> Entered
                      [] t = Old                 -> Deleted
                      [] t \in Removed.admitted  -> InitializeSession(sess[t])
                      [] OTHER                   -> sess[t]]
      /\ addSessQueue' = Tail(addSessQueue)
      /\ UNCHANGED <<scenario, limit, now, disconnects, pc, toUpdate, closing>>
  BY DEF AddSession_, clock, Added, Old, Removed, Registering, Counted, HeldBack, Queued, Entered
<1>6. Added # Old
  BY <1>2, <1>3, NullAssumption
<1>7. Registered' = (Registered \ {Old}) \cup {Added}
  <2>1. \A b \in Accounts : inWorld'[b] = IF b = Acct[Added] THEN Added ELSE inWorld[b]
    BY <1>5 DEF IInv, Types, World, Registering
  <2>2. \A t \in Sessions : Acct[t] \in Accounts
    BY AcctAssumption
  <2>3. \A t \in Registered : Acct[t] = Acct[Added] => t = Old
    BY DEF Registered, Old
  <2>4. ASSUME NEW t \in Sessions PROVE t \in Registered' <=> t \in (Registered \ {Old}) \cup {Added}
    <3>1. CASE Acct[t] = Acct[Added]
      BY <1>2, <2>1, <2>2, <2>3, <3>1 DEF Registered
    <3>2. CASE Acct[t] # Acct[Added]
      <4>1. t # Old
        BY <1>3, <1>4, <3>2, NullAssumption
      <4> QED
        BY <1>2, <2>1, <2>2, <3>2, <4>1 DEF Registered
    <3> QED
      BY <3>1, <3>2
  <2> QED
    BY <1>2, <2>4 DEF Registered
<1>8. ToSet(Removed.queue) \subseteq Registered \ {Old} /\ Removed.admitted \subseteq Registered \ {Old}
  BY <1>3 DEF Departure, IInv, Linked
<1>9. ASSUME NEW t \in Sessions
      PROVE  sess'[t] = IF t = Added THEN Entered ELSE IF t = Old THEN Deleted
                        ELSE Stayed(Removed.admitted, t)
  <2>1. sess'[t] = CASE t = Added               -> Entered
                     [] t = Old                 -> Deleted
                     [] t \in Removed.admitted  -> InitializeSession(sess[t])
                     [] OTHER                   -> sess[t]
    BY <1>5
  <2>2. Old \notin Removed.admitted /\ Added \notin Removed.admitted
    BY <1>2, <1>8
  <2> QED
    BY <1>6, <2>1, <2>2 DEF Stayed
<1>10. sess' = [t \in Sessions |-> sess'[t]]
  BY ONLY <1>5
<1> QED
  BY <1>1, <1>2, <1>3, <1>4, <1>5, <1>6, <1>7, <1>8, <1>9, <1>10

LEMMA EnteredIs ==
  ASSUME IInv, AddSession_
  PROVE  /\ Entered \in SessionRecords /\ Entered.state = "world" /\ ~ Entered.forceExit
         /\ Queued \in BOOLEAN /\ Entered.inQueue = Queued /\ Sound(Entered, Queued)
         /\ Entered.tolerated = (HeldBack /\ ~ Queued)
<1>1. /\ sess[Added] \in SessionRecords /\ sess[Added].state = "added"
      /\ Sound(sess[Added], Added \in ToSet(queue))
  BY AddedIs DEF IInv, Types, AllSound
<1>2. Queued \in BOOLEAN /\ HeldBack \in BOOLEAN
  BY DEF Queued, HeldBack
<1>3. /\ Entered \in SessionRecords /\ Entered.state = "world" /\ Entered.inQueue = Queued
      /\ Entered.initPending = ~ Queued /\ Entered.tolerated = (HeldBack /\ ~ Queued)
      /\ Entered.forceExit = sess[Added].forceExit /\ Entered.open = sess[Added].open
      /\ Entered.loading = sess[Added].loading /\ Entered.player = sess[Added].player
  BY <1>1, <1>2 DEF Entered, SessionRecords
<1> QED
  BY <1>1, <1>2, <1>3 DEF Sound

LEMMA QueueAfterAdd ==
  ASSUME IInv, AddSession_
  PROVE  /\ queue' \in Seq(Sessions) /\ IsInjective(queue')
         /\ ToSet(queue') = ToSet(Removed.queue) \cup (IF Queued THEN {Added} ELSE {})
         /\ Added \notin ToSet(Removed.queue)
<1>1. /\ Added \in Sessions /\ Added \notin Registered
      /\ ToSet(Removed.queue) \subseteq Registered \ {Old}
      /\ Departure(Removed.queue, Removed.admitted, Old)
      /\ queue' = IF Queued THEN Append(Removed.queue, Added) ELSE Removed.queue
  BY AddedIs
<1>2. Removed.queue \in Seq(Sessions) /\ IsInjective(Removed.queue) /\ Added \notin ToSet(Removed.queue)
  BY <1>1 DEF Departure
<1>3. CASE Queued
  BY <1>1, <1>2, <1>3, AppendToQueue
<1>4. CASE ~ Queued
  BY <1>1, <1>2, <1>4
<1> QED
  BY <1>3, <1>4

LEMMA AddSession_IInv ==
  ASSUME IInv, AddSession_
  PROVE  IInv'
<1>1. /\ pc = "add" /\ addSessQueue # <<>> /\ Added \in Sessions /\ Added \notin Registered
      /\ sess[Added].state = "added" /\ Added # Old
      /\ Old = NoSession \/ (Old \in Registered /\ Acct[Old] = Acct[Added])
      /\ inWorld' = Registering /\ Registered' = (Registered \ {Old}) \cup {Added}
      /\ Departure(Removed.queue, Removed.admitted, Old)
      /\ ToSet(Removed.queue) \subseteq Registered \ {Old}
      /\ \A t \in Sessions : sess'[t] = IF t = Added THEN Entered
                                        ELSE IF t = Old THEN Deleted
                                        ELSE Stayed(Removed.admitted, t)
      /\ sess' = [t \in Sessions |-> sess'[t]]
      /\ addSessQueue' = Tail(addSessQueue)
      /\ UNCHANGED <<scenario, limit, now, disconnects, pc, toUpdate, closing>>
  BY AddedIs
<1>2. /\ Entered \in SessionRecords /\ Entered.state = "world" /\ ~ Entered.forceExit
      /\ Queued \in BOOLEAN /\ Sound(Entered, Queued)
  BY EnteredIs
<1>3. /\ queue' \in Seq(Sessions) /\ IsInjective(queue') /\ Added \notin ToSet(Removed.queue)
      /\ ToSet(queue') = ToSet(Removed.queue) \cup (IF Queued THEN {Added} ELSE {})
  BY QueueAfterAdd
<1>4. /\ addSessQueue' \in Seq(Sessions) /\ IsInjective(addSessQueue')
      /\ ToSet(addSessQueue') = ToSet(addSessQueue) \ {Added}
  BY <1>1, FirstAdded DEF Added
<1>5. ASSUME NEW t \in Sessions, t # Added, t # Old
      PROVE  /\ sess'[t] \in SessionRecords /\ Sound(sess'[t], t \in ToSet(Removed.queue))
             /\ sess'[t].state = sess[t].state /\ sess'[t].forceExit = sess[t].forceExit
  BY <1>1, <1>5, StayedIs
<1>6. sess'[Added] = Entered
  BY <1>1
<1>7. Old \in Sessions => sess'[Old] = Deleted
  BY <1>1
<1>8. Types'
  <2>1. \A t \in Sessions : sess'[t] \in SessionRecords
    BY <1>2, <1>5, <1>6, <1>7, DeletedIs
  <2>2. sess' = [t \in Sessions |-> sess'[t]]
    BY <1>1
  <2>3. sess' \in [Sessions -> SessionRecords]
    BY <2>1, <2>2
  <2>4. inWorld' \in World
    BY <1>1 DEF Registering, IInv, Types, World
  <2> QED
    BY <1>1, <1>3, <1>4, <2>3, <2>4 DEF IInv, Types
<1>9. Linked'
  <2>1. OwnAccounts(inWorld)'
    <3>1. \A b \in Accounts : inWorld'[b] = IF b = Acct[Added] THEN Added ELSE inWorld[b]
      BY <1>1 DEF IInv, Types, World, Registering
    <3> QED
      BY <1>1, <3>1 DEF IInv, Linked, OwnAccounts
  <2>2. \A t \in Sessions : t \in Registered' <=> sess'[t].state = "world"
    BY <1>1, <1>2, <1>5, <1>6, <1>7, DeletedIs DEF IInv, Linked
  <2>3. \A t \in Sessions : t \in ToSet(addSessQueue') <=> sess'[t].state = "added"
    <3>1. Old \in Sessions => sess[Old].state = "world"
      BY <1>1, NullAssumption DEF IInv, Linked
    <3> QED
      BY <1>2, <1>4, <1>5, <1>6, <1>7, <3>1, DeletedIs DEF IInv, Linked
  <2>4. ToSet(queue') \subseteq Registered'
    BY <1>1, <1>3
  <2> QED
    BY <1>3, <1>4, <2>1, <2>2, <2>3, <2>4 DEF Linked
<1>10. AllSound'
  <2> SUFFICES ASSUME NEW t \in Sessions PROVE Sound(sess'[t], t \in ToSet(queue'))
    BY DEF AllSound
  <2>1. CASE t = Added
    <3>1. (t \in ToSet(queue')) = Queued
      BY <1>2, <1>3, <2>1
    <3> QED
      BY <1>2, <1>6, <2>1, <3>1
  <2>2. CASE t = Old
    <3>1. (t \in ToSet(queue')) = FALSE
      BY <1>1, <1>3, <2>2
    <3> QED
      BY <1>7, <2>2, <3>1, DeletedIs
  <2>3. CASE t # Added /\ t # Old
    <3>1. (t \in ToSet(queue')) = (t \in ToSet(Removed.queue))
      BY <1>3, <2>3
    <3> QED
      BY <1>5, <2>3, <3>1
  <2> QED
    BY <2>1, <2>2, <2>3
<1>11. Loop'
  BY <1>1 DEF IInv, Loop
<1> QED
  BY <1>8, <1>9, <1>10, <1>11 DEF IInv

LEMMA NextIInv == IInv /\ [Next]_vars => IInv'
<1> SUFFICES ASSUME IInv, [Next]_vars PROVE IInv'
  OBVIOUS
<1>1. CASE UpdateSessions
  BY <1>1, QuietIInv, RefuseSessionIInv, AddSession_IInv, EndUpdateIInv, RemoveFinishedIInv
     DEF UpdateSessions
<1>2. CASE Packets
  BY <1>2, PacketsIInv
<1>3. CASE Network
  BY <1>3, AddSessionIInv, CloseSocketIInv DEF Network
<1>4. CASE Operator
  BY <1>4, QuietIInv, KickAccountIInv, KickAllIInv DEF Operator
<1>5. CASE AllAdded \/ UpdateGameTime \/ Stopped \/ UNCHANGED vars
  BY <1>5, QuietIInv DEF Stopped
<1> QED
  BY <1>1, <1>2, <1>3, <1>4, <1>5 DEF Next

\* The inductive invariant holds in every reachable state.
THEOREM IInvInvariant == Spec => []IInv
<1>1. Spec => Init /\ [][Next]_vars
  BY DEF Spec
<1> QED
  BY <1>1, InitIInv, NextIInv, PTL

\* Type correctness; in particular GetActiveSessionCount, an unsigned
\* difference of the sizes of two containers, never wraps around.
THEOREM TypeCorrect == Spec => []TypeOK
<1>1. IInv => TypeOK
  <2> SUFFICES ASSUME IInv PROVE TypeOK
    OBVIOUS
  <2>1. /\ inWorld \in World /\ OwnAccounts(inWorld) /\ queue \in Seq(Sessions)
        /\ IsInjective(queue) /\ ToSet(queue) \subseteq RegisteredIn(inWorld)
    BY RegisteredIs DEF IInv, Types, Linked
  <2>2. GetActiveSessionCount(inWorld, queue) \in Nat
    BY <2>1, ActiveIs, FS_CardinalityType
  <2> QED
    BY <2>2 DEF TypeOK, IInv, Types, SessionRecords, World
<1> QED
  BY <1>1, IInvInvariant, PTL

\* m_sessions, addSessQueue and m_QueuedPlayer hold the live sessions, each
\* once: no pointer dangles and no session is leaked.
THEOREM NoDanglingHolds == Spec => []NoDangling
<1>1. IInv => NoDangling
  <2> SUFFICES ASSUME IInv PROVE NoDangling
    OBVIOUS
  <2>1. \A a \in Accounts : inWorld[a] # NoSession =>
          Acct[inWorld[a]] = a /\ sess[inWorld[a]].state = "world"
    BY SessionOf
  <2>2. ToSet(addSessQueue) = {s \in Sessions : sess[s].state = "added"}
    <3>1. ToSet(addSessQueue) \subseteq Sessions
      BY ToSetIs DEF IInv, Types
    <3> QED
      BY <3>1 DEF IInv, Linked
  <2>3. \A s \in ToSet(queue) : s \in Registered /\ sess[s].inQueue
    <3> SUFFICES ASSUME NEW s \in ToSet(queue) PROVE s \in Registered /\ sess[s].inQueue
      OBVIOUS
    <3>1. s \in Registered /\ s \in Sessions
      BY DEF IInv, Linked, Registered
    <3>2. Sound(sess[s], s \in ToSet(queue)) /\ (s \in ToSet(queue)) = TRUE
      BY <3>1 DEF IInv, AllSound
    <3> QED
      BY <3>1, <3>2 DEF Sound
  <2>4. Cardinality(ToSet(queue)) = Len(queue)
    BY LenIsCardinality DEF IInv, Types, Linked
  <2> QED
    BY <2>1, <2>2, <2>3, <2>4 DEF NoDangling, IInv, Linked
<1> QED
  BY <1>1, IInvInvariant, PTL

\* A client that was told to wait has no player, and it waits, is being let
\* in, or is kicked.
THEOREM QueueGateHolds == Spec => []QueueGate
<1>1. IInv => QueueGate
  <2> SUFFICES ASSUME IInv, NEW s \in Registered, sess[s].inQueue
               PROVE  /\ sess[s].loading = "no" /\ ~sess[s].player
                      /\ Contains(queue, s) \/ sess[s].initPending \/ sess[s].forceExit
    BY DEF QueueGate
  <2>1. s \in Sessions /\ Sound(sess[s], s \in ToSet(queue))
    BY DEF IInv, AllSound, Registered
  <2>2. s \in ToSet(queue) <=> Contains(queue, s)
    BY ToSetIs DEF IInv, Types
  <2> QED
    BY <2>1, <2>2 DEF Sound
<1> QED
  BY <1>1, IInvInvariant, PTL

\* The last UpdateSessions removes every session that was kicked: the players
\* of a server that shuts down are unloaded and saved.
THEOREM ShutdownUnloadsHolds == Spec => []ShutdownUnloads
<1>1. IInv => ShutdownUnloads
  BY DEF IInv, Loop, ShutdownUnloads
<1> QED
  BY <1>1, IInvInvariant, PTL

-----------------------------------------------------------------------------
(* Who is let in: the steps of the queue.                                  *)

\* Only three steps touch m_sessions or the queue.
LEMMA OtherSteps ==
  ASSUME [Next]_vars, ~ AddSession_, ~ KickAll, \A a \in Accounts : ~ RemoveFinished(a)
  PROVE  Registered' = Registered /\ queue' = queue /\ Active' = Active
<1>1. UNCHANGED <<inWorld, queue>>
  <2>1. CASE UpdateSessions
    BY <2>1 DEF UpdateSessions, StartUpdate, RefuseSession, AllUpdated, EndUpdate
  <2>2. CASE Packets
    BY <2>2 DEF Packets, HandlePlayerLoginOpcode, HandlePlayerLogin, InitializeSessionCallback,
                LogoutPlayer, SetSession
  <2>3. CASE Network \/ Operator
    BY <2>3 DEF Network, AddSession, CloseSocket, Operator, SetPlayerAmountLimit, KickAccount
  <2>4. CASE AllAdded \/ UpdateGameTime \/ Stopped \/ UNCHANGED vars
    BY <2>4 DEF AllAdded, UpdateGameTime, Stopped, vars
  <2> QED
    BY <2>1, <2>2, <2>3, <2>4 DEF Next
<1> QED
  BY <1>1 DEF Registered, Active

LEMMA ActiveFinite == IInv => IsFiniteSet(Active) /\ Cardinality(Active) \in Nat
BY RegisteredFinite, FS_Subset, FS_CardinalityType DEF Active

\* Who is not held back finds room, or is exempt.
LEMMA NotQueued ==
  ASSUME IInv, AddSession_, ~ Queued
  PROVE  \/ limit = 0 \/ Cardinality(Registered') <= limit
         \/ Acct[Added] \in SkipQueue \/ sess'[Added].tolerated
<1>1. /\ inWorld' = Registering /\ Added \in Sessions /\ sess'[Added] = Entered /\ limit \in Nat
  BY AddedIs, LimitIsNat DEF IInv
<1>2. GetActiveAndQueuedSessionCount(Registering) = Cardinality(Registered')
      /\ Cardinality(Registered') \in Nat
  BY <1>1, AddSession_IInv, CountIs, RegisteredIs, FS_CardinalityType DEF IInv, Types, Linked
<1>3. CASE HeldBack
  BY <1>1, <1>3, EnteredIs
<1>4. CASE ~ HeldBack
  BY <1>1, <1>2, <1>4 DEF HeldBack, Counted
<1> QED
  BY <1>3, <1>4

\* Whoever is let in is exempt, or does not exceed the player limit.
THEOREM LimitRespectedHolds == Spec => LimitRespected
<1> DEFINE Step == \A s \in Active' \ Active :
                     ~closing' /\ limit > 0 /\ ~Exempt(s)' =>
                       Cardinality({t \in Active' : ~Exempt(t)'}) <= limit
<1>1. IInv /\ [Next]_vars => Step
  <2> SUFFICES ASSUME IInv, [Next]_vars, NEW s \in Active' \ Active,
                      ~closing', limit > 0, ~Exempt(s)'
               PROVE  Cardinality({t \in Active' : ~Exempt(t)'}) <= limit
    OBVIOUS
  <2> DEFINE Counting == {t \in Active' : ~Exempt(t)'}
  <2>1. IInv' /\ limit \in Nat
    BY NextIInv, LimitIsNat DEF IInv
  <2>2. IsFiniteSet(Registered') /\ IsFiniteSet(Active') /\ Cardinality(Registered') \in Nat
    <3>1. IsFiniteSet(Registered')
      BY <2>1, NextRegisteredFinite
    <3>2. Active' \subseteq Registered'
      BY DEF Active
    <3> QED
      BY <3>1, <3>2, FS_Subset, FS_CardinalityType
  <2>3. \A T : T \subseteq Registered' => IsFiniteSet(T) /\ Cardinality(T) \in Nat
                                          /\ Cardinality(T) <= Cardinality(Registered')
    BY <2>2, FS_Subset, FS_CardinalityType
  <2>4. Counting \subseteq Active' /\ Active' \subseteq Registered'
    BY DEF Active
  <2>5. ASSUME NEW T, IsFiniteSet(T), Counting \subseteq T, Cardinality(T) <= limit
        PROVE  Cardinality(Counting) <= limit
    <3>1. IsFiniteSet(Counting) /\ Cardinality(Counting) <= Cardinality(T)
      BY <2>5, FS_Subset
    <3>2. Cardinality(Counting) \in Nat /\ Cardinality(T) \in Nat
      BY <2>5, <3>1, FS_CardinalityType
    <3> QED
      BY <2>1, <2>5, <3>1, <3>2
  <2>6. CASE AddSession_
    <3> DEFINE stay == (Registered \ {Old}) \ ToSet(Removed.queue)
    <3>1. /\ Added \in Sessions /\ Added \notin Registered
          /\ Registered' = (Registered \ {Old}) \cup {Added}
          /\ Departure(Removed.queue, Removed.admitted, Old)
          /\ ToSet(queue') = ToSet(Removed.queue) \cup (IF Queued THEN {Added} ELSE {})
      BY <2>6, AddedIs, QueueAfterAdd
    <3>2. CASE Cardinality(Registered') <= limit
      BY <2>2, <2>4, <2>5, <3>2
    <3>3. CASE ~ (Cardinality(Registered') <= limit)
      <4>1. Added \notin Counting
        <5>1. CASE Queued
          BY <3>1, <5>1 DEF Active
        <5>2. CASE ~ Queued
          <6>1. Acct[Added] \in SkipQueue \/ sess'[Added].tolerated
            BY <2>6, <3>3, <5>2, NotQueued
          <6> QED
            BY <6>1 DEF Exempt
        <5> QED
          BY <5>1, <5>2
      <4>2. s # Added
        BY <4>1
      <4>3. s \in Removed.admitted
        BY <3>1, <4>2 DEF Active, Departure
      <4>4. Cardinality(stay) <= limit
        BY <3>1, <4>3 DEF Departure
      <4>5. Counting \subseteq stay
        BY <3>1, <4>1 DEF Active
      <4>6. IsFiniteSet(stay)
        BY RegisteredFinite, FS_Subset
      <4> HIDE DEF stay
      <4> QED
        BY <2>5, <4>4, <4>5, <4>6
    <3> QED
      BY <3>2, <3>3
  <2>7. ASSUME NEW a \in Accounts, RemoveFinished(a)
        PROVE  Cardinality(Counting) <= limit
    <3> DEFINE adm == First(a).admitted \cup Second(a).admitted
    <3>1. Departure(queue', adm, inWorld[a]) /\ Registered' = Registered \ {inWorld[a]}
      BY <2>7, FinishedIs
    <3>2. s \in adm
      BY <3>1 DEF Active, Departure
    <3>3. Cardinality(Active') <= limit
      BY <3>1, <3>2 DEF Active, Departure
    <3> QED
      BY <2>2, <2>4, <2>5, <3>3
  <2>8. ~ KickAll
    BY DEF KickAll
  <2>9. AddSession_ \/ \E a \in Accounts : RemoveFinished(a)
    BY <2>8, OtherSteps
  <2> QED
    BY <2>6, <2>7, <2>9
<1> QED
  BY <1>1, IInvInvariant, PTL DEF Spec, LimitRespected

LEMMA SubsetCount ==
  ASSUME NEW B, IsFiniteSet(B), NEW A, A \subseteq B
  PROVE  Cardinality(A) \in Nat /\ Cardinality(B) \in Nat /\ Cardinality(B) >= Cardinality(A)
BY FS_Subset, FS_CardinalityType

\* One leaves, another comes.
LEMMA ReplacedCount ==
  ASSUME NEW A, IsFiniteSet(A), NEW s, NEW x, x \notin A,
         NEW B, IsFiniteSet(B), (A \ {s}) \cup {x} \subseteq B
  PROVE  Cardinality(B) >= Cardinality(A)
<1> DEFINE R == A \ {s}
<1>1. IsFiniteSet(R) /\ Cardinality(R) >= Cardinality(A) - 1
  <2>1. IsFiniteSet(R) /\ Cardinality(R) = IF s \in A THEN Cardinality(A) - 1 ELSE Cardinality(A)
    BY FS_RemoveElement
  <2>2. Cardinality(A) \in Nat
    BY FS_CardinalityType
  <2> QED
    BY <2>1, <2>2
<1>2. IsFiniteSet(R \cup {x}) /\ Cardinality(R \cup {x}) = Cardinality(R) + 1
  BY <1>1, FS_AddElement
<1>3. Cardinality(B) >= Cardinality(R \cup {x})
  BY <1>2, SubsetCount
<1>4. Cardinality(A) \in Nat /\ Cardinality(B) \in Nat /\ Cardinality(R) \in Nat
  BY <1>1, FS_CardinalityType
<1> QED
  BY <1>1, <1>2, <1>3, <1>4

\* Without s the active sessions are as many as before, if one is let in or s
\* was not active, or enough, or nobody waits.
LEMMA ActiveAfterDeparture ==
  ASSUME IInv, NEW q, NEW adm, NEW s, Departure(q, adm, s),
         NEW B, IsFiniteSet(B), (Registered \ {s}) \ ToSet(q) \subseteq B
  PROVE  \/ Cardinality(B) >= Cardinality(Active)
         \/ limit > 0 /\ Cardinality(B) >= limit
         \/ ToSet(q) = {} /\ s \notin ToSet(queue)
<1>1. IsFiniteSet(Active) /\ limit \in Nat
  BY ActiveFinite, LimitIsNat DEF IInv
<1>2. ToSet(q) \subseteq ToSet(queue) /\ ToSet(queue) \subseteq Registered
  BY DEF Departure, IInv, Linked
<1>3. CASE s \notin Registered \/ s \in ToSet(queue)
  <2>1. Active \subseteq B
    BY <1>2, <1>3 DEF Active
  <2> QED
    BY <2>1, SubsetCount
<1>4. ASSUME NEW x \in adm, s \in Registered PROVE Cardinality(B) >= Cardinality(Active)
  <2>1. x \notin Active /\ (Active \ {s}) \cup {x} \subseteq B
    BY <1>2, <1>4 DEF Active, Departure
  <2> QED
    BY <1>1, <2>1, ReplacedCount
<1>5. CASE /\ adm = {} /\ limit > 0
           /\ Cardinality((Registered \ {s}) \ ToSet(queue)) >= limit
  <2> DEFINE A == (Registered \ {s}) \ ToSet(queue)
  <2>1. A \subseteq B
    BY <1>2
  <2>2. Cardinality(B) >= Cardinality(A) /\ Cardinality(A) \in Nat /\ Cardinality(B) \in Nat
    BY <2>1, SubsetCount
  <2> QED
    BY <1>1, <1>5, <2>2
<1>6. CASE adm = {} /\ ToSet(q) = {} /\ s \notin ToSet(queue)
  BY <1>6
<1> QED
  BY <1>3, <1>4, <1>5, <1>6 DEF Departure

\* A session that must wait finds the server full, when its predecessor of the
\* same account was not waiting.
LEMMA QueuedWhenFull ==
  ASSUME IInv, AddSession_, Queued, Old \notin ToSet(queue)
  PROVE  limit > 0 /\ Cardinality(Registered' \ {Added}) >= limit
<1>1. /\ inWorld' = Registering /\ Added \in Registered' /\ limit \in Nat /\ addSessQueue # <<>>
  BY AddedIs, LimitIsNat DEF IInv
<1>2. GetActiveAndQueuedSessionCount(Registering) = Cardinality(Registered') /\ IsFiniteSet(Registered')
  BY <1>1, AddSession_IInv, CountIs, RegisteredIs DEF IInv, Types, Linked
<1>3. Cardinality(Registered' \ {Added}) = Cardinality(Registered') - 1
  BY <1>1, <1>2, FS_RemoveElement
<1>4. ~ Removed.found
  BY <1>1, OldDeparts
<1> QED
  BY <1>2, <1>3, <1>4 DEF Queued, HeldBack, Counted

\* Players wait only for others: who is queued finds the server full or others
\* waiting, and an active session that leaves is replaced if somebody waits.
THEOREM QueueOnlyWhenFullHolds == Spec => QueueOnlyWhenFull
<1> DEFINE Step == ~closing' =>
                     /\ ToSet(queue') \subseteq ToSet(queue) \/ queue # <<>> \/ Full'
                     /\ \/ queue' = <<>> \/ Full'
                        \/ Cardinality(Active') >= Cardinality(Active)
<1>1. IInv /\ [Next]_vars => Step
  <2> SUFFICES ASSUME IInv, [Next]_vars, ~closing' PROVE Step
    OBVIOUS
  <2>1. IInv' /\ IsFiniteSet(Registered')
    BY NextIInv, NextRegisteredFinite
  <2>2. Active' \subseteq Registered' /\ IsFiniteSet(Active')
    BY <2>1, FS_Subset DEF Active
  <2>3. /\ queue = <<>> => ToSet(queue) = {}
        /\ ToSet(queue') = {} => queue' = <<>>
    BY <2>1, ToSetIs DEF IInv, Types
  <2>4. CASE AddSession_
    <3>1. /\ Added \in Sessions /\ Added \notin Registered /\ limit' = limit
          /\ Registered' = (Registered \ {Old}) \cup {Added}
          /\ Departure(Removed.queue, Removed.admitted, Old)
          /\ ToSet(queue') = ToSet(Removed.queue) \cup (IF Queued THEN {Added} ELSE {})
          /\ Added \notin ToSet(Removed.queue)
      BY <2>4, AddedIs, QueueAfterAdd
    <3>2. ToSet(Removed.queue) \subseteq ToSet(queue)
      BY <3>1 DEF Departure
    <3>3. Queued /\ ToSet(Removed.queue) = {} /\ Old \notin ToSet(queue) => Full'
      <4> SUFFICES ASSUME Queued, ToSet(Removed.queue) = {}, Old \notin ToSet(queue) PROVE Full'
        OBVIOUS
      <4>1. Active' = Registered' \ {Added}
        BY <3>1 DEF Active
      <4>2. limit > 0 /\ Cardinality(Registered' \ {Added}) >= limit
        BY <2>4, QueuedWhenFull
      <4> QED
        BY <3>1, <4>1, <4>2 DEF Full
    <3>4. ToSet(queue') \subseteq ToSet(queue) \/ queue # <<>> \/ Full'
      <4> SUFFICES ASSUME queue = <<>>, Queued PROVE Full'
        BY <3>1, <3>2
      <4> QED
        BY <2>3, <3>2, <3>3
    <3>5. queue' = <<>> \/ Full' \/ Cardinality(Active') >= Cardinality(Active)
      <4>1. (Registered \ {Old}) \ ToSet(Removed.queue) \subseteq Active'
        BY <3>1 DEF Active
      <4>2. \/ Cardinality(Active') >= Cardinality(Active)
            \/ limit > 0 /\ Cardinality(Active') >= limit
            \/ ToSet(Removed.queue) = {} /\ Old \notin ToSet(queue)
        BY <2>2, <3>1, <4>1, ActiveAfterDeparture
      <4>3. limit > 0 /\ Cardinality(Active') >= limit => Full'
        BY <3>1 DEF Full
      <4>4. ToSet(Removed.queue) = {} /\ ~ Queued => queue' = <<>>
        BY <2>3, <3>1
      <4> QED
        BY <3>3, <4>2, <4>3, <4>4
    <3> QED
      BY <3>4, <3>5
  <2>5. ASSUME NEW a \in Accounts, RemoveFinished(a) PROVE Step
    <3> DEFINE adm == First(a).admitted \cup Second(a).admitted
    <3>1. /\ Departure(queue', adm, inWorld[a]) /\ Registered' = Registered \ {inWorld[a]}
          /\ limit' = limit
      BY <2>5, FinishedIs
    <3> HIDE DEF adm
    <3>2. ToSet(queue') \subseteq ToSet(queue)
      BY <3>1 DEF Departure
    <3>3. (Registered \ {inWorld[a]}) \ ToSet(queue') \subseteq Active'
      BY <3>1 DEF Active
    <3>4. \/ Cardinality(Active') >= Cardinality(Active)
          \/ limit > 0 /\ Cardinality(Active') >= limit
          \/ ToSet(queue') = {}
      BY <2>2, <3>1, <3>3, ActiveAfterDeparture
    <3> QED
      BY <2>3, <3>1, <3>2, <3>4 DEF Full
  <2>6. ~ KickAll
    BY DEF KickAll
  <2>7. CASE ~ AddSession_ /\ \A a \in Accounts : ~ RemoveFinished(a)
    <3>1. queue' = queue /\ Active' = Active
      BY <2>6, <2>7, OtherSteps
    <3>2. Cardinality(Active) \in Nat
      BY ActiveFinite
    <3> QED
      BY <3>1, <3>2
  <2> QED
    BY <2>4, <2>5, <2>7
<1> QED
  BY <1>1, IInvInvariant, PTL DEF Spec, QueueOnlyWhenFull

\* Nobody overtakes the queue: who goes on waiting came after those who are let
\* in, the exempt aside, unless a raised limit leaves room for all.
THEOREM NoOvertakingHolds == Spec => NoOvertaking
<1> DEFINE Step == ~closing' =>
                     \A s \in Active' \ Active, t \in ToSet(queue) \cap ToSet(queue') :
                       \/ Before(queue, s, t) \/ Exempt(s)'
                       \/ limit = 0 \/ Cardinality(Registered') <= limit
<1>1. IInv /\ [Next]_vars => Step
  <2> SUFFICES ASSUME IInv, [Next]_vars, ~closing',
                      NEW s \in Active' \ Active, NEW t \in ToSet(queue) \cap ToSet(queue')
               PROVE  \/ Before(queue, s, t) \/ Exempt(s)'
                      \/ limit = 0 \/ Cardinality(Registered') <= limit
    OBVIOUS
  <2>1. CASE AddSession_
    <3>1. /\ Added \in Sessions /\ Added \notin Registered
          /\ Registered' = (Registered \ {Old}) \cup {Added}
          /\ Departure(Removed.queue, Removed.admitted, Old)
          /\ ToSet(queue') = ToSet(Removed.queue) \cup (IF Queued THEN {Added} ELSE {})
      BY <2>1, AddedIs, QueueAfterAdd
    <3>2. ToSet(queue) \subseteq Registered
      BY DEF IInv, Linked
    <3>3. CASE s = Added
      <4>1. ~ Queued
        BY <3>1, <3>3 DEF Active
      <4> QED
        BY <2>1, <3>3, <4>1, NotQueued DEF Exempt
    <3>4. CASE s # Added
      <4>1. s \in Removed.admitted /\ t \in ToSet(Removed.queue)
        BY <3>1, <3>2, <3>4 DEF Active, Departure
      <4> QED
        BY <3>1, <4>1 DEF Departure
    <3> QED
      BY <3>3, <3>4
  <2>2. ASSUME NEW a \in Accounts, RemoveFinished(a) PROVE Before(queue, s, t)
    <3> DEFINE adm == First(a).admitted \cup Second(a).admitted
    <3>1. Departure(queue', adm, inWorld[a]) /\ Registered' = Registered \ {inWorld[a]}
      BY <2>2, FinishedIs
    <3>2. s \in adm
      BY <3>1 DEF Active, Departure
    <3> QED
      BY <3>1, <3>2 DEF Departure
  <2>3. ~ KickAll
    BY DEF KickAll
  <2> QED
    BY <2>1, <2>2, <2>3, OtherSteps
<1> QED
  BY <1>1, IInvInvariant, PTL DEF Spec, NoOvertaking
=============================================================================
