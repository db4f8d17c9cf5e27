----------------------- MODULE BattlegroundQueue_proofs -----------------------
(***************************************************************************)
(* Proofs about BattlegroundQueue, for any players, sizes of teams, bounds *)
(* on the battlegrounds and time to accept an invitation; and, at the end, *)
(* about InstanceIds, the allocator its battlegrounds take their ids from. *)
(*                                                                         *)
(* QueueInv says who may be expected where: whoever is in the queue is in  *)
(* the world, with no battleground, and his qid is his invitation; whoever *)
(* is teleported has left the queue.  So the ways in which a player counts *)
(* for a battleground exclude each other, and each step moves him from one *)
(* to the next, or out of the count.  Groups do not overlap and are        *)
(* invited as a whole: a group that waits brings in nobody who is already  *)
(* counted.  Every invitation has its event in events.                     *)
(***************************************************************************)
EXTENDS BattlegroundQueue, InstanceIds, FiniteSetTheorems, WellFoundedInduction,
        SequenceTheorems, TLAPS

-----------------------------------------------------------------------------
(* The battleground queue.  The functions of the model work on a state     *)
(* record st, so that what they keep is a predicate of that record and of  *)
(* o, the value of online.                                                 *)

States ==
  [queue : [Kinds -> [Teams -> Seq((SUBSET Players) \ {{}})]],
   info : [Players -> GroupQueueInfo],
   bgs : [Ids -> Battleground],
   free : Seq(Ids),
   events : SUBSET [player : Players, bg : Ids, left : 1 .. AcceptTime],
   scheduled : BOOLEAN,
   qid : [Players -> Ids \cup {NoBg, NotQueued}],
   bgOf : [Players -> Ids \cup {NoBg}]]

Onlines == [Players -> {"offline", "world", "transit"}]

\* The groups of a team in both queues.
GroupsOf(st, t) == ToSet(st.queue["premade"][t]) \cup ToSet(st.queue["normal"][t])

\* The groups of a team are as large as the team at most, do not overlap, and
\* are invited as a whole.
GroupsSound(st) ==
  \A t \in Teams : \A g \in GroupsOf(st, t) :
    /\ g \subseteq Of(Players, t) /\ Cardinality(g) <= MaxPlayersPerTeam
    /\ \A p \in g : InQueue(st, p)
    /\ \A p, r \in g : st.info[p].invited = st.info[r].invited
    /\ \A h \in GroupsOf(st, t) : g = h \/ g \cap h = {}

\* Who is in the queue is in the world and in no battleground; who is on the way
\* to a battleground, or in it, belongs to this one only.
PlayerSound(st, o, p) ==
  /\ InQueue(st, p) => o[p] = "world" /\ st.bgOf[p] = NoBg /\ st.qid[p] = st.info[p].invited
  /\ o[p] = "transit" => st.bgOf[p] \in Ids /\ st.qid[p] = st.bgOf[p]
  /\ \A b \in Ids : p \in st.bgs[b].players => st.bgOf[p] = b /\ o[p] # "transit"
PlayersSound(st, o) == \A p \in Players : PlayerSound(st, o, p)

\* Expected, in the state st.
Comers(st, o, b, t) ==
  {p \in Of(Players, t) :
     \/ st.info[p].invited = b
     \/ o[p] = "transit" /\ st.bgOf[p] = b
     \/ p \in st.bgs[b].players}

CountsSound(st, o) ==
  \A b \in Ids, t \in Teams :
    /\ st.bgs[b].invited[t] = Cardinality(Comers(st, o, b, t))
    /\ st.bgs[b].invited[t] <= MaxPlayersPerTeam

DeletedSound(st) == \A b \in Ids : st.bgs[b].status = "none" => st.bgs[b] = NoBattleground

\* Every invitation has an event that will withdraw it.
EventsSound(st) ==
  \A p \in Players :
    st.info[p].invited \in Ids =>
      /\ st.info[p].left >= 1
      /\ [player |-> p, bg |-> st.info[p].invited, left |-> st.info[p].left] \in st.events

Sound(st, o) ==
  /\ st \in States
  /\ GroupsSound(st) /\ PlayersSound(st, o) /\ CountsSound(st, o) /\ DeletedSound(st)
  /\ EventsSound(st)

QueueInv == QueueTypeOK /\ Sound(St, online)
-----------------------------------------------------------------------------
(* Folds.  What a fold keeps is given as a set Kept[s] of results for each *)
(* set s of arguments: a theorem takes no operator.                        *)

\* Finite induction, with the property as a set of sets.
LEMMA SetInduction ==
  ASSUME NEW S, IsFiniteSet(S), NEW G,
         \A T \in SUBSET S : (\A U \in SUBSET T : U # T => U \in G) => T \in G
  PROVE  S \in G
<1> DEFINE R   == StrictSubsetOrdering(S)
           Bad == {T \in SUBSET S : T \notin G}
<1>1. IsWellFoundedOn(R, FiniteSubsetsOf(S))
  BY FS_StrictSubsetOrderingWellFounded
<1>2. SUBSET S = FiniteSubsetsOf(S)
  BY FS_FiniteSubsetsOfFinite
<1>3. SUFFICES ASSUME S \notin G PROVE FALSE
  OBVIOUS
<1>4. Bad \subseteq FiniteSubsetsOf(S) /\ Bad # {}
  BY <1>2, <1>3
<1> HIDE DEF R, Bad
<1>5. PICK T \in Bad : \A U \in Bad : ~ (<<U, T>> \in R)
  BY <1>1, <1>4, WFMin
<1> USE DEF Bad
<1>6. ASSUME NEW U \in SUBSET T, U # T PROVE U \in G
  <2>1. <<U, T>> \in R
    BY <1>6 DEF R, StrictSubsetOrdering
  <2> QED
    BY <1>5, <2>1
<1> QED
  BY <1>5, <1>6

\* g folds H over every subset of S, c telling which element is taken last.
Folds(g, S, base, c, H) ==
  g = [s \in SUBSET S |-> IF s = {} THEN base ELSE H[<<c[s], g[s \ {c[s]}]>>]]

Picks(c, S) == \A s \in SUBSET S : s # {} => c[s] \in s

LEMMA FoldsValue ==
  ASSUME NEW S, NEW base, NEW c, NEW H, NEW g, Folds(g, S, base, c, H), NEW s \in SUBSET S
  PROVE  g[s] = IF s = {} THEN base ELSE H[<<c[s], g[s \ {c[s]}]>>]
<1> DEFINE h == [t \in SUBSET S |-> IF t = {} THEN base ELSE H[<<c[t], g[t \ {c[t]}]>>]]
<1>1. g = h
  BY Zenon DEF Folds
<1>2. h[s] = IF s = {} THEN base ELSE H[<<c[s], g[s \ {c[s]}]>>]
  OBVIOUS
<1> HIDE DEF h
<1> QED
  BY <1>1, <1>2

LEMMA FoldsAgree ==
  ASSUME NEW S, NEW T, NEW base, NEW c, NEW H, NEW g, NEW h,
         Folds(g, S, base, c, H), Folds(h, T, base, c, H), Picks(c, S),
         NEW u \in SUBSET S, u \in SUBSET T, IsFiniteSet(u)
  PROVE  g[u] = h[u]
<1> DEFINE G == {s \in SUBSET u : g[s] = h[s]}
<1>1. ASSUME NEW s \in SUBSET u, \A v \in SUBSET s : v # s => v \in G
      PROVE  s \in G
  <2>1. /\ g[s] = IF s = {} THEN base ELSE H[<<c[s], g[s \ {c[s]}]>>]
        /\ h[s] = IF s = {} THEN base ELSE H[<<c[s], h[s \ {c[s]}]>>]
    BY FoldsValue
  <2>2. s # {} => s \ {c[s]} \in SUBSET s /\ s \ {c[s]} # s
    BY DEF Picks
  <2>3. s # {} => g[s \ {c[s]}] = h[s \ {c[s]}]
    BY <1>1, <2>2
  <2> QED
    BY <2>1, <2>3
<1> HIDE DEF G
<1>2. u \in G
  BY <1>1, SetInduction
<1> QED
  BY <1>2 DEF G

LEMMA FoldsExists ==
  ASSUME NEW S, IsFiniteSet(S), NEW base, NEW c, NEW H, Picks(c, S)
  PROVE  \E g : Folds(g, S, base, c, H)
<1> DEFINE G == {s \in SUBSET S : \E g : Folds(g, s, base, c, H)}
           part(s) == CHOOSE g : Folds(g, s, base, c, H)
<1>1. ASSUME NEW T \in SUBSET S, \A u \in SUBSET T : u # T => u \in G
      PROVE  T \in G
  <2> DEFINE rest(s) == s \ {c[s]}
             h == [s \in SUBSET T |->
                     IF s = {} THEN base ELSE H[<<c[s], part(rest(s))[rest(s)]>>]]
  <2>0. ASSUME NEW u \in SUBSET T, u # {}
        PROVE  rest(u) \in SUBSET u /\ rest(u) # u
    BY <2>0 DEF Picks
  <2>1. ASSUME NEW u \in SUBSET T, u # T
        PROVE  Folds(part(u), u, base, c, H) /\ IsFiniteSet(u) /\ Picks(c, u)
    <3>1. \E g : Folds(g, u, base, c, H)
      BY <1>1, <2>1
    <3>2. Picks(c, u)
      BY DEF Picks
    <3> QED
      BY <3>1, <3>2, FS_Subset
  <2>2. ASSUME NEW u \in SUBSET T, u # T
        PROVE  h[u] = part(u)[u]
    <3> HIDE DEF part, rest
    <3>1. part(u)[u] = IF u = {} THEN base ELSE H[<<c[u], part(u)[rest(u)]>>]
      BY <2>1, <2>2, FoldsValue DEF rest
    <3>2. h[u] = IF u = {} THEN base ELSE H[<<c[u], part(rest(u))[rest(u)]>>]
      OBVIOUS
    <3>3. ASSUME u # {} PROVE part(u)[rest(u)] = part(rest(u))[rest(u)]
      <4> DEFINE v == rest(u)
      <4>1. v \in SUBSET u /\ v \in SUBSET v /\ v \in SUBSET T /\ v # T
        BY <2>0, <2>2, <3>3
      <4>2. Folds(part(v), v, base, c, H) /\ IsFiniteSet(v)
        BY <2>1, <4>1
      <4>3. Folds(part(u), u, base, c, H) /\ Picks(c, u)
        BY <2>1, <2>2
      <4> HIDE DEF v
      <4>4. part(u)[v] = part(v)[v]
        BY <4>1, <4>2, <4>3, FoldsAgree
      <4> QED
        BY <4>4 DEF v
    <3> HIDE DEF h
    <3> QED
      BY <3>1, <3>2, <3>3
  <2>3. Folds(h, T, base, c, H)
    <3>1. ASSUME NEW s \in SUBSET T
          PROVE  h[s] = IF s = {} THEN base ELSE H[<<c[s], h[rest(s)]>>]
      <4>1. h[s] = IF s = {} THEN base ELSE H[<<c[s], part(rest(s))[rest(s)]>>]
        OBVIOUS
      <4> HIDE DEF h, part, rest
      <4>2. s # {} => rest(s) \in SUBSET T /\ rest(s) # T
        BY <2>0
      <4> QED
        BY <2>2, <4>1, <4>2
    <3>2. h = [s \in SUBSET T |-> h[s]]
      OBVIOUS
    <3> HIDE DEF h
    <3> QED
      BY <3>1, <3>2 DEF Folds
  <2> QED
    BY <2>3
<1> HIDE DEF G
<1>2. S \in G
  BY <1>1, SetInduction
<1> QED
  BY <1>2 DEF G

KeptBy(g, S, Kept) == \A s \in SUBSET S : g[s] \in Kept[s]

\* What the first value has and every round keeps, the fold has.
LEMMA FoldsKeeps ==
  ASSUME NEW S, IsFiniteSet(S), NEW c, Picks(c, S), NEW Kept, NEW g,
         g[{}] \in Kept[{}],
         \A s \in SUBSET S :
           s # {} /\ g[s \ {c[s]}] \in Kept[s \ {c[s]}] => g[s] \in Kept[s]
  PROVE  KeptBy(g, S, Kept)
<1> SUFFICES ASSUME NEW u \in SUBSET S PROVE g[u] \in Kept[u]
  BY DEF KeptBy
<1> DEFINE G == {s \in SUBSET S : g[s] \in Kept[s]}
<1>1. ASSUME NEW s \in SUBSET u, \A v \in SUBSET s : v # s => v \in G
      PROVE  s \in G
  <2>1. s # {} => s \ {c[s]} \in SUBSET s /\ s \ {c[s]} # s
    BY DEF Picks
  <2>2. s # {} => g[s \ {c[s]}] \in Kept[s \ {c[s]}]
    BY <1>1, <2>1
  <2> QED
    BY <2>2
<1> HIDE DEF G
<1>2. IsFiniteSet(u)
  BY FS_Subset
<1>3. u \in G
  BY <1>1, <1>2, SetInduction
<1> QED
  BY <1>3 DEF G

\* The fold exists, and keeps it, if H maps what is kept to what is kept.
LEMMA FoldsKept ==
  ASSUME NEW S, IsFiniteSet(S), NEW base, NEW c, Picks(c, S), NEW H, NEW Kept,
         base \in Kept[{}],
         \A s \in SUBSET S : s # {} =>
           \A v \in Kept[s \ {c[s]}] : H[<<c[s], v>>] \in Kept[s]
  PROVE  \E g : Folds(g, S, base, c, H) /\ KeptBy(g, S, Kept)
<1>1. PICK g : Folds(g, S, base, c, H)
  BY FoldsExists
<1>2. \A s \in SUBSET S : g[s] = IF s = {} THEN base ELSE H[<<c[s], g[s \ {c[s]}]>>]
  BY <1>1, FoldsValue
<1>3. g[{}] \in Kept[{}]
  BY <1>2
<1>4. \A s \in SUBSET S :
        s # {} /\ g[s \ {c[s]}] \in Kept[s \ {c[s]}] => g[s] \in Kept[s]
  BY <1>2
<1>5. KeptBy(g, S, Kept)
  BY <1>3, <1>4, FoldsKeeps
<1> QED
  BY <1>1, <1>5

\* A set of numbers from 1 to n has a least and a greatest one.
LEMMA LeastAndGreatest ==
  ASSUME NEW n \in Nat, NEW s \in SUBSET (1 .. n), s # {}
  PROVE  /\ Min(s) \in s /\ \A y \in s : Min(s) <= y
         /\ Max(s) \in s /\ \A y \in s : Max(s) >= y
<1> DEFINE G == {t \in SUBSET s : t # {} =>
                   /\ \E k \in t : \A j \in t : k <= j
                   /\ \E k \in t : \A j \in t : k >= j}
<1>1. ASSUME NEW t \in SUBSET s, \A u \in SUBSET t : u # t => u \in G
      PROVE  t \in G
  <2>1. CASE t = {}
    BY <2>1
  <2>2. CASE t # {}
    <3>1. PICK a \in t : TRUE
      BY <2>2
    <3>2. t \subseteq Int
      OBVIOUS
    <3>3. CASE t \ {a} = {}
      BY <3>1, <3>2, <3>3
    <3>4. CASE t \ {a} # {}
      <4>1. t \ {a} \in G
        BY <1>1, <3>1
      <4>2. PICK k \in t \ {a} : \A j \in t \ {a} : k <= j
        BY <3>4, <4>1
      <4>3. PICK m \in t \ {a} : \A j \in t \ {a} : m >= j
        BY <3>4, <4>1
      <4>4. \E l \in t : \A j \in t : l <= j
        BY <3>1, <3>2, <4>2
      <4>5. \E l \in t : \A j \in t : l >= j
        BY <3>1, <3>2, <4>3
      <4> QED
        BY <4>4, <4>5
    <3> QED
      BY <3>3, <3>4
  <2> QED
    BY <2>1, <2>2
<1>2. IsFiniteSet(s)
  <2>1. IsFiniteSet(1 .. n)
    BY FS_Interval
  <2> QED
    BY <2>1, FS_Subset
<1> HIDE DEF G
<1>3. s \in G
  BY <1>1, <1>2, SetInduction
<1>4. (\E k \in s : \A j \in s : k <= j) /\ (\E k \in s : \A j \in s : k >= j)
  BY <1>3 DEF G
<1> QED
  BY <1>4 DEF Min, Max
-----------------------------------------------------------------------------
(* The loops over the groups of a queue.                                   *)

Latest == [s \in SUBSET Nat |-> Max(s)]

LEMMA LastPicks ==
  ASSUME NEW n \in Nat
  PROVE  Picks(Latest, 1 .. n) /\ IsFiniteSet(1 .. n) /\ \A s \in SUBSET (1 .. n) : Latest[s] = Max(s)
<1>1. \A s \in SUBSET (1 .. n) : s # {} => Max(s) \in s
  BY LeastAndGreatest
<1>2. \A s \in SUBSET (1 .. n) : Latest[s] = Max(s)
  BY DEF Latest
<1>3. IsFiniteSet(1 .. n)
  BY FS_Interval
<1> QED
  BY <1>1, <1>2, <1>3 DEF Picks

Shrinking(g, groups, p) ==
  g = [s \in SUBSET DOMAIN groups |->
         IF s = {} THEN <<>>
         ELSE IF groups[Max(s)] = {p} THEN g[s \ {Max(s)}]
              ELSE Append(g[s \ {Max(s)}], groups[Max(s)] \ {p})]

LEMMA WithoutDef ==
  ASSUME NEW groups, NEW p
  PROVE  Without(groups, p) = (CHOOSE g : Shrinking(g, groups, p))[DOMAIN groups]
BY DEF Without, FoldLeft, MapThenFoldSet, Shrinking

\* What is left of the groups are groups without p, none of them empty.
LEMMA WithoutGroups ==
  ASSUME NEW groups \in Seq(SUBSET Players), {} \notin ToSet(groups), NEW p
  PROVE  /\ Without(groups, p) \in Seq((SUBSET Players) \ {{}})
         /\ \A h \in ToSet(Without(groups, p)) : \E g \in ToSet(groups) : h = g \ {p}
<1> DEFINE S == 1 .. Len(groups)
           Left == {g \ {p} : g \in ToSet(groups)} \ {{}}
           Kept == [s \in SUBSET S |-> Seq(Left)]
           H == [xv \in S \X Seq(Left) |->
                   IF groups[xv[1]] = {p} THEN xv[2] ELSE Append(xv[2], groups[xv[1]] \ {p})]
<1>1. DOMAIN groups = S /\ Len(groups) \in Nat
  OBVIOUS
<1>2. Picks(Latest, S) /\ IsFiniteSet(S) /\ \A s \in SUBSET S : Latest[s] = Max(s)
  BY <1>1, LastPicks
<1>3. ASSUME NEW i \in S, NEW v \in Seq(Left)
      PROVE  /\ H[<<i, v>>] = IF groups[i] = {p} THEN v ELSE Append(v, groups[i] \ {p})
             /\ H[<<i, v>>] \in Seq(Left)
  <2>1. H[<<i, v>>] = IF groups[i] = {p} THEN v ELSE Append(v, groups[i] \ {p})
    OBVIOUS
  <2>2. groups[i] \in ToSet(groups)
    BY <1>1 DEF ToSet
  <2>3. groups[i] # {p} => groups[i] \ {p} \in Left
    BY <2>2
  <2> HIDE DEF H, Left
  <2> QED
    BY <2>1, <2>3
<1>4. <<>> \in Seq(Left)
  OBVIOUS
<1> HIDE DEF H, Left
<1>5. \E g : Folds(g, S, <<>>, Latest, H) /\ KeptBy(g, S, Kept)
  <2>1. <<>> \in Kept[{}]
    BY <1>4
  <2>2. \A s \in SUBSET S :
          s # {} => \A v \in Kept[s \ {Latest[s]}] : H[<<Latest[s], v>>] \in Kept[s]
    BY <1>2, <1>3 DEF Picks
  <2> HIDE DEF Kept, S
  <2> QED
    BY <1>2, <2>1, <2>2, FoldsKept
<1>6. \E g : Shrinking(g, groups, p)
  <2>1. PICK g : Folds(g, S, <<>>, Latest, H) /\ KeptBy(g, S, Kept)
    BY <1>5
  <2>2. \A s \in SUBSET S : g[s] \in Seq(Left)
    BY <2>1 DEF KeptBy
  <2>3. ASSUME NEW s \in SUBSET S, s # {}
        PROVE  H[<<Latest[s], g[s \ {Latest[s]}]>>]
                 = IF groups[Max(s)] = {p} THEN g[s \ {Max(s)}]
                   ELSE Append(g[s \ {Max(s)}], groups[Max(s)] \ {p})
    <3>1. Max(s) \in S /\ Latest[s] = Max(s)
      BY <1>2, <2>3 DEF Picks
    <3>2. g[s \ {Max(s)}] \in Seq(Left)
      BY <2>2
    <3> HIDE DEF S, Kept
    <3> QED
      BY <1>3, <3>1, <3>2
  <2> HIDE DEF Kept, S, H
  <2>4. g = [s \in SUBSET S |-> IF s = {} THEN <<>> ELSE H[<<Latest[s], g[s \ {Latest[s]}]>>]]
    BY <2>1, Zenon DEF Folds
  <2>5. @ = [s \in SUBSET S |->
               IF s = {} THEN <<>>
               ELSE IF groups[Max(s)] = {p} THEN g[s \ {Max(s)}]
                    ELSE Append(g[s \ {Max(s)}], groups[Max(s)] \ {p})]
    BY <2>3
  <2> QED
    BY <1>1, <2>4, <2>5, Zenon DEF Shrinking
<1> DEFINE f == CHOOSE h : Shrinking(h, groups, p)
<1>7. Shrinking(f, groups, p)
  BY <1>6
<1> HIDE DEF f
<1>8. \A s \in SUBSET S :
        f[s] = IF s = {} THEN <<>>
               ELSE IF groups[Max(s)] = {p} THEN f[s \ {Max(s)}]
                    ELSE Append(f[s \ {Max(s)}], groups[Max(s)] \ {p})
  <2> DEFINE h == [s \in SUBSET S |->
                     IF s = {} THEN <<>>
                     ELSE IF groups[Max(s)] = {p} THEN f[s \ {Max(s)}]
                          ELSE Append(f[s \ {Max(s)}], groups[Max(s)] \ {p})]
  <2>1. f = h
    BY <1>1, <1>7, Zenon DEF Shrinking
  <2>2. \A s \in SUBSET S :
          h[s] = IF s = {} THEN <<>>
                 ELSE IF groups[Max(s)] = {p} THEN f[s \ {Max(s)}]
                      ELSE Append(f[s \ {Max(s)}], groups[Max(s)] \ {p})
    OBVIOUS
  <2> HIDE DEF h
  <2> QED
    BY <2>1, <2>2
<1>9. f[S] \in Seq(Left)
  <2>1. f[{}] \in Kept[{}]
    BY <1>4, <1>8
  <2>2. ASSUME NEW s \in SUBSET S, s # {}, f[s \ {Latest[s]}] \in Kept[s \ {Latest[s]}]
        PROVE  f[s] \in Kept[s]
    <3>1. Max(s) \in S /\ Latest[s] = Max(s)
      BY <1>2, <2>2 DEF Picks
    <3>2. f[s \ {Max(s)}] \in Seq(Left)
      BY <2>2, <3>1
    <3> QED
      BY <1>3, <1>8, <2>2, <3>1, <3>2
  <2>3. Kept[S] = Seq(Left)
    OBVIOUS
  <2> HIDE DEF Kept, S
  <2>4. KeptBy(f, S, Kept)
    BY <1>2, <2>1, <2>2, FoldsKeeps
  <2> QED
    BY <2>3, <2>4 DEF KeptBy
<1>10. Without(groups, p) = f[S]
  BY <1>1, WithoutDef DEF f
<1>11. Without(groups, p) \in Seq(Left)
  BY <1>9, <1>10
<1> HIDE DEF f, S, Kept
<1>12. \A h \in ToSet(Without(groups, p)) : h \in Left
  BY <1>11 DEF ToSet
<1>13. Left \subseteq (SUBSET Players) \ {{}}
  <2>1. \A h \in ToSet(groups) : h \in SUBSET Players
    BY DEF ToSet
  <2> QED
    BY <2>1 DEF Left
<1> QED
  BY <1>11, <1>12, <1>13 DEF Left
Selecting(g, st, pool, groups, desired, enough) ==
  g = [s \in SUBSET DOMAIN groups |->
         IF s = {} THEN pool
         ELSE AddGroup(st, g[s \ {Max(s)}], groups[Max(s)], desired, enough)]

LEMMA AddGroupsDef ==
  ASSUME NEW st, NEW pool, NEW groups, NEW desired, NEW enough
  PROVE  AddGroups(st, pool, groups, desired, enough)
           = (CHOOSE g : Selecting(g, st, pool, groups, desired, enough))[DOMAIN groups]
BY DEF AddGroups, FoldLeft, MapThenFoldSet, Selecting

\* A group that is added fits.
LEMMA AddGroupFits ==
  ASSUME NEW st, NEW sel \in SUBSET SUBSET Players, NEW h \in SUBSET Players,
         NEW n \in Nat, Count(sel) <= n, NEW desired \in Int, desired <= n, NEW enough
  PROVE  /\ AddGroup(st, sel, h, desired, enough) \subseteq sel \cup {h}
         /\ h \in AddGroup(st, sel, h, desired, enough) => h \in sel \/ IsWaiting(st, h)
         /\ Count(AddGroup(st, sel, h, desired, enough)) <= n
<1> DEFINE r == AddGroup(st, sel, h, desired, enough)
           u == UNION sel
<1>1. CASE r = sel
  BY <1>1
<1>2. CASE r # sel
  <2>1. /\ IsWaiting(st, h) /\ Count(sel) + Cardinality(h) <= desired
        /\ r = sel \cup {h}
    BY <1>2 DEF AddGroup
  <2>2. Count(sel) = Cardinality(u)
    BY DEF Count
  <2>3. Count(r) = Cardinality(u \cup h)
    <3>1. UNION (sel \cup {h}) = u \cup h
      OBVIOUS
    <3> HIDE DEF r, u
    <3> QED
      BY <2>1, <3>1 DEF Count
  <2>4. IsFiniteSet(u) /\ IsFiniteSet(h)
    <3>1. u \in SUBSET Players
      OBVIOUS
    <3> HIDE DEF u
    <3> QED
      BY <3>1, PlayersAssumption, FS_Subset
  <2> HIDE DEF u, r
  <2>5. Cardinality(u \cup h) = Cardinality(u) + Cardinality(h) - Cardinality(u \cap h)
    BY <2>4, FS_Union
  <2>6. IsFiniteSet(u \cap h)
    BY <2>4, FS_Intersection
  <2>7. Cardinality(u \cap h) \in Nat /\ Cardinality(h) \in Nat /\ Cardinality(u) \in Nat
    BY <2>4, <2>6, FS_CardinalityType
  <2>8. Count(r) <= n
    BY <2>1, <2>2, <2>3, <2>5, <2>7
  <2>9. r \subseteq sel \cup {h} /\ (h \in r => h \in sel \/ IsWaiting(st, h))
    BY <2>1
  <2> QED
    BY <2>8, <2>9 DEF r
<1> QED
  BY <1>1, <1>2

\* A selection pool holds what it held and groups that wait, and stays as small
\* as desired.
LEMMA AddGroupsPool ==
  ASSUME NEW st, NEW pool \in SUBSET SUBSET Players, NEW groups \in Seq(SUBSET Players),
         NEW n \in Nat, Count(pool) <= n, NEW desired \in Int, desired <= n, NEW enough
  PROVE  /\ AddGroups(st, pool, groups, desired, enough)
              \subseteq pool \cup {g \in ToSet(groups) : IsWaiting(st, g)}
         /\ Count(AddGroups(st, pool, groups, desired, enough)) <= n
<1> DEFINE S == 1 .. Len(groups)
           All == pool \cup {g \in ToSet(groups) : IsWaiting(st, g)}
           Good == {sel \in SUBSET All : Count(sel) <= n}
           Kept == [s \in SUBSET S |-> Good]
           H == [xv \in S \X Good |-> AddGroup(st, xv[2], groups[xv[1]], desired, enough)]
<1>1. DOMAIN groups = S /\ Len(groups) \in Nat
  OBVIOUS
<1>2. Picks(Latest, S) /\ IsFiniteSet(S) /\ \A s \in SUBSET S : Latest[s] = Max(s)
  BY <1>1, LastPicks
<1>3. ASSUME NEW i \in S, NEW v \in Good
      PROVE  /\ H[<<i, v>>] = AddGroup(st, v, groups[i], desired, enough)
             /\ H[<<i, v>>] \in Good
  <2> DEFINE r == AddGroup(st, v, groups[i], desired, enough)
  <2>1. H[<<i, v>>] = r
    OBVIOUS
  <2>2. groups[i] \in ToSet(groups)
    BY <1>1 DEF ToSet
  <2>3. \A h \in ToSet(groups) : h \in SUBSET Players
    BY DEF ToSet
  <2>4. v \in SUBSET SUBSET Players /\ v \in SUBSET All /\ Count(v) <= n
    BY <2>3
  <2>5. /\ r \subseteq v \cup {groups[i]}
        /\ groups[i] \in r => groups[i] \in v \/ IsWaiting(st, groups[i])
        /\ Count(r) <= n
    <3>1. groups[i] \in SUBSET Players
      BY <2>2, <2>3
    <3> QED
      BY <2>4, <3>1, AddGroupFits
  <2> HIDE DEF H, r
  <2>6. r \in Good
    BY <2>2, <2>4, <2>5
  <2> QED
    BY <2>1, <2>6 DEF r
<1>4. pool \in Good
  OBVIOUS
<1> HIDE DEF H, Good
<1>5. \E g : Folds(g, S, pool, Latest, H) /\ KeptBy(g, S, Kept)
  <2>1. pool \in Kept[{}]
    BY <1>4
  <2>2. \A s \in SUBSET S :
          s # {} => \A v \in Kept[s \ {Latest[s]}] : H[<<Latest[s], v>>] \in Kept[s]
    BY <1>2, <1>3 DEF Picks
  <2> HIDE DEF Kept, S
  <2> QED
    BY <1>2, <2>1, <2>2, FoldsKept
<1>6. \E g : Selecting(g, st, pool, groups, desired, enough)
  <2>1. PICK g : Folds(g, S, pool, Latest, H) /\ KeptBy(g, S, Kept)
    BY <1>5
  <2>2. \A s \in SUBSET S : g[s] \in Good
    BY <2>1 DEF KeptBy
  <2>3. ASSUME NEW s \in SUBSET S, s # {}
        PROVE  H[<<Latest[s], g[s \ {Latest[s]}]>>]
                 = AddGroup(st, g[s \ {Max(s)}], groups[Max(s)], desired, enough)
    <3>1. Max(s) \in S /\ Latest[s] = Max(s)
      BY <1>2, <2>3 DEF Picks
    <3>2. g[s \ {Max(s)}] \in Good
      BY <2>2
    <3> HIDE DEF S, Kept
    <3> QED
      BY <1>3, <3>1, <3>2
  <2> HIDE DEF Kept, S, H
  <2>4. g = [s \in SUBSET S |-> IF s = {} THEN pool ELSE H[<<Latest[s], g[s \ {Latest[s]}]>>]]
    BY <2>1, Zenon DEF Folds
  <2>5. @ = [s \in SUBSET S |->
               IF s = {} THEN pool
               ELSE AddGroup(st, g[s \ {Max(s)}], groups[Max(s)], desired, enough)]
    BY <2>3
  <2> QED
    BY <1>1, <2>4, <2>5, Zenon DEF Selecting
<1> DEFINE f == CHOOSE h : Selecting(h, st, pool, groups, desired, enough)
<1>7. Selecting(f, st, pool, groups, desired, enough)
  BY <1>6
<1> HIDE DEF f
<1>8. \A s \in SUBSET S :
        f[s] = IF s = {} THEN pool
               ELSE AddGroup(st, f[s \ {Max(s)}], groups[Max(s)], desired, enough)
  <2> DEFINE h == [s \in SUBSET S |->
                     IF s = {} THEN pool
                     ELSE AddGroup(st, f[s \ {Max(s)}], groups[Max(s)], desired, enough)]
  <2>1. f = h
    BY <1>1, <1>7, Zenon DEF Selecting
  <2>2. \A s \in SUBSET S :
          h[s] = IF s = {} THEN pool
                 ELSE AddGroup(st, f[s \ {Max(s)}], groups[Max(s)], desired, enough)
    OBVIOUS
  <2> HIDE DEF h
  <2> QED
    BY <2>1, <2>2
<1>9. f[S] \in Good
  <2>1. f[{}] \in Kept[{}]
    BY <1>4, <1>8
  <2>2. ASSUME NEW s \in SUBSET S, s # {}, f[s \ {Latest[s]}] \in Kept[s \ {Latest[s]}]
        PROVE  f[s] \in Kept[s]
    <3>1. Max(s) \in S /\ Latest[s] = Max(s)
      BY <1>2, <2>2 DEF Picks
    <3>2. f[s \ {Max(s)}] \in Good
      BY <2>2, <3>1
    <3> QED
      BY <1>3, <1>8, <2>2, <3>1, <3>2
  <2>3. Kept[S] = Good
    OBVIOUS
  <2> HIDE DEF Kept, S
  <2>4. KeptBy(f, S, Kept)
    BY <1>2, <2>1, <2>2, FoldsKeeps
  <2> QED
    BY <2>3, <2>4 DEF KeptBy
<1>10. AddGroups(st, pool, groups, desired, enough) = f[S]
  BY <1>1, AddGroupsDef DEF f
<1> QED
  BY <1>9, <1>10 DEF Good
-----------------------------------------------------------------------------
(* What one player does: the state st of the queue and the value o of      *)
(* online become r and q.                                                  *)

Others(p, st, o, r, q) ==
  \A x \in Players \ {p} :
    /\ r.info[x] = st.info[x] /\ r.qid[x] = st.qid[x] /\ r.bgOf[x] = st.bgOf[x]
    /\ q[x] = o[x]
    /\ \A b \in Ids : x \in r.bgs[b].players <=> x \in st.bgs[b].players

\* p is not expected more often than he was, and no more once he is uncounted.
Uncounted(p, st, o, r, q) ==
  \A b \in Ids, t \in Teams :
    /\ p \in Comers(r, q, b, t) => p \in Comers(st, o, b, t)
    /\ r.bgs[b].invited[t] =
         IF p \in Comers(st, o, b, t) /\ p \notin Comers(r, q, b, t)
         THEN st.bgs[b].invited[t] - 1 ELSE st.bgs[b].invited[t]

\* The groups after p may have left his.
GroupsLeft(p, st, r) ==
  \A t \in Teams : \A h \in GroupsOf(r, t) : \E g \in GroupsOf(st, t) :
    h = IF r.info[p] = st.info[p] THEN g ELSE g \ {p}

LEMMA TeamSets ==
  ASSUME NEW ps \in SUBSET Players, NEW t \in Teams
  PROVE  /\ Of(ps, t) \subseteq ps /\ Of(ps, t) \subseteq Of(Players, t)
         /\ IsFiniteSet(ps) /\ IsFiniteSet(Of(ps, t))
         /\ Cardinality(Of(ps, t)) \in Nat /\ Cardinality(ps) \in Nat
<1>1. Of(ps, t) \subseteq ps /\ Of(ps, t) \subseteq Of(Players, t)
  BY DEF Of
<1>2. IsFiniteSet(ps)
  BY PlayersAssumption, FS_Subset
<1>3. IsFiniteSet(Of(ps, t))
  BY <1>1, <1>2, FS_Subset
<1> QED
  BY <1>1, <1>2, <1>3, FS_CardinalityType

LEMMA ComersFinite ==
  ASSUME NEW st, NEW o, NEW b, NEW t \in Teams
  PROVE  /\ Comers(st, o, b, t) \subseteq Of(Players, t)
         /\ IsFiniteSet(Comers(st, o, b, t)) /\ Cardinality(Comers(st, o, b, t)) \in Nat
<1>1. Comers(st, o, b, t) \subseteq Of(Players, t)
  BY DEF Comers
<1>2. IsFiniteSet(Comers(st, o, b, t))
  BY <1>1, TeamSets, FS_Subset
<1> QED
  BY <1>1, <1>2, FS_CardinalityType

LEMMA OneCounts ==
  ASSUME NEW st, NEW o, NEW r, NEW q, NEW p \in Players,
         CountsSound(st, o), Others(p, st, o, r, q), Uncounted(p, st, o, r, q)
  PROVE  CountsSound(r, q)
<1> SUFFICES ASSUME NEW b \in Ids, NEW t \in Teams
             PROVE  /\ r.bgs[b].invited[t] = Cardinality(Comers(r, q, b, t))
                    /\ r.bgs[b].invited[t] <= MaxPlayersPerTeam
  BY DEF CountsSound
<1> DEFINE A == Comers(st, o, b, t)
           B == Comers(r, q, b, t)
<1>1. \A x \in Players \ {p} : x \in A <=> x \in B
  BY DEF Others, Comers, Of
<1>2. p \in B => p \in A
  BY DEF Uncounted
<1>3. A \subseteq Players /\ B \subseteq Players /\ IsFiniteSet(A) /\ Cardinality(A) \in Nat
  BY ComersFinite DEF Of
<1>4. st.bgs[b].invited[t] = Cardinality(A) /\ Cardinality(A) <= MaxPlayersPerTeam
  BY DEF CountsSound
<1>5. r.bgs[b].invited[t] = IF p \in A /\ p \notin B THEN Cardinality(A) - 1 ELSE Cardinality(A)
  BY <1>4 DEF Uncounted
<1> HIDE DEF A, B
<1>6. CASE p \in A /\ p \notin B
  <2>1. B = A \ {p}
    BY <1>1, <1>3, <1>6
  <2>2. Cardinality(B) = Cardinality(A) - 1
    BY <1>3, <1>6, <2>1, FS_RemoveElement
  <2>3. MaxPlayersPerTeam \in Nat
    BY SizeAssumption
  <2> QED
    BY <1>3, <1>4, <1>5, <1>6, <2>2, <2>3 DEF B
<1>7. CASE ~ (p \in A /\ p \notin B)
  <2>1. B = A
    BY <1>1, <1>2, <1>3, <1>7
  <2> QED
    BY <1>4, <1>5, <1>7, <2>1 DEF B
<1> QED
  BY <1>6, <1>7

LEMMA OneGroups ==
  ASSUME NEW st, NEW o, NEW r, NEW q, NEW p \in Players,
         GroupsSound(st), Others(p, st, o, r, q), GroupsLeft(p, st, r)
  PROVE  GroupsSound(r)
<1> SUFFICES ASSUME NEW t \in Teams, NEW h \in GroupsOf(r, t)
             PROVE  /\ h \subseteq Of(Players, t) /\ Cardinality(h) <= MaxPlayersPerTeam
                    /\ \A x \in h : InQueue(r, x)
                    /\ \A x, y \in h : r.info[x].invited = r.info[y].invited
                    /\ \A k \in GroupsOf(r, t) : h = k \/ h \cap k = {}
  BY DEF GroupsSound
<1>1. PICK g \in GroupsOf(st, t) : h = IF r.info[p] = st.info[p] THEN g ELSE g \ {p}
  BY DEF GroupsLeft
<1>2. /\ g \subseteq Of(Players, t) /\ Cardinality(g) <= MaxPlayersPerTeam
      /\ \A x \in g : InQueue(st, x)
      /\ \A x, y \in g : st.info[x].invited = st.info[y].invited
      /\ \A k \in GroupsOf(st, t) : g = k \/ g \cap k = {}
  BY DEF GroupsSound
<1>3. h \subseteq g /\ \A x \in h : r.info[x] = st.info[x] /\ x \in g
  BY <1>1, <1>2 DEF Others, Of
<1>4. Cardinality(h) <= MaxPlayersPerTeam
  <2>1. g \subseteq Players /\ h \subseteq Players
    BY <1>2, <1>3 DEF Of
  <2>2. IsFiniteSet(g) /\ Cardinality(g) \in Nat /\ Cardinality(h) \in Nat
    BY <2>1, TeamSets DEF Teams
  <2>3. Cardinality(h) <= Cardinality(g)
    BY <1>3, <2>2, FS_Subset
  <2> QED
    BY <1>2, <2>2, <2>3, SizeAssumption
<1>5. ASSUME NEW k \in GroupsOf(r, t) PROVE h = k \/ h \cap k = {}
  <2>1. PICK j \in GroupsOf(st, t) : k = IF r.info[p] = st.info[p] THEN j ELSE j \ {p}
    BY DEF GroupsLeft
  <2>2. g = j \/ g \cap j = {}
    BY <1>2
  <2> QED
    BY <1>1, <2>1, <2>2
<1>6. \A x \in h : InQueue(r, x)
  BY <1>2, <1>3 DEF InQueue
<1>7. \A x, y \in h : r.info[x].invited = r.info[y].invited
  BY <1>2, <1>3
<1> QED
  BY <1>2, <1>3, <1>4, <1>5, <1>6, <1>7

LEMMA OneSound ==
  ASSUME NEW st, NEW o, NEW r, NEW q, NEW p \in Players, Sound(st, o), r \in States,
         Others(p, st, o, r, q), Uncounted(p, st, o, r, q), GroupsLeft(p, st, r),
         PlayerSound(r, q, p), DeletedSound(r),
         r.info[p] \in {st.info[p], NotInQueue}, st.events \subseteq r.events
  PROVE  Sound(r, q)
<1>1. GroupsSound(r)
  BY OneGroups DEF Sound
<1>2. CountsSound(r, q)
  BY OneCounts DEF Sound
<1>3. PlayersSound(r, q)
  <2> SUFFICES ASSUME NEW x \in Players \ {p} PROVE PlayerSound(r, q, x)
    BY DEF PlayersSound
  <2>1. PlayerSound(st, o, x)
    BY DEF Sound, PlayersSound
  <2> QED
    BY <2>1 DEF PlayerSound, Others, InQueue
<1>4. EventsSound(r)
  <2> SUFFICES ASSUME NEW x \in Players, r.info[x].invited \in Ids
               PROVE  /\ r.info[x].left >= 1
                      /\ [player |-> x, bg |-> r.info[x].invited, left |-> r.info[x].left]
                           \in r.events
    BY DEF EventsSound
  <2>1. NotInQueue.invited \notin Ids
    BY BoundAssumption DEF NotInQueue, NotQueued, Ids
  <2>2. r.info[x] = st.info[x]
    BY <2>1 DEF Others
  <2> QED
    BY <2>2 DEF Sound, EventsSound
<1> QED
  BY <1>1, <1>2, <1>3, <1>4 DEF Sound

\* Nobody moves: only the status of battlegrounds and the free slots change.
LEMMA NobodySound ==
  ASSUME NEW st, NEW o, NEW r, Sound(st, o), r \in States,
         r.queue = st.queue, r.info = st.info, r.qid = st.qid, r.bgOf = st.bgOf,
         r.events = st.events, DeletedSound(r),
         \A b \in Ids : /\ r.bgs[b].players = st.bgs[b].players
                        /\ \A t \in Teams : r.bgs[b].invited[t] = st.bgs[b].invited[t]
  PROVE  Sound(r, o)
<1>1. GroupsSound(r)
  BY DEF Sound, GroupsSound, GroupsOf, InQueue
<1>2. CountsSound(r, o)
  <2> SUFFICES ASSUME NEW b \in Ids, NEW t \in Teams
               PROVE  Comers(r, o, b, t) = Comers(st, o, b, t)
    BY DEF Sound, CountsSound
  <2> QED
    BY DEF Comers
<1>3. PlayersSound(r, o)
  BY DEF Sound, PlayersSound, PlayerSound, InQueue
<1>4. EventsSound(r)
  BY DEF Sound, EventsSound
<1> QED
  BY <1>1, <1>2, <1>3, <1>4 DEF Sound
-----------------------------------------------------------------------------
(* The functions that one player's steps call.                             *)

LEMMA InvitedOf ==
  ASSUME NEW st \in States, NEW p \in Players
  PROVE  /\ st.info[p] \in GroupQueueInfo /\ TeamOf[p] \in Teams
         /\ InQueue(st, p) => st.info[p].invited \in Ids \cup {NoBg}
         /\ st.info[p].invited \in Ids \cup {NoBg, NotQueued}
BY PlayersAssumption DEF States, GroupQueueInfo, InQueue

LEMMA QueueParts ==
  ASSUME NEW st \in States, NEW k \in Kinds, NEW t \in Teams
  PROVE  /\ st.queue[k][t] \in Seq(SUBSET Players) /\ {} \notin ToSet(st.queue[k][t])
         /\ st.queue[k][t] \in Seq((SUBSET Players) \ {{}})
         /\ ToSet(st.queue[k][t]) \subseteq SUBSET Players
<1>1. st.queue \in [Kinds -> [Teams -> Seq((SUBSET Players) \ {{}})]]
  BY DEF States
<1>2. st.queue[k] \in [Teams -> Seq((SUBSET Players) \ {{}})]
  BY <1>1
<1>3. st.queue[k][t] \in Seq((SUBSET Players) \ {{}})
  BY <1>2
<1> DEFINE groups == st.queue[k][t]
<1> HIDE DEF groups
<1>4. groups \in Seq((SUBSET Players) \ {{}})
  BY <1>3 DEF groups
<1>5. groups \in Seq(SUBSET Players)
  BY <1>4
<1>6. \A g \in ToSet(groups) : g \in (SUBSET Players) \ {{}}
  BY <1>4 DEF ToSet
<1> QED
  BY <1>4, <1>5, <1>6 DEF groups

LEMMA RemovePlayerQueue ==
  ASSUME NEW st \in States, GroupsSound(st), NEW p \in Players, InQueue(st, p), NEW dec
  PROVE  /\ RemovePlayer(st, p, dec).queue \in [Kinds -> [Teams -> Seq((SUBSET Players) \ {{}})]]
         /\ \A t \in Teams : \A h \in GroupsOf(RemovePlayer(st, p, dec), t) :
              \E g \in GroupsOf(st, t) : h = g \ {p}
<1> DEFINE t0 == TeamOf[p]
           pre == Without(st.queue["premade"][t0], p)
           nor == Without(st.queue["normal"][t0], p)
           Q == RemovePlayer(st, p, dec).queue
<1>1. t0 \in Teams
  BY InvitedOf
<1>2. st.queue \in [Kinds -> [Teams -> Seq((SUBSET Players) \ {{}})]]
  BY DEF States
<1>3. /\ pre \in Seq((SUBSET Players) \ {{}}) /\ nor \in Seq((SUBSET Players) \ {{}})
      /\ \A h \in ToSet(pre) : \E g \in ToSet(st.queue["premade"][t0]) : h = g \ {p}
      /\ \A h \in ToSet(nor) : \E g \in ToSet(st.queue["normal"][t0]) : h = g \ {p}
  <2>1. ASSUME NEW k \in Kinds
        PROVE  /\ Without(st.queue[k][t0], p) \in Seq((SUBSET Players) \ {{}})
               /\ \A h \in ToSet(Without(st.queue[k][t0], p)) :
                    \E g \in ToSet(st.queue[k][t0]) : h = g \ {p}
    <3> DEFINE groups == st.queue[k][t0]
    <3>1. groups \in Seq(SUBSET Players) /\ {} \notin ToSet(groups)
      BY <1>1, QueueParts
    <3> HIDE DEF groups
    <3>2. /\ Without(groups, p) \in Seq((SUBSET Players) \ {{}})
          /\ \A h \in ToSet(Without(groups, p)) : \E g \in ToSet(groups) : h = g \ {p}
      BY <3>1, WithoutGroups
    <3> QED
      BY <3>2 DEF groups
  <2> QED
    BY <2>1 DEF Kinds
<1>4. Q = [st.queue EXCEPT !["premade"][t0] = pre, !["normal"][t0] = nor]
  BY DEF RemovePlayer, States
<1> HIDE DEF pre, nor, Q
<1>5. Q \in [Kinds -> [Teams -> Seq((SUBSET Players) \ {{}})]]
  BY <1>1, <1>2, <1>3, <1>4 DEF Kinds
<1>6. /\ Q["premade"][t0] = pre /\ Q["normal"][t0] = nor
      /\ \A t \in Teams \ {t0} : /\ Q["premade"][t] = st.queue["premade"][t]
                                 /\ Q["normal"][t] = st.queue["normal"][t]
  BY <1>1, <1>2, <1>3, <1>4 DEF Kinds
<1>7. ASSUME NEW t \in Teams, NEW h \in ToSet(Q["premade"][t]) \cup ToSet(Q["normal"][t])
      PROVE  \E g \in GroupsOf(st, t) : h = g \ {p}
  <2>1. CASE t = t0
    BY <1>3, <1>6, <1>7, <2>1 DEF GroupsOf
  <2>2. CASE t # t0
    <3>1. h \in GroupsOf(st, t)
      BY <1>6, <1>7, <2>2 DEF GroupsOf
    <3>2. h \subseteq Of(Players, t)
      BY <3>1 DEF GroupsSound
    <3>3. h = h \ {p}
      BY <2>2, <3>2 DEF Of
    <3> QED
      BY <3>1, <3>3
  <2> QED
    BY <2>1, <2>2
<1> QED
  BY <1>5, <1>7 DEF GroupsOf, Q

\* r is st after p was taken out of the queue.
Removed(r, st, p, dec) ==
  LET b == st.info[p].invited
  IN /\ r \in States
     /\ r.info = [st.info EXCEPT ![p] = NotInQueue]
     /\ r.bgs = IF dec /\ Alive(st, b)
                THEN [st.bgs EXCEPT ![b] = DecreaseInvitedCount(@, TeamOf[p])] ELSE st.bgs
     /\ r.free = st.free /\ r.events = st.events /\ r.scheduled = st.scheduled
     /\ r.qid = st.qid /\ r.bgOf = st.bgOf
     /\ \A t \in Teams : \A h \in GroupsOf(r, t) : \E g \in GroupsOf(st, t) : h = g \ {p}

LEMMA RemovePlayerDoes ==
  ASSUME NEW st \in States, GroupsSound(st), NEW p \in Players, InQueue(st, p),
         NEW dec \in BOOLEAN,
         dec /\ Alive(st, st.info[p].invited) =>
           st.bgs[st.info[p].invited].invited[TeamOf[p]] >= 1
  PROVE  Removed(RemovePlayer(st, p, dec), st, p, dec)
<1> DEFINE r == RemovePlayer(st, p, dec)
           b == st.info[p].invited
           counts == IF dec /\ Alive(st, b)
                     THEN [st.bgs EXCEPT ![b] = DecreaseInvitedCount(@, TeamOf[p])] ELSE st.bgs
<1>1. /\ r.info = [st.info EXCEPT ![p] = NotInQueue]
      /\ r.bgs = counts
      /\ r.free = st.free /\ r.events = st.events /\ r.scheduled = st.scheduled
      /\ r.qid = st.qid /\ r.bgOf = st.bgOf
      /\ r = [queue |-> r.queue, info |-> r.info, bgs |-> r.bgs, free |-> r.free,
              events |-> r.events, scheduled |-> r.scheduled, qid |-> r.qid, bgOf |-> r.bgOf]
  <2>1. r = [st EXCEPT !.queue["premade"][TeamOf[p]] = Without(@, p),
                       !.queue["normal"][TeamOf[p]] = Without(@, p),
                       !.info[p] = NotInQueue,
                       !.bgs = counts]
    BY Zenon DEF RemovePlayer
  <2> HIDE DEF r, counts
  <2>2. st = [queue |-> st.queue, info |-> st.info, bgs |-> st.bgs, free |-> st.free,
              events |-> st.events, scheduled |-> st.scheduled, qid |-> st.qid, bgOf |-> st.bgOf]
    BY DEF States
  <2>3. r.info = [st.info EXCEPT ![p] = NotInQueue]
    BY <2>1, <2>2
  <2>4. r.bgs = counts
    BY <2>1, <2>2
  <2>5. /\ r.free = st.free /\ r.events = st.events /\ r.scheduled = st.scheduled
        /\ r.qid = st.qid /\ r.bgOf = st.bgOf
    BY <2>1, <2>2
  <2>6. r = [queue |-> r.queue, info |-> r.info, bgs |-> r.bgs, free |-> r.free,
             events |-> r.events, scheduled |-> r.scheduled, qid |-> r.qid, bgOf |-> r.bgOf]
    BY <2>1, <2>2
  <2> QED
    BY <2>3, <2>4, <2>5, <2>6
<1>2. /\ r.queue \in [Kinds -> [Teams -> Seq((SUBSET Players) \ {{}})]]
      /\ \A t \in Teams : \A h \in GroupsOf(r, t) : \E g \in GroupsOf(st, t) : h = g \ {p}
  <2>1. r.queue \in [Kinds -> [Teams -> Seq((SUBSET Players) \ {{}})]]
    BY RemovePlayerQueue
  <2>2. \A t \in Teams : \A h \in GroupsOf(r, t) : \E g \in GroupsOf(st, t) : h = g \ {p}
    BY RemovePlayerQueue
  <2> QED
    BY <2>1, <2>2
<1>3. r.info \in [Players -> GroupQueueInfo]
  <2>1. NotInQueue \in GroupQueueInfo
    BY BoundAssumption DEF NotInQueue, GroupQueueInfo
  <2> QED
    BY <1>1, <2>1 DEF States
<1>4. r.bgs \in [Ids -> Battleground]
  <2>1. CASE dec /\ Alive(st, b)
    <3>1. b \in Ids /\ TeamOf[p] \in Teams
      BY <2>1, InvitedOf DEF Alive
    <3>2. st.bgs \in [Ids -> Battleground]
      BY DEF States
    <3>3. st.bgs[b].invited[TeamOf[p]] - 1 \in Nat
      BY <2>1, <3>1, <3>2 DEF Battleground
    <3>4. DecreaseInvitedCount(st.bgs[b], TeamOf[p]) \in Battleground
      BY <3>1, <3>2, <3>3 DEF Battleground, DecreaseInvitedCount
    <3> QED
      BY <1>1, <2>1, <3>1, <3>2, <3>4
  <2>2. CASE ~ (dec /\ Alive(st, b))
    BY <1>1, <2>2 DEF States
  <2> QED
    BY <2>1, <2>2
<1> HIDE DEF r, b
<1>5. r \in States
  BY <1>1, <1>2, <1>3, <1>4 DEF States
<1> QED
  BY <1>1, <1>2, <1>5, Zenon DEF r, b, Removed
LEMMA DecreaseDoes ==
  ASSUME NEW bg \in Battleground, NEW u \in Teams
  PROVE  /\ DecreaseInvitedCount(bg, u).status = bg.status
         /\ DecreaseInvitedCount(bg, u).players = bg.players
         /\ DecreaseInvitedCount(bg, u).offline = bg.offline
         /\ \A t \in Teams : DecreaseInvitedCount(bg, u).invited[t] =
                              IF t = u THEN bg.invited[t] - 1 ELSE bg.invited[t]
         /\ bg.invited[u] >= 1 =>
              /\ DecreaseInvitedCount(bg, u) \in Battleground
              /\ \A ps \in SUBSET Players :
                   [DecreaseInvitedCount(bg, u) EXCEPT !.players = ps] \in Battleground
         /\ \A ps \in SUBSET Players :
              LET d == [DecreaseInvitedCount(bg, u) EXCEPT !.players = ps]
              IN /\ d.status = bg.status /\ d.players = ps /\ d.offline = bg.offline
                 /\ d.invited = DecreaseInvitedCount(bg, u).invited
<1> DEFINE d == DecreaseInvitedCount(bg, u)
<1>1. bg.invited \in [Teams -> Nat]
  BY DEF Battleground
<1>2. /\ d.status = bg.status /\ d.players = bg.players /\ d.offline = bg.offline
      /\ d.invited = [bg.invited EXCEPT ![u] = @ - 1]
      /\ d = [status |-> d.status, invited |-> d.invited, players |-> d.players, offline |-> d.offline]
  <2>1. bg = [status |-> bg.status, invited |-> bg.invited, players |-> bg.players,
              offline |-> bg.offline]
    BY DEF Battleground
  <2>2. d = [bg EXCEPT !.invited[u] = @ - 1]
    BY DEF DecreaseInvitedCount
  <2> HIDE DEF d
  <2>3. d.status = bg.status /\ d.players = bg.players /\ d.offline = bg.offline
    BY <2>1, <2>2
  <2>4. d.invited = [bg.invited EXCEPT ![u] = @ - 1]
    BY <2>1, <2>2
  <2>5. d = [status |-> d.status, invited |-> d.invited, players |-> d.players, offline |-> d.offline]
    BY <2>1, <2>2
  <2> QED
    BY <2>3, <2>4, <2>5
<1>3. \A t \in Teams : d.invited[t] = IF t = u THEN bg.invited[t] - 1 ELSE bg.invited[t]
  BY <1>1, <1>2
<1>4. bg.invited[u] >= 1 => d.invited \in [Teams -> Nat]
  BY <1>1, <1>2
<1> HIDE DEF d
<1>5. bg.invited[u] >= 1 => d \in Battleground
  BY <1>2, <1>4 DEF Battleground
<1>6. ASSUME NEW ps \in SUBSET Players
      PROVE  /\ bg.invited[u] >= 1 => [d EXCEPT !.players = ps] \in Battleground
             /\ [d EXCEPT !.players = ps].status = bg.status
             /\ [d EXCEPT !.players = ps].players = ps
             /\ [d EXCEPT !.players = ps].offline = bg.offline
             /\ [d EXCEPT !.players = ps].invited = d.invited
  BY <1>2, <1>5 DEF Battleground
<1> QED
  BY <1>2, <1>3, <1>5, <1>6 DEF d

LEMMA Counted ==
  ASSUME NEW st, NEW o, Sound(st, o), NEW b \in Ids, NEW t \in Teams,
         NEW p \in Comers(st, o, b, t)
  PROVE  st.bgs[b].invited[t] >= 1 /\ Alive(st, b)
<1> DEFINE A == Comers(st, o, b, t)
<1>1. st.bgs[b].invited[t] = Cardinality(A)
  BY DEF Sound, CountsSound
<1>2. IsFiniteSet(A) /\ Cardinality(A) \in Nat /\ A # {}
  BY ComersFinite
<1> HIDE DEF A
<1>3. Cardinality(A) >= 1
  BY <1>2, FS_EmptySet
<1>4. st.bgs[b].status # "none"
  <2>1. NoBattleground.invited[t] = 0
    BY DEF NoBattleground
  <2> QED
    BY <1>1, <1>3, <2>1 DEF Sound, DeletedSound
<1> QED
  BY <1>1, <1>3, <1>4 DEF Alive, Ids, NoBg

\* A player leaves the queue and the count of the battleground he was invited to.
LEMMA WithdrawSound ==
  ASSUME NEW st, NEW o \in Onlines, NEW r \in States, NEW q \in Onlines, NEW p \in Players,
         Sound(st, o), InQueue(st, p),
         \A x \in Players \ {p} : q[x] = o[x] /\ r.qid[x] = st.qid[x],
         q[p] # "transit",
         r.info = [st.info EXCEPT ![p] = NotInQueue],
         r.bgs = IF Alive(st, st.info[p].invited)
                 THEN [st.bgs EXCEPT ![st.info[p].invited] = DecreaseInvitedCount(@, TeamOf[p])]
                 ELSE st.bgs,
         r.events = st.events, r.bgOf = st.bgOf,
         \A t \in Teams : \A h \in GroupsOf(r, t) : \E g \in GroupsOf(st, t) : h = g \ {p}
  PROVE  Sound(r, q)
<1> DEFINE i == st.info[p].invited
           t0 == TeamOf[p]
<1>1. /\ st \in States /\ t0 \in Teams /\ i \in Ids \cup {NoBg} /\ i # NotQueued
      /\ st.bgs \in [Ids -> Battleground] /\ st.info \in [Players -> GroupQueueInfo]
  BY InvitedOf DEF Sound, InQueue, States
<1>2. PlayerSound(st, o, p)
  BY DEF Sound, PlayersSound
<1>3. /\ o[p] = "world" /\ \A b \in Ids : p \notin st.bgs[b].players
  BY <1>2 DEF PlayerSound, Ids, NoBg
<1>4. \A b \in Ids, t \in Teams : p \in Comers(st, o, b, t) <=> b = i /\ t = t0
  BY <1>1, <1>3 DEF Comers, Of
<1>5. i \in Ids => Alive(st, i) /\ st.bgs[i].invited[t0] >= 1
  BY <1>1, <1>4, Counted
<1>6. r.bgs = IF i \in Ids THEN [st.bgs EXCEPT ![i] = DecreaseInvitedCount(@, t0)] ELSE st.bgs
  BY <1>1, <1>5 DEF Alive, Ids, NoBg
<1>7. /\ \A b \in Ids : r.bgs[b].players = st.bgs[b].players /\ r.bgs[b].status = st.bgs[b].status
      /\ \A b \in Ids : b # i => r.bgs[b] = st.bgs[b]
      /\ \A b \in Ids, t \in Teams :
           r.bgs[b].invited[t] = IF b = i /\ t = t0 THEN st.bgs[b].invited[t] - 1
                                 ELSE st.bgs[b].invited[t]
  <2>1. CASE i \in Ids
    <3> DEFINE d == DecreaseInvitedCount(st.bgs[i], t0)
    <3>1. /\ d.status = st.bgs[i].status /\ d.players = st.bgs[i].players
          /\ \A t \in Teams : d.invited[t] = IF t = t0 THEN st.bgs[i].invited[t] - 1
                                            ELSE st.bgs[i].invited[t]
      BY <1>1, <2>1, DecreaseDoes
    <3> HIDE DEF d
    <3>2. r.bgs = [st.bgs EXCEPT ![i] = d]
      BY <1>6, <2>1 DEF d
    <3>3. r.bgs[i] = d /\ \A b \in Ids : b # i => r.bgs[b] = st.bgs[b]
      BY <1>1, <2>1, <3>2
    <3> QED
      BY <3>1, <3>3
  <2>2. CASE i \notin Ids
    BY <1>6, <2>2
  <2> QED
    BY <2>1, <2>2
<1>8. r.info[p] = NotInQueue /\ \A x \in Players \ {p} : r.info[x] = st.info[x]
  BY <1>1
<1>9. NotInQueue.invited = NotQueued /\ NotQueued \notin Ids /\ st.info[p] # NotInQueue
  BY <1>1 DEF NotInQueue, NotQueued, Ids
<1>10. Others(p, st, o, r, q)
  BY <1>7, <1>8 DEF Others
<1>11. \A b \in Ids, t \in Teams : p \notin Comers(r, q, b, t)
  BY <1>3, <1>7, <1>8, <1>9 DEF Comers
<1>12. Uncounted(p, st, o, r, q)
  BY <1>4, <1>7, <1>11 DEF Uncounted
<1>13. GroupsLeft(p, st, r)
  BY <1>8, <1>9 DEF GroupsLeft
<1>14. PlayerSound(r, q, p)
  BY <1>3, <1>7, <1>8, <1>9 DEF PlayerSound, InQueue
<1> HIDE DEF i, t0
<1>15. DeletedSound(r)
  BY <1>5, <1>7 DEF DeletedSound, Alive, Sound

<1> QED
  BY <1>8, <1>10, <1>12, <1>13, <1>14, <1>15, OneSound

LEMMA RemoveCondition ==
  ASSUME NEW st, NEW o \in Onlines, NEW p \in Players, Sound(st, o), InQueue(st, p),
         Alive(st, st.info[p].invited)
  PROVE  st.bgs[st.info[p].invited].invited[TeamOf[p]] >= 1
<1> DEFINE i == st.info[p].invited
<1>1. i \in Ids /\ TeamOf[p] \in Teams
  BY InvitedOf DEF Sound, Alive
<1>2. p \in Comers(st, o, i, TeamOf[p])
  BY DEF Comers, Of
<1> QED
  BY <1>1, <1>2, Counted

\* A participant leaves the battleground.
LEMMA LeaveDoes ==
  ASSUME NEW st \in States, NEW p \in Players, NEW b \in Ids, NEW connected \in BOOLEAN,
         st.bgs[b].invited[TeamOf[p]] >= 1
  PROVE  LET r == RemovePlayerAtLeave(st, p, b, connected)
         IN /\ r \in States
            /\ r.queue = st.queue /\ r.info = st.info /\ r.events = st.events
            /\ r.bgs = [st.bgs EXCEPT ![b] = [DecreaseInvitedCount(st.bgs[b], TeamOf[p])
                                                EXCEPT !.players = st.bgs[b].players \ {p}]]
            /\ r.qid = IF connected THEN [st.qid EXCEPT ![p] = NotQueued] ELSE st.qid
            /\ r.bgOf = IF connected THEN [st.bgOf EXCEPT ![p] = NoBg] ELSE st.bgOf
<1> DEFINE r == RemovePlayerAtLeave(st, p, b, connected)
           bs == [st.bgs EXCEPT ![b] = [DecreaseInvitedCount(st.bgs[b], TeamOf[p])
                                                EXCEPT !.players = st.bgs[b].players \ {p}]]
           qs == IF connected THEN [st.qid EXCEPT ![p] = NotQueued] ELSE st.qid
           ms == IF connected THEN [st.bgOf EXCEPT ![p] = NoBg] ELSE st.bgOf
           left == [st EXCEPT !.bgs = bs, !.qid = qs, !.bgOf = ms]
<1>1. TeamOf[p] \in Teams /\ st.bgs \in [Ids -> Battleground]
  BY PlayersAssumption DEF States
<1>2. bs \in [Ids -> Battleground]
  <2> DEFINE d == [DecreaseInvitedCount(st.bgs[b], TeamOf[p]) EXCEPT !.players = st.bgs[b].players \ {p}]
  <2>1. st.bgs[b].players \ {p} \in SUBSET Players
    BY <1>1 DEF Battleground
  <2>2. d \in Battleground
    BY <1>1, <2>1, DecreaseDoes
  <2>3. bs = [st.bgs EXCEPT ![b] = d]
    OBVIOUS
  <2> HIDE DEF d, bs
  <2> QED
    BY <1>1, <2>2, <2>3
<1>3. qs \in [Players -> Ids \cup {NoBg, NotQueued}] /\ ms \in [Players -> Ids \cup {NoBg}]
  BY DEF States
<1>4. r = IF st.bgs[b].status = "leave" THEN left
          ELSE [AddToBGFreeSlotQueue(left, b) EXCEPT !.scheduled = TRUE]
  BY DEF RemovePlayerAtLeave, States
<1> HIDE DEF bs, qs, ms, r
<1>5. left \in States
  BY <1>2, <1>3 DEF States
<1>6. /\ left.queue = st.queue /\ left.info = st.info /\ left.events = st.events
      /\ left.bgs = bs /\ left.qid = qs /\ left.bgOf = ms
  BY DEF States
<1> HIDE DEF left
<1>7. AddToBGFreeSlotQueue(left, b) \in {left, [left EXCEPT !.free = <<b>> \o @]}
  BY DEF AddToBGFreeSlotQueue
<1>8. <<b>> \o left.free \in Seq(Ids)
  BY <1>5 DEF States
<1>9. /\ r \in States
      /\ r.queue = left.queue /\ r.info = left.info /\ r.events = left.events
      /\ r.bgs = left.bgs /\ r.qid = left.qid /\ r.bgOf = left.bgOf
  <2>1. CASE r = left
    BY <1>5, <2>1
  <2>2. CASE r = [left EXCEPT !.scheduled = TRUE]
    BY <1>5, <2>2 DEF States
  <2>3. CASE r = [[left EXCEPT !.free = <<b>> \o @] EXCEPT !.scheduled = TRUE]
    BY <1>5, <1>8, <2>3 DEF States
  <2> QED
    BY <1>4, <1>7, <2>1, <2>2, <2>3
<1> QED
  BY <1>6, <1>9 DEF r, bs, qs, ms

LEMMA LeaveBattlegrounds ==
  ASSUME NEW st \in States, NEW p \in Players, NEW b \in Ids, NEW connected \in BOOLEAN,
         st.bgs[b].invited[TeamOf[p]] >= 1
  PROVE  LET r == RemovePlayerAtLeave(st, p, b, connected)
         IN /\ \A x \in Ids : x # b => r.bgs[x] = st.bgs[x]
            /\ r.bgs[b].status = st.bgs[b].status
            /\ r.bgs[b].players = st.bgs[b].players \ {p}
            /\ r.bgs[b].offline = st.bgs[b].offline
            /\ \A t \in Teams : r.bgs[b].invited[t] =
                                 IF t = TeamOf[p] THEN st.bgs[b].invited[t] - 1
                                 ELSE st.bgs[b].invited[t]
<1> DEFINE r == RemovePlayerAtLeave(st, p, b, connected)
           d == [DecreaseInvitedCount(st.bgs[b], TeamOf[p]) EXCEPT !.players = st.bgs[b].players \ {p}]
<1>1. TeamOf[p] \in Teams /\ st.bgs \in [Ids -> Battleground]
  BY PlayersAssumption DEF States
<1>2. st.bgs[b].players \ {p} \in SUBSET Players
  BY <1>1 DEF Battleground
<1>3. /\ d.status = st.bgs[b].status /\ d.players = st.bgs[b].players \ {p}
      /\ d.offline = st.bgs[b].offline
      /\ \A t \in Teams : d.invited[t] = IF t = TeamOf[p] THEN st.bgs[b].invited[t] - 1
                                        ELSE st.bgs[b].invited[t]
  BY <1>1, <1>2, DecreaseDoes
<1>4. /\ r \in States
      /\ r.queue = st.queue /\ r.info = st.info /\ r.events = st.events
      /\ r.bgs = [st.bgs EXCEPT ![b] = [DecreaseInvitedCount(st.bgs[b], TeamOf[p])
                                          EXCEPT !.players = st.bgs[b].players \ {p}]]
      /\ r.qid = IF connected THEN [st.qid EXCEPT ![p] = NotQueued] ELSE st.qid
      /\ r.bgOf = IF connected THEN [st.bgOf EXCEPT ![p] = NoBg] ELSE st.bgOf
  BY <1>1, LeaveDoes
<1>6. r.bgs = [st.bgs EXCEPT ![b] = d]
  BY <1>4
<1> HIDE DEF d, r
<1>5. r.bgs[b] = d /\ \A x \in Ids : x # b => r.bgs[x] = st.bgs[x]
  BY <1>1, <1>6
<1> QED
  BY <1>3, <1>5 DEF r

LEMMA LeaveSound ==
  ASSUME NEW st, NEW o \in Onlines, NEW p \in Players, NEW b \in Ids, NEW connected \in BOOLEAN,
         Sound(st, o), p \in st.bgs[b].players
  PROVE  Sound(RemovePlayerAtLeave(st, p, b, connected), o)
<1> DEFINE r == RemovePlayerAtLeave(st, p, b, connected)
           t0 == TeamOf[p]
<1>1. /\ st \in States /\ t0 \in Teams
      /\ st.bgs \in [Ids -> Battleground]
      /\ st.qid \in [Players -> Ids \cup {NoBg, NotQueued}] /\ st.bgOf \in [Players -> Ids \cup {NoBg}]
  BY PlayersAssumption DEF Sound, States
<1>2. PlayerSound(st, o, p)
  BY DEF Sound, PlayersSound
<1>3. /\ ~ InQueue(st, p) /\ o[p] # "transit"
      /\ \A x \in Ids : p \in st.bgs[x].players <=> x = b
  BY <1>2 DEF PlayerSound, Ids, NoBg
<1>4. \A x \in Ids, t \in Teams : p \in Comers(st, o, x, t) <=> x = b /\ t = t0
  BY <1>1, <1>3 DEF Comers, Of, InQueue, NotQueued, Ids
<1>5. st.bgs[b].invited[t0] >= 1 /\ Alive(st, b)
  BY <1>1, <1>4, Counted
<1>6. /\ r \in States
      /\ r.queue = st.queue /\ r.info = st.info /\ r.events = st.events
      /\ r.bgs = [st.bgs EXCEPT ![b] = [DecreaseInvitedCount(st.bgs[b], t0)
                                      EXCEPT !.players = st.bgs[b].players \ {p}]]
      /\ r.qid = IF connected THEN [st.qid EXCEPT ![p] = NotQueued] ELSE st.qid
      /\ r.bgOf = IF connected THEN [st.bgOf EXCEPT ![p] = NoBg] ELSE st.bgOf
  BY <1>1, <1>5, LeaveDoes
<1> HIDE DEF r, t0
<1>7. /\ \A x \in Ids : x # b => r.bgs[x] = st.bgs[x]
      /\ r.bgs[b].status = st.bgs[b].status /\ r.bgs[b].players = st.bgs[b].players \ {p}
      /\ \A t \in Teams : r.bgs[b].invited[t] = IF t = t0 THEN st.bgs[b].invited[t] - 1
                                                ELSE st.bgs[b].invited[t]
  BY <1>1, <1>5, LeaveBattlegrounds DEF r, t0
<1>8. Others(p, st, o, r, o)
  BY <1>1, <1>6, <1>7 DEF Others
<1>9. \A x \in Ids : p \notin r.bgs[x].players
  BY <1>3, <1>7
<1>10. \A x \in Ids, t \in Teams : p \notin Comers(r, o, x, t)
  BY <1>3, <1>6, <1>9 DEF Comers, InQueue, NotQueued, Ids
<1>11. Uncounted(p, st, o, r, o)
  BY <1>4, <1>7, <1>10 DEF Uncounted
<1>12. GroupsLeft(p, st, r)
  BY <1>6 DEF GroupsLeft, GroupsOf
<1>13. PlayerSound(r, o, p)
  BY <1>3, <1>6, <1>9 DEF PlayerSound, InQueue
<1>14. DeletedSound(r)
  BY <1>5, <1>7 DEF DeletedSound, Alive, Sound
<1>15. r.info[p] \in {st.info[p], NotInQueue} /\ st.events \subseteq r.events
  BY <1>6
<1> QED
  BY <1>6, <1>8, <1>11, <1>12, <1>13, <1>14, <1>15, OneSound DEF r
-----------------------------------------------------------------------------
(* The steps of the players.                                               *)

LEMMA StBecomes ==
  ASSUME NEW r \in States, Becomes(r)
  PROVE  St' = r
<1>1. r = [queue |-> r.queue, info |-> r.info, bgs |-> r.bgs, free |-> r.free,
           events |-> r.events, scheduled |-> r.scheduled, qid |-> r.qid, bgOf |-> r.bgOf]
  BY DEF States
<1> QED
  BY <1>1 DEF Becomes, St

LEMMA StParts ==
  ASSUME QueueInv
  PROVE  /\ Sound(St, online) /\ St \in States /\ online \in Onlines
         /\ St.queue = queue /\ St.info = info /\ St.bgs = bgs /\ St.free = freeSlots
         /\ St.events = events /\ St.scheduled = scheduled /\ St.qid = qid /\ St.bgOf = bgOf
         /\ bgs \in [Ids -> Battleground] /\ info \in [Players -> GroupQueueInfo]
         /\ qid \in [Players -> Ids \cup {NoBg, NotQueued}] /\ bgOf \in [Players -> Ids \cup {NoBg}]
<1>1. Sound(St, online) /\ QueueTypeOK
  BY DEF QueueInv
<1>2. St \in States
  BY <1>1 DEF Sound
<1>3. /\ St.queue = queue /\ St.info = info /\ St.bgs = bgs /\ St.free = freeSlots
      /\ St.events = events /\ St.scheduled = scheduled /\ St.qid = qid /\ St.bgOf = bgOf
  BY DEF St
<1> QED
  BY <1>1, <1>2, <1>3 DEF QueueTypeOK, Onlines

LEMMA RemoveFirstIn ==
  ASSUME NEW D, NEW s \in Seq(D), NEW e
  PROVE  RemoveFirst(s, e) \in Seq(D)
<1>1. CASE \E i \in 1 .. Len(s) : s[i] = e
  <2> DEFINE I == {i \in 1 .. Len(s) : s[i] = e}
             k == Min(I)
  <2>1. I # {} /\ I \in SUBSET (1 .. Len(s)) /\ Len(s) \in Nat
    BY <1>1
  <2>2. RemoveFirst(s, e) = SubSeq(s, 1, k - 1) \o SubSeq(s, k + 1, Len(s))
    BY <1>1, <2>1 DEF RemoveFirst, RemoveAt, SelectInSeq
  <2>3. k \in 1 .. Len(s)
    <3> HIDE DEF I
    <3> QED
      BY <2>1, LeastAndGreatest
  <2> HIDE DEF k
  <2>4. SubSeq(s, 1, k - 1) \in Seq(D) /\ SubSeq(s, k + 1, Len(s)) \in Seq(D)
    BY <2>1, <2>3
  <2> QED
    BY <2>2, <2>4
<1>2. CASE ~ \E i \in 1 .. Len(s) : s[i] = e
  BY <1>2 DEF RemoveFirst
<1> QED
  BY <1>1, <1>2

LEMMA AddPlayerSound ==
  ASSUME NEW st, NEW o \in Onlines, NEW p \in Players, Sound(st, o), o[p] = "transit"
  PROVE  /\ Sound(AddPlayer(st, p), [o EXCEPT ![p] = "world"])
         /\ AddPlayer(st, p) \in States
<1> DEFINE r == AddPlayer(st, p)
           q == [o EXCEPT ![p] = "world"]
           b == st.bgOf[p]
           t0 == TeamOf[p]
<1>1. /\ st \in States /\ t0 \in Teams
      /\ st.bgs \in [Ids -> Battleground]
  BY PlayersAssumption DEF Sound, States
<1>2. PlayerSound(st, o, p)
  BY DEF Sound, PlayersSound
<1>3. /\ b \in Ids /\ st.qid[p] = b /\ ~ InQueue(st, p)
      /\ \A x \in Ids : p \notin st.bgs[x].players
  BY <1>2 DEF PlayerSound
<1>4. \A x \in Ids, t \in Teams : p \in Comers(st, o, x, t) <=> x = b /\ t = t0
  BY <1>1, <1>3 DEF Comers, Of, InQueue, NotQueued, Ids
<1>5. Alive(st, b)
  BY <1>1, <1>3, <1>4, Counted
<1>6. r = [st EXCEPT !.bgs[b].players = @ \cup {p}]
  BY <1>3, <1>5 DEF AddPlayer
<1> HIDE DEF r, b, t0
<1> DEFINE bg == [st.bgs[b] EXCEPT !.players = @ \cup {p}]
<1>7. /\ bg \in Battleground /\ bg.status = st.bgs[b].status /\ bg.invited = st.bgs[b].invited
      /\ bg.players = st.bgs[b].players \cup {p}
  BY <1>1, <1>3 DEF Battleground
<1>8. /\ r.queue = st.queue /\ r.info = st.info /\ r.events = st.events /\ r.qid = st.qid
      /\ r.bgOf = st.bgOf /\ r.bgs = [st.bgs EXCEPT ![b] = bg]
  BY <1>1, <1>6 DEF States
<1> HIDE DEF bg
<1>9. r \in States
  BY <1>1, <1>6, <1>7, <1>8 DEF States
<1>10. /\ r.bgs[b] = bg /\ \A x \in Ids : x # b => r.bgs[x] = st.bgs[x]
       /\ \A x \in Ids : r.bgs[x].status = st.bgs[x].status /\ r.bgs[x].invited = st.bgs[x].invited
  BY <1>1, <1>3, <1>7, <1>8
<1>11. q[p] = "world" /\ \A x \in Players \ {p} : q[x] = o[x]
  BY DEF Onlines
<1> HIDE DEF q
<1>12. Others(p, st, o, r, q)
  BY <1>7, <1>8, <1>10, <1>11 DEF Others
<1>13. \A x \in Ids, t \in Teams : p \in Comers(r, q, x, t) <=> x = b /\ t = t0
  BY <1>1, <1>3, <1>7, <1>8, <1>10, <1>11 DEF Comers, Of, InQueue, NotQueued, Ids, t0
<1>14. Uncounted(p, st, o, r, q)
  BY <1>4, <1>10, <1>13 DEF Uncounted
<1>15. GroupsLeft(p, st, r)
  BY <1>8 DEF GroupsLeft, GroupsOf
<1>16. PlayerSound(r, q, p)
  BY <1>3, <1>7, <1>8, <1>10, <1>11 DEF PlayerSound, InQueue, b
<1>17. DeletedSound(r)
  BY <1>5, <1>10 DEF DeletedSound, Alive, Sound
<1>18. r.info[p] \in {st.info[p], NotInQueue} /\ st.events \subseteq r.events
  BY <1>8
<1> QED
  BY <1>9, <1>12, <1>14, <1>15, <1>16, <1>17, <1>18, OneSound DEF r, q

\* A player leaves the queue, or his invitation is withdrawn.
LEMMA WithdrawnSound ==
  ASSUME NEW st, NEW o \in Onlines, NEW p \in Players, Sound(st, o), InQueue(st, p),
         NEW v \in BOOLEAN
  PROVE  LET r == [RemovePlayer(st, p, TRUE) EXCEPT !.qid[p] = NotQueued, !.scheduled = v]
         IN r \in States /\ Sound(r, o) /\ r.info = [st.info EXCEPT ![p] = NotInQueue]
<1> DEFINE m == RemovePlayer(st, p, TRUE)
           r == [m EXCEPT !.qid[p] = NotQueued, !.scheduled = v]
           b == st.info[p].invited
           bs == IF Alive(st, b)
                 THEN [st.bgs EXCEPT ![b] = DecreaseInvitedCount(@, TeamOf[p])] ELSE st.bgs
<1>1. st \in States /\ GroupsSound(st)
  BY DEF Sound
<1>2. Alive(st, b) => st.bgs[b].invited[TeamOf[p]] >= 1
  BY RemoveCondition
<1>3. /\ m \in States /\ m.info = [st.info EXCEPT ![p] = NotInQueue] /\ m.bgs = bs
      /\ m.events = st.events /\ m.qid = st.qid /\ m.bgOf = st.bgOf
      /\ \A t \in Teams : \A h \in GroupsOf(m, t) : \E g \in GroupsOf(st, t) : h = g \ {p}
  <2>1. Removed(m, st, p, TRUE)
    BY <1>1, <1>2, RemovePlayerDoes
  <2> HIDE DEF m
  <2> QED
    BY <2>1 DEF Removed
<1> HIDE DEF m, bs
<1>4. /\ r \in States /\ r.info = m.info /\ r.bgs = m.bgs /\ r.events = m.events
      /\ r.bgOf = m.bgOf /\ r.qid = [m.qid EXCEPT ![p] = NotQueued] /\ r.queue = m.queue
  BY <1>3 DEF States
<1> HIDE DEF r
<1>5. \A t \in Teams : \A h \in GroupsOf(r, t) : \E g \in GroupsOf(st, t) : h = g \ {p}
  BY <1>3, <1>4 DEF GroupsOf
<1>6. o[p] # "transit"
  BY DEF Sound, PlayersSound, PlayerSound
<1>7. \A x \in Players \ {p} : r.qid[x] = st.qid[x]
  BY <1>1, <1>3, <1>4 DEF States
<1>9. /\ r \in States /\ r.info = [st.info EXCEPT ![p] = NotInQueue]
      /\ r.bgs = IF Alive(st, st.info[p].invited)
                 THEN [st.bgs EXCEPT ![st.info[p].invited] = DecreaseInvitedCount(@, TeamOf[p])]
                 ELSE st.bgs
      /\ r.events = st.events /\ r.bgOf = st.bgOf
  BY <1>3, <1>4 DEF bs
<1>8. Sound(r, o)
  BY <1>5, <1>6, <1>7, <1>9, WithdrawSound
<1> QED
  BY <1>3, <1>4, <1>8 DEF r, m
LEMMA JoinSound ==
  ASSUME QueueInv, NEW ps \in (SUBSET Players) \ {{}}, Cardinality(ps) <= MaxPlayersPerTeam, Join(ps)
  PROVE  Sound(St', online')
<1>1. Sound(St, online) /\ St \in States /\ online \in Onlines /\ QueueTypeOK
  BY StParts DEF QueueInv
<1>2. PICK t0 \in Teams :
        /\ ps \subseteq Of(Players, t0)
        /\ LET k == IF Cardinality(ps) > 1 /\ Cardinality(ps) >= MinPlayersPerTeam
                    THEN "premade" ELSE "normal"
           IN queue' = [queue EXCEPT ![k][t0] = Append(@, ps)]
  BY DEF Join
<1>3. /\ info' = [p \in Players |-> IF p \in ps THEN [invited |-> NoBg, left |-> 0] ELSE info[p]]
      /\ qid' = [p \in Players |-> IF p \in ps THEN NoBg ELSE qid[p]]
      /\ scheduled' = TRUE
      /\ bgs' = bgs /\ freeSlots' = freeSlots /\ events' = events /\ bgOf' = bgOf /\ online' = online
  BY DEF Join
<1>4. \A p \in ps : online[p] = "world" /\ qid[p] = NotQueued /\ bgOf[p] = NoBg /\ p \in Players
  BY DEF Join
<1>5. PICK k \in Kinds : queue' = [queue EXCEPT ![k][t0] = Append(@, ps)]
  <2> DEFINE k == IF Cardinality(ps) > 1 /\ Cardinality(ps) >= MinPlayersPerTeam
                  THEN "premade" ELSE "normal"
  <2>1. k \in Kinds /\ queue' = [queue EXCEPT ![k][t0] = Append(@, ps)]
    BY <1>2 DEF Kinds
  <2> QED
    BY <2>1
<1>6. queue \in [Kinds -> [Teams -> Seq((SUBSET Players) \ {{}})]]
  BY <1>1 DEF QueueTypeOK
<1>7. /\ queue' \in [Kinds -> [Teams -> Seq((SUBSET Players) \ {{}})]]
      /\ queue'[k][t0] = Append(queue[k][t0], ps)
      /\ \A j \in Kinds, t \in Teams : j # k \/ t # t0 => queue'[j][t] = queue[j][t]
  <2> DEFINE longer == Append(queue[k][t0], ps)
  <2>1. longer \in Seq((SUBSET Players) \ {{}})
    BY <1>6
  <2>2. queue' = [queue EXCEPT ![k] = [queue[k] EXCEPT ![t0] = longer]]
    BY <1>5, <1>6
  <2> HIDE DEF longer
  <2>3. [queue[k] EXCEPT ![t0] = longer] \in [Teams -> Seq((SUBSET Players) \ {{}})]
    BY <1>6, <2>1
  <2>4. queue'[k][t0] = longer /\ \A j \in Kinds, t \in Teams : j # k \/ t # t0 => queue'[j][t] = queue[j][t]
    BY <1>6, <2>2
  <2> QED
    BY <1>6, <2>2, <2>3, <2>4 DEF longer
<1>8. \A t \in Teams : \A h \in GroupsOf(St', t) : h \in GroupsOf(St, t) \/ (t = t0 /\ h = ps)
  <2>1. \A j \in Kinds, t \in Teams : \A h \in ToSet(queue'[j][t]) :
          h \in ToSet(queue[j][t]) \/ (t = t0 /\ h = ps)
    <3> SUFFICES ASSUME NEW j \in Kinds, NEW t \in Teams, NEW h \in ToSet(queue'[j][t])
                 PROVE  h \in ToSet(queue[j][t]) \/ (t = t0 /\ h = ps)
      OBVIOUS
    <3>1. CASE j = k /\ t = t0
      <4> DEFINE old == queue[k][t0]
      <4>1. old \in Seq((SUBSET Players) \ {{}}) /\ h \in ToSet(Append(old, ps))
        BY <1>6, <1>7, <3>1
      <4> HIDE DEF old
      <4>2. h \in ToSet(old) \/ h = ps
        BY <4>1 DEF ToSet
      <4> QED
        BY <3>1, <4>2 DEF old
    <3>2. CASE ~ (j = k /\ t = t0)
      BY <1>7, <3>2
    <3> QED
      BY <3>1, <3>2
  <2> QED
    BY <2>1 DEF GroupsOf, St, Kinds
<1>9. \A p \in ps : ~ InQueue(St, p)
  BY <1>1, <1>4 DEF Sound, PlayersSound, PlayerSound, St, InQueue
<1>10. St' \in States
  <2>1. info' \in [Players -> GroupQueueInfo]
    <3>1. [invited |-> NoBg, left |-> 0] \in GroupQueueInfo
      BY BoundAssumption DEF GroupQueueInfo
    <3> QED
      BY <1>1, <1>3, <3>1 DEF QueueTypeOK
  <2>2. qid' \in [Players -> Ids \cup {NoBg, NotQueued}]
    BY <1>1, <1>3 DEF QueueTypeOK
  <2> QED
    BY <1>1, <1>3, <1>7, <2>1, <2>2 DEF QueueTypeOK, States, St
<1>11. /\ St'.info = info' /\ St'.qid = qid' /\ St'.bgs = St.bgs /\ St'.events = St.events
       /\ St'.bgOf = St.bgOf /\ St.info = info /\ St.qid = qid
  BY <1>3 DEF St
<1>12. \A p \in Players : IF p \in ps THEN St'.info[p] = [invited |-> NoBg, left |-> 0] /\ St'.qid[p] = NoBg
                          ELSE St'.info[p] = St.info[p] /\ St'.qid[p] = St.qid[p]
  BY <1>3, <1>11
<1>13. GroupsSound(St')
  <2> SUFFICES ASSUME NEW t \in Teams, NEW h \in GroupsOf(St', t)
               PROVE  /\ h \subseteq Of(Players, t) /\ Cardinality(h) <= MaxPlayersPerTeam
                      /\ \A p \in h : InQueue(St', p)
                      /\ \A p, r \in h : St'.info[p].invited = St'.info[r].invited
                      /\ \A g \in GroupsOf(St', t) : h = g \/ h \cap g = {}
    BY DEF GroupsSound
  <2>1. \A g \in GroupsOf(St, t) : g \cap ps = {} /\ g \subseteq Players
    BY <1>1, <1>9 DEF Sound, GroupsSound, Of
  <2>2. \A g \in GroupsOf(St', t) : h = g \/ h \cap g = {}
    BY <1>1, <1>8, <2>1 DEF Sound, GroupsSound
  <2>3. CASE h \in GroupsOf(St, t)
    <3>1. \A p \in h : St'.info[p] = St.info[p]
      BY <1>12, <2>1, <2>3
    <3> QED
      BY <1>1, <2>2, <2>3, <3>1 DEF Sound, GroupsSound, InQueue
  <2>4. CASE t = t0 /\ h = ps
    BY <1>2, <1>4, <1>12, <2>2, <2>4 DEF InQueue, NoBg, NotQueued
  <2> QED
    BY <1>8, <2>3, <2>4
<1>14. PlayersSound(St', online')
  <2> SUFFICES ASSUME NEW p \in Players PROVE PlayerSound(St', online', p)
    BY DEF PlayersSound
  <2>1. PlayerSound(St, online, p)
    BY <1>1 DEF Sound, PlayersSound
  <2>2. CASE p \in ps
    BY <1>3, <1>4, <1>11, <1>12, <2>1, <2>2 DEF PlayerSound, InQueue, St
  <2>3. CASE p \notin ps
    BY <1>3, <1>11, <1>12, <2>1, <2>3 DEF PlayerSound, InQueue
  <2> QED
    BY <2>2, <2>3
<1>15. CountsSound(St', online')
  <2> SUFFICES ASSUME NEW b \in Ids, NEW t \in Teams
               PROVE  Comers(St', online', b, t) = Comers(St, online, b, t)
    BY <1>1, <1>11 DEF Sound, CountsSound
  <2>1. \A p \in Players : St'.info[p].invited = b <=> St.info[p].invited = b
    BY <1>9, <1>12 DEF InQueue, NoBg, NotQueued, Ids
  <2> QED
    BY <1>3, <1>11, <2>1 DEF Comers, Of
<1>16. DeletedSound(St')
  BY <1>1, <1>11 DEF Sound, DeletedSound
<1>17. EventsSound(St')
  BY <1>1, <1>11, <1>12 DEF Sound, EventsSound, Ids, NoBg
<1> QED
  BY <1>10, <1>13, <1>14, <1>15, <1>16, <1>17 DEF Sound

LEMMA EnterSound ==
  ASSUME QueueInv, NEW p \in Players, Enter(p)
  PROVE  Sound(St', online')
<1> DEFINE b == info[p].invited
           m == RemovePlayer(St, p, FALSE)
           r == [m EXCEPT !.bgOf[p] = b]
           q == [online EXCEPT ![p] = "transit"]
<1>1. /\ Sound(St, online) /\ St \in States /\ online \in Onlines /\ St.info = info
      /\ St.bgs = bgs /\ bgs \in [Ids -> Battleground] /\ info \in [Players -> GroupQueueInfo]
  BY StParts
<1>2. InQueue(St, p) /\ Alive(St, b) /\ Becomes(r) /\ online' = q
  BY DEF Enter
<1>3. b \in Ids /\ TeamOf[p] \in Teams
  BY <1>1, <1>2, InvitedOf DEF Alive
<1>4. /\ m \in States /\ m.info = [info EXCEPT ![p] = NotInQueue] /\ m.bgs = bgs
      /\ m.events = St.events /\ m.qid = St.qid /\ m.bgOf = St.bgOf
      /\ \A t \in Teams : \A h \in GroupsOf(m, t) : \E g \in GroupsOf(St, t) : h = g \ {p}
  <2>1. Removed(m, St, p, FALSE)
    BY <1>1, <1>2, RemovePlayerDoes DEF Sound
  <2> HIDE DEF m
  <2> QED
    BY <1>1, <2>1 DEF Removed
<1>5. PlayerSound(St, online, p)
  BY <1>1 DEF Sound, PlayersSound
<1>6. /\ online[p] = "world" /\ St.qid[p] = b /\ \A x \in Ids : p \notin bgs[x].players
  BY <1>1, <1>2, <1>5 DEF PlayerSound, Ids, NoBg
<1> HIDE DEF m
<1>7. /\ r \in States /\ r.queue = m.queue /\ r.info = m.info /\ r.bgs = m.bgs
      /\ r.events = m.events /\ r.qid = m.qid /\ r.bgOf = [m.bgOf EXCEPT ![p] = b]
  BY <1>3, <1>4 DEF States
<1>8. St' = r
  BY <1>2, <1>7, StBecomes
<1> HIDE DEF r, b
<1>9. q \in Onlines /\ q[p] = "transit" /\ \A x \in Players \ {p} : q[x] = online[x]
  BY <1>1 DEF Onlines
<1> HIDE DEF q
<1>10. /\ r.info[p] = NotInQueue /\ r.bgOf[p] = b
       /\ \A x \in Players \ {p} : r.info[x] = St.info[x] /\ r.bgOf[x] = St.bgOf[x]
  BY <1>1, <1>4, <1>7 DEF States
<1>11. Others(p, St, online, r, q)
  BY <1>1, <1>4, <1>7, <1>9, <1>10 DEF Others
<1>12. NotInQueue.invited = NotQueued /\ NotQueued \notin Ids
  BY DEF NotInQueue, NotQueued, Ids
<1>13. \A x \in Ids, t \in Teams : p \in Comers(r, q, x, t) <=> p \in Comers(St, online, x, t)
  BY <1>1, <1>4, <1>6, <1>7, <1>9, <1>10, <1>12 DEF Comers, b
<1>14. Uncounted(p, St, online, r, q)
  BY <1>1, <1>4, <1>7, <1>13 DEF Uncounted
<1>15. St.info[p] # NotInQueue
  BY <1>2, <1>12 DEF InQueue
<1>16. GroupsLeft(p, St, r)
  BY <1>4, <1>7, <1>10, <1>15 DEF GroupsLeft, GroupsOf
<1>17. PlayerSound(r, q, p)
  BY <1>1, <1>3, <1>4, <1>6, <1>7, <1>9, <1>10, <1>12 DEF PlayerSound, InQueue
<1>18. DeletedSound(r)
  BY <1>1, <1>4, <1>7 DEF Sound, DeletedSound
<1>19. Sound(r, q)
  BY <1>1, <1>4, <1>7, <1>10, <1>11, <1>14, <1>16, <1>17, <1>18, OneSound
<1> QED
  BY <1>2, <1>8, <1>19

LEMMA LeaveQueueSound ==
  ASSUME QueueInv, NEW p \in Players, LeaveQueue(p)
  PROVE  Sound(St', online')
<1>1. Sound(St, online) /\ online \in Onlines
  BY StParts
<1> DEFINE r == [RemovePlayer(St, p, TRUE) EXCEPT !.qid[p] = NotQueued, !.scheduled = TRUE]
<1>2. InQueue(St, p) /\ Becomes(r) /\ online' = online
  BY DEF LeaveQueue
<1>3. r \in States /\ Sound(r, online)
  BY <1>1, <1>2, WithdrawnSound
<1> HIDE DEF r
<1>4. St' = r
  BY <1>2, <1>3, StBecomes
<1> QED
  BY <1>2, <1>3, <1>4

LEMMA ArriveSound ==
  ASSUME QueueInv, NEW p \in Players, Arrive(p)
  PROVE  Sound(St', online')
<1> DEFINE r == AddPlayer(St, p)
<1>1. Sound(St, online) /\ online \in Onlines
  BY StParts
<1>2. online[p] = "transit" /\ Becomes(r) /\ online' = [online EXCEPT ![p] = "world"]
  BY DEF Arrive
<1>3. r \in States /\ Sound(r, [online EXCEPT ![p] = "world"])
  BY <1>1, <1>2, AddPlayerSound
<1> HIDE DEF r
<1>4. St' = r
  BY <1>2, <1>3, StBecomes
<1> QED
  BY <1>2, <1>3, <1>4

LEMMA LeaveBattlegroundSound ==
  ASSUME QueueInv, NEW p \in Players, LeaveBattleground(p)
  PROVE  Sound(St', online')
<1> DEFINE r == RemovePlayerAtLeave(St, p, bgOf[p], TRUE)
<1>1. Sound(St, online) /\ online \in Onlines /\ St.bgs = bgs /\ bgOf \in [Players -> Ids \cup {NoBg}]
  BY StParts
<1>2. bgOf[p] # NoBg /\ p \in bgs[bgOf[p]].players /\ Becomes(r) /\ online' = online
  BY DEF LeaveBattleground
<1>3. Sound(r, online)
  BY <1>1, <1>2, LeaveSound
<1>4. r \in States
  BY <1>3 DEF Sound
<1> HIDE DEF r
<1>5. St' = r
  BY <1>2, <1>4, StBecomes
<1> QED
  BY <1>2, <1>3, <1>5

\* A state in which a battleground has another list of players who are offline.
LEMMA OfflineSound ==
  ASSUME NEW st, NEW o, Sound(st, o), NEW b \in Ids, NEW s \in Seq(Players),
         st.bgs[b].status # "none"
  PROVE  Sound([st EXCEPT !.bgs[b].offline = s], o)
<1> DEFINE bg == [st.bgs[b] EXCEPT !.offline = s]
           r == [st EXCEPT !.bgs[b].offline = s]
<1>1. st \in States /\ st.bgs \in [Ids -> Battleground]
  BY DEF Sound, States
<1>2. /\ bg \in Battleground /\ bg.status = st.bgs[b].status /\ bg.invited = st.bgs[b].invited
      /\ bg.players = st.bgs[b].players
  BY <1>1 DEF Battleground
<1>3. /\ r.queue = st.queue /\ r.info = st.info /\ r.events = st.events /\ r.qid = st.qid
      /\ r.bgOf = st.bgOf /\ r.bgs = [st.bgs EXCEPT ![b] = bg]
  BY <1>1 DEF States
<1> HIDE DEF bg
<1>4. r \in States
  BY <1>1, <1>2, <1>3 DEF States
<1> HIDE DEF r
<1>5. r.bgs[b] = bg /\ \A x \in Ids : x # b => r.bgs[x] = st.bgs[x]
  BY <1>1, <1>3
<1>6. DeletedSound(r)
  BY <1>2, <1>5 DEF Sound, DeletedSound
<1> QED
  BY <1>2, <1>3, <1>4, <1>5, <1>6, NobodySound DEF r

LEMMA ParticipantAlive ==
  ASSUME NEW st, NEW o, Sound(st, o), NEW b \in Ids, NEW p \in Players, p \in st.bgs[b].players
  PROVE  st.bgs[b].status # "none"
<1>1. p \in Comers(st, o, b, TeamOf[p]) /\ TeamOf[p] \in Teams
  BY PlayersAssumption DEF Comers, Of
<1> QED
  BY <1>1, Counted DEF Alive

\* The part of LogoutPlayer after the transfer.
LEMMA OutSound ==
  ASSUME NEW st, NEW o \in Onlines, NEW q \in Onlines, NEW p \in Players, Sound(st, o),
         o[p] # "transit", q[p] = "offline", \A x \in Players \ {p} : q[x] = o[x]
  PROVE  LET r == RemovePlayer([st EXCEPT !.qid[p] = NotQueued], p, TRUE)
         IN r \in States /\ Sound(r, q)
<1> DEFINE s == [st EXCEPT !.qid[p] = NotQueued]
           r == RemovePlayer(s, p, TRUE)
           b == st.info[p].invited
           bs == IF Alive(st, b)
                 THEN [st.bgs EXCEPT ![b] = DecreaseInvitedCount(@, TeamOf[p])] ELSE st.bgs
<1>1. st \in States /\ GroupsSound(st)
  BY DEF Sound
<1>2. /\ s \in States /\ s.info = st.info /\ s.bgs = st.bgs /\ s.events = st.events
      /\ s.bgOf = st.bgOf /\ s.queue = st.queue /\ s.qid = [st.qid EXCEPT ![p] = NotQueued]
      /\ \A x \in Players \ {p} : s.qid[x] = st.qid[x]
  BY <1>1 DEF States
<1> HIDE DEF s
<1>3. GroupsSound(s) /\ \A t \in Teams : GroupsOf(s, t) = GroupsOf(st, t)
  BY <1>1, <1>2 DEF GroupsSound, GroupsOf, InQueue
<1>4. CASE InQueue(st, p)
  <2>1. InQueue(s, p) /\ (Alive(s, b) <=> Alive(st, b))
    BY <1>2, <1>4 DEF InQueue, Alive
  <2>2. Alive(s, s.info[p].invited) => s.bgs[s.info[p].invited].invited[TeamOf[p]] >= 1
    BY <1>2, <1>4, <2>1, RemoveCondition
  <2>3. /\ r \in States /\ r.info = [s.info EXCEPT ![p] = NotInQueue]
        /\ r.bgs = IF TRUE /\ Alive(s, s.info[p].invited)
                   THEN [s.bgs EXCEPT ![s.info[p].invited] = DecreaseInvitedCount(@, TeamOf[p])]
                   ELSE s.bgs
        /\ r.events = s.events /\ r.qid = s.qid /\ r.bgOf = s.bgOf
        /\ \A t \in Teams : \A h \in GroupsOf(r, t) : \E g \in GroupsOf(s, t) : h = g \ {p}
    <3>1. Removed(r, s, p, TRUE)
      BY <1>2, <1>3, <2>1, <2>2, RemovePlayerDoes
    <3> HIDE DEF r
    <3> QED
      BY <3>1 DEF Removed
  <2> HIDE DEF r
  <2>4. /\ r \in States /\ r.info = [st.info EXCEPT ![p] = NotInQueue]
        /\ r.bgs = IF Alive(st, st.info[p].invited)
                   THEN [st.bgs EXCEPT ![st.info[p].invited] = DecreaseInvitedCount(@, TeamOf[p])]
                   ELSE st.bgs
        /\ r.events = st.events /\ r.bgOf = st.bgOf
        /\ \A x \in Players \ {p} : r.qid[x] = st.qid[x]
        /\ \A t \in Teams : \A h \in GroupsOf(r, t) : \E g \in GroupsOf(st, t) : h = g \ {p}
    BY <1>2, <1>3, <2>1, <2>3
  <2>5. Sound(r, q)
    BY <1>4, <2>4, WithdrawSound
  <2> QED
    BY <2>3, <2>5 DEF r, s
<1>5. CASE ~ InQueue(st, p)
  <2>1. r = s
    BY <1>2, <1>5 DEF RemovePlayer, InQueue
  <2>2. Others(p, st, o, s, q)
    BY <1>2 DEF Others
  <2>3. \A x \in Ids, t \in Teams : p \in Comers(s, q, x, t) <=> p \in Comers(st, o, x, t)
    BY <1>2 DEF Comers
  <2>4. Uncounted(p, st, o, s, q)
    BY <1>2, <2>3 DEF Uncounted
  <2>5. GroupsLeft(p, st, s)
    BY <1>2, <1>3 DEF GroupsLeft
  <2>6. PlayerSound(st, o, p)
    BY DEF Sound, PlayersSound
  <2>7. PlayerSound(s, q, p)
    BY <1>2, <1>5, <2>6 DEF PlayerSound, InQueue
  <2>8. DeletedSound(s)
    BY <1>2 DEF Sound, DeletedSound
  <2>9. Sound(s, q)
    BY <1>2, <2>2, <2>4, <2>5, <2>7, <2>8, OneSound
  <2> QED
    BY <1>2, <2>1, <2>9 DEF s
<1> QED
  BY <1>4, <1>5

LEMMA LogoutSound ==
  ASSUME QueueInv, NEW p \in Players, Logout(p)
  PROVE  Sound(St', online')
<1> DEFINE in  == IF online[p] = "transit" THEN AddPlayer(St, p) ELSE St
           out == IF bgOf[p] # NoBg /\ p \in in.bgs[bgOf[p]].players
                  THEN [in EXCEPT !.bgs[bgOf[p]].offline = Append(@, p)] ELSE in
           r == RemovePlayer([out EXCEPT !.qid[p] = NotQueued], p, TRUE)
           o == IF online[p] = "transit" THEN [online EXCEPT ![p] = "world"] ELSE online
           q == [online EXCEPT ![p] = "offline"]
<1>1. /\ Sound(St, online) /\ St \in States /\ online \in Onlines
      /\ bgOf \in [Players -> Ids \cup {NoBg}]
  BY StParts
<1>2. Becomes(r) /\ online' = q
  BY DEF Logout
<1>3. o \in Onlines /\ q \in Onlines /\ o[p] # "transit" /\ q[p] = "offline"
      /\ \A x \in Players \ {p} : q[x] = o[x]
  BY <1>1 DEF Onlines
<1>4. Sound(in, o)
  BY <1>1, AddPlayerSound
<1> HIDE DEF in, o, q
<1>5. Sound(out, o)
  <2>1. CASE bgOf[p] # NoBg /\ p \in in.bgs[bgOf[p]].players
    <3> DEFINE b == bgOf[p]
    <3>1. b \in Ids
      BY <1>1, <2>1
    <3>2. in.bgs[b].status # "none"
      BY <1>4, <2>1, <3>1, ParticipantAlive
    <3>3. Append(in.bgs[b].offline, p) \in Seq(Players)
      <4>1. in.bgs \in [Ids -> Battleground]
        BY <1>4 DEF Sound, States
      <4>2. in.bgs[b].offline \in Seq(Players)
        BY <3>1, <4>1 DEF Battleground
      <4> QED
        BY <4>2
    <3>4. out = [in EXCEPT !.bgs[b].offline = Append(in.bgs[b].offline, p)]
      BY <2>1
    <3> HIDE DEF out, b
    <3> QED
      BY <1>4, <3>1, <3>2, <3>3, <3>4, OfflineSound
  <2>2. CASE ~ (bgOf[p] # NoBg /\ p \in in.bgs[bgOf[p]].players)
    BY <1>4, <2>2
  <2> QED
    BY <2>1, <2>2
<1> HIDE DEF out
<1>6. r \in States /\ Sound(r, q)
  BY <1>3, <1>5, OutSound
<1> HIDE DEF r
<1>7. St' = r
  BY <1>2, <1>6, StBecomes
<1> QED
  BY <1>2, <1>6, <1>7

LEMMA LoginSound ==
  ASSUME QueueInv, NEW p \in Players, Login(p)
  PROVE  Sound(St', online')
<1> DEFINE b == bgOf[p]
           q == [online EXCEPT ![p] = "world"]
           inside == b # NoBg /\ p \in bgs[b].players
<1>1. /\ Sound(St, online) /\ St \in States /\ online \in Onlines /\ St.bgs = bgs
      /\ bgOf \in [Players -> Ids \cup {NoBg}] /\ St.bgOf = bgOf
      /\ bgs \in [Ids -> Battleground]
  BY StParts
<1>2. /\ online[p] = "offline" /\ online' = q
      /\ IF inside /\ bgs[b].status # "leave"
         THEN Becomes([St EXCEPT !.qid[p] = b, !.bgs[b].offline = RemoveFirst(@, p)])
         ELSE Becomes([(IF inside THEN RemovePlayerAtLeave(St, p, b, FALSE) ELSE St)
                        EXCEPT !.bgOf[p] = NoBg])
  BY DEF Login
<1>3. q \in Onlines /\ q[p] = "world" /\ \A x \in Players \ {p} : q[x] = online[x]
  BY <1>1 DEF Onlines
<1> HIDE DEF q
<1>4. PlayerSound(St, online, p)
  BY <1>1 DEF Sound, PlayersSound
<1>5. ~ InQueue(St, p)
  BY <1>2, <1>4 DEF PlayerSound
<1>6. CASE inside /\ bgs[b].status # "leave"
  <2> DEFINE s == RemoveFirst(bgs[b].offline, p)
             m == [St EXCEPT !.bgs[b].offline = s]
             r == [m EXCEPT !.qid[p] = b]
  <2>1. b \in Ids
    BY <1>1, <1>6
  <2>2. bgs[b].status # "none"
    BY <1>1, <1>6, <2>1, ParticipantAlive
  <2>3. s \in Seq(Players)
    BY <1>1, <2>1, RemoveFirstIn DEF Battleground
  <2>4. Becomes(r)
    <3>1. r = [St EXCEPT !.qid[p] = b, !.bgs[b].offline = RemoveFirst(@, p)]
      BY <1>1 DEF States
    <3> QED
      BY <1>2, <1>6, <3>1
  <2> HIDE DEF s
  <2>5. Sound(m, online)
    BY <1>1, <2>1, <2>2, <2>3, OfflineSound
  <2>6. m.info = St.info /\ m.bgOf = St.bgOf
    BY <1>1 DEF States
  <2> HIDE DEF m, b
  <2>7. m \in States
    BY <2>5 DEF Sound
  <2>8. /\ r \in States /\ r.queue = m.queue /\ r.info = m.info /\ r.bgs = m.bgs
        /\ r.events = m.events /\ r.bgOf = m.bgOf
        /\ \A x \in Players \ {p} : r.qid[x] = m.qid[x]
    BY <2>1, <2>7 DEF States
  <2> HIDE DEF r
  <2>9. PlayerSound(m, online, p)
    BY <2>5 DEF Sound, PlayersSound
  <2>10. Others(p, m, online, r, q)
    BY <1>3, <2>8 DEF Others
  <2>11. \A x \in Ids, t \in Teams : p \in Comers(r, q, x, t) <=> p \in Comers(m, online, x, t)
    BY <1>2, <1>3, <2>8 DEF Comers
  <2>12. Uncounted(p, m, online, r, q)
    BY <2>8, <2>11 DEF Uncounted
  <2>13. GroupsLeft(p, m, r)
    BY <2>8 DEF GroupsLeft, GroupsOf
  <2>14. PlayerSound(r, q, p)
    BY <1>3, <1>5, <2>6, <2>8, <2>9 DEF PlayerSound, InQueue
  <2>15. DeletedSound(r)
    BY <2>5, <2>8 DEF Sound, DeletedSound
  <2>16. Sound(r, q)
    BY <2>5, <2>8, <2>10, <2>12, <2>13, <2>14, <2>15, OneSound
  <2>17. St' = r
    BY <2>4, <2>8, StBecomes
  <2> QED
    BY <1>2, <2>16, <2>17
<1>7. CASE ~ (inside /\ bgs[b].status # "leave")
  <2> DEFINE m == IF inside THEN RemovePlayerAtLeave(St, p, b, FALSE) ELSE St
             r == [m EXCEPT !.bgOf[p] = NoBg]
  <2>1. Becomes(r)
    BY <1>2, <1>7
  <2>2. Sound(m, online)
    <3>1. inside => b \in Ids
      BY <1>1
    <3>2. inside => p \in St.bgs[b].players
      BY <1>1
    <3> HIDE DEF b
    <3> QED
      BY <1>1, <3>1, <3>2, LeaveSound
  <2>3. \A x \in Ids : p \notin m.bgs[x].players
    <3>1. CASE inside
      <4>1. b \in Ids /\ TeamOf[p] \in Teams
        BY <1>1, <3>1, PlayersAssumption
      <4>2. p \in Comers(St, online, b, TeamOf[p])
        BY <1>1, <3>1 DEF Comers, Of
      <4>3. St.bgs[b].invited[TeamOf[p]] >= 1
        BY <1>1, <4>1, <4>2, Counted
      <4>4. /\ \A x \in Ids : x # b => m.bgs[x] = bgs[x]
            /\ m.bgs[b].players = bgs[b].players \ {p}
        <5> DEFINE c == FALSE
                   l == RemovePlayerAtLeave(St, p, b, c)
        <5>1. c \in BOOLEAN /\ St \in States
          BY <1>1
        <5> HIDE DEF b, c
        <5>2. /\ \A x \in Ids : x # b => l.bgs[x] = St.bgs[x]
              /\ l.bgs[b].players = St.bgs[b].players \ {p}
          BY <4>1, <4>3, <5>1, LeaveBattlegrounds
        <5> QED
          BY <1>1, <3>1, <5>2 DEF b, c
      <4>5. \A x \in Ids : p \in bgs[x].players => x = b
        BY <1>1, <1>4 DEF PlayerSound
      <4> HIDE DEF m
      <4> QED
        BY <4>4, <4>5
    <3>2. CASE ~ inside
      <4>1. m = St
        BY <3>2
      <4>2. \A x \in Ids : p \in bgs[x].players => bgOf[p] = x
        BY <1>1, <1>4 DEF PlayerSound
      <4>3. NoBg \notin Ids
        BY DEF Ids, NoBg
      <4> HIDE DEF m
      <4> QED
        BY <1>1, <3>2, <4>1, <4>2, <4>3
    <3> QED
      BY <3>1, <3>2
  <2> HIDE DEF m
  <2>4. m \in States
    BY <2>2 DEF Sound
  <2>5. /\ r \in States /\ r.queue = m.queue /\ r.info = m.info /\ r.bgs = m.bgs
        /\ r.events = m.events /\ r.qid = m.qid
        /\ \A x \in Players \ {p} : r.bgOf[x] = m.bgOf[x]
    BY <2>4 DEF States
  <2> HIDE DEF r
  <2>6. PlayerSound(m, online, p)
    BY <2>2 DEF Sound, PlayersSound
  <2>7. ~ InQueue(m, p)
    BY <1>2, <2>6 DEF PlayerSound
  <2>8. Others(p, m, online, r, q)
    BY <1>3, <2>5 DEF Others
  <2>9. \A x \in Ids, t \in Teams : p \notin Comers(r, q, x, t) /\ p \notin Comers(m, online, x, t)
    BY <1>2, <1>3, <2>3, <2>5, <2>7 DEF Comers, InQueue, NotQueued, Ids
  <2>10. Uncounted(p, m, online, r, q)
    BY <2>5, <2>9 DEF Uncounted
  <2>11. GroupsLeft(p, m, r)
    BY <2>5 DEF GroupsLeft, GroupsOf
  <2>12. PlayerSound(r, q, p)
    BY <1>3, <2>3, <2>5, <2>7 DEF PlayerSound, InQueue
  <2>13. DeletedSound(r)
    BY <2>2, <2>5 DEF Sound, DeletedSound
  <2>14. Sound(r, q)
    BY <2>2, <2>5, <2>8, <2>10, <2>11, <2>12, <2>13, OneSound
  <2>15. St' = r
    BY <2>1, <2>5, StBecomes
  <2> QED
    BY <1>2, <2>14, <2>15
<1> QED
  BY <1>6, <1>7
-----------------------------------------------------------------------------
(* The steps of the battlegrounds.                                         *)

\* Only the status of b changes, and it is not deleted.
LEMMA StatusSound ==
  ASSUME NEW st, NEW o, Sound(st, o), NEW b \in Ids, NEW v \in {"join", "progress", "leave"},
         NEW f \in Seq(Ids)
  PROVE  Sound([st EXCEPT !.bgs[b].status = v, !.free = f], o)
<1> DEFINE bg == [st.bgs[b] EXCEPT !.status = v]
           r == [st EXCEPT !.bgs[b].status = v, !.free = f]
<1>1. st \in States /\ st.bgs \in [Ids -> Battleground]
  BY DEF Sound, States
<1>2. /\ bg \in Battleground /\ bg.status = v /\ bg.invited = st.bgs[b].invited
      /\ bg.players = st.bgs[b].players
  BY <1>1 DEF Battleground
<1>3. /\ r.queue = st.queue /\ r.info = st.info /\ r.events = st.events /\ r.qid = st.qid
      /\ r.bgOf = st.bgOf /\ r.bgs = [st.bgs EXCEPT ![b] = bg]
  BY <1>1 DEF States
<1> HIDE DEF bg
<1>4. r \in States
  BY <1>1, <1>2, <1>3 DEF States
<1> HIDE DEF r
<1>5. r.bgs[b] = bg /\ \A x \in Ids : x # b => r.bgs[x] = st.bgs[x]
  BY <1>1, <1>3
<1>6. DeletedSound(r)
  <2> SUFFICES ASSUME NEW x \in Ids, r.bgs[x].status = "none" PROVE r.bgs[x] = NoBattleground
    BY DEF DeletedSound
  <2>1. x # b
    BY <1>2, <1>5
  <2> QED
    BY <1>5, <2>1 DEF Sound, DeletedSound
<1>7. \A x \in Ids : /\ r.bgs[x].players = st.bgs[x].players
                     /\ \A t \in Teams : r.bgs[x].invited[t] = st.bgs[x].invited[t]
  BY <1>2, <1>5
<1>8. Sound(r, o)
  BY <1>3, <1>4, <1>6, <1>7, NobodySound
<1> QED
  BY <1>8 DEF r

LEMMA EndBattlegroundSound ==
  ASSUME QueueInv, NEW b \in Ids, EndBattleground(b)
  PROVE  Sound(St', online')
<1> DEFINE f == RemoveFirst(freeSlots, b)
           v == "leave"
           r == [St EXCEPT !.bgs[b].status = v, !.free = f]
<1>1. /\ Sound(St, online) /\ freeSlots \in Seq(Ids) /\ St \in States
      /\ St.queue = queue /\ St.info = info /\ St.bgs = bgs /\ St.free = freeSlots
      /\ St.events = events /\ St.scheduled = scheduled /\ St.qid = qid /\ St.bgOf = bgOf
  BY StParts DEF QueueInv, QueueTypeOK
<1>2. f \in Seq(Ids) /\ v \in {"join", "progress", "leave"}
  BY <1>1, RemoveFirstIn
<1>3. /\ bgs' = [bgs EXCEPT ![b].status = v] /\ freeSlots' = f
      /\ UNCHANGED <<queue, info, events, scheduled, qid, bgOf>> /\ online' = online
  BY DEF EndBattleground
<1> HIDE DEF f, v
<1>4. /\ r.queue = St.queue /\ r.info = St.info /\ r.events = St.events /\ r.qid = St.qid
      /\ r.bgOf = St.bgOf /\ r.scheduled = St.scheduled /\ r.free = f
      /\ r.bgs = [St.bgs EXCEPT ![b].status = v]
  BY <1>1 DEF States
<1>5. Sound(r, online)
  BY <1>1, <1>2, StatusSound
<1> HIDE DEF r
<1>6. Becomes(r) /\ r \in States
  BY <1>1, <1>3, <1>4, <1>5 DEF Becomes, Sound
<1>7. St' = r
  BY <1>6, StBecomes
<1> QED
  BY <1>3, <1>5, <1>7

LEMMA StartSound ==
  ASSUME QueueInv, NEW b \in Ids, Start(b)
  PROVE  Sound(St', online')
<1> DEFINE v == "progress"
           r == [St EXCEPT !.bgs[b].status = v]
           m == [St EXCEPT !.bgs[b].status = v, !.free = freeSlots]
<1>1. /\ Sound(St, online) /\ freeSlots \in Seq(Ids) /\ St \in States /\ St.free = freeSlots
  BY StParts DEF QueueInv, QueueTypeOK
<1>2. v \in {"join", "progress", "leave"}
  OBVIOUS
<1>3. Becomes(r) /\ online' = online
  BY DEF Start, Updates
<1> HIDE DEF v
<1>4. /\ r.queue = m.queue /\ r.info = m.info /\ r.events = m.events /\ r.qid = m.qid
      /\ r.bgOf = m.bgOf /\ r.scheduled = m.scheduled /\ r.free = m.free /\ r.bgs = m.bgs
  BY <1>1 DEF States
<1>5. Sound(m, online)
  BY <1>1, <1>2, StatusSound
<1> HIDE DEF r, m
<1>6. Becomes(m) /\ m \in States
  BY <1>3, <1>4, <1>5 DEF Becomes, Sound
<1>7. St' = m
  BY <1>6, StBecomes
<1> QED
  BY <1>3, <1>5, <1>7

LEMMA DeleteSound ==
  ASSUME QueueInv, NEW b \in Ids, Delete(b)
  PROVE  Sound(St', online')
<1> DEFINE f == RemoveFirst(freeSlots, b)
           r == [St EXCEPT !.bgs[b] = NoBattleground, !.free = f]
<1>1. /\ Sound(St, online) /\ freeSlots \in Seq(Ids) /\ St \in States /\ St.bgs = bgs
      /\ bgs \in [Ids -> Battleground]
  BY StParts DEF QueueInv, QueueTypeOK
<1>2. f \in Seq(Ids)
  BY <1>1, RemoveFirstIn
<1>3. /\ online' = online /\ bgs[b].players = {} /\ \A t \in Teams : bgs[b].invited[t] = 0
      /\ Becomes([St EXCEPT !.bgs[b] = NoBattleground, !.free = RemoveFirst(@, b)])
  BY DEF Delete, Updates, Abandoned
<1>4. Becomes(r)
  <2>1. r = [St EXCEPT !.bgs[b] = NoBattleground, !.free = RemoveFirst(@, b)]
    BY DEF St
  <2> QED
    BY <1>3, <2>1
<1> HIDE DEF f
<1>5. NoBattleground \in Battleground
  BY DEF NoBattleground, Battleground
<1>6. /\ r.queue = St.queue /\ r.info = St.info /\ r.events = St.events /\ r.qid = St.qid
      /\ r.bgOf = St.bgOf /\ r.bgs = [bgs EXCEPT ![b] = NoBattleground]
      /\ r \in States
  BY <1>1, <1>2, <1>5 DEF States
<1> HIDE DEF r
<1>7. r.bgs[b] = NoBattleground /\ \A x \in Ids : x # b => r.bgs[x] = bgs[x]
  BY <1>1, <1>6
<1>8. NoBattleground.players = {} /\ \A t \in Teams : NoBattleground.invited[t] = 0
  BY DEF NoBattleground
<1>9. DeletedSound(r)
  BY <1>1, <1>7 DEF Sound, DeletedSound
<1>10. \A x \in Ids : /\ r.bgs[x].players = St.bgs[x].players
                      /\ \A t \in Teams : r.bgs[x].invited[t] = St.bgs[x].invited[t]
  BY <1>1, <1>3, <1>7, <1>8
<1>11. Sound(r, online)
  BY <1>1, <1>6, <1>9, <1>10, NobodySound
<1>12. St' = r
  BY <1>4, <1>6, StBecomes
<1> QED
  BY <1>3, <1>11, <1>12

LEMMA RemoveOfflineSound ==
  ASSUME QueueInv, NEW b \in Ids, RemoveOffline(b)
  PROVE  Sound(St', online')
<1> DEFINE p == Head(bgs[b].offline)
           c == online[p] # "offline"
           m == RemovePlayerAtLeave(St, p, b, c)
           s == Tail(m.bgs[b].offline)
           r == [m EXCEPT !.bgs[b].offline = s]
<1>1. /\ Sound(St, online) /\ online \in Onlines /\ St \in States /\ St.bgs = bgs
      /\ bgs \in [Ids -> Battleground]
  BY StParts
<1>2. /\ online' = online /\ bgs[b].status = "progress" /\ bgs[b].offline # <<>>
      /\ p \in bgs[b].players
      /\ Becomes([m EXCEPT !.bgs[b].offline = Tail(@)])
  BY DEF RemoveOffline, Updates
<1>3. p \in Players /\ c \in BOOLEAN /\ TeamOf[p] \in Teams
  BY <1>1, <1>2, PlayersAssumption DEF Battleground
<1> HIDE DEF p, c
<1>4. Sound(m, online)
  BY <1>1, <1>2, <1>3, LeaveSound
<1>5. St.bgs[b].invited[TeamOf[p]] >= 1
  <2>1. p \in Comers(St, online, b, TeamOf[p])
    BY <1>1, <1>2, <1>3 DEF Comers, Of
  <2> QED
    BY <1>1, <1>3, <2>1, Counted
<1>6. m.bgs[b].status = "progress" /\ m.bgs[b].offline = bgs[b].offline
  BY <1>1, <1>2, <1>3, <1>5, LeaveBattlegrounds
<1>7. m.bgs \in [Ids -> Battleground]
  BY <1>4 DEF Sound, States
<1> HIDE DEF m
<1>8. s \in Seq(Players)
  <2>1. bgs[b].offline \in Seq(Players)
    BY <1>1 DEF Battleground
  <2> QED
    BY <1>2, <1>6, <2>1
<1>9. Becomes(r)
  BY <1>2
<1> HIDE DEF s
<1>10. Sound(r, online)
  BY <1>4, <1>6, <1>8, OfflineSound
<1>11. r \in States
  BY <1>10 DEF Sound
<1> HIDE DEF r
<1>12. St' = r
  BY <1>9, <1>11, StBecomes
<1> QED
  BY <1>2, <1>10, <1>12

\* FoldSet picks its elements with CHOOSE.
Choice(S) == [s \in SUBSET S |-> CHOOSE x \in s : TRUE]

LEMMA ChoicePicks ==
  ASSUME NEW S
  PROVE  Picks(Choice(S), S) /\ \A s \in SUBSET S : Choice(S)[s] = CHOOSE x \in s : TRUE
BY DEF Picks, Choice

Leaves(st, p, b) == RemovePlayerAtLeave(st, p, b, online[p] # "offline")

LEMMA LeavesSound ==
  ASSUME NEW st, online \in Onlines, Sound(st, online), NEW b \in Ids, NEW p \in st.bgs[b].players
  PROVE  /\ Sound(Leaves(st, p, b), online) /\ Leaves(st, p, b) \in States
         /\ Leaves(st, p, b).bgs[b].players = st.bgs[b].players \ {p}
<1> DEFINE c == online[p] # "offline"
<1>1. /\ st \in States /\ p \in Players /\ c \in BOOLEAN /\ TeamOf[p] \in Teams
      /\ st.bgs \in [Ids -> Battleground]
  BY PlayersAssumption DEF Sound, States, Battleground
<1>2. p \in Comers(st, online, b, TeamOf[p])
  BY <1>1 DEF Comers, Of
<1>3. st.bgs[b].invited[TeamOf[p]] >= 1
  BY <1>1, <1>2, Counted
<1>4. Leaves(st, p, b) = RemovePlayerAtLeave(st, p, b, c)
  BY Zenon DEF Leaves
<1> HIDE DEF c
<1> DEFINE r == RemovePlayerAtLeave(st, p, b, c)
<1>5. Sound(r, online)
  BY <1>1, LeaveSound
<1>6. /\ \A x \in Ids : x # b => r.bgs[x] = st.bgs[x]
      /\ r.bgs[b].status = st.bgs[b].status
      /\ r.bgs[b].players = st.bgs[b].players \ {p}
      /\ r.bgs[b].offline = st.bgs[b].offline
      /\ \A t \in Teams : r.bgs[b].invited[t] =
                           IF t = TeamOf[p] THEN st.bgs[b].invited[t] - 1
                           ELSE st.bgs[b].invited[t]
  BY <1>1, <1>3, LeaveBattlegrounds
<1> HIDE DEF r
<1>7. r \in States
  BY <1>5 DEF Sound
<1>8. Leaves(st, p, b) = r
  BY <1>4 DEF r
<1> QED
  BY <1>5, <1>6, <1>7, <1>8

RemovingAll(g, S, st, b) ==
  g = [s \in SUBSET S |->
         IF s = {} THEN st ELSE Leaves(g[s \ {CHOOSE x \in s : TRUE}], CHOOSE x \in s : TRUE, b)]

AllRemoved(S, st, b) ==
  FoldSet(LAMBDA p, r : RemovePlayerAtLeave(r, p, b, online[p] # "offline"), st, S)

LEMMA RemoveAllDef ==
  ASSUME NEW S, NEW st, NEW b
  PROVE  AllRemoved(S, st, b) = (CHOOSE g : RemovingAll(g, S, st, b))[S]
BY DEF AllRemoved, FoldSet, MapThenFoldSet, RemovingAll, Leaves

LEMMA RemoveAllSound ==
  ASSUME QueueInv, NEW b \in Ids, RemoveAll(b)
  PROVE  Sound(St', online')
<1> DEFINE S == bgs[b].players
           c == Choice(S)
           Kept == [s \in SUBSET S |->
                      {v \in States : Sound(v, online) /\ v.bgs[b].players = S \ s}]
           H == [xv \in S \X States |-> Leaves(xv[2], xv[1], b)]
           r == AllRemoved(S, St, b)
<1>1. /\ Sound(St, online) /\ online \in Onlines /\ St \in States /\ St.bgs = bgs
      /\ bgs \in [Ids -> Battleground]
  BY StParts
<1>2. Becomes(r) /\ online' = online
  BY DEF RemoveAll, Updates, AllRemoved, FoldSet, MapThenFoldSet
<1>3. IsFiniteSet(S)
  <2>1. S \subseteq Players
    BY <1>1 DEF Battleground
  <2> HIDE DEF S
  <2> QED
    BY <2>1, PlayersAssumption, FS_Subset
<1>4. Picks(c, S) /\ \A s \in SUBSET S : c[s] = CHOOSE x \in s : TRUE
  BY ChoicePicks
<1>5. St \in Kept[{}]
  BY <1>1
<1>6. ASSUME NEW s \in SUBSET S, s # {}, NEW v \in Kept[s \ {c[s]}]
      PROVE  /\ v \in States /\ H[<<c[s], v>>] = Leaves(v, c[s], b)
             /\ Leaves(v, c[s], b) \in Kept[s]
  <2>1. c[s] \in s
    BY <1>4, <1>6 DEF Picks
  <2> HIDE DEF c
  <2>2. Sound(v, online) /\ v \in States /\ v.bgs[b].players = S \ (s \ {c[s]})
    BY <1>6
  <2>3. /\ Sound(Leaves(v, c[s], b), online) /\ Leaves(v, c[s], b) \in States
        /\ Leaves(v, c[s], b).bgs[b].players = v.bgs[b].players \ {c[s]}
    BY <1>1, <2>1, <2>2, LeavesSound
  <2>4. Leaves(v, c[s], b).bgs[b].players = S \ s
    BY <2>1, <2>2, <2>3
  <2> QED
    BY <2>1, <2>2, <2>3, <2>4
<1> HIDE DEF r, c, S, H
<1>7. \E g : RemovingAll(g, S, St, b)
  <2>1. PICK g : Folds(g, S, St, c, H) /\ KeptBy(g, S, Kept)
    <3> HIDE DEF Kept
    <3>1. \A s \in SUBSET S : s # {} => \A v \in Kept[s \ {c[s]}] : H[<<c[s], v>>] \in Kept[s]
      BY <1>6
    <3> QED
      BY <1>3, <1>4, <1>5, <3>1, FoldsKept
  <2>2. \A s \in SUBSET S : g[s] \in Kept[s]
    BY <2>1 DEF KeptBy
  <2> HIDE DEF Kept
  <2>3. \A s \in SUBSET S : s # {} =>
          H[<<c[s], g[s \ {c[s]}]>>] = Leaves(g[s \ {CHOOSE x \in s : TRUE}], CHOOSE x \in s : TRUE, b)
    BY <1>4, <1>6, <2>2
  <2>4. g = [s \in SUBSET S |-> IF s = {} THEN St ELSE H[<<c[s], g[s \ {c[s]}]>>]]
    BY <2>1, Zenon DEF Folds
  <2>5. @ = [s \in SUBSET S |->
               IF s = {} THEN St
               ELSE Leaves(g[s \ {CHOOSE x \in s : TRUE}], CHOOSE x \in s : TRUE, b)]
    BY <2>3
  <2> QED
    BY <2>4, <2>5, Zenon DEF RemovingAll
<1> DEFINE f == CHOOSE g : RemovingAll(g, S, St, b)
<1>8. RemovingAll(f, S, St, b)
  BY <1>7
<1>9. r = f[S]
  BY RemoveAllDef DEF r
<1> HIDE DEF f
<1>10. \A s \in SUBSET S : f[s] = IF s = {} THEN St ELSE Leaves(f[s \ {c[s]}], c[s], b)
  <2> DEFINE h == [s \in SUBSET S |->
                     IF s = {} THEN St
                     ELSE Leaves(f[s \ {CHOOSE x \in s : TRUE}], CHOOSE x \in s : TRUE, b)]
  <2>1. f = h
    BY <1>8, Zenon DEF RemovingAll
  <2>2. \A s \in SUBSET S : h[s] = IF s = {} THEN St ELSE Leaves(f[s \ {c[s]}], c[s], b)
    BY <1>4
  <2> HIDE DEF h
  <2> QED
    BY <2>1, <2>2
<1>11. f[S] \in Kept[S]
  <2> HIDE DEF Kept
  <2>1. f[{}] \in Kept[{}]
    BY <1>5, <1>10
  <2>2. \A s \in SUBSET S : s # {} /\ f[s \ {c[s]}] \in Kept[s \ {c[s]}] => f[s] \in Kept[s]
    BY <1>6, <1>10
  <2>3. KeptBy(f, S, Kept)
    BY <1>3, <1>4, <2>1, <2>2, FoldsKeeps
  <2> QED
    BY <2>3 DEF KeptBy
<1>12. Sound(r, online) /\ r \in States
  BY <1>9, <1>11
<1>13. St' = r
  BY <1>2, <1>12, StBecomes
<1> QED
  BY <1>2, <1>12, <1>13
-----------------------------------------------------------------------------
(* The events.                                                             *)

Events == [player : Players, bg : Ids, left : 1 .. AcceptTime]

\* The invitation of e.
Invitation(e) == [invited |-> e.bg, left |-> e.left]

LEMMA InvitationIn ==
  ASSUME NEW e \in Events
  PROVE  Invitation(e).invited = e.bg /\ e.bg \in Ids /\ Invitation(e) # NotInQueue
BY DEF Events, Invitation, NotInQueue, NotQueued, Ids

\* An event withdraws the invitation it was made for, and no other.
LEMMA RemoveEventSound ==
  ASSUME NEW st, online \in Onlines, Sound(st, online), NEW e \in Events
  PROVE  /\ RemoveEvent(st, e) \in States /\ Sound(RemoveEvent(st, e), online)
         /\ RemoveEvent(st, e).events = st.events
         /\ \A x \in Players : RemoveEvent(st, e).info[x] =
              IF x = e.player /\ st.info[x] = Invitation(e) THEN NotInQueue ELSE st.info[x]
<1> DEFINE p == e.player
           r == RemoveEvent(st, e)
<1>1. /\ st \in States /\ p \in Players /\ st.info \in [Players -> GroupQueueInfo]
      /\ e.bg \in Ids /\ st.scheduled \in BOOLEAN /\ GroupsSound(st)
  BY DEF Sound, States, Events
<1>2. PlayerSound(st, online, p)
  BY <1>1 DEF Sound, PlayersSound
<1>3. CASE st.info[p] # Invitation(e)
  <2>1. r = st
    BY <1>3 DEF RemoveEvent, IsPlayerInvited, Invitation
  <2> HIDE DEF r
  <2> QED
    BY <1>1, <1>3, <2>1 DEF r
<1>4. CASE st.info[p] = Invitation(e)
  <2>1. st.info[p].invited = e.bg /\ InQueue(st, p)
    BY <1>1, <1>4, InvitationIn DEF InQueue, NotQueued, Ids
  <2>2. online[p] # "offline" /\ st.qid[p] # NotQueued
    BY <1>1, <1>2, <2>1 DEF PlayerSound, NotQueued, Ids
  <2> DEFINE m == RemovePlayer(st, p, TRUE)
             v == m.scheduled \/ st.bgs[e.bg].status \in {"join", "progress"}
             k == [m EXCEPT !.qid[p] = NotQueued, !.scheduled = v]
  <2>3. r = [m EXCEPT !.qid[p] = NotQueued,
                      !.scheduled = @ \/ st.bgs[e.bg].status \in {"join", "progress"}]
    BY <1>4, <2>2 DEF RemoveEvent, IsPlayerInvited, Invitation
  <2>4. /\ m \in States /\ m.info = [st.info EXCEPT ![p] = NotInQueue]
        /\ m.events = st.events
    <3>1. Alive(st, st.info[p].invited) => st.bgs[st.info[p].invited].invited[TeamOf[p]] >= 1
      BY <1>1, <2>1, RemoveCondition
    <3>2. Removed(m, st, p, TRUE)
      BY <1>1, <2>1, <3>1, RemovePlayerDoes
    <3> HIDE DEF m
    <3> QED
      BY <3>2 DEF Removed
  <2>5. v \in BOOLEAN
    OBVIOUS
  <2>6. r = k
    BY <2>3, <2>4 DEF States
  <2> HIDE DEF v, p
  <2>7. k \in States /\ Sound(k, online) /\ k.info = [st.info EXCEPT ![p] = NotInQueue]
        /\ k.events = st.events
    <3>1. v \in BOOLEAN /\ Sound(st, online) /\ p \in Players /\ InQueue(st, p)
      BY <1>1, <2>1, <2>5
    <3>2. k \in States
      BY <3>1, WithdrawnSound
    <3>3. Sound(k, online)
      BY <3>1, WithdrawnSound
    <3> HIDE DEF m
    <3>4. k.info = m.info /\ k.events = m.events
      BY <2>4 DEF States
    <3> QED
      BY <2>4, <3>2, <3>3, <3>4
  <2> HIDE DEF r, k
  <2>8. \A x \in Players : r.info[x] =
          IF x = p /\ st.info[x] = Invitation(e) THEN NotInQueue ELSE st.info[x]
    BY <1>1, <1>4, <2>6, <2>7
  <2> QED
    BY <2>6, <2>7, <2>8 DEF r, p
<1> QED
  BY <1>3, <1>4

Withdrawing(g, S, st) ==
  g = [s \in SUBSET S |->
         IF s = {} THEN st ELSE RemoveEvent(g[s \ {CHOOSE x \in s : TRUE}], CHOOSE x \in s : TRUE)]

EventsRun(S, st) == FoldSet(LAMBDA e, r : RemoveEvent(r, e), st, S)

LEMMA EventsRunDef ==
  ASSUME NEW S, NEW st
  PROVE  EventsRun(S, st) = (CHOOSE g : Withdrawing(g, S, st))[S]
BY DEF EventsRun, FoldSet, MapThenFoldSet, Withdrawing

\* An event of S is the one of the invitation of x.
Withdrawn(S, x) == \E e \in S : e.player = x /\ info[x] = Invitation(e)

Due == {e \in events : e.left = 1}

LEMMA DueFinite ==
  ASSUME QueueTypeOK
  PROVE  IsFiniteSet(Due) /\ Due \subseteq Events /\ Due \subseteq events
<1>1. Due \subseteq Events
  BY DEF Due, Events, QueueTypeOK
<1>2. IsFiniteSet(Players \X Ids)
  <2>1. IsFiniteSet(Ids)
    BY FS_Interval, BoundAssumption DEF Ids
  <2> QED
    BY <2>1, PlayersAssumption, FS_Product
<1> DEFINE f == [e \in Due |-> <<e.player, e.bg>>]
<1>3. f \in Injection(Due, Players \X Ids)
  <2>1. f \in [Due -> Players \X Ids]
    BY <1>1 DEF Events
  <2>2. ASSUME NEW a \in Due, NEW b \in Due, f[a] = f[b] PROVE a = b
    <3>1. a.player = b.player /\ a.bg = b.bg /\ a.left = 1 /\ b.left = 1
      BY <2>2 DEF Due
    <3> QED
      BY <1>1, <3>1 DEF Events
  <2> HIDE DEF f
  <2>3. DOMAIN f = Due
    BY <2>1
  <2> QED
    BY <2>1, <2>2, <2>3 DEF Injection, IsInjective
<1> HIDE DEF f
<1>4. IsFiniteSet(Due)
  BY <1>2, <1>3, FS_Injection
<1> QED
  BY <1>1, <1>4 DEF Due

LEMMA EventsRunSound ==
  ASSUME QueueInv
  PROVE  /\ EventsRun(Due, St) \in States /\ Sound(EventsRun(Due, St), online)
         /\ EventsRun(Due, St).events = events
         /\ \A x \in Players :
              EventsRun(Due, St).info[x] = IF Withdrawn(Due, x) THEN NotInQueue ELSE info[x]
<1> DEFINE S == Due
           c == Choice(S)
           Kept == [s \in SUBSET S |->
                      {v \in States :
                         /\ Sound(v, online) /\ v.events = events
                         /\ \A x \in Players :
                              v.info[x] = IF Withdrawn(s, x) THEN NotInQueue ELSE info[x]}]
           H == [xv \in S \X States |-> RemoveEvent(xv[2], xv[1])]
<1>1. /\ Sound(St, online) /\ online \in Onlines /\ St \in States /\ St.info = info
      /\ St.events = events
  BY StParts
<1>3. IsFiniteSet(S) /\ S \subseteq Events
  BY DueFinite DEF QueueInv
<1>4. Picks(c, S) /\ \A s \in SUBSET S : c[s] = CHOOSE x \in s : TRUE
  BY ChoicePicks
<1>5. St \in Kept[{}]
  <2>1. \A x \in Players : ~ Withdrawn({}, x)
    BY DEF Withdrawn
  <2> QED
    BY <1>1, <2>1
<1> HIDE DEF c, S
<1>6. ASSUME NEW s \in SUBSET S, s # {}, NEW v \in Kept[s \ {c[s]}]
      PROVE  /\ v \in States /\ H[<<c[s], v>>] = RemoveEvent(v, c[s])
             /\ RemoveEvent(v, c[s]) \in Kept[s]
  <2> DEFINE e == c[s]
  <2>1. e \in s /\ e \in S /\ e \in Events
    BY <1>3, <1>4, <1>6 DEF Picks
  <2> HIDE DEF e
  <2>2. /\ Sound(v, online) /\ v \in States /\ v.events = events
        /\ \A x \in Players :
             v.info[x] = IF Withdrawn(s \ {e}, x) THEN NotInQueue ELSE info[x]
    BY <1>6 DEF e
  <2>3. H[<<e, v>>] = RemoveEvent(v, e)
    BY <2>1, <2>2
  <2>4. /\ RemoveEvent(v, e) \in States /\ Sound(RemoveEvent(v, e), online)
        /\ RemoveEvent(v, e).events = v.events
        /\ \A x \in Players : RemoveEvent(v, e).info[x] =
             IF x = e.player /\ v.info[x] = Invitation(e) THEN NotInQueue ELSE v.info[x]
    BY <1>1, <2>1, <2>2, RemoveEventSound
  <2>5. \A x \in Players :
          RemoveEvent(v, e).info[x] = IF Withdrawn(s, x) THEN NotInQueue ELSE info[x]
    <3> SUFFICES ASSUME NEW x \in Players
                 PROVE RemoveEvent(v, e).info[x] = IF Withdrawn(s, x) THEN NotInQueue ELSE info[x]
      OBVIOUS
    <3>1. Withdrawn(s, x) <=> Withdrawn(s \ {e}, x) \/ (x = e.player /\ info[x] = Invitation(e))
      BY <2>1 DEF Withdrawn
    <3>2. Invitation(e) # NotInQueue
      BY <2>1, InvitationIn
    <3> QED
      BY <2>2, <2>4, <3>1, <3>2
  <2>6. RemoveEvent(v, e) \in Kept[s]
    BY <2>2, <2>4, <2>5
  <2> QED
    BY <2>2, <2>3, <2>6 DEF e
<1> HIDE DEF H
<1>7. \E g : Withdrawing(g, S, St)
  <2>1. PICK g : Folds(g, S, St, c, H) /\ KeptBy(g, S, Kept)
    <3> HIDE DEF Kept
    <3>1. \A s \in SUBSET S : s # {} => \A v \in Kept[s \ {c[s]}] : H[<<c[s], v>>] \in Kept[s]
      BY <1>6
    <3> QED
      BY <1>3, <1>4, <1>5, <3>1, FoldsKept
  <2>2. \A s \in SUBSET S : g[s] \in Kept[s]
    BY <2>1 DEF KeptBy
  <2> HIDE DEF Kept
  <2>3. \A s \in SUBSET S : s # {} =>
          H[<<c[s], g[s \ {c[s]}]>>] = RemoveEvent(g[s \ {CHOOSE x \in s : TRUE}], CHOOSE x \in s : TRUE)
    BY <1>4, <1>6, <2>2
  <2>4. g = [s \in SUBSET S |-> IF s = {} THEN St ELSE H[<<c[s], g[s \ {c[s]}]>>]]
    BY <2>1, Zenon DEF Folds
  <2>5. @ = [s \in SUBSET S |->
               IF s = {} THEN St
               ELSE RemoveEvent(g[s \ {CHOOSE x \in s : TRUE}], CHOOSE x \in s : TRUE)]
    BY <2>3
  <2> QED
    BY <2>4, <2>5, Zenon DEF Withdrawing
<1> DEFINE f == CHOOSE g : Withdrawing(g, S, St)
<1>8. Withdrawing(f, S, St)
  BY <1>7
<1>9. EventsRun(S, St) = f[S]
  BY EventsRunDef
<1> HIDE DEF f
<1>10. \A s \in SUBSET S : f[s] = IF s = {} THEN St ELSE RemoveEvent(f[s \ {c[s]}], c[s])
  <2> DEFINE h == [s \in SUBSET S |->
                     IF s = {} THEN St
                     ELSE RemoveEvent(f[s \ {CHOOSE x \in s : TRUE}], CHOOSE x \in s : TRUE)]
  <2>1. f = h
    BY <1>8, Zenon DEF Withdrawing
  <2>2. \A s \in SUBSET S : h[s] = IF s = {} THEN St ELSE RemoveEvent(f[s \ {c[s]}], c[s])
    BY <1>4
  <2> HIDE DEF h
  <2> QED
    BY <2>1, <2>2
<1>11. f[S] \in Kept[S]
  <2> HIDE DEF Kept
  <2>1. f[{}] \in Kept[{}]
    BY <1>5, <1>10
  <2>2. \A s \in SUBSET S : s # {} /\ f[s \ {c[s]}] \in Kept[s \ {c[s]}] => f[s] \in Kept[s]
    BY <1>6, <1>10
  <2>3. KeptBy(f, S, Kept)
    BY <1>3, <1>4, <2>1, <2>2, FoldsKeeps
  <2> QED
    BY <2>3 DEF KeptBy
<1> QED
  BY <1>9, <1>11 DEF S

\* Nobody moves: only what is left of the invitations changes.
LEMMA TimeSound ==
  ASSUME NEW st, NEW o, NEW r, Sound(st, o), r \in States,
         r.queue = st.queue, r.bgs = st.bgs, r.qid = st.qid, r.bgOf = st.bgOf,
         \A x \in Players : r.info[x].invited = st.info[x].invited, EventsSound(r)
  PROVE  Sound(r, o)
<1>1. GroupsSound(r)
  <2> SUFFICES ASSUME NEW t \in Teams, NEW g \in GroupsOf(r, t)
               PROVE  /\ g \subseteq Of(Players, t) /\ Cardinality(g) <= MaxPlayersPerTeam
                      /\ \A p \in g : InQueue(r, p)
                      /\ \A p, q \in g : r.info[p].invited = r.info[q].invited
                      /\ \A h \in GroupsOf(r, t) : g = h \/ g \cap h = {}
    BY DEF GroupsSound
  <2>1. GroupsOf(r, t) = GroupsOf(st, t)
    BY DEF GroupsOf
  <2>2. g \subseteq Players
    BY <2>1 DEF Sound, GroupsSound, Of
  <2> QED
    BY <2>1, <2>2 DEF Sound, GroupsSound, InQueue
<1>2. CountsSound(r, o)
  <2> SUFFICES ASSUME NEW b \in Ids, NEW t \in Teams
               PROVE  Comers(r, o, b, t) = Comers(st, o, b, t)
    BY DEF Sound, CountsSound
  <2> QED
    BY DEF Comers, Of
<1>3. PlayersSound(r, o)
  BY DEF Sound, PlayersSound, PlayerSound, InQueue
<1>4. DeletedSound(r)
  BY DEF Sound, DeletedSound
<1> QED
  BY <1>1, <1>2, <1>3, <1>4 DEF Sound

\* The events that are due withdraw the invitations whose time is over.
LEMMA UpdateEventsSound ==
  ASSUME QueueInv, UpdateEvents
  PROVE  /\ Sound(St', online')
         /\ \A p \in Players :
              info[p].invited \in Ids => (InQueue(St, p)' <=> info[p].left > 1)
<1> DEFINE m == EventsRun(Due, St)
           es == {Later(e) : e \in events \ Due}
           is == [p \in Players |-> Later(m.info[p])]
           r == [m EXCEPT !.events = es, !.info = is]
<1>1. /\ Sound(St, online) /\ St \in States /\ St.info = info /\ St.events = events
      /\ info \in [Players -> GroupQueueInfo]
  BY StParts
<1>2. events \subseteq Events
  BY DEF QueueInv, QueueTypeOK, Events
<1>3. /\ m \in States /\ Sound(m, online) /\ m.events = events
      /\ \A x \in Players : m.info[x] = IF Withdrawn(Due, x) THEN NotInQueue ELSE info[x]
  BY EventsRunSound
<1>4. online' = online /\ Becomes(r)
  BY DEF UpdateEvents, EventsRun, FoldSet, MapThenFoldSet, Due
<1> HIDE DEF m
<1>5. m.info \in [Players -> GroupQueueInfo]
  BY <1>3 DEF States
<1>6. \A p \in Players :
        /\ is[p].invited = m.info[p].invited /\ is[p].left = Larger(m.info[p].left - 1, 0)
        /\ is[p] \in GroupQueueInfo
  <2> SUFFICES ASSUME NEW p \in Players
               PROVE  /\ is[p].invited = m.info[p].invited
                      /\ is[p].left = Larger(m.info[p].left - 1, 0)
                      /\ is[p] \in GroupQueueInfo
    OBVIOUS
  <2> DEFINE i == m.info[p]
  <2>1. is[p] = [i EXCEPT !.left = Larger(i.left - 1, 0)]
    BY DEF Later
  <2>2. i \in GroupQueueInfo
    BY <1>5
  <2> HIDE DEF i, is
  <2>3. Larger(i.left - 1, 0) \in 0 .. AcceptTime
    BY <2>2, BoundAssumption DEF Larger, GroupQueueInfo
  <2> QED
    BY <2>1, <2>2, <2>3 DEF GroupQueueInfo, i
<1>7. es \subseteq Events
  <2> SUFFICES ASSUME NEW e \in events \ Due PROVE Later(e) \in Events
    OBVIOUS
  <2>1. e \in Events /\ e.left # 1
    BY <1>2 DEF Due
  <2> QED
    BY <2>1, BoundAssumption DEF Events, Later, Larger
<1>8. is \in [Players -> GroupQueueInfo]
  <2>1. is = [p \in Players |-> is[p]]
    OBVIOUS
  <2> HIDE DEF is
  <2> QED
    BY <1>6, <2>1
<1>9. \A p \in Players : info[p].invited \in Ids =>
        /\ info[p].left >= 1
        /\ Withdrawn(Due, p) <=> info[p].left = 1
        /\ [player |-> p, bg |-> info[p].invited, left |-> info[p].left] \in events
  <2> SUFFICES ASSUME NEW p \in Players, info[p].invited \in Ids
               PROVE  /\ info[p].left >= 1
                      /\ Withdrawn(Due, p) <=> info[p].left = 1
                      /\ [player |-> p, bg |-> info[p].invited, left |-> info[p].left] \in events
    OBVIOUS
  <2> DEFINE e == [player |-> p, bg |-> info[p].invited, left |-> info[p].left]
  <2>1. info[p].left >= 1 /\ e \in events
    BY <1>1 DEF Sound, EventsSound
  <2>2. Withdrawn(Due, p) => info[p].left = 1
    BY DEF Withdrawn, Due, Invitation
  <2>3. ASSUME info[p].left = 1 PROVE Withdrawn(Due, p)
    <3>1. e \in Due
      BY <2>1, <2>3 DEF Due
    <3>2. info[p] = Invitation(e) /\ e.player = p
      BY <1>1 DEF Invitation, GroupQueueInfo
    <3> HIDE DEF e
    <3> QED
      BY <3>1, <3>2 DEF Withdrawn
  <2> QED
    BY <2>1, <2>2, <2>3
<1>10. NotInQueue.invited = NotQueued /\ NotQueued \notin Ids
  BY DEF NotInQueue, NotQueued, Ids
<1>11. \A p \in Players : m.info[p].invited \in Ids =>
         /\ m.info[p] = info[p] /\ info[p].left >= 2
         /\ [player |-> p, bg |-> info[p].invited, left |-> info[p].left - 1] \in es
  <2> SUFFICES ASSUME NEW p \in Players, m.info[p].invited \in Ids
               PROVE  /\ m.info[p] = info[p] /\ info[p].left >= 2
                      /\ [player |-> p, bg |-> info[p].invited, left |-> info[p].left - 1] \in es
    OBVIOUS
  <2> DEFINE e == [player |-> p, bg |-> info[p].invited, left |-> info[p].left]
  <2>1. ~ Withdrawn(Due, p) /\ m.info[p] = info[p]
    BY <1>3, <1>10
  <2>2. info[p].left \in Nat
    BY <1>1 DEF GroupQueueInfo
  <2>3. info[p].left >= 2 /\ e \in events
    BY <1>9, <2>1, <2>2
  <2>4. e \notin Due
    BY <2>2, <2>3 DEF Due
  <2>5. Later(e) = [player |-> p, bg |-> info[p].invited, left |-> info[p].left - 1]
    BY <2>2, <2>3 DEF Later, Larger
  <2> HIDE DEF e
  <2> QED
    BY <2>1, <2>3, <2>4, <2>5
<1> HIDE DEF es, is
<1>12. /\ r.queue = m.queue /\ r.bgs = m.bgs /\ r.qid = m.qid /\ r.bgOf = m.bgOf
       /\ r.info = is /\ r.events = es
  BY <1>3 DEF States
<1>13. r \in States
  BY <1>3, <1>7, <1>8 DEF States, Events
<1> HIDE DEF r
<1>14. EventsSound(r)
  <2> SUFFICES ASSUME NEW p \in Players, r.info[p].invited \in Ids
               PROVE  /\ r.info[p].left >= 1
                      /\ [player |-> p, bg |-> r.info[p].invited, left |-> r.info[p].left] \in r.events
    BY DEF EventsSound
  <2>1. /\ m.info[p] = info[p] /\ info[p].left >= 2
        /\ [player |-> p, bg |-> info[p].invited, left |-> info[p].left - 1] \in es
    BY <1>6, <1>11, <1>12
  <2>2. info[p].left \in Nat
    BY <1>1 DEF GroupQueueInfo
  <2>3. r.info[p].invited = info[p].invited /\ r.info[p].left = info[p].left - 1
    BY <1>6, <1>12, <2>1, <2>2 DEF Larger
  <2> QED
    BY <1>12, <2>1, <2>2, <2>3
<1>15. Sound(r, online)
  BY <1>3, <1>6, <1>12, <1>13, <1>14, TimeSound
<1>16. St' = r
  BY <1>4, <1>13, StBecomes
<1>17. ASSUME NEW p \in Players, info[p].invited \in Ids
       PROVE  InQueue(St, p)' <=> info[p].left > 1
  <2>1. info[p].left \in Nat
    BY <1>1 DEF GroupQueueInfo
  <2>2. info' = is
    BY <1>4, <1>12 DEF Becomes
  <2>3. InQueue(St, p)' <=> is[p].invited # NotQueued
    BY <2>2 DEF InQueue, St
  <2>0. /\ info[p].left >= 1
        /\ Withdrawn(Due, p) => info[p].left = 1
        /\ info[p].left = 1 => Withdrawn(Due, p)
    BY <1>9, <1>17, Zenon
  <2>4. CASE info[p].left = 1
    BY <1>3, <1>6, <1>10, <2>0, <2>3, <2>4
  <2>5. CASE info[p].left > 1
    <3>1. m.info[p] = info[p]
      BY <1>3, <2>0, <2>5
    <3> QED
      BY <1>6, <1>10, <1>17, <2>3, <2>5, <3>1
  <2> QED
    BY <2>0, <2>1, <2>4, <2>5
<1> QED
  BY <1>4, <1>15, <1>16, <1>17
-----------------------------------------------------------------------------
(* The update of the queue.                                                *)

WaitingGroups(st, t) == {g \in GroupsOf(st, t) : IsWaiting(st, g)}

\* The groups of pool wait, and there is room for them in the battleground b.
Invitable(st, pool, b) ==
  /\ \A g \in pool : \E t \in Teams : g \in WaitingGroups(st, t)
  /\ \A t \in Teams :
       st.bgs[b].invited[t] + Cardinality(Of(UNION pool, t)) <= MaxPlayersPerTeam

\* What InvitePool changes.
Invited(st, pool, b, r) ==
  /\ r \in States /\ r.queue = st.queue /\ r.bgOf = st.bgOf
  /\ \A p \in Players :
       IF p \in UNION pool
       THEN r.info[p] = [invited |-> b, left |-> AcceptTime] /\ r.qid[p] = b
       ELSE r.info[p] = st.info[p] /\ r.qid[p] = st.qid[p]
  /\ r.events = st.events \cup
       {[player |-> p, bg |-> b, left |-> AcceptTime] : p \in UNION pool}
  /\ \A x \in Ids :
       /\ r.bgs[x].status = st.bgs[x].status /\ r.bgs[x].players = st.bgs[x].players
       /\ x # b => r.bgs[x] = st.bgs[x]
  /\ \A t \in Teams :
       r.bgs[b].invited[t] = st.bgs[b].invited[t] + Cardinality(Of(UNION pool, t))

LEMMA InvitePoolDoes ==
  ASSUME NEW st \in States, NEW pool \in SUBSET SUBSET Players, NEW b \in Ids
  PROVE  Invited(st, pool, b, InvitePool(st, pool, b))
<1> DEFINE r == InvitePool(st, pool, b)
           invitees == UNION pool
           is == [p \in Players |->
                   IF p \in invitees THEN [invited |-> b, left |-> AcceptTime] ELSE st.info[p]]
           counts == [t \in Teams |-> st.bgs[b].invited[t] + Cardinality(Of(invitees, t))]
           bg == [st.bgs[b] EXCEPT !.invited = counts]
           es == st.events \cup {[player |-> p, bg |-> b, left |-> AcceptTime] : p \in invitees}
           qs == [p \in Players |-> IF p \in invitees THEN b ELSE st.qid[p]]
<1>1. /\ st.bgs \in [Ids -> Battleground] /\ st.info \in [Players -> GroupQueueInfo]
      /\ st.qid \in [Players -> Ids \cup {NoBg, NotQueued}] /\ st.events \subseteq Events
  BY DEF States, Events
<1>2. r = [st EXCEPT !.info = is, !.bgs[b].invited = counts, !.events = es, !.qid = qs]
  BY DEF InvitePool, States
<1>3. invitees \in SUBSET Players
  OBVIOUS
<1> HIDE DEF r, invitees
<1>4. counts \in [Teams -> Nat]
  <2> SUFFICES ASSUME NEW t \in Teams
               PROVE  st.bgs[b].invited[t] + Cardinality(Of(invitees, t)) \in Nat
    OBVIOUS
  <2>1. Cardinality(Of(invitees, t)) \in Nat
    BY <1>3, TeamSets
  <2>2. st.bgs[b].invited[t] \in Nat
    BY <1>1 DEF Battleground
  <2> QED
    BY <2>1, <2>2
<1>5. [invited |-> b, left |-> AcceptTime] \in GroupQueueInfo
  BY BoundAssumption DEF GroupQueueInfo
<1>6. is \in [Players -> GroupQueueInfo] /\ qs \in [Players -> Ids \cup {NoBg, NotQueued}]
  BY <1>1, <1>5
<1>7. es \subseteq Events
  BY <1>1, <1>3, BoundAssumption DEF Events
<1>8. \A t \in Teams : counts[t] = st.bgs[b].invited[t] + Cardinality(Of(invitees, t))
  OBVIOUS
<1>9. \A p \in Players :
        IF p \in invitees
        THEN is[p] = [invited |-> b, left |-> AcceptTime] /\ qs[p] = b
        ELSE is[p] = st.info[p] /\ qs[p] = st.qid[p]
  OBVIOUS
<1> HIDE DEF counts, is, qs, es
<1>10. /\ bg \in Battleground /\ bg.status = st.bgs[b].status /\ bg.invited = counts
       /\ bg.players = st.bgs[b].players
  <2>1. st.bgs[b] \in Battleground
    BY <1>1
  <2> HIDE DEF Teams
  <2> QED
    BY <2>1, <1>4 DEF Battleground
<1>11. /\ r.queue = st.queue /\ r.bgOf = st.bgOf /\ r.info = is /\ r.events = es /\ r.qid = qs
       /\ r.free = st.free /\ r.scheduled = st.scheduled
  BY <1>2 DEF States
<1>12. r.bgs = [st.bgs EXCEPT ![b] = bg]
  BY <1>1, <1>2 DEF States
<1>13. r = [queue |-> r.queue, info |-> r.info, bgs |-> r.bgs, free |-> r.free,
            events |-> r.events, scheduled |-> r.scheduled, qid |-> r.qid, bgOf |-> r.bgOf]
  BY <1>2 DEF States
<1> HIDE DEF bg
<1>14. r.bgs \in [Ids -> Battleground]
  BY <1>1, <1>10, <1>12
<1>15. r \in States
  BY <1>6, <1>7, <1>11, <1>13, <1>14 DEF States, Events
<1>16. r.bgs[b] = bg /\ \A x \in Ids : x # b => r.bgs[x] = st.bgs[x]
  BY <1>1, <1>12
<1>17. \A x \in Ids : r.bgs[x].status = st.bgs[x].status /\ r.bgs[x].players = st.bgs[x].players
  BY <1>10, <1>16
<1>18. \A t \in Teams : r.bgs[b].invited[t] = st.bgs[b].invited[t] + Cardinality(Of(invitees, t))
  BY <1>8, <1>10, <1>16
<1>19. \A p \in Players :
        IF p \in invitees
        THEN r.info[p] = [invited |-> b, left |-> AcceptTime] /\ r.qid[p] = b
        ELSE r.info[p] = st.info[p] /\ r.qid[p] = st.qid[p]
  BY <1>9, <1>11
<1>20. r.events = st.events \cup {[player |-> p, bg |-> b, left |-> AcceptTime] : p \in invitees}
  BY <1>11 DEF es
<1> QED
  BY <1>11, <1>15, <1>16, <1>17, <1>18, <1>19, <1>20 DEF r, invitees, Invited

\* Who is invited, is invited with his whole group, and the count is raised by
\* as many.
LEMMA InvitePoolSound ==
  ASSUME NEW st, NEW o, Sound(st, o), NEW pool, NEW b \in Ids, st.bgs[b].status # "none",
         Invitable(st, pool, b)
  PROVE  Sound(InvitePool(st, pool, b), o) /\ InvitePool(st, pool, b) \in States
<1> DEFINE r == InvitePool(st, pool, b)
           invitees == UNION pool
<1>1. /\ st \in States /\ GroupsSound(st) /\ PlayersSound(st, o) /\ CountsSound(st, o)
      /\ DeletedSound(st) /\ EventsSound(st)
      /\ st.info \in [Players -> GroupQueueInfo] /\ st.bgs \in [Ids -> Battleground]
  BY DEF Sound, States
<1>2. \A g \in pool : \E t \in Teams : g \in GroupsOf(st, t) /\ IsWaiting(st, g)
  BY DEF Invitable, WaitingGroups
<1>3. pool \in SUBSET SUBSET Players
  BY <1>1, <1>2 DEF GroupsSound, Of
<1> HIDE DEF r
<1>0. Invited(st, pool, b, r)
  BY <1>1, <1>3, InvitePoolDoes DEF r
<1>4. /\ r \in States /\ r.queue = st.queue /\ r.bgOf = st.bgOf
      /\ \A p \in Players :
           IF p \in invitees
           THEN r.info[p] = [invited |-> b, left |-> AcceptTime] /\ r.qid[p] = b
           ELSE r.info[p] = st.info[p] /\ r.qid[p] = st.qid[p]
      /\ r.events = st.events \cup
           {[player |-> p, bg |-> b, left |-> AcceptTime] : p \in invitees}
      /\ \A x \in Ids :
           /\ r.bgs[x].status = st.bgs[x].status /\ r.bgs[x].players = st.bgs[x].players
           /\ x # b => r.bgs[x] = st.bgs[x]
      /\ \A t \in Teams :
           r.bgs[b].invited[t] = st.bgs[b].invited[t] + Cardinality(Of(invitees, t))
  BY <1>0 DEF Invited
<1>5. \A t \in Teams :
        st.bgs[b].invited[t] + Cardinality(Of(invitees, t)) <= MaxPlayersPerTeam
  BY DEF Invitable
\* A group is invited as a whole or not at all.
<1>6. ASSUME NEW t \in Teams, NEW g \in GroupsOf(st, t), NEW p \in g, p \in invitees
      PROVE  g \in pool
  <2>1. PICK h \in pool : p \in h
    BY <1>6
  <2>2. PICK u \in Teams : h \in GroupsOf(st, u)
    BY <1>2
  <2>3. u = t
    BY <1>1, <2>1, <2>2 DEF GroupsSound, Of
  <2>4. g = h
    BY <1>1, <2>1, <2>2, <2>3 DEF GroupsSound
  <2> QED
    BY <2>1, <2>4
<1>7. \A p \in invitees : p \in Players /\ st.info[p].invited = NoBg
  <2> SUFFICES ASSUME NEW g \in pool, NEW p \in g PROVE p \in Players /\ st.info[p].invited = NoBg
    OBVIOUS
  <2>1. PICK t \in Teams : g \in GroupsOf(st, t) /\ IsWaiting(st, g)
    BY <1>2
  <2>2. \A x, y \in g : st.info[x].invited = st.info[y].invited
    BY <1>1, <2>1 DEF GroupsSound
  <2> QED
    BY <1>3, <2>1, <2>2 DEF IsWaiting
<1>8. \A t \in Teams : \A g \in GroupsOf(st, t) : g \in pool \/ g \cap invitees = {}
  BY <1>6
<1>9. \A g \in pool : g \subseteq invitees
  OBVIOUS
<1> HIDE DEF invitees
<1>10. NoBg \notin Ids /\ NotQueued \notin Ids /\ NoBg # NotQueued /\ b # NoBg /\ b # NotQueued
  BY DEF NoBg, NotQueued, Ids
<1>11. \A p \in Players : InQueue(r, p) <=> InQueue(st, p)
  BY <1>4, <1>7, <1>10 DEF InQueue
<1>12. GroupsSound(r)
  <2> SUFFICES ASSUME NEW t \in Teams, NEW g \in GroupsOf(r, t)
               PROVE  /\ g \subseteq Of(Players, t) /\ Cardinality(g) <= MaxPlayersPerTeam
                      /\ \A p \in g : InQueue(r, p)
                      /\ \A p, q \in g : r.info[p].invited = r.info[q].invited
                      /\ \A h \in GroupsOf(r, t) : g = h \/ g \cap h = {}
    BY DEF GroupsSound
  <2>1. GroupsOf(r, t) = GroupsOf(st, t)
    BY <1>4 DEF GroupsOf
  <2>2. /\ g \subseteq Of(Players, t) /\ Cardinality(g) <= MaxPlayersPerTeam
        /\ \A p \in g : InQueue(st, p)
        /\ \A p, q \in g : st.info[p].invited = st.info[q].invited
        /\ \A h \in GroupsOf(r, t) : g = h \/ g \cap h = {}
    BY <1>1, <2>1 DEF GroupsSound
  <2>3. g \subseteq Players
    BY <2>2 DEF Of
  <2>4. CASE g \in pool
    BY <1>4, <1>9, <1>11, <2>2, <2>3, <2>4
  <2>5. CASE g \cap invitees = {}
    <3>1. \A p \in g : r.info[p] = st.info[p]
      BY <1>4, <2>3, <2>5
    <3> QED
      BY <1>11, <2>2, <2>3, <3>1
  <2> QED
    BY <1>8, <2>1, <2>4, <2>5
<1>13. ASSUME NEW p \in Players
       PROVE  /\ p \in invitees => o[p] = "world" /\ st.bgOf[p] = NoBg
              /\ PlayerSound(r, o, p)
  <2>1. PlayerSound(st, o, p)
    BY <1>1 DEF PlayersSound
  <2>2. \A x \in Ids : p \in r.bgs[x].players <=> p \in st.bgs[x].players
    BY <1>4
  <2>3. CASE p \in invitees
    <3>1. InQueue(st, p)
      BY <1>7, <1>10, <2>3 DEF InQueue
    <3>2. o[p] = "world" /\ st.bgOf[p] = NoBg
      BY <2>1, <3>1 DEF PlayerSound
    <3>3. r.info[p].invited = b /\ r.qid[p] = b /\ r.bgOf[p] = NoBg
      BY <1>4, <2>3, <3>2
    <3> QED
      BY <2>1, <2>2, <3>2, <3>3 DEF PlayerSound
  <2>4. CASE p \notin invitees
    <3>1. r.info[p] = st.info[p] /\ r.qid[p] = st.qid[p] /\ r.bgOf[p] = st.bgOf[p]
      BY <1>4, <2>4
    <3> QED
      BY <1>11, <2>1, <2>2, <2>4, <3>1 DEF PlayerSound
  <2> QED
    BY <2>3, <2>4
<1>14. PlayersSound(r, o)
  BY <1>13 DEF PlayersSound
<1>15. CountsSound(r, o)
  <2> SUFFICES ASSUME NEW x \in Ids, NEW t \in Teams
               PROVE  /\ r.bgs[x].invited[t] = Cardinality(Comers(r, o, x, t))
                      /\ r.bgs[x].invited[t] <= MaxPlayersPerTeam
    BY DEF CountsSound
  <2>1. /\ st.bgs[x].invited[t] = Cardinality(Comers(st, o, x, t))
        /\ st.bgs[x].invited[t] <= MaxPlayersPerTeam
    BY <1>1 DEF CountsSound
  <2>2. \A p \in Players : p \notin invitees =>
          (p \in Comers(r, o, x, t) <=> p \in Comers(st, o, x, t))
    BY <1>4 DEF Comers, Of
  <2>3. \A p \in invitees : p \notin Comers(st, o, x, t)
    <3> SUFFICES ASSUME NEW p \in invitees, p \in Comers(st, o, x, t) PROVE FALSE
      OBVIOUS
    <3>1. p \in Players /\ st.info[p].invited = NoBg /\ o[p] = "world" /\ st.bgOf[p] = NoBg
      BY <1>7, <1>13
    <3>2. p \in st.bgs[x].players
      BY <1>10, <3>1 DEF Comers
    <3> QED
      BY <1>1, <1>10, <3>1, <3>2 DEF PlayersSound, PlayerSound
  <2>4. Comers(r, o, x, t) \subseteq Players /\ Comers(st, o, x, t) \subseteq Players
    BY DEF Comers, Of
  <2>5. CASE x = b
    <3>1. \A p \in invitees : p \in Comers(r, o, x, t) <=> p \in Of(invitees, t)
      <4>1. \A p \in invitees : p \in Players /\ r.info[p].invited = b
        BY <1>4, <1>7
      <4> QED
        BY <2>5, <4>1 DEF Comers, Of
    <3>2. Of(invitees, t) \subseteq invitees
      BY DEF Of
    <3>3. Comers(r, o, x, t) = Comers(st, o, x, t) \cup Of(invitees, t)
      BY <1>7, <2>2, <2>3, <2>4, <3>1, <3>2
    <3>4. Comers(st, o, x, t) \cap Of(invitees, t) = {}
      BY <2>3, <3>2
    <3> DEFINE A == Comers(st, o, x, t)
               B == Of(invitees, t)
    <3>5. invitees \in SUBSET Players
      BY <1>7
    <3>6. IsFiniteSet(A) /\ IsFiniteSet(B) /\ Cardinality(A) \in Nat /\ Cardinality(B) \in Nat
      BY <3>5, ComersFinite, TeamSets
    <3> HIDE DEF A, B
    <3>7. Cardinality(A \cup B) = Cardinality(A) + Cardinality(B) - Cardinality(A \cap B)
      BY <3>6, FS_Union
    <3>8. Cardinality(A \cap B) = 0
      BY <3>4, FS_EmptySet DEF A, B
    <3>9. Cardinality(Comers(r, o, x, t)) = Cardinality(A) + Cardinality(B)
      BY <3>3, <3>6, <3>7, <3>8 DEF A, B
    <3>10. r.bgs[x].invited[t] = Cardinality(A) + Cardinality(B)
      BY <1>4, <2>1, <2>5 DEF A, B
    <3>11. Cardinality(A) + Cardinality(B) <= MaxPlayersPerTeam
      BY <1>5, <2>1, <2>5 DEF A, B
    <3> QED
      BY <3>9, <3>10, <3>11
  <2>6. CASE x # b
    <3>1. \A p \in invitees : p \notin Comers(r, o, x, t)
      <4> SUFFICES ASSUME NEW p \in invitees, p \in Comers(r, o, x, t) PROVE FALSE
        OBVIOUS
      <4>1. p \in Players /\ r.info[p].invited = b /\ o[p] = "world" /\ st.bgOf[p] = NoBg
        BY <1>4, <1>7, <1>13
      <4>2. p \in r.bgs[x].players
        BY <2>6, <4>1 DEF Comers
      <4>3. p \in st.bgs[x].players
        BY <1>4, <4>2
      <4> QED
        BY <1>1, <1>10, <4>1, <4>3 DEF PlayersSound, PlayerSound
    <3>2. Comers(r, o, x, t) = Comers(st, o, x, t)
      BY <2>2, <2>3, <2>4, <3>1
    <3>3. r.bgs[x] = st.bgs[x]
      BY <1>4, <2>6
    <3> QED
      BY <2>1, <3>2, <3>3
  <2> QED
    BY <2>5, <2>6
<1>16. DeletedSound(r)
  <2> SUFFICES ASSUME NEW x \in Ids, r.bgs[x].status = "none" PROVE r.bgs[x] = NoBattleground
    BY DEF DeletedSound
  <2>1. st.bgs[x].status = "none" /\ x # b
    BY <1>4
  <2> QED
    BY <1>1, <1>4, <2>1 DEF DeletedSound
<1>17. EventsSound(r)
  <2> SUFFICES ASSUME NEW p \in Players, r.info[p].invited \in Ids
               PROVE  /\ r.info[p].left >= 1
                      /\ [player |-> p, bg |-> r.info[p].invited, left |-> r.info[p].left]
                           \in r.events
    BY DEF EventsSound
  <2>1. CASE p \in invitees
    <3>1. r.info[p].invited = b /\ r.info[p].left = AcceptTime
      BY <1>4, <2>1
    <3>2. [player |-> p, bg |-> b, left |-> AcceptTime] \in r.events
      BY <1>4, <2>1
    <3> QED
      BY <3>1, <3>2, BoundAssumption
  <2>2. CASE p \notin invitees
    <3>1. r.info[p] = st.info[p]
      BY <1>4, <2>2
    <3> QED
      BY <1>1, <1>4, <3>1 DEF EventsSound
  <2> QED
    BY <2>1, <2>2
<1>18. Sound(r, o)
  BY <1>4, <1>12, <1>14, <1>15, <1>16, <1>17 DEF Sound
<1> QED
  BY <1>4, <1>18 DEF r

\* There are at most as many free slots as the team lacks.
LEMMA FreeSlotsBound ==
  ASSUME NEW bg \in Battleground, NEW t \in Teams, bg.invited[t] <= MaxPlayersPerTeam
  PROVE  /\ MaxPlayersPerTeam - bg.invited[t] \in Nat
         /\ GetFreeSlotsForTeam(bg, t) \in Int
         /\ GetFreeSlotsForTeam(bg, t) <= MaxPlayersPerTeam - bg.invited[t]
<1> DEFINE other == CHOOSE o \in Teams : o # t
           room == Larger(MaxPlayersPerTeam - bg.invited[t], 0)
           here == Cardinality(Of(bg.players, t))
           there == Cardinality(Of(bg.players, other))
           byInvited == IF bg.invited[other] = bg.invited[t] THEN 1
                        ELSE Larger(bg.invited[other] - bg.invited[t], 0)
           byPlayers == IF there = here THEN 1
                        ELSE IF there > here THEN there - here
                        ELSE IF bg.invited[t] <= MinPlayersPerTeam
                             THEN MinPlayersPerTeam - bg.invited[t] + 1 ELSE 0
           n == GetFreeSlotsForTeam(bg, t)
<1>1. n = CASE bg.status = "join" -> room
            [] bg.status = "progress" -> Smaller(Smaller(byInvited, room), byPlayers)
            [] OTHER -> 0
  BY DEF GetFreeSlotsForTeam
<1>2. other \in Teams
  BY DEF Teams
<1> HIDE DEF other, n
<1>3. /\ bg.invited \in [Teams -> Nat] /\ bg.players \in SUBSET Players
      /\ bg.invited[t] \in Nat /\ bg.invited[other] \in Nat
  BY <1>2 DEF Battleground
<1>4. here \in Nat /\ there \in Nat
  BY <1>2, <1>3, TeamSets
<1> HIDE DEF here, there
<1>5. MaxPlayersPerTeam \in Nat /\ MinPlayersPerTeam \in Nat
  BY SizeAssumption
<1>6. room = MaxPlayersPerTeam - bg.invited[t] /\ room \in Nat
  BY <1>3, <1>5 DEF Larger
<1>7. byInvited \in Int
  BY <1>3 DEF Larger
<1>8. byPlayers \in Int
  BY <1>3, <1>4, <1>5
<1> HIDE DEF room, byInvited, byPlayers
<1>9. /\ Smaller(Smaller(byInvited, room), byPlayers) \in Int
      /\ Smaller(Smaller(byInvited, room), byPlayers) <= room
  BY <1>6, <1>7, <1>8 DEF Smaller
<1>10. n \in Int /\ n <= room
  <2>1. CASE bg.status = "join"
    BY <1>1, <1>6, <2>1
  <2>2. CASE bg.status = "progress"
    BY <1>1, <1>9, <2>2
  <2>3. CASE bg.status \notin {"join", "progress"}
    BY <1>1, <1>6, <2>3
  <2> QED
    BY <2>1, <2>2, <2>3
<1> QED
  BY <1>6, <1>10 DEF n

LEMMA TeamPools ==
  ASSUME NEW st, GroupsSound(st), NEW A \in [Teams -> SUBSET SUBSET Players],
         \A t \in Teams : A[t] \subseteq WaitingGroups(st, t), NEW b,
         \A t \in Teams : st.bgs[b].invited[t] + Count(A[t]) <= MaxPlayersPerTeam
  PROVE  Invitable(st, UNION {A[t] : t \in Teams}, b)
<1> DEFINE pool == UNION {A[t] : t \in Teams}
<1>1. \A g \in pool : \E t \in Teams : g \in A[t]
  OBVIOUS
<1>2. ASSUME NEW t \in Teams
      PROVE  st.bgs[b].invited[t] + Cardinality(Of(UNION pool, t)) <= MaxPlayersPerTeam
  <2>1. \A u \in Teams : \A g \in A[u] : \A p \in g : p \in Players /\ TeamOf[p] = u
    BY DEF WaitingGroups, GroupsSound, Of
  <2>2. Of(UNION pool, t) = UNION A[t]
    <3>1. \A p \in Of(UNION pool, t) : p \in UNION A[t]
      <4> SUFFICES ASSUME NEW g \in pool, NEW p \in g, TeamOf[p] = t PROVE p \in UNION A[t]
        BY DEF Of
      <4>1. PICK u \in Teams : g \in A[u]
        BY <1>1
      <4>2. u = t
        BY <2>1, <4>1
      <4> QED
        BY <4>1, <4>2
    <3>2. \A p \in UNION A[t] : p \in Of(UNION pool, t)
      BY <2>1 DEF Of
    <3> QED
      BY <3>1, <3>2
  <2> QED
    BY <2>2 DEF Count
<1>3. \A g \in pool : \E t \in Teams : g \in WaitingGroups(st, t)
  BY <1>1
<1> QED
  BY <1>2, <1>3 DEF Invitable

\* What is selected from the normal queue of a team.
LEMMA NormalGroups ==
  ASSUME NEW st \in States, NEW t \in Teams, NEW n \in Nat, NEW desired \in Int, desired <= n,
         NEW enough
  PROVE  /\ AddGroups(st, {}, st.queue["normal"][t], desired, enough) \subseteq WaitingGroups(st, t)
         /\ AddGroups(st, {}, st.queue["normal"][t], desired, enough) \in SUBSET SUBSET Players
         /\ Count(AddGroups(st, {}, st.queue["normal"][t], desired, enough)) <= n
<1> DEFINE groups == st.queue["normal"][t]
<1>1. groups \in Seq(SUBSET Players) /\ ToSet(groups) \subseteq SUBSET Players
  BY QueueParts DEF Kinds
<1>2. Count({}) <= n /\ {} \in SUBSET SUBSET Players
  BY FS_EmptySet DEF Count
<1>3. ToSet(groups) \subseteq GroupsOf(st, t)
  BY DEF GroupsOf
<1> HIDE DEF groups
<1>4. /\ AddGroups(st, {}, groups, desired, enough)
           \subseteq {} \cup {g \in ToSet(groups) : IsWaiting(st, g)}
      /\ Count(AddGroups(st, {}, groups, desired, enough)) <= n
  BY <1>1, <1>2, AddGroupsPool
<1>5. /\ AddGroups(st, {}, groups, desired, enough) \subseteq WaitingGroups(st, t)
      /\ AddGroups(st, {}, groups, desired, enough) \in SUBSET SUBSET Players
  BY <1>1, <1>3, <1>4 DEF WaitingGroups
<1> QED
  BY <1>4, <1>5 DEF groups

LEMMA FillInvitable ==
  ASSUME NEW st, NEW o, Sound(st, o), NEW b \in Ids
  PROVE  Invitable(st, FillPlayersToBG(st, b), b)
<1> DEFINE slots(t) == GetFreeSlotsForTeam(st.bgs[b], t)
           A == [t \in Teams |->
                  AddGroups(st, {}, st.queue["normal"][t], slots(t), slots(t) + 1)]
<1>1. st \in States /\ GroupsSound(st) /\ CountsSound(st, o) /\ st.bgs[b] \in Battleground
  BY DEF Sound, States
<1>2. ASSUME NEW t \in Teams
      PROVE  /\ A[t] \subseteq WaitingGroups(st, t) /\ A[t] \in SUBSET SUBSET Players
             /\ st.bgs[b].invited[t] + Count(A[t]) <= MaxPlayersPerTeam
  <2> DEFINE d == slots(t)
             n == MaxPlayersPerTeam - st.bgs[b].invited[t]
             e == d + 1
             s == AddGroups(st, {}, st.queue["normal"][t], d, e)
  <2>1. st.bgs[b].invited[t] <= MaxPlayersPerTeam
    BY <1>1 DEF CountsSound
  <2>2. n \in Nat /\ d \in Int /\ d <= n
    BY <1>1, <2>1, FreeSlotsBound
  <2>3. A[t] = s
    OBVIOUS
  <2>4. st.bgs[b].invited[t] \in Nat /\ MaxPlayersPerTeam \in Nat
    BY <1>1, SizeAssumption DEF Battleground
  <2> HIDE DEF d, e, n, A
  <2>5. /\ s \subseteq WaitingGroups(st, t) /\ s \in SUBSET SUBSET Players /\ Count(s) <= n
    BY <1>1, <2>2, NormalGroups
  <2>6. Count(s) \in Nat
    <3> HIDE DEF s
    <3>1. UNION s \in SUBSET Players
      BY <2>5
    <3> QED
      BY <3>1, TeamSets DEF Count, Teams
  <2> HIDE DEF s
  <2> QED
    BY <2>3, <2>4, <2>5, <2>6 DEF n
<1>3. FillPlayersToBG(st, b) = UNION {A[t] : t \in Teams}
  <2>1. FillPlayersToBG(st, b) =
          UNION {AddGroups(st, {}, st.queue["normal"][t], slots(t), slots(t) + 1) : t \in Teams}
    BY DEF FillPlayersToBG
  <2> QED
    BY <2>1
<1>4. A = [t \in Teams |-> A[t]]
  OBVIOUS
<1> HIDE DEF A
<1>5. A \in [Teams -> SUBSET SUBSET Players]
  BY <1>2, <1>4
<1>6. Invitable(st, UNION {A[t] : t \in Teams}, b)
  BY <1>1, <1>2, <1>5, TeamPools
<1> QED
  BY <1>3, <1>6

LEMMA FreeSound ==
  ASSUME NEW st, NEW o, Sound(st, o), NEW f \in Seq(Ids)
  PROVE  Sound([st EXCEPT !.free = f], o) /\ [st EXCEPT !.free = f] \in States
<1> DEFINE r == [st EXCEPT !.free = f]
<1>1. st \in States
  BY DEF Sound
<1>2. /\ r \in States /\ r.queue = st.queue /\ r.info = st.info /\ r.qid = st.qid
      /\ r.bgOf = st.bgOf /\ r.events = st.events /\ r.bgs = st.bgs
  BY <1>1 DEF States
<1> HIDE DEF r
<1>3. DeletedSound(r)
  BY <1>2 DEF Sound, DeletedSound
<1>4. Sound(r, o)
  BY <1>2, <1>3, NobodySound
<1> QED
  BY <1>2, <1>4 DEF r

LEMMA OfferSlotsSound ==
  ASSUME NEW st, NEW o, Sound(st, o), NEW b \in Ids
  PROVE  Sound(OfferSlots(st, b), o) /\ OfferSlots(st, b) \in States
<1> DEFINE r == OfferSlots(st, b)
           pool == FillPlayersToBG(st, b)
           after == InvitePool(st, pool, b)
<1>1. st \in States /\ (r = st \/ st.bgs[b].status # "none")
  BY DEF Sound, OfferSlots
<1>2. r \in {st, after, [after EXCEPT !.free = RemoveFirst(@, b)]}
  BY DEF OfferSlots
<1>3. CASE r = st
  BY <1>1, <1>3
<1>4. CASE r # st
  <2>1. Invitable(st, pool, b)
    BY FillInvitable
  <2> HIDE DEF pool, r
  <2>2. Sound(after, o) /\ after \in States
    BY <1>1, <1>4, <2>1, InvitePoolSound
  <2> HIDE DEF after
  <2> DEFINE f == RemoveFirst(after.free, b)
  <2>3. f \in Seq(Ids)
    BY <2>2, RemoveFirstIn DEF States
  <2>4. [after EXCEPT !.free = RemoveFirst(@, b)] = [after EXCEPT !.free = f]
    OBVIOUS
  <2> HIDE DEF f
  <2>5. Sound([after EXCEPT !.free = f], o) /\ [after EXCEPT !.free = f] \in States
    BY <2>2, <2>3, FreeSound
  <2>6. r \in {after, [after EXCEPT !.free = f]}
    BY <1>2, <1>4, <2>4
  <2>7. Sound(r, o) /\ r \in States
    BY <2>2, <2>5, <2>6
  <2> QED
    BY <2>7 DEF r
<1> QED
  BY <1>3, <1>4

\* The battlegrounds that have free slots are offered one after the other.
Offering(g, st, ids) ==
  g = [s \in SUBSET DOMAIN ids |->
         IF s = {} THEN st ELSE OfferSlots(g[s \ {Max(s)}], ids[Max(s)])]

LEMMA OfferingDef ==
  ASSUME NEW st, NEW ids
  PROVE  FoldLeft(OfferSlots, st, ids) = (CHOOSE g : Offering(g, st, ids))[DOMAIN ids]
BY DEF FoldLeft, MapThenFoldSet, Offering

AllOffered(st) == FoldLeft(OfferSlots, st, st.free)

LEMMA AllOfferedSound ==
  ASSUME NEW st, NEW o, Sound(st, o)
  PROVE  Sound(AllOffered(st), o) /\ AllOffered(st) \in States
<1> DEFINE ids == st.free
           S == 1 .. Len(ids)
           Good == {v \in States : Sound(v, o)}
           Kept == [s \in SUBSET S |-> Good]
           H == [xv \in S \X Good |-> OfferSlots(xv[2], ids[xv[1]])]
<1>0. st \in States /\ ids \in Seq(Ids)
  BY DEF Sound, States
<1>1. DOMAIN ids = S /\ Len(ids) \in Nat /\ st \in States /\ \A i \in S : ids[i] \in Ids
  <2> HIDE DEF ids
  <2> QED
    BY <1>0
<1>2. Picks(Latest, S) /\ IsFiniteSet(S) /\ \A s \in SUBSET S : Latest[s] = Max(s)
  BY <1>1, LastPicks
<1>3. ASSUME NEW i \in S, NEW v \in Good
      PROVE  H[<<i, v>>] = OfferSlots(v, ids[i]) /\ OfferSlots(v, ids[i]) \in Good
  <2>1. H[<<i, v>>] = OfferSlots(v, ids[i])
    OBVIOUS
  <2>2. Sound(OfferSlots(v, ids[i]), o) /\ OfferSlots(v, ids[i]) \in States
    BY <1>1, OfferSlotsSound
  <2> HIDE DEF H
  <2> QED
    BY <2>1, <2>2
<1>4. st \in Good
  BY <1>1
<1> HIDE DEF H, Good, ids
<1>5. \E g : Folds(g, S, st, Latest, H) /\ KeptBy(g, S, Kept)
  <2>1. st \in Kept[{}]
    BY <1>4
  <2>2. \A s \in SUBSET S :
          s # {} => \A v \in Kept[s \ {Latest[s]}] : H[<<Latest[s], v>>] \in Kept[s]
    BY <1>2, <1>3 DEF Picks
  <2> HIDE DEF Kept, S
  <2> QED
    BY <1>2, <2>1, <2>2, FoldsKept
<1>6. \E g : Offering(g, st, ids)
  <2>1. PICK g : Folds(g, S, st, Latest, H) /\ KeptBy(g, S, Kept)
    BY <1>5
  <2>2. \A s \in SUBSET S : g[s] \in Good
    BY <2>1 DEF KeptBy
  <2> HIDE DEF Kept, S
  <2>3. \A s \in SUBSET S : s # {} =>
          H[<<Latest[s], g[s \ {Latest[s]}]>>] = OfferSlots(g[s \ {Max(s)}], ids[Max(s)])
    BY <1>2, <1>3, <2>2 DEF Picks
  <2>4. g = [s \in SUBSET S |-> IF s = {} THEN st ELSE H[<<Latest[s], g[s \ {Latest[s]}]>>]]
    BY <2>1, Zenon DEF Folds
  <2>5. @ = [s \in SUBSET S |->
               IF s = {} THEN st ELSE OfferSlots(g[s \ {Max(s)}], ids[Max(s)])]
    BY <2>3
  <2> QED
    BY <1>1, <2>4, <2>5, Zenon DEF Offering
<1> DEFINE f == CHOOSE g : Offering(g, st, ids)
<1>7. Offering(f, st, ids)
  BY <1>6
<1>8. AllOffered(st) = f[S]
  BY <1>1, OfferingDef DEF AllOffered, ids
<1> HIDE DEF f
<1>9. \A s \in SUBSET S :
        f[s] = IF s = {} THEN st ELSE OfferSlots(f[s \ {Latest[s]}], ids[Latest[s]])
  <2> DEFINE h == [s \in SUBSET S |->
                     IF s = {} THEN st ELSE OfferSlots(f[s \ {Max(s)}], ids[Max(s)])]
  <2>1. f = h
    BY <1>1, <1>7, Zenon DEF Offering
  <2>2. \A s \in SUBSET S :
          h[s] = IF s = {} THEN st ELSE OfferSlots(f[s \ {Latest[s]}], ids[Latest[s]])
    BY <1>2
  <2> HIDE DEF h
  <2> QED
    BY <2>1, <2>2
<1>10. f[S] \in Good
  <2>1. f[{}] \in Kept[{}]
    BY <1>4, <1>9
  <2>2. \A s \in SUBSET S :
          s # {} /\ f[s \ {Latest[s]}] \in Kept[s \ {Latest[s]}] => f[s] \in Kept[s]
    BY <1>2, <1>3, <1>9 DEF Picks
  <2>3. Kept[S] = Good
    OBVIOUS
  <2> HIDE DEF Kept, S
  <2>4. KeptBy(f, S, Kept)
    BY <1>2, <2>1, <2>2, FoldsKeeps
  <2> QED
    BY <2>3, <2>4 DEF KeptBy
<1> QED
  BY <1>8, <1>10 DEF Good

\* A new battleground expects nobody but the groups it was made for.
LEMMA CreateSound ==
  ASSUME NEW st, NEW o, Sound(st, o), NEW A \in [Teams -> SUBSET SUBSET Players],
         \A t \in Teams : A[t] \subseteq WaitingGroups(st, t) /\ Count(A[t]) <= MaxPlayersPerTeam
  PROVE  Sound(CreateNewBattleground(st, UNION {A[t] : t \in Teams}), o)
<1> DEFINE pool == UNION {A[t] : t \in Teams}
           unused == {b \in Ids : ~ Alive(st, b)}
           b == Min(unused)
           bg == [NoBattleground EXCEPT !.status = "join"]
           f == <<b>> \o st.free
           new == [st EXCEPT !.bgs[b] = bg, !.free = f]
           r == CreateNewBattleground(st, pool)
<1>1. st \in States /\ DeletedSound(st) /\ st.bgs \in [Ids -> Battleground] /\ st.free \in Seq(Ids)
  BY DEF Sound, States
<1>2. r = IF unused = {} THEN st ELSE InvitePool(new, pool, b)
  BY DEF CreateNewBattleground
<1>3. CASE unused = {}
  BY <1>2, <1>3
<1>4. CASE unused # {}
  <2>1. b \in unused
    <3>1. unused \subseteq 1 .. MaxBattlegrounds /\ MaxBattlegrounds \in Nat
      BY BoundAssumption DEF Ids
    <3> HIDE DEF unused
    <3> QED
      BY <1>4, <3>1, LeastAndGreatest
  <2>2. b \in Ids /\ st.bgs[b] = NoBattleground
    <3>1. b \in Ids /\ ~ Alive(st, b)
      BY <2>1
    <3> HIDE DEF b
    <3>2. st.bgs[b].status = "none"
      BY <3>1 DEF Alive, NoBg, Ids
    <3> QED
      BY <1>1, <3>1, <3>2 DEF DeletedSound
  <2> HIDE DEF b, unused, pool, r
  <2>3. f \in Seq(Ids)
    BY <1>1, <2>2
  <2>4. /\ bg \in Battleground /\ bg.status = "join" /\ bg.players = {}
        /\ \A t \in Teams : bg.invited[t] = 0
        /\ NoBattleground.players = {} /\ \A t \in Teams : NoBattleground.invited[t] = 0
    <3>1. NoBattleground \in Battleground
      BY DEF NoBattleground, Battleground
    <3>2. bg \in Battleground
      BY <3>1 DEF Battleground
    <3>3. bg.status = "join" /\ bg.players = NoBattleground.players /\ bg.invited = NoBattleground.invited
      BY <3>1 DEF Battleground
    <3> HIDE DEF bg
    <3>5. NoBattleground.players = {} /\ \A t \in Teams : NoBattleground.invited[t] = 0
      BY DEF NoBattleground
    <3> QED
      BY <3>2, <3>3, <3>5
  <2> HIDE DEF bg, f
  <2>5. /\ new.queue = st.queue /\ new.info = st.info /\ new.events = st.events
        /\ new.qid = st.qid /\ new.bgOf = st.bgOf /\ new.bgs = [st.bgs EXCEPT ![b] = bg]
        /\ new \in States
    BY <1>1, <2>2, <2>3, <2>4 DEF States
  <2> HIDE DEF new
  <2>6. new.bgs[b] = bg /\ \A x \in Ids : x # b => new.bgs[x] = st.bgs[x]
    BY <1>1, <2>2, <2>5
  <2>7. DeletedSound(new)
    <3> SUFFICES ASSUME NEW x \in Ids, new.bgs[x].status = "none" PROVE new.bgs[x] = NoBattleground
      BY DEF DeletedSound
    <3>1. x # b
      BY <2>4, <2>6
    <3> QED
      BY <1>1, <2>6, <3>1 DEF DeletedSound
  <2>8. \A x \in Ids : /\ new.bgs[x].players = st.bgs[x].players
                       /\ \A t \in Teams : new.bgs[x].invited[t] = st.bgs[x].invited[t]
    BY <2>2, <2>4, <2>6
  <2>9. Sound(new, o)
    BY <2>5, <2>7, <2>8, NobodySound
  <2>10. \A t \in Teams : A[t] \subseteq WaitingGroups(new, t)
    BY <2>5 DEF WaitingGroups, GroupsOf, IsWaiting
  <2>11. \A t \in Teams : new.bgs[b].invited[t] + Count(A[t]) <= MaxPlayersPerTeam
    <3> SUFFICES ASSUME NEW t \in Teams
                 PROVE  new.bgs[b].invited[t] + Count(A[t]) <= MaxPlayersPerTeam
      OBVIOUS
    <3>1. UNION A[t] \in SUBSET Players
      OBVIOUS
    <3>2. Count(A[t]) \in Nat
      BY <3>1, TeamSets DEF Count
    <3> QED
      BY <2>4, <2>6, <3>2
  <2>12. Invitable(new, UNION {A[t] : t \in Teams}, b)
    BY <2>9, <2>10, <2>11, TeamPools DEF Sound
  <2>13. Invitable(new, pool, b)
    BY <2>12 DEF pool
  <2>14. Sound(InvitePool(new, pool, b), o)
    BY <2>2, <2>4, <2>6, <2>9, <2>13, InvitePoolSound
  <2>15. r = InvitePool(new, pool, b)
    BY <1>2, <1>4
  <2> QED
    BY <2>14, <2>15 DEF r, pool
<1> QED
  BY <1>3, <1>4

\* The groups are moved within the queue.
LEMMA MoveSound ==
  ASSUME NEW st, NEW o, Sound(st, o), NEW q \in [Kinds -> [Teams -> Seq((SUBSET Players) \ {{}})]],
         \A t \in Teams :
           ToSet(q["premade"][t]) \cup ToSet(q["normal"][t]) \subseteq GroupsOf(st, t)
  PROVE  Sound([st EXCEPT !.queue = q], o)
<1> DEFINE r == [st EXCEPT !.queue = q]
<1>1. st \in States
  BY DEF Sound
<1>2. /\ r \in States /\ r.queue = q /\ r.info = st.info /\ r.qid = st.qid
      /\ r.bgOf = st.bgOf /\ r.events = st.events /\ r.bgs = st.bgs
  BY <1>1 DEF States
<1> HIDE DEF r
<1>3. \A t \in Teams : GroupsOf(r, t) \subseteq GroupsOf(st, t)
  BY <1>2 DEF GroupsOf
<1>4. GroupsSound(r)
  BY <1>2, <1>3 DEF Sound, GroupsSound, InQueue
<1>5. CountsSound(r, o)
  <2> SUFFICES ASSUME NEW b \in Ids, NEW t \in Teams
               PROVE  Comers(r, o, b, t) = Comers(st, o, b, t)
    BY <1>2 DEF Sound, CountsSound
  <2> QED
    BY <1>2 DEF Comers
<1>6. PlayersSound(r, o) /\ DeletedSound(r) /\ EventsSound(r)
  BY <1>2 DEF Sound, PlayersSound, PlayerSound, InQueue, DeletedSound, EventsSound
<1> QED
  BY <1>2, <1>4, <1>5, <1>6 DEF Sound, r

LEMMA FirstWaitingIn ==
  ASSUME NEW st \in States, NEW t \in Teams, FirstWaiting(st, t) # 0
  PROVE  /\ st.queue["premade"][t][FirstWaiting(st, t)] \in WaitingGroups(st, t)
         /\ st.queue["premade"][t][FirstWaiting(st, t)] \in SUBSET Players
<1> DEFINE groups == st.queue["premade"][t]
           I == {i \in 1 .. Len(groups) : IsWaiting(st, groups[i])}
<1>1. groups \in Seq(SUBSET Players)
  BY QueueParts DEF Kinds
<1>2. ToSet(groups) \subseteq GroupsOf(st, t)
  BY DEF GroupsOf
<1>3. FirstWaiting(st, t) = Min(I) /\ I # {}
  BY DEF FirstWaiting, SelectInSeq
<1>4. Min(I) \in I
  <2>1. I \subseteq 1 .. Len(groups) /\ Len(groups) \in Nat
    <3> HIDE DEF groups
    <3> QED
      BY <1>1
  <2> HIDE DEF I
  <2> QED
    BY <1>3, <2>1, LeastAndGreatest
<1>7. Min(I) \in 1 .. Len(groups) /\ IsWaiting(st, groups[Min(I)])
  BY <1>4
<1> HIDE DEF groups, I
<1>5. groups[Min(I)] \in ToSet(groups) /\ IsWaiting(st, groups[Min(I)]) /\ groups[Min(I)] \in SUBSET Players
  BY <1>1, <1>7 DEF ToSet
<1>6. groups[FirstWaiting(st, t)] \in WaitingGroups(st, t) /\ groups[FirstWaiting(st, t)] \in SUBSET Players
  BY <1>2, <1>3, <1>5 DEF WaitingGroups
<1> QED
  BY <1>6 DEF groups

LEMMA PremadeMatchSound ==
  ASSUME NEW st, NEW o, Sound(st, o), NEW late
  PROVE  Sound(PremadeMatch(st, late), o)
<1>1. st \in States /\ GroupsSound(st)
  BY DEF Sound
<1>2. CASE \A t \in Teams : FirstWaiting(st, t) # 0
  <2> DEFINE first(t) == {st.queue["premade"][t][FirstWaiting(st, t)]}
             least == Smaller(Count(first("alliance")), Count(first("horde")))
             A == [t \in Teams |-> AddGroups(st, first(t), st.queue["normal"][t], least, least)]
  <2>1. PremadeMatch(st, late) =
          CreateNewBattleground(st,
            UNION {AddGroups(st, first(t), st.queue["normal"][t], least, least) : t \in Teams})
    BY <1>2 DEF PremadeMatch
  <2>2. ASSUME NEW t \in Teams
        PROVE  /\ first(t) \in SUBSET SUBSET Players /\ first(t) \subseteq WaitingGroups(st, t)
               /\ Count(first(t)) \in Nat /\ Count(first(t)) <= MaxPlayersPerTeam
    <3> DEFINE g == st.queue["premade"][t][FirstWaiting(st, t)]
    <3>1. g \in WaitingGroups(st, t) /\ g \in SUBSET Players
      BY <1>1, <1>2, FirstWaitingIn
    <3> HIDE DEF g
    <3>2. Cardinality(g) <= MaxPlayersPerTeam
      BY <1>1, <3>1 DEF WaitingGroups, GroupsSound
    <3>3. Count({g}) = Cardinality(g)
      <4>1. UNION {g} = g
        OBVIOUS
      <4> QED
        BY <4>1 DEF Count
    <3>4. Cardinality(g) \in Nat
      BY <3>1, TeamSets DEF Teams
    <3> QED
      BY <3>1, <3>2, <3>3, <3>4 DEF g
  <2>3. least \in Int /\ least <= MaxPlayersPerTeam
    <3>1. Count(first("alliance")) \in Nat /\ Count(first("alliance")) <= MaxPlayersPerTeam
      BY <2>2 DEF Teams
    <3>2. Count(first("horde")) \in Nat /\ Count(first("horde")) <= MaxPlayersPerTeam
      BY <2>2 DEF Teams
    <3> HIDE DEF first
    <3> QED
      BY <3>1, <3>2 DEF Smaller
  <2>4. ASSUME NEW t \in Teams
        PROVE  /\ A[t] \in SUBSET SUBSET Players
               /\ A[t] \subseteq WaitingGroups(st, t) /\ Count(A[t]) <= MaxPlayersPerTeam
    <3> DEFINE f == first(t)
               groups == st.queue["normal"][t]
               s == AddGroups(st, f, groups, least, least)
    <3>1. A[t] = s
      OBVIOUS
    <3>2. groups \in Seq(SUBSET Players) /\ ToSet(groups) \subseteq SUBSET Players
      BY <1>1, QueueParts DEF Kinds
    <3>3. ToSet(groups) \subseteq GroupsOf(st, t)
      BY DEF GroupsOf
    <3>4. /\ f \in SUBSET SUBSET Players /\ f \subseteq WaitingGroups(st, t)
          /\ Count(f) <= MaxPlayersPerTeam
      BY <2>2
    <3>5. MaxPlayersPerTeam \in Nat
      BY SizeAssumption
    <3> HIDE DEF f, groups, least, A
    <3>6. /\ s \subseteq f \cup {g \in ToSet(groups) : IsWaiting(st, g)}
          /\ Count(s) <= MaxPlayersPerTeam
      BY <2>3, <3>2, <3>4, <3>5, AddGroupsPool
    <3> HIDE DEF s
    <3> QED
      BY <3>1, <3>2, <3>3, <3>4, <3>6 DEF WaitingGroups
  <2>5. A = [t \in Teams |-> A[t]]
    OBVIOUS
  <2>6. UNION {AddGroups(st, first(t), st.queue["normal"][t], least, least) : t \in Teams}
          = UNION {A[t] : t \in Teams}
    OBVIOUS
  <2> HIDE DEF A, least, first
  <2>7. A \in [Teams -> SUBSET SUBSET Players]
    BY <2>4, <2>5
  <2>8. Sound(CreateNewBattleground(st, UNION {A[t] : t \in Teams}), o)
    BY <2>4, <2>7, CreateSound
  <2> QED
    BY <2>1, <2>6, <2>8
<1>3. CASE ~ \A t \in Teams : FirstWaiting(st, t) # 0
  <2> DEFINE moves(t) == LET h == st.queue["premade"][t] IN
               /\ h # <<>> /\ IsWaiting(st, Head(h))
               /\ t \in late \/ Cardinality(Head(h)) < MinPlayersPerTeam
             pre == [t \in Teams |-> IF moves(t) THEN Tail(st.queue["premade"][t])
                                     ELSE st.queue["premade"][t]]
             nor == [t \in Teams |-> IF moves(t)
                                     THEN <<Head(st.queue["premade"][t])>> \o st.queue["normal"][t]
                                     ELSE st.queue["normal"][t]]
             q == [premade |-> pre, normal |-> nor]
  <2>1. PremadeMatch(st, late) = [st EXCEPT !.queue = q]
    BY <1>3 DEF PremadeMatch
  <2>2. ASSUME NEW t \in Teams
        PROVE  /\ pre[t] \in Seq((SUBSET Players) \ {{}}) /\ nor[t] \in Seq((SUBSET Players) \ {{}})
               /\ ToSet(pre[t]) \cup ToSet(nor[t]) \subseteq GroupsOf(st, t)
    <3> DEFINE a == st.queue["premade"][t]
               b == st.queue["normal"][t]
    <3>1. a \in Seq((SUBSET Players) \ {{}}) /\ b \in Seq((SUBSET Players) \ {{}})
      BY <1>1, QueueParts DEF Kinds
    <3>2. GroupsOf(st, t) = ToSet(a) \cup ToSet(b)
      BY DEF GroupsOf
    <3>3. \/ pre[t] = a /\ nor[t] = b
          \/ a # <<>> /\ pre[t] = Tail(a) /\ nor[t] = <<Head(a)>> \o b
      OBVIOUS
    <3> HIDE DEF a, b, pre, nor
    <3>4. a # <<>> => /\ Tail(a) \in Seq((SUBSET Players) \ {{}})
                      /\ Head(a) \in (SUBSET Players) \ {{}}
                      /\ <<Head(a)>> \o b \in Seq((SUBSET Players) \ {{}})
      BY <3>1
    <3>5. a # <<>> => ToSet(Tail(a)) \subseteq ToSet(a) /\ Head(a) \in ToSet(a)
      BY <3>1 DEF ToSet
    <3>6. a # <<>> => ToSet(<<Head(a)>> \o b) \subseteq ToSet(a) \cup ToSet(b)
      <4> SUFFICES ASSUME a # <<>>, NEW x \in ToSet(<<Head(a)>> \o b)
                   PROVE  x = Head(a) \/ x \in ToSet(b)
        BY <3>5
      <4> DEFINE u == Head(a)
      <4> HIDE DEF u
      <4>1. PICK i \in 1 .. (1 + Len(b)) : x = (<<u>> \o b)[i]
        BY <3>1, <3>4 DEF ToSet, u
      <4>2. CASE i = 1
        BY <3>1, <4>1, <4>2 DEF u
      <4>3. CASE i # 1
        <5>1. x = b[i - 1] /\ i - 1 \in DOMAIN b
          BY <3>1, <4>1, <4>3
        <5> QED
          BY <5>1 DEF ToSet
      <4> QED
        BY <4>2, <4>3
    <3> QED
      BY <3>1, <3>2, <3>3, <3>4, <3>5, <3>6
  <2>3. pre = [t \in Teams |-> pre[t]] /\ nor = [t \in Teams |-> nor[t]]
    OBVIOUS
  <2> HIDE DEF pre, nor
  <2>4. /\ pre \in [Teams -> Seq((SUBSET Players) \ {{}})]
        /\ nor \in [Teams -> Seq((SUBSET Players) \ {{}})]
    BY <2>2, <2>3
  <2>5. /\ q \in [Kinds -> [Teams -> Seq((SUBSET Players) \ {{}})]]
        /\ q["premade"] = pre /\ q["normal"] = nor
    <3>1. q["premade"] = pre /\ q["normal"] = nor /\ DOMAIN q = Kinds
      BY DEF Kinds
    <3>2. q = [k \in Kinds |-> q[k]]
      BY DEF Kinds
    <3> HIDE DEF q
    <3> QED
      BY <2>4, <3>1, <3>2 DEF Kinds
  <2> HIDE DEF q
  <2>6. Sound([st EXCEPT !.queue = q], o)
    BY <2>2, <2>5, MoveSound
  <2> QED
    BY <2>1, <2>6
<1> QED
  BY <1>2, <1>3

LEMMA NormalMatchSound ==
  ASSUME NEW st, NEW o, Sound(st, o)
  PROVE  Sound(NormalMatch(st), o)
<1> DEFINE pool(t) == AddGroups(st, {}, st.queue["normal"][t], MaxPlayersPerTeam, MinPlayersPerTeam)
           A == [t \in Teams |-> pool(t)]
<1>1. st \in States /\ MaxPlayersPerTeam \in Nat
  BY SizeAssumption DEF Sound
<1>2. \A t \in Teams :
        /\ pool(t) \subseteq WaitingGroups(st, t) /\ pool(t) \in SUBSET SUBSET Players
        /\ Count(pool(t)) <= MaxPlayersPerTeam
  BY <1>1, NormalGroups
<1>3. NormalMatch(st) \in {st, CreateNewBattleground(st, UNION {pool(t) : t \in Teams})}
  BY DEF NormalMatch
<1>4. \A t \in Teams : A[t] = pool(t)
  OBVIOUS
<1>5. UNION {pool(t) : t \in Teams} = UNION {A[t] : t \in Teams}
  OBVIOUS
<1>6. A \in [Teams -> SUBSET SUBSET Players]
  BY <1>2
<1> HIDE DEF A, pool
<1>7. Sound(CreateNewBattleground(st, UNION {A[t] : t \in Teams}), o)
  BY <1>2, <1>4, <1>6, CreateSound
<1> QED
  BY <1>3, <1>5, <1>7

LEMMA BattlegroundQueueUpdateSound ==
  ASSUME NEW st, NEW o, Sound(st, o), NEW late
  PROVE  Sound(BattlegroundQueueUpdate(st, late), o)
<1>1. BattlegroundQueueUpdate(st, late) \in {st, NormalMatch(PremadeMatch(AllOffered(st), late))}
  BY Zenon DEF BattlegroundQueueUpdate, AllOffered
<1>2. Sound(AllOffered(st), o)
  BY AllOfferedSound
<1>3. Sound(PremadeMatch(AllOffered(st), late), o)
  BY <1>2, PremadeMatchSound
<1>4. Sound(NormalMatch(PremadeMatch(AllOffered(st), late)), o)
  BY <1>3, NormalMatchSound
<1> QED
  BY <1>1, <1>4

LEMMA UpdateQueueSound ==
  ASSUME QueueInv, UpdateQueue
  PROVE  Sound(St', online')
<1>1. Sound(St, online) /\ St \in States
  BY StParts
<1>2. CASE scheduled
  <2>1. PICK late : Becomes([BattlegroundQueueUpdate(St, late) EXCEPT !.scheduled = FALSE])
    BY <1>2 DEF UpdateQueue
  <2> DEFINE m == BattlegroundQueueUpdate(St, late)
             v == FALSE
             r == [m EXCEPT !.scheduled = v]
  <2>2. Sound(m, online) /\ v \in BOOLEAN
    BY <1>1, BattlegroundQueueUpdateSound
  <2>3. Becomes(r)
    BY <2>1
  <2> HIDE DEF m, v
  <2>4. m \in States
    BY <2>2 DEF Sound
  <2>5. /\ r \in States /\ r.queue = m.queue /\ r.info = m.info /\ r.qid = m.qid
        /\ r.bgOf = m.bgOf /\ r.events = m.events /\ r.bgs = m.bgs
    BY <2>2, <2>4 DEF States
  <2> HIDE DEF r
  <2>6. DeletedSound(r)
    BY <2>2, <2>5 DEF Sound, DeletedSound
  <2>7. Sound(r, online)
    BY <2>2, <2>5, <2>6, NobodySound
  <2>8. St' = r
    BY <2>3, <2>5, StBecomes
  <2> QED
    BY <2>7, <2>8 DEF UpdateQueue
<1>3. CASE ~ scheduled
  <2>1. St' = St /\ online' = online
    BY <1>1, <1>3, StBecomes DEF UpdateQueue
  <2> QED
    BY <1>1, <2>1
<1> QED
  BY <1>2, <1>3
-----------------------------------------------------------------------------
(* The inductive invariant, and what follows from it.                      *)

LEMMA InitQueueInv == QueueInit => QueueInv
<1> SUFFICES ASSUME QueueInit PROVE QueueInv
  OBVIOUS
<1> USE DEF QueueInit
<1>1. NoBattleground \in Battleground
  BY DEF NoBattleground, Battleground
<1>2. NotInQueue \in GroupQueueInfo /\ NotInQueue.invited = NotQueued
  BY BoundAssumption DEF NotInQueue, GroupQueueInfo
<1>3. /\ NoBattleground.players = {} /\ NoBattleground.status = "none"
      /\ \A t \in Teams : NoBattleground.invited[t] = 0
  BY DEF NoBattleground
<1>4. QueueTypeOK
  <2>1. queue \in [Kinds -> [Teams -> Seq((SUBSET Players) \ {{}})]]
    OBVIOUS
  <2>2. bgs \in [Ids -> Battleground] /\ info \in [Players -> GroupQueueInfo]
    BY <1>1, <1>2
  <2>3. freeSlots \in Seq(Ids) /\ events = {} /\ scheduled \in BOOLEAN
    <3>1. <<>> \in Seq(Ids)
      OBVIOUS
    <3>2. freeSlots = <<>> /\ events = {} /\ scheduled = FALSE
      OBVIOUS
    <3> QED
      BY <3>1, <3>2
  <2>4. /\ qid \in [Players -> Ids \cup {NoBg, NotQueued}]
        /\ bgOf \in [Players -> Ids \cup {NoBg}]
    OBVIOUS
  <2>5. online \in [Players -> {"offline", "world", "transit"}]
    OBVIOUS
  <2>6. phase \in {"sessions", "battlegrounds", "events", "queue"} /\ todo \subseteq Ids
    OBVIOUS
  <2> QED
    BY <2>1, <2>2, <2>3, <2>4, <2>5, <2>6 DEF QueueTypeOK
<1>5. /\ St.queue = queue /\ St.info = info /\ St.bgs = bgs /\ St.events = events
      /\ St.qid = qid /\ St.bgOf = bgOf
  BY DEF St
<1>6. St \in States
  BY <1>4 DEF QueueTypeOK, States, St
<1>7. \A t \in Teams : GroupsOf(St, t) = {}
  BY <1>5 DEF GroupsOf, ToSet, Kinds
<1>8. NotQueued \notin Ids /\ NoBg \notin Ids
  BY DEF NotQueued, NoBg, Ids
<1>9. \A p \in Players : /\ St.info[p].invited = NotQueued /\ online[p] = "world"
                         /\ \A b \in Ids : p \notin St.bgs[b].players
  BY <1>2, <1>3, <1>5
<1>10. PlayersSound(St, online) /\ EventsSound(St)
  BY <1>8, <1>9 DEF PlayersSound, PlayerSound, EventsSound, InQueue
<1>11. CountsSound(St, online)
  <2> SUFFICES ASSUME NEW b \in Ids, NEW t \in Teams
               PROVE  /\ St.bgs[b].invited[t] = Cardinality(Comers(St, online, b, t))
                      /\ St.bgs[b].invited[t] <= MaxPlayersPerTeam
    BY DEF CountsSound
  <2>1. Comers(St, online, b, t) = {}
    BY <1>8, <1>9 DEF Comers, Of
  <2>2. St.bgs[b].invited[t] = 0
    BY <1>3, <1>5
  <2>3. Cardinality(Comers(St, online, b, t)) = 0
    BY <2>1, FS_EmptySet
  <2> QED
    BY <2>2, <2>3, SizeAssumption
<1>12. DeletedSound(St)
  BY <1>3, <1>5 DEF DeletedSound
<1>13. GroupsSound(St)
  BY <1>7 DEF GroupsSound
<1> QED
  BY <1>4, <1>6, <1>10, <1>11, <1>12, <1>13 DEF QueueInv, Sound

\* Where the players and the world thread are.
PlacesOK == online \in Onlines /\ phase \in {"sessions", "battlegrounds", "events", "queue"}
              /\ todo \subseteq Ids

LEMMA InvFromSound ==
  ASSUME Sound(St', online'), PlacesOK'
  PROVE  QueueInv'
<1>1. St' \in States
  BY DEF Sound
<1>2. /\ St'.queue = queue' /\ St'.info = info' /\ St'.bgs = bgs' /\ St'.free = freeSlots'
      /\ St'.events = events' /\ St'.scheduled = scheduled' /\ St'.qid = qid' /\ St'.bgOf = bgOf'
  BY DEF St
<1>3. QueueTypeOK'
  <2>1. /\ St'.queue \in [Kinds -> [Teams -> Seq((SUBSET Players) \ {{}})]]
        /\ St'.info \in [Players -> GroupQueueInfo] /\ St'.bgs \in [Ids -> Battleground]
        /\ St'.free \in Seq(Ids)
        /\ St'.events \subseteq [player : Players, bg : Ids, left : 1 .. AcceptTime]
        /\ St'.scheduled \in BOOLEAN
        /\ St'.qid \in [Players -> Ids \cup {NoBg, NotQueued}]
        /\ St'.bgOf \in [Players -> Ids \cup {NoBg}]
    BY <1>1 DEF States
  <2> QED
    BY <1>2, <2>1 DEF QueueTypeOK, PlacesOK, Onlines
<1> QED
  BY <1>3 DEF QueueInv, Sound

\* The steps of the sessions leave the world thread where it is.
LEMMA SessionsPlaces ==
  ASSUME QueueInv, Sessions, NEW p \in Players, NEW v \in {"offline", "world", "transit"},
         online' = online \/ online' = [online EXCEPT ![p] = v]
  PROVE  PlacesOK'
BY DEF QueueInv, QueueTypeOK, Sessions, PlacesOK, Onlines

LEMMA UpdatesPlaces ==
  ASSUME QueueInv, NEW b \in Ids, Updates(b)
  PROVE  PlacesOK'
BY DEF QueueInv, QueueTypeOK, Updates, PlacesOK, Onlines

LEMMA PlayerStepInv ==
  ASSUME QueueInv, NEW p \in Players, PlayerStep(p)
  PROVE  QueueInv' /\ phase = "sessions"
<1>1. Sessions
  BY DEF PlayerStep, Enter, LeaveQueue, Arrive, LeaveBattleground, Logout, Login
<1>2. CASE Enter(p)
  BY <1>1, <1>2, EnterSound, SessionsPlaces, InvFromSound DEF Enter, Sessions
<1>3. CASE LeaveQueue(p)
  BY <1>1, <1>3, LeaveQueueSound, SessionsPlaces, InvFromSound DEF LeaveQueue, Sessions
<1>4. CASE Arrive(p)
  BY <1>1, <1>4, ArriveSound, SessionsPlaces, InvFromSound DEF Arrive, Sessions
<1>5. CASE LeaveBattleground(p)
  BY <1>1, <1>5, LeaveBattlegroundSound, SessionsPlaces, InvFromSound
     DEF LeaveBattleground, Sessions
<1>6. CASE Logout(p)
  BY <1>1, <1>6, LogoutSound, SessionsPlaces, InvFromSound DEF Logout, Sessions
<1>7. CASE Login(p)
  BY <1>1, <1>7, LoginSound, SessionsPlaces, InvFromSound DEF Login, Sessions
<1> QED
  BY <1>2, <1>3, <1>4, <1>5, <1>6, <1>7 DEF PlayerStep

LEMMA JoinInv ==
  ASSUME QueueInv, NEW ps \in (SUBSET Players) \ {{}}, Cardinality(ps) <= MaxPlayersPerTeam,
         Join(ps)
  PROVE  QueueInv' /\ phase = "sessions"
<1>1. Sessions /\ online' = online
  BY DEF Join
<1>2. Sound(St', online')
  BY JoinSound
<1>3. PlacesOK'
  BY <1>1 DEF QueueInv, QueueTypeOK, Sessions, PlacesOK, Onlines
<1> QED
  BY <1>1, <1>2, <1>3, InvFromSound DEF Sessions

\* Battleground::Update, or the decision of the battle.
LEMMA BattlegroundInv ==
  ASSUME QueueInv, NEW b \in Ids,
         EndBattleground(b) \/ Delete(b) \/ NothingDue(b) \/ TimerRunsOut(b)
  PROVE  QueueInv' /\ phase \in {"sessions", "battlegrounds"}
<1>1. CASE EndBattleground(b)
  <2>1. Sound(St', online')
    BY <1>1, EndBattlegroundSound
  <2>2. PlacesOK' /\ phase = "sessions"
    BY <1>1 DEF EndBattleground, Sessions, QueueInv, QueueTypeOK, PlacesOK, Onlines
  <2> QED
    BY <2>1, <2>2, InvFromSound
<1>2. CASE ~ EndBattleground(b)
  <2>1. Updates(b) /\ phase = "battlegrounds"
    BY <1>2 DEF Delete, NothingDue, TimerRunsOut, Start, RemoveOffline, RemoveAll, Updates
  <2>2. PlacesOK'
    BY <2>1, UpdatesPlaces
  <2>3. Sound(St', online')
    <3>1. CASE NothingDue(b)
      <4>1. Sound(St, online) /\ St \in States
        BY StParts
      <4>2. St' = St /\ online' = online
        BY <3>1, <4>1, StBecomes DEF NothingDue, Updates
      <4> QED
        BY <4>1, <4>2
    <3>2. CASE Delete(b)
      BY <3>2, DeleteSound
    <3>3. CASE Start(b)
      BY <3>3, StartSound
    <3>4. CASE RemoveOffline(b)
      BY <3>4, RemoveOfflineSound
    <3>5. CASE RemoveAll(b)
      BY <3>5, RemoveAllSound
    <3> QED
      BY <1>2, <3>1, <3>2, <3>3, <3>4, <3>5 DEF TimerRunsOut
  <2> QED
    BY <2>1, <2>2, <2>3, InvFromSound
<1> QED
  BY <1>1, <1>2

\* An update of the manager that lets the battlegrounds alone.
LEMMA MgrInv ==
  ASSUME QueueInv, SkipBattlegrounds \/ UpdateBattlegrounds \/ UpdateEvents \/ UpdateQueue
  PROVE  QueueInv'
<1>1. PlacesOK'
  BY DEF SkipBattlegrounds, UpdateBattlegrounds, UpdateEvents, UpdateQueue, QueueInv, QueueTypeOK,
         PlacesOK, Onlines
<1>2. Sound(St', online')
  <2>1. CASE SkipBattlegrounds \/ UpdateBattlegrounds
    <3>1. Sound(St, online)
      BY StParts
    <3>2. St' = St /\ online' = online
      BY <2>1 DEF SkipBattlegrounds, UpdateBattlegrounds, St
    <3> QED
      BY <3>1, <3>2
  <2>2. CASE UpdateEvents
    BY <2>2, UpdateEventsSound
  <2>3. CASE UpdateQueue
    BY <2>3, UpdateQueueSound
  <2> QED
    BY <2>1, <2>2, <2>3
<1> QED
  BY <1>1, <1>2, InvFromSound

LEMMA NextQueueInv == QueueInv /\ [QueueNext]_queueVars => QueueInv'
<1> SUFFICES ASSUME QueueInv, [QueueNext]_queueVars PROVE QueueInv'
  OBVIOUS
<1>1. CASE UNCHANGED queueVars
  <2>1. St' = St /\ online' = online /\ phase' = phase /\ todo' = todo
    BY <1>1 DEF queueVars, St
  <2>2. Sound(St', online') /\ PlacesOK'
    BY <2>1 DEF QueueInv, QueueTypeOK, PlacesOK, Onlines
  <2> QED
    BY <2>2, InvFromSound
<1>2. CASE QueueNext
  BY <1>2, JoinInv, PlayerStepInv, BattlegroundInv, MgrInv DEF QueueNext, MgrUpdate
<1> QED
  BY <1>1, <1>2

\* The queue, the invitations, the battlegrounds and the events have the types
\* of the members of BattlegroundQueue and BattlegroundMgr they stand for.
THEOREM QueueTypeCorrect == QueueSpec => []QueueTypeOK
<1>1. QueueInv => QueueTypeOK
  BY DEF QueueInv
<1> QED
  BY <1>1, InitQueueInv, NextQueueInv, PTL DEF QueueSpec

\* The invited count of a battleground is the number of players of the team who
\* are invited to it, on the way to it or in it, and never above the size of a
\* team: whatever the order in which players answer, log out and are timed out.
THEOREM CountsExact == QueueSpec => []InvitedCountExact
<1>1. QueueInv => InvitedCountExact
  <2> SUFFICES ASSUME QueueInv, NEW b \in Ids, NEW t \in Teams
               PROVE  /\ bgs[b].invited[t] = Cardinality(Expected(b, t))
                      /\ bgs[b].invited[t] <= MaxPlayersPerTeam
    BY DEF InvitedCountExact
  <2>1. CountsSound(St, online) /\ St.bgs = bgs
    BY StParts DEF Sound
  <2>2. Comers(St, online, b, t) = Expected(b, t)
    BY DEF Comers, Expected, St
  <2> QED
    BY <2>1, <2>2 DEF CountsSound
<1> QED
  BY <1>1, InitQueueInv, NextQueueInv, PTL DEF QueueSpec

\* The events of an update withdraw the invitations whose time is over, and
\* these only, although older events of the same player and battleground are
\* still in m_events.
THEOREM InvitationsOnTime == QueueSpec => InvitationTime
<1> DEFINE OnTime ==
             phase = "events" /\ phase' = "queue" =>
               \A p \in Players :
                 info[p].invited \in Ids => (InQueue(St, p)' <=> info[p].left > 1)
<1>1. QueueInv /\ [QueueNext]_queueVars => [OnTime]_queueVars
  <2> SUFFICES ASSUME QueueInv, QueueNext, phase = "events", phase' = "queue"
               PROVE  \A p \in Players :
                        info[p].invited \in Ids => (InQueue(St, p)' <=> info[p].left > 1)
    OBVIOUS
  <2>1. UpdateEvents
    <3>1. ASSUME NEW p \in Players, PlayerStep(p) PROVE FALSE
      BY <3>1, PlayerStepInv
    <3>2. ASSUME NEW b \in Ids, EndBattleground(b) \/ Delete(b) \/ NothingDue(b) \/ TimerRunsOut(b)
          PROVE  FALSE
      BY <3>2, BattlegroundInv
    <3>3. ASSUME NEW ps \in (SUBSET Players) \ {{}}, Cardinality(ps) <= MaxPlayersPerTeam, Join(ps)
          PROVE  FALSE
      BY <3>3, JoinInv
    <3>4. ~ SkipBattlegrounds /\ ~ UpdateBattlegrounds /\ ~ UpdateQueue
      BY DEF SkipBattlegrounds, UpdateBattlegrounds, UpdateQueue
    <3> QED
      BY <3>1, <3>2, <3>3, <3>4 DEF QueueNext, MgrUpdate
  <2> QED
    BY <2>1, UpdateEventsSound
<1> QED
  BY <1>1, InitQueueInv, NextQueueInv, PTL DEF QueueSpec, InvitationTime
-----------------------------------------------------------------------------
(* The ids.  For any number of workers an id is never handed out while it  *)
(* is in use, although FreeInstanceId races with itself; until it does,    *)
(* next is the lowest free id and no id is lost but those of instances     *)
(* that ended without FreeInstanceId.                                      *)

\* While rows are read, those read have lower ids than those to come, and
\* nothing else goes on.
Loading ==
  /\ next \notin dungeons \cup battlegrounds
  /\ size >= MaxStored + 2
  /\ toRegister # {} => BetweenTicks /\ battlegrounds = {} /\ forgotten = {}
  /\ \A id \in dungeons : \A row \in toRegister : id < row

\* An id that was never given back is neither free nor handed out again.
Forgotten ==
  /\ forgotten \cap InUse = {} /\ forgotten \cap free = {}
  /\ next \notin forgotten

Taken == InUse \cup forgotten

\* What a worker is about to write into the shared words names no id in use,
\* and none that was never given back.
Pending ==
  \A w \in Workers :
    /\ wpc[w] # "idle" => wid[w] \in 1 .. size - 1 /\ wid[w] \notin Taken
    /\ wpc[w] = "writeNext" => wnext[w] \in 1 .. size - 1 /\ wnext[w] \notin Taken
    /\ wpc[w] = "writeWord" => wword[w] \cap Taken = {}

IInv == TypeOK /\ NextIsUnused /\ Loading /\ Forgotten /\ Pending

-----------------------------------------------------------------------------
LEMMA InitIInv == Init => IInv
<1> SUFFICES ASSUME Init PROVE IInv
  OBVIOUS
<1> USE StoredAssumption DEF Init
<1>1. TypeOK
  <2>1. next \in 1 .. size - 1 /\ free \subseteq 1 .. size - 1 /\ size \in Nat
    OBVIOUS
  <2>2. /\ wpc \in [Workers -> {"idle", "writeNext", "readWord", "writeWord"}]
        /\ wid \in [Workers -> 0 .. size - 1]
        /\ wnext \in [Workers -> 0 .. size - 1]
        /\ wword \in [Workers -> SUBSET (1 .. size - 1)]
    <3>1. 0 \in 0 .. size - 1
      OBVIOUS
    <3> QED
      BY <3>1
  <2> QED
    BY <2>1, <2>2 DEF TypeOK
<1>2. NextIsUnused
  BY DEF NextIsUnused, InUse
<1>3. Loading
  BY DEF Loading, BetweenTicks
<1>4. Forgotten /\ Pending
  BY DEF Forgotten, Pending
<1> QED
  BY <1>1, <1>2, <1>3, <1>4 DEF IInv

\* While a worker is in FreeInstanceId every row has been read.
LEMMA LoadedInTick ==
  ASSUME IInv, NEW w \in Workers, wpc[w] # "idle"
  PROVE  toRegister = {}
BY DEF IInv, Loading, BetweenTicks

LEMMA RegisterKeeps ==
  ASSUME IInv, NEW id \in toRegister, RegisterInstanceId(id)
  PROVE  IInv'
<1> USE DEF IInv, RegisterInstanceId, workerVars, history
<1>1. id \in 1 .. MaxStored /\ size >= MaxStored + 2 /\ MaxStored \in Nat
  BY StoredAssumption DEF TypeOK, Loading
<1>2. TypeOK'
  BY <1>1 DEF TypeOK
<1>3. battlegrounds = {} /\ BetweenTicks /\ forgotten = {}
  BY DEF Loading
<1>4. next' \notin dungeons'
  <2>1. CASE next = id
    <3>1. next' \notin dungeons
      BY <2>1, <1>1 DEF Loading, TypeOK
    <3> QED
      BY <3>1, <2>1, <1>1
  <2>2. CASE next # id
    BY <2>2 DEF Loading
  <2> QED
    BY <2>1, <2>2
<1>5. NextIsUnused'
  BY <1>3, <1>4 DEF NextIsUnused, InUse
<1>6. \A d \in dungeons' : \A row \in toRegister' : d < row
  <2> SUFFICES ASSUME NEW d \in dungeons', NEW row \in toRegister' PROVE d < row
    OBVIOUS
  <2>1. CASE d \in dungeons
    BY <2>1 DEF Loading
  <2>2. CASE d = id
    BY <2>2, <1>1, StoredAssumption DEF TypeOK
  <2> QED
    BY <2>1, <2>2
<1>7. Loading'
  BY <1>3, <1>4, <1>6 DEF Loading, BetweenTicks
<1>8. Forgotten' /\ Pending'
  BY <1>3 DEF Forgotten, Pending, BetweenTicks
<1> QED
  BY <1>2, <1>5, <1>7, <1>8

\* What find_next leaves: a next id that is not taken, above the old one.
LEMMA FindNextResult ==
  ASSUME IInv, toRegister = {}, FindNext(free \ {next})
  PROVE  /\ size' \in Nat /\ size' >= size
         /\ next' \in 1 .. size' - 1 /\ next' # next
         /\ next' \notin Taken
         /\ free' \subseteq 1 .. size' - 1
         /\ \A id \in free' : id \notin Taken \cup {next}
<1>1. size \in Nat /\ next \in 1 .. size - 1 /\ free \subseteq 1 .. size - 1
      /\ Taken \subseteq 1 .. size - 1
  BY DEF IInv, TypeOK, InUse, Taken
<1>2. \A id \in free : id \notin Taken
  BY DEF IInv, NextIsUnused, Forgotten, Taken
<1>3. CASE \E n \in free \ {next} :
             /\ n > next
             /\ \A m \in free \ {next} : m > next => n <= m
             /\ next' = n /\ free' = free \ {next} /\ size' = size
  BY <1>1, <1>2, <1>3
<1>4. CASE /\ \A m \in free \ {next} : m <= next
           /\ next' = size /\ free' = (free \ {next}) \cup {size} /\ size' = size + 1
  BY <1>1, <1>2, <1>4
<1> QED
  BY <1>3, <1>4 DEF FindNext

LEMMA WiderRange ==
  ASSUME NEW m \in Nat, NEW n \in Nat, n >= m
  PROVE  0 .. m - 1 \subseteq 0 .. n - 1 /\ 1 .. m - 1 \subseteq 1 .. n - 1
OBVIOUS

LEMMA GenerateKeeps ==
  ASSUME IInv, GenerateInstanceId
  PROVE  IInv'
<1> USE DEF GenerateInstanceId, workerVars, history
<1>1. /\ size' \in Nat /\ size' >= size
      /\ next' \in 1 .. size' - 1 /\ next' # next
      /\ next' \notin Taken
      /\ free' \subseteq 1 .. size' - 1
      /\ \A id \in free' : id \notin Taken \cup {next}
  BY FindNextResult
<1>2. toRegister = {} /\ toRegister' = {} /\ InUse' = InUse \cup {next}
  BY DEF InUse
<1>3. next \notin Taken /\ next \in 1 .. size - 1 /\ size \in Nat
  BY <1>2 DEF IInv, TypeOK, NextIsUnused, Forgotten, Taken
<1>4. TypeOK'
  <2>1. 0 .. size - 1 \subseteq 0 .. size' - 1 /\ 1 .. size - 1 \subseteq 1 .. size' - 1
    BY <1>1, <1>3, WiderRange
  <2>2. /\ dungeons' \subseteq 1 .. size' - 1 /\ battlegrounds' \subseteq 1 .. size' - 1
        /\ forgotten' \subseteq 1 .. size' - 1
    BY <1>3, <2>1 DEF IInv, TypeOK
  <2>3. wid \in [Workers -> 0 .. size' - 1] /\ wnext \in [Workers -> 0 .. size' - 1]
    BY <2>1 DEF IInv, TypeOK
  <2>4. wword \in [Workers -> SUBSET (1 .. size' - 1)]
    BY <2>1 DEF IInv, TypeOK
  <2> QED
    BY <1>1, <2>2, <2>3, <2>4 DEF IInv, TypeOK
<1>5. NextIsUnused'
  <2>1. dungeons' \cap battlegrounds' = {}
    BY <1>3 DEF IInv, NextIsUnused, InUse, Taken
  <2> QED
    BY <1>1, <1>2, <2>1 DEF NextIsUnused, Taken
<1>6. Loading'
  <2>1. size' >= MaxStored + 2
    BY <1>1, <1>3, StoredAssumption DEF IInv, Loading
  <2> QED
    BY <1>1, <1>2, <2>1 DEF Loading, InUse, Taken
<1>7. Pending'
  BY DEF BetweenTicks, Pending
<1>8. Forgotten'
  BY <1>1, <1>2, <1>3 DEF IInv, Forgotten, Taken
<1> QED
  BY <1>4, <1>5, <1>6, <1>7, <1>8 DEF IInv

LEMMA OverflowKeeps ==
  ASSUME IInv, Overflow
  PROVE  IInv'
BY DEF IInv, TypeOK, NextIsUnused, Loading, Forgotten, Pending, BetweenTicks, InUse,
       Taken, Overflow, users, workerVars, history

LEMMA ResetKeeps ==
  ASSUME IInv, NEW id \in dungeons, ResetInstance(id)
  PROVE  IInv'
<1> USE DEF ResetInstance, workerVars, history, Lesser
<1>1. id \in 1 .. size - 1 /\ next \in 1 .. size - 1 /\ size \in Nat
  BY DEF IInv, TypeOK
<1>2. id \notin Taken'
  BY DEF IInv, NextIsUnused, Forgotten, InUse, Taken
<1>3. TypeOK'
  BY <1>1 DEF IInv, TypeOK
<1>4. NextIsUnused'
  BY <1>2 DEF IInv, NextIsUnused, InUse, Taken
<1>5. Loading'
  BY <1>2 DEF IInv, Loading, BetweenTicks, InUse, Taken
<1>6. Forgotten'
  BY <1>2 DEF IInv, Forgotten, InUse, Taken
<1>7. Pending'
  BY DEF IInv, Pending, BetweenTicks
<1> QED
  BY <1>3, <1>4, <1>5, <1>6, <1>7 DEF IInv

\* The ends that free no id.
LEMMA ForgetKeeps ==
  ASSUME IInv,
         \/ \E expired \in SUBSET dungeons \ {{}} : ResetOrWarnAll(expired)
         \/ \E id \in battlegrounds : DeleteBattleground(id)
  PROVE  IInv'
<1>1. PICK gone :
        /\ gone \subseteq dungeons \cup battlegrounds
        /\ dungeons' \subseteq dungeons \ gone /\ battlegrounds' \subseteq battlegrounds \ gone
        /\ forgotten' = forgotten \cup gone
        /\ toRegister = {} /\ BetweenTicks
        /\ UNCHANGED <<next, free, size, toRegister, stopped, workerVars, raced>>
  <2>1. CASE \E expired \in SUBSET dungeons \ {{}} : ResetOrWarnAll(expired)
    <3>1. PICK expired \in SUBSET dungeons \ {{}} : ResetOrWarnAll(expired)
      BY <2>1
    <3>2. dungeons \cap battlegrounds = {}
      BY DEF IInv, NextIsUnused
    <3>3. /\ expired \subseteq dungeons
          /\ dungeons' = dungeons \ expired /\ battlegrounds' = battlegrounds
          /\ forgotten' = forgotten \cup expired /\ toRegister = {} /\ BetweenTicks
          /\ UNCHANGED <<next, free, size, toRegister, stopped, workerVars, raced>>
      BY <3>1 DEF ResetOrWarnAll
    <3>4. battlegrounds' \subseteq battlegrounds \ expired
      BY <3>2, <3>3
    <3> QED
      BY <3>3, <3>4
  <2>2. CASE \E id \in battlegrounds : DeleteBattleground(id)
    <3>1. PICK id \in battlegrounds : DeleteBattleground(id)
      BY <2>2
    <3>2. dungeons \cap battlegrounds = {}
      BY DEF IInv, NextIsUnused
    <3>3. /\ dungeons' = dungeons /\ battlegrounds' = battlegrounds \ {id}
          /\ forgotten' = forgotten \cup {id} /\ toRegister = {} /\ BetweenTicks
          /\ UNCHANGED <<next, free, size, toRegister, stopped, workerVars, raced>>
      BY <3>1 DEF DeleteBattleground
    <3>4. dungeons' \subseteq dungeons \ {id}
      BY <3>1, <3>2, <3>3
    <3> QED
      BY <3>1, <3>3, <3>4
  <2> QED
    BY <2>1, <2>2
<1>2. toRegister' = {} /\ InUse' \subseteq InUse \ gone /\ gone \subseteq InUse
  BY <1>1 DEF InUse
<1>3. TypeOK'
  BY <1>1 DEF IInv, TypeOK, workerVars
<1>4. NextIsUnused'
  BY <1>1, <1>2 DEF IInv, NextIsUnused
<1>5. Loading'
  BY <1>1 DEF IInv, Loading
<1>6. Forgotten'
  BY <1>1, <1>2 DEF IInv, NextIsUnused, Forgotten
<1>7. Pending'
  BY <1>1 DEF Pending, BetweenTicks, workerVars
<1> QED
  BY <1>3, <1>4, <1>5, <1>6, <1>7 DEF IInv

LEMMA ReadNextKeeps ==
  ASSUME IInv, NEW w \in Workers, NEW id \in battlegrounds, ReadNext(w, id)
  PROVE  IInv'
<1> USE DEF ReadNext, Lesser
<1>1. id \in 1 .. size - 1 /\ next \in 1 .. size - 1 /\ size \in Nat
  BY DEF IInv, TypeOK
<1>2. id \notin Taken' /\ next \notin Taken /\ InUse' \subseteq InUse /\ Taken' \subseteq Taken
  BY DEF IInv, NextIsUnused, Forgotten, InUse, Taken
<1>3. TypeOK'
  <2>1. wnext' \in [Workers -> 0 .. size - 1] /\ wid' \in [Workers -> 0 .. size - 1]
    BY <1>1 DEF IInv, TypeOK
  <2>2. wpc' \in [Workers -> {"idle", "writeNext", "readWord", "writeWord"}]
    BY DEF IInv, TypeOK
  <2> QED
    BY <2>1, <2>2 DEF IInv, TypeOK
<1>4. NextIsUnused'
  BY <1>2 DEF IInv, NextIsUnused, InUse
<1>5. Loading'
  BY DEF IInv, Loading
<1>6. Pending'
  <2> SUFFICES ASSUME NEW v \in Workers
               PROVE  /\ wpc'[v] # "idle" => wid'[v] \in 1 .. size - 1 /\ wid'[v] \notin Taken'
                      /\ wpc'[v] = "writeNext" => wnext'[v] \in 1 .. size - 1 /\ wnext'[v] \notin Taken'
                      /\ wpc'[v] = "writeWord" => wword'[v] \cap Taken' = {}
    BY DEF Pending
  <2>1. CASE v = w
    BY <2>1, <1>1, <1>2 DEF IInv, TypeOK
  <2>2. CASE v # w
    <3>1. wpc'[v] = wpc[v] /\ wid'[v] = wid[v] /\ wnext'[v] = wnext[v] /\ wword'[v] = wword[v]
      BY <2>2 DEF IInv, TypeOK
    <3> QED
      BY <3>1, <1>2 DEF IInv, Pending
  <2> QED
    BY <2>1, <2>2
<1>7. Forgotten'
  BY <1>2 DEF IInv, Forgotten
<1> QED
  BY <1>3, <1>4, <1>5, <1>6, <1>7 DEF IInv

LEMMA WriteNextKeeps ==
  ASSUME IInv, NEW w \in Workers, WriteNext(w)
  PROVE  IInv'
<1> USE DEF WriteNext, users, history
<1>1. toRegister = {}
  BY LoadedInTick
<1>2. next' \in 1 .. size - 1 /\ next' \notin Taken
  BY DEF IInv, Pending
<1>3. TypeOK'
  BY <1>2 DEF IInv, TypeOK
<1>4. NextIsUnused'
  BY <1>2 DEF IInv, NextIsUnused, InUse, Taken
<1>5. Loading'
  BY <1>1, <1>2 DEF IInv, Loading, InUse, Taken
<1>6. Forgotten'
  BY <1>2 DEF IInv, Forgotten, InUse, Taken
<1>7. Pending'
  BY DEF IInv, TypeOK, Pending, InUse, Taken
<1> QED
  BY <1>3, <1>4, <1>5, <1>6, <1>7 DEF IInv

LEMMA ReadWordKeeps ==
  ASSUME IInv, NEW w \in Workers, ReadWord(w)
  PROVE  IInv'
<1> USE DEF ReadWord, users, history
<1>1. toRegister = {}
  BY LoadedInTick
<1>2. wid[w] \in 1 .. size - 1 /\ wid[w] \notin Taken
  BY DEF IInv, Pending
<1>3. /\ (free \cap Block(wid[w])) \cup {wid[w]} \subseteq 1 .. size - 1
      /\ ((free \cap Block(wid[w])) \cup {wid[w]}) \cap Taken = {}
  BY <1>1, <1>2 DEF IInv, TypeOK, NextIsUnused, Forgotten, Taken
<1>4. TypeOK'
  BY <1>3 DEF IInv, TypeOK
<1>5. NextIsUnused'
  BY DEF IInv, NextIsUnused, InUse
<1>6. Loading'
  BY <1>1 DEF IInv, Loading
<1>7. Pending'
  BY <1>3 DEF IInv, TypeOK, Pending, InUse, Taken
<1>8. Forgotten'
  BY DEF IInv, Forgotten, InUse
<1> QED
  BY <1>4, <1>5, <1>6, <1>7, <1>8 DEF IInv

LEMMA WriteWordKeeps ==
  ASSUME IInv, NEW w \in Workers, WriteWord(w)
  PROVE  IInv'
<1> USE DEF WriteWord, users, history
<1>1. toRegister = {}
  BY LoadedInTick
<1>2. wword[w] \subseteq 1 .. size - 1 /\ wword[w] \cap Taken = {}
  BY DEF IInv, TypeOK, Pending
<1>3. free' \subseteq 1 .. size - 1 /\ free' \cap Taken = {}
  BY <1>1, <1>2 DEF IInv, TypeOK, NextIsUnused, Forgotten, Taken
<1>4. TypeOK'
  <2>1. 0 \in 0 .. size - 1
    BY DEF IInv, TypeOK
  <2> QED
    BY <1>3, <2>1 DEF IInv, TypeOK
<1>5. NextIsUnused'
  BY <1>3 DEF IInv, NextIsUnused, InUse, Taken
<1>6. Loading'
  BY <1>1 DEF IInv, Loading
<1>7. Pending'
  BY DEF IInv, TypeOK, Pending, InUse, Taken
<1>8. Forgotten'
  BY <1>3 DEF IInv, Forgotten, InUse, Taken
<1> QED
  BY <1>4, <1>5, <1>6, <1>7, <1>8 DEF IInv

\* Every step keeps the invariant.
LEMMA NextIInv == IInv /\ [Next]_vars => IInv'
<1> SUFFICES ASSUME IInv, [Next]_vars PROVE IInv'
  OBVIOUS
<1>1. CASE UNCHANGED vars
  BY <1>1 DEF vars, IInv, TypeOK, NextIsUnused, Loading, Forgotten, Pending, InUse, Taken,
              BetweenTicks
<1>2. CASE WorldStep
  BY <1>2, RegisterKeeps, GenerateKeeps, OverflowKeeps, ResetKeeps, ForgetKeeps DEF WorldStep
<1>3. ASSUME NEW w \in Workers, WorkerStep(w) PROVE IInv'
  BY <1>3, ReadNextKeeps, WriteNextKeeps, ReadWordKeeps, WriteWordKeeps DEF WorkerStep
<1> QED
  BY <1>1, <1>2, <1>3 DEF Next, Stopped

\* IInv holds in every reachable state, however many workers free ids at once.
THEOREM IInvInvariant == Spec => []IInv
<1>1. Init => IInv
  BY InitIInv
<1>2. IInv /\ [Next]_vars => IInv'
  BY NextIInv
<1> QED
  BY <1>1, <1>2, PTL DEF Spec

\* next always lies within the bitset: the assertion of GenerateInstanceId
\* never fails.
THEOREM TypeCorrect == Spec => []TypeOK
<1>1. IInv => TypeOK
  BY DEF IInv
<1> QED
  BY <1>1, IInvInvariant, PTL

\* Two instances never share an id, although FreeInstanceId is called by
\* several workers at once without a lock.
THEOREM NoSharedId == Spec => []NextIsUnused
<1>1. IInv => NextIsUnused
  BY DEF IInv
<1> QED
  BY <1>1, IInvInvariant, PTL

-----------------------------------------------------------------------------
(* Until two workers are in FreeInstanceId at once, it is atomic in effect *)
(* and the bitset is exact.  With MapUpdate.Threads = 1, the default, they *)
(* never are.                                                              *)

Alone == \A v, w \in Workers : wpc[v] # "idle" /\ wpc[w] # "idle" => v = w

\* Every id below next, or below what next is about to become, is taken.
Lowest ==
  /\ (\A w \in Workers : wpc[w] # "writeNext") => \A id \in 1 .. next - 1 : id \in Taken
  /\ \A w \in Workers : wpc[w] = "writeNext" => \A id \in 1 .. wnext[w] - 1 : id \in Taken

\* Every id is free, taken, or on its way into the bitset.
Accounted ==
  /\ \A id \in 1 .. size - 1 :
       id \in free \cup Taken \/ \E w \in Workers : wpc[w] # "idle" /\ id = wid[w]
  /\ \A w \in Workers : wpc[w] = "writeWord" =>
       wword[w] = (free \cap Block(wid[w])) \cup {wid[w]}

Tracked == Alone /\ Lowest /\ Accounted

Exact == IInv /\ (~ raced => Tracked)

LEMMA InitExact == Init => Exact
<1> SUFFICES ASSUME Init PROVE Exact
  OBVIOUS
<1>1. Lowest
  BY DEF Init, Lowest
<1>2. Accounted
  BY StoredAssumption DEF Init, Accounted, Taken
<1>3. Alone
  BY DEF Init, Alone
<1> QED
  BY <1>1, <1>2, <1>3, InitIInv DEF Exact, Tracked

LEMMA RegisterExact ==
  ASSUME IInv, Tracked, NEW id \in toRegister, RegisterInstanceId(id)
  PROVE  Tracked'
<1> USE DEF RegisterInstanceId, workerVars, history
<1>1. BetweenTicks /\ Taken' = Taken /\ id \in Taken
  BY DEF IInv, Loading, InUse, Taken
<1>2. next \in Nat /\ id \in Nat
  BY StoredAssumption DEF IInv, TypeOK
<1>3. Lowest'
  <2>1. \A i \in 1 .. next' - 1 : i \in Taken
    BY <1>1, <1>2 DEF Tracked, Lowest, BetweenTicks
  <2> QED
    BY <1>1, <2>1 DEF Lowest, BetweenTicks
<1>4. Accounted'
  BY <1>1 DEF Tracked, Accounted, BetweenTicks
<1>5. Alone'
  BY <1>1 DEF Alone, BetweenTicks
<1> QED
  BY <1>3, <1>4, <1>5 DEF Tracked

\* The id find_next returns is the lowest one not taken: the ids between the
\* old next and the new one have no bit set, and no id is lost.
LEMMA GenerateExact ==
  ASSUME IInv, Tracked, GenerateInstanceId
  PROVE  Tracked'
<1> USE DEF GenerateInstanceId, workerVars, history
<1>1. /\ size \in Nat /\ next \in 1 .. size - 1
      /\ Taken' = Taken \cup {next}
      /\ \A w \in Workers : wpc[w] = "idle" /\ wpc'[w] = "idle"
  BY DEF IInv, TypeOK, InUse, Taken, BetweenTicks
<1>2. /\ \A id \in 1 .. next - 1 : id \in Taken
      /\ \A id \in 1 .. size - 1 : id \in free \cup Taken
  BY <1>1 DEF Tracked, Lowest, Accounted
<1>3. Alone'
  BY <1>1 DEF Alone
<1>4. CASE \E n \in free \ {next} :
             /\ n > next
             /\ \A m \in free \ {next} : m > next => n <= m
             /\ next' = n /\ free' = free \ {next} /\ size' = size
  <2>1. PICK n \in free \ {next} :
             /\ n > next
             /\ \A m \in free \ {next} : m > next => n <= m
             /\ next' = n /\ free' = free \ {next} /\ size' = size
    BY <1>4
  <2>2. n \in 1 .. size - 1
    BY DEF IInv, TypeOK
  <2>3. \A id \in 1 .. next' - 1 : id \in Taken'
    BY <1>1, <1>2, <2>1, <2>2
  <2>4. \A id \in 1 .. size' - 1 : id \in free' \cup Taken'
    BY <1>1, <1>2, <2>1
  <2> QED
    BY <1>1, <1>3, <2>3, <2>4 DEF Tracked, Lowest, Accounted
<1>5. CASE /\ \A m \in free \ {next} : m <= next
           /\ next' = size /\ free' = (free \ {next}) \cup {size} /\ size' = size + 1
  <2>1. \A id \in 1 .. next' - 1 : id \in Taken'
    BY <1>1, <1>2, <1>5
  <2>2. \A id \in 1 .. size' - 1 : id \in free' \cup Taken'
    BY <1>1, <1>2, <1>5
  <2> QED
    BY <1>1, <1>3, <2>1, <2>2 DEF Tracked, Lowest, Accounted
<1> QED
  BY <1>4, <1>5 DEF FindNext

LEMMA ResetExact ==
  ASSUME IInv, Tracked, NEW id \in dungeons, ResetInstance(id)
  PROVE  Tracked'
<1> USE DEF ResetInstance, workerVars, history, Lesser
<1>1. /\ id \in 1 .. size - 1 /\ size \in Nat /\ next \in 1 .. size - 1
      /\ Taken \subseteq Taken' \cup {id}
      /\ \A w \in Workers : wpc[w] = "idle" /\ wpc'[w] = "idle"
  BY DEF IInv, TypeOK, InUse, Taken, BetweenTicks
<1>2. Lowest'
  <2>1. \A i \in 1 .. next' - 1 : i \in Taken'
    BY <1>1 DEF Tracked, Lowest
  <2> QED
    BY <1>1, <2>1 DEF Lowest
<1>3. Accounted'
  BY <1>1 DEF Tracked, Accounted
<1>4. Alone'
  BY <1>1 DEF Alone, BetweenTicks
<1> QED
  BY <1>2, <1>3, <1>4 DEF Tracked

LEMMA ReadNextExact ==
  ASSUME IInv, Tracked, NEW w \in Workers, NEW id \in battlegrounds, ReadNext(w, id),
         BetweenTicks
  PROVE  Tracked'
<1> USE DEF ReadNext, Lesser
<1>1. /\ id \in 1 .. size - 1 /\ size \in Nat /\ next \in 1 .. size - 1
      /\ Taken \subseteq Taken' \cup {id}
      /\ wpc[w] = "idle" /\ wpc'[w] = "writeNext" /\ wid'[w] = id
      /\ wnext'[w] = Lesser(id, next)
      /\ \A v \in Workers : v # w => wpc[v] = "idle" /\ wpc'[v] = "idle"
  BY DEF IInv, TypeOK, InUse, Taken, BetweenTicks
<1>2. Lowest'
  <2>1. \A i \in 1 .. wnext'[w] - 1 : i \in Taken'
    BY <1>1 DEF Tracked, Lowest
  <2> QED
    BY <1>1, <2>1 DEF Lowest
<1>3. Accounted'
  BY <1>1 DEF Tracked, Accounted
<1>4. Alone'
  BY <1>1 DEF Alone, BetweenTicks
<1> QED
  BY <1>2, <1>3, <1>4 DEF Tracked

LEMMA WriteNextExact ==
  ASSUME IInv, Tracked, NEW w \in Workers, WriteNext(w)
  PROVE  Tracked'
<1> USE DEF WriteNext, users, history
<1>1. /\ wpc[w] = "writeNext" /\ wpc'[w] = "readWord" /\ next' = wnext[w]
      /\ Taken' = Taken
      /\ \A v \in Workers : v # w => wpc[v] = "idle" /\ wpc'[v] = "idle"
  BY DEF IInv, TypeOK, InUse, Taken, Tracked, Alone
<1>2. Lowest'
  BY <1>1 DEF Tracked, Lowest
<1>3. Accounted'
  BY <1>1 DEF Tracked, Accounted
<1>4. Alone'
  BY <1>1 DEF Alone, BetweenTicks
<1> QED
  BY <1>2, <1>3, <1>4 DEF Tracked

LEMMA ReadWordExact ==
  ASSUME IInv, Tracked, NEW w \in Workers, ReadWord(w)
  PROVE  Tracked'
<1> USE DEF ReadWord, users, history
<1>1. /\ wpc[w] = "readWord" /\ wpc'[w] = "writeWord"
      /\ wword'[w] = (free \cap Block(wid[w])) \cup {wid[w]}
      /\ Taken' = Taken /\ Block(wid[w])' = Block(wid[w])
      /\ \A v \in Workers : v # w => wpc[v] = "idle" /\ wpc'[v] = "idle"
  BY DEF IInv, TypeOK, InUse, Taken, Block, Tracked, Alone
<1>2. Lowest'
  BY <1>1 DEF Tracked, Lowest
<1>3. Accounted'
  BY <1>1 DEF Tracked, Accounted
<1>4. Alone'
  BY <1>1 DEF Alone, BetweenTicks
<1> QED
  BY <1>2, <1>3, <1>4 DEF Tracked

LEMMA WriteWordExact ==
  ASSUME IInv, Tracked, NEW w \in Workers, WriteWord(w)
  PROVE  Tracked'
<1> USE DEF WriteWord, users, history
<1>1. /\ wpc[w] = "writeWord" /\ wpc'[w] = "idle"
      /\ Taken' = Taken
      /\ \A v \in Workers : v # w => wpc[v] = "idle" /\ wpc'[v] = "idle"
  BY DEF IInv, TypeOK, InUse, Taken, Tracked, Alone
<1>2. free' = free \cup {wid[w]}
  BY <1>1 DEF Tracked, Accounted
<1>3. Lowest'
  BY <1>1 DEF Tracked, Lowest
<1>4. Accounted'
  BY <1>1, <1>2 DEF Tracked, Accounted
<1>5. Alone'
  BY <1>1 DEF Alone, BetweenTicks
<1> QED
  BY <1>3, <1>4, <1>5 DEF Tracked

LEMMA ForgetExact ==
  ASSUME IInv, Tracked,
         \/ \E expired \in SUBSET dungeons \ {{}} : ResetOrWarnAll(expired)
         \/ \E id \in battlegrounds : DeleteBattleground(id)
  PROVE  Tracked'
<1>1. Taken' = Taken /\ UNCHANGED <<next, free, size, workerVars>>
  <2>1. CASE \E expired \in SUBSET dungeons \ {{}} : ResetOrWarnAll(expired)
    <3>1. PICK expired \in SUBSET dungeons \ {{}} : ResetOrWarnAll(expired)
      BY <2>1
    <3>2. expired \subseteq dungeons
      BY <3>1
    <3> QED
      BY <3>1, <3>2 DEF ResetOrWarnAll, InUse, Taken
  <2>2. CASE \E id \in battlegrounds : DeleteBattleground(id)
    BY <2>2 DEF DeleteBattleground, InUse, Taken
  <2> QED
    BY <2>1, <2>2
<1> QED
  BY <1>1 DEF Tracked, Alone, Lowest, Accounted, Block, workerVars

LEMMA NextExact == Exact /\ [Next]_vars => Exact'
<1> SUFFICES ASSUME IInv, ~ raced => Tracked, [Next]_vars, ~ raced' PROVE Tracked'
  BY NextIInv DEF Exact
<1>1. CASE UNCHANGED vars
  BY <1>1 DEF vars, Tracked, Alone, Lowest, Accounted, InUse, Taken, Block
<1>2. CASE WorldStep
  <2>1. ~ raced
    BY <1>2 DEF WorldStep, RegisterInstanceId, GenerateInstanceId, Overflow, ResetInstance,
                ResetOrWarnAll, DeleteBattleground, history
  <2>2. CASE Overflow
    BY <2>1, <2>2 DEF Overflow, users, workerVars, history, Tracked, Alone, Lowest, Accounted,
                      InUse, Taken, Block
  <2> QED
    BY <1>2, <2>1, <2>2, RegisterExact, GenerateExact, ResetExact, ForgetExact DEF WorldStep
<1>3. ASSUME NEW w \in Workers, WorkerStep(w) PROVE Tracked'
  <2>1. ~ raced
    BY <1>3 DEF WorkerStep, ReadNext, WriteNext, ReadWord, WriteWord, history
  <2>2. ASSUME NEW id \in battlegrounds, ReadNext(w, id) PROVE Tracked'
    <3>1. BetweenTicks
      BY <2>2 DEF ReadNext
    <3> QED
      BY <2>1, <2>2, <3>1, ReadNextExact
  <2> QED
    BY <1>3, <2>1, <2>2, WriteNextExact, ReadWordExact, WriteWordExact DEF WorkerStep
<1> QED
  BY <1>1, <1>2, <1>3 DEF Next, Stopped

\* Exact holds in every reachable state.
LEMMA ExactInvariant == Spec => []Exact
<1> QED
  BY InitExact, NextExact, PTL DEF Spec

\* GenerateInstanceId hands out the lowest free id, as its comment says, until
\* two workers race in FreeInstanceId.
THEOREM LowestIdFirst == Spec => []NextIsLowest
<1>1. Exact => NextIsLowest
  <2> SUFFICES ASSUME IInv, Tracked, BetweenTicks, toRegister = {}
               PROVE  next \in free /\ \A id \in free : next <= id
    BY DEF Exact, NextIsLowest
  <2>1. next \in 1 .. size - 1 /\ next \notin Taken
    BY DEF IInv, TypeOK, NextIsUnused, Forgotten, Taken
  <2>2. next \in free
    BY <2>1 DEF Tracked, Accounted, BetweenTicks
  <2>3. \A id \in free : id \in Nat /\ id \notin Taken /\ id >= 1
    BY DEF IInv, TypeOK, NextIsUnused, Forgotten, Taken
  <2>4. \A id \in 1 .. next - 1 : id \in Taken
    BY DEF Tracked, Lowest, BetweenTicks
  <2> QED
    BY <2>1, <2>2, <2>3, <2>4
<1> QED
  BY <1>1, ExactInvariant, PTL

\* The ids lost are those of instances that ended without FreeInstanceId and no
\* others: until two workers race in it, every id that is freed can be handed
\* out again.
THEOREM NoIdIsLost == Spec => []NoIdLost
<1>1. Exact => NoIdLost
  <2> SUFFICES ASSUME IInv, Tracked, BetweenTicks
               PROVE  1 .. size - 1 = free \cup InUse \cup forgotten
    BY DEF Exact, NoIdLost
  <2>1. Taken \subseteq 1 .. size - 1 /\ free \subseteq 1 .. size - 1
    BY StoredAssumption DEF IInv, TypeOK, Loading, InUse, Taken
  <2> QED
    BY <2>1 DEF Tracked, Accounted, BetweenTicks, Taken
<1> QED
  BY <1>1, ExactInvariant, PTL
\* With one worker FreeInstanceId never races, and the two theorems above hold
\* without a condition.
THEOREM OneWorkerNeverRaces ==
  ASSUME \A v, w \in Workers : v = w
  PROVE  Spec => []~ raced
<1>1. Init => ~ raced
  BY DEF Init
<1>2. ~ raced /\ [Next]_vars => ~ raced'
  <2> SUFFICES ASSUME ~ raced, [Next]_vars PROVE ~ raced'
    OBVIOUS
  <2>1. CASE UNCHANGED vars
    BY <2>1 DEF vars
  <2>2. CASE WorldStep
    BY <2>2 DEF WorldStep, RegisterInstanceId, GenerateInstanceId, Overflow, ResetInstance,
                ResetOrWarnAll, DeleteBattleground, history
  <2>3. ASSUME NEW w \in Workers, WorkerStep(w) PROVE ~ raced'
    BY <2>3 DEF WorkerStep, ReadNext, WriteNext, ReadWord, WriteWord, BetweenTicks, history
  <2> QED
    BY <2>1, <2>2, <2>3 DEF Next, Stopped
<1> QED
  BY <1>1, <1>2, PTL DEF Spec
===============================================================================
