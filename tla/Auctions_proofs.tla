--------------------------- MODULE Auctions_proofs ---------------------------
(* No item is lost, doubled or kept, no money is made or lost, and nobody    *)
(* pays for nothing: for any players, items and auctions.                   *)
EXTENDS Auctions, FiniteSetTheorems, TLAPS

Entry == [owner : Players, item : Items, bidder : Players \cup {None},
          bid : Nat, buyout : Nat, startbid : Nat, deposit : Int,
          expired : BOOLEAN, live : BOOLEAN]

Types ==
  /\ entry \in Seq(Entry)
  /\ bags \in [Items -> Players \cup {None}]
  /\ mailed \in [Items -> Players \cup {None}]
  /\ pending \in [Players -> Seq(Nat)]
  /\ online \subseteq Players

\* The first two parts of ItemsAccounted: mAitems against AuctionsMap.
Listed ==
  /\ stored = {entry[id].item : id \in Live}
  /\ \A id, other \in Live : entry[id].item = entry[other].item => id = other

\* Its last part, without counting.
AtOnePlace(i) ==
  \/ bags[i] # None /\ mailed[i] = None /\ i \notin stored
  \/ bags[i] = None /\ mailed[i] # None /\ i \notin stored
  \/ bags[i] = None /\ mailed[i] = None /\ i \in stored

IInv == Types /\ Listed /\ \A i \in Items : AtOnePlace(i)

-----------------------------------------------------------------------------
LEMMA Accounted == IInv => ItemsAccounted
<1> SUFFICES ASSUME IInv, NEW i \in Items
             PROVE  Cardinality({place \in 1 .. 3 : \/ place = 1 /\ bags[i] # None
                                                    \/ place = 2 /\ mailed[i] # None
                                                    \/ place = 3 /\ i \in stored}) = 1
  BY DEF ItemsAccounted, IInv, Listed
<1>1. PICK n \in 1 .. 3 : {place \in 1 .. 3 : \/ place = 1 /\ bags[i] # None
                                              \/ place = 2 /\ mailed[i] # None
                                              \/ place = 3 /\ i \in stored} = {n}
  BY DEF IInv, AtOnePlace
<1> QED
  BY <1>1, FS_Singleton

-----------------------------------------------------------------------------
(* The effects a step has on the auctions.                                 *)

\* Every auction is of the same item as before.
SameItems ==
  /\ entry' \in Seq(Entry)
  /\ DOMAIN entry' = DOMAIN entry
  /\ \A id \in Ids : entry'[id].item = entry[id].item

\* And as alive.
SameListing == SameItems /\ \A id \in Ids : entry'[id].live = entry[id].live

LEMMA EntriesKept ==
  ASSUME Types, DOMAIN entry' = Ids, entry' = [id \in Ids |-> entry'[id]],
         \A id \in Ids : entry'[id] \in Entry /\ entry'[id].item = entry[id].item
  PROVE  SameItems
<1>1. PICK n \in Nat : Ids = 1 .. n
  BY DEF Types, Ids
<1>2. entry' \in [1 .. n -> Entry]
  BY <1>1
<1>3. entry' \in Seq(Entry)
  BY <1>2
<1> QED
  BY <1>3 DEF SameItems, Ids

LEMMA ListedKept ==
  ASSUME Listed, SameListing, stored' = stored
  PROVE  Listed'
<1>1. Live' = Live /\ \A id \in Live : entry'[id].item = entry[id].item
  BY DEF Live, Ids, SameListing, SameItems
<1> QED
  BY <1>1 DEF Listed

LEMMA SameKept ==
  ASSUME IInv, SameListing, UNCHANGED itemVars, online' \subseteq Players,
         pending' \in [Players -> Seq(Nat)]
  PROVE  IInv'
BY ListedKept DEF IInv, Types, SameListing, SameItems, itemVars, AtOnePlace

\* Listed is shown in its two directions.
LEMMA StoredByParts ==
  ASSUME \A id, other \in Live' : entry'[id].item = entry'[other].item => id = other,
         \A i \in stored' : \E id \in Live' : i = entry'[id].item,
         \A id \in Live' : entry'[id].item \in stored'
  PROVE  Listed'
<1> DEFINE S == {entry'[id].item : id \in Live'}
<1>1. \A i \in stored' : i \in S
  OBVIOUS
<1>2. \A i \in S : i \in stored'
  OBVIOUS
<1> HIDE DEF S
<1>3. stored' \subseteq S /\ S \subseteq stored'
  BY <1>1, <1>2, Zenon
<1>4. stored' = S
  BY <1>3, Zenon
<1> QED
  BY <1>4 DEF Listed, S

\* The auctions of a set end, and each of their items is sent to somebody.
LEMMA EndedKept ==
  ASSUME IInv, NEW Ended \in SUBSET Live,
         entry' = [id \in Ids |-> IF id \in Ended THEN [entry[id] EXCEPT !.live = FALSE]
                                                  ELSE entry[id]],
         stored' = stored \ {entry[id].item : id \in Ended},
         bags' = bags, UNCHANGED <<pending, online>>,
         mailed' \in [Items -> Players \cup {None}],
         \A id \in Ended : mailed'[entry[id].item] # None,
         \A i \in Items : (\A id \in Ended : entry[id].item # i) => mailed'[i] = mailed[i]
  PROVE  IInv'
<1>1. Types /\ Listed
  BY DEF IInv
<1>2. SameItems /\ \A id \in Ids : entry'[id].live = (entry[id].live /\ id \notin Ended)
  <2>1. ASSUME NEW id \in Ids
        PROVE  /\ entry'[id] \in Entry /\ entry'[id].item = entry[id].item
               /\ entry'[id].live = (entry[id].live /\ id \notin Ended)
    <3>1. entry[id] \in Entry
      BY <1>1 DEF Types, Ids
    <3>2. CASE id \in Ended
      <4>1. entry'[id] = [entry[id] EXCEPT !.live = FALSE]
        BY <3>2
      <4> QED
        BY <3>1, <3>2, <4>1 DEF Entry
    <3>3. CASE id \notin Ended
      <4>1. entry'[id] = entry[id]
        BY <3>3
      <4> QED
        BY <3>1, <3>3, <4>1 DEF Entry
    <3> QED
      BY <3>2, <3>3
  <2>2. DOMAIN entry' = Ids /\ entry' = [id \in Ids |-> entry'[id]]
    OBVIOUS
  <2>3. \A id \in Ids : entry'[id] \in Entry /\ entry'[id].item = entry[id].item
    BY <2>1
  <2>4. SameItems
    BY <1>1, <2>2, <2>3, EntriesKept
  <2> QED
    BY <2>1, <2>4
<1>3. Live' = Live \ Ended /\ \A id \in Live' : entry'[id].item = entry[id].item
  BY <1>1, <1>2 DEF Types, Live, Ids, SameItems
<1>4. Listed'
  <2>1. \A id, other \in Live' : entry'[id].item = entry'[other].item => id = other
    BY <1>1, <1>3 DEF Listed
  <2>2. \A i \in stored' : \E id \in Live' : i = entry'[id].item
    <3>1. SUFFICES ASSUME NEW i \in stored' PROVE \E id \in Live' : i = entry'[id].item
      OBVIOUS
    <3>2. PICK id \in Live : entry[id].item = i
      BY <1>1 DEF Listed
    <3>3. id \in Live'
      BY <1>3, <3>2
    <3> QED
      BY <1>3, <3>2, <3>3
  <2>3. ASSUME NEW id \in Live' PROVE entry'[id].item \in stored'
    <3>1. id \in Live /\ id \notin Ended /\ entry'[id].item = entry[id].item
      BY <1>3
    <3>2. \A other \in Ended : entry[other].item # entry[id].item
      BY <1>1, <3>1 DEF Listed
    <3>3. entry[id].item \in stored
      BY <1>1, <3>1 DEF Listed
    <3>4. entry[id].item \notin {entry[other].item : other \in Ended}
      BY <3>2
    <3>5. entry[id].item \in stored \ {entry[other].item : other \in Ended}
      BY <3>3, <3>4
    <3> QED
      BY <3>1, <3>5
  <2> QED
    BY <2>1, <2>2, <2>3, StoredByParts
<1>5. Types'
  BY <1>1, <1>2 DEF Types, SameItems
<1>6. ASSUME NEW i \in Items PROVE AtOnePlace(i)'
  <2>1. CASE \E id \in Ended : entry[id].item = i
    <3>1. i \in stored
      BY <1>1, <2>1 DEF Listed
    <3> QED
      BY <2>1, <3>1 DEF IInv, AtOnePlace
  <2>2. CASE \A id \in Ended : entry[id].item # i
    BY <2>2 DEF IInv, AtOnePlace
  <2> QED
    BY <2>1, <2>2
<1> QED
  BY <1>4, <1>5, <1>6 DEF IInv

-----------------------------------------------------------------------------
(* Every step keeps the invariant: first what changes no place of an item. *)

\* An auction that changes in its bidder, its bid and its end.
LEMMA OneChanged ==
  ASSUME IInv, NEW id \in Ids, NEW e \in Entry,
         e.item = entry[id].item, e.live = entry[id].live,
         entry' = [entry EXCEPT ![id] = e]
  PROVE  SameListing
<1>1. Types /\ DOMAIN entry = Ids
  BY DEF IInv, Ids
<1>2. entry' \in Seq(Entry) /\ DOMAIN entry' = DOMAIN entry
  BY <1>1 DEF Types
<1> QED
  BY <1>1, <1>2 DEF SameListing, SameItems, Types

LEMMA PlaceBidKeeps ==
  ASSUME IInv, NEW p \in Players, NEW id \in Ids, NEW price \in Prices, PlaceBid(p, id, price)
  PROVE  IInv'
<1>1. entry[id] \in Entry
  BY DEF IInv, Types, Ids
<1> DEFINE e == [entry[id] EXCEPT !.bidder = p, !.bid = price]
<1>2. e \in Entry /\ e.item = entry[id].item /\ e.live = entry[id].live
  BY <1>1, PriceAssumption DEF Entry
<1>3. entry' = [entry EXCEPT ![id] = e]
  BY <1>1 DEF PlaceBid
<1>4. SameListing
  <2> HIDE DEF e
  <2> QED
    BY <1>2, <1>3, OneChanged
<1> QED
  BY <1>4, SameKept DEF PlaceBid, IInv, Types, waiting

LEMMA RunsOutKeeps ==
  ASSUME IInv, NEW id \in Ids, RunsOut(id)
  PROVE  IInv'
<1>1. entry[id] \in Entry
  BY DEF IInv, Types, Ids
<1> DEFINE e == [entry[id] EXCEPT !.expired = TRUE]
<1>2. e \in Entry /\ e.item = entry[id].item /\ e.live = entry[id].live
  BY <1>1 DEF Entry
<1>3. entry' = [entry EXCEPT ![id] = e]
  BY <1>1 DEF RunsOut
<1>4. SameListing
  <2> HIDE DEF e
  <2> QED
    BY <1>2, <1>3, OneChanged
<1> QED
  BY <1>4, SameKept DEF RunsOut, IInv, Types, waiting

\* A share of a deposit is a whole number of coins.
LEMMA ShareIsInt ==
  ASSUME NEW total \in Int, NEW n \in Nat \ {0}, NEW k
  PROVE  Share(total, k, n) \in Int
<1>1. total \div n \in Int
  OBVIOUS
<1> DEFINE q == total \div n
           m == (n - 1) * q
           r == total - m
<1>2. r \in Int
  <2>1. m \in Int
    BY <1>1
  <2> HIDE DEF m
  <2> QED
    BY <2>1
<1>3. Share(total, k, n) = IF k = n THEN r ELSE q
  BY DEF Share
<1> HIDE DEF q, m, r
<1> QED
  BY <1>1, <1>2, <1>3 DEF q

LEMMA UpdatePendingAuctionsKeeps ==
  ASSUME IInv, UpdatePendingAuctions
  PROVE  IInv'
<1> DEFINE Waiting == {p \in Players : pending[p] # <<>>}
           Charged == {p \in Waiting \cap online : Len(pending[p]) = counted[p]}
           Gone    == Waiting \ online
           at(id)  == {k \in DOMAIN pending[entry[id].owner] :
                         pending[entry[id].owner][k] = id}
<1>1. Types
  BY DEF IInv
<1>2. PICK total \in [Charged -> 0 .. MaxAuctions * MaxDeposit] :
        entry' = [id \in Ids |->
          IF at(id) = {} THEN entry[id]
          ELSE IF entry[id].owner \in Charged
          THEN [entry[id] EXCEPT !.deposit =
                  Share(total[entry[id].owner], Max(at(id)), Len(pending[entry[id].owner]))]
          ELSE IF entry[id].owner \in Gone THEN [entry[id] EXCEPT !.expired = TRUE]
          ELSE entry[id]]
  BY DEF UpdatePendingAuctions
<1>3. ASSUME NEW id \in Ids
      PROVE  /\ entry'[id] \in Entry /\ entry'[id].item = entry[id].item
             /\ entry'[id].live = entry[id].live
  <2>1. entry[id] \in Entry
    BY <1>1 DEF Types, Ids
  <2> DEFINE n == Len(pending[entry[id].owner])
             share == Share(total[entry[id].owner], Max(at(id)), n)
  <2>2. \/ entry'[id] = entry[id]
        \/ entry'[id] = [entry[id] EXCEPT !.expired = TRUE]
        \/ entry[id].owner \in Charged /\ entry'[id] = [entry[id] EXCEPT !.deposit = share]
    BY <1>2
  <2>3. ASSUME entry[id].owner \in Charged PROVE share \in Int
    <3>1. n \in Nat \ {0}
      BY <1>1, <2>3 DEF Types
    <3>2. total[entry[id].owner] \in Int
      BY <1>2, <2>3, MaxAssumption, PriceAssumption
    <3> HIDE DEF n
    <3> QED
      BY <3>1, <3>2, ShareIsInt
  <2> HIDE DEF share, Charged
  <2> QED
    BY <2>1, <2>2, <2>3 DEF Entry
<1>4. SameListing
  <2>1. DOMAIN entry' = Ids /\ entry' = [id \in Ids |-> entry'[id]]
    BY <1>2
  <2> QED
    BY <1>1, <1>3, <2>1, EntriesKept DEF SameListing
<1>5. pending' \in [Players -> Seq(Nat)]
  <2> DEFINE f == [p \in Players |-> IF p \in Charged \cup Gone THEN <<>> ELSE pending[p]]
  <2>1. pending' = f
    BY DEF UpdatePendingAuctions
  <2>2. \A p \in Players : pending[p] \in Seq(Nat)
    BY <1>1 DEF Types
  <2> HIDE DEF Charged, Gone
  <2>3. <<>> \in Seq(Nat)
    OBVIOUS
  <2>4. f \in [Players -> Seq(Nat)]
    BY <2>2, <2>3
  <2> QED
    BY <2>1, <2>4
<1> QED
  BY <1>1, <1>4, <1>5, SameKept DEF UpdatePendingAuctions, Types

LEMMA LeavingKeeps ==
  ASSUME IInv, NEW p \in Players, Logout(p) \/ Login(p)
  PROVE  IInv'
<1>1. SameListing
  BY DEF IInv, Types, SameListing, SameItems, Logout, Login, Ids
<1> QED
  BY <1>1, SameKept DEF Logout, Login, IInv, Types, waiting

-----------------------------------------------------------------------------
(* Then what brings an item from one place to another.                     *)

LEMMA SellItemKeeps ==
  ASSUME IInv, NEW p \in Players, NEW i \in Items, NEW offer \in Offers,
         SellItem(p, i, offer[1], offer[2])
  PROVE  IInv'
<1> DEFINE n   == Len(entry) + 1
           new == [owner |-> p, item |-> i, bidder |-> None, bid |-> 0,
                   buyout |-> offer[2], startbid |-> offer[1], deposit |-> DepositOf[i],
                   expired |-> FALSE, live |-> TRUE]
<1>1. Types /\ Listed
  BY DEF IInv
<1>2. new \in Entry
  <2>1. offer[1] \in Nat /\ offer[2] \in Nat
    BY PriceAssumption
  <2>2. DepositOf[i] \in Int
    BY PriceAssumption
  <2> QED
    BY <2>1, <2>2 DEF Entry
<1>3. /\ entry' = Append(entry, new) /\ stored' = stored \cup {i} /\ i \notin stored
      /\ bags[i] = p /\ bags' = [bags EXCEPT ![i] = None]
      /\ mailed' = mailed /\ online' = online
      /\ pending' = [pending EXCEPT ![p] = Append(@, n)]
  BY DEF SellItem
<1>4. new.item = i /\ new.live = TRUE
  OBVIOUS
<1> HIDE DEF new
<1>5. /\ entry' \in Seq(Entry) /\ Ids' = Ids \cup {n} /\ n \notin Ids
      /\ entry'[n] = new /\ \A id \in Ids : entry'[id] = entry[id]
  BY <1>1, <1>2, <1>3 DEF Types, Ids
<1>6. Live' = Live \cup {n} /\ n \notin Live
  BY <1>4, <1>5 DEF Live
<1>7. /\ entry'[n].item = i
      /\ \A id \in Live : entry'[id].item = entry[id].item /\ entry[id].item # i
  BY <1>1, <1>3, <1>4, <1>5 DEF Live, Listed
<1>8. Listed'
  <2>1. \A id, other \in Live' : entry'[id].item = entry'[other].item => id = other
    BY <1>1, <1>6, <1>7 DEF Listed
  <2>2. \A x \in stored' : \E id \in Live' : x = entry'[id].item
    <3> SUFFICES ASSUME NEW x \in stored' PROVE \E id \in Live' : x = entry'[id].item
      OBVIOUS
    <3>1. CASE x = i
      BY <1>6, <1>7, <3>1
    <3>2. CASE x \in stored
      <4>1. PICK id \in Live : x = entry[id].item
        BY <1>1, <3>2 DEF Listed
      <4> QED
        BY <1>6, <1>7, <4>1
    <3> QED
      BY <1>3, <3>1, <3>2
  <2>3. \A id \in Live' : entry'[id].item \in stored'
    BY <1>1, <1>3, <1>6, <1>7 DEF Listed
  <2> QED
    BY <2>1, <2>2, <2>3, StoredByParts
<1>9. Types'
  <2>1. pending' \in [Players -> Seq(Nat)]
    <3>1. n \in Nat /\ pending[p] \in Seq(Nat)
      BY <1>1 DEF Types
    <3>2. Append(pending[p], n) \in Seq(Nat)
      BY <3>1
    <3> HIDE DEF n
    <3> QED
      BY <1>1, <1>3, <3>2 DEF Types
  <2> QED
    BY <1>1, <1>3, <1>5, <2>1 DEF Types
<1>10. ASSUME NEW j \in Items PROVE AtOnePlace(j)'
  BY <1>1, <1>3, NoneAssumption DEF IInv, AtOnePlace, Types
<1> QED
  BY <1>8, <1>9, <1>10 DEF IInv

\* One auction ends, and its item is sent to x.
LEMMA OneEndedKept ==
  ASSUME IInv, NEW id \in Live, NEW x \in Players, RemoveAuction(id),
         bags' = bags, UNCHANGED <<pending, online>>,
         mailed' = [mailed EXCEPT ![entry[id].item] = x]
  PROVE  IInv'
<1> DEFINE Ended == {id}
<1>1. Types /\ entry[id] \in Entry
  BY DEF IInv, Types, Live, Ids
<1>2. entry[id].item \in Items
  BY <1>1 DEF Entry
<1>3. entry' = [y \in Ids |-> IF y \in Ended THEN [entry[y] EXCEPT !.live = FALSE]
                                             ELSE entry[y]]
  BY <1>1 DEF RemoveAuction, Types, Ids, Live
<1>4. stored' = stored \ {entry[y].item : y \in Ended}
  BY DEF RemoveAuction
<1>5. /\ mailed' \in [Items -> Players \cup {None}]
      /\ \A y \in Ended : mailed'[entry[y].item] # None
      /\ \A i \in Items : (\A y \in Ended : entry[y].item # i) => mailed'[i] = mailed[i]
  BY <1>1, <1>2, NoneAssumption DEF Types
<1>6. Ended \in SUBSET Live
  OBVIOUS
<1> HIDE DEF Ended
<1> QED
  BY <1>3, <1>4, <1>5, <1>6, EndedKept

LEMMA BuyoutKeeps ==
  ASSUME IInv, NEW p \in Players, NEW id \in Ids, NEW price \in Prices, Buyout(p, id, price)
  PROVE  IInv'
BY OneEndedKept DEF Buyout, MayBid, waiting

LEMMA RemoveItemKeeps ==
  ASSUME IInv, NEW p \in Players, NEW id \in Ids, RemoveItem(p, id)
  PROVE  IInv'
BY OneEndedKept DEF RemoveItem, waiting

LEMMA UpdateKeeps ==
  ASSUME IInv, Update
  PROVE  IInv'
<1> DEFINE Ended == {id \in Live : entry[id].expired}
           Sold  == {id \in Ended : entry[id].bidder # None}
           To(id) == IF id \in Sold THEN entry[id].bidder ELSE entry[id].owner
<1>1. Types
  BY DEF IInv
<1>2. \A id \in Ended : entry[id] \in Entry
  BY <1>1 DEF Types, Live, Ids
<1>3. \A id \in Ended : To(id) \in Players /\ entry[id].item \in Items
  BY <1>2, NoneAssumption DEF Entry
<1>4. mailed' = [i \in Items |->
        IF \E id \in Ended : entry[id].item = i
        THEN To(CHOOSE id \in Ended : entry[id].item = i) ELSE mailed[i]]
  BY DEF Update
<1>5. /\ entry' = [id \in Ids |-> IF id \in Ended THEN [entry[id] EXCEPT !.live = FALSE]
                                                  ELSE entry[id]]
      /\ stored' = stored \ {entry[id].item : id \in Ended}
      /\ bags' = bags /\ UNCHANGED <<pending, online>>
  BY DEF Update, waiting
<1>6. Ended \in SUBSET Live
  OBVIOUS
<1> HIDE DEF Ended, Sold, To
<1>7. ASSUME NEW i \in Items
      PROVE  /\ (\E id \in Ended : entry[id].item = i) => mailed'[i] \in Players
             /\ (\A id \in Ended : entry[id].item # i) => mailed'[i] = mailed[i]
  <2>1. CASE \E id \in Ended : entry[id].item = i
    <3>1. (CHOOSE id \in Ended : entry[id].item = i) \in Ended
      BY <2>1
    <3> QED
      BY <1>3, <1>4, <2>1, <3>1
  <2>2. CASE \A id \in Ended : entry[id].item # i
    BY <1>4, <2>2
  <2> QED
    BY <2>1, <2>2
<1>8. /\ mailed' \in [Items -> Players \cup {None}]
      /\ \A id \in Ended : mailed'[entry[id].item] # None
  <2>1. \A i \in Items : mailed'[i] \in Players \cup {None}
    BY <1>1, <1>7 DEF Types
  <2>2. mailed' = [i \in Items |-> mailed'[i]]
    BY <1>4
  <2> QED
    BY <1>3, <1>7, <2>1, <2>2, NoneAssumption
<1> QED
  BY <1>5, <1>6, <1>7, <1>8, EndedKept

LEMMA TakeMailKeeps ==
  ASSUME IInv, NEW p \in Players, TakeMail(p)
  PROVE  IInv'
<1>1. Types /\ Listed
  BY DEF IInv
<1>2. /\ UNCHANGED <<entry, stored, online, pending>>
      /\ bags' = [i \in Items |-> IF mailed[i] = p THEN p ELSE bags[i]]
      /\ mailed' = [i \in Items |-> IF mailed[i] = p THEN None ELSE mailed[i]]
  BY DEF TakeMail, waiting
<1>3. Types'
  BY <1>1, <1>2 DEF Types
<1>4. Listed'
  BY <1>1, <1>2 DEF Listed, Live, Ids
<1>5. ASSUME NEW i \in Items PROVE AtOnePlace(i)'
  BY <1>2, NoneAssumption DEF IInv, AtOnePlace
<1> QED
  BY <1>3, <1>4, <1>5 DEF IInv

-----------------------------------------------------------------------------
LEMMA InitIInv == Init => IInv
<1> SUFFICES ASSUME Init PROVE IInv
  OBVIOUS
<1>1. Ids = {} /\ Live = {}
  BY DEF Init, Live, Ids
<1>2. Types
  BY FirstAssumption DEF Init, Types
<1>3. Listed
  BY <1>1 DEF Init, Listed
<1>4. ASSUME NEW i \in Items PROVE AtOnePlace(i)
  BY FirstAssumption, NoneAssumption DEF Init, AtOnePlace
<1> QED
  BY <1>2, <1>3, <1>4 DEF IInv

LEMMA NextIInv == IInv /\ [Next]_vars => IInv'
<1> SUFFICES ASSUME IInv, [Next]_vars PROVE IInv'
  OBVIOUS
<1>1. ASSUME NEW p \in Players, NEW i \in Items, NEW offer \in Offers,
             SellItem(p, i, offer[1], offer[2])
      PROVE  IInv'
  BY <1>1, SellItemKeeps
<1>2. ASSUME NEW p \in Players, NEW id \in Ids, NEW price \in Prices,
             PlaceBid(p, id, price) \/ Buyout(p, id, price)
      PROVE  IInv'
  BY <1>2, PlaceBidKeeps, BuyoutKeeps
<1>3. ASSUME NEW p \in Players, NEW id \in Ids, RemoveItem(p, id) PROVE IInv'
  BY <1>3, RemoveItemKeeps
<1>4. ASSUME NEW p \in Players, TakeMail(p) PROVE IInv'
  BY <1>4, TakeMailKeeps
<1>5. ASSUME NEW p \in Players, Logout(p) \/ Login(p) PROVE IInv'
  BY <1>5, LeavingKeeps
<1>6. CASE UpdatePendingAuctions
  BY <1>6, UpdatePendingAuctionsKeeps
<1>7. CASE Update
  BY <1>7, UpdateKeeps
<1>8. ASSUME NEW id \in Ids, RunsOut(id) PROVE IInv'
  BY <1>8, RunsOutKeeps
<1>9. CASE UNCHANGED vars
  BY <1>9 DEF vars, itemVars, waiting, IInv, Types, Listed, AtOnePlace, Live, Ids
<1> QED
  BY <1>1, <1>2, <1>3, <1>4, <1>5, <1>6, <1>7, <1>8, <1>9 DEF Next

\* For any players, items, prices and comings and goings: an item that was put
\* up is in the house exactly while one auction lists it, and afterwards it is
\* in one player's mail or bags, never in two places and never in none
\* (mAitems and AuctionsMap, RemoveAItem, RemoveAuction and the mails).
THEOREM NoItemIsLost == Spec => []ItemsAccounted
<1>1. Init => IInv
  BY InitIInv
<1>2. IInv /\ [Next]_vars => IInv'
  BY NextIInv
<1>3. IInv => ItemsAccounted
  BY Accounted
<1> QED
  BY <1>1, <1>2, <1>3, PTL DEF Spec

-----------------------------------------------------------------------------
(* Sums over finite sets.  SumFunctionOnSet is a recursive function on the *)
(* subsets; that it exists, and what it is, follows by induction on finite *)
(* sets, the property being given as a set of sets: WFMin takes no         *)
(* operator.                                                               *)

\* Finite induction, with the property as a set of sets.
LEMMA SubsetInduction ==
  ASSUME NEW S, IsFiniteSet(S), NEW G,
         \A T \in SUBSET S : (\A U \in SUBSET T : U # T => U \in G) => T \in G
  PROVE  S \in G
<1> DEFINE R   == StrictSubsetOrdering(S)
           Bad == {T \in SUBSET S : T \notin G}
<1>1. IsWellFoundedOn(R, FiniteSubsetsOf(S))
  BY FS_StrictSubsetOrderingWellFounded
<1>2. SUBSET S = FiniteSubsetsOf(S)
  BY FS_FiniteSubsetsOfFinite
<1>3. SUFFICES ASSUME S \notin G PROVE FALSE
  OBVIOUS
<1>4. Bad \subseteq FiniteSubsetsOf(S) /\ Bad # {}
  BY <1>2, <1>3
<1> HIDE DEF R, Bad
<1>5. PICK T \in Bad : \A U \in Bad : ~ (<<U, T>> \in R)
  BY <1>1, <1>4, WFMin
<1> USE DEF Bad
<1>6. ASSUME NEW U \in SUBSET T, U # T PROVE U \in G
  <2>1. <<U, T>> \in R
    BY <1>6 DEF R, StrictSubsetOrdering
  <2> QED
    BY <1>5, <2>1
<1> QED
  BY <1>5, <1>6

AnyOf(s) == CHOOSE x \in s : TRUE

\* g adds up f over every subset of S.
Summing(g, f, S) ==
  g = [s \in SUBSET S |-> IF s = {} THEN 0 ELSE f[AnyOf(s)] + g[s \ {AnyOf(s)}]]

LEMMA SumDef ==
  ASSUME NEW f, NEW S
  PROVE  SumFunctionOnSet(f, S) = (CHOOSE g : Summing(g, f, S))[S]
BY DEF SumFunctionOnSet, FoldFunctionOnSet, MapThenFoldSet, Summing, AnyOf

LEMMA AnyOfIn == \A s : s # {} => AnyOf(s) \in s
BY DEF AnyOf

LEMMA SummingValue ==
  ASSUME NEW f, NEW S, NEW g, Summing(g, f, S), NEW s \in SUBSET S
  PROVE  g[s] = IF s = {} THEN 0 ELSE f[AnyOf(s)] + g[s \ {AnyOf(s)}]
<1> DEFINE h == [t \in SUBSET S |-> IF t = {} THEN 0 ELSE f[AnyOf(t)] + g[t \ {AnyOf(t)}]]
<1>1. g = h
  BY Zenon DEF Summing
<1>2. h[s] = IF s = {} THEN 0 ELSE f[AnyOf(s)] + g[s \ {AnyOf(s)}]
  OBVIOUS
<1> HIDE DEF h
<1> QED
  BY <1>1, <1>2

LEMMA SummingAgree ==
  ASSUME NEW f, NEW S, NEW T, NEW g, NEW h, Summing(g, f, S), Summing(h, f, T),
         NEW u \in SUBSET S, u \in SUBSET T, IsFiniteSet(u)
  PROVE  g[u] = h[u]
<1> DEFINE G == {s \in SUBSET u : g[s] = h[s]}
<1>1. ASSUME NEW s \in SUBSET u, \A v \in SUBSET s : v # s => v \in G
      PROVE  s \in G
  <2>1. /\ g[s] = IF s = {} THEN 0 ELSE f[AnyOf(s)] + g[s \ {AnyOf(s)}]
        /\ h[s] = IF s = {} THEN 0 ELSE f[AnyOf(s)] + h[s \ {AnyOf(s)}]
    BY SummingValue
  <2>2. s # {} => s \ {AnyOf(s)} \in SUBSET s /\ s \ {AnyOf(s)} # s
    BY AnyOfIn
  <2>3. s # {} => g[s \ {AnyOf(s)}] = h[s \ {AnyOf(s)}]
    BY <1>1, <2>2
  <2> QED
    BY <2>1, <2>3
<1> HIDE DEF G
<1>2. u \in G
  BY <1>1, SubsetInduction
<1> QED
  BY <1>2 DEF G

LEMMA SummingExists ==
  ASSUME NEW f, NEW S, IsFiniteSet(S)
  PROVE  \E g : Summing(g, f, S)
<1> DEFINE G == {s \in SUBSET S : \E g : Summing(g, f, s)}
           part(s) == CHOOSE g : Summing(g, f, s)
<1>1. ASSUME NEW T \in SUBSET S, \A u \in SUBSET T : u # T => u \in G
      PROVE  T \in G
  <2> DEFINE h == [s \in SUBSET T |->
                     IF s = {} THEN 0
                     ELSE f[AnyOf(s)] + part(s \ {AnyOf(s)})[s \ {AnyOf(s)}]]
  <2>1. ASSUME NEW u \in SUBSET T, u # T
        PROVE  Summing(part(u), f, u) /\ IsFiniteSet(u)
    <3>1. \E g : Summing(g, f, u)
      BY <1>1, <2>1
    <3> QED
      BY <3>1, FS_Subset
  <2>2. ASSUME NEW u \in SUBSET T, u # T
        PROVE  h[u] = part(u)[u]
    <3> HIDE DEF part
    <3>1. part(u)[u] = IF u = {} THEN 0 ELSE f[AnyOf(u)] + part(u)[u \ {AnyOf(u)}]
      BY <2>1, <2>2, SummingValue
    <3>2. h[u] = IF u = {} THEN 0 ELSE f[AnyOf(u)] + part(u \ {AnyOf(u)})[u \ {AnyOf(u)}]
      OBVIOUS
    <3>3. ASSUME u # {} PROVE part(u)[u \ {AnyOf(u)}] = part(u \ {AnyOf(u)})[u \ {AnyOf(u)}]
      <4> DEFINE v == u \ {AnyOf(u)}
      <4>1. v \in SUBSET u /\ v \in SUBSET v /\ v \in SUBSET T /\ v # T
        BY <2>2, <3>3, AnyOfIn
      <4>2. Summing(part(v), f, v) /\ IsFiniteSet(v) /\ Summing(part(u), f, u)
        BY <2>1, <2>2, <4>1
      <4> HIDE DEF v
      <4>3. part(u)[v] = part(v)[v]
        BY <4>1, <4>2, SummingAgree
      <4> QED
        BY <4>3 DEF v
    <3> HIDE DEF h
    <3> QED
      BY <3>1, <3>2, <3>3
  <2>3. Summing(h, f, T)
    <3>1. ASSUME NEW s \in SUBSET T
          PROVE  h[s] = IF s = {} THEN 0 ELSE f[AnyOf(s)] + h[s \ {AnyOf(s)}]
      <4>1. h[s] = IF s = {} THEN 0
                   ELSE f[AnyOf(s)] + part(s \ {AnyOf(s)})[s \ {AnyOf(s)}]
        OBVIOUS
      <4> HIDE DEF h, part
      <4>2. s # {} => s \ {AnyOf(s)} \in SUBSET T /\ s \ {AnyOf(s)} # T
        BY AnyOfIn
      <4> QED
        BY <2>2, <4>1, <4>2
    <3>2. h = [s \in SUBSET T |-> h[s]]
      OBVIOUS
    <3> HIDE DEF h
    <3> QED
      BY <3>1, <3>2 DEF Summing
  <2> QED
    BY <2>3
<1> HIDE DEF G
<1>2. S \in G
  BY <1>1, SubsetInduction
<1> QED
  BY <1>2 DEF G

LEMMA SumStep ==
  ASSUME NEW f, NEW S, IsFiniteSet(S)
  PROVE  SumFunctionOnSet(f, S) =
           IF S = {} THEN 0 ELSE f[AnyOf(S)] + SumFunctionOnSet(f, S \ {AnyOf(S)})
<1> DEFINE g(T) == CHOOSE g : Summing(g, f, T)
<1>1. ASSUME NEW T \in SUBSET S PROVE Summing(g(T), f, T) /\ IsFiniteSet(T)
  BY SummingExists, FS_Subset
<1>2. \A T : SumFunctionOnSet(f, T) = g(T)[T]
  BY SumDef
<1> HIDE DEF g
<1>3. g(S)[S] = IF S = {} THEN 0 ELSE f[AnyOf(S)] + g(S)[S \ {AnyOf(S)}]
  BY <1>1, SummingValue
<1>4. g(S)[S \ {AnyOf(S)}] = g(S \ {AnyOf(S)})[S \ {AnyOf(S)}]
  BY <1>1, SummingAgree
<1> QED
  BY <1>2, <1>3, <1>4

LEMMA SumIsInt ==
  ASSUME NEW S, IsFiniteSet(S), NEW f, \A x \in S : f[x] \in Int
  PROVE  SumFunctionOnSet(f, S) \in Int
<1> DEFINE G == {T \in SUBSET S : SumFunctionOnSet(f, T) \in Int}
<1>1. ASSUME NEW T \in SUBSET S, \A U \in SUBSET T : U # T => U \in G
      PROVE  T \in G
  <2>1. IsFiniteSet(T)
    BY FS_Subset
  <2>2. SumFunctionOnSet(f, T) =
          IF T = {} THEN 0 ELSE f[AnyOf(T)] + SumFunctionOnSet(f, T \ {AnyOf(T)})
    BY <2>1, SumStep
  <2>3. T # {} => /\ T \ {AnyOf(T)} \in SUBSET T /\ T \ {AnyOf(T)} # T
                  /\ f[AnyOf(T)] \in Int
    BY AnyOfIn
  <2>4. T # {} => SumFunctionOnSet(f, T \ {AnyOf(T)}) \in Int
    BY <1>1, <2>3
  <2> QED
    BY <2>2, <2>3, <2>4
<1> HIDE DEF G
<1>2. S \in G
  BY <1>1, SubsetInduction
<1> QED
  BY <1>2 DEF G

LEMMA SumWithout ==
  ASSUME NEW S, IsFiniteSet(S), NEW f, \A x \in S : f[x] \in Int, NEW a \in S
  PROVE  SumFunctionOnSet(f, S) = f[a] + SumFunctionOnSet(f, S \ {a})
<1> DEFINE G == {T \in SUBSET S :
                   \A x \in T : SumFunctionOnSet(f, T) = f[x] + SumFunctionOnSet(f, T \ {x})}
<1>1. ASSUME NEW T \in SUBSET S, \A U \in SUBSET T : U # T => U \in G,
             NEW x \in T
      PROVE  SumFunctionOnSet(f, T) = f[x] + SumFunctionOnSet(f, T \ {x})
  <2> DEFINE y == AnyOf(T)
  <2>1. y \in T
    BY AnyOfIn
  <2> HIDE DEF y
  <2>2. IsFiniteSet(T) /\ IsFiniteSet(T \ {x}) /\ IsFiniteSet((T \ {x}) \ {y})
    BY FS_Subset
  <2>3. SumFunctionOnSet(f, T) = f[y] + SumFunctionOnSet(f, T \ {y})
    BY <2>2, SumStep DEF y
  <2>4. CASE x = y
    BY <2>3, <2>4
  <2>5. CASE x # y
    <3>1. T \ {y} \in G /\ T \ {x} \in G
      BY <1>1, <2>1
    <3>2. SumFunctionOnSet(f, T \ {y}) = f[x] + SumFunctionOnSet(f, (T \ {y}) \ {x})
      BY <2>5, <3>1
    <3>3. SumFunctionOnSet(f, T \ {x}) = f[y] + SumFunctionOnSet(f, (T \ {x}) \ {y})
      BY <2>1, <2>5, <3>1
    <3>4. (T \ {y}) \ {x} = (T \ {x}) \ {y}
      OBVIOUS
    <3>5. f[x] \in Int /\ f[y] \in Int /\ SumFunctionOnSet(f, (T \ {x}) \ {y}) \in Int
      BY <2>1, <2>2, SumIsInt
    <3> DEFINE rest == SumFunctionOnSet(f, (T \ {x}) \ {y})
               noX  == SumFunctionOnSet(f, T \ {x})
               all  == SumFunctionOnSet(f, T)
    <3>6. all = f[y] + (f[x] + rest) /\ noX = f[y] + rest
      BY <2>3, <3>2, <3>3, <3>4
    <3> HIDE DEF rest, noX, all
    <3>7. rest \in Int /\ f[x] \in Int /\ f[y] \in Int
      BY <3>5 DEF rest
    <3>8. all = f[x] + noX
      BY <3>6, <3>7
    <3> QED
      BY <3>8 DEF all, noX
  <2> QED
    BY <2>4, <2>5
<1>2. ASSUME NEW T \in SUBSET S, \A U \in SUBSET T : U # T => U \in G
      PROVE  T \in G
  BY <1>1, <1>2
<1> HIDE DEF G
<1>3. S \in G
  BY <1>2, SubsetInduction
<1> QED
  BY <1>3 DEF G

\* Values that agree on a set have the same sum over it.
LEMMA SumSame ==
  ASSUME NEW S, IsFiniteSet(S), NEW f, NEW g, \A x \in S : f[x] = g[x]
  PROVE  SumFunctionOnSet(f, S) = SumFunctionOnSet(g, S)
<1> DEFINE G == {T \in SUBSET S : SumFunctionOnSet(f, T) = SumFunctionOnSet(g, T)}
<1>1. ASSUME NEW T \in SUBSET S, \A U \in SUBSET T : U # T => U \in G
      PROVE  T \in G
  <2>1. IsFiniteSet(T)
    BY FS_Subset
  <2>2. /\ SumFunctionOnSet(f, T) =
             IF T = {} THEN 0 ELSE f[AnyOf(T)] + SumFunctionOnSet(f, T \ {AnyOf(T)})
        /\ SumFunctionOnSet(g, T) =
             IF T = {} THEN 0 ELSE g[AnyOf(T)] + SumFunctionOnSet(g, T \ {AnyOf(T)})
    BY <2>1, SumStep
  <2>3. T # {} => /\ T \ {AnyOf(T)} \in SUBSET T /\ T \ {AnyOf(T)} # T
                  /\ f[AnyOf(T)] = g[AnyOf(T)]
    BY AnyOfIn
  <2>4. T # {} => SumFunctionOnSet(f, T \ {AnyOf(T)}) = SumFunctionOnSet(g, T \ {AnyOf(T)})
    BY <1>1, <2>3
  <2> QED
    BY <2>2, <2>3, <2>4
<1> HIDE DEF G
<1>2. S \in G
  BY <1>1, SubsetInduction
<1> QED
  BY <1>2 DEF G

LEMMA SumNone == \A f : SumFunctionOnSet(f, {}) = 0
BY SumStep, FS_EmptySet

\* A sum over two sets that have nothing in common.
LEMMA SumUnion ==
  ASSUME NEW A, NEW B, IsFiniteSet(A), IsFiniteSet(B), A \cap B = {},
         NEW f, \A x \in A \cup B : f[x] \in Int
  PROVE  SumFunctionOnSet(f, A \cup B) = SumFunctionOnSet(f, A) + SumFunctionOnSet(f, B)
<1> DEFINE G == {T \in SUBSET B :
                   SumFunctionOnSet(f, A \cup T) = SumFunctionOnSet(f, A) + SumFunctionOnSet(f, T)}
<1>1. ASSUME NEW T \in SUBSET B, \A U \in SUBSET T : U # T => U \in G
      PROVE  T \in G
  <2>1. IsFiniteSet(T) /\ IsFiniteSet(A \cup T) /\ SumFunctionOnSet(f, A) \in Int
    BY FS_Subset, FS_Union, SumIsInt
  <2>2. CASE T = {}
    <3>1. SumFunctionOnSet(f, T) = 0
      BY <2>2, SumNone
    <3>2. A \cup T = A
      BY <2>2
    <3>3. SumFunctionOnSet(f, A \cup T) = SumFunctionOnSet(f, A)
      BY <3>2
    <3> QED
      BY <2>1, <3>1, <3>3
  <2>3. CASE T # {}
    <3>1. PICK y : y \in T
      BY <2>3
    <3>2. /\ (A \cup T) \ {y} = A \cup (T \ {y}) /\ f[y] \in Int
          /\ T \ {y} \in SUBSET T /\ T \ {y} # T
      BY <3>1
    <3>3. /\ SumFunctionOnSet(f, A \cup T) = f[y] + SumFunctionOnSet(f, A \cup (T \ {y}))
          /\ SumFunctionOnSet(f, T) = f[y] + SumFunctionOnSet(f, T \ {y})
      <4>1. y \in A \cup T /\ \A x \in A \cup T : f[x] \in Int
        BY <3>1
      <4>2. SumFunctionOnSet(f, A \cup T) = f[y] + SumFunctionOnSet(f, (A \cup T) \ {y})
        BY <2>1, <4>1, SumWithout
      <4>3. SumFunctionOnSet(f, T) = f[y] + SumFunctionOnSet(f, T \ {y})
        BY <2>1, <3>1, <4>1, SumWithout
      <4> QED
        BY <3>2, <4>2, <4>3
    <3>4. SumFunctionOnSet(f, A \cup (T \ {y})) =
            SumFunctionOnSet(f, A) + SumFunctionOnSet(f, T \ {y})
      BY <1>1, <3>2
    <3>5. SumFunctionOnSet(f, T \ {y}) \in Int
      BY <2>1, FS_Subset, SumIsInt
    <3> DEFINE a == SumFunctionOnSet(f, A)
               r == SumFunctionOnSet(f, T \ {y})
               t == SumFunctionOnSet(f, T)
               u == SumFunctionOnSet(f, A \cup T)
    <3>6. u = f[y] + (a + r) /\ t = f[y] + r /\ a \in Int /\ r \in Int
      BY <2>1, <3>3, <3>4, <3>5
    <3> HIDE DEF a, r, t, u
    <3>7. u = a + t
      BY <3>2, <3>6
    <3> QED
      BY <3>7 DEF a, t, u
  <2> QED
    BY <2>2, <2>3
<1> HIDE DEF G
<1>2. B \in G
  BY <1>1, SubsetInduction
<1> QED
  BY <1>2 DEF G

\* Two values that differ at one place only.
LEMMA SumChanged ==
  ASSUME NEW S, IsFiniteSet(S), NEW a \in S,
         NEW f, \A x \in S : f[x] \in Int, NEW g, g[a] \in Int,
         \A x \in S \ {a} : g[x] = f[x]
  PROVE  /\ SumFunctionOnSet(g, S) = SumFunctionOnSet(f, S) + (g[a] - f[a])
         /\ SumFunctionOnSet(f, S) \in Int /\ SumFunctionOnSet(g, S) \in Int
<1>1. \A x \in S : g[x] \in Int
  OBVIOUS
<1>2. IsFiniteSet(S \ {a})
  BY FS_Subset
<1>3. /\ SumFunctionOnSet(f, S) = f[a] + SumFunctionOnSet(f, S \ {a})
      /\ SumFunctionOnSet(g, S) = g[a] + SumFunctionOnSet(g, S \ {a})
  BY <1>1, SumWithout
<1>4. SumFunctionOnSet(f, S \ {a}) = SumFunctionOnSet(g, S \ {a})
  BY <1>2, SumSame
<1>5. SumFunctionOnSet(f, S \ {a}) \in Int
  BY <1>2, SumIsInt
<1> DEFINE F == SumFunctionOnSet(f, S)
           H == SumFunctionOnSet(g, S)
           r == SumFunctionOnSet(f, S \ {a})
<1>6. F = f[a] + r /\ H = g[a] + r /\ r \in Int /\ f[a] \in Int /\ g[a] \in Int
  BY <1>3, <1>4, <1>5
<1> HIDE DEF F, H, r
<1>7. H = F + (g[a] - f[a]) /\ F \in Int /\ H \in Int
  BY <1>6
<1> QED
  BY <1>7 DEF F, H

\* The sum of sums.
LEMMA SumPlus ==
  ASSUME NEW S, IsFiniteSet(S), NEW f, NEW g, NEW h,
         \A x \in S : f[x] \in Int /\ g[x] \in Int /\ h[x] = f[x] + g[x]
  PROVE  SumFunctionOnSet(h, S) = SumFunctionOnSet(f, S) + SumFunctionOnSet(g, S)
<1> DEFINE G == {T \in SUBSET S :
                   SumFunctionOnSet(h, T) = SumFunctionOnSet(f, T) + SumFunctionOnSet(g, T)}
<1>1. ASSUME NEW T \in SUBSET S, \A U \in SUBSET T : U # T => U \in G
      PROVE  T \in G
  <2>1. IsFiniteSet(T) /\ IsFiniteSet(T \ {AnyOf(T)})
    BY FS_Subset
  <2>2. CASE T = {}
    BY <2>2, SumNone
  <2>3. CASE T # {}
    <3> DEFINE y == AnyOf(T)
    <3>1. y \in T
      BY <2>3, AnyOfIn
    <3>2. /\ SumFunctionOnSet(f, T) = f[y] + SumFunctionOnSet(f, T \ {y})
          /\ SumFunctionOnSet(g, T) = g[y] + SumFunctionOnSet(g, T \ {y})
          /\ SumFunctionOnSet(h, T) = h[y] + SumFunctionOnSet(h, T \ {y})
      BY <2>1, <2>3, SumStep
    <3>3. SumFunctionOnSet(h, T \ {y}) = SumFunctionOnSet(f, T \ {y}) + SumFunctionOnSet(g, T \ {y})
      BY <1>1, <3>1
    <3>4. SumFunctionOnSet(f, T \ {y}) \in Int /\ SumFunctionOnSet(g, T \ {y}) \in Int
      BY <2>1, SumIsInt
    <3> DEFINE a == SumFunctionOnSet(f, T \ {y})
               b == SumFunctionOnSet(g, T \ {y})
               A == SumFunctionOnSet(f, T)
               B == SumFunctionOnSet(g, T)
               C == SumFunctionOnSet(h, T)
    <3>5. /\ A = f[y] + a /\ B = g[y] + b /\ C = (f[y] + g[y]) + (a + b)
          /\ a \in Int /\ b \in Int /\ f[y] \in Int /\ g[y] \in Int
      BY <3>1, <3>2, <3>3, <3>4
    <3> HIDE DEF a, b, A, B, C, y
    <3>6. C = A + B
      BY <3>5
    <3> QED
      BY <3>6 DEF A, B, C
  <2> QED
    BY <2>2, <2>3
<1> HIDE DEF G
<1>2. S \in G
  BY <1>1, SubsetInduction
<1> QED
  BY <1>2 DEF G

\* Summed by parts: what each key of P gets of the values of S.
LEMMA SumByKey ==
  ASSUME NEW S, IsFiniteSet(S), NEW P, IsFiniteSet(P),
         NEW f, \A x \in S : f[x] \in Int, NEW key, \A x \in S : key[x] \in P
  PROVE  SumFunctionOnSet([p \in P |-> SumFunctionOnSet(f, {x \in S : key[x] = p})], P)
           = SumFunctionOnSet(f, S)
<1> DEFINE Part(T) == [p \in P |-> SumFunctionOnSet(f, {x \in T : key[x] = p})]
           G == {T \in SUBSET S : SumFunctionOnSet(Part(T), P) = SumFunctionOnSet(f, T)}
<1>1. ASSUME NEW T \in SUBSET S, \A U \in SUBSET T : U # T => U \in G
      PROVE  T \in G
  <2>1. \A U \in SUBSET S : IsFiniteSet(U) /\ \A p \in P : Part(U)[p] \in Int
    <3> SUFFICES ASSUME NEW U \in SUBSET S, NEW p \in P
                 PROVE  IsFiniteSet(U) /\ SumFunctionOnSet(f, {x \in U : key[x] = p}) \in Int
      BY FS_Subset
    <3>1. IsFiniteSet(U) /\ IsFiniteSet({x \in U : key[x] = p})
      BY FS_Subset
    <3> QED
      BY <3>1, SumIsInt
  <2>2. CASE T = {}
    <3>1. \A p \in P : Part(T)[p] = 0
      <4>1. \A p \in P : {x \in T : key[x] = p} = {}
        BY <2>2
      <4> QED
        BY <4>1, SumNone
    <3>2. SumFunctionOnSet(Part(T), P) = 0
      <4> DEFINE H == {U \in SUBSET P : SumFunctionOnSet(Part(T), U) = 0}
      <4> HIDE DEF Part
      <4>1. ASSUME NEW U \in SUBSET P, \A V \in SUBSET U : V # U => V \in H
            PROVE  U \in H
        <5>1. SumFunctionOnSet(Part(T), U) =
                IF U = {} THEN 0
                ELSE Part(T)[AnyOf(U)] + SumFunctionOnSet(Part(T), U \ {AnyOf(U)})
          BY FS_Subset, SumStep
        <5>2. U # {} => /\ U \ {AnyOf(U)} \in SUBSET U /\ U \ {AnyOf(U)} # U
                        /\ Part(T)[AnyOf(U)] = 0
          BY <3>1, AnyOfIn
        <5> QED
          BY <4>1, <5>1, <5>2
      <4> HIDE DEF H
      <4>2. P \in H
        BY <4>1, SubsetInduction
      <4> QED
        BY <4>2 DEF H
    <3> QED
      BY <2>2, <3>2, SumNone
  <2>3. CASE T # {}
    <3>1. PICK y : y \in T
      BY <2>3
    <3> DEFINE U == T \ {y}
               k == key[y]
    <3>2. U \in SUBSET S /\ U \in G /\ k \in P /\ f[y] \in Int /\ y \in S
      BY <1>1, <3>1
    <3>3. \A p \in P \ {k} : Part(T)[p] = Part(U)[p]
      <4>1. \A p \in P \ {k} : {x \in T : key[x] = p} = {x \in U : key[x] = p}
        BY <3>1
      <4> QED
        BY <4>1
    <3>4. Part(T)[k] = f[y] + Part(U)[k]
      <4> DEFINE all == {x \in T : key[x] = k}
      <4>1. all \ {y} = {x \in U : key[x] = k} /\ y \in all /\ all \subseteq S
        BY <3>1
      <4>2. IsFiniteSet(all)
        BY <4>1, FS_Subset
      <4>3. SumFunctionOnSet(f, all) = f[y] + SumFunctionOnSet(f, all \ {y})
        <5> HIDE DEF all
        <5> QED
          BY <4>1, <4>2, SumWithout
      <4> QED
        BY <3>2, <4>1, <4>3
    <3>5. SumFunctionOnSet(f, T) = f[y] + SumFunctionOnSet(f, U)
      BY <2>1, <3>1, SumWithout
    <3>6. Part(T)[k] \in Int /\ Part(U)[k] \in Int /\ \A p \in P : Part(U)[p] \in Int
      BY <2>1, <3>2
    <3>7. SumFunctionOnSet(Part(U), P) = SumFunctionOnSet(f, U)
      BY <3>2
    <3> HIDE DEF Part, U, k
    <3>8. /\ SumFunctionOnSet(Part(T), P) =
               SumFunctionOnSet(Part(U), P) + (Part(T)[k] - Part(U)[k])
          /\ SumFunctionOnSet(Part(U), P) \in Int
      BY <3>2, <3>3, <3>6, SumChanged
    <3> DEFINE a == SumFunctionOnSet(Part(T), P)
               b == SumFunctionOnSet(Part(U), P)
               c == Part(T)[k]
               d == Part(U)[k]
    <3>9. a = b + (c - d) /\ c = f[y] + d /\ b \in Int /\ c \in Int /\ d \in Int /\ f[y] \in Int
      BY <3>2, <3>4, <3>6, <3>8
    <3> HIDE DEF a, b, c, d
    <3>10. a = f[y] + b
      BY <3>9
    <3>11. SumFunctionOnSet(Part(T), P) = SumFunctionOnSet(f, T)
      BY <3>5, <3>7, <3>10 DEF a, b
    <3> QED
      BY <3>11
  <2> QED
    BY <2>2, <2>3
<1> HIDE DEF G
<1>2. S \in G
  BY <1>1, SubsetInduction
<1> QED
  BY <1>2 DEF G

\* What is zero outside a part adds up to the sum over the part.
LEMMA SumPart ==
  ASSUME NEW S, IsFiniteSet(S), NEW A \in SUBSET S, NEW f, \A x \in A : f[x] \in Int,
         \A x \in S \ A : f[x] = 0
  PROVE  SumFunctionOnSet(f, S) = SumFunctionOnSet(f, A) /\ SumFunctionOnSet(f, S) \in Int
<1> DEFINE G == {T \in SUBSET (S \ A) : SumFunctionOnSet(f, T) = 0}
<1>1. ASSUME NEW T \in SUBSET (S \ A), \A U \in SUBSET T : U # T => U \in G
      PROVE  T \in G
  <2>1. IsFiniteSet(T)
    BY FS_Subset
  <2>2. SumFunctionOnSet(f, T) =
          IF T = {} THEN 0 ELSE f[AnyOf(T)] + SumFunctionOnSet(f, T \ {AnyOf(T)})
    BY <2>1, SumStep
  <2>3. T # {} => /\ T \ {AnyOf(T)} \in SUBSET T /\ T \ {AnyOf(T)} # T
                  /\ f[AnyOf(T)] = 0
    BY AnyOfIn
  <2> QED
    BY <1>1, <2>2, <2>3
<1>2. IsFiniteSet(A) /\ IsFiniteSet(S \ A) /\ A \cap (S \ A) = {} /\ A \cup (S \ A) = S
  BY FS_Subset
<1> HIDE DEF G
<1>3. S \ A \in G
  BY <1>1, <1>2, SubsetInduction
<1>4. SumFunctionOnSet(f, S \ A) = 0
  BY <1>3 DEF G
<1>5. \A x \in A \cup (S \ A) : f[x] \in Int
  OBVIOUS
<1>6. SumFunctionOnSet(f, A \cup (S \ A)) = SumFunctionOnSet(f, A) + SumFunctionOnSet(f, S \ A)
  BY <1>2, <1>5, SumUnion
<1>7. SumFunctionOnSet(f, A) \in Int
  BY <1>2, SumIsInt
<1> QED
  BY <1>2, <1>4, <1>6, <1>7

LEMMA SumSingle ==
  ASSUME NEW S, IsFiniteSet(S), NEW a, NEW v \in Int, NEW f,
         \A x \in S : f[x] = IF x = a THEN v ELSE 0
  PROVE  SumFunctionOnSet(f, S) = IF a \in S THEN v ELSE 0
<1>1. CASE a \in S
  <2>1. {a} \in SUBSET S /\ (\A x \in {a} : f[x] \in Int) /\ \A x \in S \ {a} : f[x] = 0
    BY <1>1
  <2>2. SumFunctionOnSet(f, S) = SumFunctionOnSet(f, {a})
    BY <2>1, SumPart
  <2>3. SumFunctionOnSet(f, {a}) = f[a] + SumFunctionOnSet(f, {a} \ {a})
    BY <2>1, FS_Singleton, SumWithout
  <2>4. SumFunctionOnSet(f, {a} \ {a}) = 0
    <3>1. {a} \ {a} = {}
      OBVIOUS
    <3> QED
      BY <3>1, SumNone
  <2> QED
    BY <1>1, <2>2, <2>3, <2>4
<1>2. CASE a \notin S
  <2>1. {} \in SUBSET S /\ (\A x \in {} : f[x] \in Int) /\ \A x \in S \ {} : f[x] = 0
    BY <1>2
  <2>2. SumFunctionOnSet(f, S) = SumFunctionOnSet(f, {})
    BY <2>1, SumPart
  <2> QED
    BY <1>2, <2>2, SumNone
<1> QED
  BY <1>1, <1>2

LEMMA SumIsNat ==
  ASSUME NEW S, IsFiniteSet(S), NEW f, \A x \in S : f[x] \in Nat
  PROVE  SumFunctionOnSet(f, S) \in Nat
<1> DEFINE G == {T \in SUBSET S : SumFunctionOnSet(f, T) \in Nat}
<1>1. ASSUME NEW T \in SUBSET S, \A U \in SUBSET T : U # T => U \in G
      PROVE  T \in G
  <2>1. IsFiniteSet(T)
    BY FS_Subset
  <2>2. SumFunctionOnSet(f, T) =
          IF T = {} THEN 0 ELSE f[AnyOf(T)] + SumFunctionOnSet(f, T \ {AnyOf(T)})
    BY <2>1, SumStep
  <2>3. T # {} => /\ T \ {AnyOf(T)} \in SUBSET T /\ T \ {AnyOf(T)} # T
                  /\ f[AnyOf(T)] \in Nat
    BY AnyOfIn
  <2>4. T # {} => SumFunctionOnSet(f, T \ {AnyOf(T)}) \in Nat
    BY <1>1, <2>3
  <2> QED
    BY <2>2, <2>3, <2>4
<1> HIDE DEF G
<1>2. S \in G
  BY <1>1, SubsetInduction
<1> QED
  BY <1>2 DEF G

-----------------------------------------------------------------------------
(* The money.                                                              *)

MoneyTypes ==
  /\ purse \in [Players -> Nat] /\ mailMoney \in [Players -> Nat] /\ till \in Int
  /\ \A id \in Ids : entry[id].deposit \in Nat

\* What each player carries and has in the mail, and what the players of P have
\* staked on each auction.
Own      == [p \in Players |-> purse[p] + mailMoney[p]]
Stake(P) == [id \in Ids |-> IF entry[id].live /\ entry[id].bidder \in P
                            THEN entry[id].bid ELSE 0]

Owned(P)  == SumFunctionOnSet(Own, P)
Staked(P) == SumFunctionOnSet(Stake(P), Ids)

Balance == (Owned(Players) + Staked(Players)) + till

MoneyInv ==
  IInv /\ MoneyTypes /\ Balance = SumFunctionOnSet(FirstMoney, Players)

LEMMA EntryIs ==
  ASSUME Types, NEW id \in Ids
  PROVE  /\ entry[id] \in Entry
         /\ entry[id].owner \in Players /\ entry[id].bidder \in Players \cup {None}
         /\ entry[id].bid \in Nat /\ entry[id].buyout \in Nat /\ entry[id].live \in BOOLEAN
<1>1. entry[id] \in Entry
  BY DEF Types, Ids
<1> QED
  BY <1>1 DEF Entry

LEMMA IdsFinite ==
  ASSUME Types
  PROVE  IsFiniteSet(Ids) /\ Ids \subseteq Nat
<1>1. Ids = 1 .. Len(entry) /\ Len(entry) \in Nat
  BY DEF Types, Ids
<1> QED
  BY <1>1, FS_Interval

LEMMA StakesAreInt ==
  ASSUME Types, NEW P
  PROVE  /\ \A id \in Ids : Stake(P)[id] \in Int
         /\ Staked(P) \in Int
<1>1. \A id \in Ids : Stake(P)[id] \in Int
  BY EntryIs DEF Stake
<1> QED
  BY <1>1, IdsFinite, SumIsInt DEF Staked

LEMMA BidsAreStaked ==
  ASSUME Types, NEW P
  PROVE  BidsOf(P) = Staked(P)
<1> DEFINE A == {id \in Live : entry[id].bidder \in P}
           bids == [id \in Ids |-> entry[id].bid]
<1>1. IsFiniteSet(Ids) /\ A \in SUBSET Ids /\ IsFiniteSet(A)
  BY IdsFinite, FS_Subset DEF Live
<1>2. /\ \A id \in A : Stake(P)[id] = bids[id] /\ bids[id] \in Int
      /\ \A id \in Ids \ A : Stake(P)[id] = 0
  BY EntryIs DEF Stake, Live
<1> HIDE DEF A, bids
<1>3. SumFunctionOnSet(Stake(P), Ids) = SumFunctionOnSet(Stake(P), A)
  BY <1>1, <1>2, SumPart
<1>4. SumFunctionOnSet(Stake(P), A) = SumFunctionOnSet(bids, A)
  BY <1>1, <1>2, SumSame
<1> QED
  BY <1>3, <1>4 DEF BidsOf, Staked, A, bids

LEMMA WorthIs ==
  ASSUME Types, NEW P
  PROVE  Worth(P) = Owned(P) + Staked(P)
BY BidsAreStaked DEF Worth, Owned, Own

LEMMA OwnIs ==
  ASSUME MoneyTypes, NEW p \in Players
  PROVE  Own[p] = purse[p] + mailMoney[p] /\ Own[p] \in Int
BY DEF MoneyTypes, Own

-----------------------------------------------------------------------------
(* What a step that moves money does to the sums.                          *)

\* One auction changes: all that is staked changes by what is staked on it.
LEMMA StakeChanged ==
  ASSUME Types, Types', NEW id \in Ids, DOMAIN entry' = DOMAIN entry,
         \A other \in Ids \ {id} : entry'[other] = entry[other], NEW P
  PROVE  Staked(P)' = Staked(P) + (Stake(P)'[id] - Stake(P)[id])
<1>1. Ids' = Ids
  BY DEF Ids
<1>2. \A other \in Ids \ {id} : Stake(P)'[other] = Stake(P)[other]
  BY <1>1 DEF Stake
<1>3. \A other \in Ids : Stake(P)[other] \in Int
  BY StakesAreInt
<1>4. Stake(P)'[id] \in Int
  <2>1. entry'[id] \in Entry
    BY <1>1 DEF Types, Ids
  <2>2. entry'[id].bid \in Int
    BY <2>1 DEF Entry
  <2> QED
    BY <1>1, <2>2 DEF Stake
<1>5. SumFunctionOnSet(Stake(P)', Ids) =
        SumFunctionOnSet(Stake(P), Ids) + (Stake(P)'[id] - Stake(P)[id])
  BY <1>2, <1>3, <1>4, IdsFinite, SumChanged
<1> QED
  BY <1>1, <1>5 DEF Staked

\* No auction changes in what is staked on it.
LEMMA StakeSame ==
  ASSUME Types, Ids' = Ids, NEW P,
         \A id \in Ids : /\ entry'[id].live = entry[id].live
                         /\ entry'[id].bidder = entry[id].bidder /\ entry'[id].bid = entry[id].bid
  PROVE  Staked(P)' = Staked(P)
<1>1. Stake(P)' = Stake(P)
  BY DEF Stake
<1> QED
  BY <1>1 DEF Staked

\* What changes hands adds up.
LEMMA OwnedMoves ==
  ASSUME MoneyTypes, NEW moved, \A p \in Players : moved[p] \in Int,
         \A p \in Players : Own'[p] = Own[p] + moved[p]
  PROVE  Owned(Players)' = Owned(Players) + SumFunctionOnSet(moved, Players)
<1>1. \A p \in Players : Own[p] \in Int
  BY OwnIs
<1> QED
  BY <1>1, SumPlus, NoneAssumption DEF Owned

\* Player p pays, r (if it is one) is given something back, and o is paid.
Moves(p, r, o, paid, back, gain) ==
  \A x \in Players : Own'[x] = Own[x] + ((IF x = p THEN - paid ELSE 0)
                                      + ((IF x = r THEN back ELSE 0)
                                        + (IF x = o THEN gain ELSE 0)))

LEMMA ThreeMove ==
  ASSUME MoneyTypes, NEW p \in Players, NEW r \in Players \cup {None}, NEW o \in Players,
         NEW paid \in Int, NEW back \in Int, NEW gain \in Int,
         Moves(p, r, o, paid, back, gain)
  PROVE  Owned(Players)' =
           Owned(Players) + ((- paid) + ((IF r \in Players THEN back ELSE 0) + gain))
<1> DEFINE f == [x \in Players |-> IF x = p THEN - paid ELSE 0]
           g == [x \in Players |-> IF x = r THEN back ELSE 0]
           h == [x \in Players |-> IF x = o THEN gain ELSE 0]
           gh == [x \in Players |-> g[x] + h[x]]
           fgh == [x \in Players |-> f[x] + gh[x]]
<1>1. - paid \in Int /\ IsFiniteSet(Players)
  BY NoneAssumption
<1>2. /\ \A x \in Players : f[x] \in Int /\ g[x] \in Int /\ h[x] \in Int
      /\ \A x \in Players : gh[x] = g[x] + h[x] /\ gh[x] \in Int
      /\ \A x \in Players : fgh[x] = f[x] + gh[x] /\ fgh[x] \in Int
      /\ \A x \in Players : Own'[x] = Own[x] + fgh[x]
  BY <1>1 DEF Moves
<1>3. /\ SumFunctionOnSet(f, Players) = - paid
      /\ SumFunctionOnSet(g, Players) = IF r \in Players THEN back ELSE 0
      /\ SumFunctionOnSet(h, Players) = gain
  <2>1. /\ \A x \in Players : f[x] = IF x = p THEN - paid ELSE 0
        /\ \A x \in Players : g[x] = IF x = r THEN back ELSE 0
        /\ \A x \in Players : h[x] = IF x = o THEN gain ELSE 0
    OBVIOUS
  <2> HIDE DEF f, g, h
  <2>2. SumFunctionOnSet(f, Players) = - paid
    BY <1>1, <2>1, SumSingle
  <2>3. SumFunctionOnSet(g, Players) = IF r \in Players THEN back ELSE 0
    BY <1>1, <2>1, SumSingle
  <2>4. SumFunctionOnSet(h, Players) = gain
    BY <1>1, <2>1, SumSingle
  <2> QED
    BY <2>2, <2>3, <2>4
<1> HIDE DEF f, g, h, gh, fgh
<1>4. SumFunctionOnSet(gh, Players) = SumFunctionOnSet(g, Players) + SumFunctionOnSet(h, Players)
  BY <1>1, <1>2, SumPlus
<1>5. SumFunctionOnSet(fgh, Players) = SumFunctionOnSet(f, Players) + SumFunctionOnSet(gh, Players)
  BY <1>1, <1>2, SumPlus
<1>6. Owned(Players)' = Owned(Players) + SumFunctionOnSet(fgh, Players)
  BY <1>2, OwnedMoves
<1> QED
  BY <1>3, <1>4, <1>5, <1>6

LEMMA OwnedIsInt ==
  ASSUME MoneyTypes
  PROVE  Owned(Players) \in Int
<1>1. \A p \in Players : Own[p] \in Int
  BY OwnIs
<1> QED
  BY <1>1, SumIsInt, NoneAssumption DEF Owned

\* The house never takes more than the bid.
LEMMA CutIs ==
  ASSUME NEW b \in Nat
  PROVE  GetAuctionCut(b) \in 0 .. b
<1> DEFINE n == b * CutPercent
<1>1. CutPercent \in 0 .. 100
  BY PriceAssumption
<1>2. n \in Nat /\ n <= b * 100
  BY <1>1
<1> HIDE DEF n
<1>3. n \div 100 \in 0 .. b
  BY <1>2
<1> QED
  BY <1>3 DEF GetAuctionCut, CalculatePct, n

\* The last of n auctions gets what is left of the deposit, which is no debt.
LEMMA ShareIsNat ==
  ASSUME NEW total \in Nat, NEW n \in Nat \ {0}, NEW k
  PROVE  Share(total, k, n) \in Nat
<1> DEFINE q == total \div n
<1>1. q \in Nat /\ n * q <= total
  OBVIOUS
<1> HIDE DEF q
<1>2. (n - 1) * q = n * q - q
  BY <1>1
<1>3. total - (n - 1) * q \in Nat
  <2> DEFINE m == n * q
  <2>1. m \in Nat /\ m <= total /\ (n - 1) * q = m - q
    BY <1>1, <1>2
  <2> HIDE DEF m
  <2>2. total - (m - q) \in Nat
    BY <1>1, <2>1
  <2> QED
    BY <2>1, <2>2
<1> QED
  BY <1>1, <1>3 DEF Share, q

LEMMA ReducedIs ==
  ASSUME NEW money \in Nat, NEW amount \in Int, amount <= money
  PROVE  Reduced(money, amount) = money - amount /\ Reduced(money, amount) \in Nat
BY DEF Reduced

LEMMA ProfitIs ==
  ASSUME NEW e, e.bid \in Nat, e.deposit \in Nat
  PROVE  Profit(e) \in Nat
<1>1. GetAuctionCut(e.bid) \in 0 .. e.bid
  BY CutIs
<1> QED
  BY <1>1 DEF Profit

\* Nobody is poorer, and what is staked is as before.
LEMMA NoMoneyMoves ==
  ASSUME Types, MoneyTypes, UNCHANGED moneyVars, Ids' = Ids,
         \A id \in Ids : /\ entry'[id].live = entry[id].live
                         /\ entry'[id].bidder = entry[id].bidder /\ entry'[id].bid = entry[id].bid
                         /\ entry'[id].deposit = entry[id].deposit
  PROVE  MoneyTypes' /\ Balance' = Balance
<1>1. MoneyTypes'
  BY DEF MoneyTypes, moneyVars
<1>2. Staked(Players)' = Staked(Players)
  BY StakeSame
<1>3. Own' = Own
  BY DEF Own, moneyVars
<1> QED
  BY <1>1, <1>2, <1>3 DEF Balance, Owned, moneyVars

LEMMA RunsOutMoney ==
  ASSUME MoneyInv, NEW id \in Ids, RunsOut(id)
  PROVE  MoneyTypes' /\ Balance' = Balance
<1>1. entry[id] \in Entry /\ Types /\ MoneyTypes
  BY DEF MoneyInv, IInv, Types, Ids
<1>2. entry' = [entry EXCEPT ![id].expired = TRUE] /\ UNCHANGED moneyVars
  BY DEF RunsOut
<1>3. entry' = [entry EXCEPT ![id] = [entry[id] EXCEPT !.expired = TRUE]]
  BY <1>2
<1> DEFINE e == [entry[id] EXCEPT !.expired = TRUE]
<1>4. e.live = entry[id].live /\ e.bidder = entry[id].bidder /\ e.bid = entry[id].bid
      /\ e.deposit = entry[id].deposit
  BY <1>1 DEF Entry
<1> HIDE DEF e
<1>5. DOMAIN entry' = DOMAIN entry /\ \A x \in Ids : entry'[x] = IF x = id THEN e ELSE entry[x]
  BY <1>3 DEF e, Ids
<1> QED
  BY <1>1, <1>2, <1>4, <1>5, NoMoneyMoves DEF Ids

\* An auction is added: nothing is staked on it yet.
LEMMA SellItemStakes ==
  ASSUME Types, NEW p \in Players, NEW i \in Items, NEW startbid, NEW buyout,
         SellItem(p, i, startbid, buyout), NEW P, None \notin P
  PROVE  /\ Staked(P)' = Staked(P)
         /\ UNCHANGED moneyVars
         /\ \A id \in Ids' : id \notin Ids => entry'[id].deposit = DepositOf[i]
         /\ \A id \in Ids : entry'[id] = entry[id]
<1> DEFINE n   == Len(entry) + 1
           new == [owner |-> p, item |-> i, bidder |-> None, bid |-> 0,
                   buyout |-> buyout, startbid |-> startbid, deposit |-> DepositOf[i],
                   expired |-> FALSE, live |-> TRUE]
<1>1. entry' = Append(entry, new) /\ UNCHANGED moneyVars
  BY DEF SellItem
<1>2. new.deposit = DepositOf[i] /\ new.bidder \notin P
  OBVIOUS
<1> HIDE DEF new
<1>3. /\ Ids' = Ids \cup {n} /\ Ids = 1 .. Len(entry) /\ Len(entry) \in Nat
      /\ entry'[n] = new /\ \A id \in Ids : entry'[id] = entry[id]
  BY <1>1 DEF Types, Ids
<1>4. /\ \A id \in Ids : Stake(P)'[id] = Stake(P)[id]
      /\ \A id \in Ids' \ Ids : Stake(P)'[id] = 0
  BY <1>2, <1>3 DEF Stake
<1>5. IsFiniteSet(Ids) /\ IsFiniteSet(Ids') /\ Ids \in SUBSET Ids'
  BY <1>3, IdsFinite, FS_AddElement
<1>6. \A id \in Ids : Stake(P)[id] \in Int
  BY StakesAreInt
<1>7. SumFunctionOnSet(Stake(P)', Ids') = SumFunctionOnSet(Stake(P)', Ids)
  BY <1>4, <1>5, <1>6, SumPart
<1>8. SumFunctionOnSet(Stake(P)', Ids) = SumFunctionOnSet(Stake(P), Ids)
  BY <1>4, <1>5, <1>6, SumSame
<1> QED
  BY <1>1, <1>2, <1>3, <1>7, <1>8 DEF Staked

LEMMA SellItemMoney ==
  ASSUME MoneyInv, NEW p \in Players, NEW i \in Items, NEW offer \in Offers,
         SellItem(p, i, offer[1], offer[2])
  PROVE  MoneyTypes' /\ Balance' = Balance
<1>1. Types /\ MoneyTypes /\ DepositOf[i] \in Nat
  BY PriceAssumption DEF MoneyInv, IInv
<1>2. /\ Staked(Players)' = Staked(Players)
      /\ UNCHANGED moneyVars
      /\ \A id \in Ids' : id \notin Ids => entry'[id].deposit = DepositOf[i]
      /\ \A id \in Ids : entry'[id] = entry[id]
  BY <1>1, NoneAssumption, SellItemStakes
<1>3. MoneyTypes'
  BY <1>1, <1>2 DEF MoneyTypes, moneyVars
<1>4. Own' = Own
  BY <1>2 DEF Own, moneyVars
<1> QED
  BY <1>2, <1>3, <1>4 DEF Balance, Owned, moneyVars

LEMMA TakeMailMoney ==
  ASSUME MoneyInv, NEW p \in Players, TakeMail(p)
  PROVE  MoneyTypes' /\ Balance' = Balance
<1>1. Types /\ MoneyTypes
  BY DEF MoneyInv, IInv
<1>2. /\ purse' = [purse EXCEPT ![p] = @ + mailMoney[p]]
      /\ mailMoney' = [mailMoney EXCEPT ![p] = 0] /\ UNCHANGED <<entry, till>>
  BY DEF TakeMail
<1>3. MoneyTypes'
  BY <1>1, <1>2 DEF MoneyTypes, Ids
<1>4. \A x \in Players : purse'[x] + mailMoney'[x] = purse[x] + mailMoney[x]
  BY <1>1, <1>2 DEF MoneyTypes
<1>5. Own' = Own
  BY <1>4 DEF Own
<1>6. Staked(Players)' = Staked(Players)
  BY <1>1, <1>2, StakeSame DEF Ids
<1> QED
  BY <1>2, <1>3, <1>5, <1>6 DEF Balance, Owned

\* What is staked on the auction changes by what is paid, less what is given.
Balanced(id, r, paid, back, gain, kept) ==
  Stake(Players)'[id] - Stake(Players)[id] =
    paid - (IF r \in Players THEN back ELSE 0) - gain - kept

\* The bid on one auction changes, one player pays, one is given something back
\* and one is paid: if it all adds up, no money is made or lost.
LEMMA AddsUp ==
  ASSUME MoneyInv, Types', NEW id \in Ids, DOMAIN entry' = DOMAIN entry,
         \A other \in Ids \ {id} : entry'[other] = entry[other],
         NEW p \in Players, NEW r \in Players \cup {None}, NEW o \in Players,
         NEW paid \in Int, NEW back \in Int, NEW gain \in Int, NEW kept \in Int,
         Moves(p, r, o, paid, back, gain), till' = till + kept,
         Balanced(id, r, paid, back, gain, kept)
  PROVE  Balance' = Balance
<1>1. Types /\ MoneyTypes /\ till \in Int
  BY DEF MoneyInv, IInv, MoneyTypes
<1>2. Owned(Players)' = Owned(Players) + ((- paid) + ((IF r \in Players THEN back ELSE 0) + gain))
  BY <1>1, ThreeMove
<1>3. Staked(Players)' = Staked(Players) + (Stake(Players)'[id] - Stake(Players)[id])
  BY <1>1, StakeChanged
<1> DEFINE given == IF r \in Players THEN back ELSE 0
           O == Owned(Players)  T == Staked(Players)
           change == Stake(Players)'[id] - Stake(Players)[id]
<1>4. O \in Int /\ T \in Int /\ given \in Int /\ change = paid - given - gain - kept
  BY <1>1, OwnedIsInt, StakesAreInt DEF Balanced
<1>6. /\ Owned(Players)' = O + ((- paid) + (given + gain))
      /\ Staked(Players)' = T + change
  BY <1>2, <1>3
<1> HIDE DEF given, O, T, change
<1>5. (O + ((- paid) + (given + gain)) + (T + change)) + (till + kept) = (O + T) + till
  BY <1>1, <1>4
<1> QED
  BY <1>5, <1>6 DEF Balance, O, T

LEMMA PlaceBidMoney ==
  ASSUME MoneyInv, Types', NEW p \in Players, NEW id \in Ids, NEW price \in Prices,
         PlaceBid(p, id, price)
  PROVE  MoneyTypes' /\ Balance' = Balance
<1> DEFINE e == entry[id]
           r == IF e.bidder = p THEN None ELSE e.bidder
           paid == Owed(e, p, price)
<1>1. Types /\ MoneyTypes
  BY DEF MoneyInv, IInv
<1>2. /\ e \in Entry /\ e.bidder \in Players \cup {None} /\ e.bid \in Nat /\ e.live = TRUE
      /\ price \in Nat /\ price > e.bid /\ purse[p] >= price
  BY <1>1, EntryIs, PriceAssumption DEF PlaceBid, MayBid, Live
<1>3. paid \in Nat /\ paid <= purse[p]
  BY <1>1, <1>2 DEF Owed, MoneyTypes
<1>4. /\ purse' = [purse EXCEPT ![p] = Reduced(@, paid)] /\ till' = till
      /\ mailMoney' = [x \in Players |-> mailMoney[x] + Returned(e, p, price)[x]]
      /\ entry' = [entry EXCEPT ![id].bidder = p, ![id].bid = price]
  BY DEF PlaceBid
<1>5. \A x \in Players : Returned(e, p, price)[x] = IF x = r THEN e.bid ELSE 0
  BY NoneAssumption DEF Returned, Refund
<1>6. entry' = [entry EXCEPT ![id] = [e EXCEPT !.bidder = p, !.bid = price]]
  BY <1>4
<1>7. /\ DOMAIN entry' = DOMAIN entry /\ \A other \in Ids \ {id} : entry'[other] = entry[other]
      /\ entry'[id] = [e EXCEPT !.bidder = p, !.bid = price]
  BY <1>1, <1>6 DEF Ids, Types
<1>8. /\ entry'[id].bidder = p /\ entry'[id].bid = price /\ entry'[id].live = TRUE
      /\ entry'[id].deposit = e.deposit
  BY <1>2, <1>7 DEF Entry
<1> HIDE DEF paid
<1>9. Reduced(purse[p], paid) = purse[p] - paid /\ Reduced(purse[p], paid) \in Nat
  BY <1>1, <1>3, ReducedIs DEF MoneyTypes
<1>10. MoneyTypes'
  <2>1. purse' \in [Players -> Nat]
    BY <1>1, <1>4, <1>9 DEF MoneyTypes
  <2>2. mailMoney' \in [Players -> Nat]
    BY <1>1, <1>2, <1>4, <1>5 DEF MoneyTypes
  <2>3. \A x \in Ids' : entry'[x].deposit \in Nat
    BY <1>1, <1>7, <1>8 DEF MoneyTypes, Ids
  <2> QED
    BY <1>1, <1>4, <2>1, <2>2, <2>3 DEF MoneyTypes
<1>11. r \in Players \cup {None} /\ e.bid \in Int /\ paid \in Int
  BY <1>2, <1>3
<1>12. Moves(p, r, p, paid, e.bid, 0)
  <2> SUFFICES ASSUME NEW x \in Players
               PROVE  Own'[x] = Own[x] + ((IF x = p THEN - paid ELSE 0)
                                       + ((IF x = r THEN e.bid ELSE 0)
                                         + (IF x = p THEN 0 ELSE 0)))
    BY DEF Moves
  <2>1. /\ purse[x] \in Nat /\ mailMoney[x] \in Nat
        /\ purse'[x] = IF x = p THEN purse[x] - paid ELSE purse[x]
        /\ mailMoney'[x] = mailMoney[x] + IF x = r THEN e.bid ELSE 0
    BY <1>1, <1>4, <1>5, <1>9 DEF MoneyTypes
  <2>2. Own'[x] = purse'[x] + mailMoney'[x] /\ Own[x] = purse[x] + mailMoney[x]
    BY DEF Own
  <2> HIDE DEF e, r
  <2> QED
    BY <1>11, <2>1, <2>2
<1>13. till' = till + 0
  BY <1>1, <1>4 DEF MoneyTypes
<1>14. Balanced(id, r, paid, e.bid, 0, 0)
  <2>1. Stake(Players)'[id] = price
    BY <1>7, <1>8 DEF Stake, Ids
  <2>2. Stake(Players)[id] = IF e.bidder \in Players THEN e.bid ELSE 0
    BY <1>2 DEF Stake
  <2>3. paid = IF e.bidder = p THEN price - e.bid ELSE price
    BY DEF paid, Owed
  <2> QED
    BY <1>2, <2>1, <2>2, <2>3, NoneAssumption DEF Balanced
<1> HIDE DEF e, r
<1>15. Balance' = Balance
  <2>1. 0 \in Int
    OBVIOUS
  <2> QED
    BY <1>7, <1>11, <1>12, <1>13, <1>14, <2>1, AddsUp
<1> QED
  BY <1>10, <1>15

\* An auction that leaves the house: nothing is staked on it any more.
LEMMA RemovedStake ==
  ASSUME Types, NEW id \in Live, RemoveAuction(id), NEW P
  PROVE  /\ DOMAIN entry' = DOMAIN entry
         /\ \A other \in Ids \ {id} : entry'[other] = entry[other]
         /\ entry'[id].deposit = entry[id].deposit
         /\ Stake(P)'[id] = 0
         /\ Stake(P)[id] = IF entry[id].bidder \in P THEN entry[id].bid ELSE 0
<1>1. id \in Ids /\ entry[id] \in Entry /\ entry[id].live
  BY DEF Live, Ids, Types
<1>2. entry' = [entry EXCEPT ![id] = [entry[id] EXCEPT !.live = FALSE]]
  BY DEF RemoveAuction
<1>3. /\ DOMAIN entry' = DOMAIN entry
      /\ \A other \in Ids \ {id} : entry'[other] = entry[other]
      /\ entry'[id] = [entry[id] EXCEPT !.live = FALSE]
  BY <1>1, <1>2 DEF Ids
<1>4. entry'[id].live = FALSE /\ entry'[id].deposit = entry[id].deposit
  BY <1>1, <1>3 DEF Entry
<1> QED
  BY <1>1, <1>3, <1>4 DEF Stake, Ids

LEMMA RemoveItemMoney ==
  ASSUME MoneyInv, Types', NEW p \in Players, NEW id \in Ids, RemoveItem(p, id)
  PROVE  MoneyTypes' /\ Balance' = Balance
<1> DEFINE e == entry[id]
           r == e.bidder
           cut == IF e.bidder = None THEN 0 ELSE GetAuctionCut(e.bid)
<1>1. Types /\ MoneyTypes
  BY DEF MoneyInv, IInv
<1>2. /\ e \in Entry /\ r \in Players \cup {None} /\ e.bid \in Nat /\ id \in Live
      /\ purse[p] >= cut
  BY <1>1, EntryIs DEF RemoveItem
<1>3. cut \in Nat /\ cut <= purse[p]
  <2>1. GetAuctionCut(e.bid) \in Nat
    BY <1>2, CutIs
  <2> QED
    BY <1>1, <1>2, <2>1 DEF MoneyTypes
<1>4. /\ purse' = [purse EXCEPT ![p] = Reduced(@, cut)] /\ till' = till + cut
      /\ mailMoney' = [x \in Players |-> mailMoney[x] + IF x = r THEN e.bid ELSE 0]
      /\ RemoveAuction(id)
  BY DEF RemoveItem
<1>5. /\ DOMAIN entry' = DOMAIN entry /\ \A other \in Ids \ {id} : entry'[other] = entry[other]
      /\ entry'[id].deposit = e.deposit /\ Stake(Players)'[id] = 0
      /\ Stake(Players)[id] = IF r \in Players THEN e.bid ELSE 0
  BY <1>1, <1>2, <1>4, RemovedStake
<1> HIDE DEF cut
<1>6. Reduced(purse[p], cut) = purse[p] - cut /\ Reduced(purse[p], cut) \in Nat
  BY <1>1, <1>3, ReducedIs DEF MoneyTypes
<1>7. MoneyTypes'
  <2>1. purse' \in [Players -> Nat]
    BY <1>1, <1>4, <1>6 DEF MoneyTypes
  <2>2. mailMoney' \in [Players -> Nat]
    BY <1>1, <1>2, <1>4 DEF MoneyTypes
  <2>3. \A x \in Ids' : entry'[x].deposit \in Nat
    BY <1>1, <1>5 DEF MoneyTypes, Ids
  <2> QED
    BY <1>1, <1>3, <1>4, <2>1, <2>2, <2>3 DEF MoneyTypes
<1>8. e.bid \in Int /\ cut \in Int /\ 0 \in Int
  BY <1>2, <1>3
<1>9. Moves(p, r, p, cut, e.bid, 0)
  <2> SUFFICES ASSUME NEW x \in Players
               PROVE  Own'[x] = Own[x] + ((IF x = p THEN - cut ELSE 0)
                                       + ((IF x = r THEN e.bid ELSE 0)
                                         + (IF x = p THEN 0 ELSE 0)))
    BY DEF Moves
  <2>1. /\ purse[x] \in Nat /\ mailMoney[x] \in Nat
        /\ purse'[x] = IF x = p THEN purse[x] - cut ELSE purse[x]
        /\ mailMoney'[x] = mailMoney[x] + IF x = r THEN e.bid ELSE 0
    BY <1>1, <1>4, <1>6 DEF MoneyTypes
  <2>2. Own'[x] = purse'[x] + mailMoney'[x] /\ Own[x] = purse[x] + mailMoney[x]
    BY DEF Own
  <2> HIDE DEF e, r
  <2> QED
    BY <1>8, <2>1, <2>2
<1>10. Balanced(id, r, cut, e.bid, 0, cut)
  BY <1>5, <1>8 DEF Balanced
<1> HIDE DEF e, r
<1>11. Balance' = Balance
  BY <1>2, <1>4, <1>5, <1>8, <1>9, <1>10, AddsUp
<1> QED
  BY <1>7, <1>11

LEMMA BuyoutMoney ==
  ASSUME MoneyInv, Types', NEW p \in Players, NEW id \in Ids, NEW price \in Prices,
         Buyout(p, id, price)
  PROVE  MoneyTypes' /\ Balance' = Balance
<1> DEFINE e == entry[id]
           sold == [e EXCEPT !.bidder = p, !.bid = e.buyout]
           r == IF e.bidder = p THEN None ELSE e.bidder
           o == e.owner
           paid == Owed(e, p, e.buyout)
           gain == Profit(sold)
           kept == e.buyout - gain
<1>1. Types /\ MoneyTypes
  BY DEF MoneyInv, IInv
<1>2. /\ e \in Entry /\ e.bidder \in Players \cup {None} /\ e.bid \in Nat /\ id \in Live
      /\ o \in Players /\ e.buyout \in Nat /\ price \in Nat
      /\ e.buyout <= price /\ purse[p] >= price
  BY <1>1, EntryIs, PriceAssumption DEF Buyout, MayBid
<1>3. paid \in Int /\ paid <= purse[p]
  BY <1>1, <1>2 DEF Owed, MoneyTypes
<1>4. sold.bid = e.buyout /\ sold.deposit = e.deposit /\ e.deposit \in Nat
  BY <1>1, <1>2 DEF Entry, MoneyTypes
<1>5. gain \in Nat
  <2> HIDE DEF sold
  <2> QED
    BY <1>2, <1>4, ProfitIs
<1>6. /\ purse' = [purse EXCEPT ![p] = Reduced(@, paid)]
      /\ mailMoney' = [x \in Players |-> mailMoney[x] + Returned(e, p, e.buyout)[x]
                                         + IF x = o THEN gain ELSE 0]
      /\ till' = till + sold.bid - gain
      /\ RemoveAuction(id)
  BY DEF Buyout
<1>7. \A x \in Players : Returned(e, p, e.buyout)[x] = IF x = r THEN e.bid ELSE 0
  BY NoneAssumption DEF Returned, Refund
<1>8. /\ DOMAIN entry' = DOMAIN entry /\ \A other \in Ids \ {id} : entry'[other] = entry[other]
      /\ entry'[id].deposit = e.deposit /\ Stake(Players)'[id] = 0
      /\ Stake(Players)[id] = IF e.bidder \in Players THEN e.bid ELSE 0
  BY <1>1, <1>2, <1>6, RemovedStake
<1>9. Balanced(id, r, paid, e.bid, gain, kept)
  <2>1. paid = IF e.bidder = p THEN e.buyout - e.bid ELSE e.buyout
    BY DEF Owed
  <2> HIDE DEF gain, paid
  <2> QED
    BY <1>2, <1>5, <1>8, <2>1, NoneAssumption DEF Balanced
<1> HIDE DEF paid, gain, sold
<1>10. Reduced(purse[p], paid) = purse[p] - paid /\ Reduced(purse[p], paid) \in Nat
  BY <1>1, <1>3, ReducedIs DEF MoneyTypes
<1>11. till' = till + kept /\ kept \in Int
  BY <1>1, <1>2, <1>4, <1>5, <1>6 DEF MoneyTypes
<1>12. MoneyTypes'
  <2>1. purse' \in [Players -> Nat]
    BY <1>1, <1>6, <1>10 DEF MoneyTypes
  <2>2. mailMoney' \in [Players -> Nat]
    BY <1>1, <1>2, <1>5, <1>6, <1>7 DEF MoneyTypes
  <2>3. \A x \in Ids' : entry'[x].deposit \in Nat
    BY <1>1, <1>4, <1>8 DEF MoneyTypes, Ids
  <2> QED
    BY <1>1, <1>11, <2>1, <2>2, <2>3 DEF MoneyTypes
<1>13. e.bid \in Int /\ paid \in Int /\ gain \in Int /\ r \in Players \cup {None}
  BY <1>2, <1>3, <1>5
<1>14. Moves(p, r, o, paid, e.bid, gain)
  <2> SUFFICES ASSUME NEW x \in Players
               PROVE  Own'[x] = Own[x] + ((IF x = p THEN - paid ELSE 0)
                                       + ((IF x = r THEN e.bid ELSE 0)
                                         + (IF x = o THEN gain ELSE 0)))
    BY DEF Moves
  <2>1. /\ purse[x] \in Nat /\ mailMoney[x] \in Nat
        /\ purse'[x] = IF x = p THEN purse[x] - paid ELSE purse[x]
        /\ mailMoney'[x] = mailMoney[x] + (IF x = r THEN e.bid ELSE 0)
                                        + (IF x = o THEN gain ELSE 0)
    BY <1>1, <1>6, <1>7, <1>10 DEF MoneyTypes
  <2>2. Own'[x] = purse'[x] + mailMoney'[x] /\ Own[x] = purse[x] + mailMoney[x]
    BY DEF Own
  <2> HIDE DEF e, r, o
  <2> QED
    BY <1>13, <2>1, <2>2
<1> HIDE DEF e, r, o, kept
<1>15. Balance' = Balance
  BY <1>2, <1>8, <1>9, <1>11, <1>13, <1>14, AddsUp
<1> QED
  BY <1>12, <1>15

\* Whatever the lists come to: what leaves the purses is what the house gets.
LEMMA UpdatePendingAuctionsMoney ==
  ASSUME MoneyInv, UpdatePendingAuctions
  PROVE  MoneyTypes' /\ Balance' = Balance
<1> DEFINE Waiting == {p \in Players : pending[p] # <<>>}
           Charged == {p \in Waiting \cap online : Len(pending[p]) = counted[p]}
           Gone    == Waiting \ online
           at(id)  == {k \in DOMAIN pending[entry[id].owner] :
                         pending[entry[id].owner][k] = id}
           less    == [p \in Players |-> purse[p] - purse'[p]]
<1>1. Types /\ MoneyTypes
  BY DEF MoneyInv, IInv
<1>2. PICK total \in [Charged -> 0 .. MaxAuctions * MaxDeposit] :
        /\ entry' = [id \in Ids |->
             IF at(id) = {} THEN entry[id]
             ELSE IF entry[id].owner \in Charged
             THEN [entry[id] EXCEPT !.deposit =
                     Share(total[entry[id].owner], Max(at(id)), Len(pending[entry[id].owner]))]
             ELSE IF entry[id].owner \in Gone THEN [entry[id] EXCEPT !.expired = TRUE]
             ELSE entry[id]]
        /\ purse' = [p \in Players |->
             IF p \in Charged THEN Reduced(purse[p], total[p]) ELSE purse[p]]
        /\ till' = till + SumFunctionOnSet(less, Charged)
  BY DEF UpdatePendingAuctions
<1>3. \A p \in Charged : total[p] \in Nat
  BY <1>2, MaxAssumption, PriceAssumption
<1>4. ASSUME NEW id \in Ids
      PROVE  /\ entry'[id].live = entry[id].live
             /\ entry'[id].bidder = entry[id].bidder /\ entry'[id].bid = entry[id].bid
             /\ entry'[id].deposit \in Nat
  <2>1. entry[id] \in Entry /\ entry[id].deposit \in Nat
    BY <1>1 DEF Types, Ids, MoneyTypes
  <2> DEFINE n == Len(pending[entry[id].owner])
             share == Share(total[entry[id].owner], Max(at(id)), n)
  <2>2. \/ entry'[id] = entry[id]
        \/ entry'[id] = [entry[id] EXCEPT !.expired = TRUE]
        \/ entry[id].owner \in Charged /\ entry'[id] = [entry[id] EXCEPT !.deposit = share]
    BY <1>2
  <2>3. ASSUME entry[id].owner \in Charged PROVE share \in Nat
    <3>1. n \in Nat \ {0}
      BY <1>1, <2>3 DEF Types
    <3>2. total[entry[id].owner] \in Nat
      BY <1>3, <2>3
    <3> HIDE DEF n
    <3> QED
      BY <3>1, <3>2, ShareIsNat
  <2> HIDE DEF share, Charged
  <2> QED
    BY <2>1, <2>2, <2>3 DEF Entry
<1>5. DOMAIN entry' = Ids
  BY <1>2
<1>6. mailMoney' = mailMoney /\ Charged \in SUBSET Players
  BY DEF UpdatePendingAuctions
<1> HIDE DEF Charged
<1>7. ASSUME NEW p \in Players
      PROVE  purse'[p] \in Nat /\ (p \notin Charged => purse'[p] = purse[p])
  <2>1. purse[p] \in Nat
    BY <1>1 DEF MoneyTypes
  <2>2. purse'[p] = IF p \in Charged THEN Reduced(purse[p], total[p]) ELSE purse[p]
    BY <1>2
  <2>3. p \in Charged => Reduced(purse[p], total[p]) \in Nat
    BY <1>3, <2>1 DEF Reduced
  <2> QED
    BY <2>1, <2>2, <2>3
<1>8. \A p \in Players : less[p] \in Int /\ (p \notin Charged => less[p] = 0)
  BY <1>1, <1>7 DEF MoneyTypes
<1>9. \A p \in Players : /\ Own'[p] \in Int /\ Own[p] \in Int
                         /\ Own[p] = Own'[p] + less[p]
  BY <1>1, <1>6, <1>7 DEF MoneyTypes, Own
<1>10. IsFiniteSet(Players)
  BY NoneAssumption
<1> HIDE DEF less
<1>11. /\ SumFunctionOnSet(less, Players) = SumFunctionOnSet(less, Charged)
       /\ SumFunctionOnSet(less, Players) \in Int
  BY <1>6, <1>8, <1>10, SumPart
<1>12. Owned(Players) = Owned(Players)' + SumFunctionOnSet(less, Players)
  BY <1>8, <1>9, <1>10, SumPlus DEF Owned
<1>13. Owned(Players)' \in Int
  BY <1>9, <1>10, SumIsInt DEF Owned
<1>14. Staked(Players)' = Staked(Players)
  BY <1>1, <1>4, <1>5, StakeSame DEF Ids
<1>15. MoneyTypes'
  <2>1. purse' \in [Players -> Nat]
    BY <1>2, <1>7
  <2>2. \A id \in Ids' : entry'[id].deposit \in Nat
    BY <1>4, <1>5 DEF Ids
  <2>3. till' \in Int
    BY <1>1, <1>2, <1>11 DEF MoneyTypes
  <2> QED
    BY <1>1, <1>6, <2>1, <2>2, <2>3 DEF MoneyTypes
<1>16. Balance' = Balance
  <2> DEFINE O == Owned(Players)'  d == SumFunctionOnSet(less, Players)  T == Staked(Players)
  <2>1. O \in Int /\ d \in Int /\ T \in Int /\ till \in Int
    BY <1>1, <1>11, <1>13, StakesAreInt DEF MoneyTypes
  <2>2. Owned(Players) = O + d /\ till' = till + d /\ Staked(Players)' = T
    BY <1>2, <1>11, <1>12, <1>14
  <2> HIDE DEF O, d, T
  <2>3. (O + T) + (till + d) = ((O + d) + T) + till
    BY <2>1
  <2> QED
    BY <2>2, <2>3 DEF Balance, O, T
<1> QED
  BY <1>15, <1>16

\* What the winners staked is what the sellers earn and the house keeps.
LEMMA UpdateMoney ==
  ASSUME MoneyInv, Update
  PROVE  MoneyTypes' /\ Balance' = Balance
<1> DEFINE Ended  == {id \in Live : entry[id].expired}
           Sold   == {id \in Ended : entry[id].bidder # None}
           Bid    == [id \in Ids |-> entry[id].bid]
           Earned == [id \in Ids |-> Profit(entry[id])]
           owner  == [id \in Ids |-> entry[id].owner]
           gain   == [p \in Players |-> SumFunctionOnSet(Earned, {id \in Sold : owner[id] = p})]
           paid   == [id \in Ids |-> IF id \in Sold THEN entry[id].bid ELSE 0]
           E      == SumFunctionOnSet(Earned, Sold)
           B      == SumFunctionOnSet(Bid, Sold)
<1>1. Types /\ MoneyTypes
  BY DEF MoneyInv, IInv
<1>2. Sold \in SUBSET Ids
  BY DEF Live
<1>3. \A p \in Players : {id \in Sold : owner[id] = p} = {id \in Sold : entry[id].owner = p}
  BY <1>2
<1>4. /\ mailMoney' = [p \in Players |->
           mailMoney[p] + SumFunctionOnSet(Earned, {id \in Sold : entry[id].owner = p})]
      /\ till' = till + B - E
      /\ entry' = [id \in Ids |-> IF id \in Ended
                                  THEN [entry[id] EXCEPT !.live = FALSE] ELSE entry[id]]
      /\ purse' = purse
  BY DEF Update
<1>5. \A id \in Ids : /\ entry[id] \in Entry /\ entry[id].bid \in Nat /\ entry[id].deposit \in Nat
                      /\ entry[id].owner \in Players /\ entry[id].live \in BOOLEAN
                      /\ entry[id].bidder \in Players \cup {None}
  BY <1>1, EntryIs DEF MoneyTypes
<1>6. \A id \in Ids : Earned[id] \in Nat /\ owner[id] \in Players
  BY <1>5, ProfitIs
<1>7. \A id \in Ids : /\ entry'[id].live = IF id \in Ended THEN FALSE ELSE entry[id].live
                      /\ entry'[id].bidder = entry[id].bidder /\ entry'[id].bid = entry[id].bid
                      /\ entry'[id].deposit = entry[id].deposit
  BY <1>4, <1>5 DEF Entry
<1>8. DOMAIN entry' = Ids /\ Ids' = Ids
  BY <1>4 DEF Ids
<1>9. \A id \in Ids : /\ Stake(Players)'[id] \in Int /\ paid[id] \in Int
                      /\ Stake(Players)[id] = Stake(Players)'[id] + paid[id]
  <2> SUFFICES ASSUME NEW id \in Ids
               PROVE  /\ Stake(Players)'[id] \in Int /\ paid[id] \in Int
                      /\ Stake(Players)[id] = Stake(Players)'[id] + paid[id]
    OBVIOUS
  <2>1. /\ Stake(Players)[id] = IF entry[id].live /\ entry[id].bidder \in Players
                                THEN entry[id].bid ELSE 0
        /\ Stake(Players)'[id] = IF entry'[id].live /\ entry'[id].bidder \in Players
                                 THEN entry'[id].bid ELSE 0
    BY <1>8 DEF Stake
  <2>2. /\ id \in Ended => entry[id].live
        /\ id \in Sold <=> id \in Ended /\ entry[id].bidder \in Players
    BY <1>5, NoneAssumption DEF Live
  <2> DEFINE live == entry[id].live  bidder == entry[id].bidder  bid == entry[id].bid
  <2>3. paid[id] = IF id \in Sold THEN entry[id].bid ELSE 0
    OBVIOUS
  <2>4. /\ live \in BOOLEAN /\ bid \in Nat
        /\ Stake(Players)[id] = IF live /\ bidder \in Players THEN bid ELSE 0
        /\ Stake(Players)'[id] =
             IF (IF id \in Ended THEN FALSE ELSE live) /\ bidder \in Players THEN bid ELSE 0
        /\ paid[id] = IF id \in Sold THEN bid ELSE 0
        /\ id \in Ended => live
        /\ id \in Sold <=> id \in Ended /\ bidder \in Players
    <3> HIDE DEF Ended, Sold, paid
    <3> QED
      BY <1>5, <1>7, <2>1, <2>2, <2>3
  <2> HIDE DEF Ended, Sold, paid, live, bidder, bid
  <2>5. CASE id \in Ended /\ bidder \in Players
    BY <2>4, <2>5
  <2>6. CASE ~ (id \in Ended /\ bidder \in Players)
    BY <2>4, <2>6
  <2> QED
    BY <2>5, <2>6
<1>10. /\ \A id \in Sold : paid[id] = Bid[id] /\ Bid[id] \in Int /\ paid[id] \in Int
       /\ \A id \in Ids \ Sold : paid[id] = 0
  BY <1>2, <1>5
<1>11. IsFiniteSet(Ids) /\ IsFiniteSet(Sold) /\ IsFiniteSet(Players)
  BY <1>1, <1>2, IdsFinite, FS_Subset, NoneAssumption
<1> HIDE DEF Ended, Sold, Bid, Earned, owner, paid
<1>12. Staked(Players) = Staked(Players)' + SumFunctionOnSet(paid, Ids)
  BY <1>8, <1>9, <1>11, SumPlus DEF Staked
<1>13. SumFunctionOnSet(paid, Ids) = SumFunctionOnSet(paid, Sold)
  BY <1>2, <1>10, <1>11, SumPart
<1>14. SumFunctionOnSet(paid, Sold) = B
  BY <1>10, <1>11, SumSame
<1>15. \A id \in Sold : Earned[id] \in Int /\ owner[id] \in Players
  BY <1>2, <1>6
<1>16. SumFunctionOnSet(gain, Players) = E
  BY <1>11, <1>15, SumByKey
<1>17. \A p \in Players : gain[p] \in Nat
  <2> SUFFICES ASSUME NEW p \in Players
               PROVE  SumFunctionOnSet(Earned, {id \in Sold : owner[id] = p}) \in Nat
    OBVIOUS
  <2>1. IsFiniteSet({id \in Sold : owner[id] = p})
    BY <1>11, FS_Subset
  <2> QED
    BY <1>2, <1>6, <2>1, SumIsNat
<1>18. \A p \in Players : mailMoney'[p] = mailMoney[p] + gain[p]
  BY <1>3, <1>4
<1> HIDE DEF gain
<1>19. \A p \in Players : gain[p] \in Int /\ Own'[p] = Own[p] + gain[p]
  BY <1>1, <1>4, <1>17, <1>18 DEF MoneyTypes, Own
<1>20. Owned(Players)' = Owned(Players) + E
  BY <1>1, <1>16, <1>19, OwnedMoves
<1>21. B \in Int /\ E \in Int /\ Staked(Players)' \in Int
  BY <1>8, <1>9, <1>10, <1>11, <1>15, SumIsInt DEF Staked
<1> HIDE DEF E, B
<1>22. MoneyTypes'
  <2>1. mailMoney' \in [Players -> Nat]
    BY <1>1, <1>4, <1>17, <1>18 DEF MoneyTypes
  <2>2. \A id \in Ids' : entry'[id].deposit \in Nat
    BY <1>5, <1>7, <1>8
  <2> QED
    BY <1>1, <1>4, <1>21, <2>1, <2>2 DEF MoneyTypes
<1>23. Balance' = Balance
  <2> DEFINE O == Owned(Players)  T == Staked(Players)'
  <2>1. O \in Int /\ T \in Int /\ till \in Int /\ B \in Int /\ E \in Int
    BY <1>1, <1>21, OwnedIsInt DEF MoneyTypes
  <2>2. Owned(Players)' = O + E /\ Staked(Players) = T + B /\ till' = till + B - E
    BY <1>4, <1>12, <1>13, <1>14, <1>20
  <2> HIDE DEF O, T
  <2>3. ((O + E) + T) + (till + B - E) = (O + (T + B)) + till
    BY <2>1
  <2> QED
    BY <2>2, <2>3 DEF Balance, O, T
<1> QED
  BY <1>22, <1>23

-----------------------------------------------------------------------------
LEMMA InitMoneyInv == Init => MoneyInv
<1> SUFFICES ASSUME Init PROVE MoneyInv
  OBVIOUS
<1>1. Ids = {} /\ purse = FirstMoney /\ mailMoney = [p \in Players |-> 0] /\ till = 0
  BY DEF Init, Ids
<1>2. MoneyTypes
  BY <1>1, FirstAssumption DEF MoneyTypes
<1>3. Staked(Players) = 0
  BY <1>1, SumNone DEF Staked
<1>4. \A p \in Players : Own[p] = FirstMoney[p] /\ Own[p] \in Int /\ FirstMoney[p] \in Int
  BY <1>1, FirstAssumption DEF Own
<1>5. Owned(Players) = SumFunctionOnSet(FirstMoney, Players)
  BY <1>4, NoneAssumption, SumSame DEF Owned
<1>6. Owned(Players) \in Int
  BY <1>2, OwnedIsInt
<1>7. Balance = SumFunctionOnSet(FirstMoney, Players)
  BY <1>1, <1>3, <1>5, <1>6 DEF Balance
<1> QED
  BY <1>2, <1>7, InitIInv DEF MoneyInv

LEMMA NextMoneyInv == MoneyInv /\ [Next]_vars => MoneyInv'
<1> SUFFICES ASSUME MoneyInv, [Next]_vars PROVE MoneyInv'
  OBVIOUS
<1>1. IInv' /\ Types' /\ Types /\ MoneyTypes
  <2>1. IInv'
    BY NextIInv DEF MoneyInv
  <2> QED
    BY <2>1 DEF IInv, MoneyInv
<1>2. ASSUME NEW p \in Players, NEW i \in Items, NEW offer \in Offers,
             SellItem(p, i, offer[1], offer[2])
      PROVE  MoneyTypes' /\ Balance' = Balance
  BY <1>2, SellItemMoney
<1>3. ASSUME NEW p \in Players, NEW id \in Ids, NEW price \in Prices,
             PlaceBid(p, id, price) \/ Buyout(p, id, price)
      PROVE  MoneyTypes' /\ Balance' = Balance
  BY <1>1, <1>3, PlaceBidMoney, BuyoutMoney
<1>4. ASSUME NEW p \in Players, NEW id \in Ids, RemoveItem(p, id)
      PROVE  MoneyTypes' /\ Balance' = Balance
  BY <1>1, <1>4, RemoveItemMoney
<1>5. ASSUME NEW p \in Players, TakeMail(p) PROVE MoneyTypes' /\ Balance' = Balance
  BY <1>5, TakeMailMoney
<1>6. ASSUME NEW p \in Players, Logout(p) \/ Login(p)
      PROVE  MoneyTypes' /\ Balance' = Balance
  <2>1. UNCHANGED moneyVars /\ entry' = entry
    BY <1>6 DEF Logout, Login
  <2> QED
    BY <1>1, <2>1, NoMoneyMoves DEF Ids
<1>7. ASSUME UpdatePendingAuctions PROVE MoneyTypes' /\ Balance' = Balance
  BY <1>7, UpdatePendingAuctionsMoney
<1>8. ASSUME Update PROVE MoneyTypes' /\ Balance' = Balance
  BY <1>8, UpdateMoney
<1>9. ASSUME NEW id \in Ids, RunsOut(id) PROVE MoneyTypes' /\ Balance' = Balance
  BY <1>9, RunsOutMoney
<1>10. ASSUME UNCHANGED vars PROVE MoneyTypes' /\ Balance' = Balance
  <2>1. UNCHANGED moneyVars /\ entry' = entry
    BY <1>10 DEF vars
  <2> QED
    BY <1>1, <2>1, NoMoneyMoves DEF Ids
<1>11. MoneyTypes' /\ Balance' = Balance
  BY <1>2, <1>3, <1>4, <1>5, <1>6, <1>7, <1>8, <1>9, <1>10 DEF Next
<1> QED
  BY <1>1, <1>11 DEF MoneyInv

LEMMA MoneyBalances == MoneyInv => MoneyConserved
BY WorthIs DEF MoneyInv, IInv, MoneyConserved, Balance

\* For any players, prices, cut and order of bids, refunds, cancellations, sales
\* and charges: the players' purses, their mail and their standing bids, with
\* what the house took, always come to the money there was at first, and a purse
\* or a letter never holds less than nothing (SendAuctionOutbiddedMail,
\* SendAuctionSuccessfulMail, SendAuctionCancelledToBidderMail, ModifyMoney).
THEOREM NoMoneyIsLost == Spec => []MoneyConserved
<1>1. Init => MoneyInv
  BY InitMoneyInv
<1>2. MoneyInv /\ [Next]_vars => MoneyInv'
  BY NextMoneyInv
<1>3. MoneyInv => MoneyConserved
  BY MoneyBalances
<1> QED
  BY <1>1, <1>2, <1>3, PTL DEF Spec

-----------------------------------------------------------------------------
(* What one player is worth.                                               *)

WorthOf(x) == Own[x] + Staked({x})

\* The player was charged for his auctions, or is sent an item.
GotSomething(x) ==
  \/ pending[x] # <<>> /\ pending'[x] = <<>>
  \/ \E i \in Items : mailed[i] # x /\ mailed'[i] = x

Fair(x) == WorthOf(x)' >= WorthOf(x) \/ GotSomething(x)

LEMMA PlayerWorth ==
  IInv /\ MoneyTypes => \A x \in Players : Worth({x}) = WorthOf(x) /\ WorthOf(x) \in Int
<1> SUFFICES ASSUME IInv, MoneyTypes, NEW x \in Players
             PROVE  Worth({x}) = WorthOf(x) /\ WorthOf(x) \in Int
  OBVIOUS
<1>1. Types
  BY DEF IInv
<1>2. Own[x] \in Int /\ \A y \in {x} : Own[y] = IF y = x THEN Own[x] ELSE 0
  BY OwnIs
<1>3. IsFiniteSet({x}) /\ x \in {x}
  BY FS_Singleton
<1>4. Owned({x}) = Own[x]
  BY <1>2, <1>3, SumSingle DEF Owned
<1> QED
  BY <1>1, <1>2, <1>4, WorthIs, StakesAreInt DEF WorthOf

\* A step that leaves the money and the bids alone is fair to everybody.
LEMMA FairIfSame ==
  ASSUME MoneyInv, NEW x \in Players, Own'[x] = Own[x], Staked({x})' = Staked({x})
  PROVE  Fair(x)
<1>1. WorthOf(x)' = WorthOf(x)
  BY DEF WorthOf
<1>2. WorthOf(x) \in Int
  BY PlayerWorth DEF MoneyInv
<1> QED
  BY <1>1, <1>2 DEF Fair

\* One auction changes: it is enough to compare with what x had staked on it.
LEMMA FairIfOne ==
  ASSUME MoneyInv, Types', NEW x \in Players, NEW id \in Ids, DOMAIN entry' = DOMAIN entry,
         \A other \in Ids \ {id} : entry'[other] = entry[other],
         Own'[x] \in Int, Stake({x})'[id] \in Int,
         Own'[x] - Own[x] + (Stake({x})'[id] - Stake({x})[id]) >= 0
  PROVE  Fair(x)
<1>1. Types /\ MoneyTypes
  BY DEF MoneyInv, IInv
<1>2. Staked({x})' = Staked({x}) + (Stake({x})'[id] - Stake({x})[id])
  BY <1>1, StakeChanged
<1>3. Staked({x}) \in Int /\ Stake({x})[id] \in Int /\ Own[x] \in Int
  BY <1>1, StakesAreInt, OwnIs
<1> DEFINE S == Staked({x})  s == Stake({x})[id]  t == Stake({x})'[id]
<1>4. /\ WorthOf(x)' = Own'[x] + (S + (t - s)) /\ WorthOf(x) = Own[x] + S
      /\ S \in Int /\ s \in Int /\ t \in Int /\ Own'[x] - Own[x] + (t - s) >= 0
  BY <1>2, <1>3 DEF WorthOf
<1> HIDE DEF S, s, t
<1>5. WorthOf(x)' >= WorthOf(x)
  BY <1>3, <1>4
<1> QED
  BY <1>5 DEF Fair

\* The item of an auction that ends is sent to x: it was in nobody's mail.
LEMMA SentItem ==
  ASSUME IInv, NEW x \in Players, NEW id \in Live, mailed'[entry[id].item] = x
  PROVE  GotSomething(x)
<1>1. entry[id].item \in Items
  <2>1. entry[id] \in Entry
    BY DEF IInv, Types, Live, Ids
  <2> QED
    BY <2>1 DEF Entry
<1>2. mailed[entry[id].item] = None
  <2>1. entry[id].item \in stored
    BY DEF IInv, Listed
  <2> QED
    BY <1>1, <2>1 DEF IInv, AtOnePlace
<1> QED
  BY <1>1, <1>2, NoneAssumption DEF GotSomething

LEMMA PlaceBidFair ==
  ASSUME MoneyInv, Types', NEW p \in Players, NEW id \in Ids, NEW price \in Prices,
         PlaceBid(p, id, price), NEW x \in Players
  PROVE  Fair(x)
<1> DEFINE e == entry[id]
           r == IF e.bidder = p THEN None ELSE e.bidder
           paid == Owed(e, p, price)
<1>1. Types /\ MoneyTypes
  BY DEF MoneyInv, IInv
<1>2. /\ e \in Entry /\ e.bidder \in Players \cup {None} /\ e.bid \in Nat /\ e.live = TRUE
      /\ price \in Nat /\ price > e.bid /\ purse[p] >= price
  BY <1>1, EntryIs, PriceAssumption DEF PlaceBid, MayBid, Live
<1>3. paid \in Nat /\ paid <= purse[p]
  BY <1>1, <1>2 DEF Owed, MoneyTypes
<1>4. /\ purse' = [purse EXCEPT ![p] = Reduced(@, paid)]
      /\ mailMoney' = [y \in Players |-> mailMoney[y] + Returned(e, p, price)[y]]
      /\ entry' = [entry EXCEPT ![id] = [e EXCEPT !.bidder = p, !.bid = price]]
  BY DEF PlaceBid
<1>5. Returned(e, p, price)[x] = IF x = r THEN e.bid ELSE 0
  BY NoneAssumption DEF Returned, Refund
<1>6. /\ DOMAIN entry' = DOMAIN entry /\ \A other \in Ids \ {id} : entry'[other] = entry[other]
      /\ entry'[id] = [e EXCEPT !.bidder = p, !.bid = price]
  BY <1>1, <1>4 DEF Ids, Types
<1>7. entry'[id].bidder = p /\ entry'[id].bid = price /\ entry'[id].live = TRUE
  BY <1>2, <1>6 DEF Entry
<1>8. /\ Stake({x})'[id] = IF x = p THEN price ELSE 0
      /\ Stake({x})[id] = IF x = e.bidder THEN e.bid ELSE 0
  BY <1>2, <1>6, <1>7 DEF Stake, Ids
<1>9. paid = IF e.bidder = p THEN price - e.bid ELSE price
  BY DEF Owed
<1> HIDE DEF paid
<1>10. Reduced(purse[p], paid) = purse[p] - paid
  BY <1>1, <1>3, ReducedIs DEF MoneyTypes
<1>11. /\ purse[x] \in Nat /\ mailMoney[x] \in Nat
       /\ purse'[x] = IF x = p THEN purse[x] - paid ELSE purse[x]
       /\ mailMoney'[x] = mailMoney[x] + IF x = r THEN e.bid ELSE 0
       /\ Own'[x] = purse'[x] + mailMoney'[x] /\ Own[x] = purse[x] + mailMoney[x]
  BY <1>1, <1>4, <1>5, <1>10 DEF MoneyTypes, Own
<1>12. /\ Own'[x] - Own[x] + (Stake({x})'[id] - Stake({x})[id]) >= 0
       /\ Own'[x] \in Int /\ Stake({x})'[id] \in Int
  <2> DEFINE b == e.bid  old == e.bidder
  <2>1. /\ b \in Nat /\ price \in Nat /\ paid = IF old = p THEN price - b ELSE price
        /\ mailMoney'[x] = mailMoney[x] + IF x = (IF old = p THEN None ELSE old) THEN b ELSE 0
        /\ Stake({x})[id] = IF x = old THEN b ELSE 0
    BY <1>2, <1>8, <1>9, <1>11
  <2> HIDE DEF e, r, b, old
  <2>2. CASE x = p
    BY <1>3, <1>8, <1>11, <2>1, <2>2, NoneAssumption
  <2>3. CASE x # p
    BY <1>8, <1>11, <2>1, <2>3, NoneAssumption
  <2> QED
    BY <2>2, <2>3
<1> HIDE DEF e, r
<1> QED
  BY <1>6, <1>12, FairIfOne

\* Whoever does not get the item gets his bid back.
LEMMA RemovedFair ==
  ASSUME MoneyInv, Types', NEW p \in Players, NEW id \in Live, RemoveAuction(id),
         mailed' = [mailed EXCEPT ![entry[id].item] = p], NEW x \in Players,
         x # p => Own'[x] \in Int /\ Own'[x] - Own[x] >=
                    IF x = entry[id].bidder THEN entry[id].bid ELSE 0
  PROVE  Fair(x)
<1>1. Types /\ MoneyTypes /\ IInv
  BY DEF MoneyInv, IInv
<1>2. CASE x = p
  <2>1. entry[id].item \in Items
    <3>1. entry[id] \in Entry
      BY <1>1 DEF Types, Live, Ids
    <3> QED
      BY <3>1 DEF Entry
  <2>2. mailed'[entry[id].item] = x
    BY <1>1, <1>2, <2>1 DEF Types
  <2> QED
    BY <1>1, <2>2, SentItem DEF Fair
<1>3. CASE x # p
  <2>1. /\ DOMAIN entry' = DOMAIN entry /\ id \in Ids
        /\ \A other \in Ids \ {id} : entry'[other] = entry[other]
        /\ Stake({x})'[id] = 0
        /\ Stake({x})[id] = IF entry[id].bidder \in {x} THEN entry[id].bid ELSE 0
    BY <1>1, RemovedStake DEF Live
  <2>2. Own[x] \in Int /\ entry[id].bid \in Nat
    BY <1>1, <2>1, OwnIs, EntryIs
  <2>3. Stake({x})[id] = IF x = entry[id].bidder THEN entry[id].bid ELSE 0
    BY <2>1
  <2>4. Own'[x] - Own[x] + (Stake({x})'[id] - Stake({x})[id]) >= 0
    BY <1>3, <2>1, <2>2, <2>3
  <2>5. Stake({x})'[id] \in Int
    BY <2>1
  <2> QED
    BY <1>3, <2>1, <2>4, <2>5, FairIfOne
<1> QED
  BY <1>2, <1>3

LEMMA RemoveItemFair ==
  ASSUME MoneyInv, Types', NEW p \in Players, NEW id \in Ids, RemoveItem(p, id),
         NEW x \in Players
  PROVE  Fair(x)
<1>1. Types /\ MoneyTypes
  BY DEF MoneyInv, IInv
<1>2. x # p => /\ purse'[x] = purse[x]
               /\ mailMoney'[x] = mailMoney[x] + IF x = entry[id].bidder THEN entry[id].bid ELSE 0
  BY <1>1 DEF RemoveItem, MoneyTypes
<1>3. purse[x] \in Nat /\ mailMoney[x] \in Nat /\ entry[id].bid \in Nat
  BY <1>1, EntryIs DEF MoneyTypes
<1>4. Own'[x] = purse'[x] + mailMoney'[x] /\ Own[x] = purse[x] + mailMoney[x]
  BY DEF Own
<1>5. x # p => Own'[x] \in Int /\ Own'[x] - Own[x] >=
                 IF x = entry[id].bidder THEN entry[id].bid ELSE 0
  BY <1>2, <1>3, <1>4
<1>6. id \in Live /\ RemoveAuction(id) /\ mailed' = [mailed EXCEPT ![entry[id].item] = p]
  BY DEF RemoveItem
<1> QED
  BY <1>5, <1>6, RemovedFair

LEMMA BuyoutFair ==
  ASSUME MoneyInv, Types', NEW p \in Players, NEW id \in Ids, NEW price \in Prices,
         Buyout(p, id, price), NEW x \in Players
  PROVE  Fair(x)
<1> DEFINE e == entry[id]
           sold == [e EXCEPT !.bidder = p, !.bid = e.buyout]
           gain == Profit(sold)
<1>1. Types /\ MoneyTypes
  BY DEF MoneyInv, IInv
<1>2. e \in Entry /\ e.bid \in Nat /\ e.buyout \in Nat /\ e.deposit \in Nat
  BY <1>1, EntryIs DEF MoneyTypes
<1>3. gain \in Nat
  <2>1. sold.bid \in Nat /\ sold.deposit \in Nat
    BY <1>2 DEF Entry
  <2> HIDE DEF sold
  <2> QED
    BY <2>1, ProfitIs
<1>4. x # p => Returned(e, p, e.buyout)[x] \in Nat
               /\ (e.bidder # p => Returned(e, p, e.buyout)[x] = IF x = e.bidder THEN e.bid ELSE 0)
               /\ (e.bidder = p => Returned(e, p, e.buyout)[x] = 0)
  BY <1>2 DEF Returned, Refund
<1>5. purse[x] \in Nat /\ mailMoney[x] \in Nat
  BY <1>1 DEF MoneyTypes
<1>6. x # p => /\ purse'[x] = purse[x]
               /\ mailMoney'[x] = mailMoney[x] + Returned(e, p, e.buyout)[x]
                                               + IF x = e.owner THEN gain ELSE 0
  BY <1>1 DEF Buyout, MoneyTypes
<1>7. Own'[x] = purse'[x] + mailMoney'[x] /\ Own[x] = purse[x] + mailMoney[x]
  BY DEF Own
<1> HIDE DEF gain
<1>8. x # p => Own'[x] \in Int /\ Own'[x] - Own[x] >= IF x = e.bidder THEN e.bid ELSE 0
  <2> SUFFICES ASSUME x # p
               PROVE  Own'[x] \in Int /\ Own'[x] - Own[x] >= IF x = e.bidder THEN e.bid ELSE 0
    OBVIOUS
  <2> DEFINE back == Returned(e, p, e.buyout)[x]
             more == IF x = e.owner THEN gain ELSE 0
  <2>1. more \in Nat /\ back = IF x = e.bidder THEN e.bid ELSE 0
    BY <1>3, <1>4
  <2>2. mailMoney'[x] = mailMoney[x] + back + more /\ back \in Nat
    BY <1>2, <1>6, <2>1
  <2> HIDE DEF more, back, e
  <2> QED
    BY <1>5, <1>6, <1>7, <2>1, <2>2
<1>9. id \in Live /\ RemoveAuction(id) /\ mailed' = [mailed EXCEPT ![entry[id].item] = p]
  BY DEF Buyout, MayBid
<1> QED
  BY <1>8, <1>9, RemovedFair

LEMMA UpdatePendingAuctionsFair ==
  ASSUME MoneyInv, UpdatePendingAuctions, NEW x \in Players
  PROVE  Fair(x)
<1> DEFINE Waiting == {p \in Players : pending[p] # <<>>}
           Charged == {p \in Waiting \cap online : Len(pending[p]) = counted[p]}
           Gone    == Waiting \ online
           at(id)  == {k \in DOMAIN pending[entry[id].owner] :
                         pending[entry[id].owner][k] = id}
<1>1. Types /\ MoneyTypes
  BY DEF MoneyInv, IInv
<1>2. PICK total \in [Charged -> 0 .. MaxAuctions * MaxDeposit] :
        /\ entry' = [id \in Ids |->
             IF at(id) = {} THEN entry[id]
             ELSE IF entry[id].owner \in Charged
             THEN [entry[id] EXCEPT !.deposit =
                     Share(total[entry[id].owner], Max(at(id)), Len(pending[entry[id].owner]))]
             ELSE IF entry[id].owner \in Gone THEN [entry[id] EXCEPT !.expired = TRUE]
             ELSE entry[id]]
        /\ purse' = [p \in Players |->
             IF p \in Charged THEN Reduced(purse[p], total[p]) ELSE purse[p]]
  BY DEF UpdatePendingAuctions
<1>3. /\ mailMoney' = mailMoney
      /\ pending' = [p \in Players |-> IF p \in Charged \cup Gone THEN <<>> ELSE pending[p]]
  BY DEF UpdatePendingAuctions
<1>4. CASE x \in Charged
  <2>1. pending[x] # <<>> /\ pending'[x] = <<>>
    BY <1>3, <1>4
  <2> QED
    BY <2>1 DEF Fair, GotSomething
<1>5. CASE x \notin Charged
  <2>1. \A id \in Ids : /\ entry'[id].live = entry[id].live
                        /\ entry'[id].bidder = entry[id].bidder /\ entry'[id].bid = entry[id].bid
    <3> SUFFICES ASSUME NEW id \in Ids
                 PROVE  /\ entry'[id].live = entry[id].live
                        /\ entry'[id].bidder = entry[id].bidder /\ entry'[id].bid = entry[id].bid
      OBVIOUS
    <3> DEFINE share == Share(total[entry[id].owner], Max(at(id)), Len(pending[entry[id].owner]))
    <3>1. \/ entry'[id] = entry[id]
          \/ entry'[id] = [entry[id] EXCEPT !.expired = TRUE]
          \/ entry'[id] = [entry[id] EXCEPT !.deposit = share]
      BY <1>2
    <3>2. entry[id] \in Entry
      BY <1>1 DEF Types, Ids
    <3> HIDE DEF share
    <3> QED
      BY <3>1, <3>2 DEF Entry
  <2>2. Ids' = Ids
    BY <1>2 DEF Ids
  <2>3. Staked({x})' = Staked({x})
    BY <1>1, <2>1, <2>2, StakeSame
  <2>4. purse'[x] = purse[x]
    BY <1>2, <1>5
  <2>5. Own'[x] = Own[x]
    BY <1>3, <2>4 DEF Own
  <2> QED
    BY <2>3, <2>5, FairIfSame
<1> QED
  BY <1>4, <1>5

\* A winner is sent his item; everybody else keeps his bids and may earn.
LEMMA UpdateFair ==
  ASSUME MoneyInv, Update, NEW x \in Players
  PROVE  Fair(x)
<1> DEFINE Ended  == {id \in Live : entry[id].expired}
           Sold   == {id \in Ended : entry[id].bidder # None}
           To(id) == IF id \in Sold THEN entry[id].bidder ELSE entry[id].owner
           Earned == [id \in Ids |-> Profit(entry[id])]
           mine   == {id \in Sold : entry[id].owner = x}
<1>1. Types /\ MoneyTypes /\ IInv
  BY DEF MoneyInv, IInv
<1>2. /\ mailMoney' = [p \in Players |->
           mailMoney[p] + SumFunctionOnSet(Earned, {id \in Sold : entry[id].owner = p})]
      /\ mailed' = [i \in Items |->
           IF \E id \in Ended : entry[id].item = i
           THEN To(CHOOSE id \in Ended : entry[id].item = i) ELSE mailed[i]]
      /\ entry' = [id \in Ids |-> IF id \in Ended
                                  THEN [entry[id] EXCEPT !.live = FALSE] ELSE entry[id]]
      /\ purse' = purse
  BY DEF Update
<1>3. CASE \E id \in Sold : entry[id].bidder = x
  <2>1. PICK id \in Sold : entry[id].bidder = x
    BY <1>3
  <2>2. id \in Live /\ entry[id].item \in Items
    <3>1. entry[id] \in Entry
      BY <1>1 DEF Types, Live, Ids
    <3> QED
      BY <3>1 DEF Entry
  <2> DEFINE i == entry[id].item
             other == CHOOSE y \in Ended : entry[y].item = i
  <2>3. other \in Ended /\ entry[other].item = i
    <3>1. \E y \in Ended : entry[y].item = i
      OBVIOUS
    <3> QED
      BY <3>1
  <2>4. other = id
    <3> HIDE DEF other
    <3> QED
      BY <1>1, <2>2, <2>3 DEF IInv, Listed
  <2>5. mailed'[i] = To(other)
    BY <1>2, <2>2, <2>3
  <2>6. mailed'[i] = x
    BY <2>1, <2>4, <2>5
  <2> QED
    BY <1>1, <2>2, <2>6, SentItem DEF Fair
<1>4. CASE \A id \in Sold : entry[id].bidder # x
  <2>1. \A id \in Ids : entry[id] \in Entry /\ entry[id].bid \in Nat /\ entry[id].deposit \in Nat
    BY <1>1, EntryIs DEF MoneyTypes
  <2>2. \A id \in Ids : /\ entry'[id].live = IF id \in Ended THEN FALSE ELSE entry[id].live
                        /\ entry'[id].bidder = entry[id].bidder /\ entry'[id].bid = entry[id].bid
    BY <1>2, <2>1 DEF Entry
  <2>3. Ids' = Ids
    BY <1>2 DEF Ids
  <2>4. \A id \in Ended : entry[id].bidder # x
    BY <1>4, NoneAssumption
  <2>5. \A id \in Ids : Stake({x})'[id] = Stake({x})[id]
    <3> HIDE DEF Ended
    <3> QED
      BY <2>2, <2>3, <2>4 DEF Stake
  <2>6. Stake({x})' = Stake({x})
    BY <2>3, <2>5 DEF Stake
  <2>7. Staked({x})' = Staked({x})
    BY <2>3, <2>6 DEF Staked
  <2>8. \A id \in Ids : Earned[id] \in Nat
    BY <2>1, ProfitIs
  <2>9. mine \in SUBSET Ids /\ IsFiniteSet(mine)
    BY <1>1, IdsFinite, FS_Subset DEF Live
  <2>10. SumFunctionOnSet(Earned, mine) \in Nat
    <3> HIDE DEF Earned, mine
    <3> QED
      BY <2>8, <2>9, SumIsNat
  <2>11. mailMoney'[x] = mailMoney[x] + SumFunctionOnSet(Earned, mine)
    BY <1>2
  <2> HIDE DEF Earned, mine
  <2>12. Own'[x] >= Own[x] /\ Own'[x] \in Int /\ Own[x] \in Int
    BY <1>1, <1>2, <2>10, <2>11 DEF MoneyTypes, Own
  <2>13. Staked({x}) \in Int
    BY <1>1, StakesAreInt
  <2>14. WorthOf(x)' >= WorthOf(x)
    BY <2>7, <2>12, <2>13 DEF WorthOf
  <2> QED
    BY <2>14 DEF Fair
<1> HIDE DEF Sold
<1> QED
  BY <1>3, <1>4

LEMMA NextFair ==
  ASSUME MoneyInv, Types', [Next]_vars, NEW x \in Players
  PROVE  Fair(x)
<1>1. Types /\ MoneyTypes
  BY DEF MoneyInv, IInv
<1>2. ASSUME NEW p \in Players, NEW i \in Items, NEW offer \in Offers,
             SellItem(p, i, offer[1], offer[2])
      PROVE  Fair(x)
  <2>1. Staked({x})' = Staked({x}) /\ UNCHANGED moneyVars
    BY <1>1, <1>2, NoneAssumption, SellItemStakes
  <2>2. Own'[x] = Own[x]
    BY <2>1 DEF Own, moneyVars
  <2> QED
    BY <2>1, <2>2, FairIfSame
<1>3. ASSUME NEW p \in Players, NEW id \in Ids, NEW price \in Prices,
             PlaceBid(p, id, price) \/ Buyout(p, id, price)
      PROVE  Fair(x)
  BY <1>3, PlaceBidFair, BuyoutFair
<1>4. ASSUME NEW p \in Players, NEW id \in Ids, RemoveItem(p, id) PROVE Fair(x)
  BY <1>4, RemoveItemFair
<1>5. ASSUME NEW p \in Players, TakeMail(p) PROVE Fair(x)
  <2>1. /\ purse' = [purse EXCEPT ![p] = @ + mailMoney[p]]
        /\ mailMoney' = [mailMoney EXCEPT ![p] = 0] /\ entry' = entry
    BY <1>5 DEF TakeMail
  <2>2. Own'[x] = Own[x]
    BY <1>1, <2>1 DEF MoneyTypes, Own
  <2>3. Staked({x})' = Staked({x})
    BY <1>1, <2>1, StakeSame DEF Ids
  <2> QED
    BY <2>2, <2>3, FairIfSame
<1>6. ASSUME UNCHANGED moneyVars, entry' = entry PROVE Fair(x)
  <2>1. Own'[x] = Own[x]
    BY <1>6 DEF Own, moneyVars
  <2>2. Staked({x})' = Staked({x})
    BY <1>1, <1>6, StakeSame DEF Ids
  <2> QED
    BY <2>1, <2>2, FairIfSame
<1>7. ASSUME NEW p \in Players, Logout(p) \/ Login(p) PROVE Fair(x)
  BY <1>6, <1>7 DEF Logout, Login
<1>8. CASE UpdatePendingAuctions
  BY <1>8, UpdatePendingAuctionsFair
<1>9. CASE Update
  BY <1>9, UpdateFair
<1>10. ASSUME NEW id \in Ids, RunsOut(id) PROVE Fair(x)
  <2>1. /\ entry' = [entry EXCEPT ![id] = [entry[id] EXCEPT !.expired = TRUE]]
        /\ UNCHANGED moneyVars
    BY <1>10 DEF RunsOut
  <2>2. entry[id] \in Entry
    BY <1>1 DEF Types, Ids
  <2>3. Ids' = Ids /\ \A y \in Ids : /\ entry'[y].live = entry[y].live
                                     /\ entry'[y].bidder = entry[y].bidder
                                     /\ entry'[y].bid = entry[y].bid
    BY <2>1, <2>2 DEF Entry, Ids
  <2>4. Staked({x})' = Staked({x})
    BY <1>1, <2>3, StakeSame
  <2>5. Own'[x] = Own[x]
    BY <2>1 DEF Own, moneyVars
  <2> QED
    BY <2>4, <2>5, FairIfSame
<1>11. CASE UNCHANGED vars
  BY <1>6, <1>11 DEF vars
<1> QED
  BY <1>2, <1>3, <1>4, <1>5, <1>7, <1>8, <1>9, <1>10, <1>11 DEF Next

\* For any players, prices and order of steps: nobody's worth (purse, mail and
\* standing bids) goes down in a step that neither charges him for the auctions
\* he listed nor sends him an item; a bid that does not win comes back in full.
THEOREM NobodyPaysForNothing == Spec => PaysForSomething
<1>1. Init => MoneyInv
  BY InitMoneyInv
<1>2. MoneyInv /\ [Next]_vars => MoneyInv'
  BY NextMoneyInv
<1> DEFINE Worths == \A x \in Players : Worth({x}) = WorthOf(x) /\ WorthOf(x) \in Int
           Paid   == \A p \in Players : Worth({p})' < Worth({p}) =>
                       \/ pending[p] # <<>> /\ pending'[p] = <<>>
                       \/ \E i \in Items : mailed[i] # p /\ mailed'[i] = p
<1>3. MoneyInv => Worths
  BY PlayerWorth DEF MoneyInv
<1>4. MoneyInv /\ MoneyInv' /\ Worths /\ Worths' /\ [Next]_vars => [Paid]_vars
  <2> SUFFICES ASSUME MoneyInv, MoneyInv', Worths, Worths', [Next]_vars PROVE Paid
    OBVIOUS
  <2> SUFFICES ASSUME NEW p \in Players, Worth({p})' < Worth({p})
               PROVE  GotSomething(p)
    BY DEF GotSomething
  <2>1. Types'
    BY DEF MoneyInv, IInv
  <2>2. Fair(p)
    BY <2>1, NextFair
  <2>3. WorthOf(p)' < WorthOf(p) /\ WorthOf(p)' \in Int /\ WorthOf(p) \in Int
    OBVIOUS
  <2> QED
    BY <2>2, <2>3 DEF Fair
<1> HIDE DEF Worths, Paid
<1>5. Spec => [][Paid]_vars
  BY <1>1, <1>2, <1>3, <1>4, PTL DEF Spec
<1> QED
  BY <1>5 DEF PaysForSomething, Paid
=============================================================================
