----------------------------- MODULE Trade_proofs -----------------------------
(***************************************************************************)
(* Proofs about Trade, for any number of players, items and slots: trades  *)
(* are mutual, an acceptance that stands is one of the present terms, and  *)
(* when both accept everything offered changes hands and nothing else.     *)
(* A step does one of three things to the trades: it leaves their terms    *)
(* alone, it edits the two sides of one trade and takes both acceptances   *)
(* back, or it closes one trade on both sides; Initiate opens one.         *)
(***************************************************************************)
EXTENDS Trade, FiniteSetTheorems, WellFoundedInduction, TLAPS

Trades == [Players -> TradeData \cup {None}]

Types ==
  /\ online \subseteq Players
  /\ trade \in Trades
  /\ DOMAIN owner = Items /\ DOMAIN count = Items

\* What a player offers is his, or gone: nobody else can change its count.
OffersOwn ==
  \A x \in Players, s \in Slots :
    Trading(x) /\ trade[x].items[s] # None => owner[trade[x].items[s]] \in {x, None}

\* A player offers no item twice.
NoTwice(items) ==
  \A s, r \in Slots : items[s] # None /\ items[s] = items[r] => s = r

Once == \A x \in Players : Trading(x) => NoTwice(trade[x].items)

IInv == Types /\ Mutual /\ OffersOwn /\ Once /\ Consent

\* The three effects of a step on the trades, t before and r after it.
SameTerms(t, r) ==
  /\ r \in Trades
  /\ \A x \in Players :
       /\ t[x] = None <=> r[x] = None
       /\ t[x] # None => /\ r[x].trader = t[x].trader /\ r[x].money = t[x].money
                         /\ r[x].spell = t[x].spell   /\ r[x].items = t[x].items

Edited(t, r, p, q) ==
  /\ r \in Trades
  /\ r[p] # None /\ r[p].trader = q /\ ~ r[p].accepted
  /\ r[q] # None /\ r[q].trader = p /\ ~ r[q].accepted
  /\ \A x \in Players \ {p, q} : r[x] = t[x]

ClosedOf(t, r, p, q) ==
  /\ r \in Trades
  /\ r[p] = None /\ r[q] = None
  /\ \A x \in Players \ {p, q} : r[x] = t[x]

\* p and q trade with each other in t.
Pair(t, p, q) ==
  /\ p \in Players /\ q \in Players /\ p # q
  /\ t[p] # None /\ t[p].trader = q
  /\ t[q] # None /\ t[q].trader = p

-----------------------------------------------------------------------------
LEMMA PairOfTrader ==
  ASSUME IInv, NEW p \in Players, Trading(p)
  PROVE  Pair(trade, p, trade[p].trader)
BY DEF IInv, Types, Mutual, Trading, Pair, Trades, TradeData

(* The functions of TradeData.                                             *)

LEMMA UnacceptBothEdits ==
  ASSUME NEW t \in Trades, NEW p, NEW q, Pair(t, p, q)
  PROVE  /\ Edited(t, UnacceptBoth(t, p), p, q)
         /\ UnacceptBoth(t, p)[p].items = t[p].items
         /\ UnacceptBoth(t, p)[q].items = t[q].items
BY NoTradeAssumption, ZenonT(40) DEF Pair, UnacceptBoth, Edited, Trades, TradeData

LEMMA SetSpellEdits ==
  ASSUME NEW t \in Trades, NEW p, NEW q, Pair(t, p, q), NEW spell \in BOOLEAN,
         t[p].spell # spell
  PROVE  /\ Edited(t, SetSpell(t, p, spell), p, q)
         /\ SetSpell(t, p, spell)[p].items = t[p].items
         /\ SetSpell(t, p, spell)[q].items = t[q].items
<1> DEFINE u == [t EXCEPT ![p].spell = spell]
<1>1. /\ u \in Trades /\ Pair(u, p, q)
      /\ u[p].items = t[p].items /\ u[q].items = t[q].items
      /\ \A x \in Players \ {p, q} : u[x] = t[x]
  BY NoTradeAssumption DEF Pair, Trades, TradeData
<1>2. SetSpell(t, p, spell) = UnacceptBoth(u, p)
  BY DEF SetSpell
<1> HIDE DEF u
<1>3. QED
  BY <1>1, <1>2, UnacceptBothEdits DEF Edited

\* SetSpell after both acceptances were taken back: nothing more happens to them.
LEMMA SetSpellKeepsEdited ==
  ASSUME NEW t, NEW r, NEW p, NEW q, Pair(t, p, q), Edited(t, r, p, q),
         NEW x \in {p, q}, NEW spell \in BOOLEAN
  PROVE  /\ Edited(t, SetSpell(r, x, spell), p, q)
         /\ SetSpell(r, x, spell)[p].items = r[p].items
         /\ SetSpell(r, x, spell)[q].items = r[q].items
<1>1. Pair(r, p, q) /\ Pair(r, q, p) /\ r \in Trades
  BY DEF Pair, Edited
<1>2. CASE r[x].spell = spell
  BY <1>2 DEF SetSpell
<1>3. CASE r[x].spell # spell
  <2>1. CASE x = p
    BY <1>1, <1>3, <2>1, SetSpellEdits DEF Edited
  <2>2. CASE x = q
    BY <1>1, <1>3, <2>2, SetSpellEdits DEF Edited
  <2>3. QED
    BY <2>1, <2>2
<1>4. QED
  BY <1>2, <1>3

LEMMA SetItemEdits ==
  ASSUME NEW t \in Trades, NEW p, NEW q, Pair(t, p, q), NEW slot \in Slots,
         NEW item \in Items \cup {None}, NEW update \in BOOLEAN,
         t[p].items[slot] # item \/ update
  PROVE  LET r == SetItem(t, p, slot, item, update) IN
         /\ Edited(t, r, p, q)
         /\ \A s \in Slots : r[p].items[s] = IF s = slot THEN item ELSE t[p].items[s]
         /\ r[q].items = t[q].items
<1> DEFINE no == FALSE
           u == [t EXCEPT ![p].items[slot] = item]
           changed == UnacceptBoth(u, p)
           cleared == IF slot = Nontraded THEN SetSpell(changed, changed[p].trader, no)
                      ELSE changed
<1>0. no \in BOOLEAN
  OBVIOUS
<1>1. /\ u \in Trades /\ Pair(u, p, q)
      /\ \A s \in Slots : u[p].items[s] = IF s = slot THEN item ELSE t[p].items[s]
      /\ u[q].items = t[q].items
      /\ \A x \in Players \ {p, q} : u[x] = t[x]
  BY NoTradeAssumption DEF Pair, Trades, TradeData
<1>2. /\ Edited(t, changed, p, q)
      /\ changed[p].items = u[p].items /\ changed[q].items = u[q].items
  <2> HIDE DEF u
  <2>1. QED
    BY <1>1, UnacceptBothEdits DEF Edited
<1>3. /\ Edited(t, cleared, p, q)
      /\ cleared[p].items = u[p].items /\ cleared[q].items = u[q].items
  <2>1. changed[p].trader = q
    BY <1>2 DEF Edited
  <2> HIDE DEF no, u, changed
  <2>2. CASE slot = Nontraded
    <3>1. cleared = SetSpell(changed, q, no)
      BY <2>1, <2>2
    <3>2. /\ Edited(t, SetSpell(changed, q, no), p, q)
          /\ SetSpell(changed, q, no)[p].items = changed[p].items
          /\ SetSpell(changed, q, no)[q].items = changed[q].items
      BY <1>0, <1>2, SetSpellKeepsEdited
    <3>3. QED
      BY <1>2, <3>1, <3>2
  <2>3. CASE slot # Nontraded
    BY <1>2, <2>3
  <2>4. QED
    BY <2>2, <2>3
<1>4. SetItem(t, p, slot, item, update) = SetSpell(cleared, p, no)
  BY DEF SetItem
<1> HIDE DEF no, u, cleared, changed
<1>5. /\ Edited(t, SetSpell(cleared, p, no), p, q)
      /\ SetSpell(cleared, p, no)[p].items = cleared[p].items
      /\ SetSpell(cleared, p, no)[q].items = cleared[q].items
  BY <1>0, <1>3, SetSpellKeepsEdited
<1> DEFINE r == SetSpell(cleared, p, no)
<1>6. /\ Edited(t, r, p, q)
      /\ \A s \in Slots : r[p].items[s] = IF s = slot THEN item ELSE t[p].items[s]
      /\ r[q].items = t[q].items
  <2>1. r[p].items = u[p].items /\ r[q].items = u[q].items
    BY <1>3, <1>5
  <2> HIDE DEF r
  <2>2. QED
    BY <1>1, <1>5, <2>1 DEF r
<1>7. QED
  BY <1>4, <1>6

LEMMA ClosedCloses ==
  ASSUME NEW t \in Trades, NEW p, NEW q, Pair(t, p, q)
  PROVE  ClosedOf(t, Closed(t, p), p, q)
BY DEF Closed, ClosedOf, Pair, Trades

-----------------------------------------------------------------------------
(* What each effect does to the invariant.                                 *)

\* The terms of x depend on the two sides of its trade and on the stacks in it.
LEMMA TermsKept ==
  ASSUME IInv, trade' \in Trades, NEW x \in Players, Trading(x),
         \A y \in {x, trade[x].trader} :
           /\ trade'[y] # None
           /\ trade'[y].trader = trade[y].trader /\ trade'[y].money = trade[y].money
           /\ trade'[y].spell = trade[y].spell   /\ trade'[y].items = trade[y].items
           /\ \A s \in Slots : trade[y].items[s] # None =>
                count'[trade[y].items[s]] = count[trade[y].items[s]]
  PROVE  Terms(x)' = Terms(x)
<1> DEFINE stacks(y) == [s \in Slots |-> LET i == trade[y].items[s] IN
                           IF i = None THEN <<None, 0>> ELSE <<i, count[i]>>]
           term(y) == [money |-> trade[y].money, spell |-> trade[y].spell, stacks |-> stacks(y)]
           S == {x, trade[x].trader}
<1>1. \A y \in S : stacks(y)' = stacks(y)
  OBVIOUS
<1>2. \A y \in S : term(y)' = term(y)
  BY <1>1
<1>3. S' = S
  OBVIOUS
<1>4. Terms(x) = [y \in S |-> term(y)] /\ Terms(x)' = [y \in S' |-> term(y)']
  BY DEF Terms
<1> HIDE DEF term, S
<1>5. QED
  BY <1>2, <1>3, <1>4

\* Who has his acceptance standing after a step remembers these terms, or what
\* he remembered before.
LEMMA Remembered ==
  ASSUME NEW P, Remember(P), NEW x \in Players, Trading(x)', trade'[x].accepted
  PROVE  seen'[x] = IF x \in P THEN Terms(x)' ELSE seen[x]
BY DEF Remember, Trading

LEMMA SameKept ==
  ASSUME IInv, SameTerms(trade, trade'), online' = online, count' = count,
         DOMAIN owner' = Items, \A i \in Items : owner'[i] \in {owner[i], None},
         NEW P, Remember(P),
         \A x \in Players : Trading(x)' /\ trade'[x].accepted => x \in P \/ trade[x].accepted
  PROVE  IInv'
<1>1. Types'
  BY DEF IInv, Types, SameTerms
<1>2. Mutual'
  BY DEF IInv, Types, Mutual, SameTerms, Trading, Trades, TradeData
<1>3. OffersOwn'
  <2>1. ASSUME NEW x \in Players, NEW s \in Slots, Trading(x)', trade'[x].items[s] # None
        PROVE  owner'[trade'[x].items[s]] \in {x, None}
    <3>1. trade[x] # None /\ trade[x] \in TradeData /\ trade'[x].items = trade[x].items
      BY <2>1 DEF IInv, Types, SameTerms, Trading, Trades
    <3>2. trade[x].items[s] \in Items
      BY <2>1, <3>1 DEF TradeData
    <3>3. owner[trade[x].items[s]] \in {x, None}
      BY <2>1, <3>1 DEF IInv, OffersOwn, Trading
    <3>4. QED
      BY <3>1, <3>2, <3>3
  <2>2. QED
    BY <2>1 DEF OffersOwn
<1>4. Consent'
  <2>1. ASSUME NEW x \in Players, Trading(x)', trade'[x].accepted
        PROVE  seen'[x] = Terms(x)'
    <3>1. Trading(x) /\ trade[x].trader \in Players /\ Trading(trade[x].trader)
      BY <2>1 DEF IInv, Types, Mutual, SameTerms, Trading, Trades, TradeData
    <3>2. Terms(x)' = Terms(x)
      BY <2>1, <3>1, TermsKept DEF SameTerms, Trading
    <3>3. CASE x \in P
      BY <2>1, <3>3, Remembered
    <3>4. CASE x \notin P
      BY <2>1, <3>1, <3>2, <3>4, Remembered DEF IInv, Consent
    <3>5. QED
      BY <3>3, <3>4
  <2>2. QED
    BY <2>1 DEF Consent
<1>5. Once'
  BY DEF IInv, Once, SameTerms, Trading
<1>6. QED
  BY <1>1, <1>2, <1>3, <1>4, <1>5 DEF IInv

LEMMA EditKept ==
  ASSUME IInv, NEW p, NEW q, Pair(trade, p, q), Edited(trade, trade', p, q),
         online' = online, owner' = owner, DOMAIN count' = Items,
         \A x \in Players \ {p, q}, s \in Slots : Trading(x) /\ trade[x].items[s] # None =>
           count'[trade[x].items[s]] = count[trade[x].items[s]],
         \A x \in {p, q}, s \in Slots :
           trade'[x].items[s] # None => owner[trade'[x].items[s]] \in {x, None},
         \A x \in {p, q} : NoTwice(trade'[x].items),
         NEW P, Remember(P)
  PROVE  IInv'
<1>1. Types'
  BY DEF IInv, Types, Edited
<1>2. Mutual'
  BY DEF IInv, Types, Mutual, Edited, Pair, Trading
<1>3. OffersOwn'
  BY DEF IInv, OffersOwn, Edited, Pair, Trading
<1>4. Consent'
  <2>1. ASSUME NEW x \in Players, Trading(x)', trade'[x].accepted
        PROVE  seen'[x] = Terms(x)'
    <3> DEFINE y == trade[x].trader
    <3>1. x \notin {p, q} /\ trade'[x] = trade[x] /\ Trading(x)
      BY <2>1 DEF Edited, Trading
    <3>2. y \in Players \ {p, q} /\ trade'[y] = trade[y] /\ Trading(y)
      BY <3>1 DEF IInv, Types, Mutual, Edited, Pair, Trading, Trades, TradeData
    <3>3. trade' \in Trades
      BY DEF Edited
    <3>4. Terms(x)' = Terms(x)
      BY <3>1, <3>2, <3>3, TermsKept, ZenonT(40) DEF Trading
    <3>5. seen[x] = Terms(x)
      BY <2>1, <3>1 DEF IInv, Consent
    <3>6. QED
      BY <2>1, <3>4, <3>5, Remembered
  <2>2. QED
    BY <2>1 DEF Consent
<1>5. Once'
  BY DEF IInv, Once, Edited, Trading
<1>6. QED
  BY <1>1, <1>2, <1>3, <1>4, <1>5 DEF IInv

LEMMA CloseKept ==
  ASSUME IInv, NEW p, NEW q, Pair(trade, p, q), ClosedOf(trade, trade', p, q),
         online' \in {online, online \ {p}}, count' = count, DOMAIN owner' = Items,
         \A x \in Players \ {p, q}, i \in Items :
           owner[i] \in {x, None} => owner'[i] \in {x, None},
         NEW P, Remember(P)
  PROVE  IInv'
<1>1. Types'
  BY DEF IInv, Types, ClosedOf
<1>2. ASSUME NEW x \in Players, Trading(x)'
      PROVE  /\ x \notin {p, q} /\ trade'[x] = trade[x] /\ Trading(x)
             /\ LET y == trade[x].trader IN
                y \in Players \ {p, q} /\ trade'[y] = trade[y] /\ Trading(y)
  BY <1>2 DEF IInv, Types, Mutual, ClosedOf, Pair, Trading, Trades, TradeData
<1>3. Mutual'
  BY <1>2 DEF IInv, Mutual, Trading, Types
<1>4. OffersOwn'
  <2>1. ASSUME NEW x \in Players, NEW s \in Slots, Trading(x)', trade'[x].items[s] # None
        PROVE  owner'[trade'[x].items[s]] \in {x, None}
    <3>1. trade[x] \in TradeData /\ trade'[x] = trade[x] /\ x \in Players \ {p, q} /\ Trading(x)
      BY <1>2, <2>1 DEF IInv, Types, Trading, Trades
    <3>2. trade[x].items[s] \in Items /\ owner[trade[x].items[s]] \in {x, None}
      BY <2>1, <3>1 DEF TradeData, IInv, OffersOwn
    <3>3. QED
      BY <3>1, <3>2
  <2>2. QED
    BY <2>1 DEF OffersOwn
<1>5. Consent'
  <2>1. ASSUME NEW x \in Players, Trading(x)', trade'[x].accepted
        PROVE  seen'[x] = Terms(x)'
    <3>1. trade' \in Trades
      BY DEF ClosedOf
    <3>2. Terms(x)' = Terms(x)
      BY <1>2, <2>1, <3>1, TermsKept DEF Trading
    <3>3. seen[x] = Terms(x)
      BY <1>2, <2>1 DEF IInv, Consent
    <3>4. QED
      BY <2>1, <3>2, <3>3, Remembered
  <2>2. QED
    BY <2>1 DEF Consent
<1>6. Once'
  BY <1>2 DEF IInv, Once
<1>7. QED
  BY <1>1, <1>3, <1>4, <1>5, <1>6 DEF IInv

LEMMA InitiateKeeps ==
  ASSUME IInv, NEW p \in Players, NEW q \in Players, Initiate(p, q)
  PROVE  IInv'
<1> DEFINE Empty(x) == [trader |-> x, accepted |-> FALSE, money |-> 0,
                        spell |-> FALSE, items |-> [s \in Slots |-> None]]
<1>1. /\ p \in online /\ q \in online /\ p # q /\ ~ Trading(p) /\ ~ Trading(q)
      /\ trade' = [trade EXCEPT ![p] = Empty(q), ![q] = Empty(p)]
      /\ online' = online /\ owner' = owner /\ count' = count /\ Remember({})
  BY DEF Initiate, goods
<1>2. Empty(p) \in TradeData /\ Empty(q) \in TradeData
  BY MoneyAssumption DEF TradeData
<1>3. /\ trade' \in Trades
      /\ trade'[p] = Empty(q) /\ trade'[q] = Empty(p)
      /\ \A x \in Players \ {p, q} : trade'[x] = trade[x]
  <2> HIDE DEF Empty
  <2>1. QED
    BY <1>1, <1>2 DEF IInv, Types, Trades
<1>4. Types'
  BY <1>1, <1>3 DEF IInv, Types
<1>5. ASSUME NEW x \in Players, Trading(x)', x \notin {p, q}
      PROVE  /\ trade'[x] = trade[x] /\ Trading(x)
             /\ LET y == trade[x].trader IN
                y \in Players \ {p, q} /\ trade'[y] = trade[y] /\ Trading(y)
  BY <1>1, <1>3, <1>5 DEF IInv, Types, Mutual, Trading, Trades, TradeData
<1>6. /\ Trading(p)' /\ Trading(q)'
      /\ trade'[p].trader = q /\ trade'[q].trader = p
      /\ ~ trade'[p].accepted /\ ~ trade'[q].accepted
      /\ \A s \in Slots : trade'[p].items[s] = None /\ trade'[q].items[s] = None
  <2>1. \A x : /\ Empty(x).trader = x /\ ~ Empty(x).accepted
               /\ \A s \in Slots : Empty(x).items[s] = None
    OBVIOUS
  <2> HIDE DEF Empty
  <2>2. QED
    BY <1>2, <1>3, <2>1, NoTradeAssumption DEF Trading
<1> HIDE DEF Empty
<1>7. Mutual'
  <2>1. ASSUME NEW x \in Players, Trading(x)'
        PROVE  /\ x # trade'[x].trader /\ {x, trade'[x].trader} \subseteq online'
               /\ trade'[trade'[x].trader] # None /\ trade'[trade'[x].trader].trader = x
    <3>1. CASE x \in {p, q}
      BY <1>1, <1>6, <3>1 DEF Trading
    <3>2. CASE x \notin {p, q}
      <4>1. x # trade[x].trader /\ {x, trade[x].trader} \subseteq online
            /\ trade[trade[x].trader].trader = x
        BY <1>5, <2>1, <3>2 DEF IInv, Mutual
      <4>2. QED
        BY <1>1, <1>5, <2>1, <3>2, <4>1 DEF Trading
    <3>3. QED
      BY <3>1, <3>2
  <2>2. QED
    BY <2>1 DEF Mutual, Trading
<1>8. OffersOwn'
  <2>1. ASSUME NEW x \in Players, NEW s \in Slots, Trading(x)', trade'[x].items[s] # None
        PROVE  owner'[trade'[x].items[s]] \in {x, None}
    <3>1. x \notin {p, q}
      BY <1>6, <2>1
    <3>2. QED
      BY <1>1, <1>5, <2>1, <3>1 DEF IInv, OffersOwn
  <2>2. QED
    BY <2>1 DEF OffersOwn
<1>9. Consent'
  <2>1. ASSUME NEW x \in Players, Trading(x)', trade'[x].accepted
        PROVE  seen'[x] = Terms(x)'
    <3>1. x \notin {p, q}
      BY <1>6, <2>1
    <3>2. Terms(x)' = Terms(x)
      BY <1>1, <1>3, <1>5, <2>1, <3>1, TermsKept, ZenonT(40) DEF Trading
    <3>3. seen[x] = Terms(x)
      BY <1>5, <2>1, <3>1 DEF IInv, Consent
    <3>4. QED
      BY <1>1, <2>1, <3>2, <3>3, Remembered
  <2>2. QED
    BY <2>1 DEF Consent
<1>10. Once'
  BY <1>5, <1>6 DEF IInv, Once, NoTwice
<1>11. QED
  BY <1>4, <1>7, <1>8, <1>9, <1>10 DEF IInv

-----------------------------------------------------------------------------
(* The opcodes, one by one.                                                *)

\* A step that leaves everything alone the invariant speaks of.
LEMMA NothingKeeps ==
  ASSUME IInv, trade' = trade, online' = online, count' = count, owner' = owner, seen' = seen
  PROVE  IInv'
<1>1. \A x \in Players : Trading(x) => Terms(x)' = Terms(x)
  BY DEF Terms
<1>2. QED
  BY <1>1 DEF IInv, Types, Mutual, OffersOwn, Once, Consent, Trading

\* Edits of the own side through SetItem, when it does anything.
LEMMA SetItemKeeps ==
  ASSUME IInv, NEW p \in Players, Trading(p), NEW slot \in Slots,
         NEW item \in Items \cup {None}, NEW update \in BOOLEAN,
         trade[p].items[slot] # item \/ update,
         item # None => owner[item] = p /\ \A s \in Slots \ {slot} : trade[p].items[s] # item,
         trade' = SetItem(trade, p, slot, item, update),
         online' = online, owner' = owner, DOMAIN count' = Items,
         \A j \in Items : owner[j] \notin {p} => count'[j] = count[j],
         Remember({})
  PROVE  IInv'
<1> DEFINE q == trade[p].trader
<1>1. Pair(trade, p, q) /\ trade \in Trades
  BY PairOfTrader DEF IInv, Types
<1>2. /\ Edited(trade, trade', p, q)
      /\ \A s \in Slots : trade'[p].items[s] = IF s = slot THEN item ELSE trade[p].items[s]
      /\ trade'[q].items = trade[q].items
  <2> HIDE DEF q
  <2>1. QED
    BY <1>1, SetItemEdits
<1>3. \A x \in {p, q}, s \in Slots :
        trade'[x].items[s] # None => owner[trade'[x].items[s]] \in {x, None}
  BY <1>1, <1>2 DEF IInv, OffersOwn, Pair, Trading
<1>4. ASSUME NEW x \in Players \ {p, q}, NEW s \in Slots, Trading(x), trade[x].items[s] # None
      PROVE  count'[trade[x].items[s]] = count[trade[x].items[s]]
  <2>1. trade[x].items[s] \in Items
    BY <1>1, <1>4 DEF Trading, Trades, TradeData
  <2>2. owner[trade[x].items[s]] \in {x, None}
    BY <1>4 DEF IInv, OffersOwn
  <2>3. p # None
    BY NoneAssumption
  <2>4. QED
    BY <2>1, <2>2, <2>3
<1>5. \A x \in {p, q} : NoTwice(trade'[x].items)
  <2>1. NoTwice(trade[p].items) /\ NoTwice(trade[q].items)
    BY <1>1 DEF IInv, Once, Pair, Trading
  <2> QED
    BY <1>2, <2>1 DEF NoTwice
<1> HIDE DEF q
<1>6. QED
  BY <1>1, <1>2, <1>3, <1>4, <1>5, EditKept

LEMMA SetTradeItemKeeps ==
  ASSUME IInv, NEW p \in Players, NEW slot \in Slots, NEW i \in Items, SetTradeItem(p, slot, i)
  PROVE  IInv'
<1> DEFINE no == FALSE
<1>1. /\ Trading(p) /\ owner[i] = p /\ \A s \in Slots : trade[p].items[s] # i
      /\ trade' = SetItem(trade, p, slot, i, no) /\ no \in BOOLEAN
      /\ online' = online /\ owner' = owner /\ count' = count /\ Remember({})
  BY DEF SetTradeItem, HasItem, goods
<1> HIDE DEF no
<1>2. DOMAIN count' = Items
  BY <1>1 DEF IInv, Types
<1>3. QED
  BY <1>1, <1>2, SetItemKeeps

LEMMA ClearTradeItemKeeps ==
  ASSUME IInv, NEW p \in Players, NEW slot \in Slots, ClearTradeItem(p, slot)
  PROVE  IInv'
<1> DEFINE no == FALSE
<1>1. /\ Trading(p) /\ trade[p].items[slot] # None
      /\ trade' = SetItem(trade, p, slot, None, no) /\ no \in BOOLEAN
      /\ online' = online /\ owner' = owner /\ count' = count /\ Remember({})
  BY DEF ClearTradeItem, goods
<1> HIDE DEF no
<1>2. DOMAIN count' = Items
  BY <1>1 DEF IInv, Types
<1>3. QED
  BY <1>1, <1>2, SetItemKeeps

LEMMA SetCountKeeps ==
  ASSUME IInv, NEW i \in Items, NEW n, SetCount(i, n)
  PROVE  IInv'
<1> DEFINE p == owner[i]
           yes == TRUE
           holds == Trading(p) /\ HasItem(p, i)
<1>1. /\ p \in Players /\ count' = [count EXCEPT ![i] = n] /\ DOMAIN count' = Items
      /\ online' = online /\ owner' = owner /\ Remember({})
  BY DEF SetCount, IInv, Types
<1>2. CASE holds
  <2> DEFINE slot == CHOOSE s \in Slots : trade[p].items[s] = i
  <2>1. trade' = SetItem(trade, p, slot, i, yes) /\ yes \in BOOLEAN
    BY <1>2 DEF SetCount
  <2>2. slot \in Slots /\ Trading(p)
    BY <1>2 DEF HasItem
  <2>3. \A j \in Items : owner[j] \notin {p} => count'[j] = count[j]
    BY <1>1 DEF IInv, Types
  <2>4. trade[p].items[slot] # i \/ yes
    OBVIOUS
  <2>5. \A s \in Slots \ {slot} : trade[p].items[s] # i
    <3>1. trade[p].items[slot] = i
      BY <1>2 DEF HasItem
    <3>2. i # None
      BY NoneAssumption
    <3> HIDE DEF slot, p
    <3> QED
      BY <1>1, <2>2, <3>1, <3>2 DEF IInv, Once, NoTwice
  <2> HIDE DEF slot, p, yes
  <2>6. owner[i] = p
    BY DEF p
  <2>7. QED
    BY <1>1, <2>1, <2>2, <2>3, <2>4, <2>5, <2>6, SetItemKeeps
<1>3. CASE ~ holds
  <2>1. trade' = trade
    BY <1>3 DEF SetCount
  <2>2. ASSUME NEW x \in Players, NEW s \in Slots, Trading(x), trade[x].items[s] # None
        PROVE  count'[trade[x].items[s]] = count[trade[x].items[s]]
    <3>1. trade[x].items[s] \in Items
      BY <2>2 DEF IInv, Types, Trading, Trades, TradeData
    <3>2. trade[x].items[s] # i
      <4>1. SUFFICES ASSUME trade[x].items[s] = i PROVE FALSE
        OBVIOUS
      <4>2. x = p
        BY <1>1, <2>2, <4>1, NoneAssumption DEF IInv, OffersOwn
      <4>3. QED
        BY <1>3, <2>2, <4>1, <4>2 DEF HasItem
    <3>3. QED
      BY <1>1, <3>1, <3>2 DEF IInv, Types
  <2>3. Types' /\ Mutual' /\ OffersOwn'
    BY <1>1, <2>1 DEF IInv, Types, Mutual, OffersOwn, Trading
  <2>4. Consent'
    <3>1. ASSUME NEW x \in Players, Trading(x)', trade'[x].accepted
          PROVE  seen'[x] = Terms(x)'
      <4>1. Trading(x) /\ trade[x].trader \in Players /\ Trading(trade[x].trader)
        BY <2>1, <3>1 DEF IInv, Types, Mutual, Trading, Trades, TradeData
      <4>2. Terms(x)' = Terms(x)
        BY <2>1, <2>2, <4>1, TermsKept DEF IInv, Types, Trading
      <4>3. QED
        BY <1>1, <2>1, <3>1, <4>1, <4>2, Remembered DEF IInv, Consent
    <3>2. QED
      BY <3>1 DEF Consent
  <2>5. Once'
    BY <2>1 DEF IInv, Once, Trading
  <2>6. QED
    BY <2>3, <2>4, <2>5 DEF IInv
<1>4. QED
  BY <1>2, <1>3

\* An edit that leaves what is offered alone.
LEMMA PlainEditKept ==
  ASSUME IInv, NEW p, NEW q, Pair(trade, p, q), Edited(trade, trade', p, q),
         \A x \in {p, q} : trade'[x].items = trade[x].items,
         online' = online, owner' = owner, count' = count, NEW P, Remember(P)
  PROVE  IInv'
<1>1. DOMAIN count' = Items
  BY DEF IInv, Types
<1>2. \A x \in {p, q}, s \in Slots :
        trade'[x].items[s] # None => owner[trade'[x].items[s]] \in {x, None}
  BY DEF IInv, OffersOwn, Pair, Trading
<1>3. \A x \in {p, q} : NoTwice(trade'[x].items)
  BY DEF IInv, Once, Pair, Trading
<1>4. QED
  BY <1>1, <1>2, <1>3, EditKept

LEMMA SetTradeGoldKeeps ==
  ASSUME IInv, NEW p \in Players, NEW gold \in 0 .. MaxMoney, SetTradeGold(p, gold)
  PROVE  IInv'
<1> DEFINE q == trade[p].trader
           u == [trade EXCEPT ![p].money = gold]
<1>1. Pair(trade, p, q) /\ trade \in Trades
  BY PairOfTrader DEF SetTradeGold, IInv, Types
<1>2. /\ u \in Trades /\ Pair(u, p, q)
      /\ u[p].items = trade[p].items /\ u[q].items = trade[q].items
      /\ \A x \in Players \ {p, q} : u[x] = trade[x]
  <2> HIDE DEF q
  <2>1. QED
    BY <1>1, NoTradeAssumption DEF Pair, Trades, TradeData
<1>3. /\ trade' = UnacceptBoth(u, p) /\ Remember({})
      /\ online' = online /\ owner' = owner /\ count' = count
  BY DEF SetTradeGold, goods
<1> HIDE DEF u, q
<1>4. /\ Edited(trade, trade', p, q)
      /\ \A x \in {p, q} : trade'[x].items = trade[x].items
  BY <1>2, <1>3, UnacceptBothEdits DEF Edited
<1>5. QED
  BY <1>1, <1>3, <1>4, PlainEditKept

LEMMA SetSpellKeeps ==
  ASSUME IInv, NEW t \in Trades, SameTerms(trade, t), NEW p \in Players, Trading(p),
         NEW spell \in BOOLEAN, trade[p].spell # spell, trade' = SetSpell(t, p, spell),
         \A x \in Players \ {p, trade[p].trader} : t[x] = trade[x],
         online' = online, owner' = owner, count' = count, NEW P, Remember(P)
  PROVE  IInv'
<1> DEFINE q == trade[p].trader
<1>1. Pair(trade, p, q) /\ Pair(t, p, q) /\ t[p].spell # spell
      /\ \A x \in {p, q} : t[x].items = trade[x].items
  BY PairOfTrader DEF SameTerms, Pair, Trading
<1> HIDE DEF q
<1>2. /\ Edited(t, trade', p, q)
      /\ trade'[p].items = t[p].items /\ trade'[q].items = t[q].items
  BY <1>1, SetSpellEdits
<1>3. Edited(trade, trade', p, q) /\ \A x \in {p, q} : trade'[x].items = trade[x].items
  BY <1>1, <1>2 DEF Edited, q
<1>4. QED
  BY <1>1, <1>3, PlainEditKept

LEMMA OfferSpellKeeps ==
  ASSUME IInv, NEW p \in Players, OfferSpell(p)
  PROVE  IInv'
<1> DEFINE yes == TRUE
<1>1. /\ Trading(p) /\ trade[p].spell # yes /\ yes \in BOOLEAN
      /\ trade' = SetSpell(trade, p, yes) /\ Remember({})
      /\ online' = online /\ owner' = owner /\ count' = count
  BY DEF OfferSpell, goods
<1> HIDE DEF yes
<1>2. trade \in Trades /\ SameTerms(trade, trade)
  BY DEF IInv, Types, SameTerms
<1>3. QED
  BY <1>1, <1>2, SetSpellKeeps

LEMMA UnacceptKeeps ==
  ASSUME IInv, NEW p \in Players, Unaccept(p)
  PROVE  IInv'
<1>1. SameTerms(trade, trade')
  BY NoTradeAssumption, ZenonT(40) DEF Unaccept, IInv, Types, SameTerms, Trading, Trades, TradeData
<1>2. \A x \in Players : Trading(x)' /\ trade'[x].accepted => trade[x].accepted
  BY DEF Unaccept, IInv, Types, Trading, Trades, TradeData
<1>3. online' = online /\ owner' = owner /\ count' = count /\ Remember({})
  BY DEF Unaccept, goods
<1>4. QED
  BY <1>1, <1>2, <1>3, SameKept DEF IInv, Types

LEMMA TradeCancelKeeps ==
  ASSUME IInv, NEW p \in Players, TradeCancel(p)
  PROVE  IInv'
<1>1. Pair(trade, p, trade[p].trader) /\ trade \in Trades
  BY PairOfTrader DEF TradeCancel, IInv, Types
<1>2. ClosedOf(trade, trade', p, trade[p].trader)
  BY <1>1, ClosedCloses DEF TradeCancel
<1>3. online' = online /\ owner' = owner /\ count' = count /\ Remember({})
  BY DEF TradeCancel, goods
<1>4. QED
  BY <1>1, <1>2, <1>3, CloseKept DEF IInv, Types

LEMMA LogoutKeeps ==
  ASSUME IInv, NEW p \in Players, Logout(p)
  PROVE  IInv'
<1>1. online' = online \ {p} /\ owner' = owner /\ count' = count /\ Remember({})
  BY DEF Logout, goods
<1>2. CASE Trading(p)
  <2>1. Pair(trade, p, trade[p].trader) /\ trade \in Trades
    BY <1>2, PairOfTrader DEF IInv, Types
  <2>2. ClosedOf(trade, trade', p, trade[p].trader)
    BY <1>2, <2>1, ClosedCloses DEF Logout
  <2>3. QED
    BY <1>1, <2>1, <2>2, CloseKept DEF IInv, Types
<1>3. CASE ~ Trading(p)
  <2>1. trade' = trade
    BY <1>3 DEF Logout
  <2>2. Types' /\ OffersOwn'
    BY <1>1, <2>1 DEF IInv, Types, OffersOwn, Trading
  <2>3. Mutual'
    BY <1>1, <1>3, <2>1 DEF IInv, Mutual, Trading
  <2>4. Consent'
    <3>1. ASSUME NEW x \in Players, Trading(x)', trade'[x].accepted
          PROVE  seen'[x] = Terms(x)'
      <4>1. Trading(x) /\ Terms(x)' = Terms(x)
        BY <1>1, <2>1, <3>1 DEF Terms, Trading
      <4>2. QED
        BY <1>1, <2>1, <3>1, <4>1, Remembered DEF IInv, Consent
    <3>2. QED
      BY <3>1 DEF Consent
  <2>5. Once'
    BY <2>1 DEF IInv, Once, Trading
  <2>6. QED
    BY <2>2, <2>3, <2>4, <2>5 DEF IInv
<1>4. QED
  BY <1>2, <1>3

LEMMA LoginKeeps ==
  ASSUME IInv, NEW p \in Players, Login(p)
  PROVE  IInv'
<1>1. /\ online' = online \cup {p} /\ trade' = trade /\ owner' = owner /\ count' = count
      /\ seen' = seen
  BY DEF Login, goods
<1>2. \A x \in Players : Trading(x) => Terms(x)' = Terms(x)
  BY <1>1 DEF Terms
<1>3. QED
  BY <1>1, <1>2 DEF IInv, Types, Mutual, OffersOwn, Once, Consent, Trading

LEMMA DestroyItemKeeps ==
  ASSUME IInv, NEW i \in Items, DestroyItem(i)
  PROVE  IInv'
<1>1. /\ trade' = trade /\ online' = online /\ count' = count /\ seen' = seen
      /\ owner' = [owner EXCEPT ![i] = None] /\ DOMAIN owner' = Items
  BY DEF DestroyItem, IInv, Types
<1>2. \A x \in Players : Trading(x) => Terms(x)' = Terms(x)
  BY <1>1 DEF Terms
<1>3. OffersOwn'
  <2>1. ASSUME NEW x \in Players, NEW s \in Slots, Trading(x), trade[x].items[s] # None
        PROVE  owner'[trade[x].items[s]] \in {x, None}
    <3>1. trade[x].items[s] \in Items
      BY <2>1 DEF IInv, Types, Trading, Trades, TradeData
    <3>2. QED
      BY <1>1, <2>1, <3>1 DEF IInv, Types, OffersOwn
  <2>2. QED
    BY <1>1, <2>1 DEF OffersOwn, Trading
<1>4. QED
  BY <1>1, <1>2, <1>3 DEF IInv, Types, Mutual, Once, Consent, Trading

\* Carrying the trade out moves nothing but what the two players offer.
LEMMA ExecuteKeeps ==
  ASSUME IInv, NEW p, NEW q, Pair(trade, p, q), Execute(p, q),
         online' = online, count' = count, Remember({p})
  PROVE  IInv'
<1> DEFINE offered == Offered(p) \cup Offered(q)
<1>1. DOMAIN owner' = Items /\ \A i \in Items \ offered : owner'[i] = owner[i]
  BY DEF Execute
<1>2. \A i \in offered : owner[i] \in {p, q}
  BY DEF Offered, GetItem
<1>3. ClosedOf(trade, trade', p, q)
  BY ClosedCloses DEF Execute, IInv, Types
<1> HIDE DEF offered
<1>4. p # None /\ q # None
  BY NoneAssumption DEF Pair
<1>5. ASSUME NEW x \in Players \ {p, q}, NEW i \in Items, owner[i] \in {x, None}
      PROVE  owner'[i] \in {x, None}
  BY <1>1, <1>2, <1>4, <1>5
<1>6. QED
  BY <1>1, <1>3, <1>5, CloseKept

LEMMA AcceptKeeps ==
  ASSUME IInv, NEW p \in Players, NEW near \in BOOLEAN, NEW unable \in SUBSET Players,
         Accept(p, near, unable)
  PROVE  IInv'
<1> DEFINE q == trade[p].trader
           t == [trade EXCEPT ![p].accepted = TRUE]
           refusal == MoneyRefusal(p, q)
           Stuck == {x \in {p, q} : /\ trade[x].spell
                                    /\ \/ GetItem(trade[x].trader, Nontraded) = None
                                       \/ x \in unable}
<1>1. Trading(p) /\ online' = online /\ count' = count /\ Remember({p})
  BY DEF Accept
<1>2. Pair(trade, p, q) /\ trade \in Trades
  BY <1>1, PairOfTrader DEF IInv, Types
<1>3. /\ t \in Trades /\ SameTerms(trade, t) /\ Pair(t, p, q)
      /\ \A x \in Players \ {p} : t[x] = trade[x]
  <2> HIDE DEF q
  <2>1. QED
    BY <1>2, NoTradeAssumption DEF Pair, SameTerms, Trades, TradeData
\* The trade stays open on the same terms, and only p may have accepted.
<1>4. ASSUME SameTerms(trade, trade'), owner' = owner,
             \A x \in Players \ {p} : Trading(x)' /\ trade'[x].accepted => trade[x].accepted
      PROVE  IInv'
  BY <1>1, <1>4, SameKept DEF IInv, Types
<1>5. CASE ~ near
  <2>1. trade' = [t EXCEPT ![p].accepted = FALSE] /\ owner' = owner
    BY <1>5 DEF Accept, StaysOpen
  <2>2. SameTerms(trade, trade') /\ \A x \in Players \ {p} : trade'[x] = trade[x]
    <3> HIDE DEF t, q
    <3>1. /\ DOMAIN t = Players /\ t[p] \in TradeData
          /\ \A x \in Players : t[x] \in TradeData \cup {None}
      BY <1>3 DEF Pair, Trades
    <3>2. /\ DOMAIN trade' = Players /\ trade'[p] = [t[p] EXCEPT !.accepted = FALSE]
          /\ \A x \in Players \ {p} : trade'[x] = t[x]
          /\ trade' = [x \in Players |-> trade'[x]]
      BY <2>1, <3>1
    <3>3. /\ trade'[p] \in TradeData /\ trade'[p] # None
          /\ trade'[p].trader = t[p].trader /\ trade'[p].money = t[p].money
          /\ trade'[p].spell = t[p].spell   /\ trade'[p].items = t[p].items
      BY <3>1, <3>2, NoTradeAssumption DEF TradeData
    <3>4. trade' \in Trades
      BY <3>1, <3>2, <3>3 DEF Trades
    <3>5. \A x \in Players \ {p} : trade'[x] = trade[x]
      BY <1>3, <3>2
    <3>6. p \in Players /\ t[p] # None
      BY <1>3 DEF Pair
    <3>7. SameTerms(trade, trade')
      BY <1>3, <3>3, <3>4, <3>5, <3>6 DEF SameTerms
    <3>8. QED
      BY <3>5, <3>7
  <2>3. QED
    BY <1>4, <2>1, <2>2 DEF Trading
<1>6. CASE near /\ refusal # {}
  <2>1. /\ trade' = [x \in Players |-> IF x \in refusal
                        THEN [t[x] EXCEPT !.accepted = FALSE] ELSE t[x]]
        /\ owner' = owner
    BY <1>6 DEF Accept, StaysOpen
  <2>2. refusal \subseteq {p, q}
    BY DEF MoneyRefusal
  <2>3. \A x \in Players : t[x] # None =>
          LET r == [t[x] EXCEPT !.accepted = FALSE] IN
          /\ r \in TradeData /\ r # None /\ ~ r.accepted
          /\ r.trader = t[x].trader /\ r.money = t[x].money
          /\ r.spell = t[x].spell /\ r.items = t[x].items
    <3> HIDE DEF t, q
    <3>1. QED
      BY <1>3, NoTradeAssumption DEF Trades, TradeData
  <2>4. \A x \in refusal : x \in Players /\ t[x] # None
    BY <1>3, <2>2 DEF Pair
  <2> HIDE DEF t, q, refusal
  <2>5. trade' \in Trades
    BY <1>3, <2>1, <2>3, <2>4 DEF Trades
  <2>6. SameTerms(trade, trade')
    BY <1>3, <2>1, <2>3, <2>4, <2>5 DEF SameTerms
  <2>7. \A x \in Players \ {p} : Trading(x)' /\ trade'[x].accepted => trade[x].accepted
    BY <1>3, <2>1, <2>3, <2>4
  <2>8. QED
    BY <1>4, <2>1, <2>6, <2>7
<1>7. CASE /\ near /\ refusal = {}
           /\ (Offered(p) \cup Offered(q)) \cap bound # {} \/ ~ trade[q].accepted
  <2>1. trade' = t /\ owner' = owner
    BY <1>7 DEF Accept, StaysOpen
  <2> HIDE DEF t, q, refusal
  <2>2. QED
    BY <1>3, <1>4, <2>1
<1>8. CASE /\ near /\ refusal = {} /\ (Offered(p) \cup Offered(q)) \cap bound = {}
           /\ trade[q].accepted
  <2>1. CASE Stuck # {}
    <3> DEFINE no == FALSE
               x == IF p \in Stuck THEN p ELSE q
    <3>1. trade' = SetSpell(t, x, no) /\ owner' = owner /\ no \in BOOLEAN
      BY <1>8, <2>1 DEF Accept, StaysOpen
    <3>2. x \in {p, q} /\ trade[x].spell
      BY <2>1
    <3>3. trade[x].spell # no
      <4> HIDE DEF x, q, t
      <4>1. QED
        BY <3>2, Zenon
    <3>4. x \in Players /\ Trading(x) /\ {x, trade[x].trader} = {p, q}
      <4> HIDE DEF x, q, t
      <4>1. QED
        BY <1>2, <3>2 DEF Pair, Trading
    <3>5. \A y \in Players \ {x, trade[x].trader} : t[y] = trade[y]
      BY <1>3, <3>4
    <3> HIDE DEF x, q, t, no
    <3>6. QED
      BY <1>1, <1>3, <3>1, <3>3, <3>4, <3>5, SetSpellKeeps
  <2>2. CASE Stuck = {} /\ (~ CanStoreItems(p, q) \/ ~ CanStoreItems(q, p))
    <3>1. trade' = UnacceptBoth(t, p) /\ owner' = owner
      BY <1>8, <2>2 DEF Accept, StaysOpen
    <3> HIDE DEF q, t, refusal, Stuck
    <3>2. /\ Edited(t, trade', p, q)
          /\ trade'[p].items = t[p].items /\ trade'[q].items = t[q].items
      BY <1>3, <3>1, UnacceptBothEdits
    <3>3. Edited(trade, trade', p, q) /\ \A x \in {p, q} : trade'[x].items = trade[x].items
      BY <1>2, <1>3, <3>2 DEF Edited, SameTerms, Pair
    <3>4. QED
      BY <1>1, <1>2, <3>1, <3>3, PlainEditKept
  <2>3. CASE Stuck = {} /\ CanStoreItems(p, q) /\ CanStoreItems(q, p)
    <3>1. Execute(p, q)
      BY <1>8, <2>3 DEF Accept
    <3> HIDE DEF q, t, refusal, Stuck
    <3>2. QED
      BY <1>1, <1>2, <3>1, ExecuteKeeps
  <2>4. QED
    BY <2>1, <2>2, <2>3
<1>9. QED
  BY <1>5, <1>6, <1>7, <1>8

-----------------------------------------------------------------------------
(* moveItems, slot by slot.                                                *)

\* Finite induction, with the property as a set of sets.
LEMMA SlotInduction ==
  ASSUME NEW S, IsFiniteSet(S), NEW G,
         \A T \in SUBSET S : (\A U \in SUBSET T : U # T => U \in G) => T \in G
  PROVE  S \in G
<1> DEFINE R   == StrictSubsetOrdering(S)
           Bad == {T \in SUBSET S : T \notin G}
<1>1. IsWellFoundedOn(R, FiniteSubsetsOf(S))
  BY FS_StrictSubsetOrderingWellFounded
<1>2. SUBSET S = FiniteSubsetsOf(S)
  BY FS_FiniteSubsetsOfFinite
<1>3. SUFFICES ASSUME S \notin G PROVE FALSE
  OBVIOUS
<1>4. Bad \subseteq FiniteSubsetsOf(S) /\ Bad # {}
  BY <1>2, <1>3
<1> HIDE DEF R, Bad
<1>5. PICK T \in Bad : \A U \in Bad : ~ (<<U, T>> \in R)
  BY <1>1, <1>4, WFMin
<1> USE DEF Bad
<1>6. ASSUME NEW U \in SUBSET T, U # T PROVE U \in G
  <2>1. <<U, T>> \in R
    BY <1>6 DEF R, StrictSubsetOrdering
  <2> QED
    BY <1>5, <2>1
<1> QED
  BY <1>5, <1>6

LEMMA SlotsFinite == IsFiniteSet(TradedSlots)
<1>1. 1 \in Int /\ Traded \in Int
  BY TradedAssumption
<1> QED
  BY <1>1, FS_Interval DEF TradedSlots

\* A non-empty set of slots has a last one.
LEMMA LastSlot ==
  ASSUME NEW s \in SUBSET TradedSlots, s # {}
  PROVE  Max(s) \in s
<1> DEFINE G == {t \in SUBSET s : t # {} => \E k \in t : \A j \in t : k >= j}
<1>1. ASSUME NEW t \in SUBSET s, \A u \in SUBSET t : u # t => u \in G
      PROVE  t \in G
  <2>1. CASE t = {}
    BY <2>1
  <2>2. CASE t # {}
    <3>1. PICK a \in t : TRUE
      BY <2>2
    <3>2. t \subseteq Int
      BY DEF TradedSlots
    <3>3. CASE t \ {a} = {}
      BY <3>1, <3>2, <3>3
    <3>4. CASE t \ {a} # {}
      <4>1. t \ {a} \in G
        BY <1>1, <3>1
      <4>2. PICK k \in t \ {a} : \A j \in t \ {a} : k >= j
        BY <3>4, <4>1
      <4>3. CASE k >= a
        BY <3>1, <4>2, <4>3
      <4>4. CASE ~ (k >= a)
        BY <3>1, <3>2, <4>2, <4>4
      <4> QED
        BY <4>3, <4>4
    <3> QED
      BY <3>3, <3>4
  <2> QED
    BY <2>1, <2>2
<1>2. IsFiniteSet(s)
  BY SlotsFinite, FS_Subset
<1> HIDE DEF G
<1>3. s \in G
  BY <1>1, <1>2, SlotInduction
<1>4. \E k \in s : \A j \in s : k >= j
  BY <1>3 DEF G
<1> QED
  BY <1>4 DEF Max

SlotSeq == [s \in TradedSlots |-> s]

\* g is what the rounds for every set of slots make of own.
Moving(g, own, p, q) ==
  g = [s \in SUBSET DOMAIN SlotSeq |->
         IF s = {} THEN own ELSE moveSlot(g[s \ {Max(s)}], p, q, SlotSeq[Max(s)])]

LEMMA MoveItemsDef ==
  ASSUME NEW own, NEW p, NEW q
  PROVE  moveItems(own, p, q) = (CHOOSE g : Moving(g, own, p, q))[DOMAIN SlotSeq]
BY DEF moveItems, FoldLeft, MapThenFoldSet, Moving, SlotSeq

\* The same, without the detour over SlotSeq.
Rounds(w, own, p, q) ==
  w = [s \in SUBSET TradedSlots |->
         IF s = {} THEN own ELSE moveSlot(w[s \ {Max(s)}], p, q, Max(s))]

LEMMA RoundsValue ==
  ASSUME NEW own, NEW p, NEW q, NEW w, Rounds(w, own, p, q), NEW s \in SUBSET TradedSlots
  PROVE  w[s] = IF s = {} THEN own ELSE moveSlot(w[s \ {Max(s)}], p, q, Max(s))
<1> DEFINE h == [r \in SUBSET TradedSlots |->
                   IF r = {} THEN own ELSE moveSlot(w[r \ {Max(r)}], p, q, Max(r))]
<1>1. w = h
  BY Zenon DEF Rounds
<1>2. h[s] = IF s = {} THEN own ELSE moveSlot(w[s \ {Max(s)}], p, q, Max(s))
  OBVIOUS
<1> HIDE DEF h
<1> QED
  BY <1>1, <1>2

LEMMA MoveItemsIs ==
  ASSUME NEW own, NEW p, NEW q, NEW w, Rounds(w, own, p, q)
  PROVE  moveItems(own, p, q) = w[TradedSlots]
<1>1. DOMAIN SlotSeq = TradedSlots /\ \A s \in TradedSlots : SlotSeq[s] = s
  BY DEF SlotSeq
<1>2. \A s \in SUBSET TradedSlots : s # {} => SlotSeq[Max(s)] = Max(s)
  BY <1>1, LastSlot
<1>3. ASSUME NEW g
      PROVE  Moving(g, own, p, q) <=> Rounds(g, own, p, q)
  <2>1. [s \in SUBSET DOMAIN SlotSeq |->
           IF s = {} THEN own ELSE moveSlot(g[s \ {Max(s)}], p, q, SlotSeq[Max(s)])]
        = [s \in SUBSET TradedSlots |->
             IF s = {} THEN own ELSE moveSlot(g[s \ {Max(s)}], p, q, Max(s))]
    BY <1>1, <1>2
  <2> QED
    BY <2>1 DEF Moving, Rounds
<1>4. Moving(w, own, p, q)
  BY <1>3
<1> DEFINE g == CHOOSE g : Moving(g, own, p, q)
<1>5. Moving(g, own, p, q)
  BY <1>4, Zenon
<1> HIDE DEF g
<1>6. Rounds(g, own, p, q)
  BY <1>3, <1>5
<1> DEFINE G == {s \in SUBSET TradedSlots : g[s] = w[s]}
<1>7. ASSUME NEW T \in SUBSET TradedSlots, \A U \in SUBSET T : U # T => U \in G
      PROVE  T \in G
  <2>1. CASE T = {}
    BY <1>6, <2>1, RoundsValue
  <2>2. CASE T # {}
    <3>1. T \ {Max(T)} \in SUBSET T /\ T \ {Max(T)} # T
      BY <2>2, LastSlot
    <3>2. g[T \ {Max(T)}] = w[T \ {Max(T)}]
      BY <1>7, <3>1
    <3>3. /\ g[T] = moveSlot(g[T \ {Max(T)}], p, q, Max(T))
          /\ w[T] = moveSlot(w[T \ {Max(T)}], p, q, Max(T))
      BY <1>6, <2>2, RoundsValue
    <3> QED
      BY <3>2, <3>3
  <2> QED
    BY <2>1, <2>2
<1> HIDE DEF G
<1>8. TradedSlots \in G
  BY <1>7, SlotsFinite, SlotInduction
<1>9. g[TradedSlots] = w[TradedSlots]
  BY <1>8 DEF G
<1> QED
  BY <1>1, <1>9, MoveItemsDef DEF g

\* The items of the slots in s that p still has.
Moved(p, s) == {GetItem(p, k) : k \in s} \ {None}

Has(own, p) == {i \in Items : own[i] = p}

\* What the rounds for the slots in s make of own.
Swapped(own, p, q, s) ==
  [i \in Items |-> IF i \in Moved(p, s) THEN q
                   ELSE IF i \in Moved(q, s) THEN p ELSE own[i]]

\* Everything offered is taken out of the bags first (RemoveItem).
TakenOut(p, q) ==
  [i \in Items |-> IF i \in Offered(p) \cup Offered(q) THEN None ELSE owner[i]]

LEMMA GetItemIs ==
  ASSUME IInv, NEW p \in Players, Trading(p), NEW k \in Slots
  PROVE  /\ GetItem(p, k) \in Items \cup {None}
         /\ GetItem(p, k) # None => owner[GetItem(p, k)] = p
         /\ \A j \in Slots : GetItem(p, k) # None /\ GetItem(p, j) = GetItem(p, k) => j = k
<1>1. trade[p].items \in [Slots -> Items \cup {None}]
  BY DEF IInv, Types, Trading, Trades, TradeData
<1>2. trade[p].items[k] \in Items \cup {None}
  BY <1>1
<1>3. \A j \in Slots : GetItem(p, j) \in {None, trade[p].items[j]}
  BY DEF GetItem
<1>4. GetItem(p, k) # None => owner[GetItem(p, k)] = p
  BY DEF GetItem
<1>5. ASSUME NEW j \in Slots, GetItem(p, k) # None, GetItem(p, j) = GetItem(p, k)
      PROVE  j = k
  <2>1. trade[p].items[j] = GetItem(p, j) /\ trade[p].items[k] = GetItem(p, k)
    BY <1>3, <1>5
  <2> QED
    BY <1>5, <2>1 DEF IInv, Once, NoTwice
<1> QED
  BY <1>2, <1>3, <1>4, <1>5

LEMMA OfferedIs ==
  ASSUME IInv, NEW p \in Players, Trading(p)
  PROVE  /\ Offered(p) = Moved(p, TradedSlots)
         /\ Offered(p) \subseteq Has(owner, p)
         /\ IsFiniteSet(Has(owner, p)) /\ IsFiniteSet(Offered(p))
         /\ Cardinality(Has(owner, p)) \in Nat /\ Cardinality(Offered(p)) \in Nat
<1>1. TradedSlots \subseteq Slots
  BY TradedAssumption DEF TradedSlots, Slots
<1>2. Offered(p) = Moved(p, TradedSlots)
  BY DEF Offered, Moved
<1>3. Offered(p) \subseteq Has(owner, p)
  BY <1>1, GetItemIs DEF Offered, Has
<1>4. Has(owner, p) \in SUBSET Items
  BY DEF Has
<1>5. IsFiniteSet(Has(owner, p)) /\ IsFiniteSet(Offered(p))
  BY <1>3, <1>4, ItemsAssumption, FS_Subset
<1> QED
  BY <1>2, <1>3, <1>5, FS_CardinalityType

\* While the item of one more slot is still to come, its receiver has room.
LEMMA RoomLeft ==
  ASSUME IInv, NEW p, NEW q, Pair(trade, p, q), CanStoreItems(q, p),
         NEW t \in SUBSET TradedSlots, NEW m \in TradedSlots \ t, GetItem(p, m) # None,
         NEW o, Has(o, q) = (Has(owner, q) \ Offered(q)) \cup Moved(p, t)
  PROVE  Room(o, q) > 0
<1>1. p \in Players /\ q \in Players /\ p # q /\ Trading(p) /\ Trading(q)
  BY DEF Pair, Trading
<1>2. TradedSlots \subseteq Slots
  BY TradedAssumption DEF TradedSlots, Slots
<1> DEFINE kept == Has(owner, q) \ Offered(q)
           come == Moved(p, t)
           mine == GetItem(p, m)
<1>3. /\ Offered(q) \subseteq Has(owner, q) /\ IsFiniteSet(Has(owner, q))
      /\ Offered(p) \subseteq Has(owner, p) /\ IsFiniteSet(Offered(p))
      /\ Cardinality(Has(owner, q)) \in Nat /\ Cardinality(Offered(q)) \in Nat
      /\ Cardinality(Offered(p)) \in Nat /\ Offered(p) = Moved(p, TradedSlots)
  BY <1>1, OfferedIs
<1>4. IsFiniteSet(kept) /\ Cardinality(kept) = Cardinality(Has(owner, q)) - Cardinality(Offered(q))
  <2>1. Has(owner, q) \cap Offered(q) = Offered(q)
    BY <1>3
  <2>2. /\ IsFiniteSet(Has(owner, q) \ Offered(q))
        /\ Cardinality(Has(owner, q) \ Offered(q)) =
             Cardinality(Has(owner, q)) - Cardinality(Has(owner, q) \cap Offered(q))
    BY <1>3, FS_Difference
  <2> QED
    BY <2>1, <2>2
<1>5. mine \notin come
  BY <1>1, <1>2, GetItemIs DEF Moved
<1>6. come \cup {mine} \in SUBSET Offered(p) /\ come \in SUBSET Offered(p)
  BY <1>3 DEF Moved
<1> HIDE DEF kept, come, mine
<1>7. IsFiniteSet(come) /\ Cardinality(come) + 1 <= Cardinality(Offered(p)) /\ Cardinality(come) \in Nat
  <2>1. IsFiniteSet(come) /\ IsFiniteSet(come \cup {mine})
    BY <1>3, <1>6, FS_Subset
  <2>2. Cardinality(come \cup {mine}) = Cardinality(come) + 1
    BY <1>5, <2>1, FS_AddElement
  <2>3. Cardinality(come \cup {mine}) <= Cardinality(Offered(p))
    BY <1>3, <1>6, FS_Subset
  <2>4. Cardinality(come) \in Nat
    BY <2>1, FS_CardinalityType
  <2> QED
    BY <2>1, <2>2, <2>3, <2>4
<1>8. Cardinality(Has(o, q)) = Cardinality(kept) + Cardinality(come)
  <2>1. kept \cap come = {}
    BY <1>1, <1>3, <1>6 DEF kept, Has
  <2>2. Cardinality({}) = 0
    BY FS_EmptySet
  <2>3. Cardinality(kept \cup come) = Cardinality(kept) + Cardinality(come) - Cardinality(kept \cap come)
    BY <1>4, <1>7, FS_Union
  <2>4. Cardinality(kept) \in Int
    BY <1>3, <1>4
  <2>5. Has(o, q) = kept \cup come
    BY DEF kept, come
  <2>6. Cardinality(Has(o, q)) = Cardinality(kept \cup come)
    BY ONLY <2>5
  <2>7. Cardinality(kept \cap come) = 0
    BY ONLY <2>1, <2>2
  <2> QED
    BY ONLY <1>7, <2>3, <2>4, <2>6, <2>7
<1>9. Cardinality(Offered(p)) <= Room(owner, q) + Cardinality(Offered(q))
  BY DEF CanStoreItems
<1>10. /\ Room(owner, q) = Capacity[q] - Cardinality(Has(owner, q))
       /\ Room(o, q) = Capacity[q] - Cardinality(Has(o, q))
  BY DEF Room, Has
<1>11. Capacity[q] \in Nat
  BY <1>1, CapacityAssumption
<1> QED
  BY <1>3, <1>4, <1>7, <1>8, <1>9, <1>10, <1>11

LEMMA SwappedHas ==
  ASSUME IInv, NEW p, NEW q, Pair(trade, p, q), NEW t \in SUBSET TradedSlots,
         DOMAIN owner = Items
  PROVE  LET o == Swapped(TakenOut(p, q), p, q, t) IN
         /\ Has(o, q) = (Has(owner, q) \ Offered(q)) \cup Moved(p, t)
         /\ Has(o, p) = (Has(owner, p) \ Offered(p)) \cup Moved(q, t)
<1>1. p \in Players /\ q \in Players /\ p # q /\ Trading(p) /\ Trading(q)
      /\ p # None /\ q # None
  BY NoneAssumption DEF Pair, Trading
<1>2. /\ Offered(p) = Moved(p, TradedSlots) /\ Offered(p) \subseteq Has(owner, p)
      /\ Offered(q) = Moved(q, TradedSlots) /\ Offered(q) \subseteq Has(owner, q)
  BY <1>1, OfferedIs
<1>3. Moved(p, t) \subseteq Offered(p) /\ Moved(q, t) \subseteq Offered(q)
  BY <1>2 DEF Moved
<1> DEFINE own == TakenOut(p, q)
           o   == Swapped(own, p, q, t)
<1>4. \A i \in Items : own[i] = IF i \in Offered(p) \cup Offered(q) THEN None ELSE owner[i]
  BY DEF TakenOut
<1> HIDE DEF own
<1>5. \A i \in Items : o[i] = IF i \in Moved(p, t) THEN q
                              ELSE IF i \in Moved(q, t) THEN p ELSE own[i]
  BY DEF Swapped
<1> HIDE DEF o
<1>6. Has(o, q) = (Has(owner, q) \ Offered(q)) \cup Moved(p, t)
  BY <1>1, <1>2, <1>3, <1>4, <1>5 DEF Has
<1>7. Has(o, p) = (Has(owner, p) \ Offered(p)) \cup Moved(q, t)
  BY <1>1, <1>2, <1>3, <1>4, <1>5 DEF Has
<1> QED
  BY <1>6, <1>7 DEF o, own

\* One round moves the items of its slot, both of them, whichever there are.
LEMMA SwapSlot ==
  ASSUME IInv, NEW p, NEW q, Pair(trade, p, q), CanStoreItems(p, q), CanStoreItems(q, p),
         NEW t \in SUBSET TradedSlots, NEW m \in TradedSlots \ t
  PROVE  moveSlot(Swapped(TakenOut(p, q), p, q, t), p, q, m)
           = Swapped(TakenOut(p, q), p, q, t \cup {m})
<1>1. p \in Players /\ q \in Players /\ p # q /\ Trading(p) /\ Trading(q)
      /\ p # None /\ q # None
  BY NoneAssumption DEF Pair, Trading
<1>2. m \in Slots /\ t \subseteq Slots
  BY TradedAssumption DEF TradedSlots, Slots
<1> DEFINE own  == TakenOut(p, q)
           o    == Swapped(own, p, q, t)
           mine == GetItem(p, m)
           his  == GetItem(q, m)
<1>3. /\ Has(o, q) = (Has(owner, q) \ Offered(q)) \cup Moved(p, t)
      /\ Has(o, p) = (Has(owner, p) \ Offered(p)) \cup Moved(q, t)
  BY SwappedHas DEF IInv, Types
<1>4. Pair(trade, q, p)
  BY DEF Pair
<1>5. (mine # None => Room(o, q) > 0) /\ (his # None => Room(o, p) > 0)
  <2> HIDE DEF o
  <2> QED
    BY <1>3, <1>4, RoomLeft
<1>6. /\ mine # None => mine \in Items /\ owner[mine] = p /\ mine \in Offered(p)
                        /\ mine \notin Moved(p, t)
      /\ his # None => his \in Items /\ owner[his] = q /\ his \in Offered(q)
                       /\ his \notin Moved(q, t)
  BY <1>1, <1>2, GetItemIs DEF Moved, Offered
<1>7. /\ \A i \in Moved(p, t) : owner[i] = p
      /\ \A i \in Moved(q, t) : owner[i] = q
  BY <1>1, <1>2, GetItemIs DEF Moved
<1>8. /\ \A i : i \in Moved(p, t \cup {m}) <=> i \in Moved(p, t) \/ (i = mine /\ mine # None)
      /\ \A i : i \in Moved(q, t \cup {m}) <=> i \in Moved(q, t) \/ (i = his /\ his # None)
  BY DEF Moved
<1>9. DOMAIN o = Items /\ \A i \in Items :
        o[i] = IF i \in Moved(p, t) THEN q ELSE IF i \in Moved(q, t) THEN p ELSE own[i]
  BY DEF Swapped
<1>10. mine # None => o[mine] = None
  BY <1>6, <1>7, <1>9, <1>1 DEF TakenOut
<1> DEFINE u == Store(o, mine, q)
           v == Store(u, his, p)
<1> HIDE DEF o, own, mine, his
<1>11. DOMAIN u = Items /\ \A i \in Items : u[i] = IF i = mine /\ mine # None THEN q ELSE o[i]
  BY <1>5, <1>9 DEF Store
<1>12. Room(u, p) = Room(o, p)
  <2>1. Has(u, p) = Has(o, p)
    BY <1>1, <1>10, <1>11 DEF Has
  <2> QED
    BY <2>1 DEF Room, Has
<1> HIDE DEF u
<1>13. DOMAIN v = Items /\ \A i \in Items : v[i] = IF i = his /\ his # None THEN p ELSE u[i]
  BY <1>5, <1>11, <1>12 DEF Store
<1>14. v = [i \in Items |-> v[i]]
  <2>1. CASE his # None /\ Room(u, p) > 0
    BY <1>11, <2>1 DEF Store
  <2>2. CASE ~ (his # None /\ Room(u, p) > 0)
    <3>1. v = u
      BY <2>2 DEF Store
    <3>2. u = [i \in Items |-> u[i]]
      <4>1. CASE mine # None /\ Room(o, q) > 0
        BY <1>9, <4>1 DEF Store, u
      <4>2. CASE ~ (mine # None /\ Room(o, q) > 0)
        BY <4>2 DEF Store, u, o, Swapped
      <4> QED
        BY <4>1, <4>2
    <3> QED
      BY <3>1, <3>2
  <2> QED
    BY <2>1, <2>2
<1>15. moveSlot(o, p, q, m) = v
  BY <1>5 DEF moveSlot, u, mine, his
<1> HIDE DEF v
<1>16. \A i \in Items : v[i] = IF i \in Moved(p, t \cup {m}) THEN q
                               ELSE IF i \in Moved(q, t \cup {m}) THEN p ELSE own[i]
  BY <1>1, <1>6, <1>7, <1>8, <1>9, <1>11, <1>13
<1>17. v = Swapped(own, p, q, t \cup {m})
  BY <1>14, <1>16 DEF Swapped
<1> QED
  BY <1>15, <1>17 DEF o, own

\* If the items fit, all that is offered changes hands.
LEMMA AllMoved ==
  ASSUME IInv, NEW p, NEW q, Pair(trade, p, q), CanStoreItems(p, q), CanStoreItems(q, p)
  PROVE  moveItems(TakenOut(p, q), p, q) = Swapped(TakenOut(p, q), p, q, TradedSlots)
<1> DEFINE own == TakenOut(p, q)
           w == [s \in SUBSET TradedSlots |-> Swapped(own, p, q, s)]
<1>1. w[{}] = own
  BY DEF Swapped, TakenOut, Moved
<1>2. ASSUME NEW s \in SUBSET TradedSlots, s # {}
      PROVE  w[s] = moveSlot(w[s \ {Max(s)}], p, q, Max(s))
  <2> DEFINE m == Max(s)
             t == s \ {m}
  <2>1. m \in TradedSlots \ t /\ t \in SUBSET TradedSlots /\ t \cup {m} = s
    BY <1>2, LastSlot
  <2>2. w[s] = Swapped(own, p, q, s) /\ w[t] = Swapped(own, p, q, t)
    BY <2>1
  <2> HIDE DEF m, t, w
  <2>3. moveSlot(Swapped(own, p, q, t), p, q, m) = Swapped(own, p, q, t \cup {m})
    BY <2>1, SwapSlot
  <2>4. w[s] = moveSlot(w[t], p, q, m)
    BY <2>1, <2>2, <2>3
  <2> QED
    BY <2>4 DEF m, t
<1>3. Rounds(w, own, p, q)
  <2>1. ASSUME NEW s \in SUBSET TradedSlots
        PROVE  w[s] = IF s = {} THEN own ELSE moveSlot(w[s \ {Max(s)}], p, q, Max(s))
    <3> HIDE DEF w, own
    <3> QED
      BY <1>1, <1>2
  <2>2. w = [s \in SUBSET TradedSlots |-> w[s]]
    OBVIOUS
  <2> HIDE DEF w, own
  <2> QED
    BY <2>1, <2>2 DEF Rounds
<1>4. w[TradedSlots] = Swapped(own, p, q, TradedSlots)
  OBVIOUS
<1> HIDE DEF w, own
<1>5. moveItems(own, p, q) = w[TradedSlots]
  BY <1>3, MoveItemsIs
<1> QED
  BY <1>4, <1>5 DEF own

-----------------------------------------------------------------------------
(* What a trade that is carried out does to the goods.                     *)

EInv == IInv /\ TypeOK

\* Nothing overflows and nobody goes below zero: what the four checks are for.
LEMMA PaidIs ==
  ASSUME NEW m \in 0 .. MaxMoney, NEW gives \in 0 .. MaxMoney, NEW gets \in 0 .. MaxMoney,
         m >= gives, m < MaxMoney - gets
  PROVE  /\ ModifyMoney(ModifyMoney(m, - gives), gets) = m - gives + gets
         /\ m - gives + gets \in 0 .. MaxMoney
<1>1. MaxMoney \in Nat
  BY MoneyAssumption
<1>2. ModifyMoney(m, - gives) = m - gives
  BY <1>1 DEF ModifyMoney
<1>3. ModifyMoney(m - gives, gets) = m - gives + gets
  BY <1>1 DEF ModifyMoney
<1> QED
  BY <1>1, <1>2, <1>3

LEMMA ExecuteDoes ==
  ASSUME EInv, NEW p, NEW q, Pair(trade, p, q), MoneyRefusal(p, q) = {},
         CanStoreItems(p, q), CanStoreItems(q, p), Execute(p, q)
  PROVE  /\ owner' = [i \in Items |-> IF i \in Offered(p) THEN q
                                      ELSE IF i \in Offered(q) THEN p ELSE owner[i]]
         /\ money' \in [Players -> 0 .. MaxMoney]
         /\ money'[p] = money[p] - trade[p].money + trade[q].money
         /\ money'[q] = money[q] - trade[q].money + trade[p].money
         /\ \A x \in Players \ {p, q} : money'[x] = money[x]
<1>1. /\ p \in Players /\ q \in Players /\ p # q /\ Trading(p) /\ Trading(q) /\ IInv
      /\ trade[p].money \in 0 .. MaxMoney /\ trade[q].money \in 0 .. MaxMoney
  BY DEF EInv, IInv, Types, Pair, Trading, Trades, TradeData
<1>2. Offered(p) = Moved(p, TradedSlots) /\ Offered(q) = Moved(q, TradedSlots)
  BY <1>1, OfferedIs
<1>3. moveItems(TakenOut(p, q), p, q) = Swapped(TakenOut(p, q), p, q, TradedSlots)
  BY <1>1, AllMoved
<1>4. owner' = [i \in Items |-> IF i \in Offered(p) \cup Offered(q)
                                THEN moveItems(TakenOut(p, q), p, q)[i] ELSE owner[i]]
  BY DEF Execute, TakenOut
<1>5. owner' = [i \in Items |-> IF i \in Offered(p) THEN q
                                ELSE IF i \in Offered(q) THEN p ELSE owner[i]]
  BY <1>2, <1>3, <1>4 DEF Swapped
<1> DEFINE a == money[p]  b == money[q]  x == trade[p].money  y == trade[q].money
<1>6. a \in 0 .. MaxMoney /\ b \in 0 .. MaxMoney
  BY <1>1 DEF EInv, TypeOK
<1>7. MaxMoney \in Nat
  BY MoneyAssumption
<1>8. a >= x /\ b >= y /\ a < MaxMoney - y /\ b < MaxMoney - x
  <2>1. ~ (a < x) /\ ~ (b < y) /\ ~ (a >= MaxMoney - y) /\ ~ (b >= MaxMoney - x)
    BY DEF MoneyRefusal
  <2> QED
    BY <1>1, <1>6, <1>7, <2>1
<1>9. money' = [money EXCEPT ![p] = ModifyMoney(ModifyMoney(a, - x), y),
                             ![q] = ModifyMoney(ModifyMoney(b, - y), x)]
  BY DEF Execute
<1>10. money \in [Players -> 0 .. MaxMoney]
  BY DEF EInv, TypeOK
<1> HIDE DEF a, b, x, y
<1>11. /\ ModifyMoney(ModifyMoney(a, - x), y) = a - x + y /\ a - x + y \in 0 .. MaxMoney
       /\ ModifyMoney(ModifyMoney(b, - y), x) = b - y + x /\ b - y + x \in 0 .. MaxMoney
  BY <1>1, <1>6, <1>8, PaidIs DEF x, y
<1>12. /\ money' \in [Players -> 0 .. MaxMoney]
       /\ money'[p] = a - x + y /\ money'[q] = b - y + x
       /\ \A z \in Players \ {p, q} : money'[z] = money[z]
  BY <1>1, <1>9, <1>10, <1>11
<1> QED
  BY <1>5, <1>12 DEF a, b, x, y

\* An accept leaves the goods alone, or carries the trade out.
LEMMA AcceptDoes ==
  ASSUME IInv, NEW p \in Players, NEW near, NEW unable, Accept(p, near, unable)
  PROVE  /\ Pair(trade, p, trade[p].trader)
         /\ UNCHANGED <<online, count, bound>>
         /\ \/ UNCHANGED <<owner, money>>
            \/ LET q == trade[p].trader IN
               /\ MoneyRefusal(p, q) = {} /\ trade[q].accepted
               /\ CanStoreItems(p, q) /\ CanStoreItems(q, p)
               /\ Execute(p, q)
<1>1. Pair(trade, p, trade[p].trader)
  BY PairOfTrader DEF Accept
<1>2. UNCHANGED <<online, count, bound>>
  BY DEF Accept
<1> DEFINE q == trade[p].trader
           t == [trade EXCEPT ![p].accepted = TRUE]
           refusal == MoneyRefusal(p, q)
           Stuck == {x \in {p, q} : /\ trade[x].spell
                                    /\ \/ GetItem(trade[x].trader, Nontraded) = None
                                       \/ x \in unable}
<1>3. ASSUME NEW r, StaysOpen(r) PROVE UNCHANGED <<owner, money>>
  BY <1>3 DEF StaysOpen
<1>4. \/ \E r : StaysOpen(r)
      \/ /\ refusal = {} /\ trade[q].accepted
         /\ CanStoreItems(p, q) /\ CanStoreItems(q, p) /\ Execute(p, q)
  <2>1. CASE ~ near
    BY <2>1 DEF Accept
  <2>2. CASE near /\ refusal # {}
    BY <2>2 DEF Accept
  <2>3. CASE /\ near /\ refusal = {}
             /\ (Offered(p) \cup Offered(q)) \cap bound # {} \/ ~ trade[q].accepted
    BY <2>3 DEF Accept
  <2>4. CASE /\ near /\ refusal = {} /\ (Offered(p) \cup Offered(q)) \cap bound = {}
             /\ trade[q].accepted
    <3>1. IF Stuck # {}
          THEN StaysOpen(SetSpell(t, IF p \in Stuck THEN p ELSE q, FALSE))
          ELSE IF ~ CanStoreItems(p, q) \/ ~ CanStoreItems(q, p)
          THEN StaysOpen(UnacceptBoth(t, p))
          ELSE Execute(p, q)
      BY <2>4 DEF Accept
    <3> HIDE DEF Stuck, t, q, refusal
    <3> QED
      BY <2>4, <3>1
  <2> QED
    BY <2>1, <2>2, <2>3, <2>4
<1> QED
  BY <1>1, <1>2, <1>3, <1>4

LEMMA SameGoods ==
  ASSUME TypeOK, UNCHANGED <<owner, money>>
  PROVE  Agreed
<1>1. \A p \in Players : ~ Executes(p) /\ money'[p] = money[p] /\ money[p] \in Int
  BY MoneyAssumption DEF Executes, TypeOK
<1> QED
  BY <1>1 DEF Agreed

\* Something of one player is gone, and no trade ends.
LEMMA LessGoods ==
  ASSUME TypeOK, trade' = trade,
         \A i \in Items : owner'[i] \in {owner[i], None},
         \A p \in Players : money'[p] <= money[p] /\ money'[p] \in Int
  PROVE  Agreed
<1>1. \A p \in Players : ~ Executes(p)
  BY DEF Executes, Trading
<1>2. \A p \in Players : money[p] \in Int
  BY MoneyAssumption DEF TypeOK
<1> QED
  BY <1>1, <1>2 DEF Agreed

LEMMA ExecuteAgreed ==
  ASSUME EInv, NEW p, NEW q, Pair(trade, p, q), MoneyRefusal(p, q) = {}, trade[q].accepted,
         CanStoreItems(p, q), CanStoreItems(q, p), Execute(p, q)
  PROVE  Agreed
<1>1. p \in Players /\ q \in Players /\ p # q /\ Trading(p) /\ Trading(q) /\ IInv
      /\ trade[p].trader = q /\ trade[q].trader = p
  BY DEF Pair, Trading, EInv
<1>2. Offered(p) \subseteq Has(owner, p) /\ Offered(q) \subseteq Has(owner, q)
  BY <1>1, OfferedIs
<1>3. /\ owner' = [i \in Items |-> IF i \in Offered(p) THEN q
                                   ELSE IF i \in Offered(q) THEN p ELSE owner[i]]
      /\ money' \in [Players -> 0 .. MaxMoney]
      /\ money'[p] = money[p] - trade[p].money + trade[q].money
      /\ money'[q] = money[q] - trade[q].money + trade[p].money
      /\ \A x \in Players \ {p, q} : money'[x] = money[x]
  BY ExecuteDoes
<1>4. trade' = Closed(trade, p) /\ ~ Trading(p)' /\ ~ Trading(q)'
      /\ \A x \in Players \ {p, q} : trade'[x] = trade[x]
  <2>1. trade' = Closed(trade, p)
    BY DEF Execute
  <2> QED
    BY <1>1, <2>1, ClosedCloses DEF ClosedOf, IInv, Types, Trading
<1>5. \A x \in Players : Executes(x) => x \in {p, q}
  BY <1>4 DEF Executes, Trading
<1>6. \A x \in {p, q} : <<owner, money>>' # <<owner, money>> => Executes(x)
  BY <1>1, <1>4 DEF Executes
<1>7. \A x \in Players : money[x] \in Int
  BY MoneyAssumption DEF EInv, TypeOK
<1>8. ASSUME NEW i \in Items, owner'[i] # owner[i]
      PROVE  owner'[i] = None \/ Executes(owner[i])
  <2>1. i \in Offered(p) \cup Offered(q)
    BY <1>3, <1>8
  <2>2. owner[i] \in {p, q}
    BY <1>2, <2>1 DEF Has
  <2> QED
    BY <1>6, <1>8, <2>2
<1>9. ASSUME NEW x \in Players, money'[x] > money[x] PROVE Executes(x)
  <2>1. money'[x] # money[x]
    BY <1>7, <1>9
  <2>2. x \in {p, q}
    BY <1>3, <2>1
  <2> QED
    BY <1>6, <2>1, <2>2
<1>10. Terms(p) = seen[q] /\ Terms(q) = seen[q]
  <2>1. Terms(q) = seen[q]
    BY <1>1 DEF IInv, Consent
  <2>2. Terms(p) = Terms(q)
    <3>1. {p, trade[p].trader} = {q, trade[q].trader}
      BY <1>1
    <3> QED
      BY <3>1 DEF Terms
  <2> QED
    BY <2>1, <2>2
<1>11. /\ \A i \in Items : owner[i] = p => owner'[i] = IF i \in Offered(p) THEN q ELSE p
       /\ \A i \in Items : owner[i] = q => owner'[i] = IF i \in Offered(q) THEN p ELSE q
  BY <1>1, <1>2, <1>3 DEF Has
<1>12. ASSUME NEW x \in Players, Executes(x)
       PROVE  LET y == trade[x].trader IN
              /\ Terms(x) \in {seen[x], seen[y]}
              /\ \A i \in Items : owner[i] = x =>
                   owner'[i] = IF i \in Offered(x) THEN y ELSE x
              /\ money'[x] = money[x] - trade[x].money + trade[y].money
  <2>1. CASE x = p
    BY <1>1, <1>3, <1>10, <1>11, <2>1
  <2>2. CASE x = q
    BY <1>1, <1>3, <1>10, <1>11, <2>2
  <2> QED
    BY <1>5, <1>12, <2>1, <2>2
<1> QED
  BY <1>8, <1>9, <1>12 DEF Agreed

-----------------------------------------------------------------------------
(* The theorems.                                                           *)

LEMMA InitIInv == Init => IInv
<1> SUFFICES ASSUME Init PROVE IInv
  OBVIOUS
<1>1. Types
  BY StackAssumption DEF Init, Types, Trades
<1>2. QED
  BY <1>1 DEF Init, IInv, Mutual, OffersOwn, Once, Consent, Trading

LEMMA NextIInv == IInv /\ [Next]_vars => IInv'
<1> SUFFICES ASSUME IInv, [Next]_vars PROVE IInv'
  OBVIOUS
<1>1. ASSUME NEW p \in Players, NEW q \in Players, Initiate(p, q) PROVE IInv'
  BY <1>1, InitiateKeeps
<1>2. ASSUME NEW p \in Players, NEW gold \in 0 .. MaxMoney, SetTradeGold(p, gold) PROVE IInv'
  BY <1>2, SetTradeGoldKeeps
<1>3. ASSUME NEW p \in Players, NEW s \in Slots, NEW i \in Items, SetTradeItem(p, s, i)
      PROVE  IInv'
  BY <1>3, SetTradeItemKeeps
<1>4. ASSUME NEW p \in Players, NEW s \in Slots, ClearTradeItem(p, s) PROVE IInv'
  BY <1>4, ClearTradeItemKeeps
<1>5. ASSUME NEW p \in Players,
             OfferSpell(p) \/ Unaccept(p) \/ TradeCancel(p) \/ Logout(p) \/ Login(p)
      PROVE  IInv'
  BY <1>5, OfferSpellKeeps, UnacceptKeeps, TradeCancelKeeps, LogoutKeeps, LoginKeeps
<1>6. ASSUME NEW p \in Players, NEW near \in BOOLEAN, NEW unable \in SUBSET Players,
             Accept(p, near, unable)
      PROVE  IInv'
  BY <1>6, AcceptKeeps
<1>7. ASSUME NEW p \in Players, Spend(p) PROVE IInv'
  BY <1>7, NothingKeeps DEF Spend
<1>8. ASSUME NEW i \in Items, NEW n, SetCount(i, n) PROVE IInv'
  BY <1>8, SetCountKeeps
<1>9. ASSUME NEW i \in Items, DestroyItem(i) PROVE IInv'
  BY <1>9, DestroyItemKeeps
<1>10. ASSUME NEW i \in Items, Bind(i) PROVE IInv'
  BY <1>10, NothingKeeps DEF Bind
<1>11. CASE UNCHANGED vars
  BY <1>11, NothingKeeps DEF vars, goods
<1>12. QED
  BY <1>1, <1>2, <1>3, <1>4, <1>5, <1>6, <1>7, <1>8, <1>9, <1>10, <1>11 DEF Next

\* Trades are mutual, and both players are there: m_trade and the trader it
\* points to can be dereferenced (Player::TradeCancel, TradeData::GetTraderData).
THEOREM TradesAreMutual == Spec => []Mutual
<1>1. IInv => Mutual
  BY DEF IInv
<1>2. QED
  BY InitIInv, NextIInv, <1>1, PTL DEF Spec

\* An acceptance that stands is one of the terms as they stand, whatever is put
\* into the trade, taken out, used up, destroyed or offered with it
\* (TradeData::SetItem, SetSpell, SetMoney, Item::SetCount).
THEOREM AcceptedAsSeen == Spec => []Consent
<1>1. IInv => Consent
  BY DEF IInv
<1>2. QED
  BY InitIInv, NextIInv, <1>1, PTL DEF Spec

-----------------------------------------------------------------------------
(* The goods keep their types, and each step is as agreed.                 *)

LEMMA InitEInv == Init => EInv
<1>1. Init => TypeOK
  <2> SUFFICES ASSUME Init PROVE TypeOK
    OBVIOUS
  <2>1. \A i \in Items : count[i] \in 1 .. MaxCount[i]
    BY StackAssumption DEF Init
  <2>2. owner \in [Items -> Players \cup {None}]
    BY StackAssumption DEF Init
  <2> QED
    BY <2>1, <2>2, MoneyAssumption DEF Init, TypeOK
<1> QED
  BY <1>1, InitIInv DEF EInv

\* Steps that touch neither the items' owners nor the money.
LEMMA QuietStep ==
  ASSUME EInv, IInv', online' \subseteq Players, UNCHANGED <<owner, money>>,
         \A i \in Items : count'[i] \in 1 .. MaxCount[i], bound' \subseteq Items \cap Bindable
  PROVE  TypeOK' /\ Agreed
<1>1. Agreed
  BY SameGoods DEF EInv
<1>2. TypeOK'
  BY DEF EInv, IInv, Types, TypeOK, Trades
<1> QED
  BY <1>1, <1>2

LEMMA NextEInv == EInv /\ [Next]_vars => EInv' /\ Agreed
<1> SUFFICES ASSUME EInv, [Next]_vars PROVE EInv' /\ Agreed
  OBVIOUS
<1>0. IInv /\ TypeOK /\ IInv'
  BY NextIInv DEF EInv
<1> DEFINE Goal == TypeOK' /\ Agreed
           Quiet == UNCHANGED <<owner, money, count, bound>>
<1>1. ASSUME Quiet, online' \subseteq Players PROVE Goal
  BY <1>0, <1>1, QuietStep DEF TypeOK
<1>2. ASSUME NEW p \in Players, NEW q \in Players, Initiate(p, q) PROVE Goal
  BY <1>0, <1>1, <1>2 DEF Initiate, goods, TypeOK
<1>3. ASSUME NEW p \in Players, NEW gold \in 0 .. MaxMoney, SetTradeGold(p, gold) PROVE Goal
  BY <1>0, <1>1, <1>3 DEF SetTradeGold, goods, TypeOK
<1>4. ASSUME NEW p \in Players, NEW s \in Slots, NEW i \in Items, SetTradeItem(p, s, i)
      PROVE  Goal
  BY <1>0, <1>1, <1>4 DEF SetTradeItem, goods, TypeOK
<1>5. ASSUME NEW p \in Players, NEW s \in Slots, ClearTradeItem(p, s) PROVE Goal
  BY <1>0, <1>1, <1>5 DEF ClearTradeItem, goods, TypeOK
<1>6. ASSUME NEW p \in Players,
             OfferSpell(p) \/ Unaccept(p) \/ TradeCancel(p) \/ Logout(p) \/ Login(p)
      PROVE  Goal
  BY <1>0, <1>1, <1>6 DEF OfferSpell, Unaccept, TradeCancel, Logout, Login, goods, TypeOK
<1>7. ASSUME NEW p \in Players, NEW near \in BOOLEAN, NEW unable \in SUBSET Players,
             Accept(p, near, unable)
      PROVE  Goal
  <2> DEFINE q == trade[p].trader
  <2>1. Pair(trade, p, q) /\ UNCHANGED <<online, count, bound>>
    BY <1>0, <1>7, AcceptDoes
  <2>2. CASE UNCHANGED <<owner, money>>
    BY <1>0, <1>1, <2>1, <2>2 DEF TypeOK
  <2>3. CASE ~ UNCHANGED <<owner, money>>
    <3>1. /\ MoneyRefusal(p, q) = {} /\ trade[q].accepted
          /\ CanStoreItems(p, q) /\ CanStoreItems(q, p) /\ Execute(p, q)
      BY <1>0, <1>7, <2>3, AcceptDoes
    <3> HIDE DEF q
    <3>2. Agreed
      BY <2>1, <3>1, ExecuteAgreed
    <3>3. /\ owner' = [i \in Items |-> IF i \in Offered(p) THEN q
                                       ELSE IF i \in Offered(q) THEN p ELSE owner[i]]
          /\ money' \in [Players -> 0 .. MaxMoney]
      BY <2>1, <3>1, ExecuteDoes
    <3>4. owner' \in [Items -> Players \cup {None}]
      BY <1>0, <2>1, <3>3 DEF TypeOK, Pair
    <3>5. TypeOK'
      BY <1>0, <2>1, <3>3, <3>4 DEF TypeOK, IInv, Types, Trades
    <3> QED
      BY <3>2, <3>5
  <2> QED
    BY <2>2, <2>3
<1>8. ASSUME NEW p \in Players, Spend(p) PROVE Goal
  <2>1. /\ money' = [money EXCEPT ![p] = @ - 1] /\ money[p] > 0
        /\ UNCHANGED <<online, trade, owner, count, bound>>
    BY <1>8 DEF Spend
  <2>2. money \in [Players -> 0 .. MaxMoney] /\ MaxMoney \in Nat
    BY <1>0, MoneyAssumption DEF TypeOK
  <2>3. money[p] - 1 \in 0 .. MaxMoney /\ money[p] - 1 <= money[p]
    BY <2>1, <2>2
  <2>4. /\ money' \in [Players -> 0 .. MaxMoney]
        /\ \A x \in Players : money'[x] <= money[x] /\ money'[x] \in Int
    BY <2>1, <2>2, <2>3
  <2>5. Agreed
    BY <1>0, <2>1, <2>4, LessGoods
  <2>6. TypeOK'
    BY <1>0, <2>1, <2>4 DEF TypeOK
  <2> QED
    BY <2>5, <2>6
<1>9. ASSUME NEW i \in Items, NEW n \in 1 .. MaxCount[i], SetCount(i, n) PROVE Goal
  <2>1. /\ count' = [count EXCEPT ![i] = n] /\ UNCHANGED <<online, owner, bound, money>>
        /\ DOMAIN count = Items
    BY <1>0, <1>9 DEF SetCount, IInv, Types
  <2>2. \A j \in Items : count'[j] \in 1 .. MaxCount[j]
    BY <1>0, <2>1 DEF TypeOK
  <2> QED
    BY <1>0, <2>1, <2>2, QuietStep DEF TypeOK
<1>10. ASSUME NEW i \in Items, DestroyItem(i) PROVE Goal
  <2>1. /\ owner' = [owner EXCEPT ![i] = None]
        /\ UNCHANGED <<online, trade, count, bound, money>>
    BY <1>10 DEF DestroyItem
  <2>2. owner' \in [Items -> Players \cup {None}] /\ \A j \in Items : owner'[j] \in {owner[j], None}
    BY <1>0, <2>1 DEF TypeOK
  <2>3. \A x \in Players : money'[x] <= money[x] /\ money'[x] \in Int
    BY <1>0, <2>1, MoneyAssumption DEF TypeOK
  <2>4. Agreed
    BY <1>0, <2>1, <2>2, <2>3, LessGoods
  <2>5. TypeOK'
    BY <1>0, <2>1, <2>2 DEF TypeOK
  <2> QED
    BY <2>4, <2>5
<1>11. ASSUME NEW i \in Items, Bind(i) PROVE Goal
  <2>1. bound' = bound \cup {i} /\ i \in Bindable /\ UNCHANGED <<online, owner, count, money>>
    BY <1>11 DEF Bind
  <2> QED
    BY <1>0, <2>1, QuietStep DEF TypeOK
<1>12. ASSUME UNCHANGED vars PROVE Goal
  BY <1>0, <1>1, <1>12 DEF vars, goods, TypeOK
<1> HIDE DEF Goal
<1>13. Goal
  BY <1>2, <1>3, <1>4, <1>5, <1>6, <1>7, <1>8, <1>9, <1>10, <1>11, <1>12 DEF Next
<1> QED
  BY <1>0, <1>13 DEF Goal, EInv

\* Whatever a player does, the trades, stacks, owners and purses are of their
\* types: no purse falls below zero or exceeds MAX_MONEY_AMOUNT (ModifyMoney).
THEOREM TypeCorrect == Spec => []TypeOK
<1>1. EInv => TypeOK
  BY DEF EInv
<1>2. QED
  BY InitEInv, NextEInv, <1>1, PTL DEF Spec

\* Goods change hands only by an accepted trade, and then all that was offered
\* does, however many slots there are and whatever else the bags hold: the
\* checks of HandleAcceptTradeOpcode leave moveItems nothing that may fail.
THEOREM TradeIsFair == Spec => ExchangeAsAgreed
<1>1. EInv /\ [Next]_vars => [Agreed]_vars
  BY NextEInv
<1> QED
  BY InitEInv, NextEInv, <1>1, PTL DEF Spec, ExchangeAsAgreed
=============================================================================
