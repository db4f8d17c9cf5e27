-------------------------------- MODULE Trade --------------------------------
(***************************************************************************)
(* The trade of two players: Player::m_trade and TradeData of both sides,  *)
(* the trade opcodes (TradeHandler.cpp), and what else happens to the      *)
(* money and the items of a trading player.  The trade opcodes are         *)
(* PROCESS_THREADUNSAFE: the world thread runs each handler as one step,   *)
(* but items are used up, destroyed, bound or bought between any two.      *)
(* An item is a stack with an identity (its guid), an owner and a count.   *)
(***************************************************************************)
EXTENDS Integers, FiniteSets, SequencesExt

CONSTANTS Players, Items,
          None,        \* a null pointer, an empty guid
          Traded,      \* TRADE_SLOT_TRADED_COUNT: slots 1 .. Traded are traded
          MaxMoney,    \* MAX_MONEY_AMOUNT
          MaxCount,    \* largest stack of each item
          Bindable,    \* items that may become bound or locked while they are offered
          Capacity,    \* places in each player's bags
          FirstOwner,  \* who has each item at first
          FirstMoney   \* and how much money each player has

ASSUME NoneAssumption == None \notin Players \cup Items
ASSUME ItemsAssumption == IsFiniteSet(Items)
ASSUME TradedAssumption == Traded \in Nat
ASSUME MoneyAssumption == MaxMoney \in Nat /\ FirstMoney \in [Players -> 0 .. MaxMoney]
ASSUME StackAssumption ==
  MaxCount \in [Items -> Nat \ {0}] /\ FirstOwner \in [Items -> Players]
ASSUME CapacityAssumption == Capacity \in [Players -> Nat]

VARIABLES
  online,   \* players ObjectAccessor::FindPlayer finds
  trade,    \* Player::m_trade
  owner,    \* in whose inventory each item is; None: in nobody's any more
  count,    \* ITEM_FIELD_STACK_COUNT
  bound,    \* items that CanBeTraded refuses
  money,    \* PLAYER_FIELD_COINAGE
  seen      \* history: the terms a player accepted, while the acceptance stands

vars == <<online, trade, owner, count, bound, money, seen>>
goods == <<owner, count, bound, money>>

TradedSlots == 1 .. Traded
Nontraded   == Traded + 1              \* TRADE_SLOT_NONTRADED
Slots       == 1 .. Traded + 1

TradeData == [trader : Players, accepted : BOOLEAN, money : 0 .. MaxMoney,
              spell : BOOLEAN, items : [Slots -> Items \cup {None}]]

ASSUME NoTradeAssumption == None \notin TradeData

Trading(p) == trade[p] # None

\* Both sides of the trade of p as they stand now.
Terms(p) ==
  [x \in {p, trade[p].trader} |->
     [money |-> trade[x].money, spell |-> trade[x].spell,
      stacks |-> [s \in Slots |-> LET i == trade[x].items[s] IN
                    IF i = None THEN <<None, 0>> ELSE <<i, count[i]>>]]]

TypeOK ==
  /\ online \subseteq Players
  /\ trade \in [Players -> TradeData \cup {None}]
  /\ owner \in [Items -> Players \cup {None}]
  /\ \A i \in Items : count[i] \in 1 .. MaxCount[i]
  /\ bound \subseteq Items \cap Bindable
  /\ money \in [Players -> 0 .. MaxMoney]

Init ==
  /\ online = Players
  /\ trade = [p \in Players |-> None]
  /\ owner = FirstOwner
  /\ count = MaxCount
  /\ bound = {}
  /\ money = FirstMoney
  /\ seen = [p \in Players |-> None]

\* An acceptance of a player in P is one of the terms as they are now; the
\* others' remain what they were; a withdrawn one is forgotten.
Remember(P) ==
  seen' = [x \in Players |->
             CASE trade'[x] = None       -> None
               [] ~ trade'[x].accepted   -> None
               [] x \in P                -> Terms(x)'
               [] OTHER                  -> seen[x]]

-----------------------------------------------------------------------------
(* TradeData.  t is the function of all trades, as a step has left it.     *)

\* Mutant: only the player who changes his side has his acceptance taken back.
UnacceptBoth_Own(t, p) == [t EXCEPT ![p].accepted = FALSE]

UnacceptBoth(t, p) ==
  [t EXCEPT ![p].accepted = FALSE, ![t[p].trader].accepted = FALSE]

SetSpell(t, p, spell) ==
  IF t[p].spell = spell THEN t
  ELSE UnacceptBoth([t EXCEPT ![p].spell = spell], p)

\* Takes the spells away too: the trader's that was meant for the item of the
\* slot that is not traded, and the own one, whose reagents may have moved.
SetItem(t, p, slot, item, update) ==
  IF t[p].items[slot] = item /\ ~ update THEN t
  ELSE LET changed == UnacceptBoth([t EXCEPT ![p].items[slot] = item], p)
           cleared == IF slot = Nontraded
                      THEN SetSpell(changed, changed[p].trader, FALSE)
                      ELSE changed
       IN  SetSpell(cleared, p, FALSE)

\* GetItem(slot): the item, if the player still has it.
GetItem(p, slot) ==
  LET i == trade[p].items[slot] IN
  IF i # None /\ owner[i] = p THEN i ELSE None

HasItem(p, i) == \E s \in Slots : trade[p].items[s] = i

-----------------------------------------------------------------------------
(* The opcodes before the accept.                                          *)

\* HandleInitiateTradeOpcode, when none of its refusals applies: both players
\* get an empty TradeData.
Initiate(p, q) ==
  LET Empty(x) == [trader |-> x, accepted |-> FALSE, money |-> 0,
                   spell |-> FALSE, items |-> [s \in Slots |-> None]]
  IN
  /\ p \in online /\ q \in online \ {p}
  /\ ~ Trading(p) /\ ~ Trading(q)
  /\ trade' = [trade EXCEPT ![p] = Empty(q), ![q] = Empty(p)]
  /\ UNCHANGED <<online, goods>>
  /\ Remember({})

\* HandleSetTradeGoldOpcode.
SetTradeGold(p, gold) ==
  /\ Trading(p) /\ gold # trade[p].money
  /\ money[p] >= gold
  /\ trade' = UnacceptBoth([trade EXCEPT ![p].money = gold], p)
  /\ UNCHANGED <<online, goods>>
  /\ Remember({})

\* HandleSetTradeItemOpcode.
SetTradeItem(p, slot, i) ==
  /\ Trading(p)
  /\ owner[i] = p
  /\ slot # Nontraded => i \notin bound
  /\ ~ HasItem(p, i)
  /\ trade' = SetItem(trade, p, slot, i, FALSE)
  /\ UNCHANGED <<online, goods>>
  /\ Remember({})

\* HandleClearTradeItemOpcode.
ClearTradeItem(p, slot) ==
  /\ Trading(p)
  /\ trade[p].items[slot] # None
  /\ trade' = SetItem(trade, p, slot, None, FALSE)
  /\ UNCHANGED <<online, goods>>
  /\ Remember({})

\* Spell::_cast: a spell on the item of the trade window is kept for the end
\* of the trade.  CheckCast refuses a second one.
OfferSpell(p) ==
  /\ Trading(p) /\ ~ trade[p].spell
  /\ trade' = SetSpell(trade, p, TRUE)
  /\ UNCHANGED <<online, goods>>
  /\ Remember({})

\* HandleUnacceptTradeOpcode.
Unaccept(p) ==
  /\ Trading(p) /\ trade[p].accepted
  /\ trade' = [trade EXCEPT ![p].accepted = FALSE]
  /\ UNCHANGED <<online, goods>>
  /\ Remember({})

\* Mutant: only the own side of the trade is closed.
Closed_Own(t, p) == [t EXCEPT ![p] = None]

\* Both TradeData are deleted.
Closed(t, p) == [t EXCEPT ![p] = None, ![t[p].trader] = None]

\* TradeCancel: the cancel opcode, a flight, and the logout of the player.
TradeCancel(p) ==
  /\ Trading(p)
  /\ trade' = Closed(trade, p)
  /\ UNCHANGED <<online, goods>>
  /\ Remember({})

-----------------------------------------------------------------------------
(* HandleAcceptTradeOpcode.                                                *)

\* GetItem of every traded slot: what changes hands when the trade is done.
Offered(p) == {GetItem(p, s) : s \in TradedSlots} \ {None}

\* The places left in the bags of p when own says who has what.
Room(own, p) == Capacity[p] - Cardinality({i \in Items : own[i] = p})

\* Mutant: the 'in-trade' flag is set on the item that is not traded, too.
CanStoreItems_AllSlots(p, q) ==
  Cardinality(Offered(q)) <=
    Room(owner, p) + Cardinality({GetItem(p, s) : s \in Slots} \ {None})

\* CanStoreItems: items with the 'in-trade' flag leave their places.
CanStoreItems(p, q) ==
  Cardinality(Offered(q)) <= Room(owner, p) + Cardinality(Offered(p))

\* Player::MoveItemToInventory, if there is a place for the item.
Store(own, i, to) ==
  IF i # None /\ Room(own, to) > 0 THEN [own EXCEPT ![i] = to] ELSE own

\* One round of moveItems: both items of a slot are stored, or each goes back
\* to where it came from; one that fits nowhere is in nobody's bags afterwards.
moveSlot(own, p, q, s) ==
  LET mine == GetItem(p, s)
      his  == GetItem(q, s)
      fits == /\ mine = None \/ Room(own, q) > 0
              /\ his = None \/ Room(own, p) > 0
  IN  IF fits THEN Store(Store(own, mine, q), his, p)
              ELSE Store(Store(own, mine, p), his, q)

moveItems(own, p, q) ==
  FoldLeft(LAMBDA o, s : moveSlot(o, p, q, s), own, [s \in TradedSlots |-> s])

\* Whose acceptance the checks of the money take back, if any: the first of
\* the four checks that fails decides.
MoneyRefusal(p, q) ==
  IF money[p] < trade[p].money THEN {p}
  ELSE IF money[q] < trade[q].money THEN {q}
  ELSE IF money[p] >= MaxMoney - trade[q].money THEN {p}
  ELSE IF money[q] >= MaxMoney - trade[p].money THEN {q}
  ELSE {}

\* ModifyMoney: never below zero, and refused beyond the maximum.
ModifyMoney(m, amount) ==
  IF amount < 0 THEN IF m > - amount THEN m + amount ELSE 0
  ELSE IF m < MaxMoney - amount THEN m + amount ELSE m

\* Both have accepted and the items fit.
Execute(p, q) ==
  LET offered == Offered(p) \cup Offered(q)
      moved == moveItems([i \in Items |-> IF i \in offered THEN None ELSE owner[i]], p, q)
      Paid(x, y) == ModifyMoney(ModifyMoney(money[x], - trade[x].money),
                                trade[y].money)
  IN
  /\ owner' = [i \in Items |-> IF i \in offered THEN moved[i] ELSE owner[i]]
  /\ money' = [money EXCEPT ![p] = Paid(p, q), ![q] = Paid(q, p)]
  /\ trade' = Closed(trade, p)

\* The accept leaves the trade open.
StaysOpen(t) == trade' = t /\ UNCHANGED <<owner, money>>

\* near: IsWithinDistInMap; unable: whose spell CheckCast refuses.
Accept(p, near, unable) ==
  LET q == trade[p].trader
      t == [trade EXCEPT ![p].accepted = TRUE]
      refusal == MoneyRefusal(p, q)
      \* players whose spell has no target any more or cannot be cast
      Stuck == {x \in {p, q} : /\ trade[x].spell
                               /\ \/ GetItem(trade[x].trader, Nontraded) = None
                                  \/ x \in unable}
  IN
  /\ Trading(p)
  /\ unable \subseteq {x \in {p, q} : trade[x].spell}
  /\ \/ /\ ~ near
        /\ StaysOpen([t EXCEPT ![p].accepted = FALSE])
     \/ /\ near /\ refusal # {}
        /\ StaysOpen([x \in Players |-> IF x \in refusal
                        THEN [t[x] EXCEPT !.accepted = FALSE] ELSE t[x]])
     \/ /\ near /\ refusal = {}
        /\ \/ (Offered(p) \cup Offered(q)) \cap bound # {}
           \/ ~ trade[q].accepted
        /\ StaysOpen(t)
     \/ /\ near /\ refusal = {}
        /\ (Offered(p) \cup Offered(q)) \cap bound = {}
        /\ trade[q].accepted
        /\ IF Stuck # {}
           THEN StaysOpen(SetSpell(t, IF p \in Stuck THEN p ELSE q, FALSE))
           ELSE IF ~ CanStoreItems(p, q) \/ ~ CanStoreItems(q, p)
           THEN StaysOpen(UnacceptBoth(t, p))
           ELSE Execute(p, q)
  /\ UNCHANGED <<online, count, bound>>
  /\ Remember({p})

-----------------------------------------------------------------------------
(* What else may happen to a trading player.                               *)

\* Item::SetCount, when a stack is used up in part or added to.
SetCount(i, n) ==
  LET p == owner[i] IN
  /\ p # None /\ p \in online
  /\ n # count[i]
  /\ count' = [count EXCEPT ![i] = n]
  /\ trade' = IF Trading(p) /\ HasItem(p, i)
              THEN SetItem(trade, p, CHOOSE s \in Slots : trade[p].items[s] = i, i, TRUE)
              ELSE trade
  /\ UNCHANGED <<online, owner, bound, money>>
  /\ Remember({})

\* DestroyItem and whatever takes a whole item out of the bags (mail, auction,
\* guild bank).  Nothing tells the trade.
DestroyItem(i) ==
  /\ owner[i] \in online
  /\ owner' = [owner EXCEPT ![i] = None]
  /\ UNCHANGED <<online, trade, count, bound, money, seen>>

\* An item is bound to its owner (equipped, enchanted) or has loot generated.
Bind(i) ==
  /\ owner[i] \in online /\ i \in Bindable \ bound
  /\ bound' = bound \cup {i}
  /\ UNCHANGED <<online, trade, owner, count, money, seen>>

\* A purchase, a repair, a postage.
Spend(p) ==
  /\ p \in online /\ money[p] > 0
  /\ money' = [money EXCEPT ![p] = @ - 1]
  /\ UNCHANGED <<online, trade, owner, count, bound, seen>>

\* CleanupsBeforeDelete when the player leaves the world.
Logout(p) ==
  /\ p \in online
  /\ online' = online \ {p}
  /\ trade' = IF Trading(p) THEN Closed(trade, p) ELSE trade
  /\ UNCHANGED goods
  /\ Remember({})

Login(p) ==
  /\ p \notin online
  /\ online' = online \cup {p}
  /\ UNCHANGED <<trade, goods, seen>>

Next ==
  \/ \E p \in Players :
       \/ \E q \in Players : Initiate(p, q)
       \/ \E gold \in 0 .. MaxMoney : SetTradeGold(p, gold)
       \/ \E s \in Slots, i \in Items : SetTradeItem(p, s, i)
       \/ \E s \in Slots : ClearTradeItem(p, s)
       \/ OfferSpell(p)
       \/ Unaccept(p)
       \/ TradeCancel(p)
       \/ \E near \in BOOLEAN, unable \in SUBSET Players : Accept(p, near, unable)
       \/ Spend(p)
       \/ Logout(p)
       \/ Login(p)
  \/ \E i \in Items :
       \/ \E n \in 1 .. MaxCount[i] : SetCount(i, n)
       \/ DestroyItem(i)
       \/ Bind(i)

Spec == Init /\ [][Next]_vars

-----------------------------------------------------------------------------
\* Two players trade with each other or not at all, and both are there: a
\* TradeData never points to a player who is gone or who trades with a third
\* (TradeData::GetTraderData dereferences the trader's m_trade unchecked).
Mutual ==
  \A p \in Players : Trading(p) =>
    LET q == trade[p].trader IN
    /\ p # q
    /\ {p, q} \subseteq online
    /\ Trading(q) /\ trade[q].trader = p

\* An acceptance that stands is one of the terms as they stand: whatever
\* either player does to the money, the items, a stack's size or the spells
\* takes it back (the calls of SetAccepted in TradeData).
Consent ==
  \A p \in Players :
    Trading(p) /\ trade[p].accepted => seen[p] = Terms(p)

\* The trade of p is carried out in this step.
Executes(p) ==
  Trading(p) /\ ~ Trading(p)' /\ <<owner, money>>' # <<owner, money>>

\* What one step owes to ExchangeAsAgreed.
Agreed ==
  /\ \A i \in Items :
       owner'[i] # owner[i] => owner'[i] = None \/ Executes(owner[i])
  /\ \A p \in Players : money'[p] > money[p] => Executes(p)
  /\ \A p \in Players : Executes(p) =>
       LET q == trade[p].trader IN
       /\ Terms(p) \in {seen[p], seen[q]}
       /\ \A i \in Items : owner[i] = p =>
            owner'[i] = IF i \in Offered(p) THEN q ELSE p
       /\ money'[p] = money[p] - trade[p].money + trade[q].money

\* Money and items go from one player to another only when a trade is carried
\* out, on terms that one of the two had accepted and the other accepts; then
\* all the money and every item that its owner still has change hands at
\* once, and none is lost on the way (HandleAcceptTradeOpcode, moveItems).
ExchangeAsAgreed == [][Agreed]_vars
=============================================================================
