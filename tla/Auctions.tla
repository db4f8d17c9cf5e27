------------------------------ MODULE Auctions -------------------------------
(***************************************************************************)
(* One auction house (AuctionHouseObject, AuctionHouseMgr) and its opcodes *)
(* (AuctionHouseHandler.cpp).  An auction is listed before its deposit is  *)
(* paid: the owner's new auctions wait in pendingAuctionMap until none was *)
(* added between two updates, and are then charged for together.  Until    *)
(* then they can be bid on, bought and cancelled like any other.  What the *)
(* house owes it sends by mail.  Everything runs in the world thread.      *)
(***************************************************************************)
EXTENDS Integers, Sequences, FiniteSets, FiniteSetsExt, Functions

CONSTANTS Players, Items,
          None,        \* bidder 0
          FirstOwner,  \* who has each item at first
          FirstMoney,  \* and how much money each player has
          DepositOf,   \* GetAuctionDeposit for one piece of each item
          MaxDeposit,  \* bound: the highest of them
          Prices,      \* amounts a player may bid
          Offers,      \* starting bids and buyouts (0: none) a seller may name
          CutPercent,  \* what the house takes of a sale, percent
          Leavers,     \* bound: players who log out and in again
          MaxAuctions  \* bound: auctions ever listed

ASSUME NoneAssumption == None \notin Players /\ IsFiniteSet(Players)
ASSUME FirstAssumption ==
  FirstOwner \in [Items -> Players] /\ FirstMoney \in [Players -> Nat]
ASSUME PriceAssumption ==
  /\ Prices \subseteq Nat \ {0} /\ Offers \subseteq (Nat \ {0}) \X Nat
  /\ MaxDeposit \in Nat /\ DepositOf \in [Items -> 1 .. MaxDeposit]
  /\ CutPercent \in 0 .. 100
ASSUME MaxAssumption == MaxAuctions \in Nat

VARIABLES
  entry,     \* every AuctionEntry ever made, by its Id; live: it is in AuctionsMap
  stored,    \* mAitems
  bags,      \* who carries each item; None: nobody
  mailed,    \* in whose mail each item is; None: in nobody's
  purse,     \* PLAYER_FIELD_COINAGE
  mailMoney, \* money in each player's mail
  online,    \* players FindConnectedPlayer finds
  pending,   \* pendingAuctionMap: each player's auctions not charged for
  counted,   \* their number at the last update (AuctionPair::second)
  till       \* history: what the house has taken, less what it has given

itemVars  == <<stored, bags, mailed>>
moneyVars == <<purse, mailMoney, till>>
waiting   == <<pending, counted>>
vars == <<entry, itemVars, moneyVars, online, waiting>>

Ids  == DOMAIN entry
Live == {id \in Ids : entry[id].live}

Init ==
  /\ entry = <<>>
  /\ stored = {}
  /\ bags = FirstOwner
  /\ mailed = [i \in Items |-> None]
  /\ purse = FirstMoney
  /\ mailMoney = [p \in Players |-> 0]
  /\ online = Players
  /\ pending = [p \in Players |-> <<>>]
  /\ counted = [p \in Players |-> 0]
  /\ till = 0

TypeOK ==
  /\ entry \in Seq([owner : Players, item : Items, bidder : Players \cup {None},
                    bid : Nat, buyout : Nat, startbid : Nat, deposit : Nat,
                    expired : BOOLEAN, live : BOOLEAN])
  /\ stored \subseteq Items
  /\ bags \in [Items -> Players \cup {None}] /\ mailed \in [Items -> Players \cup {None}]
  /\ purse \in [Players -> Nat] /\ mailMoney \in [Players -> Nat]
  /\ online \subseteq Players
  /\ pending \in [Players -> Seq(Ids)]
  /\ counted \in [Players -> Nat] /\ till \in Int

-----------------------------------------------------------------------------
CalculatePct(n, percent) == (n * percent) \div 100

GetAuctionCut(bid) == CalculatePct(bid, CutPercent)

\* One twentieth of the bid, and at least the smallest coin.
GetAuctionOutBid(bid) ==
  IF CalculatePct(bid, 5) = 0 THEN 1 ELSE CalculatePct(bid, 5)

\* ModifyMoney with a negative amount stops at zero.
Reduced(money, amount) == IF money > amount THEN money - amount ELSE 0

\* GetAuctionDeposit for the items of a list of auctions, at the price of item.
DepositFor(n, item) == n * DepositOf[item]

\* An entry of the list of p was deleted since it was listed.
Stale(p) == \E k \in DOMAIN pending[p] : pending[p][k] \notin Live

\* HandleAuctionSellItem for one whole stack, with PendingAuctionAdd: the purse
\* must hold the deposits of all the player's pending auctions, counted at the
\* price of the new item.  A deleted entry among them makes that sum anything.
SellItem(p, i, startbid, buyout) ==
  LET new == [owner |-> p, item |-> i, bidder |-> None, bid |-> 0,
              buyout |-> buyout, startbid |-> startbid, deposit |-> DepositOf[i],
              expired |-> FALSE, live |-> TRUE]
  IN
  /\ p \in online /\ bags[i] = p
  /\ i \notin stored
  /\ Len(entry) < MaxAuctions
  /\ purse[p] >= DepositFor(IF Stale(p) THEN 1 ELSE Len(pending[p]) + 1, i)
  /\ pending' = [pending EXCEPT ![p] = Append(@, Len(entry) + 1)]
  /\ entry' = Append(entry, new)
  /\ stored' = stored \cup {i}
  /\ bags' = [bags EXCEPT ![i] = None]
  /\ UNCHANGED <<mailed, moneyVars, online, counted>>

\* Mutant: the item stays in mAitems.
RemoveAuction_ItemKept(id) ==
  /\ entry' = [entry EXCEPT ![id].live = FALSE]
  /\ UNCHANGED stored

\* The auction leaves AuctionsMap and its item mAitems; the entry is deleted.
RemoveAuction(id) ==
  /\ entry' = [entry EXCEPT ![id].live = FALSE]
  /\ stored' = stored \ {entry[id].item}

\* SendAuctionSuccessfulMail.
Profit(e) == e.bid + e.deposit - GetAuctionCut(e.bid)

\* Mutant: the last bidder is sent what the new one pays.
Refund_NewPrice(e, price) == [x \in Players |-> IF x = e.bidder THEN price ELSE 0]

\* SendAuctionOutbiddedMail: the money of the last bidder goes back.
Refund(e, price) == [x \in Players |-> IF x = e.bidder THEN e.bid ELSE 0]

\* Mutant: a bidder who raises his own bid pays the whole price again.
Owed_Full(e, p, price) == price

\* What a bidder pays: only the difference to his own last bid.
Owed(e, p, price) == IF e.bidder = p THEN price - e.bid ELSE price

\* The refund of a bid of p, if another player had bid.
Returned(e, p, price) ==
  [x \in Players |-> IF e.bidder = p THEN 0 ELSE Refund(e, price)[x]]

\* The checks HandleAuctionPlaceBid makes before anything changes.
MayBid(p, id, price) ==
  LET e == entry[id] IN
  /\ p \in online /\ id \in Live
  /\ e.owner # p
  /\ price > e.bid /\ price >= e.startbid
  /\ \/ e.buyout # 0 /\ price >= e.buyout
     \/ price >= e.bid + GetAuctionOutBid(e.bid)
  /\ purse[p] >= price

\* HandleAuctionPlaceBid below the buyout price.
PlaceBid(p, id, price) ==
  LET e == entry[id] IN
  /\ MayBid(p, id, price)
  /\ e.buyout = 0 \/ price < e.buyout
  /\ purse' = [purse EXCEPT ![p] = Reduced(@, Owed(e, p, price))]
  /\ mailMoney' = [x \in Players |-> mailMoney[x] + Returned(e, p, price)[x]]
  /\ entry' = [entry EXCEPT ![id].bidder = p, ![id].bid = price]
  /\ UNCHANGED <<itemVars, online, waiting, till>>

\* HandleAuctionPlaceBid at the buyout price: the auction ends at once.
Buyout(p, id, price) ==
  LET e    == entry[id]
      sold == [e EXCEPT !.bidder = p, !.bid = e.buyout]
  IN
  /\ MayBid(p, id, price)
  /\ e.buyout # 0 /\ price >= e.buyout
  /\ purse' = [purse EXCEPT ![p] = Reduced(@, Owed(e, p, e.buyout))]
  /\ mailMoney' = [x \in Players |-> mailMoney[x] + Returned(e, p, e.buyout)[x]
                                     + IF x = e.owner THEN Profit(sold) ELSE 0]
  /\ till' = till + sold.bid - Profit(sold)
  /\ mailed' = [mailed EXCEPT ![e.item] = p]
  /\ RemoveAuction(id)
  /\ UNCHANGED <<bags, online, waiting>>

\* HandleAuctionRemoveItem: the owner pays the cut of a bid that is given back.
RemoveItem(p, id) ==
  LET e   == entry[id]
      cut == IF e.bidder = None THEN 0 ELSE GetAuctionCut(e.bid)
  IN
  /\ p \in online /\ id \in Live /\ e.owner = p
  /\ purse[p] >= cut
  /\ purse' = [purse EXCEPT ![p] = Reduced(@, cut)]
  /\ mailMoney' = [x \in Players |-> mailMoney[x] + IF x = e.bidder THEN e.bid ELSE 0]
  /\ till' = till + cut
  /\ mailed' = [mailed EXCEPT ![e.item] = p]
  /\ RemoveAuction(id)
  /\ UNCHANGED <<bags, online, waiting>>

-----------------------------------------------------------------------------
(* The updates of the world: every 250 ms and every minute.                *)

\* What PendingAuctionProcess computes as the deposit of the list of p: for all
\* its items at the price of the first.  With a deleted entry in the list it
\* reads freed memory and may come to anything.
TotalDeposit(p) ==
  LET n == Len(pending[p]) IN
  IF Stale(p) THEN 0 .. n * MaxDeposit
  ELSE {DepositFor(n, entry[Head(pending[p])].item)}

\* The share of the k-th of n auctions; the last one gets the remainder.
Share(total, k, n) ==
  IF k = n THEN total - (n - 1) * (total \div n) ELSE total \div n

\* Mutant: the number of auctions is not remembered.
Counted_Never(p) == counted[p]

Counted(p) == Len(pending[p])

\* UpdatePendingAuctions.  A player whose list did not grow since the last
\* update is charged; the auctions of one who has left are made to expire.
UpdatePendingAuctions ==
  LET Waiting == {p \in Players : pending[p] # <<>>}
      Charged == {p \in Waiting \cap online : Len(pending[p]) = counted[p]}
      Gone    == Waiting \ online
  IN
  /\ Waiting # {}
  /\ \E total \in [Charged -> 0 .. MaxAuctions * MaxDeposit] :
       /\ \A p \in Charged : total[p] \in TotalDeposit(p)
       /\ entry' = [id \in Ids |->
            LET p == entry[id].owner
                at == {k \in DOMAIN pending[p] : pending[p][k] = id}
            IN  IF at = {} THEN entry[id]
                ELSE IF p \in Charged
                THEN [entry[id] EXCEPT !.deposit =
                        Share(total[p], Max(at), Len(pending[p]))]
                ELSE IF p \in Gone THEN [entry[id] EXCEPT !.expired = TRUE]
                ELSE entry[id]]
       /\ purse' = [p \in Players |->
            IF p \in Charged THEN Reduced(purse[p], total[p]) ELSE purse[p]]
       /\ till' = till + SumFunctionOnSet([p \in Players |-> purse[p] - purse'[p]], Charged)
  /\ pending' = [p \in Players |-> IF p \in Charged \cup Gone THEN <<>> ELSE pending[p]]
  /\ counted' = [p \in Players |->
       IF p \in Charged \cup Gone THEN 0
       ELSE IF p \in Waiting THEN Counted(p) ELSE counted[p]]
  /\ UNCHANGED <<itemVars, mailMoney, online>>

\* AuctionHouseObject::Update: every expired auction is sold or given back.
Update ==
  LET Ended == {id \in Live : entry[id].expired}
      Sold  == {id \in Ended : entry[id].bidder # None}
      To(id) == IF id \in Sold THEN entry[id].bidder ELSE entry[id].owner
      Bid    == [id \in Ids |-> entry[id].bid]
      Earned == [id \in Ids |-> Profit(entry[id])]
  IN
  /\ Ended # {}
  /\ mailMoney' = [p \in Players |->
       mailMoney[p] + SumFunctionOnSet(Earned, {id \in Sold : entry[id].owner = p})]
  /\ till' = till + SumFunctionOnSet(Bid, Sold) - SumFunctionOnSet(Earned, Sold)
  /\ mailed' = [i \in Items |->
       IF \E id \in Ended : entry[id].item = i
       THEN To(CHOOSE id \in Ended : entry[id].item = i) ELSE mailed[i]]
  /\ stored' = stored \ {entry[id].item : id \in Ended}
  /\ entry' = [id \in Ids |-> IF id \in Ended
                              THEN [entry[id] EXCEPT !.live = FALSE] ELSE entry[id]]
  /\ UNCHANGED <<bags, purse, online, waiting>>

\* The time of an auction runs out: hours after its deposit was charged.
RunsOut(id) ==
  /\ id \in Live /\ ~ entry[id].expired
  /\ \A k \in DOMAIN pending[entry[id].owner] : pending[entry[id].owner][k] # id
  /\ entry' = [entry EXCEPT ![id].expired = TRUE]
  /\ UNCHANGED <<itemVars, moneyVars, online, waiting>>

-----------------------------------------------------------------------------
(* The players' mail, comings and goings.                                  *)

\* HandleMailTakeMoney and HandleMailTakeItem, for all that has arrived.
TakeMail(p) ==
  LET arrived == {i \in Items : mailed[i] = p} IN
  /\ p \in online
  /\ mailMoney[p] > 0 \/ arrived # {}
  /\ purse' = [purse EXCEPT ![p] = @ + mailMoney[p]]
  /\ mailMoney' = [mailMoney EXCEPT ![p] = 0]
  /\ bags' = [i \in Items |-> IF i \in arrived THEN p ELSE bags[i]]
  /\ mailed' = [i \in Items |-> IF i \in arrived THEN None ELSE mailed[i]]
  /\ UNCHANGED <<entry, stored, online, waiting, till>>

Logout(p) ==
  /\ p \in online \cap Leavers
  /\ online' = online \ {p}
  /\ UNCHANGED <<entry, itemVars, moneyVars, waiting>>

Login(p) ==
  /\ p \notin online
  /\ online' = online \cup {p}
  /\ UNCHANGED <<entry, itemVars, moneyVars, waiting>>

Next ==
  \/ \E p \in Players :
       \/ \E i \in Items, offer \in Offers : SellItem(p, i, offer[1], offer[2])
       \/ \E id \in Ids :
            \/ \E price \in Prices : PlaceBid(p, id, price) \/ Buyout(p, id, price)
            \/ RemoveItem(p, id)
       \/ TakeMail(p) \/ Logout(p) \/ Login(p)
  \/ UpdatePendingAuctions
  \/ Update
  \/ \E id \in Ids : RunsOut(id)

\* The timers of World::Update.
Fairness == WF_vars(UpdatePendingAuctions) /\ WF_vars(Update)

Spec == Init /\ [][Next]_vars /\ Fairness

-----------------------------------------------------------------------------
\* Every item is in one place: somebody's bags, somebody's mail, or the house,
\* and there as the item of exactly one auction (mAitems against AuctionsMap:
\* an item without auction stays in the house for ever, an auction without
\* item pays its owner for nothing).
ItemsAccounted ==
  /\ stored = {entry[id].item : id \in Live}
  /\ \A id, other \in Live : entry[id].item = entry[other].item => id = other
  /\ \A i \in Items :
       Cardinality({place \in 1 .. 3 : \/ place = 1 /\ bags[i] # None
                                       \/ place = 2 /\ mailed[i] # None
                                       \/ place = 3 /\ i \in stored}) = 1

BidsOf(P) == SumFunctionOnSet([id \in Ids |-> entry[id].bid],
                              {id \in Live : entry[id].bidder \in P})

Worth(P) ==
  SumFunctionOnSet([p \in Players |-> purse[p] + mailMoney[p]], P) + BidsOf(P)

\* No money is made or lost: what the players carry, have in the mail and have
\* bid, and what the house took, is what there was at first; whoever outbids,
\* raises, buys out, cancels or lets an auction run out.
MoneyConserved ==
  Worth(Players) + till = SumFunctionOnSet(FirstMoney, Players)

\* A player gets poorer only by the deposits of auctions he has pending, by the
\* cut of an auction he cancels, or for an item he is sent: a bid that did not
\* win comes back in full (the mails of AuctionHouseMgr).
PaysForSomething ==
  [][\A p \in Players : Worth({p})' < Worth({p}) =>
       \/ pending[p] # <<>> /\ pending'[p] = <<>>
       \/ \E i \in Items : mailed[i] # p /\ mailed'[i] = p]_vars

\* Player p lists another auction.
Lists(p) == Len(pending'[p]) > Len(pending[p])

\* Auctions do not stay unpaid: the list of a player who stops adding to it is
\* charged or made to expire, whatever becomes of the auctions in it and
\* wherever he goes meanwhile (UpdatePendingAuctions).  Of one who lists an
\* auction between every two updates nothing is promised: a list that has grown
\* is not charged.
Settled ==
  \A p \in Players :
    <>[][~ Lists(p)]_vars => (pending[p] # <<>> ~> pending[p] = <<>>)
=============================================================================
