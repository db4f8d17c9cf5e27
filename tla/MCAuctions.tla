----------------------------- MODULE MCAuctions ------------------------------
(* A seller with two different items and two who bid.                      *)
EXTENDS Auctions, TLC

CONSTANTS p1, p2, p3, i1, i2

MCFirstOwner == (i1 :> p1) @@ (i2 :> p1)
MCFirstMoney == (p1 :> 2) @@ (p2 :> 2) @@ (p3 :> 1)
MCOffers     == {<<1, 0>>, <<1, 2>>}
MCDepositOf  == (i1 :> 1) @@ (i2 :> 2)
=============================================================================
