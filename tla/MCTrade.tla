------------------------------- MODULE MCTrade -------------------------------
(* Two players who own something, and a third to trade with.               *)
EXTENDS Trade

CONSTANTS p1, p2, p3, i1, i2

MCFirstOwner == (i1 :> p1) @@ (i2 :> p2)
MCFirstMoney == (p1 :> 1) @@ (p2 :> 1) @@ (p3 :> 0)
MCCapacity   == (p1 :> 1) @@ (p2 :> 2) @@ (p3 :> 1)
MCMaxCount   == (i1 :> 2) @@ (i2 :> 1)
=============================================================================
