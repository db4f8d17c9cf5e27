----------------------------- MODULE MCMPSCQueue -----------------------------
(* Two producers, two kinds of items and four nodes: enough for a node     *)
(* to be reused while two producers are between exchange and link.         *)
EXTENDS MPSCQueue

CONSTANTS n1, n2, n3, n4, x1, x2, p1, p2
=============================================================================
