------------------------ MODULE MCBattlegroundQueue ------------------------
(* Two players of the Alliance and one of the Horde.                       *)
EXTENDS BattlegroundQueue

CONSTANTS a1, a2, h1

MCTeamOf == [p \in Players |-> IF p = h1 THEN "horde" ELSE "alliance"]
=============================================================================
