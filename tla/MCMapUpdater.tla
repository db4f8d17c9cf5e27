----------------------------- MODULE MCMapUpdater -----------------------------
(* A continent, a dungeon map with two instances, a battleground map with  *)
(* one, and two workers.                                                   *)
EXTENDS MapUpdater

CONSTANTS Eastern, Deadmines, Warsong, Dead1, Dead2, Ws1, w1, w2

MCBaseMaps  == {Eastern, Deadmines, Warsong}
MCInstances == {Dead1, Dead2, Ws1}
MCParent    == [i \in MCInstances |-> IF i = Ws1 THEN Warsong ELSE Deadmines]
=============================================================================
