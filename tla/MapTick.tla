-------------------------------- MODULE MapTick --------------------------------
(***************************************************************************)
(* What MapUpdater promises MapManager::Update, without threads or queue:  *)
(* maps are requested and updated only while the tick is in its update     *)
(* phase, each at most once, and the phase ends only when every requested  *)
(* map has been updated.                                                   *)
(***************************************************************************)
CONSTANT Maps

VARIABLES phase,        \* "idle", "updating", "delayed" or "stopped"
          outstanding,  \* maps requested in this tick and not yet updated
          updated       \* maps updated in this tick

tickVars == <<phase, outstanding, updated>>

TickInit == phase = "idle" /\ outstanding = {} /\ updated = {}

Begin == /\ phase = "idle"
         /\ phase' = "updating"
         /\ updated' = {}
         /\ UNCHANGED outstanding

Request(m) == /\ phase = "updating"
              /\ m \notin outstanding \cup updated
              /\ outstanding' = outstanding \cup {m}
              /\ UNCHANGED <<phase, updated>>

Finish(m) == /\ phase = "updating"
             /\ m \in outstanding
             /\ outstanding' = outstanding \ {m}
             /\ updated' = updated \cup {m}
             /\ UNCHANGED phase

Release == /\ phase = "updating"
           /\ outstanding = {}
           /\ phase' = "delayed"
           /\ UNCHANGED <<outstanding, updated>>

End == phase = "delayed" /\ phase' = "idle" /\ UNCHANGED <<outstanding, updated>>

Stop == phase = "idle" /\ phase' = "stopped" /\ UNCHANGED <<outstanding, updated>>

TickNext == \/ Begin \/ Release \/ End \/ Stop
            \/ \E m \in Maps : Request(m) \/ Finish(m)

TickSpec == TickInit /\ [][TickNext]_tickVars
=============================================================================
