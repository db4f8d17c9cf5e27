--------------------------- MODULE MCWorldSessions ---------------------------
(* Up to three accounts; Ann may be connected twice.  Either everybody     *)
(* comes and goes through a queue of up to two, or Ann and Bob play while  *)
(* the limit changes, or those who were disconnected return in time.       *)
EXTENDS WorldSessions

CONSTANTS Ann, Bob, Cid, ann1, ann2, bob1, cid1

MCAcct == [s \in Sessions |-> CASE s \in {ann1, ann2} -> Ann
                                [] s = bob1 -> Bob
                                [] s = cid1 -> Cid]

Waiting == [clients |-> {ann1, ann2, bob1, cid1}, limits |-> {1}, logins |-> FALSE,
            tolerance |-> 0, time |-> 0]
Playing == [clients |-> {ann1, ann2, bob1}, limits |-> {0, 1}, logins |-> TRUE,
            tolerance |-> 0, time |-> 0]
Returning == [clients |-> {ann1, bob1}, limits |-> {1}, logins |-> FALSE,
              tolerance |-> 1, time |-> 1]

MCScenarios == {Waiting, Playing, Returning}
MCReturning == {Returning}

\* Every session whose socket is closed is removed (WorldSession::Update,
\* World::UpdateSessions).  It is followed for one session of the account that
\* may be connected twice and may have to wait: ann2 is as ann1, bob1 is as
\* ann1 without being replaced, and cid1 without waiting either.
SessionsEnd == ClosedRemoved(ann1)
=============================================================================
