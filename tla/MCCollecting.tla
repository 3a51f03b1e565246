---------------------------- MODULE MCCollecting ----------------------------
(* The planner's own constants; profiles without a snapshot, with one that   *)
(* is read already, and with one whose source may take none to all of its    *)
(* requests; every allowance up to one above two complete profiles.          *)
EXTENDS Collecting

Cold == [snapshotHit |-> FALSE, analysisHit |-> FALSE, qualityHit |-> FALSE,
         sourceMax |-> MaxSource, supported |-> "unknown", eligible |-> "unknown",
         reason |-> "none"]

Warm == {[Cold EXCEPT !.snapshotHit = TRUE, !.sourceMax = m] : m \in 0..MaxSource}

MCProfiles == {Cold, [Cold EXCEPT !.snapshotHit = TRUE, !.analysisHit = TRUE]} \cup Warm
MCRemainings == 0..(2 * CompleteProfile + 1) \cup {Unread}
=============================================================================
