----------------------------- MODULE MCCliFiles -----------------------------
(* Two invocations with one destination, and a --clear-cache.              *)
EXTENDS CliFiles, TLC

MCClearers == {"c"}
MCProcs == {"p1", "p2"}
MCLegacyFiles == {"l1"}
MCLeftovers == {[p1 |-> taken, p2 |-> 0] : taken \in {1, 2}}
=============================================================================
