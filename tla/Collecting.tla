----------------------------- MODULE Collecting -----------------------------
(***************************************************************************)
(* The planner and the collector it pays for: the allowance is dealt into  *)
(* caps (CapDealing), then a profile is collected by a client whose        *)
(* maxRequests is its cap (Collector).  One of the profiles is followed;   *)
(* the other one spends its own cap and shares nothing with it.            *)
(***************************************************************************)
EXTENDS CapDealing, Collector

\* The useful minimum of the planner pays the user, the repository pages and one
\* whole inspection of the collector (6 = 1 + 2 + 3).
ASSUME MinimumPaysInspection ==
  1 + RepositoryPages + PerRepository <= MinimumUseful

VARIABLE who   \* the profile whose collection is followed

collecting == <<dealing, vars, who>>

\* collectionMayBegin
PlanBegins == Disposition(ps, remaining) \in {"complete", "limited"}

CollectingInit ==
  /\ DealInit /\ Init
  /\ who \in DOMAIN ps
  /\ cap = Caps(ps, remaining)[who]

Deal == DealNext /\ UNCHANGED <<vars, who>>

\* The run starts when the plan allows it, with the cap the loop has dealt.
Collect ==
  /\ stage = "done" /\ PlanBegins
  /\ cap = caps[who]
  /\ Next
  /\ UNCHANGED <<dealing, who>>

CollectingNext == Deal \/ Collect

\* The loop is synchronous code, and every request is answered or times out.
CollectingSpec == CollectingInit /\ [][CollectingNext]_collecting /\ WF_collecting(CollectingNext)
-----------------------------------------------------------------------------
\* What a plan buys: whenever a run may begin, the dealing loop comes to the caps
\* the plan names and the collection to an end; and unless GitHub fails it, a
\* profile that was planned without a snapshot has an inspected repository if it
\* has any to inspect, however short the allowance and whoever shares it
\* (MINIMUM_USEFUL_COLD_REQUESTS, the smallest "honest" read).
PlanPaysOff ==
  PlanBegins ~>
    \/ pc \in {"cached", "failed"}
    \/ pc = "done" /\ (~ps[who].snapshotHit /\ selected > 0 => inspected > 0)
=============================================================================
