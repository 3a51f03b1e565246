---------------------------- MODULE RequestPlan -----------------------------
(***************************************************************************)
(* The request plan of Git Mog (github/request-plan.ts): from what the     *)
(* caches hold for each handle and from the GitHub allowance, how many     *)
(* requests each profile may spend, and which quality tier the run gets.   *)
(* The planner is pure; this module is its definition, the state machines  *)
(* that use it are in CapDealing and Preflight.                            *)
(*                                                                         *)
(* A profile is what the preflight probed for one handle:                  *)
(*   snapshotHit, analysisHit, qualityHit   \in BOOLEAN                    *)
(*   sourceMax   the source requests it may still take, already bounded    *)
(*   supported, eligible                    \in {"yes", "no", "unknown"}   *)
(*   reason      limitation of the cached quality result, or "none"        *)
(* remaining is the allowance GitHub reported, or Unread when it was not.  *)
(***************************************************************************)
EXTENDS Integers, Sequences, FiniteSets

CONSTANTS CompleteProfile,     \* requests of a complete cold profile (16)
          MinimumUseful,       \* below this a cold profile is not honest (6)
          MaxSource,           \* source requests of a profile (4)
          QualitySource,       \* source requests of the complete tier (21)
          QualityAttribution,  \* attribution requests of that tier (12)
          QualityMinimum,      \* source requests of the limited tier (5)
          Unread               \* no allowance is known

ASSUME RequestPlanAssumption ==
  /\ CompleteProfile \in Nat /\ MinimumUseful \in Nat /\ MaxSource \in Nat
  /\ QualitySource \in Nat /\ QualityAttribution \in Nat /\ QualityMinimum \in Nat
  /\ MinimumUseful <= CompleteProfile
  /\ MaxSource <= CompleteProfile
  /\ 1 <= QualityMinimum /\ QualityMinimum <= QualitySource
  /\ Unread \notin Nat

ThreeWay == {"yes", "no", "unknown"}
Reasons == {"none", "unknown", "request-budget-limited", "supported-language-limited",
            "eligible-source-limited", "attribution-limited", "mixed"}
Profile == [snapshotHit : BOOLEAN, analysisHit : BOOLEAN, qualityHit : BOOLEAN,
            sourceMax : 0..MaxSource, supported : ThreeWay, eligible : ThreeWay,
            reason : Reasons]
Dispositions == {"complete", "limited", "blocked", "unknown"}

\* One handle or two.
Total(f) == f[1] + (IF 2 \in DOMAIN f THEN f[2] ELSE 0)
Lower(a, b) == IF a <= b THEN a ELSE b
-----------------------------------------------------------------------------
(* The canonical collection *)

ExpectedCap(p) == IF p.snapshotHit THEN p.sourceMax ELSE CompleteProfile
MinimumCap(p) == IF p.snapshotHit THEN 0 ELSE MinimumUseful

ExpectedNow(p) == IF p.snapshotHit /\ p.analysisHit THEN 0 ELSE ExpectedCap(p)

Expected(ps) == Total([i \in DOMAIN ps |-> ExpectedNow(ps[i])])
Minimum(ps) == Total([i \in DOMAIN ps |-> MinimumCap(ps[i])])

Disposition(ps, remaining) ==
  IF Expected(ps) = 0 THEN "complete"
  ELSE IF remaining = Unread THEN "unknown"
  ELSE IF remaining >= Expected(ps) THEN "complete"
  ELSE IF remaining >= Minimum(ps) THEN "limited" ELSE "blocked"

(***************************************************************************)
(* A limited plan gives every profile its minimum and deals the rest out   *)
(* one by one, in turns, to the profiles below their expected cap.  After  *)
(* "passes" full rounds a profile has its minimum plus that many, never    *)
(* more than expected; what is left goes to the first ones with room.      *)
(* Module Collecting shows that the loop of the code deals these caps.     *)
(***************************************************************************)
AfterPasses(ps, k) ==
  [i \in DOMAIN ps |-> Lower(MinimumCap(ps[i]) + k, ExpectedCap(ps[i]))]

FairCaps(ps, remaining) ==
  LET passes == CHOOSE k \in 0..CompleteProfile :
                  /\ Total(AfterPasses(ps, k)) <= remaining
                  /\ Total(AfterPasses(ps, k + 1)) > remaining
      even == AfterPasses(ps, passes)
      left == remaining - Total(even)
      hasRoom(i) == even[i] < ExpectedCap(ps[i])
  IN [i \in DOMAIN ps |->
        even[i] + IF hasRoom(i) /\ Cardinality({j \in 1..i : hasRoom(j)}) <= left
                  THEN 1 ELSE 0]

\* Mutant: a plan that cannot run keeps the caps of a complete one.
CapsKept(ps, remaining) ==
  IF Disposition(ps, remaining) = "limited" THEN FairCaps(ps, remaining)
  ELSE [i \in DOMAIN ps |-> ExpectedCap(ps[i])]

Caps(ps, remaining) ==
  CASE Disposition(ps, remaining) = "complete" -> [i \in DOMAIN ps |-> ExpectedCap(ps[i])]
    [] Disposition(ps, remaining) = "limited"  -> FairCaps(ps, remaining)
    [] OTHER                                   -> [i \in DOMAIN ps |-> 0]
-----------------------------------------------------------------------------
(* The quality preview *)

QualityComplete(ps) == Len(ps) * (QualitySource + QualityAttribution)

\* Mutant: the canonical reservation is not kept aside.
QualityAvailableAll(ps, remaining) == remaining

\* A cold collection of every handle is reserved first, whatever is cached.
QualityAvailable(ps, remaining) ==
  LET spare == remaining - Len(ps) * CompleteProfile
  IN IF spare > 0 THEN spare ELSE 0

AllQualityHits(ps) == \A i \in DOMAIN ps : ps[i].qualityHit

QualityDisposition(ps, remaining, signedIn, enabled) ==
  IF ~enabled THEN "complete"
  ELSE IF remaining = Unread
       THEN IF ~AllQualityHits(ps) THEN "unknown"
            ELSE IF signedIn THEN "complete" ELSE "limited"
       ELSE IF signedIn /\ QualityAvailable(ps, remaining) >= QualityComplete(ps)
            THEN "complete"
            ELSE IF QualityAvailable(ps, remaining) >= Len(ps) * QualityMinimum
                 THEN "limited" ELSE "blocked"

QualityCap(disposition, enabled) ==
  CASE enabled /\ disposition = "complete" ->
         [source |-> QualitySource, attribution |-> QualityAttribution]
    [] enabled /\ disposition = "limited" ->
         [source |-> QualityMinimum, attribution |-> 0]
    [] OTHER -> [source |-> 0, attribution |-> 0]

QualityHits(ps, enabled) == {i \in DOMAIN ps : enabled /\ ps[i].qualityHit}

Allocated(ps, cap, enabled) ==
  Total([i \in DOMAIN ps |-> IF i \in QualityHits(ps, enabled) THEN 0
                             ELSE cap.source + cap.attribution])

Opportunity(values) ==
  IF "yes" \in values THEN "yes" ELSE IF values = {"no"} THEN "no" ELSE "unknown"

\* Why the preview is short: the first of these that applies.
Limitation(ps, disposition, enabled) ==
  LET supported == Opportunity({ps[i].supported : i \in DOMAIN ps})
      eligible == Opportunity({ps[i].eligible : i \in DOMAIN ps})
      byBudget == enabled /\ disposition # "complete" /\ supported = "yes"
      others == {ps[i].reason : i \in DOMAIN ps}
                  \ {"none", "unknown", "request-budget-limited"}
  IN IF eligible = "no" THEN "eligible-source-limited"
     ELSE IF supported = "no" THEN "supported-language-limited"
     ELSE IF (byBudget /\ others # {}) \/ Cardinality(others) > 1 THEN "mixed"
     ELSE IF byBudget THEN "request-budget-limited"
     ELSE IF others # {} THEN CHOOSE r \in others : TRUE ELSE "unknown"

SignInMayImprove(ps, disposition, signedIn, enabled) ==
  /\ ~signedIn
  /\ \E i \in DOMAIN ps : ps[i].supported = "yes"
  /\ Limitation(ps, disposition, enabled) \in {"request-budget-limited", "mixed"}
-----------------------------------------------------------------------------
\* buildGithubRequestPlan: the fields of the plan that steer a run.
Plan(ps, remaining, signedIn, enabled) ==
  LET quality == QualityDisposition(ps, remaining, signedIn, enabled)
      cap == QualityCap(quality, enabled)
  IN [disposition |-> Disposition(ps, remaining),
      expected |-> Expected(ps),
      remaining |-> remaining,
      caps |-> Caps(ps, remaining),
      signedIn |-> signedIn,
      quality |-> quality,
      qualityCap |-> cap,
      qualityHits |-> Cardinality(QualityHits(ps, enabled)),
      qualityExpected |-> Allocated(ps, cap, enabled),
      signInMayImprove |-> SignInMayImprove(ps, quality, signedIn, enabled)]

CollectionMayBegin(plan) == plan.disposition \in {"complete", "limited"}
=============================================================================
