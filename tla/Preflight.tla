----------------------------- MODULE Preflight ------------------------------
(***************************************************************************)
(* What a run of the CLI does before it collects anything: probe the       *)
(* caches, read the GitHub allowance, plan, ask the user, sign in, plan    *)
(* again, and let the collection begin or refuse it (cli/preflight.ts and  *)
(* the preflight part of run in cli/cli.ts).                               *)
(*                                                                         *)
(* Between a probe and the answer to the allowance read, and between two   *)
(* plans, other processes store and evict cache entries, entries expire    *)
(* and other clients spend the same allowance: every probe and every       *)
(* reading is an arbitrary member of its set.                              *)
(***************************************************************************)
EXTENDS RequestPlan

CONSTANTS Profiles,  \* bound: the probe results considered
          Readings   \* bound: the allowances GitHub may report

ASSUME PreflightAssumption ==
  /\ Profiles \subseteq Profile
  /\ Readings \subseteq Nat

VARIABLES opts,       \* the flags of the command line and the terminal
          pc,
          after,      \* where a plan that was made leads
          token,      \* "none", "explicit" or "device"
          probes,     \* what the latest planning found in the caches
          plan,       \* requestPlan
          qualityOn,  \* qualityEnabledForRun
          consented,  \* history: the user accepted a smaller read
          asked,      \* history: questions asked
          signIns     \* history: device authorizations that succeeded

choices == <<token, qualityOn, consented, asked, signIns>>
vars == <<opts, pc, after, probes, plan, choices>>

\* Command lines that pass the validation of run.  canAsk: not --json, not
\* --no-prompt, a terminal and a prompt.
Options ==
  {o \in [canAsk : BOOLEAN, anonymous : BOOLEAN, signIn : BOOLEAN, explicit : BOOLEAN,
          quality : {"off", "auto", "required"}] :
     /\ ~(o.signIn /\ o.anonymous) /\ ~(o.signIn /\ o.explicit)
     /\ ~(o.anonymous /\ o.explicit)
     /\ ~(o.anonymous /\ o.quality = "required")}

ProbeResults == [1..1 -> Profiles] \cup [1..2 -> Profiles]
SignedIn == token # "none"

Init ==
  /\ opts \in Options
  /\ pc = "start" /\ after = "gate"
  /\ token = IF opts.explicit THEN "explicit" ELSE "none"
  /\ probes = <<>>
  /\ plan = <<>>
  /\ qualityOn = (opts.quality # "off")
  /\ consented = FALSE /\ asked = 0 /\ signIns = 0

Refuse == pc' = "refused" /\ UNCHANGED <<opts, after, probes, plan, choices>>

\* authorizeOnce, then a new plan for the signed-in identity.
Authorized(next) ==
  /\ token' = "device"
  /\ signIns' = signIns + 1
  /\ pc' = "plan" /\ after' = next
  /\ UNCHANGED <<opts, probes, plan, qualityOn, consented, asked>>
-----------------------------------------------------------------------------
Start ==
  /\ pc = "start"
  /\ \/ opts.signIn /\ (Authorized("gate") \/ Refuse)
     \/ /\ ~opts.signIn
        /\ pc' = "plan"
        /\ UNCHANGED <<opts, after, probes, plan, choices>>

\* planGithubInvocation: a run that needs no request does not read the allowance.
NeedsNothing(p) ==
  /\ p.expected = 0 /\ p.qualityExpected = 0
  /\ p.quality = "complete" \/ p.qualityHits = Len(p.caps)

Probe ==
  /\ pc = "plan"
  /\ probes' \in ProbeResults
  /\ plan # <<>> => Len(probes') = Len(plan.caps)
  /\ LET provisional == Plan(probes', Unread, SignedIn, qualityOn)
     IN IF NeedsNothing(provisional)
        THEN plan' = provisional /\ pc' = after
        ELSE pc' = "allowance" /\ plan' = plan
  /\ UNCHANGED <<opts, after, choices>>

ReadAllowance ==
  /\ pc = "allowance"
  /\ \E r \in Readings : plan' = Plan(probes, r, SignedIn, qualityOn)
  /\ pc' = after
  /\ UNCHANGED <<opts, after, probes, choices>>

\* Without an allowance a warm canonical run goes on as if nothing were left;
\* any other is refused, or goes on without the quality preview when the plan
\* was made for it alone.
AllowanceFails ==
  /\ pc = "allowance"
  /\ \/ /\ Expected(probes) = 0
        /\ plan' = Plan(probes, 0, SignedIn, qualityOn)
        /\ pc' = after
        /\ UNCHANGED qualityOn
     \/ /\ Expected(probes) # 0
        /\ IF after = "final"
           THEN pc' = "final" /\ qualityOn' = FALSE
           ELSE pc' = "refused" /\ UNCHANGED qualityOn
        /\ UNCHANGED plan
  /\ UNCHANGED <<opts, after, probes, token, consented, asked, signIns>>
-----------------------------------------------------------------------------
(* The canonical gate *)

MayAsk == opts.canAsk /\ ~opts.anonymous /\ ~SignedIn

Gate ==
  /\ pc = "gate"
  /\ IF plan.disposition # "complete" /\ MayAsk
     THEN pc' = "askLimit" /\ asked' = asked + 1
     ELSE pc' = "limitGate" /\ asked' = asked
  /\ UNCHANGED <<opts, after, probes, plan, token, qualityOn, consented, signIns>>

AnswerLimit ==
  /\ pc = "askLimit"
  /\ \/ Authorized("limitGate")
     \/ /\ plan.disposition = "limited"
        /\ consented' = TRUE
        /\ pc' = "limitGate"
        /\ UNCHANGED <<opts, after, probes, plan, token, qualityOn, asked, signIns>>
     \/ Refuse   \* cancelled, or the sign-in failed

LimitGate ==
  /\ pc = "limitGate"
  /\ IF \/ plan.disposition = "complete"
        \/ plan.disposition = "limited" /\ (opts.anonymous \/ (opts.canAsk /\ ~SignedIn))
     THEN pc' = "qualityGate"
     ELSE pc' = "refused"
  /\ UNCHANGED <<opts, after, probes, plan, choices>>
-----------------------------------------------------------------------------
(* The quality gate *)

QualityGate ==
  /\ pc = "qualityGate"
  /\ IF qualityOn /\ plan.quality # "complete" /\ plan.signInMayImprove /\ MayAsk
     THEN pc' = "askQuality" /\ asked' = asked + 1
     ELSE pc' = "final" /\ asked' = asked
  /\ UNCHANGED <<opts, after, probes, plan, token, qualityOn, consented, signIns>>

\* The new plan of a sign-in here is not taken back to the canonical gate.
AnswerQuality ==
  /\ pc = "askQuality"
  /\ \/ Authorized("final")
     \/ /\ opts.quality # "required" /\ plan.quality = "limited"
        /\ pc' = "final" /\ UNCHANGED qualityOn
        /\ UNCHANGED <<opts, after, probes, plan, token, consented, asked, signIns>>
     \/ /\ pc' = "final" /\ qualityOn' = FALSE   \* skipped, or the sign-in failed
        /\ UNCHANGED <<opts, after, probes, plan, token, consented, asked, signIns>>

Final ==
  /\ pc = "final"
  /\ pc' = IF opts.quality = "required" /\ (~qualityOn \/ plan.quality # "complete")
           THEN "refused" ELSE "collect"
  /\ UNCHANGED <<opts, after, probes, plan, choices>>
-----------------------------------------------------------------------------
Next == \/ Start \/ Probe \/ ReadAllowance \/ AllowanceFails
        \/ Gate \/ AnswerLimit \/ LimitGate
        \/ QualityGate \/ AnswerQuality \/ Final

Spec == Init /\ [][Next]_vars
-----------------------------------------------------------------------------
\* What a collection begins with, whatever was asked, answered and planned again
\* on the way and whichever step failed.  A smaller canonical read of an
\* anonymous plan was chosen, by --anonymous or by an answer; --quality has the
\* complete tier of an identity that is signed in; the tier of a preview was
\* planned for the identity whose token it spends; a plan nothing honest fits in
\* cannot send a request.  And the user was asked only as the flags allow, and
\* authorized at most once.
BeginsAsPlanned ==
  pc = "collect" =>
    /\ plan.disposition = "limited" /\ ~plan.signedIn => opts.anonymous \/ consented
    /\ opts.quality = "required" => qualityOn /\ plan.quality = "complete" /\ SignedIn
    /\ qualityOn => plan.signedIn = SignedIn
    /\ ~CollectionMayBegin(plan) => Total(plan.caps) = 0 /\ plan.qualityCap.source = 0
    /\ signIns <= 1
    /\ ~opts.canAsk \/ opts.anonymous \/ opts.explicit \/ opts.signIn => asked = 0
=============================================================================
