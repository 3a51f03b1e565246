----------------------------- MODULE CapDealing -----------------------------
(***************************************************************************)
(* The loop of buildGithubRequestPlan that turns an allowance into request *)
(* caps, one step of the code per action: a "while" over passes, each a    *)
(* "for" over the profiles that grants one request to every profile below  *)
(* its expected cap, until nothing is left or a pass grants nothing.       *)
(***************************************************************************)
EXTENDS RequestPlan

CONSTANTS Profiles,    \* bound: the probe results considered
          Remainings   \* bound: the allowances considered

ASSUME CapDealingAssumption ==
  /\ Profiles \subseteq Profile
  /\ Remainings \subseteq Nat \cup {Unread}

VARIABLES ps,          \* the probed profiles, one or two
          remaining,   \* the allowance
          caps,        \* perProfileRequestCaps
          unassigned,  \* requests not dealt yet
          index,       \* profile the pass is at
          changed,     \* did this pass grant a request
          stage

dealing == <<ps, remaining, caps, unassigned, index, changed, stage>>

DealInit ==
  /\ ps \in [1..1 -> Profiles] \cup [1..2 -> Profiles]
  /\ remaining \in Remainings
  /\ caps = [i \in DOMAIN ps |-> ExpectedCap(ps[i])]
  /\ unassigned = 0 /\ index = 0 /\ changed = FALSE
  /\ stage = "start"

MinimumCaps == [i \in DOMAIN ps |-> MinimumCap(ps[i])]

\* Caps that need no dealing: all of the expected ones, or none.
Settle ==
  /\ stage = "start" /\ Disposition(ps, remaining) # "limited"
  /\ caps' = IF Disposition(ps, remaining) = "complete" THEN caps
             ELSE [i \in DOMAIN ps |-> 0]
  /\ stage' = "done"
  /\ UNCHANGED <<ps, remaining, unassigned, index, changed>>

StartDealing ==
  /\ stage = "start" /\ Disposition(ps, remaining) = "limited"
  /\ caps' = MinimumCaps
  /\ unassigned' = remaining - Total(MinimumCaps)
  /\ stage' = "while"
  /\ UNCHANGED <<ps, remaining, index, changed>>

StartPass ==
  /\ stage = "while"
  /\ IF unassigned > 0
     THEN index' = 1 /\ changed' = FALSE /\ stage' = "for"
     ELSE stage' = "done" /\ UNCHANGED <<index, changed>>
  /\ UNCHANGED <<ps, remaining, caps, unassigned>>

\* Mutant: a profile at its expected cap is granted more.
GrantAnyone ==
  /\ stage = "for" /\ index \in DOMAIN ps /\ unassigned > 0
  /\ caps' = [caps EXCEPT ![index] = @ + 1]
  /\ unassigned' = unassigned - 1
  /\ changed' = TRUE
  /\ index' = index + 1
  /\ UNCHANGED <<ps, remaining, stage>>

Grant ==
  /\ stage = "for" /\ index \in DOMAIN ps /\ unassigned > 0
  /\ caps[index] < ExpectedCap(ps[index])
  /\ caps' = [caps EXCEPT ![index] = @ + 1]
  /\ unassigned' = unassigned - 1
  /\ changed' = TRUE
  /\ index' = index + 1
  /\ UNCHANGED <<ps, remaining, stage>>

Skip ==
  /\ stage = "for" /\ index \in DOMAIN ps /\ unassigned > 0
  /\ caps[index] >= ExpectedCap(ps[index])
  /\ index' = index + 1
  /\ UNCHANGED <<ps, remaining, caps, unassigned, changed, stage>>

EndPass ==
  /\ stage = "for" /\ (index \notin DOMAIN ps \/ unassigned = 0)
  /\ stage' = IF changed THEN "while" ELSE "done"
  /\ UNCHANGED <<ps, remaining, caps, unassigned, index, changed>>

DealNext == Settle \/ StartDealing \/ StartPass \/ Grant \/ Skip \/ EndPass

\* The loop is synchronous code: once started it runs to its end.
DealSpec == DealInit /\ [][DealNext]_dealing /\ WF_dealing(DealNext)
-----------------------------------------------------------------------------
\* The shape of the loop's variables: no cap and no remainder ever turns negative
\* and the pass never looks beyond the second profile.
DealTypeOK ==
  /\ ps \in [1..1 -> Profile] \cup [1..2 -> Profile]
  /\ remaining \in Nat \cup {Unread}
  /\ caps \in [DOMAIN ps -> Nat]
  /\ unassigned \in Nat
  /\ index \in 0..3
  /\ changed \in BOOLEAN
  /\ stage \in {"start", "while", "for", "done"}

\* A limited plan hands out the whole allowance and not a request more, while
\* every profile without a snapshot keeps at least the useful minimum and no
\* profile gets more than it can use.
LimitedSpendsAll ==
  stage = "done" /\ Disposition(ps, remaining) = "limited" =>
    /\ Total(caps) = remaining
    /\ \A i \in DOMAIN ps :
         MinimumCap(ps[i]) <= caps[i] /\ caps[i] <= ExpectedCap(ps[i])

=============================================================================
