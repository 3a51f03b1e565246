--------------------------- MODULE RequestBudget ----------------------------
(***************************************************************************)
(* What a GithubHttpClient promises to the plan that gave it a cap: it is  *)
(* created with that cap, spends it one request at a time, never beyond,   *)
(* and nothing is spent once its owner has given its answer.               *)
(***************************************************************************)
EXTENDS Naturals

VARIABLES cap,   \* maxRequests
          used,  \* requests sent
          over   \* the owner of the client has its answer

vars == <<cap, used, over>>

Init == cap \in Nat /\ used = 0 /\ over = FALSE

Spend == /\ ~over /\ used < cap
         /\ used' = used + 1
         /\ UNCHANGED <<cap, over>>

Finish == ~over /\ over' = TRUE /\ UNCHANGED cap /\ used' \in {used, used + 1} /\ used' <= cap

Next == Spend \/ Finish

Spec == Init /\ [][Next]_vars
=============================================================================
