----------------------------- MODULE LossyCache -----------------------------
(***************************************************************************)
(* What the persistent caches promise to the analysis pipeline, with no    *)
(* file in sight: a get answers Miss, or a value some set offered, whole,  *)
(* whose time to live has not run out.  A cache may forget anything at any *)
(* moment ("Cache failure only costs a later recomputation"), so losing an *)
(* entry is not even a step of this specification.                         *)
(***************************************************************************)
EXTENDS Naturals

CONSTANTS Clients,   \* the gitmog processes that use the cache
          Miss       \* the answer that carries no value

VARIABLES now,       \* the wall clock
          offered,   \* every [image, exp] a set has ever been called with
          answer     \* the answer of the latest get of each client

vars == <<now, offered, answer>>

Init == /\ now = 0
        /\ offered = {}
        /\ answer = [c \in Clients |-> Miss]

\* A set hands over a value that is good until some later time.
Offer == /\ \E e \in offered' : offered' = offered \cup {e} /\ e.exp > now
         /\ UNCHANGED <<now, answer>>

Answer(c) == /\ \/ answer' = [answer EXCEPT ![c] = Miss]
                \/ \E e \in offered :
                     e.exp > now /\ answer' = [answer EXCEPT ![c] = e]
             /\ UNCHANGED <<now, offered>>

Tick == now' = now + 1 /\ UNCHANGED <<offered, answer>>

Next == Offer \/ Tick \/ \E c \in Clients : Answer(c)

Spec == Init /\ [][Next]_vars
=============================================================================
