-------------------------- MODULE CollectingProofs --------------------------
(***************************************************************************)
(* Theorems about what a plan gives and what a collection makes of it, for *)
(* every profile, every allowance and every value of the constants.        *)
(*                                                                         *)
(* The dealing loop keeps "dealt plus left over is the allowance", and it  *)
(* cannot end with anything left over, because a pass that grants nothing  *)
(* has found every profile at its expected cap, which a limited allowance  *)
(* cannot pay.  Between two grants the caps are those of a number of whole *)
(* passes and the profiles the next one has served; only one such number   *)
(* fits what was dealt, so the loop ends with the caps of the closed form. *)
(* The invariant of a collection is the budget of each phase: how much may *)
(* have been spent when it is entered, and, once an event page was asked   *)
(* for, how much must still be there.  At the end the two are put          *)
(* together: what a plan buys the profile it was made for.                 *)
(***************************************************************************)
EXTENDS Collecting, FiniteSetTheorems, TLAPS

-----------------------------------------------------------------------------
(* The dealing of the caps *)

\* One handle or two.
Handles == {1..1, 1..2}

ExpectedCaps == [i \in DOMAIN ps |-> ExpectedCap(ps[i])]

Dealing == stage \in {"while", "for"} \/ (stage = "done" /\ Disposition(ps, remaining) = "limited")

DealInv ==
  /\ DealTypeOK
  /\ Dealing =>
       /\ Disposition(ps, remaining) = "limited"
       /\ Total(caps) + unassigned = remaining
       /\ \A i \in DOMAIN ps :
            MinimumCap(ps[i]) <= caps[i] /\ caps[i] <= ExpectedCap(ps[i])
  /\ stage = "for" =>
       /\ index >= 1
       /\ index <= 2 \/ 2 \in DOMAIN ps
       /\ changed \/ \A i \in DOMAIN ps : i < index => caps[i] = ExpectedCap(ps[i])
  /\ stage = "done" /\ Disposition(ps, remaining) = "limited" => unassigned = 0
-----------------------------------------------------------------------------
\* What one profile may be given.
LEMMA CapsOfProfile ==
  ASSUME NEW p \in Profile
  PROVE  /\ ExpectedCap(p) \in Nat /\ MinimumCap(p) \in Nat /\ ExpectedNow(p) \in Nat
         /\ MinimumCap(p) <= ExpectedCap(p)
         /\ ExpectedNow(p) <= ExpectedCap(p)
  BY RequestPlanAssumption DEF Profile, ExpectedCap, MinimumCap, ExpectedNow

LEMMA TotalInNat ==
  ASSUME NEW D \in Handles, NEW f \in [D -> Nat]
  PROVE  Total(f) \in Nat
  BY DEF Handles, Total

LEMMA TotalMonotone ==
  ASSUME NEW D \in Handles, NEW f \in [D -> Nat], NEW g \in [D -> Nat],
         \A i \in D : f[i] <= g[i]
  PROVE  Total(f) <= Total(g)
  BY DEF Handles, Total

LEMMA TotalOfGrant ==
  ASSUME NEW D \in Handles, NEW f \in [D -> Nat], NEW i \in D
  PROVE  Total([f EXCEPT ![i] = @ + 1]) = Total(f) + 1
  <1>1. CASE D = 1..1
    <2>1. i = 1 /\ DOMAIN f = 1..1 /\ 2 \notin 1..1  BY <1>1
    <2> QED BY <1>1, <2>1 DEF Total
  <1>2. CASE D = 1..2
    <2>1. DOMAIN f = 1..2 /\ 2 \in 1..2 /\ f[1] \in Nat /\ f[2] \in Nat  BY <1>2
    <2>2. CASE i = 1  BY <1>2, <2>1, <2>2 DEF Total
    <2>3. CASE i = 2  BY <1>2, <2>1, <2>3 DEF Total
    <2> QED BY <1>2, <2>2, <2>3
  <1> QED BY <1>1, <1>2 DEF Handles

\* A limited allowance is known, pays the minimum and not the whole.
LEMMA LimitedAllowance ==
  ASSUME DealTypeOK, Disposition(ps, remaining) = "limited"
  PROVE  /\ remaining \in Nat
         /\ Total(MinimumCaps) <= remaining
         /\ remaining < Total(ExpectedCaps)
  <1>1. DOMAIN ps \in Handles /\ \A i \in DOMAIN ps : ps[i] \in Profile
    BY DEF DealTypeOK, Handles
  <1>2. remaining \in Nat /\ Minimum(ps) <= remaining /\ ~(remaining >= Expected(ps))
    BY RequestPlanAssumption DEF DealTypeOK, Disposition
  <1>3. Total(MinimumCaps) = Minimum(ps)
    BY DEF Minimum, MinimumCaps
  <1> DEFINE Now == [i \in DOMAIN ps |-> ExpectedNow(ps[i])]
  <1>4. Now \in [DOMAIN ps -> Nat] /\ ExpectedCaps \in [DOMAIN ps -> Nat]
    BY <1>1, CapsOfProfile DEF ExpectedCaps
  <1>5. \A i \in DOMAIN ps : Now[i] <= ExpectedCaps[i]
    BY <1>1, CapsOfProfile DEF ExpectedCaps
  <1>6. Total(Now) <= Total(ExpectedCaps)
    <2> HIDE DEF Now
    <2> QED BY <1>1, <1>4, <1>5, TotalMonotone
  <1>7. Total(Now) \in Nat /\ Total(ExpectedCaps) \in Nat
    <2> HIDE DEF Now
    <2> QED BY <1>1, <1>4, TotalInNat
  <1>8. Expected(ps) = Total(Now)
    BY DEF Expected
  <1> HIDE DEF Now
  <1> QED BY <1>2, <1>3, <1>6, <1>7, <1>8
-----------------------------------------------------------------------------
LEMMA DealInitInv == DealInit => DealInv
  <1> SUFFICES ASSUME DealInit PROVE DealInv  OBVIOUS
  <1>1. ps \in [1..1 -> Profile] \cup [1..2 -> Profile] /\ remaining \in Nat \cup {Unread}
    BY CapDealingAssumption DEF DealInit
  <1>2. caps \in [DOMAIN ps -> Nat]
    <2>1. \A i \in DOMAIN ps : ps[i] \in Profile  BY <1>1
    <2> QED BY <2>1, CapsOfProfile DEF DealInit
  <1>3. DealTypeOK
    <2>1. changed \in BOOLEAN  BY DEF DealInit
    <2>2. unassigned \in Nat /\ index \in 0..3 /\ stage \in {"start", "while", "for", "done"}
      BY DEF DealInit
    <2> QED BY <1>1, <1>2, <2>1, <2>2 DEF DealTypeOK
  <1> QED BY <1>3 DEF DealInit, DealInv, Dealing

LEMMA DealNextInv == DealInv /\ [DealNext]_dealing => DealInv'
  <1> SUFFICES ASSUME DealInv, [DealNext]_dealing PROVE DealInv'  OBVIOUS
  <1>a. DOMAIN ps \in Handles /\ \A i \in DOMAIN ps : ps[i] \in Profile
    BY DEF DealInv, DealTypeOK, Handles
  <1>b. \A i \in DOMAIN ps : /\ ExpectedCap(ps[i]) \in Nat /\ MinimumCap(ps[i]) \in Nat
                             /\ MinimumCap(ps[i]) <= ExpectedCap(ps[i])
    BY <1>a, CapsOfProfile
  <1>c. MinimumCaps \in [DOMAIN ps -> Nat] /\ ExpectedCaps \in [DOMAIN ps -> Nat]
    BY <1>b DEF MinimumCaps, ExpectedCaps
  <1>d. DealTypeOK /\ caps \in [DOMAIN ps -> Nat] /\ unassigned \in Nat
    BY DEF DealInv, DealTypeOK
  <1>1. CASE Settle
    <2>1. caps' \in [DOMAIN ps -> Nat]  BY <1>1, <1>d DEF Settle
    <2>2. DealTypeOK'  BY <1>1, <1>d, <2>1 DEF Settle, DealTypeOK
    <2> QED BY <1>1, <2>2 DEF Settle, DealInv, Dealing
  <1>2. CASE StartDealing
    <2>1. remaining \in Nat /\ Total(MinimumCaps) <= remaining
      BY <1>2, <1>d, LimitedAllowance DEF StartDealing
    <2>2. Total(MinimumCaps) \in Nat  BY <1>a, <1>c, TotalInNat
    <2>3. unassigned' \in Nat /\ Total(caps') + unassigned' = remaining
      BY <1>2, <2>1, <2>2 DEF StartDealing
    <2>4. DealTypeOK'  BY <1>2, <1>c, <1>d, <2>3 DEF StartDealing, DealTypeOK
    <2>5. \A i \in DOMAIN ps : caps'[i] = MinimumCap(ps[i])
      BY <1>2 DEF StartDealing, MinimumCaps
    <2> QED BY <1>2, <1>b, <2>3, <2>4, <2>5 DEF StartDealing, DealInv, Dealing
  <1>3. CASE StartPass
    <2>1. DealTypeOK'
      <3>1. changed' \in BOOLEAN  BY <1>3, <1>d DEF StartPass, DealTypeOK
      <3>2. index' \in 0..3 /\ stage' \in {"start", "while", "for", "done"}
        BY <1>3, <1>d DEF StartPass, DealTypeOK
      <3>3. UNCHANGED <<ps, remaining, caps, unassigned>>  BY <1>3 DEF StartPass
      <3> QED BY <1>d, <3>1, <3>2, <3>3 DEF DealTypeOK
    <2>2. CASE unassigned > 0
      BY <1>3, <1>a, <2>1, <2>2 DEF StartPass, DealInv, Dealing, Handles
    <2>3. CASE ~(unassigned > 0)
      BY <1>3, <1>d, <2>1, <2>3 DEF StartPass, DealInv, Dealing
    <2> QED BY <2>2, <2>3
  <1>4. CASE Grant
    <2>1. /\ index \in DOMAIN ps /\ unassigned > 0 /\ caps[index] < ExpectedCap(ps[index])
          /\ caps' = [caps EXCEPT ![index] = @ + 1] /\ unassigned' = unassigned - 1
          /\ changed' = TRUE /\ index' = index + 1
          /\ stage = "for" /\ UNCHANGED <<ps, remaining, stage>>
      BY <1>4 DEF Grant
    <2>2. Total(caps') = Total(caps) + 1  BY <1>a, <1>d, <2>1, TotalOfGrant
    <2>3. Total(caps) \in Nat  BY <1>a, <1>d, TotalInNat
    <2>4. caps' \in [DOMAIN ps -> Nat] /\ unassigned' \in Nat  BY <1>d, <2>1
    <2>5. index \in {1, 2} /\ (index = 2 => 2 \in DOMAIN ps)  BY <1>a, <2>1 DEF Handles
    <2>6. DealTypeOK'  BY <1>d, <2>1, <2>4, <2>5 DEF DealTypeOK
    <2>7. \A i \in DOMAIN ps :
            MinimumCap(ps[i]) <= caps'[i] /\ caps'[i] <= ExpectedCap(ps[i])
      BY <1>b, <1>d, <2>1 DEF DealInv, Dealing
    <2>8. Total(caps') + unassigned' = remaining
      BY <1>d, <2>1, <2>2, <2>3 DEF DealInv, Dealing
    <2> QED BY <2>1, <2>5, <2>6, <2>7, <2>8 DEF DealInv, Dealing
  <1>5. CASE Skip
    <2>1. index \in {1, 2} /\ (index = 2 => 2 \in DOMAIN ps)
      BY <1>a, <1>5 DEF Skip, Handles
    <2>2. DealTypeOK'  BY <1>5, <1>d, <2>1 DEF Skip, DealTypeOK
    <2>3. caps[index] = ExpectedCap(ps[index])
      BY <1>5, <1>b, <1>d DEF Skip, DealInv, Dealing
    <2>4. \A i \in DOMAIN ps : i < index + 1 => i < index \/ i = index
      BY <1>a, <2>1 DEF Handles
    <2> QED BY <1>5, <2>1, <2>2, <2>3, <2>4 DEF Skip, DealInv, Dealing
  <1>6. CASE EndPass
    <2>1. DealTypeOK'  BY <1>6, <1>d DEF EndPass, DealTypeOK
    <2>2. CASE changed
      BY <1>6, <2>1, <2>2 DEF EndPass, DealInv, Dealing
    <2>3. CASE ~changed
      <3>1. Total(caps) + unassigned = remaining /\ Disposition(ps, remaining) = "limited"
        BY <1>6 DEF EndPass, DealInv, Dealing
      <3>2. ASSUME index \notin DOMAIN ps PROVE FALSE
        <4>1. \A i \in DOMAIN ps : i < index
          BY <1>6, <1>a, <1>d, <3>2 DEF EndPass, DealInv, DealTypeOK, Handles
        <4>2. \A i \in DOMAIN ps : ExpectedCaps[i] <= caps[i]
          BY <1>6, <1>b, <1>d, <2>3, <4>1 DEF EndPass, DealInv, ExpectedCaps
        <4>3. Total(ExpectedCaps) <= Total(caps)  BY <1>a, <1>c, <1>d, <4>2, TotalMonotone
        <4>4. remaining \in Nat /\ remaining < Total(ExpectedCaps)
          BY <1>d, <3>1, LimitedAllowance
        <4>5. Total(caps) \in Nat /\ Total(ExpectedCaps) \in Nat
          BY <1>a, <1>c, <1>d, TotalInNat
        <4> QED BY <1>d, <3>1, <4>3, <4>4, <4>5
      <3>3. unassigned = 0  BY <1>6, <3>2 DEF EndPass
      <3> QED BY <1>6, <2>1, <2>3, <3>1, <3>3 DEF EndPass, DealInv, Dealing
    <2> QED BY <2>2, <2>3
  <1>7. CASE UNCHANGED dealing
    BY <1>7 DEF dealing, DealInv, DealTypeOK, Dealing
  <1> QED BY <1>1, <1>2, <1>3, <1>4, <1>5, <1>6, <1>7 DEF DealNext
-----------------------------------------------------------------------------
LEMMA DealInductive == DealSpec => []DealInv
  BY DealInitInv, DealNextInv, PTL DEF DealSpec

\* The loop never leaves its types: in particular the count of requests that
\* are left to deal never goes below zero.
THEOREM DealingTyped == DealSpec => []DealTypeOK
  <1>1. DealInv => DealTypeOK  BY DEF DealInv
  <1> QED BY DealInductive, <1>1, PTL

\* A limited plan gives away its allowance to the last request and no more, and
\* every cap lies between the useful minimum and what the profile can use.
THEOREM AllowanceIsSpent == DealSpec => []LimitedSpendsAll
  <1>1. DealInv => LimitedSpendsAll
    <2> SUFFICES ASSUME DealInv, stage = "done", Disposition(ps, remaining) = "limited"
                 PROVE  /\ Total(caps) = remaining
                        /\ \A i \in DOMAIN ps : /\ MinimumCap(ps[i]) <= caps[i]
                                                /\ caps[i] <= ExpectedCap(ps[i])
      BY DEF LimitedSpendsAll
    <2>1. Total(caps) \in Nat
      <3>1. DOMAIN ps \in Handles /\ caps \in [DOMAIN ps -> Nat]  BY DEF DealInv, DealTypeOK, Handles
      <3> QED BY <3>1, TotalInNat
    <2> QED BY <2>1 DEF DealInv, Dealing
  <1> QED BY DealInductive, <1>1, PTL
-----------------------------------------------------------------------------
(* The dealing comes to the caps of the closed form *)

\* The caps when k passes are over and the next one has come to profile n.
Midway(k, n) ==
  [i \in DOMAIN ps |->
     Lower(MinimumCap(ps[i]) + (IF i < n THEN k + 1 ELSE k), ExpectedCap(ps[i]))]

\* Whole passes are over between two passes, unless the allowance ran out in one.
FairInv ==
  /\ DealInv
  /\ Disposition(ps, remaining) = "complete" /\ stage \in {"start", "done"} =>
       caps = ExpectedCaps
  /\ Disposition(ps, remaining) \notin {"complete", "limited"} /\ stage = "done" =>
       caps = [i \in DOMAIN ps |-> 0]
  /\ stage = "for" => \E k \in Nat : caps = Midway(k, index)
  /\ stage = "while" \/ (stage = "done" /\ Disposition(ps, remaining) = "limited") =>
       \E k \in Nat, n \in 1..3 : caps = Midway(k, n) /\ (unassigned = 0 \/ n = 1)

\* Caps between two passes are what the closed form says of that number of passes.
LEMMA MidwayValues ==
  ASSUME DealTypeOK, NEW k \in Nat, NEW n \in 1..3
  PROVE  /\ DOMAIN ps \in Handles
         /\ Midway(k, n) \in [DOMAIN ps -> Nat]
         /\ AfterPasses(ps, k) \in [DOMAIN ps -> Nat]
         /\ ExpectedCaps \in [DOMAIN ps -> Nat]
         /\ \A i \in DOMAIN ps :
              /\ AfterPasses(ps, k)[i] <= ExpectedCaps[i]
              /\ AfterPasses(ps, k + 1)[i] =
                   IF AfterPasses(ps, k)[i] < ExpectedCaps[i]
                   THEN AfterPasses(ps, k)[i] + 1 ELSE AfterPasses(ps, k)[i]
              /\ Midway(k, n)[i] =
                   IF i < n THEN AfterPasses(ps, k + 1)[i] ELSE AfterPasses(ps, k)[i]
              /\ ExpectedCaps[i] = ExpectedCap(ps[i])
  <1>1. DOMAIN ps \in Handles /\ \A i \in DOMAIN ps : ps[i] \in Profile
    BY DEF DealTypeOK, Handles
  <1>2. \A i \in DOMAIN ps : /\ MinimumCap(ps[i]) \in Nat /\ ExpectedCap(ps[i]) \in Nat
                             /\ MinimumCap(ps[i]) <= ExpectedCap(ps[i])
    BY <1>1, CapsOfProfile
  <1>3. \A m \in Nat : \A i \in DOMAIN ps :
          /\ Lower(MinimumCap(ps[i]) + m, ExpectedCap(ps[i])) \in Nat
          /\ Lower(MinimumCap(ps[i]) + m, ExpectedCap(ps[i])) <= ExpectedCap(ps[i])
    BY <1>2 DEF Lower
  <1>4. \A i \in DOMAIN ps :
          /\ AfterPasses(ps, k)[i] = Lower(MinimumCap(ps[i]) + k, ExpectedCap(ps[i]))
          /\ AfterPasses(ps, k + 1)[i] = Lower(MinimumCap(ps[i]) + (k + 1), ExpectedCap(ps[i]))
          /\ Midway(k, n)[i] = IF i < n THEN AfterPasses(ps, k + 1)[i] ELSE AfterPasses(ps, k)[i]
          /\ ExpectedCaps[i] = ExpectedCap(ps[i])
    BY DEF AfterPasses, Midway, ExpectedCaps
  <1>5. \A i \in DOMAIN ps :
          Lower(MinimumCap(ps[i]) + (k + 1), ExpectedCap(ps[i])) =
            IF Lower(MinimumCap(ps[i]) + k, ExpectedCap(ps[i])) < ExpectedCap(ps[i])
            THEN Lower(MinimumCap(ps[i]) + k, ExpectedCap(ps[i])) + 1
            ELSE Lower(MinimumCap(ps[i]) + k, ExpectedCap(ps[i]))
    BY <1>2 DEF Lower
  <1>6. k + 1 \in Nat  OBVIOUS
  <1>7. Midway(k, n) \in [DOMAIN ps -> Nat]
    BY <1>3, <1>6 DEF Midway
  <1>8. AfterPasses(ps, k) \in [DOMAIN ps -> Nat]
    BY <1>3 DEF AfterPasses
  <1>9. ExpectedCaps \in [DOMAIN ps -> Nat]
    BY <1>2 DEF ExpectedCaps
  <1>10. \A i \in DOMAIN ps : AfterPasses(ps, k)[i] <= ExpectedCaps[i]
    BY <1>3, <1>4
  <1>11. \A i \in DOMAIN ps :
           AfterPasses(ps, k + 1)[i] = IF AfterPasses(ps, k)[i] < ExpectedCaps[i]
                                       THEN AfterPasses(ps, k)[i] + 1 ELSE AfterPasses(ps, k)[i]
    BY <1>4, <1>5
  <1> QED BY <1>1, <1>4, <1>7, <1>8, <1>9, <1>10, <1>11

\* More passes never take a request back.
LEMMA PassesMonotone ==
  ASSUME DealTypeOK, NEW k \in Nat, NEW m \in Nat, k <= m
  PROVE  /\ Total(AfterPasses(ps, k)) \in Nat
         /\ Total(AfterPasses(ps, k)) <= Total(AfterPasses(ps, m))
         /\ \A i \in DOMAIN ps : AfterPasses(ps, k)[i] <= AfterPasses(ps, m)[i]
  <1>1. 1 \in 1..3  OBVIOUS
  <1>2. /\ DOMAIN ps \in Handles
        /\ AfterPasses(ps, k) \in [DOMAIN ps -> Nat]
        /\ AfterPasses(ps, m) \in [DOMAIN ps -> Nat]
    BY <1>1, MidwayValues
  <1>3. \A i \in DOMAIN ps : MinimumCap(ps[i]) \in Nat /\ ExpectedCap(ps[i]) \in Nat
    <2>1. \A i \in DOMAIN ps : ps[i] \in Profile  BY DEF DealTypeOK
    <2> QED BY <2>1, CapsOfProfile
  <1>4. \A i \in DOMAIN ps : AfterPasses(ps, k)[i] <= AfterPasses(ps, m)[i]
    BY <1>3 DEF AfterPasses, Lower
  <1> QED BY <1>2, <1>4, TotalInNat, TotalMonotone

\* Caps that nowhere exceed others and add up to the same are the same.
LEMMA TotalsMatch ==
  ASSUME NEW D \in Handles, NEW f \in [D -> Nat], NEW g \in [D -> Nat],
         \A i \in D : f[i] <= g[i], Total(f) = Total(g)
  PROVE  f = g
  <1>1. DOMAIN f = D /\ DOMAIN g = D  OBVIOUS
  <1>2. \A i \in D : f[i] = g[i]
    <2>1. CASE D = 1..1
      <3>1. 1 \in D /\ 2 \notin D /\ D = {1}  BY <2>1
      <3>2. Total(f) = f[1] /\ Total(g) = g[1]  BY <1>1, <3>1 DEF Total
      <3> QED BY <3>1, <3>2
    <2>2. CASE D = 1..2
      <3>1. 1 \in D /\ 2 \in D /\ D = {1, 2}  BY <2>2
      <3>2. Total(f) = f[1] + f[2] /\ Total(g) = g[1] + g[2]  BY <1>1, <3>1 DEF Total
      <3>3. /\ f[1] \in Nat /\ f[2] \in Nat /\ g[1] \in Nat /\ g[2] \in Nat
            /\ f[1] <= g[1] /\ f[2] <= g[2]
        BY <3>1
      <3>4. f[1] + f[2] = g[1] + g[2]  BY <3>2
      <3>5. \A a, b, c, d \in Nat : a <= c /\ b <= d /\ a + b = c + d => a = c /\ b = d
        OBVIOUS
      <3>6. f[1] = g[1] /\ f[2] = g[2]  BY <3>3, <3>4, <3>5
      <3> QED BY <3>1, <3>6
    <2> QED BY <2>1, <2>2 DEF Handles
  <1> QED BY <1>1, <1>2

\* Caps that add up to less than everyone can use are those of some number of
\* passes that the allowance pays, while it does not pay one more.
LEMMA LastWholePass ==
  ASSUME DealTypeOK, NEW k \in Nat, NEW n \in 1..3, NEW r \in Nat,
         r = Total(Midway(k, n)), r < Total(ExpectedCaps)
  PROVE  \E m \in 0..CompleteProfile, l \in 1..3 :
            /\ Midway(k, n) = Midway(m, l)
            /\ Total(AfterPasses(ps, m)) <= r /\ Total(AfterPasses(ps, m + 1)) > r
  <1> DEFINE A(j) == AfterPasses(ps, j)
  <1>1. 1 \in 1..3 /\ k + 1 \in Nat /\ (k + 1) + 1 \in Nat  OBVIOUS
  <1>2. DOMAIN ps \in Handles /\ ExpectedCaps \in [DOMAIN ps -> Nat]
        /\ Midway(k, n) \in [DOMAIN ps -> Nat]
    BY MidwayValues
  <1>3. \A j \in Nat : A(j) \in [DOMAIN ps -> Nat] /\ Total(A(j)) \in Nat
    <2> SUFFICES ASSUME NEW j \in Nat PROVE A(j) \in [DOMAIN ps -> Nat] /\ Total(A(j)) \in Nat
      OBVIOUS
    <2>1. A(j) \in [DOMAIN ps -> Nat]  BY <1>1, MidwayValues
    <2> QED BY <1>2, <2>1, TotalInNat
  <1>4. \A j \in Nat : \A i \in DOMAIN ps :
          /\ A(j)[i] <= ExpectedCaps[i]
          /\ A(j + 1)[i] = IF A(j)[i] < ExpectedCaps[i] THEN A(j)[i] + 1 ELSE A(j)[i]
    BY <1>1, MidwayValues
  <1>5. \A i \in DOMAIN ps : A(k)[i] <= Midway(k, n)[i] /\ Midway(k, n)[i] <= A(k + 1)[i]
    <2>1. \A i \in DOMAIN ps :
            /\ Midway(k, n)[i] = IF i < n THEN A(k + 1)[i] ELSE A(k)[i]
            /\ A(k + 1)[i] = IF A(k)[i] < ExpectedCaps[i] THEN A(k)[i] + 1 ELSE A(k)[i]
      BY MidwayValues
    <2>2. \A i \in DOMAIN ps : A(k)[i] \in Nat
      BY <1>3
    <2> HIDE DEF A
    <2> QED BY <2>1, <2>2
  \* Somebody is below the expected cap: another pass grants something.
  <1>6. \A j \in Nat : Total(A(j)) <= r => j <= CompleteProfile /\ Total(A(j)) < Total(A(j + 1))
    <2> SUFFICES ASSUME NEW j \in Nat, Total(A(j)) <= r
                 PROVE  j <= CompleteProfile /\ Total(A(j)) < Total(A(j + 1))
      OBVIOUS
    <2> HIDE DEF A
    <2>1. j + 1 \in Nat /\ A(j) \in [DOMAIN ps -> Nat] /\ A(j + 1) \in [DOMAIN ps -> Nat]
      BY <1>3
    <2>2. Total(ExpectedCaps) \in Nat  BY <1>2, TotalInNat
    <2>3. PICK i \in DOMAIN ps : A(j)[i] < ExpectedCaps[i]
      <3> SUFFICES ASSUME \A i \in DOMAIN ps : ~(A(j)[i] < ExpectedCaps[i]) PROVE FALSE
        OBVIOUS
      <3>1. \A i \in DOMAIN ps : ExpectedCaps[i] <= A(j)[i]
        BY <1>2, <2>1
      <3>2. Total(ExpectedCaps) <= Total(A(j))  BY <1>2, <2>1, <3>1, TotalMonotone
      <3> QED BY <1>3, <2>2, <3>2
    <2>4. j <= CompleteProfile
      <3>1. ps[i] \in Profile  BY DEF DealTypeOK
      <3>2. ExpectedCap(ps[i]) <= CompleteProfile
        BY <3>1, RequestPlanAssumption DEF Profile, ExpectedCap
      <3>3. Lower(MinimumCap(ps[i]) + j, ExpectedCap(ps[i])) < ExpectedCap(ps[i])
        BY <2>3 DEF A, AfterPasses, ExpectedCaps
      <3> QED BY <3>1, <3>2, <3>3, CapsOfProfile, RequestPlanAssumption DEF Lower
    <2>5. Total([A(j) EXCEPT ![i] = @ + 1]) = Total(A(j)) + 1
      BY <1>2, <2>1, TotalOfGrant
    <2>6. Total([A(j) EXCEPT ![i] = @ + 1]) <= Total(A(j + 1))
      <3> DEFINE g == [A(j) EXCEPT ![i] = @ + 1]
      <3>1. g \in [DOMAIN ps -> Nat]  BY <2>1
      <3>2. \A x \in DOMAIN ps : g[x] <= A(j + 1)[x]
        BY <1>4, <2>1, <2>3
      <3> HIDE DEF g
      <3>3. Total(g) <= Total(A(j + 1))  BY <1>2, <2>1, <3>1, <3>2, TotalMonotone
      <3> QED BY <3>3 DEF g
    <2> QED BY <1>3, <2>1, <2>4, <2>5, <2>6
  <1>7. Total(A(k)) <= r /\ r <= Total(A(k + 1))
    <2> HIDE DEF A
    <2> QED BY <1>1, <1>2, <1>3, <1>5, TotalMonotone
  <1> HIDE DEF A
  <1>8. CASE r < Total(A(k + 1))
    <2>1. k \in 0..CompleteProfile  BY <1>6, <1>7, RequestPlanAssumption
    <2> QED BY <1>1, <1>3, <1>7, <1>8, <2>1 DEF A
  <1>9. CASE r = Total(A(k + 1))
    <2>1. k + 1 \in 0..CompleteProfile /\ Total(A(k + 1)) < Total(A((k + 1) + 1))
      BY <1>1, <1>3, <1>6, <1>9, RequestPlanAssumption
    <2>2. Midway(k, n) = A(k + 1)
      <3>1. \A i \in DOMAIN ps : Midway(k, n)[i] <= A(k + 1)[i]
        BY <1>5
      <3>2. Total(Midway(k, n)) = Total(A(k + 1))  BY <1>9
      <3> QED BY <1>1, <1>2, <1>3, <3>1, <3>2, TotalsMatch
    <2>3. A(k + 1) = Midway(k + 1, 1)
      <3>1. \A i \in DOMAIN ps : ~(i < 1)  BY <1>2 DEF Handles
      <3> QED BY <3>1 DEF A, AfterPasses, Midway
    <2> QED BY <1>1, <1>3, <1>9, <2>1, <2>2, <2>3 DEF A
  <1>10. r < Total(A(k + 1)) \/ r = Total(A(k + 1))
    <2>1. Total(A(k + 1)) \in Nat  BY <1>1, <1>3
    <2> QED BY <1>7, <2>1
  <1> QED BY <1>8, <1>9, <1>10

\* The size of a subset of the two handles.
LEMMA CountOfHandles ==
  ASSUME NEW U \in SUBSET {1, 2}
  PROVE  Cardinality(U) = (IF 1 \in U THEN 1 ELSE 0) + (IF 2 \in U THEN 1 ELSE 0)
  <1>1. Cardinality({}) = 0  BY FS_EmptySet, SMT
  <1>2. \A x : IsFiniteSet({x}) /\ Cardinality({x}) = 1  BY FS_Singleton, Zenon
  <1>3. Cardinality({1, 2}) = 2
    <2>1. IsFiniteSet({1}) /\ Cardinality({1}) = 1  BY <1>2
    <2>2. Cardinality({1} \cup {2}) = Cardinality({1}) + 1
      <3>1. 2 \notin {1}  OBVIOUS
      <3> QED BY <2>1, <3>1, FS_AddElement
    <2>3. {1} \cup {2} = {1, 2}  OBVIOUS
    <2> QED BY <2>1, <2>2, <2>3
  <1>4. U = {} \/ U = {1} \/ U = {2} \/ U = {1, 2}  OBVIOUS
  <1>5. CASE U = {}  BY <1>1, <1>5
  <1>6. CASE U = {1}  BY <1>2, <1>6
  <1>7. CASE U = {2}  BY <1>2, <1>7
  <1>8. CASE U = {1, 2}  BY <1>3, <1>8
  <1> QED BY <1>4, <1>5, <1>6, <1>7, <1>8

\* Caps reached in the middle of a pass are the ones the closed form names for
\* the requests they add up to.
LEMMA MidwayIsFair ==
  ASSUME DealTypeOK, NEW k \in Nat, NEW n \in 1..3, NEW r \in Nat,
         r = Total(Midway(k, n)), r < Total(ExpectedCaps)
  PROVE  Midway(k, n) = FairCaps(ps, r)
  <1> DEFINE passes == CHOOSE j \in 0..CompleteProfile :
                         /\ Total(AfterPasses(ps, j)) <= r
                         /\ Total(AfterPasses(ps, j + 1)) > r
             even == AfterPasses(ps, passes)
             more == AfterPasses(ps, passes + 1)
             left == r - Total(even)
             hasRoom(i) == even[i] < ExpectedCap(ps[i])
             upTo(i) == {j \in 1..i : hasRoom(j)}
             fair(i) == even[i] + IF hasRoom(i) /\ Cardinality(upTo(i)) <= left
                                  THEN 1 ELSE 0
  <1>1. FairCaps(ps, r) = [i \in DOMAIN ps |-> fair(i)]
    BY DEF FairCaps
  <1>2. PICK m \in 0..CompleteProfile, l \in 1..3 :
           /\ Midway(k, n) = Midway(m, l)
           /\ Total(AfterPasses(ps, m)) <= r /\ Total(AfterPasses(ps, m + 1)) > r
    BY LastWholePass
  <1>3. /\ passes \in 0..CompleteProfile
        /\ Total(AfterPasses(ps, passes)) <= r /\ Total(AfterPasses(ps, passes + 1)) > r
    BY <1>2
  <1> HIDE DEF passes
  <1>4. passes = m
    <2>1. passes \in Nat /\ m \in Nat /\ passes + 1 \in Nat /\ m + 1 \in Nat
      BY <1>2, <1>3, RequestPlanAssumption
    <2>2. /\ Total(AfterPasses(ps, passes)) \in Nat /\ Total(AfterPasses(ps, m)) \in Nat
          /\ Total(AfterPasses(ps, passes + 1)) \in Nat /\ Total(AfterPasses(ps, m + 1)) \in Nat
      BY <2>1, PassesMonotone
    <2>3. ASSUME passes + 1 <= m PROVE FALSE
      <3>1. Total(AfterPasses(ps, passes + 1)) <= Total(AfterPasses(ps, m))
        BY <2>1, <2>3, PassesMonotone
      <3> QED BY <1>2, <1>3, <2>2, <3>1
    <2>4. ASSUME m + 1 <= passes PROVE FALSE
      <3>1. Total(AfterPasses(ps, m + 1)) <= Total(AfterPasses(ps, passes))
        BY <2>1, <2>4, PassesMonotone
      <3> QED BY <1>2, <1>3, <2>2, <3>1
    <2> QED BY <2>1, <2>3, <2>4
  <1>5. m \in Nat  BY <1>2, RequestPlanAssumption
  <1>6. /\ DOMAIN ps \in Handles
        /\ Midway(m, l) \in [DOMAIN ps -> Nat]
        /\ even \in [DOMAIN ps -> Nat]
        /\ \A i \in DOMAIN ps :
             /\ more[i] = IF hasRoom(i) THEN even[i] + 1 ELSE even[i]
             /\ Midway(m, l)[i] = IF i < l THEN more[i] ELSE even[i]
    <2>1. /\ DOMAIN ps \in Handles
          /\ Midway(m, l) \in [DOMAIN ps -> Nat]
          /\ AfterPasses(ps, m) \in [DOMAIN ps -> Nat]
          /\ \A i \in DOMAIN ps :
               /\ AfterPasses(ps, m + 1)[i] = IF AfterPasses(ps, m)[i] < ExpectedCaps[i]
                                             THEN AfterPasses(ps, m)[i] + 1
                                             ELSE AfterPasses(ps, m)[i]
               /\ Midway(m, l)[i] = IF i < l THEN AfterPasses(ps, m + 1)[i]
                                     ELSE AfterPasses(ps, m)[i]
               /\ ExpectedCaps[i] = ExpectedCap(ps[i])
      BY <1>5, MidwayValues
    <2>2. even = AfterPasses(ps, m) /\ more = AfterPasses(ps, m + 1)  BY <1>4
    <2> HIDE DEF even, more
    <2> QED BY <2>1, <2>2
  <1>7. 1 \in DOMAIN ps /\ DOMAIN even = DOMAIN ps /\ DOMAIN Midway(m, l) = DOMAIN ps
    BY <1>6 DEF Handles
  <1>8. Total(Midway(m, l)) = r /\ Total(even) <= r /\ left \in Nat /\ left = r - Total(even)
    <2>1. Total(even) \in Nat  BY <1>6, TotalInNat
    <2> HIDE DEF even
    <2> QED BY <1>2, <1>3, <2>1 DEF even
  <1> HIDE DEF even, more, left
  <1>9. Cardinality(upTo(1)) = IF hasRoom(1) THEN 1 ELSE 0
    <2> DEFINE U == upTo(1)
    <2>1. U \in SUBSET {1, 2} /\ (1 \in U <=> hasRoom(1)) /\ 2 \notin U  OBVIOUS
    <2> HIDE DEF U
    <2> QED BY <2>1, CountOfHandles
  <1>10. Cardinality(upTo(2)) = (IF hasRoom(1) THEN 1 ELSE 0) + (IF hasRoom(2) THEN 1 ELSE 0)
    <2> DEFINE U == upTo(2)
    <2>1. U \in SUBSET {1, 2} /\ (1 \in U <=> hasRoom(1)) /\ (2 \in U <=> hasRoom(2))
      OBVIOUS
    <2> HIDE DEF U
    <2> QED BY <2>1, CountOfHandles
  <1> HIDE DEF upTo
  <1>11. \A i \in DOMAIN ps : Midway(m, l)[i] = fair(i)
    <2>1. CASE DOMAIN ps = 1..1
      <3>1. 2 \notin DOMAIN ps /\ \A i \in DOMAIN ps : i = 1  BY <2>1
      <3>2. Total(Midway(m, l)) = Midway(m, l)[1] /\ Total(even) = even[1]
        <4>1. Midway(m, l)[1] \in Nat /\ even[1] \in Nat  BY <1>6, <1>7
        <4> QED BY <1>7, <3>1, <4>1 DEF Total
      <3>3. left = Midway(m, l)[1] - even[1]  BY <1>8, <3>2
      <3>4. Midway(m, l)[1] = fair(1)  BY <1>6, <1>7, <1>9, <3>3
      <3> QED BY <3>1, <3>4
    <2>2. CASE DOMAIN ps = 1..2
      <3>1. 2 \in DOMAIN ps /\ \A i \in DOMAIN ps : i = 1 \/ i = 2  BY <2>2
      <3>2. Total(Midway(m, l)) = Midway(m, l)[1] + Midway(m, l)[2]
            /\ Total(even) = even[1] + even[2]
        BY <1>7, <3>1 DEF Total
      <3>3. left = (Midway(m, l)[1] - even[1]) + (Midway(m, l)[2] - even[2])
        <4>1. even[1] \in Nat /\ even[2] \in Nat /\ Midway(m, l)[1] \in Nat /\ Midway(m, l)[2] \in Nat
          BY <1>6, <1>7, <3>1
        <4> QED BY <1>8, <3>2, <4>1
      <3>4. /\ even[1] \in Nat /\ even[2] \in Nat
            /\ Midway(m, l)[1] = IF 1 < l /\ hasRoom(1) THEN even[1] + 1 ELSE even[1]
            /\ Midway(m, l)[2] = IF 2 < l /\ hasRoom(2) THEN even[2] + 1 ELSE even[2]
        BY <1>6, <1>7, <3>1
      <3>5. left = (IF 1 < l /\ hasRoom(1) THEN 1 ELSE 0) + (IF 2 < l /\ hasRoom(2) THEN 1 ELSE 0)
        BY <3>3, <3>4
      <3>6. Midway(m, l)[1] = fair(1)  BY <1>9, <3>4, <3>5
      <3>7. Midway(m, l)[2] = fair(2)  BY <1>10, <3>4, <3>5
      <3> QED BY <3>1, <3>6, <3>7
    <2> QED BY <1>6, <2>1, <2>2 DEF Handles
  <1> QED BY <1>1, <1>2, <1>6, <1>11

LEMMA FairInitInv == DealInit => FairInv
  <1> SUFFICES ASSUME DealInit PROVE FairInv  OBVIOUS
  <1>1. DealInv  BY DealInitInv
  <1> QED BY <1>1 DEF DealInit, FairInv, ExpectedCaps

LEMMA FairNextInv == FairInv /\ [DealNext]_dealing => FairInv'
  <1> SUFFICES ASSUME FairInv, [DealNext]_dealing PROVE FairInv'  OBVIOUS
  <1>1. DealInv /\ DealInv'  BY DealNextInv DEF FairInv
  <1>2. /\ DealTypeOK /\ DOMAIN ps \in Handles
        /\ caps \in [DOMAIN ps -> Nat] /\ unassigned \in Nat
        /\ \A i \in DOMAIN ps : /\ MinimumCap(ps[i]) \in Nat /\ ExpectedCap(ps[i]) \in Nat
                                /\ MinimumCap(ps[i]) <= ExpectedCap(ps[i])
    <2>1. DealTypeOK  BY <1>1 DEF DealInv
    <2>2. \A i \in DOMAIN ps : ps[i] \in Profile  BY <2>1 DEF DealTypeOK
    <2> QED BY <2>1, <2>2, CapsOfProfile DEF DealTypeOK, Handles
  <1>3. CASE Settle
    BY <1>1, <1>3 DEF Settle, FairInv, ExpectedCaps
  <1>4. CASE StartDealing
    <2>1. \A i \in DOMAIN ps :
            /\ ~(i < 1)
            /\ Lower(MinimumCap(ps[i]) + 0, ExpectedCap(ps[i])) = MinimumCap(ps[i])
      BY <1>2 DEF Lower, Handles
    <2>2. Midway(0, 1) = MinimumCaps
      BY <2>1 DEF Midway, MinimumCaps
    <2>3. caps' = MinimumCaps /\ ps' = ps /\ remaining' = remaining /\ stage' = "while"
          /\ Disposition(ps, remaining) = "limited"
      BY <1>4 DEF StartDealing
    <2>4. \E k \in Nat, n \in 1..3 : caps' = Midway(k, n)' /\ (unassigned' = 0 \/ n = 1)
      <3>1. Midway(0, 1)' = Midway(0, 1)  BY <2>3 DEF Midway
      <3> QED BY <2>2, <2>3, <3>1
    <2> QED BY <1>1, <2>3, <2>4 DEF FairInv
  <1>5. CASE StartPass
    <2>1. stage = "while" /\ ps' = ps /\ remaining' = remaining /\ caps' = caps /\ unassigned' = unassigned
      BY <1>5 DEF StartPass
    <2>2. PICK k \in Nat, n \in 1..3 : caps = Midway(k, n) /\ (unassigned = 0 \/ n = 1)
      BY <2>1 DEF FairInv
    <2>3. Midway(k, n)' = Midway(k, n)  BY <2>1 DEF Midway
    <2>4. Disposition(ps, remaining) = "limited"  BY <1>1, <2>1 DEF DealInv, Dealing
    <2>5. CASE unassigned > 0
      <3>1. n = 1 /\ index' = 1 /\ stage' = "for"  BY <1>2, <1>5, <2>2, <2>5 DEF StartPass
      <3>2. caps' = Midway(k, index)'
        <4>1. Midway(k, index)' = Midway(k, n)'  BY <3>1 DEF Midway
        <4> QED BY <2>1, <2>2, <2>3, <4>1
      <3> QED BY <1>1, <2>1, <2>4, <3>1, <3>2 DEF FairInv
    <2>6. CASE ~(unassigned > 0)
      <3>1. stage' = "done"  BY <1>5, <2>6 DEF StartPass
      <3>2. \E j \in Nat, l \in 1..3 : caps' = Midway(j, l)' /\ (unassigned' = 0 \/ l = 1)
        BY <2>1, <2>2, <2>3
      <3> QED BY <1>1, <2>1, <2>4, <3>1, <3>2 DEF FairInv
    <2> QED BY <2>5, <2>6
  <1>6. CASE Grant \/ Skip
    <2>1. /\ stage = "for" /\ stage' = "for" /\ index \in DOMAIN ps /\ index' = index + 1
          /\ ps' = ps /\ remaining' = remaining
      BY <1>6 DEF Grant, Skip
    <2>2. PICK k \in Nat : caps = Midway(k, index)  BY <2>1 DEF FairInv
    <2>3. index \in {1, 2} /\ \A i \in DOMAIN ps : i \in {1, 2}  BY <1>2, <2>1 DEF Handles
    <2>4. caps[index] = Lower(MinimumCap(ps[index]) + k, ExpectedCap(ps[index]))
      <3>1. ~(index < index)  BY <2>3
      <3> QED BY <2>1, <2>2, <3>1 DEF Midway
    <2>5. caps' = [i \in DOMAIN ps |->
                     IF i = index THEN Lower(MinimumCap(ps[i]) + (k + 1), ExpectedCap(ps[i]))
                     ELSE caps[i]]
      <3>1. CASE Grant
        <4>1. caps' = [caps EXCEPT ![index] = @ + 1] /\ caps[index] < ExpectedCap(ps[index])
          BY <3>1 DEF Grant
        <4>2. caps[index] + 1 = Lower(MinimumCap(ps[index]) + (k + 1), ExpectedCap(ps[index]))
          BY <1>2, <2>1, <2>4, <4>1 DEF Lower
        <4> QED BY <1>2, <2>1, <4>1, <4>2
      <3>2. CASE Skip
        <4>1. caps' = caps /\ caps[index] >= ExpectedCap(ps[index])
          BY <3>2 DEF Skip
        <4>2. caps[index] = Lower(MinimumCap(ps[index]) + (k + 1), ExpectedCap(ps[index]))
          BY <1>2, <2>1, <2>4, <4>1 DEF Lower
        <4> QED BY <1>2, <2>1, <4>1, <4>2
      <3> QED BY <1>6, <3>1, <3>2
    <2>6. caps' = Midway(k, index)'
      <3>1. Midway(k, index)' = Midway(k, index + 1)  BY <2>1 DEF Midway
      <3>2. \A i \in DOMAIN ps : /\ i < index + 1 <=> i < index \/ i = index
                                 /\ ~(index < index)
        BY <2>3
      <3>3. \A i \in DOMAIN ps : i # index => Midway(k, index + 1)[i] = caps[i]
        BY <2>2, <3>2 DEF Midway
      <3>4. Midway(k, index + 1)[index]
              = Lower(MinimumCap(ps[index]) + (k + 1), ExpectedCap(ps[index]))
        BY <2>1, <3>2 DEF Midway
      <3>5. DOMAIN Midway(k, index + 1) = DOMAIN ps
            /\ Midway(k, index + 1) = [i \in DOMAIN ps |-> Midway(k, index + 1)[i]]
        BY DEF Midway
      <3>6. \A i \in DOMAIN ps : caps'[i] = Midway(k, index + 1)[i]
        BY <2>5, <3>3, <3>4
      <3> QED BY <2>5, <3>1, <3>5, <3>6
    <2>7. Disposition(ps, remaining) = "limited"  BY <1>1, <2>1 DEF DealInv, Dealing
    <2> QED BY <1>1, <2>1, <2>6, <2>7 DEF FairInv
  <1>7. CASE EndPass
    <2>1. /\ stage = "for" /\ ps' = ps /\ remaining' = remaining /\ caps' = caps
          /\ unassigned' = unassigned /\ stage' \in {"while", "done"}
          /\ index \notin DOMAIN ps \/ unassigned = 0
      BY <1>7 DEF EndPass
    <2>2. PICK k \in Nat : caps = Midway(k, index)  BY <2>1 DEF FairInv
    <2>3. Disposition(ps, remaining) = "limited"  BY <1>1, <2>1 DEF DealInv, Dealing
    <2>4. index \in 1..3  BY <1>1, <2>1 DEF DealInv, DealTypeOK
    <2>5. \E j \in Nat, n \in 1..3 : caps = Midway(j, n) /\ (unassigned = 0 \/ n = 1)
      <3>1. CASE unassigned = 0  BY <2>2, <2>4, <3>1
      <3>2. CASE index \notin DOMAIN ps
        <4>1. \A i \in DOMAIN ps : i < index /\ ~(i < 1)
          BY <1>1, <1>2, <2>1, <2>4, <3>2 DEF DealInv, Handles
        <4>2. Midway(k, index) = Midway(k + 1, 1)  BY <4>1 DEF Midway
        <4> QED BY <2>2, <4>2
      <3> QED BY <2>1, <3>1, <3>2
    <2>6. \A j \in Nat, n \in 1..3 : Midway(j, n)' = Midway(j, n)  BY <2>1 DEF Midway
    <2>7. \E j \in Nat, n \in 1..3 : caps' = Midway(j, n)' /\ (unassigned' = 0 \/ n = 1)
      BY <2>1, <2>5, <2>6
    <2> QED BY <1>1, <2>1, <2>3, <2>7 DEF FairInv
  <1>8. CASE UNCHANGED dealing
    <2>1. \A j, n : Midway(j, n)' = Midway(j, n)  BY <1>8 DEF dealing, Midway
    <2>2. Midway(index, index)' = Midway(index, index) /\ ExpectedCaps' = ExpectedCaps
      BY <1>8 DEF dealing, Midway, ExpectedCaps
    <2> QED BY <1>1, <1>8, <2>1, <2>2 DEF dealing, FairInv
  <1> QED BY <1>3, <1>4, <1>5, <1>6, <1>7, <1>8 DEF DealNext

\* What the loop has dealt when it ends is what the closed form says.
DealtAsPlanned == stage = "done" => caps = Caps(ps, remaining)

LEMMA FairMeansPlanned == FairInv => DealtAsPlanned
  <1> SUFFICES ASSUME FairInv, stage = "done" PROVE caps = Caps(ps, remaining)
    BY DEF DealtAsPlanned
  <1>1. DealInv /\ DealTypeOK  BY DEF FairInv, DealInv
  <1>2. CASE Disposition(ps, remaining) = "limited"
    <2>1. PICK k \in Nat, n \in 1..3 : caps = Midway(k, n)
      BY <1>2 DEF FairInv
    <2>2. remaining \in Nat /\ remaining < Total(ExpectedCaps)
      BY <1>1, <1>2, LimitedAllowance
    <2>3. Total(caps) \in Nat
      <3>1. DOMAIN ps \in Handles /\ caps \in [DOMAIN ps -> Nat]
        BY <1>1 DEF DealTypeOK, Handles
      <3> QED BY <3>1, TotalInNat
    <2>4. Total(caps) = remaining
      BY <1>1, <1>2, <2>2, <2>3 DEF DealInv, Dealing
    <2>5. caps = FairCaps(ps, remaining)
      BY <1>1, <2>1, <2>2, <2>4, MidwayIsFair
    <2> QED BY <1>2, <2>5 DEF Caps
  <1>3. CASE Disposition(ps, remaining) = "complete"
    BY <1>3 DEF FairInv, Caps, ExpectedCaps
  <1>4. CASE Disposition(ps, remaining) \notin {"complete", "limited"}
    BY <1>4 DEF FairInv, Caps
  <1> QED BY <1>2, <1>3, <1>4

\* The loop of buildGithubRequestPlan deals, for every profile and allowance, the
\* caps of the closed form: everybody's minimum, as many full rounds as the
\* allowance pays, and one request more for the first ones with room.
THEOREM DealingIsFair == DealSpec => []DealtAsPlanned
  BY FairInitInv, FairNextInv, FairMeansPlanned, PTL DEF DealSpec

-----------------------------------------------------------------------------
(* One collection *)

\* The type invariant in two parts: what is counted, and what is recorded.
Counters ==
  /\ cap \in Nat /\ used \in Nat
  /\ pc \in PCs
  /\ page \in Nat \ {0}
  /\ selected \in 0..Inspected /\ inspected \in 0..selected
  /\ endpoint \in 0..(PerRepository - 1)
  /\ eventsRead \in 0..EventPages

Records ==
  /\ listComplete \in BOOLEAN /\ eventsAvailable \in BOOLEAN /\ truncated \in BOOLEAN
  /\ commit \in BOOLEAN
  /\ lost \subseteq Losses /\ stated \subseteq Losses /\ misread \in BOOLEAN

\* Requests an inspection phase may have made so far, and those it still needs.
InspectionSpent == inspected * PerRepository + endpoint
InspectionNeeds == Inspected * PerRepository - InspectionSpent

Started == pc \in {"rank", "inspect", "commit", "done"}

\* What a phase may have spent at most.
PhaseCeiling ==
  /\ pc \in {"cache", "cached", "user"} => used = 0 /\ page = 1
  /\ pc \in {"cache", "user", "repositories"} => eventsRead = 0
  /\ pc = "repositories" => page <= RepositoryPages /\ used <= page
  /\ pc = "events" => page <= EventPages /\ used <= RepositoryPages + page
                      /\ eventsRead = page - 1
                      /\ (page = 1 => used <= 1 + RepositoryPages)
  /\ pc = "rank" => used <= 1 + RepositoryPages + EventPages
  /\ pc = "inspect" => used <= 1 + RepositoryPages + EventPages + InspectionSpent
  /\ pc = "commit" => used <= 1 + RepositoryPages + EventPages + Inspected * PerRepository
  /\ used <= MetadataCeiling

\* What is still there: either no event page was asked for, or the reserve is.
PhaseReserve ==
  /\ pc = "events" /\ page > 1 => used + Reserve <= cap
  /\ pc = "rank" => \/ eventsRead = 0 /\ used <= 1 + RepositoryPages
                    \/ used + Reserve <= cap
  /\ pc = "inspect" => \/ eventsRead = 0 /\ used <= 1 + RepositoryPages + InspectionSpent
                       \/ used + InspectionNeeds + 1 <= cap
  /\ pc = "commit" /\ eventsRead > 0 => inspected = selected /\ used + 1 <= cap

\* An inspection phase that stopped had inspected something, if it could afford to.
MinimumInspected ==
  cap >= 1 + RepositoryPages + PerRepository /\ selected > 0 => inspected > 0

CollectInv ==
  /\ TypeOK
  /\ used <= cap
  /\ PhaseCeiling
  /\ PhaseReserve
  /\ pc \in {"cache", "user", "repositories", "events", "rank"} =>
       selected = 0 /\ inspected = 0 /\ endpoint = 0
  /\ pc = "inspect" /\ inspected = selected => endpoint = 0
  /\ pc \in {"commit", "done"} => MinimumInspected
  /\ EventsKeepReserve
-----------------------------------------------------------------------------
\* The arithmetic of the inspection phase.
LEMMA Products ==
  ASSUME NEW a \in Nat, NEW b \in Nat, NEW k \in Nat \ {0}
  PROVE  /\ a * k \in Nat
         /\ (a + 1) * k = a * k + k
         /\ a <= b => a * k <= b * k
         /\ a < b => a * k + k <= b * k
  <1>1. a * k \in Nat /\ (a + 1) * k = a * k + k  BY SMT
  <1>2. ASSUME a <= b PROVE a * k <= b * k
    <2>1. PICK c \in Nat : b = a + c  BY <1>2, SMT
    <2>2. b * k = a * k + c * k /\ c * k \in Nat  BY <2>1, SMT
    <2> QED BY <2>2, <1>1, SMT
  <1>3. ASSUME a < b PROVE a * k + k <= b * k
    <2>1. PICK c \in Nat : b = (a + 1) + c  BY <1>3, SMT
    <2>2. b * k = (a + 1) * k + c * k /\ c * k \in Nat  BY <2>1, SMT
    <2> QED BY <2>2, <1>1, SMT
  <1> QED BY <1>1, <1>2, <1>3

\* The same facts about a state: what an inspection has spent and still needs.
LEMMA InspectionArithmetic ==
  ASSUME TypeOK
  PROVE  /\ inspected * PerRepository \in Nat
         /\ Inspected * PerRepository \in Nat
         /\ (inspected + 1) * PerRepository = inspected * PerRepository + PerRepository
         /\ inspected * PerRepository <= Inspected * PerRepository
         /\ inspected < selected =>
              inspected * PerRepository + PerRepository <= Inspected * PerRepository
  <1> USE CollectorAssumption
  <1>1. inspected \in Nat /\ inspected <= Inspected /\ selected <= Inspected /\ Inspected \in Nat
    BY DEF TypeOK
  <1>2. inspected < selected => inspected < Inspected  BY DEF TypeOK
  <1>3. PerRepository \in Nat \ {0}  OBVIOUS
  <1>4. /\ inspected * PerRepository \in Nat
        /\ (inspected + 1) * PerRepository = inspected * PerRepository + PerRepository
        /\ inspected <= Inspected =>
             inspected * PerRepository <= Inspected * PerRepository
        /\ inspected < Inspected =>
             inspected * PerRepository + PerRepository <= Inspected * PerRepository
    BY <1>1, <1>3, Products
  <1>5. Inspected * PerRepository \in Nat  BY <1>1, <1>3, Products
  <1> QED BY <1>1, <1>2, <1>4, <1>5
-----------------------------------------------------------------------------
\* No request has been made and nothing is selected when a collection starts.
LEMMA CollectInitInv == Init => CollectInv
  <1> USE CollectorAssumption
  <1>1. Inspected * PerRepository \in Nat  BY Products
  <1>2. SUFFICES ASSUME Init PROVE CollectInv  OBVIOUS
  <1>3. TypeOK
    <2>1. cap \in Nat /\ 0 \in 0..(PerRepository - 1) /\ 0 \in 0..Inspected /\ 0 \in 0..EventPages
      BY <1>2 DEF Init
    <2>2. Counters  BY <1>2, <2>1 DEF Init, Counters, PCs
    <2>3. Records  BY <1>2 DEF Init, Records
    <2> QED BY <2>2, <2>3 DEF TypeOK, Counters, Records
  <1>4. used <= cap /\ PhaseCeiling  BY <1>1, <1>2 DEF Init, PhaseCeiling, MetadataCeiling
  <1> QED BY <1>2, <1>3, <1>4 DEF Init, CollectInv, PhaseReserve, EventsKeepReserve

\* Sending, or failing to send, a request keeps the client within its cap.
LEMMA SendStep ==
  ASSUME TypeOK, used <= cap, Send \/ SendFails, cap' = cap
  PROVE  used' \in Nat /\ used' <= cap' /\ used <= used' /\ used' <= used + 1
  BY DEF TypeOK, Send, SendFails, CanSpend

LEMMA CollectNextInv == CollectInv /\ [Next]_vars => CollectInv'
  <1> USE CollectorAssumption
  <1>0. SUFFICES ASSUME CollectInv, [Next]_vars PROVE CollectInv'  OBVIOUS
  <1> USE <1>0
  <1>a. /\ inspected * PerRepository \in Nat
        /\ Inspected * PerRepository \in Nat
        /\ (inspected + 1) * PerRepository = inspected * PerRepository + PerRepository
        /\ inspected * PerRepository <= Inspected * PerRepository
        /\ inspected < selected =>
             inspected * PerRepository + PerRepository <= Inspected * PerRepository
    BY InspectionArithmetic DEF CollectInv
  <1>s. Send \/ SendFails => /\ cap' = cap =>
                               /\ used' \in Nat /\ used' <= cap'
                               /\ used <= used' /\ used' <= used + 1
    BY SendStep DEF CollectInv
  <1>1. CASE LookUp
    BY <1>a, <1>1 DEF LookUp, Goto, CollectInv, TypeOK, PCs, PhaseCeiling, PhaseReserve, MetadataCeiling,
                EventsKeepReserve, MinimumInspected, repos, list
  <1>2. CASE ReadUser
    <2>1. TypeOK'
      BY <1>a, <1>s, <1>2 DEF ReadUser, Goto, CollectInv, TypeOK, PCs, Losses, repos, list
    <2>2. used' <= cap' /\ PhaseCeiling'
      BY <1>a, <1>s, <1>2 DEF ReadUser, Goto, CollectInv, TypeOK, PhaseCeiling, MetadataCeiling, repos, list
    <2>3. PhaseReserve'
      BY <1>a, <1>s, <1>2 DEF ReadUser, Goto, CollectInv, TypeOK, PhaseCeiling, PhaseReserve, repos, list
    <2>4. /\ pc' \in {"cache", "user", "repositories", "events", "rank"} =>
               selected' = 0 /\ inspected' = 0 /\ endpoint' = 0
          /\ pc' = "inspect" /\ inspected' = selected' => endpoint' = 0
          /\ pc' \in {"commit", "done"} => MinimumInspected'
          /\ EventsKeepReserve'
      BY <1>a, <1>s, <1>2 DEF ReadUser, Goto, CollectInv, TypeOK, PhaseReserve, MinimumInspected, EventsKeepReserve, repos, list
    <2> QED BY <2>1, <2>2, <2>3, <2>4 DEF CollectInv
  <1>3. CASE FullRepositoryPage
    <2>1. TypeOK'
      <3>1. Counters'
        BY <1>s, <1>3 DEF FullRepositoryPage, Goto, CollectInv, TypeOK, Counters, PCs, repos, list
      <3>2. Records'
        BY <1>3 DEF FullRepositoryPage, Reads, CollectInv, TypeOK, Records, Losses, repos, list
      <3> QED BY <3>1, <3>2 DEF TypeOK, Counters, Records
    <2>2. used' <= cap' /\ PhaseCeiling'
      BY <1>a, <1>s, <1>3 DEF FullRepositoryPage, Goto, CollectInv, TypeOK, PhaseCeiling, MetadataCeiling, repos, list
    <2>3. PhaseReserve'
      BY <1>a, <1>s, <1>3 DEF FullRepositoryPage, Goto, CollectInv, TypeOK, PhaseCeiling, PhaseReserve, repos, list
    <2>4. /\ pc' \in {"cache", "user", "repositories", "events", "rank"} =>
               selected' = 0 /\ inspected' = 0 /\ endpoint' = 0
          /\ pc' = "inspect" /\ inspected' = selected' => endpoint' = 0
          /\ pc' \in {"commit", "done"} => MinimumInspected'
          /\ EventsKeepReserve'
      BY <1>a, <1>s, <1>3 DEF FullRepositoryPage, Goto, CollectInv, TypeOK, PhaseReserve, MinimumInspected, EventsKeepReserve, repos, list
    <2> QED BY <2>1, <2>2, <2>3, <2>4 DEF CollectInv
  <1>4. CASE LastRepositoryPage
    <2>1. TypeOK'
      <3>1. Counters'
        BY <1>s, <1>4 DEF LastRepositoryPage, Goto, CollectInv, TypeOK, Counters, PCs, repos, list
      <3>2. Records'
        BY <1>4 DEF LastRepositoryPage, Reads, CollectInv, TypeOK, Records, repos, list
      <3> QED BY <3>1, <3>2 DEF TypeOK, Counters, Records
    <2>2. used' <= cap' /\ PhaseCeiling'
      BY <1>a, <1>s, <1>4 DEF LastRepositoryPage, Goto, CollectInv, TypeOK, PhaseCeiling, MetadataCeiling, repos, list
    <2>3. PhaseReserve'
      BY <1>a, <1>s, <1>4 DEF LastRepositoryPage, Goto, CollectInv, TypeOK, PhaseCeiling, PhaseReserve, repos, list
    <2>4. /\ pc' \in {"cache", "user", "repositories", "events", "rank"} =>
               selected' = 0 /\ inspected' = 0 /\ endpoint' = 0
          /\ pc' = "inspect" /\ inspected' = selected' => endpoint' = 0
          /\ pc' \in {"commit", "done"} => MinimumInspected'
          /\ EventsKeepReserve'
      BY <1>a, <1>s, <1>4 DEF LastRepositoryPage, Goto, CollectInv, TypeOK, PhaseReserve, MinimumInspected, EventsKeepReserve, repos, list
    <2> QED BY <2>1, <2>2, <2>3, <2>4 DEF CollectInv
  <1>5. CASE RepositoriesFail
    <2>1. TypeOK'
      <3>1. Counters'
        BY <1>s, <1>5 DEF RepositoriesFail, Goto, CollectInv, TypeOK, Counters, PCs, repos, list
      <3>2. Records'
        BY <1>5 DEF RepositoriesFail, CollectInv, TypeOK, Records, Losses, repos, list
      <3> QED BY <3>1, <3>2 DEF TypeOK, Counters, Records
    <2>2. used' <= cap' /\ PhaseCeiling'
      BY <1>a, <1>s, <1>5 DEF RepositoriesFail, Goto, CollectInv, TypeOK, PhaseCeiling, MetadataCeiling, repos, list
    <2>3. PhaseReserve'
      BY <1>a, <1>s, <1>5 DEF RepositoriesFail, Goto, CollectInv, TypeOK, PhaseCeiling, PhaseReserve, repos, list
    <2>4. /\ pc' \in {"cache", "user", "repositories", "events", "rank"} =>
               selected' = 0 /\ inspected' = 0 /\ endpoint' = 0
          /\ pc' = "inspect" /\ inspected' = selected' => endpoint' = 0
          /\ pc' \in {"commit", "done"} => MinimumInspected'
          /\ EventsKeepReserve'
      BY <1>a, <1>s, <1>5 DEF RepositoriesFail, Goto, CollectInv, TypeOK, PhaseReserve, MinimumInspected, EventsKeepReserve, repos, list
    <2> QED BY <2>1, <2>2, <2>3, <2>4 DEF CollectInv
  <1>6. CASE EventsStop
    BY <1>a, <1>6 DEF EventsStop, Goto, CollectInv, TypeOK, PCs, Losses, PhaseCeiling,
                PhaseReserve, MetadataCeiling, EventsKeepReserve, MinimumInspected, repos, list
  <1>7. CASE FullEventPage
    <2>1. TypeOK'
      <3>0. page <= EventPages /\ eventsRead' = page
        BY <1>7 DEF FullEventPage, CollectInv, TypeOK, PhaseCeiling
      <3>1. Counters'
        BY <1>s, <3>0, <1>7 DEF FullEventPage, Goto, CollectInv, TypeOK, Counters, PCs, repos, list
      <3>2. Records'
        BY <1>7 DEF FullEventPage, Reads, CollectInv, TypeOK, Records, Losses, repos, list
      <3> QED BY <3>1, <3>2 DEF TypeOK, Counters, Records
    <2>2. used' <= cap' /\ PhaseCeiling'
      BY <1>a, <1>s, <1>7 DEF FullEventPage, MayReadEvents, CanSpend, Reserve, Goto, CollectInv, TypeOK, PhaseCeiling, MetadataCeiling, repos, list
    <2>3. PhaseReserve'
      BY <1>a, <1>s, <1>7 DEF FullEventPage, MayReadEvents, CanSpend, Reserve, Goto, CollectInv, TypeOK, PhaseCeiling, PhaseReserve, repos, list
    <2>4. /\ pc' \in {"cache", "user", "repositories", "events", "rank"} =>
               selected' = 0 /\ inspected' = 0 /\ endpoint' = 0
          /\ pc' = "inspect" /\ inspected' = selected' => endpoint' = 0
          /\ pc' \in {"commit", "done"} => MinimumInspected'
          /\ EventsKeepReserve'
      BY <1>a, <1>s, <1>7 DEF FullEventPage, MayReadEvents, CanSpend, Reserve, Goto, CollectInv, TypeOK, PhaseReserve, MinimumInspected, EventsKeepReserve, repos, list
    <2> QED BY <2>1, <2>2, <2>3, <2>4 DEF CollectInv
  <1>8. CASE LastEventPage
    <2>1. TypeOK'
      <3>0. page <= EventPages /\ eventsRead < EventPages
        BY <1>8 DEF LastEventPage, CollectInv, TypeOK, PhaseCeiling
      <3>1. Counters'
        BY <1>s, <3>0, <1>8 DEF LastEventPage, Goto, CollectInv, TypeOK, Counters, PCs, repos, list
      <3>2. Records'
        BY <1>8 DEF LastEventPage, Reads, CollectInv, TypeOK, Records, repos, list
      <3> QED BY <3>1, <3>2 DEF TypeOK, Counters, Records
    <2>2. used' <= cap' /\ PhaseCeiling' /\ PhaseReserve'
      BY <1>a, <1>s, <1>8 DEF LastEventPage, MayReadEvents, CanSpend, Reserve, Goto, CollectInv, TypeOK,
                  PhaseCeiling, PhaseReserve, MetadataCeiling, repos, list
    <2>3. /\ pc' \in {"cache", "user", "repositories", "events", "rank"} =>
               selected' = 0 /\ inspected' = 0 /\ endpoint' = 0
          /\ pc' = "inspect" /\ inspected' = selected' => endpoint' = 0
          /\ pc' \in {"commit", "done"} => MinimumInspected'
          /\ EventsKeepReserve'
      BY <1>8 DEF LastEventPage, Goto, CollectInv, EventsKeepReserve, repos, list
    <2> QED BY <2>1, <2>2, <2>3 DEF CollectInv
  <1>9. CASE EventsFail
    <2>1. TypeOK'
      BY <1>a, <1>s, <1>9 DEF EventsFail, MayReadEvents, CanSpend, Reserve, Goto, CollectInv, TypeOK, PCs, Losses, repos, list
    <2>2. used' <= cap' /\ PhaseCeiling'
      BY <1>a, <1>s, <1>9 DEF EventsFail, MayReadEvents, CanSpend, Reserve, Goto, CollectInv, TypeOK, PhaseCeiling, MetadataCeiling, repos, list
    <2>3. PhaseReserve'
      BY <1>a, <1>s, <1>9 DEF EventsFail, MayReadEvents, CanSpend, Reserve, Goto, CollectInv, TypeOK, PhaseCeiling, PhaseReserve, repos, list
    <2>4. /\ pc' \in {"cache", "user", "repositories", "events", "rank"} =>
               selected' = 0 /\ inspected' = 0 /\ endpoint' = 0
          /\ pc' = "inspect" /\ inspected' = selected' => endpoint' = 0
          /\ pc' \in {"commit", "done"} => MinimumInspected'
          /\ EventsKeepReserve'
      BY <1>a, <1>s, <1>9 DEF EventsFail, MayReadEvents, CanSpend, Reserve, Goto, CollectInv, TypeOK, PhaseReserve, MinimumInspected, EventsKeepReserve, repos, list
    <2> QED BY <2>1, <2>2, <2>3, <2>4 DEF CollectInv
  <1>10. CASE Rank
    BY <1>a, <1>10 DEF Rank, Reserve, Goto, CollectInv, TypeOK, PCs, Losses, PhaseCeiling, InspectionSpent,
                InspectionNeeds, PhaseReserve, MetadataCeiling, EventsKeepReserve,
                MinimumInspected, repos, list
  <1>11. CASE InspectStops
    BY <1>a, <1>11 DEF InspectStops, MayInspect, CanSpend, Goto, CollectInv, TypeOK, PCs, Losses,
                PhaseCeiling, InspectionSpent, InspectionNeeds, PhaseReserve, MetadataCeiling,
                EventsKeepReserve, MinimumInspected, repos, list
  <1>12. CASE InspectOne
    <2>1. TypeOK'
      <3>1. Counters'
        BY <1>s, <1>12 DEF InspectOne, Goto, CollectInv, TypeOK, Counters, PCs, repos, list
      <3>2. Records'
        BY <1>12 DEF InspectOne, Reads, CollectInv, TypeOK, Records, Losses, repos, list
      <3> QED BY <3>1, <3>2 DEF TypeOK, Counters, Records
    <2>2. used' <= cap' /\ PhaseCeiling'
      BY <1>a, <1>s, <1>12 DEF InspectOne, Goto, CollectInv, TypeOK, PhaseCeiling, InspectionSpent, InspectionNeeds, MetadataCeiling, repos, list
    <2>3. PhaseReserve'
      BY <1>a, <1>s, <1>12 DEF InspectOne, Goto, CollectInv, TypeOK, PhaseCeiling, PhaseReserve, InspectionSpent, InspectionNeeds, repos, list
    <2>4. /\ pc' \in {"cache", "user", "repositories", "events", "rank"} =>
               selected' = 0 /\ inspected' = 0 /\ endpoint' = 0
          /\ pc' = "inspect" /\ inspected' = selected' => endpoint' = 0
          /\ pc' \in {"commit", "done"} => MinimumInspected'
          /\ EventsKeepReserve'
      BY <1>a, <1>s, <1>12 DEF InspectOne, Goto, CollectInv, TypeOK, PhaseReserve, MinimumInspected, EventsKeepReserve, repos, list
    <2> QED BY <2>1, <2>2, <2>3, <2>4 DEF CollectInv
  <1>13. CASE InspectEnds
    BY <1>a, <1>13 DEF InspectEnds, Goto, CollectInv, TypeOK, PCs, Losses,
                PhaseCeiling, InspectionSpent, InspectionNeeds, PhaseReserve, MetadataCeiling,
                EventsKeepReserve, MinimumInspected, repos, list
  <1>14. CASE NoCommit
    <2>1. TypeOK'
      BY <1>a, <1>14 DEF NoCommit, CanSpend, Goto, CollectInv, TypeOK, PCs, Losses, repos, list
    <2>2. used' <= cap' /\ PhaseCeiling'
      BY <1>a, <1>14 DEF NoCommit, CanSpend, Goto, CollectInv, TypeOK, PhaseCeiling, MetadataCeiling, repos, list
    <2>3. PhaseReserve'
      BY <1>a, <1>14 DEF NoCommit, CanSpend, Goto, CollectInv, TypeOK, PhaseCeiling, PhaseReserve, repos, list
    <2>4. /\ pc' \in {"cache", "user", "repositories", "events", "rank"} =>
               selected' = 0 /\ inspected' = 0 /\ endpoint' = 0
          /\ pc' = "inspect" /\ inspected' = selected' => endpoint' = 0
          /\ pc' \in {"commit", "done"} => MinimumInspected'
          /\ EventsKeepReserve'
      BY <1>a, <1>14 DEF NoCommit, CanSpend, Goto, CollectInv, TypeOK, PhaseReserve, MinimumInspected, EventsKeepReserve, repos, list
    <2> QED BY <2>1, <2>2, <2>3, <2>4 DEF CollectInv
  <1>15. CASE Commit
    <2>1. TypeOK'
      BY <1>a, <1>s, <1>15 DEF Commit, Reads, Goto, CollectInv, TypeOK, PCs, Losses, repos, list
    <2>2. used' <= cap' /\ PhaseCeiling'
      BY <1>a, <1>s, <1>15 DEF Commit, Goto, CollectInv, TypeOK, PhaseCeiling, MetadataCeiling, repos, list
    <2>3. PhaseReserve'
      BY <1>a, <1>s, <1>15 DEF Commit, Goto, CollectInv, TypeOK, PhaseCeiling, PhaseReserve, repos, list
    <2>4. /\ pc' \in {"cache", "user", "repositories", "events", "rank"} =>
               selected' = 0 /\ inspected' = 0 /\ endpoint' = 0
          /\ pc' = "inspect" /\ inspected' = selected' => endpoint' = 0
          /\ pc' \in {"commit", "done"} => MinimumInspected'
          /\ EventsKeepReserve'
      BY <1>a, <1>s, <1>15 DEF Commit, Goto, CollectInv, TypeOK, PhaseReserve, MinimumInspected, EventsKeepReserve, repos, list
    <2> QED BY <2>1, <2>2, <2>3, <2>4 DEF CollectInv
  <1>16. CASE UNCHANGED vars
    BY <1>16 DEF vars, CollectInv, TypeOK, PhaseCeiling, InspectionSpent, InspectionNeeds, PhaseReserve,
                EventsKeepReserve, MinimumInspected, repos, list
  <1> QED
    BY <1>1, <1>2, <1>3, <1>4, <1>5, <1>6, <1>7, <1>8, <1>9, <1>10, <1>11, <1>12, <1>13,
       <1>14, <1>15, <1>16 DEF Next
-----------------------------------------------------------------------------
LEMMA CollectInductive == Spec => []CollectInv
  BY CollectInitInv, CollectNextInv, PTL DEF Spec

\* Every state of a collection is well typed: no counter or phase leaves its
\* range, whatever cap it was given and whichever requests fail.
THEOREM CollectionTyped == Spec => []TypeOK
  <1>1. CollectInv => TypeOK  BY DEF CollectInv
  <1> QED BY CollectInductive, <1>1, PTL

\* No collection sends more requests than its cap, nor more than the metadata
\* plan of one profile.
THEOREM BudgetIsRespected == Spec => []BudgetRespected
  <1>1. CollectInv => BudgetRespected  BY DEF CollectInv, PhaseCeiling, BudgetRespected
  <1> QED BY CollectInductive, <1>1, PTL

\* Event pages never cost an inspection or the commit sample.
THEOREM EventsAreOptional == Spec => []EventsKeepReserve
  <1>1. CollectInv => EventsKeepReserve  BY DEF CollectInv
  <1> QED BY CollectInductive, <1>1, PTL

\* A cap that pays for the user, every repository page and one inspection buys
\* an inspected repository for a profile that has one.
THEOREM MinimumBuysEvidence == Spec => []MinimumIsUseful
  <1>1. CollectInv => MinimumIsUseful  BY DEF CollectInv, MinimumInspected, MinimumIsUseful
  <1> QED BY CollectInductive, <1>1, PTL
-----------------------------------------------------------------------------
\* What is missing is stated as it goes missing, in every phase and not only in
\* the finished snapshot; only events may be lost silently. What answers are read
\* for does not enter into it.
Admitted ==
  /\ lost \ {"events"} \subseteq stated
  /\ listComplete = ("repositories" \notin lost)

\* No step loses anything but events without stating it.
LEMMA StepAdmits ==
  ASSUME Admitted, Next
  PROVE  Admitted'
  <1>1. CASE UNCHANGED <<lost, stated, listComplete>>
    BY <1>1 DEF Admitted
  <1>2. ASSUME NEW part \in Losses,
               lost' = lost \cup {part}, stated' = stated \cup {part},
               listComplete' = IF part = "repositories" THEN FALSE ELSE listComplete
        PROVE  Admitted'
    BY <1>2 DEF Admitted, Losses
  <1>3. ASSUME lost' = lost \cup {"events"}, stated \subseteq stated',
               listComplete' = listComplete
        PROVE  Admitted'
    BY <1>3 DEF Admitted
  <1>4. CASE LookUp
    BY <1>4, <1>1 DEF LookUp, list, Losses
  <1>5. CASE ReadUser
    BY <1>5, <1>1 DEF ReadUser, list, Losses
  <1>6. CASE FullRepositoryPage
    BY <1>6, <1>1, <1>2 DEF FullRepositoryPage, list, Losses
  <1>7. CASE LastRepositoryPage
    BY <1>7, <1>1 DEF LastRepositoryPage, list, Losses
  <1>8. CASE RepositoriesFail
    BY <1>8, <1>1, <1>2 DEF RepositoriesFail, list, Losses
  <1>9. CASE EventsStop
    BY <1>9, <1>2 DEF EventsStop, list, Losses
  <1>10. CASE FullEventPage
    BY <1>10, <1>1, <1>2 DEF FullEventPage, list, Losses
  <1>11. CASE LastEventPage
    BY <1>11, <1>1 DEF LastEventPage, list, Losses
  <1>12. CASE EventsFail
    BY <1>12, <1>3 DEF EventsFail, list, Losses
  <1>13. CASE Rank
    BY <1>13, <1>1 DEF Rank, list, Losses
  <1>14. CASE InspectStops
    BY <1>14, <1>2 DEF InspectStops, list, Losses
  <1>15. CASE InspectOne
    BY <1>15, <1>1, <1>2 DEF InspectOne, list, Losses
  <1>16. CASE InspectEnds
    BY <1>16, <1>1 DEF InspectEnds, list, Losses
  <1>17. CASE NoCommit
    BY <1>17, <1>1, <1>2 DEF NoCommit, list, Losses
  <1>18. CASE Commit
    BY <1>18, <1>1, <1>2 DEF Commit, list, Losses
  <1> QED
    BY <1>4, <1>5, <1>6, <1>7, <1>8, <1>9, <1>10,
       <1>11, <1>12, <1>13, <1>14, <1>15, <1>16, <1>17, <1>18 DEF Next

\* A finished snapshot states what failed requests, requests that are not made and
\* page limits cost it, events after the first page excepted, whatever GitHub has
\* and however little of an answer is read; and it calls its repository list
\* complete just when no page of it failed or was left out.
THEOREM LossesAreStated == Spec => []LossIsStated
  <1>1. Init => Admitted  BY DEF Init, Admitted
  <1>2. Admitted /\ [Next]_vars => Admitted'
    BY StepAdmits DEF vars, list, Admitted
  <1>3. Admitted => LossIsStated  BY DEF Admitted, LossIsStated
  <1> QED BY <1>1, <1>2, <1>3, PTL DEF Spec
-----------------------------------------------------------------------------
\* What one request, sent or not, does to the budget a caller sees.
LEMMA StepIsBudgetStep ==
  ASSUME TypeOK, used <= cap, Next
  PROVE  /\ cap' = cap /\ pc \notin {"cached", "done", "failed"}
         /\ used' = used \/ (used' = used + 1 /\ used + 1 <= cap)
  <1>1. CASE LookUp
    BY <1>1 DEF LookUp, Send, SendFails, CanSpend, TypeOK
  <1>2. CASE ReadUser
    BY <1>2 DEF ReadUser, Send, SendFails, CanSpend, TypeOK
  <1>3. CASE FullRepositoryPage
    BY <1>3 DEF FullRepositoryPage, Send, SendFails, CanSpend, TypeOK
  <1>4. CASE LastRepositoryPage
    BY <1>4 DEF LastRepositoryPage, Send, SendFails, CanSpend, TypeOK
  <1>5. CASE RepositoriesFail
    BY <1>5 DEF RepositoriesFail, Send, SendFails, CanSpend, TypeOK
  <1>6. CASE EventsStop
    BY <1>6 DEF EventsStop, Send, SendFails, CanSpend, TypeOK
  <1>7. CASE FullEventPage
    BY <1>7 DEF FullEventPage, Send, SendFails, CanSpend, TypeOK
  <1>8. CASE LastEventPage
    BY <1>8 DEF LastEventPage, Send, SendFails, CanSpend, TypeOK
  <1>9. CASE EventsFail
    BY <1>9 DEF EventsFail, Send, SendFails, CanSpend, TypeOK
  <1>10. CASE Rank
    BY <1>10 DEF Rank, Send, SendFails, CanSpend, TypeOK
  <1>11. CASE InspectStops
    BY <1>11 DEF InspectStops, Send, SendFails, CanSpend, TypeOK
  <1>12. CASE InspectOne
    BY <1>12 DEF InspectOne, Send, SendFails, CanSpend, TypeOK
  <1>13. CASE InspectEnds
    BY <1>13 DEF InspectEnds, Send, SendFails, CanSpend, TypeOK
  <1>14. CASE NoCommit
    BY <1>14 DEF NoCommit, Send, SendFails, CanSpend, TypeOK
  <1>15. CASE Commit
    BY <1>15 DEF Commit, Send, SendFails, CanSpend, TypeOK
  <1> QED
    BY <1>1, <1>2, <1>3, <1>4, <1>5, <1>6, <1>7, <1>8, <1>9, <1>10, <1>11, <1>12, <1>13, <1>14, <1>15
       DEF Next

\* Seen from the plan that gave it its cap, a collection is a client that spends
\* that cap one request at a time, never beyond, and nothing after its answer.
THEOREM KeepsToItsCap == Spec => BudgetSpec
  <1> USE CollectorAssumption
  <1>1. Init => Budget!Init
    BY DEF Init, Budget!Init
  <1>2. CollectInv /\ [Next]_vars => [Budget!Next]_Budget!vars
    <2>1. CASE UNCHANGED vars
      BY <2>1 DEF vars, Budget!vars
    <2>2. ASSUME CollectInv, Next PROVE [Budget!Next]_Budget!vars
      <3>1. /\ cap' = cap /\ pc \notin {"cached", "done", "failed"}
            /\ used' = used \/ (used' = used + 1 /\ used + 1 <= cap)
        BY <2>2, StepIsBudgetStep DEF CollectInv
      <3>2. used \in Nat /\ cap \in Nat /\ used <= cap
        BY <2>2 DEF CollectInv, TypeOK
      <3> DEFINE over == pc \in {"cached", "done", "failed"}
      <3>3. CASE over'
        BY <3>1, <3>2, <3>3 DEF Budget!Next, Budget!Finish
      <3>4. CASE ~over' /\ used' = used
        BY <3>1, <3>4 DEF Budget!vars
      <3>5. CASE ~over' /\ used' = used + 1
        BY <3>1, <3>2, <3>5 DEF Budget!Next, Budget!Spend
      <3> QED BY <3>1, <3>3, <3>4, <3>5
    <2> QED BY <2>1, <2>2
  <1> QED BY CollectInductive, <1>1, <1>2, PTL DEF Spec, BudgetSpec, Budget!Spec
-----------------------------------------------------------------------------
(* The planner and the collector it pays for *)

\* A collection has begun only under a plan that allows it, with the cap the loop
\* dealt to its profile.
CollectingInv ==
  /\ FairInv /\ CollectInv
  /\ who \in DOMAIN ps
  /\ cap = Caps(ps, remaining)[who]
  /\ pc # "cache" => stage = "done" /\ PlanBegins

LEMMA CollectingInductive == CollectingSpec => []CollectingInv
  <1>1. CollectingInit => CollectingInv
    BY FairInitInv, CollectInitInv DEF CollectingInit, Init, CollectingInv
  <1>2. CollectingInv /\ [CollectingNext]_collecting => CollectingInv'
    <2> SUFFICES ASSUME CollectingInv, [CollectingNext]_collecting PROVE CollectingInv'
      OBVIOUS
    <2>1. [DealNext]_dealing /\ [Next]_vars /\ who' = who
      BY DEF CollectingNext, Deal, Collect, collecting
    <2>2. FairInv' /\ CollectInv'
      BY <2>1, FairNextInv, CollectNextInv DEF CollectingInv
    <2>3. ps' = ps /\ remaining' = remaining
      BY <2>1 DEF DealNext, Settle, StartDealing, StartPass, Grant, Skip, EndPass, dealing
    <2>4. CASE Collect
      <3>1. stage = "done" /\ PlanBegins /\ stage' = stage /\ PlanBegins'
        BY <2>3, <2>4 DEF Collect, PlanBegins, dealing
      <3>2. cap' = cap
        BY <2>4 DEF Collect, Next, LookUp, ReadUser, FullRepositoryPage, LastRepositoryPage,
             RepositoriesFail, EventsStop, FullEventPage, LastEventPage, EventsFail, Rank,
             InspectStops, InspectOne, InspectEnds, NoCommit, Commit
      <3> QED BY <2>1, <2>2, <2>3, <3>1, <3>2 DEF CollectingInv
    <2>5. CASE ~Collect
      <3>1. UNCHANGED vars  BY <2>5 DEF CollectingNext, Deal, collecting
      <3>2. pc # "cache" => stage' = "done" /\ PlanBegins'
        <4>1. stage = "done" => stage' = "done"
          BY <2>1 DEF DealNext, Settle, StartDealing, StartPass, Grant, Skip, EndPass, dealing
        <4> QED BY <2>3, <4>1 DEF CollectingInv, PlanBegins
      <3> QED BY <2>1, <2>2, <2>3, <3>1, <3>2 DEF CollectingInv, vars
    <2> QED BY <2>4, <2>5
  <1> QED BY <1>1, <1>2, PTL DEF CollectingSpec

\* What a plan buys, as far as it can be said without fairness: a collection that
\* is through has inspected a repository of a profile without a snapshot, if any
\* was selected, however short the allowance and whoever shares it.
PlanBuysEvidence ==
  pc = "done" /\ ~ps[who].snapshotHit /\ selected > 0 => inspected > 0

THEOREM PlanIsUseful == CollectingSpec => []PlanBuysEvidence
  <1>1. CollectingInv => PlanBuysEvidence
    <2> SUFFICES ASSUME CollectingInv, pc = "done", ~ps[who].snapshotHit, selected > 0
                 PROVE  inspected > 0
      BY DEF PlanBuysEvidence
    <2>1. DealTypeOK /\ TypeOK /\ MinimumInspected /\ who \in DOMAIN ps
          /\ stage = "done" /\ PlanBegins /\ caps = Caps(ps, remaining) /\ cap = caps[who]
      BY FairMeansPlanned DEF CollectingInv, FairInv, DealInv, CollectInv, DealtAsPlanned
    <2>2. ps[who] \in Profile  BY <2>1 DEF DealTypeOK
    <2>3. MinimumCap(ps[who]) = MinimumUseful  BY DEF MinimumCap
    <2>4. MinimumUseful <= cap
      <3>1. CASE Disposition(ps, remaining) = "limited"
        BY <2>1, <2>3, <3>1 DEF CollectingInv, FairInv, DealInv, Dealing
      <3>2. CASE Disposition(ps, remaining) = "complete"
        <4>1. cap = ExpectedCap(ps[who])
          BY <2>1, <3>2 DEF CollectingInv, FairInv, ExpectedCaps
        <4> QED BY <2>2, <2>3, <4>1, CapsOfProfile
      <3> QED BY <2>1, <3>1, <3>2 DEF PlanBegins
    <2>5. 1 + RepositoryPages + PerRepository <= cap
      BY <2>1, <2>4, MinimumPaysInspection, RequestPlanAssumption, CollectorAssumption DEF TypeOK
    <2> QED BY <2>5 DEF CollectingInv, CollectInv, MinimumInspected
  <1> QED BY CollectingInductive, <1>1, PTL

\* Under a limited plan what a collection has sent and what the other profile may
\* send are together within the allowance, at every moment.
ShareKept ==
  pc # "cache" /\ Disposition(ps, remaining) = "limited" =>
    used + (Total(caps) - caps[who]) <= remaining

THEOREM ShareIsKept == CollectingSpec => []ShareKept
  <1>1. CollectingInv => ShareKept
    <2> SUFFICES ASSUME CollectingInv, pc # "cache", Disposition(ps, remaining) = "limited"
                 PROVE  used + (Total(caps) - caps[who]) <= remaining
      BY DEF ShareKept
    <2>1. DealInv /\ DealTypeOK /\ TypeOK /\ used <= cap /\ who \in DOMAIN ps
          /\ stage = "done" /\ cap = caps[who]
      BY FairMeansPlanned DEF CollectingInv, FairInv, DealInv, CollectInv, DealtAsPlanned
    <2>2. remaining \in Nat  BY <2>1, LimitedAllowance
    <2>3. DOMAIN ps \in Handles /\ caps \in [DOMAIN ps -> Nat]
      BY <2>1 DEF DealTypeOK, Handles
    <2>4. Total(caps) \in Nat /\ caps[who] \in Nat  BY <2>1, <2>3, TotalInNat
    <2>5. Total(caps) = remaining
      BY <2>1, <2>2, <2>4 DEF DealInv, Dealing
    <2> QED BY <2>1, <2>2, <2>4, <2>5 DEF TypeOK
  <1> QED BY CollectingInductive, <1>1, PTL
=============================================================================
