-------------------------- MODULE InvocationProofs --------------------------
(***************************************************************************)
(* Theorems about whole invocations, for every set of accounts, command    *)
(* lines, allowances and cache contents, any number of invocations and     *)
(* every value of the planner's constants.                                 *)
(*                                                                         *)
(* They rest on what one plan promises (PlanIsHonest), on an invariant of  *)
(* the preflight that is kept both on its own and inside an invocation     *)
(* (PreflightInv), and on one of the stages after it (InvocationInv).      *)
(***************************************************************************)
EXTENDS Invocation, FiniteSetTheorems, TLAPS

\* One handle or two.
HandleSets == {1..1, 1..2}
ProbeSeqs == UNION {[D -> Profile] : D \in HandleSets}
-----------------------------------------------------------------------------
(* Numbers *)

LEMMA LeastNatural ==
  ASSUME NEW S \in SUBSET Nat, S # {}
  PROVE  \E m \in S : \A n \in S : m <= n
  <1> DEFINE R == OpToRel(<, Nat)
  <1>1. IsWellFoundedOn(R, Nat)  BY NatLessThanWellFounded
  <1>2. \A x, y \in Nat : x < y => <<x, y>> \in R  BY DEF OpToRel
  <1> HIDE DEF R
  <1>3. PICK m \in S : \A n \in S : <<n, m>> \notin R  BY <1>1, WFMin
  <1>4. ASSUME NEW n \in S PROVE m <= n
    <2>1. n \in Nat /\ m \in Nat /\ <<n, m>> \notin R  BY <1>3
    <2>2. ~(n < m)  BY <1>2, <2>1
    <2> QED BY <2>1, <2>2
  <1> QED BY <1>4

\* How many of two.
LEMMA CountOfTwo ==
  ASSUME NEW D \in SUBSET {1, 2}
  PROVE  Cardinality(D) = (IF 1 \in D THEN 1 ELSE 0) + (IF 2 \in D THEN 1 ELSE 0)
  <1>1. Cardinality({}) = 0  BY FS_EmptySet, SMT
  <1>2. \A x : IsFiniteSet({x}) /\ Cardinality({x}) = 1  BY FS_Singleton, Zenon
  <1>3. Cardinality({1, 2}) = 2
    <2>1. IsFiniteSet({1}) /\ Cardinality({1}) = 1  BY <1>2
    <2>2. Cardinality({1} \cup {2}) = Cardinality({1}) + 1
      <3>1. 2 \notin {1}  OBVIOUS
      <3> QED BY <2>1, <3>1, FS_AddElement
    <2>3. {1} \cup {2} = {1, 2}  OBVIOUS
    <2> QED BY <2>1, <2>2, <2>3
  <1>4. CASE D = {}  BY <1>1, <1>4
  <1>5. CASE D = {1}  BY <1>2, <1>5
  <1>6. CASE D = {2}  BY <1>2, <1>6
  <1>7. CASE D = {1, 2}  BY <1>3, <1>7
  <1>8. D = {} \/ D = {1} \/ D = {2} \/ D = {1, 2}  OBVIOUS
  <1> QED BY <1>4, <1>5, <1>6, <1>7, <1>8

LEMMA TotalInNat ==
  ASSUME NEW D \in HandleSets, NEW f \in [D -> Nat]
  PROVE  Total(f) \in Nat
  BY DEF HandleSets, Total

LEMMA TotalMonotone ==
  ASSUME NEW D \in HandleSets, NEW f \in [D -> Nat], NEW g \in [D -> Nat],
         \A i \in D : f[i] <= g[i]
  PROVE  Total(f) <= Total(g)
  BY DEF HandleSets, Total

\* The sum of two plans, side by side.
LEMMA TotalOfSum ==
  ASSUME NEW D \in HandleSets, NEW f \in [D -> Nat], NEW g \in [D -> Nat]
  PROVE  Total([i \in D |-> f[i] + g[i]]) = Total(f) + Total(g)
  <1>1. CASE D = 1..1
    <2>1. 1 \in D /\ 2 \notin D  BY <1>1
    <2> QED BY <2>1 DEF Total
  <1>2. CASE D = 1..2
    <2>1. 1 \in D /\ 2 \in D  BY <1>2
    <2> QED BY <2>1 DEF Total
  <1> QED BY <1>1, <1>2 DEF HandleSets
-----------------------------------------------------------------------------
(* The planner *)

\* What one profile may be given.
LEMMA CapsOfProfile ==
  ASSUME NEW p \in Profile
  PROVE  /\ ExpectedCap(p) \in Nat /\ MinimumCap(p) \in Nat /\ ExpectedNow(p) \in Nat
         /\ MinimumCap(p) <= ExpectedCap(p)
         /\ ExpectedNow(p) <= ExpectedCap(p)
         /\ ExpectedCap(p) <= CompleteProfile
  BY RequestPlanAssumption DEF Profile, ExpectedCap, MinimumCap, ExpectedNow

\* A plan of one handle or two: what the parts of it amount to.
LEMMA PlanNumbers ==
  ASSUME NEW D \in HandleSets, NEW ps \in [D -> Profile]
  PROVE  /\ Expected(ps) \in Nat /\ Minimum(ps) \in Nat
         /\ [i \in D |-> ExpectedCap(ps[i])] \in [D -> Nat]
         /\ Expected(ps) <= Total([i \in D |-> ExpectedCap(ps[i])])
         /\ Total([i \in D |-> ExpectedCap(ps[i])]) <= Len(ps) * CompleteProfile
         /\ Minimum(ps) <= Total([i \in D |-> ExpectedCap(ps[i])])
         /\ Len(ps) \in {1, 2} /\ DOMAIN ps = D
         /\ Len(ps) = 2 <=> 2 \in D
         /\ 1 \in D
  <1> DEFINE now == [i \in D |-> ExpectedNow(ps[i])]
             least == [i \in D |-> MinimumCap(ps[i])]
             most == [i \in D |-> ExpectedCap(ps[i])]
             all == [i \in D |-> CompleteProfile]
  <1>1. now \in [D -> Nat] /\ least \in [D -> Nat] /\ most \in [D -> Nat]
    BY CapsOfProfile
  <1>2. all \in [D -> Nat]  BY RequestPlanAssumption
  <1>3. \A i \in D : now[i] <= most[i] /\ least[i] <= most[i] /\ most[i] <= all[i]
    BY CapsOfProfile
  <1>4. DOMAIN ps = D /\ 1 \in D  BY DEF HandleSets
  <1>5. Expected(ps) = Total(now) /\ Minimum(ps) = Total(least)
    BY <1>4 DEF Expected, Minimum
  <1>6. /\ Len(ps) = 1 \/ Len(ps) = 2
        /\ Len(ps) = 1 => 2 \notin D
        /\ Len(ps) = 2 => 2 \in D
    BY <1>4 DEF HandleSets
  <1>7. Total(all) = Len(ps) * CompleteProfile
    <2>1. CompleteProfile \in Nat /\ DOMAIN all = D /\ all[1] = CompleteProfile
      BY <1>4, RequestPlanAssumption
    <2>2. CASE 2 \in D
      <3>1. all[2] = CompleteProfile  BY <2>2
      <3>2. Total(all) = CompleteProfile + CompleteProfile
        BY <2>1, <2>2, <3>1 DEF Total
      <3>3. Len(ps) = 2  BY <1>6, <2>2
      <3> HIDE DEF all
      <3> QED BY <2>1, <3>2, <3>3
    <2>3. CASE 2 \notin D
      BY <1>6, <2>1, <2>3 DEF Total
    <2> QED BY <2>2, <2>3
  <1> HIDE DEF now, least, most, all
  <1>8. Total(now) \in Nat /\ Total(least) \in Nat  BY <1>1, TotalInNat
  <1>9. Total(now) <= Total(most) /\ Total(least) <= Total(most) /\ Total(most) <= Total(all)
    BY <1>1, <1>2, <1>3, TotalMonotone
  <1> QED BY <1>1, <1>4, <1>5, <1>6, <1>7, <1>8, <1>9 DEF most

\* There is a number of full rounds after which less than one more is left over.
LEMMA RoundsExist ==
  ASSUME NEW D \in HandleSets, NEW ps \in [D -> Profile], NEW r \in Nat,
         Minimum(ps) <= r, r < Expected(ps)
  PROVE  \E k \in 0..CompleteProfile :
            Total(AfterPasses(ps, k)) <= r /\ Total(AfterPasses(ps, k + 1)) > r
  <1> DEFINE T(k) == Total(AfterPasses(ps, k))
             Over == {k \in Nat : T(k + 1) > r}
             most == [i \in D |-> ExpectedCap(ps[i])]
  <1>1. DOMAIN ps = D /\ \A i \in D : ps[i] \in Profile  OBVIOUS
  <1>2. AfterPasses(ps, 0) = [i \in D |-> MinimumCap(ps[i])]
    <2>1. \A i \in D : Lower(MinimumCap(ps[i]) + 0, ExpectedCap(ps[i])) = MinimumCap(ps[i])
      BY CapsOfProfile DEF Lower
    <2> QED BY <1>1, <2>1 DEF AfterPasses
  <1>3. AfterPasses(ps, CompleteProfile + 1) = most
    <2>1. \A i \in D : Lower(MinimumCap(ps[i]) + (CompleteProfile + 1), ExpectedCap(ps[i]))
                         = ExpectedCap(ps[i])
      BY CapsOfProfile, RequestPlanAssumption DEF Lower
    <2> QED BY <1>1, <2>1 DEF AfterPasses
  <1>4. \A k \in Nat : T(k) \in Nat
    <2> SUFFICES ASSUME NEW k \in Nat PROVE T(k) \in Nat  OBVIOUS
    <2>1. \A i \in D : Lower(MinimumCap(ps[i]) + k, ExpectedCap(ps[i])) \in Nat
      BY CapsOfProfile DEF Lower
    <2>2. AfterPasses(ps, k) \in [D -> Nat]  BY <1>1, <2>1 DEF AfterPasses
    <2> QED BY <2>2, TotalInNat
  <1>5. CompleteProfile \in Over
    <2>1. Total(most) >= Expected(ps) /\ Expected(ps) \in Nat /\ Total(most) \in Nat
      BY PlanNumbers, TotalInNat
    <2>2. T(CompleteProfile + 1) > r
      <3> HIDE DEF most
      <3> QED BY <1>3, <2>1
    <2> QED BY <2>2, RequestPlanAssumption
  <1>6. PICK k \in Over : \A n \in Over : k <= n
    <2> HIDE DEF Over, T
    <2>1. Over \in SUBSET Nat  BY DEF Over
    <2> QED BY <1>5, <2>1, LeastNatural
  <1>7. k \in 0..CompleteProfile /\ T(k + 1) > r
    <2> HIDE DEF T
    <2> QED BY <1>5, <1>6, RequestPlanAssumption
  <1>8. T(k) <= r
    <2>1. CASE k = 0
      <3>1. T(0) = Minimum(ps)  BY <1>1, <1>2 DEF Minimum
      <3> HIDE DEF T
      <3> QED BY <2>1, <3>1
    <2>2. CASE k # 0
      <3> HIDE DEF T
      <3>1. k - 1 \in Nat /\ k - 1 \notin Over  BY <1>6, <1>7, <2>2
      <3>2. (k - 1) + 1 = k  BY <1>7
      <3>3. ~(T(k) > r)  BY <3>1, <3>2
      <3> QED BY <1>4, <1>7, <3>3
    <2> QED BY <2>1, <2>2
  <1> QED BY <1>7, <1>8

\* A limited allowance is dealt out to the last request, and no profile gets more
\* than it can use or less than its minimum.
LEMMA FairCapsSpendAll ==
  ASSUME NEW D \in HandleSets, NEW ps \in [D -> Profile], NEW r \in Nat,
         Minimum(ps) <= r, r < Expected(ps)
  PROVE  /\ FairCaps(ps, r) \in [D -> Nat]
         /\ Total(FairCaps(ps, r)) = r
         /\ \A i \in D : /\ MinimumCap(ps[i]) <= FairCaps(ps, r)[i]
                         /\ FairCaps(ps, r)[i] <= ExpectedCap(ps[i])
  <1> DEFINE k == CHOOSE k \in 0..CompleteProfile :
                    /\ Total(AfterPasses(ps, k)) <= r
                    /\ Total(AfterPasses(ps, k + 1)) > r
             even == AfterPasses(ps, k)
             more == AfterPasses(ps, k + 1)
             left == r - Total(even)
             hasRoom(i) == even[i] < ExpectedCap(ps[i])
             upTo(i) == {j \in 1..i : hasRoom(j)}
             fair(i) == even[i] + IF hasRoom(i) /\ Cardinality(upTo(i)) <= left
                                  THEN 1 ELSE 0
  <1>1. k \in 0..CompleteProfile /\ Total(even) <= r /\ Total(more) > r
    BY RoundsExist
  <1>2. FairCaps(ps, r) = [i \in D |-> fair(i)]
    BY DEF FairCaps
  <1> HIDE DEF k
  <1>3. \A i \in D : /\ even[i] \in Nat /\ more[i] \in Nat
                    /\ MinimumCap(ps[i]) <= even[i] /\ even[i] <= ExpectedCap(ps[i])
                    /\ more[i] = IF hasRoom(i) THEN even[i] + 1 ELSE even[i]
    BY <1>1, CapsOfProfile, RequestPlanAssumption DEF AfterPasses, Lower
  <1>4. DOMAIN even = D /\ DOMAIN more = D  BY DEF AfterPasses
  <1> HIDE DEF even, more
  <1>5. 1 \in D /\ D \subseteq {1, 2}  BY DEF HandleSets
  <1>6. Cardinality(upTo(1)) = IF hasRoom(1) THEN 1 ELSE 0
    <2> DEFINE U == upTo(1)
    <2>1. U \in SUBSET {1, 2} /\ (1 \in U <=> hasRoom(1)) /\ 2 \notin U  OBVIOUS
    <2> HIDE DEF U
    <2> QED BY <2>1, CountOfTwo
  <1>7. Cardinality(upTo(2)) = (IF hasRoom(1) THEN 1 ELSE 0) + (IF hasRoom(2) THEN 1 ELSE 0)
    <2> DEFINE U == upTo(2)
    <2>1. U \in SUBSET {1, 2} /\ (1 \in U <=> hasRoom(1)) /\ (2 \in U <=> hasRoom(2))
      OBVIOUS
    <2> HIDE DEF U
    <2> QED BY <2>1, CountOfTwo
  <1> HIDE DEF upTo
  <1>8. \A i \in D : fair(i) \in Nat /\ MinimumCap(ps[i]) <= fair(i)
                    /\ fair(i) <= ExpectedCap(ps[i])
    BY <1>3, CapsOfProfile
  <1>9. Total([i \in D |-> fair(i)]) = r
    <2>1. CASE 2 \notin D
      <3>1. Total(even) = even[1] /\ Total(more) = more[1]
        BY <1>3, <1>4, <1>5, <2>1 DEF Total
      <3>2. fair(1) = r  BY <1>1, <1>3, <1>5, <1>6, <3>1
      <3> HIDE DEF fair
      <3> QED BY <1>5, <2>1, <3>2 DEF Total
    <2>2. CASE 2 \in D
      <3>1. Total(even) = even[1] + even[2] /\ Total(more) = more[1] + more[2]
        BY <1>4, <2>2 DEF Total
      <3>2. fair(1) + fair(2) = r  BY <1>1, <1>3, <1>5, <1>6, <1>7, <2>2, <3>1
      <3> HIDE DEF fair
      <3> QED BY <1>5, <2>2, <3>2 DEF Total
    <2> QED BY <2>1, <2>2
  <1> QED BY <1>2, <1>8, <1>9

-----------------------------------------------------------------------------
(* What a plan promises *)

\* The sum of two profiles' caps and previews.
Promised(p) == Total([i \in DOMAIN p.caps |->
                        p.caps[i] + (p.qualityCap.source + p.qualityCap.attribution)])

\* A plan gives caps to the profiles D; one that cannot begin gives nothing; one
\* that pays for what it gives stays within the allowance; and a complete preview
\* is given only to a user who is signed in.
Honest(p, D) ==
  /\ p.caps \in [D -> Nat]
  /\ p.qualityCap \in [source : Nat, attribution : Nat]
  /\ p.signedIn \in BOOLEAN
  /\ ~CollectionMayBegin(p) => Total(p.caps) = 0 /\ p.qualityCap.source = 0
  /\ p.remaining # Unread => p.remaining \in Nat
  /\ p.remaining # Unread /\ Total(p.caps) <= p.expected => Promised(p) <= p.remaining

\* A preview is given only out of what a cold collection of everybody leaves.
LEMMA PreviewIsSpare ==
  ASSUME NEW D \in HandleSets, NEW ps \in [D -> Profile], NEW r \in Nat,
         NEW signedIn \in BOOLEAN, NEW enabled \in BOOLEAN
  PROVE  LET cap == QualityCap(QualityDisposition(ps, r, signedIn, enabled), enabled)
         IN  \/ cap.source = 0 /\ cap.attribution = 0
             \/ Len(ps) * CompleteProfile + Len(ps) * (cap.source + cap.attribution) <= r
  <1> DEFINE q == QualityDisposition(ps, r, signedIn, enabled)
             cap == QualityCap(q, enabled)
             spare == r - Len(ps) * CompleteProfile
  <1>0. QualityAvailable(ps, r) = IF spare > 0 THEN spare ELSE 0
    BY DEF QualityAvailable
  <1>1. Len(ps) \in {1, 2}  BY PlanNumbers
  <1>2. r # Unread  BY RequestPlanAssumption
  <1>3. \A x \in Nat : Len(ps) * x \in Nat /\ Len(ps) * x >= x
    BY <1>1
  <1>. /\ Len(ps) * CompleteProfile \in Nat
       /\ spare \in Int /\ spare = r - Len(ps) * CompleteProfile
    BY <1>3, RequestPlanAssumption
  <1> HIDE DEF spare
  <1>4. CASE enabled /\ q = "complete"
    <2>1. QualityAvailable(ps, r) >= Len(ps) * (QualitySource + QualityAttribution)
      BY <1>2, <1>4 DEF QualityDisposition, QualityComplete
    <2>2. cap.source = QualitySource /\ cap.attribution = QualityAttribution
      BY <1>4 DEF QualityCap
    <2>3. QualitySource + QualityAttribution \in Nat \ {0}  BY RequestPlanAssumption
    <2>4. Len(ps) * (QualitySource + QualityAttribution) > 0  BY <1>3, <2>3
    <2>5. spare >= Len(ps) * (QualitySource + QualityAttribution)
      <3>1. Len(ps) * (QualitySource + QualityAttribution) \in Nat  BY <1>3, <2>3
      <3> QED BY <1>0, <2>1, <2>4, <3>1
    <2>6. Len(ps) * CompleteProfile \in Nat /\ Len(ps) * (QualitySource + QualityAttribution) \in Nat
      BY <1>3, <2>3, RequestPlanAssumption
    <2> QED BY <2>2, <2>5, <2>6
  <1>5. CASE enabled /\ q = "limited"
    <2>1. QualityAvailable(ps, r) >= Len(ps) * QualityMinimum
      BY <1>2, <1>5 DEF QualityDisposition
    <2>2. cap.source = QualityMinimum /\ cap.attribution = 0
      BY <1>5 DEF QualityCap
    <2>3. Len(ps) * QualityMinimum > 0  BY <1>3, RequestPlanAssumption
    <2>4. spare >= Len(ps) * QualityMinimum
      <3>1. Len(ps) * QualityMinimum \in Nat  BY <1>3, RequestPlanAssumption
      <3> QED BY <1>0, <2>1, <2>3, <3>1
    <2>5. Len(ps) * CompleteProfile \in Nat /\ Len(ps) * QualityMinimum \in Nat
          /\ QualityMinimum + 0 = QualityMinimum
      BY <1>3, RequestPlanAssumption
    <2> QED BY <2>2, <2>4, <2>5
  <1>6. CASE ~(enabled /\ q \in {"complete", "limited"})
    <2>1. cap = [source |-> 0, attribution |-> 0]
      <3> HIDE DEF q
      <3> QED BY <1>6 DEF QualityCap
    <2> QED BY <2>1
  <1> QED BY <1>4, <1>5, <1>6

LEMMA PlanIsHonest ==
  ASSUME NEW D \in HandleSets, NEW ps \in [D -> Profile], NEW r \in Nat \cup {Unread},
         NEW signedIn \in BOOLEAN, NEW enabled \in BOOLEAN,
         r = Unread => Expected(ps) = 0
  PROVE  /\ Honest(Plan(ps, r, signedIn, enabled), D)
         /\ Plan(ps, r, signedIn, enabled).signedIn = signedIn
         /\ enabled /\ Plan(ps, r, signedIn, enabled).quality = "complete" => signedIn
  <1> DEFINE p == Plan(ps, r, signedIn, enabled)
             q == QualityDisposition(ps, r, signedIn, enabled)
             cap == QualityCap(q, enabled)
             most == [i \in D |-> ExpectedCap(ps[i])]
             each == cap.source + cap.attribution
  <1>1. /\ p.caps = Caps(ps, r) /\ p.qualityCap = cap /\ p.signedIn = signedIn
        /\ p.disposition = Disposition(ps, r) /\ p.remaining = r
        /\ p.expected = Expected(ps) /\ p.quality = q
    BY DEF Plan
  <1>2. DOMAIN ps = D /\ Len(ps) \in {1, 2} /\ (Len(ps) = 2 <=> 2 \in D) /\ 1 \in D
        /\ Expected(ps) \in Nat /\ Minimum(ps) \in Nat
        /\ Expected(ps) <= Total(most) /\ Minimum(ps) <= Total(most)
        /\ Total(most) <= Len(ps) * CompleteProfile
        /\ most \in [D -> Nat]
    BY PlanNumbers
  <1>3. Total(most) \in Nat /\ Len(ps) * CompleteProfile \in Nat
    <2>1. Total(most) \in Nat
      <3> HIDE DEF most
      <3> QED BY <1>2, TotalInNat
    <2> QED BY <1>2, <2>1, RequestPlanAssumption
  <1>4. cap \in [source : Nat, attribution : Nat] /\ each \in Nat
    <2> HIDE DEF q
    <2> QED BY RequestPlanAssumption DEF QualityCap
  <1>5. enabled /\ q = "complete" => signedIn
    BY DEF QualityDisposition
  <1>6. ASSUME r # Unread
        PROVE  \/ cap.source = 0 /\ each = 0
               \/ Len(ps) * CompleteProfile + Len(ps) * each <= r
    BY <1>6, PreviewIsSpare
  <1>7. ASSUME p.caps \in [D -> Nat]
        PROVE  Promised(p) = Total(p.caps) + Len(ps) * each
    <2> DEFINE pay == [i \in D |-> each]
    <2>1. pay \in [D -> Nat] /\ DOMAIN p.caps = D  BY <1>4, <1>7
    <2>2. Promised(p) = Total([i \in D |-> p.caps[i] + pay[i]])
      <3> HIDE DEF p, q
      <3> QED BY <1>1, <2>1 DEF Promised
    <2>3. Total(pay) = Len(ps) * each
      <3> HIDE DEF each
      <3>1. CASE 2 \in D
        <4>1. Total(pay) = each + each  BY <1>2, <3>1 DEF Total
        <4>2. Len(ps) = 2  BY <1>2, <3>1
        <4> HIDE DEF pay
        <4> QED BY <1>4, <4>1, <4>2
      <3>2. CASE 2 \notin D
        <4>1. Total(pay) = each  BY <1>2, <1>4, <3>2 DEF Total
        <4> QED BY <1>2, <1>4, <3>2, <4>1
      <3> QED BY <3>1, <3>2
    <2> HIDE DEF pay, p, each
    <2> QED BY <1>7, <2>1, <2>2, <2>3, TotalOfSum
  <1> HIDE DEF p, q, cap, each
  <1>8. Len(ps) * each \in Nat  BY <1>2, <1>4
  <1>9. CASE Disposition(ps, r) = "complete"
    <2>1. p.caps = most  BY <1>1, <1>2, <1>9 DEF Caps
    <2>2. r # Unread => Expected(ps) <= r
      BY <1>2, <1>9 DEF Disposition
    <2> HIDE DEF most
    <2>3. r # Unread /\ Total(p.caps) <= p.expected => Promised(p) <= r
      <3> SUFFICES ASSUME r # Unread, Total(most) <= Expected(ps) PROVE Promised(p) <= r
        BY <1>1, <2>1
      <3>1. Promised(p) = Total(most) + Len(ps) * each  BY <1>2, <1>7, <2>1
      <3>2. CASE each = 0  BY <1>2, <1>3, <2>2, <3>1, <3>2
      <3>3. CASE each # 0  BY <1>2, <1>3, <1>6, <1>8, <3>1, <3>3
      <3> QED BY <3>2, <3>3
    <2>4. CollectionMayBegin(p)  BY <1>1, <1>9 DEF CollectionMayBegin
    <2> QED
      <3> SUFFICES Honest(p, D)  BY <1>1, <1>5 DEF p, q
      <3>1. p.signedIn \in BOOLEAN  BY <1>1
      <3>2. p.remaining # Unread => p.remaining \in Nat  BY <1>1
      <3> QED BY <1>1, <1>2, <1>4, <2>1, <2>3, <2>4, <3>1, <3>2 DEF Honest
  <1>10. CASE Disposition(ps, r) = "limited"
    <2>1. r \in Nat /\ Minimum(ps) <= r /\ r < Expected(ps)
      BY <1>2, <1>10 DEF Disposition
    <2>2. p.caps = FairCaps(ps, r)  BY <1>1, <1>10 DEF Caps
    <2>3. p.caps \in [D -> Nat] /\ Total(p.caps) = r
      BY <2>1, <2>2, FairCapsSpendAll
    <2> HIDE DEF most
    <2>4. r # Unread  BY <2>1, RequestPlanAssumption
    <2>5. each = 0  BY <1>2, <1>3, <1>6, <1>8, <2>1, <2>4
    <2>6. Promised(p) = r + Len(ps) * 0  BY <1>7, <2>3, <2>5
    <2>7. Promised(p) <= p.remaining  BY <1>1, <1>2, <2>1, <2>6
    <2>8. CollectionMayBegin(p)  BY <1>1, <1>10 DEF CollectionMayBegin
    <2> QED
      <3> SUFFICES Honest(p, D)  BY <1>1, <1>5 DEF p, q
      <3>1. p.signedIn \in BOOLEAN  BY <1>1
      <3>2. p.remaining # Unread => p.remaining \in Nat  BY <1>1
      <3> QED BY <1>1, <1>4, <2>1, <2>3, <2>7, <2>8, <3>1, <3>2 DEF Honest
  <1>11. CASE Disposition(ps, r) \notin {"complete", "limited"}
    <2>1. r # Unread /\ r \in Nat /\ r < Minimum(ps)
      BY <1>2, <1>11 DEF Disposition
    <2>2. p.caps = [i \in D |-> 0]  BY <1>1, <1>2, <1>11 DEF Caps
    <2>3. p.caps \in [D -> Nat] /\ Total(p.caps) = 0
      BY <1>2, <2>2 DEF Total
    <2> HIDE DEF most
    <2>4. each = 0 /\ cap.source = 0  BY <1>2, <1>3, <1>6, <1>8, <2>1
    <2>5. Promised(p) = 0 + Len(ps) * 0  BY <1>7, <2>3, <2>4
    <2>6. Promised(p) <= p.remaining  BY <1>1, <1>2, <2>1, <2>5
    <2> QED
      <3> SUFFICES Honest(p, D)  BY <1>1, <1>5 DEF p, q
      <3>1. p.signedIn \in BOOLEAN  BY <1>1
      <3>2. p.remaining # Unread => p.remaining \in Nat  BY <1>1
      <3> QED BY <1>1, <1>4, <2>1, <2>3, <2>4, <2>6, <3>1, <3>2 DEF Honest
  <1> QED BY <1>1, <1>5, <1>9, <1>10, <1>11 DEF p, q

-----------------------------------------------------------------------------
(* The preflight *)

Planning == pc \in {"plan", "allowance"}
CanonicalGate == pc \in {"gate", "askLimit", "limitGate", "qualityGate", "askQuality"}
PastLimit == pc \in {"qualityGate", "askQuality", "final", "collect"}

PreflightTyped ==
  /\ opts \in Options
  /\ pc \in {"start", "plan", "allowance", "gate", "askLimit", "limitGate", "qualityGate",
            "askQuality", "final", "refused", "collect"}
  /\ after \in {"gate", "limitGate", "final"}
  /\ token \in {"none", "explicit", "device"}
  /\ qualityOn \in BOOLEAN /\ consented \in BOOLEAN
  /\ asked \in Nat /\ signIns \in {0, 1}

\* Whose token is used, who was asked and how often.
IdentityKept ==
  /\ pc = "start" => /\ token = (IF opts.explicit THEN "explicit" ELSE "none")
                     /\ asked = 0 /\ after = "gate"
  /\ signIns = IF token = "device" THEN 1 ELSE 0
  /\ opts.explicit => token = "explicit"
  /\ opts.signIn => pc \in {"start", "refused"} \/ token = "device"
  /\ pc \in {"askLimit", "askQuality"} => MayAsk
  /\ Planning /\ after # "gate" => SignedIn
  /\ ~opts.canAsk \/ opts.anonymous \/ opts.explicit \/ opts.signIn => asked = 0

\* There is a plan wherever one is looked at, it was made from the probes of the
\* handles D, and it is the plan of the present identity.
PlanAtHand(D) ==
  /\ pc = "allowance" => probes \in [D -> Profile]
  /\ CanonicalGate \/ pc \in {"final", "collect"} \/ (Planning /\ after # "gate") =>
       /\ Honest(plan, D)
       /\ qualityOn /\ plan.quality = "complete" => plan.signedIn
  /\ CanonicalGate \/ (pc \in {"final", "collect"} /\ qualityOn) => plan.signedIn = SignedIn

\* A smaller read of an anonymous plan was chosen.
LimitChosen ==
  /\ pc = "limitGate" /\ plan.disposition = "limited" /\ ~plan.signedIn =>
       opts.anonymous \/ consented \/ ~opts.canAsk
  /\ PastLimit \/ (Planning /\ after = "final") =>
       (plan.disposition = "limited" /\ ~plan.signedIn => opts.anonymous \/ consented)

\* Required quality is complete before anything is collected.
RequiredKept ==
  pc = "collect" /\ opts.quality = "required" => qualityOn /\ plan.quality = "complete"

PreflightInv(D) ==
  /\ PreflightTyped /\ IdentityKept /\ PlanAtHand(D) /\ LimitChosen /\ RequiredKept

LEMMA PreflightBegins ==
  ASSUME NEW D \in HandleSets, Init
  PROVE  PreflightInv(D)
  <1>1. PreflightTyped
    <2>1. qualityOn \in BOOLEAN /\ consented \in BOOLEAN  BY DEF Init
    <2> QED BY <2>1 DEF Init, PreflightTyped
  <1>2. IdentityKept  BY DEF Init, Options, IdentityKept, SignedIn, Planning, MayAsk
  <1> QED BY <1>1, <1>2 DEF Init, PreflightInv, PlanAtHand, LimitChosen, RequiredKept,
             Planning, CanonicalGate, PastLimit

\* Every step of the preflight, whatever the probe finds for the handles D.
LEMMA PreflightStep ==
  ASSUME NEW D \in HandleSets, PreflightInv(D), Next,
         pc = "plan" => probes' \in [D -> Profile]
  PROVE  PreflightInv(D)'
  <1>0. /\ PreflightTyped /\ IdentityKept /\ PlanAtHand(D) /\ LimitChosen /\ RequiredKept
        /\ qualityOn \in BOOLEAN /\ consented \in BOOLEAN /\ opts \in Options
    BY DEF PreflightInv, PreflightTyped
  <1>a. ASSUME NEW ps \in [D -> Profile], NEW r \in Nat \cup {Unread},
               r = Unread => Expected(ps) = 0,
               plan' = Plan(ps, r, SignedIn, qualityOn)
        PROVE  /\ Honest(plan', D) /\ plan'.signedIn = SignedIn
               /\ qualityOn /\ plan'.quality = "complete" => plan'.signedIn
    <2>1. SignedIn \in BOOLEAN  BY DEF SignedIn
    <2> DEFINE s == SignedIn  e == qualityOn
    <2>2. s \in BOOLEAN /\ e \in BOOLEAN /\ plan' = Plan(ps, r, s, e)  BY <1>0, <1>a, <2>1
    <2> HIDE DEF s, e
    <2>3. /\ Honest(Plan(ps, r, s, e), D) /\ Plan(ps, r, s, e).signedIn = s
          /\ e /\ Plan(ps, r, s, e).quality = "complete" => s
      BY <1>a, <2>2, PlanIsHonest
    <2> QED BY <2>2, <2>3 DEF s, e
  <1> USE DEF SignedIn, Planning, CanonicalGate, PastLimit, MayAsk, choices
  <1>1. CASE Start
    <2>1. CASE ~opts.signIn
      BY <1>0, <1>1, <2>1 DEF Start, PreflightInv, PreflightTyped, IdentityKept, PlanAtHand,
         LimitChosen, RequiredKept
    <2>2. CASE opts.signIn /\ Authorized("gate")
      BY <1>0, <1>1, <2>2 DEF Start, Authorized, Options, PreflightInv, PreflightTyped,
         IdentityKept, PlanAtHand, LimitChosen, RequiredKept
    <2>3. CASE opts.signIn /\ Refuse
      BY <1>0, <1>1, <2>3 DEF Start, Refuse, PreflightInv, PreflightTyped,
         IdentityKept, PlanAtHand, LimitChosen, RequiredKept
    <2> QED BY <1>1, <2>1, <2>2, <2>3 DEF Start
  <1>2. CASE Probe
    <2>1. probes' \in [D -> Profile] /\ UNCHANGED <<opts, after, choices>>
      BY <1>2 DEF Probe
    <2>2. CASE pc' = "allowance" /\ plan' = plan
      BY <1>0, <1>2, <2>1, <2>2 DEF Probe, PreflightInv, PreflightTyped, IdentityKept,
         PlanAtHand, LimitChosen, RequiredKept
    <2>3. CASE NeedsNothing(Plan(probes', Unread, SignedIn, qualityOn))
      <3>1. pc' = after /\ plan' = Plan(probes', Unread, SignedIn, qualityOn)
        BY <1>2, <2>3 DEF Probe
      <3>2. Expected(probes') = 0  BY <2>3 DEF NeedsNothing, Plan
      <3>3. /\ Honest(plan', D) /\ plan'.signedIn = SignedIn
            /\ qualityOn /\ plan'.quality = "complete" => plan'.signedIn
        BY <1>a, <2>1, <3>1, <3>2
      <3>4. PreflightTyped' /\ RequiredKept'
        BY <1>0, <2>1, <3>1 DEF PreflightTyped, RequiredKept
      <3>5. IdentityKept'  BY <1>0, <1>2, <2>1, <3>1 DEF Probe, PreflightTyped, IdentityKept
      <3>6. token' = token /\ qualityOn' = qualityOn /\ pc' \in {"gate", "limitGate", "final"}
        BY <1>0, <2>1, <3>1 DEF PreflightTyped
      <3>7. PlanAtHand(D)'
        BY <3>3, <3>6 DEF PlanAtHand
      <3>8. LimitChosen'
        BY <1>0, <1>2, <2>1, <3>1, <3>3 DEF Probe, PreflightTyped, IdentityKept, LimitChosen
      <3> QED BY <3>4, <3>5, <3>7, <3>8 DEF PreflightInv
    <2> QED BY <1>2, <2>2, <2>3 DEF Probe
  <1>3. CASE ReadAllowance
    <2>1. PICK r \in Readings : plan' = Plan(probes, r, SignedIn, qualityOn)
      BY <1>3 DEF ReadAllowance
    <2>2. r \in Nat /\ probes \in [D -> Profile] /\ r # Unread
      BY <1>0, <1>3, PreflightAssumption, RequestPlanAssumption DEF ReadAllowance, PlanAtHand
    <2>3. /\ Honest(plan', D) /\ plan'.signedIn = SignedIn
          /\ qualityOn /\ plan'.quality = "complete" => plan'.signedIn
      BY <1>a, <2>1, <2>2
    <2> QED BY <1>0, <1>3, <2>3 DEF ReadAllowance, PreflightInv, PreflightTyped, IdentityKept,
           PlanAtHand, LimitChosen, RequiredKept
  <1>4. CASE AllowanceFails
    <2>1. CASE Expected(probes) = 0
      <3>1. plan' = Plan(probes, 0, SignedIn, qualityOn) /\ pc' = after
            /\ UNCHANGED <<opts, after, probes, token, qualityOn, consented, asked, signIns>>
        BY <1>4, <2>1 DEF AllowanceFails
      <3>2. probes \in [D -> Profile] /\ 0 # Unread
        BY <1>0, <1>4, RequestPlanAssumption DEF AllowanceFails, PlanAtHand
      <3>3. /\ Honest(plan', D) /\ plan'.signedIn = SignedIn
            /\ qualityOn /\ plan'.quality = "complete" => plan'.signedIn
        BY <1>a, <3>1, <3>2
      <3> QED BY <1>0, <1>4, <3>1, <3>3 DEF AllowanceFails, PreflightInv, PreflightTyped,
             IdentityKept, PlanAtHand, LimitChosen, RequiredKept
    <2>2. CASE Expected(probes) # 0
      BY <1>0, <1>4, <2>2 DEF AllowanceFails, PreflightInv, PreflightTyped, IdentityKept,
         PlanAtHand, LimitChosen, RequiredKept
    <2> QED BY <2>1, <2>2
  <1>5. CASE Gate
    <2>1. PreflightTyped'  BY <1>0, <1>5 DEF Gate, PreflightTyped
    <2>2. IdentityKept'  BY <1>0, <1>5 DEF Gate, PreflightTyped, IdentityKept
    <2>3. PlanAtHand(D)'  BY <1>0, <1>5 DEF Gate, PreflightTyped, IdentityKept, PlanAtHand
    <2>4. LimitChosen'
      BY <1>0, <1>5 DEF Gate, PreflightTyped, IdentityKept, PlanAtHand, LimitChosen
    <2>5. RequiredKept'  BY <1>0, <1>5 DEF Gate, RequiredKept
    <2> QED BY <2>1, <2>2, <2>3, <2>4, <2>5 DEF PreflightInv
  <1>6. CASE AnswerLimit
    <2>1. PreflightTyped'
      <3>1. signIns = 0  BY <1>0, <1>6 DEF AnswerLimit, Authorized, Refuse, PreflightTyped, IdentityKept
      <3>2. qualityOn' \in BOOLEAN /\ consented' \in BOOLEAN /\ opts' \in Options
        BY <1>0, <1>6 DEF AnswerLimit, Authorized, Refuse
      <3>3. pc' \in {"plan", "limitGate", "refused", "final"} /\ after' \in {after, "limitGate", "final"}
            /\ token' \in {token, "device"} /\ asked' = asked
            /\ signIns' \in {signIns, signIns + 1}
        BY <1>6 DEF AnswerLimit, Authorized, Refuse
      <3> QED BY <1>0, <3>1, <3>2, <3>3 DEF PreflightTyped
    <2>2. IdentityKept'  BY <1>0, <1>6 DEF AnswerLimit, Authorized, Refuse, PreflightTyped, IdentityKept
    <2>3. PlanAtHand(D)'  BY <1>0, <1>6 DEF AnswerLimit, Authorized, Refuse, PreflightTyped, IdentityKept, PlanAtHand
    <2>4. LimitChosen'
      BY <1>0, <1>6 DEF AnswerLimit, Authorized, Refuse, PreflightTyped, IdentityKept, PlanAtHand, LimitChosen
    <2>5. RequiredKept'  BY <1>0, <1>6 DEF AnswerLimit, Authorized, Refuse, RequiredKept
    <2> QED BY <2>1, <2>2, <2>3, <2>4, <2>5 DEF PreflightInv
  <1>7. CASE LimitGate
    BY <1>0, <1>7 DEF LimitGate, PreflightInv, PreflightTyped, IdentityKept, PlanAtHand,
       LimitChosen, RequiredKept
  <1>8. CASE QualityGate
    BY <1>0, <1>8 DEF QualityGate, PreflightInv, PreflightTyped, IdentityKept, PlanAtHand,
       LimitChosen, RequiredKept
  <1>9. CASE AnswerQuality
    <2>1. PreflightTyped'
      <3>1. signIns = 0  BY <1>0, <1>9 DEF AnswerQuality, Authorized, PreflightTyped, IdentityKept
      <3>2. qualityOn' \in BOOLEAN /\ consented' \in BOOLEAN /\ opts' \in Options
        BY <1>0, <1>9 DEF AnswerQuality, Authorized
      <3>3. pc' \in {"plan", "limitGate", "refused", "final"} /\ after' \in {after, "limitGate", "final"}
            /\ token' \in {token, "device"} /\ asked' = asked
            /\ signIns' \in {signIns, signIns + 1}
        BY <1>9 DEF AnswerQuality, Authorized
      <3> QED BY <1>0, <3>1, <3>2, <3>3 DEF PreflightTyped
    <2>2. IdentityKept'  BY <1>0, <1>9 DEF AnswerQuality, Authorized, PreflightTyped, IdentityKept
    <2>3. PlanAtHand(D)'  BY <1>0, <1>9 DEF AnswerQuality, Authorized, PreflightTyped, IdentityKept, PlanAtHand
    <2>4. LimitChosen'
      BY <1>0, <1>9 DEF AnswerQuality, Authorized, PreflightTyped, IdentityKept, PlanAtHand, LimitChosen
    <2>5. RequiredKept'  BY <1>0, <1>9 DEF AnswerQuality, Authorized, RequiredKept
    <2> QED BY <2>1, <2>2, <2>3, <2>4, <2>5 DEF PreflightInv
  <1>10. CASE Final
    BY <1>0, <1>10 DEF Final, PreflightInv, PreflightTyped, IdentityKept, PlanAtHand,
       LimitChosen, RequiredKept
  <1> QED BY <1>1, <1>2, <1>3, <1>4, <1>5, <1>6, <1>7, <1>8, <1>9, <1>10 DEF Next

-----------------------------------------------------------------------------
(* The invocation *)

Snapshot == [of : Handles, edition : Editions, used : Nat, max : Nat]

InvocationTyped ==
  /\ root \in {"absent", "present", "unusable"}
  /\ snapshots \in [Handles -> Snapshot \cup {None}]
  /\ line \in Lines /\ opts = line.opts /\ private \in BOOLEAN
  /\ stage \in {"idle", "preflight", "collect", "read", "quality", "ended"}

\* The key of a reading tells the allowance it was made with.
ReadingsKeyed ==
  \A r \in readings : r.files \in Nat /\ r.allowance \in Nat /\ r.key[2] = r.allowance

\* What the profiles have, may be given and have spent.
ProfilesTyped ==
  /\ done \subseteq Sides
  /\ got \in [Sides -> Snapshot \cup {None}]
  /\ sent \in [Sides -> [metadata : Nat, source : Nat, quality : Nat]]
  /\ shown \in [Sides -> [files : Nat, allowance : Nat]]

\* Nothing is spent before the collection, nothing but metadata before the reading.
SpentInOrder ==
  /\ stage = "preflight" =>
       sent = [i \in Sides |-> [metadata |-> 0, source |-> 0, quality |-> 0]]
  /\ stage = "collect" => \A i \in Sides : sent[i].source = 0 /\ sent[i].quality = 0

\* Those who have read were shown what their allowance bought.
ShownInScope ==
  /\ stage = "read" =>
       /\ \A i \in Sides : got[i] # None
       /\ \A i \in done : shown[i].allowance = SourceAllowance(i)
  /\ ServedInScope

InvocationInv ==
  /\ InvocationTyped /\ ReadingsKeyed
  /\ stage \in {"idle", "ended"} => pc = "start"
  /\ stage = "preflight" \/ Working => PreflightInv(Sides) /\ ProfilesTyped
  /\ Working => pc = "collect"
  /\ SpentInOrder /\ SpendsWithinPlan /\ ShownInScope /\ ExitTellsAll

LEMMA LineKnown ==
  ASSUME InvocationTyped
  PROVE  /\ Valid(line) /\ Sides \in HandleSets /\ line.who \in [Sides -> Handles]
         /\ line.opts \in Options /\ line.private \in BOOLEAN
  <1>1. Valid(line)  BY InvocationAssumption DEF InvocationTyped
  <1>2. line.who \in Seq(Handles) /\ Len(line.who) \in {1, 2}
        /\ line.opts \in Options /\ line.private \in BOOLEAN
    BY <1>1 DEF Valid, CommandLine
  <1>3. DOMAIN line.who = 1..Len(line.who) /\ line.who \in [1..Len(line.who) -> Handles]
    BY <1>2
  <1>4. CASE Len(line.who) = 1  BY <1>1, <1>2, <1>3, <1>4 DEF Sides, HandleSets
  <1>5. CASE Len(line.who) = 2  BY <1>1, <1>2, <1>3, <1>5 DEF Sides, HandleSets
  <1> QED BY <1>2, <1>4, <1>5

\* What the caches hold of an account is a probe the planner knows.
LEMMA FoundIsProfile ==
  ASSUME InvocationTyped
  PROVE  Found \in [Sides -> Profile]
  <1> SUFFICES ASSUME NEW h \in Handles PROVE ProbeOf(h) \in Profile
    BY LineKnown DEF Found
  <1> DEFINE s == snapshots[h]
  <1>1. s = None \/ s \in Snapshot  BY DEF InvocationTyped
  <1>2. CASE ~Reads \/ s = None
    BY <1>2, RequestPlanAssumption DEF ProbeOf, Unknown, Profile, ThreeWay, Reasons
  <1>3. CASE Reads /\ s # None
    <2>1. LeftOf(s) \in Nat  BY <1>1, <1>3 DEF LeftOf, Larger, Snapshot
    <2>2. Lower(MaxSource, LeftOf(s)) \in 0..MaxSource
      <3> HIDE DEF s
      <3> QED BY <2>1, RequestPlanAssumption DEF Lower
    <2> DEFINE p == ProbeOf(h)
               a == \E r \in readings : r.key = ReadingKey(s, LeftOf(s))
               q == QualityKey(s, IF SignedIn THEN [source |-> QualitySource, attribution |-> QualityAttribution]
                                  ELSE [source |-> QualityMinimum, attribution |-> 0]) \in qualities
               y == IF Files[h] > 0 THEN "yes" ELSE "no"
    <2>3. p = [snapshotHit |-> TRUE, analysisHit |-> a, qualityHit |-> q,
               sourceMax |-> Lower(MaxSource, LeftOf(s)), supported |-> y, eligible |-> y,
               reason |-> "none"]
      BY <1>3 DEF ProbeOf
    <2>4. a \in BOOLEAN /\ q \in BOOLEAN  OBVIOUS
    <2>5. y \in ThreeWay  BY DEF ThreeWay
    <2> HIDE DEF p, a, q, y, s
    <2> QED BY <2>2, <2>3, <2>4, <2>5 DEF Profile, Reasons, p
  <1> QED BY <1>2, <1>3

LEMMA InvocationBegins ==
  ASSUME InvocationInit
  PROVE  InvocationInv
  <1>1. InvocationTyped
    <2>1. private \in BOOLEAN /\ \A l \in Lines : l.private \in BOOLEAN
      BY InvocationAssumption DEF InvocationInit, Valid, CommandLine
    <2> QED BY <2>1 DEF InvocationInit, InvocationTyped
  <1> QED BY <1>1 DEF InvocationInit, Nothing, Init, InvocationInv, ReadingsKeyed, Working,
             SpentInOrder, SpendsWithinPlan, ShownInScope, ServedInScope, ExitTellsAll

\* A process that ends leaves the caches as they are.
LEMMA LeaveStep ==
  ASSUME InvocationInv, NEW result, Leave(result), UNCHANGED <<root, private>>
  PROVE  /\ ExitTellsAll' => InvocationInv'
         /\ result = Nothing => InvocationInv'
  <1>1. stage' = "ended" /\ pc' = "start" /\ outcome' = result
        /\ UNCHANGED <<opts, readings, snapshots, line, root, private>>
    BY DEF Leave
  <1>2. InvocationTyped' /\ ReadingsKeyed'
    BY <1>1 DEF InvocationInv, InvocationTyped, ReadingsKeyed
  <1>3. result = Nothing => ExitTellsAll'
    <2> SUFFICES ASSUME result = Nothing PROVE ExitTellsAll'
      OBVIOUS
    <2>1. outcome'.exit = 1 /\ outcome'.public = FALSE /\ outcome'.exported = FALSE
      BY <1>1 DEF Nothing
    <2>2. ~(outcome'.exit = 0)
      BY <2>1
    <2>3. ~(IF line'.output = "export" THEN outcome'.exported ELSE outcome'.public)
      BY <2>1
    <2> QED BY <2>1, <2>2, <2>3, Zenon DEF ExitTellsAll
  <1> QED BY <1>1, <1>2, <1>3 DEF InvocationInv, Working, SpentInOrder, SpendsWithinPlan,
             ShownInScope, ServedInScope

LEMMA InvocationStep ==
  ASSUME InvocationInv, [InvocationNext]_iVars
  PROVE  InvocationInv'
  <1>0. /\ InvocationTyped /\ ReadingsKeyed
        /\ stage \in {"idle", "ended"} => pc = "start"
        /\ stage = "preflight" \/ Working => PreflightInv(Sides) /\ ProfilesTyped
        /\ Working => pc = "collect"
        /\ SpentInOrder /\ SpendsWithinPlan /\ ShownInScope /\ ExitTellsAll
    BY DEF InvocationInv
  <1>a. Valid(line) /\ Sides \in HandleSets /\ line.who \in [Sides -> Handles]
    BY <1>0, LineKnown
  <1>b. PICK D \in HandleSets : D = Sides  BY <1>a
  \* After the preflight the plan is honest.
  <1>c. ASSUME (stage = "preflight" /\ pc = "collect") \/ Working
        PROVE  Honest(plan, Sides) /\ PreflightInv(Sides) /\ ProfilesTyped
    BY <1>0, <1>c DEF PreflightInv, PlanAtHand, Working
  <1>d. ASSUME UNCHANGED <<vars, line>>, PreflightInv(Sides)
        PROVE  PreflightInv(Sides)' /\ Sides' = Sides
    BY <1>d DEF vars, choices, Sides, PreflightInv, PreflightTyped, IdentityKept, PlanAtHand,
       LimitChosen, RequiredKept, Planning, CanonicalGate, PastLimit, MayAsk, SignedIn
  <1>1. CASE Invoke
    <2>1. PICK l \in Lines : line' = l  BY <1>1 DEF Invoke
    <2>2. /\ Valid(l) /\ l.opts \in Options /\ l.private \in BOOLEAN
      BY <2>1, InvocationAssumption DEF Valid, CommandLine
    <2>3. InvocationTyped'
      <3>1. private' \in BOOLEAN /\ opts' = line'.opts /\ line' \in Lines
        BY <1>1, <2>1, <2>2 DEF Invoke
      <3>2. root' \in {"absent", "present", "unusable"}
        BY <1>0, <1>1 DEF Invoke, InvocationTyped, Prepared
      <3>3. stage' = "preflight" /\ snapshots' = snapshots  BY <1>1 DEF Invoke
      <3> QED BY <1>0, <3>1, <3>2, <3>3 DEF InvocationTyped
    <2>4. PreflightInv(Sides)'
      <3>1. PreflightTyped'
        <4>1. qualityOn' \in BOOLEAN /\ consented' \in BOOLEAN  BY <1>1 DEF Invoke
        <4> QED BY <1>1, <2>1, <2>2, <4>1 DEF Invoke, PreflightTyped
      <3>2. IdentityKept'
        BY <1>1, <2>1, <2>2 DEF Invoke, Options, IdentityKept, SignedIn, Planning, MayAsk
      <3> QED BY <1>1, <3>1, <3>2 DEF Invoke, PreflightInv, PlanAtHand, LimitChosen,
             RequiredKept, Planning, CanonicalGate, PastLimit
    <2>5. ProfilesTyped'  BY <1>1 DEF Invoke, ProfilesTyped, Sides
    <2> QED BY <1>0, <1>1, <2>3, <2>4, <2>5 DEF Invoke, InvocationInv, ReadingsKeyed, Working,
           SpentInOrder, SpendsWithinPlan, ShownInScope, ServedInScope, ExitTellsAll, Sides
  <1>2. CASE Preflighting
    <2>1. /\ Next /\ stage = "preflight" /\ pc \notin {"collect", "refused"}
          /\ UNCHANGED <<caches, line, private, stage, run, work, outcome>>
      BY <1>2 DEF Preflighting
    <2>2. pc = "plan" => probes' \in [D -> Profile]
      BY <1>0, <1>2, <1>b, FoundIsProfile DEF Preflighting
    <2>3. PreflightInv(D)'  BY <1>0, <1>b, <2>1, <2>2, PreflightStep
    <2>4. Sides' = D  BY <1>b, <2>1 DEF Sides
    <2>5. PreflightInv(Sides)'  BY <2>3, <2>4 DEF PreflightInv, PlanAtHand
    <2>6. opts' = opts
      BY <2>1 DEF Next, Start, Probe, ReadAllowance, AllowanceFails, Gate, AnswerLimit,
         LimitGate, QualityGate, AnswerQuality, Final, Authorized, Refuse
    <2>7. InvocationTyped' /\ ReadingsKeyed' /\ ProfilesTyped'
      BY <1>0, <2>1, <2>6 DEF caches, work, InvocationTyped, ReadingsKeyed, ProfilesTyped, Sides
    <2> QED BY <1>0, <2>1, <2>5, <2>7 DEF caches, work, InvocationInv, Working, SpentInOrder,
           SpendsWithinPlan, ShownInScope, ServedInScope, ExitTellsAll, Sides
  <1>3. CASE Refused
    BY <1>3, LeaveStep DEF Refused
  <1>4. CASE Begin
    <2>1. CASE stage' = "ended"
      BY <1>4, <2>1, LeaveStep DEF Begin
    <2>2. CASE stage' # "ended"
      <3>1. /\ stage = "preflight" /\ pc = "collect" /\ stage' = "collect"
            /\ private' \in {private, TRUE} /\ root' \in {root, Prepared(line)}
            /\ UNCHANGED <<vars, snapshots, readings, qualities, line, run, done, got, sent,
                           shown, vanished, outcome>>
        BY <1>4, <2>2 DEF Begin, Offers, Leave
      <3>2. Honest(plan, Sides) /\ PreflightInv(Sides) /\ ProfilesTyped  BY <1>c, <3>1
      <3>3. PreflightInv(Sides)' /\ Sides' = Sides  BY <1>d, <3>1, <3>2
      <3>4. InvocationTyped' /\ ReadingsKeyed' /\ ProfilesTyped'
        BY <1>0, <3>1, <3>2, <3>3 DEF vars, InvocationTyped, Prepared, ReadingsKeyed,
           ProfilesTyped
      <3>5. SpentInOrder' /\ SpendsWithinPlan'
        <4>1. sent' = [i \in Sides |-> [metadata |-> 0, source |-> 0, quality |-> 0]]
              /\ plan' = plan
          BY <1>0, <3>1 DEF SpentInOrder, vars
        <4> QED BY <3>1, <3>2, <3>3, <4>1 DEF Honest, SpentInOrder, SpendsWithinPlan
      <3> QED BY <1>0, <3>1, <3>3, <3>4, <3>5 DEF vars, InvocationInv, Working, ShownInScope,
             ServedInScope, ExitTellsAll
    <2> QED BY <2>1, <2>2
  <1>5. CASE \E i \in Sides : Collect(i)
    <2>1. PICK i \in Sides : Collect(i)  BY <1>5
    <2>2. /\ stage = "collect" /\ Working
          /\ UNCHANGED <<vars, root, readings, qualities, line, private, stage, run, shown,
                         aside, vanished, outcome>>
          /\ done' = done \union {i}
      BY <2>1 DEF Collect, Working
    <2>3. Honest(plan, Sides) /\ PreflightInv(Sides) /\ ProfilesTyped  BY <1>c, <2>2
    <2>4. PreflightInv(Sides)' /\ Sides' = Sides  BY <1>d, <2>2, <2>3
    <2>5. Cap(i) \in Nat /\ line.who[i] \in Handles  BY <1>a, <2>3 DEF Honest, Cap
    <2>6. /\ got' \in [Sides -> Snapshot \cup {None}]
          /\ snapshots' \in [Handles -> Snapshot \cup {None}]
          /\ \E n \in Nat : n <= Cap(i) /\ sent' \in {sent, [sent EXCEPT ![i].metadata = n]}
      <3> DEFINE h == line.who[i]
      <3>1. CASE Reads /\ snapshots[h] # None
        BY <1>0, <2>1, <2>3, <2>5, <3>1 DEF Collect, InvocationTyped, ProfilesTyped
      <3>2. CASE ~(Reads /\ snapshots[h] # None) /\ UNCHANGED <<got, snapshots>>
        <4>1. Lower(1, Cap(i)) \in Nat /\ Lower(1, Cap(i)) <= Cap(i)  BY <2>5 DEF Lower
        <4>2. sent' \in {sent, [sent EXCEPT ![i].metadata = Lower(1, Cap(i))]}
              \/ sent' \in {sent, [sent EXCEPT ![i].metadata = Lower(Need[h], Cap(i))]}
          BY <2>1, <3>2 DEF Collect
        <4>3. Lower(Need[h], Cap(i)) \in Nat /\ Lower(Need[h], Cap(i)) <= Cap(i)
          BY <2>5, InvocationAssumption DEF Lower
        <4> QED BY <1>0, <2>3, <3>2, <4>1, <4>2, <4>3 DEF InvocationTyped, ProfilesTyped
      <3>3. CASE ~(Reads /\ snapshots[h] # None) /\ ~UNCHANGED <<got, snapshots>>
        <4> DEFINE used == Lower(Need[h], Cap(i))
        <4>1. used \in Nat /\ used <= Cap(i)  BY <2>5, InvocationAssumption DEF Lower
        <4>2. PICK edition \in Editions :
                LET s == [of |-> h, edition |-> edition, used |-> used, max |-> Cap(i)]
                IN  /\ got' = [got EXCEPT ![i] = s]
                    /\ sent' = [sent EXCEPT ![i].metadata = used]
                    /\ snapshots' = IF Writes THEN [snapshots EXCEPT ![h] = s] ELSE snapshots
          BY <2>1, <3>3 DEF Collect
        <4>3. [of |-> h, edition |-> edition, used |-> used, max |-> Cap(i)] \in Snapshot
          BY <2>5, <4>1 DEF Snapshot
        <4> HIDE DEF h, used
        <4> QED BY <1>0, <2>3, <4>1, <4>2, <4>3 DEF InvocationTyped, ProfilesTyped
      <3> QED BY <3>1, <3>2, <3>3
    <2>7. InvocationTyped' /\ ReadingsKeyed'
      BY <1>0, <2>2, <2>6 DEF vars, InvocationTyped, ReadingsKeyed
    <2>8. ProfilesTyped'
      BY <2>2, <2>3, <2>4, <2>6 DEF ProfilesTyped
    <2>9. SpentInOrder' /\ SpendsWithinPlan'
      <3>1. plan' = plan /\ stage' = stage  BY <2>2 DEF vars
      <3>2. \A j \in Sides : /\ sent'[j].source = 0 /\ sent'[j].quality = 0
                             /\ sent'[j].metadata \in Nat /\ sent'[j].metadata <= plan.caps[j]
        BY <1>0, <2>2, <2>3, <2>6 DEF SpentInOrder, SpendsWithinPlan, ProfilesTyped, Cap
      <3> QED BY <2>2, <2>3, <2>4, <3>1, <3>2 DEF Honest, SpentInOrder, SpendsWithinPlan
    <2> QED BY <1>0, <2>2, <2>4, <2>7, <2>8, <2>9 DEF vars, InvocationInv, Working,
           ShownInScope, ServedInScope, ExitTellsAll
  <1>6. CASE Collected
    <2>1. CASE stage' = "ended"
      BY <1>6, <2>1, LeaveStep DEF Collected
    <2>2. CASE stage' # "ended"
      <3>1. /\ stage = "collect" /\ stage' = "read" /\ done' = {} /\ Working
            /\ \A j \in Sides : got[j] # None
            /\ UNCHANGED <<vars, caches, line, private, run, got, sent, shown, aside,
                           vanished, outcome>>
        BY <1>6, <2>2 DEF Collected, Leave, Working
      <3>2. PreflightInv(Sides)' /\ Sides' = Sides  BY <1>c, <1>d, <3>1
      <3>3. InvocationTyped' /\ ReadingsKeyed' /\ ProfilesTyped'
        BY <1>0, <1>c, <3>1, <3>2 DEF caches, vars, InvocationTyped, ReadingsKeyed, ProfilesTyped
      <3>4. SpendsWithinPlan'
        BY <1>0, <3>1, <3>2 DEF vars, SpendsWithinPlan, Working
      <3> QED BY <1>0, <3>1, <3>2, <3>3, <3>4 DEF vars, InvocationInv, Working, SpentInOrder,
             ShownInScope, ServedInScope, ExitTellsAll
    <2> QED BY <2>1, <2>2
  <1>7. CASE \E i \in Sides : Read(i)
    <2>1. PICK i \in Sides : Read(i)  BY <1>7
    <2> DEFINE all == Lower(SourceAllowance(i), Files[got[i].of])
    <2>2. /\ stage = "read" /\ Working /\ done' = done \union {i}
          /\ UNCHANGED <<vars, root, snapshots, qualities, line, private, stage, run,
                         got, aside, vanished, outcome>>
      BY <2>1 DEF Read, Working
    <2>3. Honest(plan, Sides) /\ PreflightInv(Sides) /\ ProfilesTyped  BY <1>c, <2>2
    <2>4. PreflightInv(Sides)' /\ Sides' = Sides  BY <1>d, <2>2, <2>3
    <2>5. /\ SourceAllowance(i) \in Nat /\ SourceAllowance(i) <= Cap(i) - sent[i].metadata
          /\ all \in Nat /\ all <= SourceAllowance(i) /\ Cap(i) \in Nat /\ Cap(i) = plan.caps[i]
      <3>1. sent[i].metadata \in Nat /\ sent[i].source \in Nat /\ Cap(i) \in Nat
            /\ sent[i].metadata + sent[i].source <= Cap(i)
        BY <1>0, <2>2, <2>3 DEF Honest, ProfilesTyped, SpendsWithinPlan, Cap
      <3>2. Files[got[i].of] \in Nat
        BY <1>0, <2>2, <2>3, InvocationAssumption DEF ShownInScope, ProfilesTyped, Snapshot
      <3> QED BY <3>1, <3>2 DEF SourceAllowance, Larger, Lower, Cap
    <2> DEFINE key == ReadingKey(got[i], SourceAllowance(i))
               kept == {r \in readings : r.key = key}
    <2>6. key[2] = SourceAllowance(i)  BY DEF ReadingKey
    <2>7. /\ \E n \in {0, all} : sent' \in {sent, [sent EXCEPT ![i].source = n]}
          /\ \E n \in Nat : shown' = [shown EXCEPT ![i].files = n,
                                              ![i].allowance = SourceAllowance(i)]
          /\ ReadingsKeyed'
      <3> HIDE DEF key
      <3>1. CASE Reads /\ kept # {}
        <4>1. /\ \E r \in kept : shown' = [shown EXCEPT ![i].files = r.files,
                                                    ![i].allowance = r.allowance]
              /\ UNCHANGED <<sent, readings>>
          BY <2>1, <3>1 DEF Read, key
        <4>2. \A r \in kept : r.files \in Nat /\ r.allowance = SourceAllowance(i)
          BY <1>0, <2>6 DEF ReadingsKeyed
        <4>3. ReadingsKeyed'  BY <1>0, <4>1 DEF ReadingsKeyed
        <4> QED BY <4>1, <4>2, <4>3
      <3>2. CASE ~(Reads /\ kept # {})
        <4>1. PICK lasting \in BOOLEAN, spent \in {0, all} :
                /\ sent' = [sent EXCEPT ![i].source = spent]
                /\ shown' = [shown EXCEPT ![i].files = IF lasting THEN all ELSE 0,
                                          ![i].allowance = SourceAllowance(i)]
                /\ readings' \subseteq readings \union
                      {[key |-> key, files |-> all, allowance |-> SourceAllowance(i),
                        complete |-> plan.disposition = "complete"]}
          BY <2>1, <3>2 DEF Read, key
        <4>2. (IF lasting THEN all ELSE 0) \in Nat  BY <2>5
        <4> HIDE DEF all
        <4>3. ReadingsKeyed'
          BY <1>0, <2>5, <2>6, <4>1 DEF ReadingsKeyed
        <4> QED BY <4>1, <4>2, <4>3
      <3> QED BY <3>1, <3>2
    <2> HIDE DEF all, key, kept
    <2>8. InvocationTyped'
      BY <1>0, <2>2 DEF vars, InvocationTyped
    <2>9. ProfilesTyped'
      <3>1. sent' \in [Sides -> [metadata : Nat, source : Nat, quality : Nat]]
        BY <2>3, <2>5, <2>7 DEF ProfilesTyped
      <3>2. shown' \in [Sides -> [files : Nat, allowance : Nat]]
        <4>1. PICK n \in Nat : shown' = [shown EXCEPT ![i].files = n,
                                                    ![i].allowance = SourceAllowance(i)]
          BY <2>7
        <4>2. shown \in [Sides -> [files : Nat, allowance : Nat]] /\ SourceAllowance(i) \in Nat
          BY <2>3, <2>5 DEF ProfilesTyped
        <4> QED BY <4>1, <4>2
      <3> QED BY <2>2, <2>3, <2>4, <3>1, <3>2 DEF ProfilesTyped
    <2>10. SpendsWithinPlan'
      <3>1. plan' = plan  BY <2>2 DEF vars
      <3>2. \A j \in Sides :
              /\ sent'[j].metadata = sent[j].metadata /\ sent'[j].quality = sent[j].quality
              /\ sent'[j].source = sent[j].source \/ (j = i /\ sent'[j].source \in {0, all})
        BY <2>3, <2>7 DEF ProfilesTyped
      <3>3. \A j \in Sides : /\ sent[j].metadata \in Nat /\ sent[j].source \in Nat
                             /\ sent[j].metadata + sent[j].source <= plan.caps[j]
                             /\ sent[j].quality <= plan.qualityCap.source + plan.qualityCap.attribution
        BY <1>0, <2>2, <2>3 DEF ProfilesTyped, SpendsWithinPlan
      <3>4. sent[i].metadata + all <= plan.caps[i] /\ sent[i].metadata + 0 <= plan.caps[i]
        BY <2>5, <3>3
      <3>5. \A j \in Sides : sent'[j].metadata + sent'[j].source <= plan.caps[j]
        BY <3>2, <3>3, <3>4
      <3> QED BY <2>4, <3>1, <3>2, <3>3, <3>5 DEF SpendsWithinPlan
    <2>11. ShownInScope'
      <3>1. /\ plan' = plan /\ got' = got /\ stage' = "read" /\ Sides' = Sides
            /\ done' = done \union {i}
        BY <2>2, <2>4 DEF vars
      <3>2. \A j \in Sides : SourceAllowance(j)' = SourceAllowance(j)
        BY <2>3, <2>7, <3>1 DEF ProfilesTyped, SourceAllowance, Cap
      <3>3. \A j \in done \union {i} : shown'[j].allowance = SourceAllowance(j)
        BY <1>0, <2>2, <2>3, <2>7 DEF ProfilesTyped, ShownInScope
      <3> QED BY <1>0, <2>2, <2>3, <3>1, <3>2, <3>3 DEF ProfilesTyped, ShownInScope, ServedInScope
    <2> QED BY <1>0, <2>2, <2>4, <2>7, <2>8, <2>9, <2>10, <2>11 DEF vars, InvocationInv, Working,
           SpentInOrder, ExitTellsAll
  <1>8. CASE ReadAll
    <2>1. /\ stage = "read" /\ done = Sides /\ stage' = "quality" /\ done' = {} /\ Working
          /\ UNCHANGED <<vars, caches, line, private, run, got, sent, shown, aside,
                           vanished, outcome>>
      BY <1>8 DEF ReadAll, Working
    <2>2. PreflightInv(Sides)' /\ Sides' = Sides  BY <1>c, <1>d, <2>1
    <2>3. InvocationTyped' /\ ReadingsKeyed' /\ ProfilesTyped'
      BY <1>0, <1>c, <2>1, <2>2 DEF caches, vars, InvocationTyped, ReadingsKeyed, ProfilesTyped
    <2>4. SpendsWithinPlan'
      BY <1>0, <2>1, <2>2 DEF vars, SpendsWithinPlan, Working
    <2>5. ShownInScope'
      BY <1>0, <2>1, <2>2 DEF vars, ShownInScope, ServedInScope, SourceAllowance, Cap
    <2> QED BY <1>0, <2>1, <2>2, <2>3, <2>4, <2>5 DEF vars, InvocationInv, Working,
           SpentInOrder, ExitTellsAll
  <1>9. CASE \E i \in Sides : Judge(i)
    <2>1. PICK i \in Sides : Judge(i)  BY <1>9
    <2> DEFINE most == plan.qualityCap.source + plan.qualityCap.attribution
    <2>2. /\ stage = "quality" /\ Working /\ done' = done \union {i}
          /\ sent' \in {sent, [sent EXCEPT ![i].quality = most]}
          /\ UNCHANGED <<vars, root, snapshots, readings, line, private, stage, run,
                         got, shown, aside, vanished, outcome>>
      BY <2>1 DEF Judge, Working
    <2>3. Honest(plan, Sides) /\ PreflightInv(Sides) /\ ProfilesTyped  BY <1>c, <2>2
    <2>4. PreflightInv(Sides)' /\ Sides' = Sides  BY <1>d, <2>2, <2>3
    <2>5. InvocationTyped' /\ ReadingsKeyed'
      BY <1>0, <2>2 DEF vars, InvocationTyped, ReadingsKeyed
    <2>6. most \in Nat  BY <2>3 DEF Honest
    <2> HIDE DEF most
    <2>7. ProfilesTyped'
      BY <2>2, <2>3, <2>4, <2>6 DEF ProfilesTyped
    <2>8. \A j \in Sides :
            /\ sent'[j].metadata = sent[j].metadata /\ sent'[j].source = sent[j].source
            /\ sent'[j].quality \in {sent[j].quality, most}
      BY <2>2, <2>3 DEF ProfilesTyped
    <2>9. SpendsWithinPlan'
      <3>1. plan' = plan  BY <2>2 DEF vars
      <3> QED BY <1>0, <2>2, <2>4, <2>6, <2>8, <3>1 DEF SpendsWithinPlan, Working, most
    <2>10. ShownInScope'
      BY <1>0, <2>2, <2>4, <2>8 DEF vars, ShownInScope, ServedInScope, SourceAllowance, Cap
    <2> QED BY <1>0, <2>2, <2>4, <2>5, <2>7, <2>9, <2>10 DEF vars, InvocationInv, Working,
           SpentInOrder, ExitTellsAll
  <1>10. CASE End
    <2>0. CASE Leave(Nothing)
      BY <1>10, <2>0, LeaveStep DEF End
    <2>1. CASE ~Leave(Nothing)
      <3>0. PICK result \in (IF private THEN {"ready", "failed", "public"} ELSE {"none"}),
                 written \in BOOLEAN :
              LET exported == MayExport(result) /\ written IN
              Leave([exit |-> IF result = "failed" \/ (line.output = "export" /\ ~exported)
                              THEN 1 ELSE 0,
                     public |-> line.output # "export",
                     private |-> result = "ready" /\ (line.output = "export" => exported),
                     declined |-> result = "public",
                     exported |-> exported])
        BY <1>10, <2>1 DEF End
      <3> DEFINE exported == MayExport(result) /\ written
                 left == [exit |-> IF result = "failed" \/ (line.output = "export" /\ ~exported)
                                   THEN 1 ELSE 0,
                          public |-> line.output # "export",
                          private |-> result = "ready" /\ (line.output = "export" => exported),
                          declined |-> result = "public",
                          exported |-> exported]
                 wanted == private /\ result # "public"
      <3>1. Leave(left) /\ UNCHANGED <<root, private>>  BY <1>10, <3>0 DEF End
      <3>2. line' = line /\ private' = private /\ outcome' = left /\ private \in BOOLEAN
        BY <1>0, <3>1 DEF Leave, InvocationTyped
      <3>3. /\ outcome'.exit = (IF result = "failed" \/ (line.output = "export" /\ ~exported)
                                THEN 1 ELSE 0)
            /\ outcome'.public = (line.output # "export")
            /\ outcome'.private = (result = "ready" /\ (line.output = "export" => exported))
            /\ outcome'.declined = (result = "public")
            /\ outcome'.exported = exported
        <4> HIDE DEF exported
        <4> QED BY <3>2
      <3>4. (private' /\ ~outcome'.declined) = wanted
        BY <3>2, <3>3
      <3>5. exported => line.output = "export" /\ result # "failed"  BY DEF MayExport
      <3>6. exported \in BOOLEAN  BY DEF MayExport
      \* What was delivered of the private part is what was wanted unless it failed.
      <3>7. result # "failed" => wanted = (result = "ready")
        BY <3>0, <3>2
      <3>8. result = "failed" => wanted
        BY <3>0, <3>2
      <3> HIDE DEF exported, left, wanted
      <3> DEFINE shownOrWritten ==
                   IF line'.output = "export" THEN outcome'.exported ELSE outcome'.public
      <3>a. ASSUME (outcome'.exit = 0) <=> (outcome'.private = wanted /\ shownOrWritten),
                   outcome'.exported => outcome'.private = wanted
            PROVE  ExitTellsAll'
        <4>1. outcome'.private = (private' /\ ~outcome'.declined) <=> outcome'.private = wanted
          BY <3>4, Zenon
        <4> QED BY <3>a, <4>1, Zenon DEF ExitTellsAll
      <3>9. ASSUME result = "failed" PROVE ExitTellsAll'
        <4>1. outcome'.exit = 1 /\ ~outcome'.private /\ ~outcome'.exported
          BY <3>3, <3>5, <3>9
        <4>2. ~(outcome'.exit = 0)  BY <4>1
        <4>3. outcome'.private # wanted  BY <3>3, <3>8, <3>9
        <4> QED BY <3>a, <4>1, <4>2, <4>3
      <3>10. ASSUME result # "failed" PROVE ExitTellsAll'
        <4>1. outcome'.exit = 0 <=> (line.output = "export" => exported)
          BY <3>3, <3>10
        <4>2. (line.output = "export" => exported) => outcome'.private = wanted
          BY <3>3, <3>7, <3>10
        <4>3. shownOrWritten <=> (line.output = "export" => exported)
          BY <3>2, <3>3, <3>6
        <4>4. outcome'.exported => outcome'.private = wanted
          BY <3>3, <4>2
        <4> HIDE DEF shownOrWritten
        <4> QED BY <3>a, <4>1, <4>2, <4>3, <4>4
      <3>11. ExitTellsAll'  BY <3>9, <3>10
      <3> QED BY <3>1, <3>11, LeaveStep
    <2> QED BY <2>0, <2>1
  <1>11. CASE Vanish
    <2>1. /\ stage \in {"preflight", "collect"}
          /\ readings' \subseteq readings
          /\ UNCHANGED <<vars, root, line, private, stage, run, done, got, sent, shown,
                         aside, outcome>>
      BY <1>11 DEF Vanish
    <2>2. snapshots' \in [Handles -> Snapshot \cup {None}]
      BY <1>0, <1>11 DEF Vanish, InvocationTyped
    <2>3. PreflightInv(Sides)' /\ Sides' = Sides
      BY <1>0, <1>d, <2>1 DEF Working
    <2>4. InvocationTyped' /\ ReadingsKeyed'
      BY <1>0, <2>1, <2>2 DEF vars, InvocationTyped, ReadingsKeyed
    <2>5. ProfilesTyped'
      BY <1>0, <2>1, <2>3 DEF ProfilesTyped, Working
    <2> QED BY <1>0, <2>1, <2>3, <2>4, <2>5 DEF vars, InvocationInv, Working, SpentInOrder,
           SpendsWithinPlan, ShownInScope, ServedInScope, ExitTellsAll
  <1>12. CASE UNCHANGED iVars
    <2>1. UNCHANGED <<vars, caches, line, private, stage, run, work, outcome>>
      BY <1>12 DEF iVars
    <2>2. stage = "preflight" \/ Working => PreflightInv(Sides)' /\ ProfilesTyped'
      BY <1>0, <1>d, <2>1 DEF work, ProfilesTyped
    <2> QED BY <1>0, <2>1, <2>2 DEF vars, caches, work, InvocationInv, InvocationTyped,
           ReadingsKeyed, Working, SpentInOrder, SpendsWithinPlan, ShownInScope,
           ServedInScope, ExitTellsAll, Sides, SourceAllowance, Cap
  <1> QED
    BY <1>1, <1>2, <1>3, <1>4, <1>5, <1>6, <1>7, <1>8, <1>9, <1>10, <1>11, <1>12
       DEF InvocationNext, Program

LEMMA InvocationInductive == InvocationSpec => []InvocationInv
  BY InvocationBegins, InvocationStep, PTL DEF InvocationSpec

\* Nobody but who signed in is asked for.
AsideKept == Working => aside <= signIns

LEMMA AsideStep ==
  ASSUME InvocationInv, AsideKept, [InvocationNext]_iVars
  PROVE  AsideKept'
  <1>1. ASSUME stage' \notin {"collect", "read", "quality"}
        PROVE  AsideKept'
    BY <1>1 DEF AsideKept, Working
  <1>2. ASSUME Working, UNCHANGED <<vars, aside>>
        PROVE  AsideKept'
    BY <1>2 DEF AsideKept, vars, choices
  <1>3. CASE Invoke
    BY <1>1, <1>3 DEF Invoke
  <1>4. CASE Preflighting
    BY <1>1, <1>4 DEF Preflighting
  <1>5. CASE Refused
    BY <1>1, <1>5 DEF Refused, Leave
  <1>6. CASE Begin
    <2>1. CASE stage' = "ended"
      BY <1>1, <2>1
    <2>2. CASE stage' # "ended"
      <3>1. pc = "collect" /\ stage = "preflight" /\ signIns' = signIns
            /\ aside' = IF Offers THEN 1 ELSE 0
        BY <1>6, <2>2 DEF Begin, Leave, vars, choices
      <3>2. signIns = IF token = "device" THEN 1 ELSE 0
        BY <3>1 DEF InvocationInv, PreflightInv, IdentityKept
      <3> QED BY <3>1, <3>2 DEF AsideKept, Offers
    <2> QED BY <2>1, <2>2
  <1>7. CASE Collected \/ ReadAll
    BY <1>1, <1>2, <1>7 DEF Collected, ReadAll, Leave, Working
  <1>8. CASE End
    BY <1>1, <1>8 DEF End, Leave
  <1>9. CASE \E i \in Sides : Collect(i) \/ Read(i) \/ Judge(i)
    BY <1>2, <1>9 DEF Collect, Read, Judge, Working
  <1>10. CASE Vanish
    BY <1>1, <1>2, <1>10 DEF Vanish, Working
  <1>11. CASE UNCHANGED iVars
    BY <1>11 DEF iVars, vars, choices, work, AsideKept, Working
  <1> QED
    BY <1>3, <1>4, <1>5, <1>6, <1>7, <1>8, <1>9, <1>10, <1>11
       DEF InvocationNext, Program

LEMMA AsideInductive == InvocationSpec => []AsideKept
  <1>1. InvocationInit => AsideKept
    BY DEF InvocationInit, AsideKept, Working
  <1> QED BY <1>1, AsideStep, InvocationInductive, PTL DEF InvocationSpec
-----------------------------------------------------------------------------
(* What is proved of every invocation *)

\* A collection begins with what was planned, chosen and signed in for, in the
\* preflight of every invocation and whatever the caches hold.
THEOREM CollectionBeginsAsPlanned == InvocationSpec => []BeginsAsPlanned
  <1>1. InvocationInv => BeginsAsPlanned
    <2> SUFFICES ASSUME InvocationInv, pc = "collect" PROVE BeginsAsPlanned
      BY DEF BeginsAsPlanned
    <2>1. PreflightInv(Sides)
      BY DEF InvocationInv, InvocationTyped, Working
    <2>2. /\ IdentityKept /\ Honest(plan, Sides) /\ RequiredKept /\ signIns \in {0, 1}
          /\ qualityOn => plan.signedIn = SignedIn
          /\ qualityOn /\ plan.quality = "complete" => plan.signedIn
          /\ plan.disposition = "limited" /\ ~plan.signedIn => opts.anonymous \/ consented
      BY <2>1 DEF PreflightInv, PreflightTyped, PlanAtHand, LimitChosen, PastLimit
    <2> QED BY <2>2 DEF BeginsAsPlanned, IdentityKept, RequiredKept, Honest
  <1> QED BY InvocationInductive, <1>1, PTL

\* However the caches change between the plan and the run, no profile spends more
\* than its caps.
THEOREM PlanBoundsSpending == InvocationSpec => []SpendsWithinPlan
  <1>1. InvocationInv => SpendsWithinPlan  BY DEF InvocationInv
  <1> QED BY InvocationInductive, <1>1, PTL

\* Both profiles together stay within the allowance the plan was made for; beside
\* them only the question who signed in is asked, once and after a sign-in.
THEOREM RunKeepsAllowance == InvocationSpec => []AllowanceKept
  <1>1. InvocationInv /\ AsideKept => AllowanceKept
    <2> SUFFICES ASSUME InvocationInv, AsideKept, Working, plan.remaining # Unread,
                        Total(plan.caps) <= plan.expected
                 PROVE  Total([i \in Sides |-> sent[i].metadata + sent[i].source
                                                + sent[i].quality]) <= plan.remaining
      BY DEF AllowanceKept, AsideKept
    <2>1. /\ PreflightInv(Sides) /\ ProfilesTyped /\ pc = "collect" /\ SpendsWithinPlan
          /\ Sides \in HandleSets
      BY LineKnown DEF InvocationInv
    <2>2. Honest(plan, Sides)
      BY <2>1 DEF PreflightInv, PlanAtHand
    <2> DEFINE each == plan.qualityCap.source + plan.qualityCap.attribution
               spent == [i \in Sides |-> sent[i].metadata + sent[i].source + sent[i].quality]
               given == [i \in Sides |-> plan.caps[i] + each]
    <2>3. each \in Nat /\ plan.caps \in [Sides -> Nat]  BY <2>2 DEF Honest
    <2>4. \A i \in Sides : /\ sent[i].metadata \in Nat /\ sent[i].source \in Nat
                          /\ sent[i].quality \in Nat
                          /\ sent[i].metadata + sent[i].source <= plan.caps[i]
                          /\ sent[i].quality <= each
      BY <2>1 DEF ProfilesTyped, SpendsWithinPlan
    <2>5. Promised(plan) = Total(given) /\ Promised(plan) <= plan.remaining
          /\ plan.remaining \in Nat
      BY <2>2, <2>3 DEF Honest, Promised
    <2> HIDE DEF each
    <2>6. given \in [Sides -> Nat] /\ spent \in [Sides -> Nat]
          /\ \A i \in Sides : spent[i] <= given[i]
      BY <2>3, <2>4
    <2> HIDE DEF given
    <2>7. Total(spent) <= Total(given) /\ Total(spent) \in Nat /\ Total(given) \in Nat
      <3> HIDE DEF spent
      <3> QED BY <2>1, <2>6, TotalMonotone, TotalInNat
    <2> QED BY <2>5, <2>7
  <1> QED BY InvocationInductive, AsideInductive, <1>1, PTL

\* No profile is shown a reading that another allowance bought, in whichever
\* invocation it was made and kept.
THEOREM ReadingsServedInScope == InvocationSpec => []ServedInScope
  <1>1. InvocationInv => ServedInScope  BY DEF InvocationInv, ShownInScope
  <1> QED BY InvocationInductive, <1>1, PTL

\* Exit code zero is everything that was asked for, less what the user declined.
THEOREM ExitCodeTellsAll == InvocationSpec => []ExitTellsAll
  <1>1. InvocationInv => ExitTellsAll  BY DEF InvocationInv
  <1> QED BY InvocationInductive, <1>1, PTL

\* From the moment private repositories are wanted nothing is written: every
\* action writes under a policy that excludes them, or before they are offered.
THEOREM PrivateRunsLeaveNothing == InvocationSpec => PrivateLeavesNothing
  <1> DEFINE Trace == private' =>
                       /\ root' = root
                       /\ readings' \subseteq readings /\ qualities' \subseteq qualities
                       /\ \A h \in Handles : snapshots'[h] \in {None, snapshots[h]}
  <1>1. ASSUME InvocationInv, [InvocationNext]_iVars PROVE [Trace]_iVars
    <2>0. SUFFICES ASSUME private' PROVE Trace  OBVIOUS
    <2>1. snapshots \in [Handles -> Snapshot \cup {None}] /\ private \in BOOLEAN
      BY <1>1 DEF InvocationInv, InvocationTyped
    <2>2. CASE Invoke
      BY <2>0, <2>2 DEF Invoke, Defers, Prepared
    <2>3. CASE Preflighting  BY <2>3 DEF Preflighting, caches
    <2>4. CASE Refused  BY <2>4 DEF Refused, Leave
    <2>5. CASE Begin  BY <2>0, <2>5 DEF Begin, Leave
    <2>6. CASE \E i \in Sides : Collect(i)
      <3>1. PICK i \in Sides : Collect(i)  BY <2>6
      <3>2. private' = private /\ root' = root /\ readings' = readings /\ qualities' = qualities
        BY <3>1 DEF Collect
      <3>3. ~Writes  BY <2>0, <3>2 DEF Writes
      <3>4. snapshots' = snapshots  BY <3>1, <3>3 DEF Collect
      <3> QED BY <3>2, <3>4
    <2>7. CASE Collected  BY <2>7 DEF Collected, Leave, caches
    <2>8. CASE \E i \in Sides : Read(i)
      <3>1. PICK i \in Sides : Read(i)  BY <2>8
      <3>2. private' = private /\ UNCHANGED <<root, snapshots, qualities>>
        BY <3>1 DEF Read
      <3>3. ~Writes  BY <2>0, <3>2 DEF Writes
      <3>4. readings' = readings  BY <3>1, <3>3 DEF Read
      <3> QED BY <3>2, <3>4
    <2>9. CASE ReadAll  BY <2>9 DEF ReadAll, caches
    <2>10. CASE \E i \in Sides : Judge(i)
      <3>1. PICK i \in Sides : Judge(i)  BY <2>10
      <3>2. private' = private /\ UNCHANGED <<root, snapshots, readings>>
        BY <3>1 DEF Judge
      <3>3. ~Writes  BY <2>0, <3>2 DEF Writes
      <3>4. qualities' = qualities  BY <3>1, <3>3 DEF Judge
      <3> QED BY <3>2, <3>4
    <2>11. CASE End  BY <2>11 DEF End, Leave
    <2>12. CASE Vanish
      <3>1. root' = root  BY <2>12 DEF Vanish
      <3>2. readings' \subseteq readings /\ qualities' \subseteq qualities
        BY <2>12 DEF Vanish
      <3>3. \A h \in Handles : snapshots'[h] \in {None, snapshots[h]}
        BY <2>1, <2>12 DEF Vanish
      <3> QED BY <3>1, <3>2, <3>3
    <2>13. CASE UNCHANGED iVars  BY <2>13 DEF iVars, caches
    <2> QED
      BY <1>1, <2>2, <2>3, <2>4, <2>5, <2>6, <2>7, <2>8, <2>9, <2>10, <2>11, <2>12, <2>13
         DEF InvocationNext, Program
  <1>2. InvocationSpec => [][Trace]_iVars
    <2> HIDE DEF Trace
    <2> QED BY InvocationInductive, <1>1, PTL DEF InvocationSpec
  <1> QED BY <1>2 DEF PrivateLeavesNothing, Trace
=============================================================================
