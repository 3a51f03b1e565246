------------------------------- MODULE Curves -------------------------------
(***************************************************************************)
(* The arithmetic of the public score (fast-scan/curves.ts) and of the     *)
(* identity signals (identity/signals.ts).  A ratio is a number of         *)
(* ten-thousandths: the code keeps the ratio of a metric to four decimals  *)
(* (metrics.ts round(ratio, 4)) and every later decision reads that value. *)
(***************************************************************************)
EXTENDS Integers, Sequences, FiniteSets, FiniteSetsExt

One == 10000
None == -1

\* x ?? d.
Or(x, d) == IF x = None THEN d ELSE x

\* Both records in one; a field of both is that of the first.
Joined(f, g) ==
  [x \in DOMAIN f \cup DOMAIN g |-> IF x \in DOMAIN f THEN f[x] ELSE g[x]]

\* n / d, the half rounded up: Math.floor(n / d + 0.5).
HalfUp(n, d) == (2 * n + d) \div (2 * d)

Unit(x) == Max({0, Min({One, x})})

\* The share of part in whole, 0 when there is no whole.
Share(part, whole) == IF whole <= 0 THEN 0 ELSE HalfUp(part * One, whole)

\* Anchors are pairs <<input, output>>, the inputs ascending.
Interpolate(value, anchors) ==
  LET last == anchors[Len(anchors)]
      above == {i \in DOMAIN anchors : value <= anchors[i][1]}
      i == Min(above)
      p == anchors[i - 1]
      q == anchors[i]
  IN IF above = {} THEN last[2]
     ELSE IF i = 1 THEN q[2]
     ELSE p[2] + HalfUp((value - p[1]) * (q[2] - p[2]), q[1] - p[1])

InversePenalty(rate, ceiling) == Unit(One - Unit(HalfUp(rate * One, ceiling)))

\* The mean of f over a set of repositories, 0 for none.
MeanOf(f(_), S) ==
  IF S = {} THEN 0 ELSE HalfUp(MapThenSumSet(f, S), Cardinality(S))

\* 0 up to floor, 1 from ceiling on, linear between.
Ramp(value, floor, ceiling) ==
  IF ceiling <= floor THEN IF value >= ceiling THEN One ELSE 0
  ELSE Unit(HalfUp((value - floor) * One, ceiling - floor))

InverseRamp(value, floor, ceiling) == One - Ramp(value, floor, ceiling)

\* The weighted mean of pairs <<weight, value>>; an absent value drops out of
\* both sides.
Weighted(parts) ==
  LET there == {i \in DOMAIN parts : parts[i][2] # None}
      total == MapThenSumSet(LAMBDA i : parts[i][1], there)
  IN IF total = 0 THEN 0
     ELSE Unit(HalfUp(MapThenSumSet(LAMBDA i : parts[i][1] * parts[i][2], there), total))

\* How many of the conditions hold.
Tally(conditions) == Cardinality({i \in DOMAIN conditions : conditions[i]})
=============================================================================
