----------------------------- MODULE Scorecard ------------------------------
(***************************************************************************)
(* The scorecard of one profile (fast-scan/scorecard.ts, confidence.ts):   *)
(* categories, the overall score over what could be measured, and how far  *)
(* the evidence carries it.                                                *)
(***************************************************************************)
EXTENDS Metrics

\* In display order.
Categories ==
  <<"craft.testing", "ship.frequency", "craft.tooling", "craft.hygiene", "ship.breadth",
    "ship.substance", "ship.discipline", "craft.maintainability", "craft.quality">>

ConfidenceCap == 70
MaximumBasis == 59

MeasuredOf(metrics) == {m \in DOMAIN metrics : metrics[m].ratio # None}
WeightOf(metrics, S) == MapThenSumSet(LAMBDA m : metrics[m].weight, S)
EarnedOf(metrics, S) == MapThenSumSet(LAMBDA m : metrics[m].earned, S)

\* The score of a category has one decimal: it is a number of tenths.
CategoryResult(metrics, category) ==
  LET owned == {m \in MeasuredOf(metrics) : metrics[m].category = category}
      weight == WeightOf(metrics, owned)
      earned == EarnedOf(metrics, owned)
  IN [weight |-> weight, earned |-> earned,
      score |-> IF weight = 0 THEN None ELSE HalfUp(earned, weight)]

\* A whole number of points of a hundred, 0 when nothing was measured.
OverallScore(metrics) ==
  LET basis == WeightOf(metrics, MeasuredOf(metrics))
  IN IF basis = 0 THEN 0 ELSE HalfUp(EarnedOf(metrics, MeasuredOf(metrics)), 10 * basis)

\* How many repositories, how substantial, how much of the selection could be
\* read, how much of the score was measured, over which history and languages.
Confidence(s, basis) ==
  LET analyzed == Cardinality(s.analyzed)
      depth == Interpolate(analyzed, <<<<0, 0>>, <<1, 3500>>, <<2, 6200>>, <<3, 8500>>,
                                       <<5, One>>>>)
      substance == Interpolate(Cardinality(s.substantial),
                               <<<<0, 0>>, <<1, 5000>>, <<2, 7500>>, <<3, 9000>>, <<5, One>>>>)
      coverage == Share(analyzed, s.selected)
      history == IF ~s.hasEvents THEN 2000 ELSE IF s.truncated THEN 8000 ELSE One
      languages == Share(Cardinality(s.languages \cap SupportedLanguages),
                         Cardinality(s.languages))
  IN [score |-> Min({ConfidenceCap,
                     HalfUp(25 * depth + 15 * substance + 15 * Unit(coverage)
                            + 20 * Unit(Share(basis, MaximumBasis)) + 15 * history
                            + 10 * languages, One)}),
      analyzed |-> analyzed, coverage |-> Unit(coverage), basis |-> basis]

\* The diagnostics keep the commit rates to three decimals.
Rounded(rate) == 10 * HalfUp(rate, 10)

\* What the scorecard keeps of the signals for identity and commentary.
Diagnostics(s) ==
  [public |-> Len(s.repos), eligible |-> Cardinality(s.eligible),
   substantial |-> Cardinality(s.substantial), archived |-> s.archived, forks |-> s.forks,
   abandoned |-> Cardinality(s.abandoned), inspected |-> Cardinality(s.analyzed),
   tested |-> Cardinality(Trees(s, LAMBDA t : t.tests > 0)),
   withCi |-> Cardinality(Trees(s, LAMBDA t : t.hasCi)), monorepos |-> s.monorepos,
   releaseRepos |-> Cardinality(s.releasing), sustained |-> Cardinality(s.sustained),
   deepLanguages |-> Cardinality(s.substantialLanguages),
   languages |-> Cardinality(s.languages), dominant |-> s.dominant,
   sample |-> s.commits.size, annualized |-> HalfUp(s.annualized, 100), weeks |-> s.weeks,
   days |-> s.recency, lowEffort |-> Rounded(s.commits.lowEffort),
   repair |-> Rounded(s.commits.repair), revert |-> Rounded(s.commits.revert),
   external |-> s.external, merged |-> s.merged, releases |-> s.totalReleases]

\* Everything but the identity.
Graded(s, metrics) ==
  [metrics |-> metrics, overall |-> OverallScore(metrics),
   category |-> [c \in {Categories[i] : i \in DOMAIN Categories} |-> CategoryResult(metrics, c)],
   confidence |-> Confidence(s, WeightOf(metrics, MeasuredOf(metrics))),
   diagnostics |-> Diagnostics(s)]

Measure(s) == Graded(s, ScoreMetrics(s))
Scorecard(snapshot) == Measure(Signals(snapshot))
=============================================================================
