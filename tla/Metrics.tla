------------------------------ MODULE Metrics -------------------------------
(***************************************************************************)
(* The metrics of the public score (fast-scan/metrics.ts, catalog.ts).     *)
(* A scorer returns the ratio of its metric and the polarities of the      *)
(* evidence it cites, in the order it cites it; a metric without a signal  *)
(* is unmeasured and leaves the score, it is never a zero.                 *)
(***************************************************************************)
EXTENDS Signals, TLC

Scored(ratio, evidence) == [ratio |-> Unit(ratio), evidence |-> evidence]
Unmeasured == [ratio |-> None, evidence |-> <<>>]

AtLeast(x, good, fair) ==
  IF x >= good THEN "positive" ELSE IF x >= fair THEN "neutral" ELSE "negative"
AtMost(x, good, bad) ==
  IF x <= good THEN "positive" ELSE IF x >= bad THEN "negative" ELSE "neutral"
\* The usual verdict on a share of the repositories.
OfAll(ratio, good) ==
  IF ratio >= good THEN "positive" ELSE IF ratio > 0 THEN "neutral" ELSE "negative"

-----------------------------------------------------------------------------
(* Shipping: what the account pushed, built, said and released.            *)

Commits(s) ==
  IF ~s.hasEvents THEN Unmeasured
  ELSE Scored(Interpolate(s.annualized, <<<<0, 0>>, <<1000, 2000>>, <<2500, 4000>>,
                                          <<5000, 5600>>, <<10000, 7000>>, <<25000, 9000>>,
                                          <<50000, One>>>>),
              <<AtLeast(s.annualized, 6000, 1500)>>)

ActiveWeeks(s) ==
  IF ~s.hasEvents THEN Unmeasured
  ELSE Scored(Interpolate(s.weeks, <<<<0, 0>>, <<1, 1500>>, <<3, 4000>>, <<7, 6800>>,
                                     <<9, 8600>>, <<12, One>>>>),
              <<AtLeast(s.weeks, 7, 3)>>)

Recency(s) ==
  IF s.recency = None THEN Unmeasured
  ELSE Scored(Interpolate(s.recency, <<<<0, One>>, <<7, One>>, <<30, 9000>>, <<90, 7200>>,
                                       <<180, 5000>>, <<365, 3000>>, <<730, 1000>>>>),
              <<IF s.recency <= 30 THEN "positive"
                ELSE IF s.recency <= 180 THEN "neutral" ELSE "negative">>)

SubstantialProjects(s) ==
  LET n == Cardinality(s.substantial)
  IN Scored(Interpolate(n, <<<<0, 0>>, <<1, 4000>>, <<2, 6250>>, <<3, 7750>>, <<5, 9250>>,
                             <<8, One>>>>),
            <<AtLeast(n, 3, 1)>> \o IF n > 0 THEN <<"positive">> ELSE <<>>)

SustainedWork(s) ==
  LET n == Cardinality(s.sustained)
      long == \E i \in s.substantial : s.repos[i].span >= 90
  IN Scored(Interpolate(n, <<<<0, 0>>, <<1, 4667>>, <<2, 7333>>, <<3, 9000>>, <<5, One>>>>),
            <<AtLeast(n, 2, 1)>> \o IF long THEN <<"positive">> ELSE <<>>)

\* The three metrics of the commit sample need a sample that is large enough.
ThinSample(s) == s.commits.size < MinimumCommitSample

Messages(s) ==
  IF ThinSample(s) THEN Unmeasured
  ELSE Scored((7 * InversePenalty(s.commits.lowEffort, 4000)
               + 3 * Interpolate(s.commits.median, <<<<0, 0>>, <<20, 2000>>, <<40, 6000>>,
                                                     <<70, 9000>>, <<120, One>>>>)) \div 10,
              <<AtMost(s.commits.lowEffort, 1000, 2500)>>)

RepairLoops(s) ==
  IF ThinSample(s) THEN Unmeasured
  ELSE Scored(InversePenalty(s.commits.repair, 3500), <<AtMost(s.commits.repair, 1200, 2500)>>)

MergeHygiene(s) ==
  IF ThinSample(s) THEN Unmeasured
  ELSE Scored((6 * InversePenalty(s.commits.revert, 800)
               + 4 * InversePenalty(Max({0, s.commits.merge - 5000}), 4000)) \div 10,
              <<AtMost(s.commits.revert, 0, 500)>>)

\* Repositories elsewhere, merged pull requests and reviews, in tenths.
External(s) ==
  IF ~s.hasEvents THEN Unmeasured
  ELSE Scored(Interpolate(10 * s.external + 4 * s.merged + 3 * s.reviews,
                          <<<<0, 0>>, <<10, 4000>>, <<30, 7000>>, <<60, 8750>>, <<100, One>>>>),
              <<AtLeast(s.external, 2, 1)>>)

Released(s) ==
  IF s.inspected = {} THEN Unmeasured
  ELSE Scored(Interpolate(Share(Cardinality(s.releasing), Cardinality(s.inspected)),
                          <<<<0, 0>>, <<3400, 6000>>, <<6700, 8500>>, <<One, One>>>>),
              IF s.releasing = {} THEN <<"negative">> ELSE <<"positive", "positive">>)

\* An archived repository is finished and counts as continued.
Continuity(s) ==
  LET continued == {i \in s.substantial : s.repos[i].archived \/ s.repos[i].idle <= 365}
      ratio == Share(Cardinality(continued), Cardinality(s.substantial))
  IN IF s.substantial = {} THEN Unmeasured ELSE Scored(ratio, <<AtLeast(ratio, 7000, 4000)>>)

-----------------------------------------------------------------------------
(* Craft: what the trees of the inspected repositories show.               *)

Trees(s, Test(_)) == {i \in s.analyzed : Test(s.repos[i].structure)}

\* The share of the trees that pass a test, its evidence good from a bound on.
TreeShare(s, Test(_), good) ==
  LET ratio == Share(Cardinality(Trees(s, Test)), Cardinality(s.analyzed))
  IN IF s.analyzed = {} THEN Unmeasured ELSE Scored(ratio, <<OfAll(ratio, good)>>)

TestsExist(s) ==
  LET tested == Trees(s, LAMBDA t : t.tests >= 3 \/ (t.tests >= 1 /\ t.sources < 20))
      ratio == Share(Cardinality(tested), Cardinality(s.analyzed))
  IN IF s.analyzed = {} THEN Unmeasured
     ELSE Scored(Interpolate(ratio, <<<<0, 0>>, <<3400, 5000>>, <<6700, 8000>>, <<One, One>>>>),
                 IF tested = {} THEN <<"negative">>
                 ELSE <<IF tested = s.analyzed THEN "positive" ELSE "neutral", "positive">>)

TestBreadth(s) ==
  LET judged == Trees(s, LAMBDA t : t.sources >= 5)
      average == MeanOf(LAMBDA i : Share(s.repos[i].structure.tests,
                                         s.repos[i].structure.sources), judged)
  IN IF judged = {} THEN Unmeasured
     ELSE Scored(Interpolate(average, <<<<0, 0>>, <<500, 3000>>, <<1500, 7000>>, <<3000, One>>>>),
                 <<AtLeast(average, 1500, 500)>>)

TestWorkflow(s) == TreeShare(s, LAMBDA t : t.hasCi /\ t.tests > 0, 6700)

FileSize(s) ==
  LET judged == Trees(s, LAMBDA t : t.sources > 0)
      rate == MeanOf(LAMBDA i : Share(s.repos[i].structure.oversized,
                                      s.repos[i].structure.sources), judged)
      largest == Max({s.repos[i].structure.largest : i \in judged})
      base == InversePenalty(rate, 500)
  IN IF judged = {} THEN Unmeasured
     ELSE Scored(IF largest > 300000 THEN Min({base, 5000}) ELSE base,
                 <<AtMost(largest, 60000, 200000)>>)

Ci(s) == TreeShare(s, LAMBDA t : t.hasCi, 6700)
Automation(s) == TreeShare(s, LAMBDA t : t.automated, 5000)

\* A repository the tool is not meant for leaves the denominator.
ApplicabilityGated(s, Applies(_), Satisfied(_)) ==
  LET applicable == {i \in s.analyzed : Applies(s.repos[i])}
      ratio == Share(Cardinality({i \in applicable : Satisfied(s.repos[i])}),
                     Cardinality(applicable))
  IN IF applicable = {} THEN Unmeasured ELSE Scored(ratio, <<OfAll(ratio, 6700)>>)

Lint(s) == ApplicabilityGated(s, LAMBDA r : r.primary \in LinterLanguages,
                              LAMBDA r : r.structure.hasLinting)
Typing(s) == ApplicabilityGated(s, LAMBDA r : r.primary \in GradualLanguages,
                                LAMBDA r : r.structure.hasTyping)
Build(s) == ApplicabilityGated(s, LAMBDA r : r.structure.hasManifest,
                               LAMBDA r : r.structure.hasLockfile)
Dependencies(s) ==
  ApplicabilityGated(s, LAMBDA r : r.structure.hasManifest,
                     LAMBDA r : r.structure.hasLockfile /\ ~r.structure.dependencies)
ReleaseHygiene(s) ==
  ApplicabilityGated(s, LAMBDA r : r.structure.hasManifest \/ r.distributed,
                     LAMBDA r : r.releases > 0)

Part(condition, points) == IF condition THEN points ELSE 0

Organization(s) ==
  LET Layout(t) == Part(t.separates, 4000) + Part(~t.built, 3000)
                   + Part(t.rootFiles <= 25, 1500) + Part(~t.dependencies, 1500)
      ratio == MeanOf(LAMBDA i : Layout(s.repos[i].structure), s.analyzed)
      messy == Trees(s, LAMBDA t : t.built \/ t.dependencies)
  IN IF s.analyzed = {} THEN Unmeasured
     ELSE Scored(ratio, <<AtLeast(ratio, 7000, 4500)>>
                        \o IF messy = {} THEN <<>> ELSE <<"negative">>)

Documentation(s) ==
  LET Papers(t) == Part(t.hasReadme, 6000) + Part(t.documented, 2500)
                   + Part(t.contributing, 1500)
      ratio == MeanOf(LAMBDA i : Papers(s.repos[i].structure), s.analyzed)
  IN IF s.analyzed = {} THEN Unmeasured ELSE Scored(ratio, <<AtLeast(ratio, 7000, 4000)>>)

\* A history of experiments cannot erase current work: the ceiling grows with
\* the substantial projects.  In tenths of a project.
Abandonment(s) ==
  LET n == Cardinality(s.abandoned)
  IN IF s.substantial = {} THEN Unmeasured
     ELSE Scored(InversePenalty(10 * n, Max({30, 6 * Cardinality(s.substantial)})),
                 <<IF n = 0 THEN "positive" ELSE IF n >= 3 THEN "negative" ELSE "neutral">>
                 \o IF s.archived > 0 THEN <<"positive">> ELSE <<>>)

-----------------------------------------------------------------------------
(* The catalog: every metric with its category, weight and scorer.         *)

Measured(outcome, category, weight) ==
  [category |-> category, weight |-> weight, ratio |-> outcome.ratio,
   evidence |-> outcome.evidence,
   earned |-> IF outcome.ratio = None THEN 0 ELSE HalfUp(outcome.ratio * weight, 10)]

\* What no fast scan can measure, 41 of the scorecard's 100 points.
UnmeasurableInFastScan ==
  "changeVolume" :> Measured(Unmeasured, "ship.substance", 5)
  @@ "sizing" :> Measured(Unmeasured, "ship.discipline", 4)
  @@ "coherence" :> Measured(Unmeasured, "ship.discipline", 3)
  @@ "judge" :> Measured(Unmeasured, "craft.quality", 20)
  @@ "testQuality" :> Measured(Unmeasured, "craft.testing", 2)
  @@ "complexity" :> Measured(Unmeasured, "craft.maintainability", 3)
  @@ "duplication" :> Measured(Unmeasured, "craft.maintainability", 2)
  @@ "deadCode" :> Measured(Unmeasured, "craft.maintainability", 1)
  @@ "coupling" :> Measured(Unmeasured, "craft.maintainability", 1)

\* Every metric of a profile; earned points in thousandths.
ScoreMetrics(s) ==
  "commits" :> Measured(Commits(s), "ship.frequency", 10)
  @@ "activeWeeks" :> Measured(ActiveWeeks(s), "ship.frequency", 5)
  @@ "recency" :> Measured(Recency(s), "ship.frequency", 3)
  @@ "substantialProjects" :> Measured(SubstantialProjects(s), "ship.substance", 4)
  @@ "sustainedWork" :> Measured(SustainedWork(s), "ship.substance", 3)
  @@ "messages" :> Measured(Messages(s), "ship.discipline", 2)
  @@ "repairLoops" :> Measured(RepairLoops(s), "ship.discipline", 2)
  @@ "mergeHygiene" :> Measured(MergeHygiene(s), "ship.discipline", 1)
  @@ "external" :> Measured(External(s), "ship.breadth", 4)
  @@ "released" :> Measured(Released(s), "ship.breadth", 2)
  @@ "continuity" :> Measured(Continuity(s), "ship.breadth", 2)
  @@ "testsExist" :> Measured(TestsExist(s), "craft.testing", 4)
  @@ "testBreadth" :> Measured(TestBreadth(s), "craft.testing", 2)
  @@ "testWorkflow" :> Measured(TestWorkflow(s), "craft.testing", 2)
  @@ "fileSize" :> Measured(FileSize(s), "craft.maintainability", 1)
  @@ "ci" :> Measured(Ci(s), "craft.tooling", 2)
  @@ "lint" :> Measured(Lint(s), "craft.tooling", 1)
  @@ "typing" :> Measured(Typing(s), "craft.tooling", 1)
  @@ "build" :> Measured(Build(s), "craft.tooling", 1)
  @@ "automation" :> Measured(Automation(s), "craft.tooling", 1)
  @@ "organization" :> Measured(Organization(s), "craft.hygiene", 2)
  @@ "documentation" :> Measured(Documentation(s), "craft.hygiene", 1)
  @@ "dependencies" :> Measured(Dependencies(s), "craft.hygiene", 1)
  @@ "releaseHygiene" :> Measured(ReleaseHygiene(s), "craft.hygiene", 1)
  @@ "abandonment" :> Measured(Abandonment(s), "craft.hygiene", 1)
  @@ UnmeasurableInFastScan
=============================================================================
