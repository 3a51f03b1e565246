------------------------------ MODULE Mogsonas ------------------------------
(***************************************************************************)
(* The sixteen identities a profile can be given (identity/signals.ts,     *)
(* identity/mogsona-catalog.ts): what each needs measured, what evidence   *)
(* it cites, what blocks it, and how strong its signal is.                 *)
(***************************************************************************)
EXTENDS Scorecard

\* The mean of the categories that were scored, the level a profile is at.
Baseline(card) ==
  LET scores == {c \in DOMAIN card.category : card.category[c].score # None}
  IN IF scores = {} THEN 0
     ELSE HalfUp(10 * MapThenSumSet(LAMBDA c : card.category[c].score, scores),
                 Cardinality(scores))

\* The vector the definitions read; ratios of counts are ten-thousandths, the
\* releases per substantial project hundredths.
IdentitySignals(card) ==
  LET d == card.diagnostics
  IN Joined([m |-> [x \in DOMAIN card.metrics |-> card.metrics[x].ratio],
             confidence |-> card.confidence.score,
             baseline |-> Baseline(card),
             substantialRatio |-> Share(d.substantial, d.eligible),
             forkRatio |-> Share(d.forks, d.public),
             abandonmentDensity |-> Share(d.abandoned, d.substantial),
             releaseDensity |-> IF d.substantial = 0 THEN 0
                                ELSE HalfUp(100 * d.releases, d.substantial),
             days |-> Or(d.days, 3650)], d)

\* A one-dimension identity has to lead the baseline of the profile.
Leads(own, v) == own # None /\ own >= v.baseline + 800

Cadence(v) == Ramp(v.weeks, 3, ActiveWeekWindow - 1)
VerificationStack(v) ==
  Weighted(<<<<2, v.m.testsExist>>, <<1, v.m.testBreadth>>, <<2, v.m.testWorkflow>>>>)
ToolingStack(v) ==
  Weighted(<<<<2, v.m.ci>>, <<1, v.m.lint>>, <<1, v.m.typing>>, <<1, v.m.build>>,
             <<1, v.m.automation>>>>)

\* What most definitions share: two pieces of evidence, a confidence of 44, at
\* most the class rare, two qualifying signals.
Specialist(id, motif, required, cited, specificity, floor, blocked, signal) ==
  [id |-> id, motif |-> motif, required |-> required, cited |-> cited, least |-> 2,
   floor |-> floor, confidence |-> 44, specificity |-> specificity, highest |-> "rare",
   gate |-> FALSE, blocked |-> blocked, signal |-> signal, qualifying |-> 2]

-----------------------------------------------------------------------------
ArchivePaladin(v) ==
  Specialist("archive_paladin", "archive-honours", {"abandonment"},
             {"abandonment", "continuity"}, 90, 5000,
             v.archived < 3 \/ v.abandoned > 1 \/ v.abandonmentDensity > 3400
             \/ v.m.continuity < 6000,
             Weighted(<<<<3, Ramp(v.archived, 2, 5)>>, <<2, v.m.abandonment>>,
                        <<2, InverseRamp(v.abandonmentDensity, 0, 3400)>>,
                        <<2, v.m.continuity>>, <<1, v.m.recency>>>>))

CiEnjoyer(v) ==
  Specialist("ci_enjoyer", "ci-robots", {"ci"}, {"ci", "automation", "testWorkflow"}, 78, 6000,
             v.withCi < 2 \/ v.inspected < 2 \/ v.m.ci < 6000 \/ ~Leads(ToolingStack(v), v),
             Weighted(<<<<3, v.m.ci>>, <<2, Ramp(v.withCi, 1, 3)>>, <<2, ToolingStack(v)>>,
                        <<1, v.m.automation>>>>))

\* Cadence counts only when the commits can be read.
CommitGoblin(v) ==
  Specialist("commit_goblin", "active-weeks", {"activeWeeks", "commits"},
             {"activeWeeks", "commits", "recency"}, 76, 6000,
             \/ v.annualized < 120 \/ v.weeks < 8 \/ v.substantial < 1
             \/ v.sample > 0 /\ v.lowEffort > 2000
             \/ ~Leads(Weighted(<<<<2, v.m.commits>>, <<2, Cadence(v)>>, <<1, v.m.recency>>>>), v),
             Weighted(<<<<3, v.m.commits>>, <<3, Cadence(v)>>, <<2, v.m.recency>>,
                        <<1, v.m.substantialProjects>>>>))

MainBranchMenace(v) ==
  Specialist("main_branch_menace", "main-branch", {"messages", "recency"},
             {"messages", "repairLoops", "mergeHygiene", "recency"}, 68, 6000,
             \/ v.days > 30 \/ v.repair > 1500 \/ v.revert > 400 \/ v.lowEffort > 1200
             \/ v.substantial < 1
             \/ ~Leads(Weighted(<<<<2, v.m.messages>>, <<2, v.m.repairLoops>>,
                                  <<1, v.m.mergeHygiene>>>>), v),
             Weighted(<<<<3, v.m.messages>>, <<2, v.m.repairLoops>>, <<2, v.m.mergeHygiene>>,
                        <<2, v.m.recency>>, <<1, Ramp(v.sustained, 1, 4)>>>>))

MonorepoMaxxer(v) ==
  Specialist("monorepo_maxxer", "workspace", {"organization"},
             {"organization", "build", "automation"}, 89, 6000,
             v.monorepos < 1 \/ v.m.organization < 6000 \/ v.substantial < 1,
             Weighted(<<<<3, Ramp(v.monorepos, 0, 2)>>, <<2, v.m.organization>>,
                        <<2, ToolingStack(v)>>, <<1, v.m.build>>>>))

OneRepoFinalBoss(v) ==
  Specialist("one_repo_final_boss", "one-repo-carry", {"substantialProjects"},
             {"substantialProjects", "sustainedWork", "released"}, 92, 5500,
             \/ v.substantial > 2 \/ v.dominant < 7000 \/ v.inspected < 1
             \/ v.m.sustainedWork < 4000
             \/ v.releases < 2 /\ v.m.testsExist < 6000,
             Weighted(<<<<3, Ramp(v.dominant, 7000, 9700)>>, <<2, v.m.sustainedWork>>,
                        <<2, Ramp(v.releases, 1, 12)>>, <<1, VerificationStack(v)>>,
                        <<1, v.m.recency>>>>))

OssLandlord(v) ==
  Specialist("oss_landlord", "other-peoples-repos", {"external"},
             {"external", "continuity", "substantialProjects"}, 91, 5000,
             v.external < 2 \/ v.merged < 1 \/ v.substantial < 1 \/ ~Leads(v.m.external, v),
             Weighted(<<<<3, Ramp(v.external, 1, 6)>>, <<2, Ramp(v.merged, 1, 6)>>,
                        <<2, v.m.external>>, <<1, v.m.continuity>>>>))

PolyglotMaxxer(v) ==
  Specialist("polyglot_maxxer", "polyglot", {"substantialProjects"},
             {"substantialProjects", "sustainedWork"}, 93, 5500,
             v.deepLanguages < 4 \/ v.substantial < 3 \/ v.substantialRatio < 4000,
             Weighted(<<<<3, Ramp(v.deepLanguages, 2, 4)>>, <<3, v.m.substantialProjects>>,
                        <<2, v.m.sustainedWork>>, <<1, Ramp(v.substantial, 2, 6)>>>>))

ReleaseGoblin(v) ==
  Specialist("release_goblin", "release-cadence", {"released"},
             {"released", "releaseHygiene"}, 95, 5000,
             v.releaseRepos < 2 \/ v.releases < 6 \/ v.inspected < 2,
             Weighted(<<<<3, Ramp(v.releases, 5, 26)>>, <<2, Ramp(v.releaseDensity, 100, 600)>>,
                        <<2, Ramp(v.releaseRepos, 1, 3)>>, <<1, v.m.releaseHygiene>>>>))

RepoDad(v) ==
  [Specialist("repo_dad", "lights-still-on", {"continuity", "documentation"},
              {"continuity", "documentation", "abandonment", "dependencies", "organization"},
              96, 6000,
              v.substantial < 3 \/ v.m.continuity < 8000 \/ v.m.documentation < 7000
              \/ v.m.releaseHygiene < 3400 \/ v.abandoned > 1,
              Weighted(<<<<3, v.m.continuity>>, <<2, v.m.documentation>>, <<2, v.m.abandonment>>,
                         <<1, v.m.dependencies>>, <<1, v.m.organization>>,
                         <<1, InverseRamp(v.abandonmentDensity, 0, 4000)>>>>))
   EXCEPT !.confidence = 40]

\* The first fallback.
RepoGeneralist(v) ==
  [Specialist("repo_generalist", "identity-matchup", {},
              {"substantialProjects", "recency", "documentation", "organization", "testsExist",
               "ci", "continuity"}, 72, 0,
              v.inspected < 2 \/ v.confidence < 45 \/ v.dominant > 7500
              \/ v.abandonmentDensity > 4000,
              Ramp(v.baseline, 2000, 9000))
   EXCEPT !.confidence = 35, !.highest = "distinctive"]

\* The only identity that can be mythic.
ShipGoblin(v) ==
  [Specialist("ship_goblin", "shipping-gap", {"released", "substantialProjects"},
              {"released", "substantialProjects", "sustainedWork", "recency"}, 100, 5500,
              v.releases < 3 \/ v.substantial < 2 \/ v.days > 120,
              Weighted(<<<<3, Ramp(v.releases, 2, 14)>>, <<2, Ramp(v.substantial, 2, 5)>>,
                         <<2, v.m.recency>>, <<2, Ramp(v.sustained, 1, 4)>>, <<1, v.m.released>>>>))
   EXCEPT !.confidence = 40, !.highest = "mythic", !.qualifying = 3,
          !.gate = /\ v.releases >= 12 /\ v.releaseRepos >= 3 /\ v.substantial >= 4
                   /\ v.sustained >= 3 /\ v.days <= 21]

\* The last fallback: nothing blocks it and it needs no evidence.
StealthBuilder(v) ==
  [Specialist("stealth_builder", "stealth-mode", {},
              {"recency", "substantialProjects", "abandonment", "testsExist", "documentation"},
              0, 0, FALSE, 0)
   EXCEPT !.confidence = 0, !.least = 0, !.highest = "unrated", !.qualifying = 3]

StructureMerchant(v) ==
  [Specialist("structure_merchant", "layout", {"organization", "build"},
              {"organization", "build", "lint", "dependencies"}, 84, 6000,
              \/ v.m.organization < 7000 \/ v.substantial < 2 \/ v.m.substantialProjects < 5000
              \/ ~Leads(Weighted(<<<<2, v.m.organization>>, <<2, ToolingStack(v)>>,
                                   <<1, v.m.dependencies>>>>), v),
              Weighted(<<<<3, v.m.organization>>, <<2, ToolingStack(v)>>,
                         <<2, v.m.dependencies>>, <<1, v.m.fileSize>>,
                         <<1, v.m.substantialProjects>>>>))
   EXCEPT !.highest = "distinctive"]

SustainedGrinder(v) ==
  Specialist("sustained_grinder", "marathon", {"sustainedWork", "continuity"},
             {"sustainedWork", "continuity", "activeWeeks"}, 80, 6000,
             \/ v.sustained < 3 \/ v.m.sustainedWork < 7000 \/ v.m.continuity < 7000
             \/ ToolingStack(v) < 4000 \/ v.weeks < 5
             \/ ~Leads(Weighted(<<<<2, v.m.sustainedWork>>, <<2, v.m.continuity>>,
                                  <<1, Cadence(v)>>>>), v),
             Weighted(<<<<3, v.m.sustainedWork>>, <<2, v.m.continuity>>, <<2, Cadence(v)>>,
                        <<1, Ramp(v.sustained, 2, 6)>>>>))

TestPriest(v) ==
  Specialist("test_priest", "verification-stack", {"testsExist"},
             {"testsExist", "testBreadth", "testWorkflow", "ci"}, 82, 6000,
             \/ v.tested < 2 \/ v.inspected < 2 \/ v.m.testsExist < 6000
             \/ v.m.testWorkflow < 5000 /\ v.m.ci < 5000
             \/ ~Leads(VerificationStack(v), v),
             Weighted(<<<<3, v.m.testsExist>>, <<2, v.m.testBreadth>>, <<2, v.m.testWorkflow>>,
                        <<1, v.m.ci>>>>))

\* By ascending id, the order that breaks ties.
MogsonaCatalog(v) ==
  <<ArchivePaladin(v), CiEnjoyer(v), CommitGoblin(v), MainBranchMenace(v), MonorepoMaxxer(v),
    OneRepoFinalBoss(v), OssLandlord(v), PolyglotMaxxer(v), ReleaseGoblin(v), RepoDad(v),
    RepoGeneralist(v), ShipGoblin(v), StealthBuilder(v), StructureMerchant(v),
    SustainedGrinder(v), TestPriest(v)>>
=============================================================================
