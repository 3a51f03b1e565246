----------------------------- MODULE AuraLeaks ------------------------------
(***************************************************************************)
(* The twelve traits a profile can be teased for                           *)
(* (identity/aura-leak-catalog.ts).  An absent ratio is taken as the value *)
(* the code substitutes for it: 0 in most places, 1 where the definition   *)
(* must not fire on what was not measured.                                 *)
(***************************************************************************)
EXTENDS Mogsonas

CommitSampleFloor == 20

Leak(id, motif, severity, required, cited, least, floor, blocked, signal) ==
  [id |-> id, motif |-> motif, severity |-> severity, required |-> required, cited |-> cited,
   least |-> least, floor |-> floor, blocked |-> blocked, signal |-> signal]

CodeHermit(v) ==
  Leak("code_hermit", "other-peoples-repos", "light", {"external"},
       {"external", "substantialProjects"}, 1, 5000,
       v.external > 0 \/ v.merged > 0 \/ v.substantial < 2 \/ v.annualized < 40,
       Weighted(<<<<3, Ramp(v.annualized, 30, 200)>>, <<2, Ramp(v.substantial, 1, 5)>>,
                  <<2, InverseRamp(Or(v.m.external, 0), 0, 4000)>>>>))

CommitChaos(v) ==
  Leak("commit_chaos", "commit-crime-board", "notable", {"messages"},
       {"messages", "mergeHygiene"}, 1, 5000,
       v.sample < CommitSampleFloor \/ v.lowEffort < 3000,
       Weighted(<<<<3, Ramp(v.lowEffort, 2500, 7000)>>,
                  <<2, InverseRamp(Or(v.m.messages, 0), 0, 6000)>>,
                  <<1, Ramp(v.revert, 0, 1200)>>>>))

FixLoopEnjoyer(v) ==
  Leak("fix_loop_enjoyer", "fix-loop", "notable", {"repairLoops"},
       {"repairLoops", "mergeHygiene"}, 1, 5000,
       v.sample < CommitSampleFloor \/ v.repair < 2500,
       Weighted(<<<<3, Ramp(v.repair, 2000, 5500)>>, <<2, Ramp(v.revert, 0, 1500)>>,
                  <<1, Ramp(v.sample, 20, 60)>>>>))

ForkliftOperator(v) ==
  Leak("forklift_operator", "fork-composition", "light", {"substantialProjects"},
       {"substantialProjects"}, 1, 5000,
       v.public < 6 \/ v.forkRatio < 5000 \/ v.substantial > 2,
       Weighted(<<<<3, Ramp(v.forkRatio, 4500, 8500)>>, <<2, Ramp(v.forks, 2, 12)>>,
                  <<2, InverseRamp(v.substantial, 0, 3)>>>>))

FrameworkTourist(v) ==
  Leak("framework_tourist", "polyglot-tourism", "light", {"substantialProjects"},
       {"substantialProjects", "sustainedWork"}, 1, 5500,
       v.languages < 4 \/ v.deepLanguages >= 3 \/ v.substantialRatio > 4000
       \/ v.m.sustainedWork > 5000,
       Weighted(<<<<3, Ramp(v.languages, 3, 7)>>, <<2, InverseRamp(v.deepLanguages, 0, 3)>>,
                  <<2, InverseRamp(Or(v.m.sustainedWork, 0), 0, 5000)>>,
                  <<1, InverseRamp(v.substantialRatio, 500, 4000)>>>>))

LocalhostMillionaire(v) ==
  Leak("localhost_millionaire", "yaml-discipline", "light", {"build", "released"},
       {"build", "lint", "released"}, 2, 5500,
       \/ v.releases > 0 \/ v.m.build < 7000 \/ v.m.lint < 7000 \/ v.m.typing < 7000
       \/ v.m.testsExist < 3400 \/ v.substantial < 1 \/ v.external > 1,
       Weighted(<<<<3, Weighted(<<<<2, v.m.build>>, <<1, v.m.lint>>, <<1, v.m.typing>>,
                                  <<1, v.m.dependencies>>>>)>>,
                  <<2, InverseRamp(v.releases, 0, 2)>>,
                  <<2, InverseRamp(Or(v.m.external, 0), 0, 5000)>>,
                  <<1, Ramp(v.substantial, 0, 3)>>>>))

ReadmeCeo(v) ==
  Leak("readme_ceo", "readme-alibi", "notable", {"documentation", "released"},
       {"documentation", "released"}, 2, 5500,
       v.releases > 0 \/ v.m.documentation < 7500 \/ v.substantial < 1,
       Weighted(<<<<3, v.m.documentation>>, <<2, InverseRamp(v.releases, 0, 2)>>,
                  <<2, InverseRamp(Or(v.m.testsExist, 0), 0, 6000)>>,
                  <<1, Ramp(v.substantial, 0, 3)>>>>))

ReleaseAvoider(v) ==
  Leak("release_avoider", "release-avoidance", "notable", {"releaseHygiene"},
       {"releaseHygiene", "released"}, 1, 3500,
       v.releases > 0 \/ v.substantial < 2 \/ Or(v.m.releaseHygiene, One) > 0
       \/ v.abandonmentDensity >= 4000,
       Weighted(<<<<3, Ramp(v.substantial, 2, 6)>>, <<2, Ramp(v.sustained, 1, 4)>>,
                  <<2, InverseRamp(v.abandonmentDensity, 0, 4000)>>>>))

RepoGraveyard(v) ==
  Leak("repo_graveyard", "graveyard", "critical", {"abandonment"},
       {"abandonment", "continuity"}, 1, 5500,
       v.abandoned < 3 \/ v.abandonmentDensity < 4000,
       Weighted(<<<<3, Ramp(v.abandoned, 2, 7)>>, <<3, Ramp(v.abandonmentDensity, 3000, 8000)>>,
                  <<1, InverseRamp(Or(v.m.continuity, 0), 0, 6000)>>>>))

SidequestCollector(v) ==
  Leak("sidequest_collector", "repo-confetti", "notable", {"substantialProjects"},
       {"substantialProjects", "abandonment"}, 1, 5500,
       v.eligible < 8 \/ v.substantialRatio > 3400
       \/ v.archived >= Max({3, HalfUp(4 * v.eligible, 10)}),
       Weighted(<<<<3, Ramp(v.eligible - v.substantial, 4, 14)>>,
                  <<3, InverseRamp(v.substantialRatio, 500, 3400)>>,
                  <<1, Ramp(v.abandonmentDensity, 0, 5000)>>,
                  <<1, InverseRamp(Or(v.m.substantialProjects, 0), 2000, 8000)>>>>))

SinglePointOfAura(v) ==
  Leak("single_point_of_aura", "one-repo-carry", "light", {"substantialProjects"},
       {"substantialProjects", "sustainedWork"}, 1, 5000,
       \/ v.dominant < 8000 \/ v.substantial > 2
       \/ (v.releases >= 2 \/ v.m.testsExist >= 6000) /\ v.m.sustainedWork >= 4000,
       Weighted(<<<<3, Ramp(v.dominant, 7500, 9900)>>, <<2, InverseRamp(v.substantial, 0, 3)>>,
                  <<2, InverseRamp(Or(v.m.sustainedWork, 0), 0, 5000)>>>>))

YamlEngineer(v) ==
  Leak("yaml_engineer", "yaml-discipline", "light", {"ci", "substantialProjects"},
       {"ci", "automation"}, 1, 5500,
       \/ v.m.ci < 7000 \/ Or(v.m.testsExist, One) > 2000 \/ v.releases > 0
       \/ Or(v.m.organization, One) > 7000 \/ v.m.automation < 5000,
       Weighted(<<<<3, v.m.ci>>, <<2, InverseRamp(Or(v.m.testsExist, 0), 0, 2000)>>,
                  <<2, InverseRamp(Or(v.m.organization, 0), 3000, 7000)>>,
                  <<1, v.m.automation>>>>))

\* By ascending id.
LeakCatalog(v) ==
  <<CodeHermit(v), CommitChaos(v), FixLoopEnjoyer(v), ForkliftOperator(v), FrameworkTourist(v),
    LocalhostMillionaire(v), ReadmeCeo(v), ReleaseAvoider(v), RepoGraveyard(v),
    SidequestCollector(v), SinglePointOfAura(v), YamlEngineer(v)>>
=============================================================================
