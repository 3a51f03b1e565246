--------------------------- MODULE MemeTemplates ----------------------------
(***************************************************************************)
(* The 156 lines a battle can be told with (meme/templates.ts): the place  *)
(* a line is for, the atoms it can phrase, its motif (the joke), and the   *)
(* category a round line is restricted to.  The wording is left out, so    *)
(* lines that differ in nothing else are one entry with its number of      *)
(* copies.                                                                 *)
(***************************************************************************)
EXTENDS Integers

\* Rows are <<id, atoms, motif>>.
Phrased(slot, rows) ==
  {[id |-> r[1], slot |-> slot, atoms |-> r[2], motif |-> r[3], category |-> "any",
    copies |-> 1] : r \in rows}
PhrasedFor(category, rows) == {[t EXCEPT !.category = category] : t \in Phrased("round", rows)}

MatchupsOfCraft ==
  Phrased("matchup", {
    <<"mat.tests.receipts", {"tests_gap"}, "tests-versus-faith">>,
    <<"mat.verification.stack", {"verification_stack"}, "verification-stack">>,
    <<"mat.ci.pipeline", {"ci_gap"}, "works-on-my-machine">>,
    <<"mat.release.versions", {"release_gap"}, "versions-versus-intentions">>,
    <<"mat.recency.current", {"recent_activity_gap"}, "currently-building">>,
    <<"mat.maintenance.lights", {"strong_maintenance"}, "lights-still-on">>,
    <<"mat.sustained.marathon", {"sustained_work_gap"}, "marathon">>,
    <<"mat.external.upstream", {"external_project_activity"}, "other-peoples-repos">>})

MatchupsOfConduct ==
  Phrased("matchup", {
    <<"mat.commit.manners", {"commit_manners_gap"}, "commit-shorthand">>,
    <<"mat.repair.loop", {"repair_loop_gap"}, "fix-loop">>,
    <<"mat.mainbranch.witness", {"main_branch_behavior"}, "main-branch">>,
    <<"mat.oneboss.loadbearing", {"one_repo_final_boss"}, "one-repo-carry">>,
    <<"mat.identity.card", {"identity_matchup"}, "identity-matchup">>,
    <<"mat.identity.class", {"identity_matchup"}, "identity-matchup">>,
    <<"mat.ship.lore", {"ship_to_yap_gap"}, "releases-versus-lore">>,
    <<"mat.activity.mileage", {"activity_without_shipping"}, "keyboard-mileage">>})

\* Mutant: the scoreline is no matchup line.
MatchupsWithoutBoard ==
  Phrased("matchup", {
    <<"mat.graveyard.permits", {"repo_graveyard_density"}, "graveyard">>,
    <<"mat.onerepo.bloodline", {"one_repo_carry"}, "one-repo-carry">>,
    <<"mat.commit.groupchat", {"commit_chaos"}, "commit-shorthand">>,
    <<"mat.substance.ratio", {"substance_ratio_gap"}, "substance-ratio">>,
    <<"mat.evidence.camera", {"public_evidence_diff"}, "coverage-caveat">>})

MatchupsOfScale ==
  Phrased("matchup", {
    <<"mat.graveyard.permits", {"repo_graveyard_density"}, "graveyard">>,
    <<"mat.onerepo.bloodline", {"one_repo_carry"}, "one-repo-carry">>,
    <<"mat.commit.groupchat", {"commit_chaos"}, "commit-shorthand">>,
    <<"mat.substance.ratio", {"substance_ratio_gap"}, "substance-ratio">>,
    <<"mat.evidence.camera", {"public_evidence_diff"}, "coverage-caveat">>,
    <<"mat.margin.board", {"verdict_margin"}, "scoreline">>})

FinishersOfTooling ==
  Phrased("finisher", {
    <<"fin.tests.confidence", {"tests_gap"}, "tests-versus-faith">>,
    <<"fin.tests.coverage", {"tests_gap"}, "test-coverage-numbers">>,
    <<"fin.tests.faith", {"tests_gap"}, "faith-based-deploy">>,
    <<"fin.verification.stack", {"verification_stack"}, "verification-stack">>,
    <<"fin.ci.trustissues", {"ci_gap"}, "ci-robots">>,
    <<"fin.ci.works", {"ci_gap"}, "works-on-my-machine">>,
    <<"fin.yaml.discipline", {"tooling_without_output"}, "yaml-discipline">>})

FinishersOfShipping ==
  Phrased("finisher", {
    <<"fin.release.intentions", {"release_gap"}, "versions-versus-intentions">>,
    <<"fin.release.count", {"release_gap"}, "release-count">>,
    <<"fin.release.density", {"release_density_gap"}, "release-cadence">>,
    <<"fin.ship.lore", {"ship_to_yap_gap"}, "releases-versus-lore">>,
    <<"fin.recency.months", {"recent_activity_gap"}, "last-push-age">>,
    <<"fin.recency.grindset", {"recent_activity_gap"}, "currently-building">>,
    <<"fin.activity.mileage", {"activity_without_shipping"}, "keyboard-mileage">>})

FinishersOfProjects ==
  Phrased("finisher", {
    <<"fin.abandoned.sidequests", {"abandoned_project_gap"}, "graveyard">>,
    <<"fin.abandoned.finished", {"abandoned_project_gap"}, "graveyard">>,
    <<"fin.graveyard.zoning", {"repo_graveyard_density"}, "graveyard">>,
    <<"fin.substance.pile", {"repo_count_without_substance"}, "repo-confetti">>,
    <<"fin.languages.committed", {"polyglot_with_depth"}, "polyglot">>,
    <<"fin.concentration.portfolio", {"impact_concentration"}, "property-portfolio">>,
    <<"fin.oneRepo.boss", {"one_repo_final_boss"}, "one-repo-carry">>})

FinishersOfUpkeep ==
  Phrased("finisher", {
    <<"fin.docs.alibi", {"docs_without_shipping"}, "readme-alibi">>,
    <<"fin.forks.certified", {"high_fork_ratio"}, "fork-composition">>,
    <<"fin.maintenance.lights", {"strong_maintenance"}, "lights-still-on">>,
    <<"fin.external.rooms", {"external_project_activity"}, "other-peoples-repos">>,
    <<"fin.release.avoidance", {"release_avoidance"}, "release-avoidance">>,
    <<"fin.messages.manners", {"commit_manners_gap"}, "commit-shorthand">>,
    <<"fin.commit.crimeboard", {"commit_chaos"}, "commit-crime-board">>})

FinishersOfCadence ==
  Phrased("finisher", {
    <<"fin.repair.loop", {"repair_loop_gap"}, "fix-loop">>,
    <<"fin.mainbranch.witness", {"main_branch_behavior"}, "main-branch">>,
    <<"fin.sustained.marathon", {"sustained_work_gap"}, "marathon">>,
    <<"fin.structure.blueprint", {"structure_gap"}, "layout">>,
    <<"fin.grindset.weeks", {"grindset_gap"}, "active-weeks">>,
    <<"fin.nuclear.execution", {"nuclear_gap"}, "nuclear-margin">>,
    <<"fin.nuclear.scoreline", {"nuclear_gap"}, "scoreline">>})

FinishersOfContrast ==
  Phrased("finisher", {
    <<"fin.coverage.tests", {"tests_gap"}, "tests-versus-hope">>,
    <<"fin.coverage.ci", {"ci_gap"}, "automation-versus-manual">>,
    <<"fin.coverage.structure", {"structure_gap"}, "structure-versus-sprawl">>,
    <<"fin.maintenance.mainbranch", {"strong_maintenance", "sustained_work_gap"}, "maintains-versus-accumulates">>,
    <<"fin.external.landlord", {"external_project_activity", "impact_concentration"}, "landlord-with-tenants">>})

FirstTieFinishers ==
  Phrased("finisher", {
    <<"tie.mutual", {"photo_finish"}, "mutual-aura">>,
    <<"tie.photofinish", {"photo_finish"}, "photo-finish">>,
    <<"tie.receipts", {"photo_finish"}, "equal-receipts">>,
    <<"tie.samegym", {"photo_finish"}, "same-gym">>,
    <<"tie.nowinner", {"photo_finish"}, "no-winner">>})

SecondTieFinishers ==
  Phrased("finisher", {
    <<"tie.margin", {"photo_finish"}, "rounding-error">>,
    <<"tie.deeper", {"photo_finish"}, "needs-source-review">>,
    <<"tie.respect", {"photo_finish"}, "mutual-respect">>,
    <<"tie.rematch", {"photo_finish"}, "one-push-flips-it">>,
    <<"tie.evidence", {"photo_finish"}, "read-the-rounds">>})

RoundsOfCraft ==
       PhrasedFor("craft.testing", {
         <<"rnd.testing.clear", {"round_clear_win"}, "round-testing">>,
         <<"rnd.testing.close", {"round_close_win"}, "round-testing">>,
         <<"rnd.verification.stack", {"verification_stack"}, "verification-stack">>})
  \cup PhrasedFor("ship.frequency", {
         <<"rnd.frequency.clear", {"round_clear_win"}, "round-frequency">>,
         <<"rnd.frequency.close", {"round_close_win"}, "round-frequency">>})
  \cup PhrasedFor("craft.tooling", {
         <<"rnd.tooling.clear", {"round_clear_win"}, "round-tooling">>,
         <<"rnd.tooling.close", {"round_close_win"}, "round-tooling">>})
  \cup PhrasedFor("craft.hygiene", {
         <<"rnd.hygiene.clear", {"round_clear_win"}, "round-hygiene">>,
         <<"rnd.hygiene.close", {"round_close_win"}, "round-hygiene">>})
  \cup PhrasedFor("ship.breadth", {
         <<"rnd.breadth.clear", {"round_clear_win"}, "round-breadth">>})

RoundsOfShipping ==
       PhrasedFor("ship.breadth", {
         <<"rnd.breadth.close", {"round_close_win"}, "round-breadth">>})
  \cup PhrasedFor("ship.substance", {
         <<"rnd.substance.clear", {"round_clear_win"}, "round-substance">>,
         <<"rnd.substance.close", {"round_close_win"}, "round-substance">>,
         <<"rnd.substance.ratio", {"substance_ratio_gap"}, "substance-ratio">>,
         <<"rnd.substance.carry", {"one_repo_carry"}, "one-repo-carry">>})
  \cup PhrasedFor("ship.discipline", {
         <<"rnd.discipline.clear", {"round_clear_win"}, "round-discipline">>,
         <<"rnd.discipline.close", {"round_close_win"}, "round-discipline">>,
         <<"rnd.discipline.mainbranch", {"main_branch_behavior"}, "main-branch">>})
  \cup PhrasedFor("craft.maintainability", {
         <<"rnd.structure.clear", {"round_clear_win"}, "round-structure">>})

RoundsOfStructure ==
       PhrasedFor("craft.maintainability", {
         <<"rnd.structure.close", {"round_close_win"}, "round-structure">>})
  \cup PhrasedFor("craft.hygiene", {
         <<"rnd.hygiene.workspace", {"monorepo_operating_system"}, "workspace">>,
         <<"rnd.hygiene.archive", {"archive_discipline"}, "archive-honours">>})
  \cup PhrasedFor("any", {
         <<"rnd.generic.clear", {"round_clear_win"}, "round-generic">>,
         <<"rnd.generic.close", {"round_close_win"}, "round-generic">>,
         <<"rnd.generic.tie", {"round_tie"}, "round-level">>,
         <<"rnd.tie.split", {"round_tie"}, "round-split">>})
  \cup PhrasedFor("craft.testing", {
         <<"rnd.testing.tie", {"round_tie"}, "round-testing-level">>})
  \cup PhrasedFor("ship.frequency", {
         <<"rnd.frequency.tie", {"round_tie"}, "round-frequency-level">>})

StrengthsOfProjects ==
  Phrased("strength", {
    <<"str.maintenance", {"strong_maintenance"}, "lights-still-on">>,
    <<"str.external", {"external_project_activity"}, "other-peoples-repos">>,
    <<"str.oneRepo", {"one_repo_final_boss"}, "one-repo-carry">>,
    <<"str.sustained", {"sustained_work_gap"}, "marathon">>,
    <<"str.structure", {"structure_gap"}, "layout">>,
    <<"str.workspace", {"monorepo_operating_system"}, "workspace">>,
    <<"str.coverage", {"high_tree_coverage"}, "full-coverage">>,
    <<"str.archive", {"archive_discipline"}, "archive-honours">>,
    <<"str.grindset", {"grindset_gap"}, "active-weeks">>,
    <<"str.tests", {"tests_gap"}, "test-coverage-numbers">>})

StrengthsOfPractice ==
  Phrased("strength", {
    <<"str.verification", {"verification_stack"}, "verification-stack">>,
    <<"str.ci", {"ci_gap"}, "ci-robots">>,
    <<"str.releases", {"release_gap"}, "release-count">>,
    <<"str.releaseCadence", {"release_density_gap"}, "release-cadence">>,
    <<"str.mainbranch", {"main_branch_behavior"}, "main-branch">>,
    <<"str.polyglot", {"polyglot_with_depth"}, "polyglot">>,
    <<"str.concentration", {"impact_concentration"}, "property-portfolio">>})

WeaknessesOfProjects ==
  Phrased("weakness", {
    <<"wk.abandoned", {"abandoned_project_gap"}, "graveyard">>,
    <<"wk.graveyard", {"repo_graveyard_density"}, "graveyard">>,
    <<"wk.substance", {"repo_count_without_substance"}, "repo-confetti">>,
    <<"wk.docs", {"docs_without_shipping"}, "readme-alibi">>,
    <<"wk.forks", {"high_fork_ratio"}, "fork-composition">>,
    <<"wk.releases", {"release_avoidance"}, "release-avoidance">>,
    <<"wk.messages", {"commit_manners_gap"}, "commit-shorthand">>,
    <<"wk.chaos", {"commit_chaos"}, "commit-crime-board">>,
    <<"wk.repairs", {"repair_loop_gap"}, "fix-loop">>,
    <<"wk.tests", {"tests_gap"}, "faith-based-deploy">>})

WeaknessesOfPractice ==
  Phrased("weakness", {
    <<"wk.ci", {"ci_gap"}, "works-on-my-machine">>,
    <<"wk.yaml", {"tooling_without_output"}, "yaml-discipline">>,
    <<"wk.recency", {"recent_activity_gap"}, "last-push-age">>,
    <<"wk.activity", {"activity_without_shipping"}, "keyboard-mileage">>,
    <<"wk.structure", {"structure_gap"}, "layout">>,
    <<"wk.polyglot", {"polyglot_without_depth"}, "polyglot-tourism">>,
    <<"wk.carry", {"one_repo_carry"}, "one-repo-carry">>,
    <<"wk.mismatch", {"confidence_mismatch"}, "score-versus-coverage">>,
    <<"wk.evidence", {"low_public_evidence"}, "stealth-mode">>})

\* Eight phrasings of one caveat, told apart by nothing but their words.
LowEvidence ==
  {[t EXCEPT !.copies = 8] : t \in
     Phrased("low-evidence", {<<"low", {"low_public_evidence"}, "stealth-mode">>})}

SummariesOfTheBoard ==
  Phrased("summary", {
    <<"sum.scoreline", {"verdict_margin"}, "grade-line">>,
    <<"sum.basis", {"verdict_margin"}, "measured-basis">>,
    <<"sum.confidence", {"verdict_margin"}, "confidence-cap">>,
    <<"sum.margin", {"verdict_margin"}, "margin-traceable">>,
    <<"sum.receipts", {"verdict_margin"}, "receipts">>})

SummariesOfEvidence ==
  Phrased("summary", {
    <<"sum.nuclear", {"nuclear_gap"}, "nuclear-margin">>,
    <<"sum.photofinish", {"photo_finish"}, "rounding-error">>,
    <<"sum.lowevidence", {"low_public_evidence"}, "stealth-mode">>,
    <<"sum.evidencediff", {"public_evidence_diff"}, "camera-quality">>,
    <<"sum.mismatch", {"confidence_mismatch"}, "score-versus-coverage">>,
    <<"sum.graveyard", {"repo_graveyard_density"}, "graveyard">>,
    <<"sum.substance", {"substance_ratio_gap"}, "substance-ratio">>})

MemeTemplates ==
  UNION {MatchupsOfCraft, MatchupsOfConduct, MatchupsOfScale, FinishersOfTooling,
         FinishersOfShipping, FinishersOfProjects, FinishersOfUpkeep,
         FinishersOfCadence, FinishersOfContrast, FirstTieFinishers,
         SecondTieFinishers, RoundsOfCraft, RoundsOfShipping, RoundsOfStructure,
         StrengthsOfProjects, StrengthsOfPractice, WeaknessesOfProjects,
         WeaknessesOfPractice, LowEvidence, SummariesOfTheBoard, SummariesOfEvidence}
=============================================================================
