----------------------------- MODULE MemeAtoms ------------------------------
(***************************************************************************)
(* The facts a battle can be told about (meme/atoms.ts): one operator per  *)
(* atom, over the views of the two profiles, the subject and the opponent. *)
(* An atom has an intensity, in ten-thousandths, or None when it does not  *)
(* fire; an atom that does not fire can never be phrased.                  *)
(***************************************************************************)
EXTENDS Identity

\* What the atoms read of a scorecard.
View(card) ==
  Joined([overall |-> card.overall, analyzed |-> card.confidence.analyzed,
          coverage |-> card.confidence.coverage], IdentitySignals(card))

Everywhere == {"finisher", "round", "strength", "weakness", "summary", "matchup"}

Atom(id, slots, priority, theme, intensity) ==
  [id |-> id, slots |-> slots, priority |-> priority, theme |-> theme,
   intensity |-> intensity, repetitions |-> 1, spicy |-> FALSE]

\* Not said in the clean mode.
Spicy(atom) == [atom EXCEPT !.spicy = TRUE]

When(condition, intensity) == IF condition THEN intensity ELSE None

\* Both measured, mine high, theirs low, and far enough apart.
RatioGap(mine, theirs, least, most, apart) ==
  When(mine # None /\ theirs # None /\ mine >= least /\ theirs <= most /\ mine - theirs >= apart,
       mine - theirs)

-----------------------------------------------------------------------------
AbandonedProjectGap(s, o) ==
  Atom("abandoned_project_gap", Everywhere \ {"strength", "matchup"}, 64, "repo-graveyard",
       When(o.abandoned >= 2 /\ o.abandoned - s.abandoned >= 2, (o.abandoned - s.abandoned) * One))

ActivityWithoutShipping(s, o) ==
  Atom("activity_without_shipping", {"finisher", "weakness", "summary", "matchup"}, 53, "grindset",
       When(/\ o.m.substantialProjects # None /\ o.m.substantialProjects <= 4500
            /\ o.weeks >= 6 /\ o.releases = 0, o.weeks * One))

ArchiveDiscipline(s, o) ==
  Atom("archive_discipline", {"strength", "summary", "round"}, 50, "maintenance",
       When(s.archived >= 3 /\ s.abandoned <= 1, s.archived * One))

CiGap(s, o) ==
  Atom("ci_gap", Everywhere, 66, "tooling", RatioGap(s.m.ci, o.m.ci, 6000, 2500, 3500))

CommitChaosAtom(s, o) ==
  Spicy(Atom("commit_chaos", {"finisher", "weakness", "summary", "matchup"}, 60,
             "commit-discipline",
             When(o.sample >= 20 /\ o.lowEffort >= 3500, o.lowEffort + o.revert)))

CommitMannersGap(s, o) ==
  Atom("commit_manners_gap", Everywhere \ {"strength"}, 58, "commit-discipline",
       When(/\ s.m.messages # None /\ o.m.messages # None
            /\ o.lowEffort >= 2500 /\ s.lowEffort <= 1200, o.lowEffort))

ConfidenceMismatch(s, o) ==
  Atom("confidence_mismatch", {"summary", "weakness"}, 44, "low-evidence",
       When(o.overall >= 70 /\ o.confidence < 50, (o.overall - o.confidence) * One))

DocsWithoutShipping(s, o) ==
  Spicy(Atom("docs_without_shipping", {"finisher", "weakness", "summary"}, 50, "shipping",
             When(o.m.documentation >= 8000 /\ o.releases = 0 /\ o.m.testsExist <= 2500,
                  o.m.documentation)))

ExternalProjectActivity(s, o) ==
  Atom("external_project_activity", Everywhere \ {"weakness"}, 50, "open-source",
       When(s.external >= 2 /\ s.external - o.external >= 2, (s.external - o.external) * One))

GrindsetGap(s, o) ==
  Atom("grindset_gap", Everywhere \ {"weakness", "matchup"}, 50, "grindset",
       When(s.weeks >= 6 /\ s.weeks - o.weeks >= 3, (s.weeks - o.weeks) * One))

HighForkRatio(s, o) ==
  Spicy(Atom("high_fork_ratio", {"finisher", "weakness", "summary"}, 50, "shipping",
             When(o.public >= 6 /\ o.forkRatio >= 5000, o.forkRatio)))

HighTreeCoverage(s, o) ==
  Atom("high_tree_coverage", {"strength", "summary"}, 25, "balanced",
       When(s.coverage >= One /\ s.analyzed >= 3, s.coverage))

IdentityMatchup(s, o) == Atom("identity_matchup", {"matchup"}, 30, "balanced", 0)

ImpactConcentration(s, o) ==
  Atom("impact_concentration", Everywhere \ {"weakness", "matchup"}, 50, "shipping",
       When(s.substantial >= 4 /\ o.substantial <= 1 /\ s.substantial - o.substantial >= 3,
            (s.substantial - o.substantial) * One))

\* Mutant: both signs of thin evidence are needed.
LowPublicEvidenceBoth(s, o) ==
  [Atom("low_public_evidence", {"low-evidence", "summary", "weakness"}, 95, "low-evidence",
        When(o.confidence < 45 /\ o.analyzed < 2, (45 - o.confidence) * One))
   EXCEPT !.repetitions = 2]

\* Its claim is about the opponent, like every claim of a negative slot.
LowPublicEvidence(s, o) ==
  [Atom("low_public_evidence", {"low-evidence", "summary", "weakness"}, 95, "low-evidence",
        When(o.confidence < 45 \/ o.analyzed < 2, (45 - o.confidence) * One))
   EXCEPT !.repetitions = 2]

MainBranchBehavior(s, o) ==
  Atom("main_branch_behavior", Everywhere \ {"weakness"}, 49, "commit-discipline",
       When(/\ s.m.messages >= 7500 /\ s.m.repairLoops # None /\ s.days <= 30
            /\ s.repair <= 1500 /\ s.revert <= 400, s.m.messages))

MonorepoOperatingSystem(s, o) ==
  Atom("monorepo_operating_system", {"strength", "round", "summary"}, 50, "tooling",
       When(s.m.organization >= 6000 /\ s.monorepos >= 1, s.m.organization))

\* The atom asks for no sustained work, unlike the identity of the same name.
OneRepoFinalBossAtom(s, o) ==
  Atom("one_repo_final_boss", {"finisher", "strength", "summary", "matchup"}, 50, "one-repo",
       When(/\ s.substantial <= 2 /\ s.dominant >= 7000
            /\ s.releases >= 2 \/ s.m.testsExist >= 6000, s.dominant))

OneRepoCarry(s, o) ==
  Atom("one_repo_carry", {"round", "summary", "weakness", "matchup"}, 51, "one-repo",
       When(/\ o.dominant >= 8000 /\ o.substantial <= 2
            /\ ~(o.m.sustainedWork >= 5000 /\ o.releases >= 2), o.dominant))

PolyglotWithDepth(s, o) ==
  Atom("polyglot_with_depth", Everywhere \ {"weakness", "matchup"}, 50, "balanced",
       When(s.deepLanguages >= 3 /\ s.deepLanguages - o.deepLanguages >= 2 /\ s.substantial >= 2,
            (s.deepLanguages - o.deepLanguages) * One))

PolyglotWithoutDepth(s, o) ==
  Atom("polyglot_without_depth", {"weakness", "summary"}, 47, "balanced",
       When(/\ o.m.sustainedWork # None /\ o.m.sustainedWork <= 5000
            /\ o.languages >= 4 /\ o.deepLanguages < 3, (o.languages - o.deepLanguages) * One))

PublicEvidenceDiff(s, o) ==
  Atom("public_evidence_diff", {"summary", "matchup"}, 42, "low-evidence",
       When(s.confidence - o.confidence >= 15, (s.confidence - o.confidence) * One))

RecentActivityGap(s, o) ==
  Atom("recent_activity_gap", Everywhere \ {"strength"}, 62, "grindset",
       When(s.days <= 30 /\ o.days >= 180 /\ o.days # 3650, (o.days - s.days) * One))

ReleaseAvoidance(s, o) ==
  Atom("release_avoidance", Everywhere \ {"strength", "matchup"}, 50, "shipping",
       When(o.m.releaseHygiene = 0 /\ o.substantial >= 2, One))

ReleaseDensityGap(s, o) ==
  Atom("release_density_gap", Everywhere \ {"weakness", "matchup"}, 55, "shipping",
       When(s.releases >= 6 /\ s.releaseRepos >= 2 /\ s.releases - o.releases >= 4,
            HalfUp(s.releases * One, Max({1, s.substantial}))))

ReleaseGap(s, o) ==
  Atom("release_gap", Everywhere \ {"weakness"}, 68, "shipping",
       When(s.releases >= 2 /\ o.releases = 0, s.releases * One))

RepairLoopGap(s, o) ==
  Atom("repair_loop_gap", Everywhere \ {"strength"}, 56, "commit-discipline",
       When(o.m.repairLoops # None /\ o.repair >= 2500 /\ s.repair <= 1500, o.repair))

RepoCountWithoutSubstance(s, o) ==
  Atom("repo_count_without_substance", {"finisher", "weakness", "summary"}, 50, "shipping",
       When(o.eligible >= 8 /\ o.substantialRatio < 3500, (o.eligible - o.substantial) * One))

RepoGraveyardDensity(s, o) ==
  Atom("repo_graveyard_density", {"finisher", "weakness", "summary", "matchup"}, 65,
       "repo-graveyard",
       When(o.abandoned >= 3 /\ o.abandonmentDensity >= 4000, o.abandonmentDensity))

ShipToYapGap(s, o) ==
  Atom("ship_to_yap_gap", {"finisher", "summary", "matchup"}, 69, "shipping",
       When(o.m.documentation >= 6000 /\ s.releases >= 3 /\ o.releases = 0, s.releases * One))

StrongMaintenance(s, o) ==
  Atom("strong_maintenance", Everywhere \ {"weakness"}, 50, "maintenance",
       When(s.m.continuity >= 8000 /\ s.substantial >= 3, s.m.continuity))

StructureGap(s, o) ==
  Atom("structure_gap", Everywhere \ {"matchup"}, 50, "tooling",
       RatioGap(s.m.organization, o.m.organization, 8000, 5000, 3000))

SubstanceRatioGap(s, o) ==
  Atom("substance_ratio_gap", {"round", "summary", "matchup"}, 48, "shipping",
       When(/\ s.eligible >= 3 /\ s.substantialRatio >= 6000
            /\ s.substantialRatio - o.substantialRatio >= 3000,
            s.substantialRatio - o.substantialRatio))

SustainedWorkGap(s, o) ==
  Atom("sustained_work_gap", Everywhere \ {"weakness"}, 50, "maintenance",
       RatioGap(s.m.sustainedWork, o.m.sustainedWork, 6000, One, 4000))

TestsGap(s, o) ==
  Atom("tests_gap", Everywhere, 70, "testing",
       RatioGap(s.m.testsExist, o.m.testsExist, 6000, 2500, 3500))

ToolingWithoutOutput(s, o) ==
  Spicy(Atom("tooling_without_output", {"finisher", "weakness", "summary"}, 52, "tooling",
             When(/\ o.m.ci >= 7000 /\ o.releases <= 1
                  /\ o.m.substantialProjects # None /\ o.m.substantialProjects <= 4500,
                  o.m.ci - o.m.substantialProjects)))

VerificationStackAtom(s, o) ==
  Atom("verification_stack", Everywhere \ {"weakness"}, 54, "testing",
       When(s.m.testsExist >= 7000 /\ s.m.testWorkflow >= 6000 /\ s.inspected >= 2,
            (s.m.testsExist + s.m.testWorkflow) \div 2))

\* The atoms about the margin, in tenths: of the round for a round, of the battle
\* for everything else.
PhotoFinish(margin) ==
  Atom("photo_finish", {"finisher", "summary"}, 35, "balanced",
       When(margin <= 20, (20 - margin) * (One \div 10)))
NuclearGap(margin) ==
  Atom("nuclear_gap", {"finisher", "summary"}, 40, "balanced",
       When(margin >= 200, margin * (One \div 10)))
VerdictMargin(margin) ==
  [Atom("verdict_margin", {"finisher", "summary", "matchup"}, 5, "balanced", 0)
   EXCEPT !.repetitions = 4]
RoundAtom(id, fires, margin) ==
  [Atom(id, {"round"}, 20, "balanced", When(fires, margin * (One \div 10)))
   EXCEPT !.repetitions = 8]
RoundClearWin(margin) == RoundAtom("round_clear_win", margin >= 200, margin)
RoundCloseWin(margin) == RoundAtom("round_close_win", margin > 0 /\ margin < 200, margin)
RoundTie(margin) == RoundAtom("round_tie", margin = 0, margin)

\* By ascending id, the last key of every choice.
MemeAtomsOf(s, o, margin) ==
  <<AbandonedProjectGap(s, o), ActivityWithoutShipping(s, o), ArchiveDiscipline(s, o),
    CiGap(s, o), CommitChaosAtom(s, o), CommitMannersGap(s, o), ConfidenceMismatch(s, o),
    DocsWithoutShipping(s, o), ExternalProjectActivity(s, o), GrindsetGap(s, o),
    HighForkRatio(s, o), HighTreeCoverage(s, o), IdentityMatchup(s, o),
    ImpactConcentration(s, o), LowPublicEvidence(s, o), MainBranchBehavior(s, o),
    MonorepoOperatingSystem(s, o), NuclearGap(margin), OneRepoCarry(s, o),
    OneRepoFinalBossAtom(s, o), PhotoFinish(margin), PolyglotWithDepth(s, o),
    PolyglotWithoutDepth(s, o), PublicEvidenceDiff(s, o), RecentActivityGap(s, o),
    ReleaseAvoidance(s, o), ReleaseDensityGap(s, o), ReleaseGap(s, o), RepairLoopGap(s, o),
    RepoCountWithoutSubstance(s, o), RepoGraveyardDensity(s, o), RoundClearWin(margin),
    RoundCloseWin(margin), RoundTie(margin), ShipToYapGap(s, o), StrongMaintenance(s, o),
    StructureGap(s, o), SubstanceRatioGap(s, o), SustainedWorkGap(s, o), TestsGap(s, o),
    ToolingWithoutOutput(s, o), VerdictMargin(margin), VerificationStackAtom(s, o)>>

\* The places in that list of the atoms that fire in a roast mode.
Firing(atoms, roast) ==
  {i \in DOMAIN atoms : atoms[i].intensity # None /\ ~(roast = "clean" /\ atoms[i].spicy)}
=============================================================================
