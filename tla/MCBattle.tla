------------------------------ MODULE MCBattle ------------------------------
(***************************************************************************)
(* Battles between the fixture profiles, and between them and a few quiet  *)
(* accounts no fixture is like.                                            *)
(***************************************************************************)
EXTENDS Battle, MCPersonas

Nothing == Sample(0, 0, 0, 0, 0, 0)
\* Two projects with a release each and no test, pushed to now and then; an
\* account without a repository; a second account with the record of another.
Quiet == [
  quiet |-> Profile(1500, Nothing, Pushed(8, 5, 40), <<
    Read(Repo(620, 700, 40), Bare, 1), Read(Repo(340, 640, 60), Bare, 1)>>),
  quieter |-> Profile(1500, Nothing, Pushed(4, 4, 50), <<
    Read(Repo(620, 700, 50), Bare, 1), Read(Repo(340, 640, 80), Bare, 1)>>),
  empty |-> Profile(30, Nothing, [Pushed(0, 0, -1) EXCEPT !.available = FALSE], <<>>),
  twin |-> MCSnapshots.balancedBuilder]

AllSnapshots == Quiet @@ MCSnapshots
AllProfiles == DOMAIN AllSnapshots

MCMatches == {
  <<"strongMaintainer", "manyTinyRepos">>, <<"balancedBuilder", "quiet">>,
  <<"twin", "balancedBuilder">>, <<"lowPublicEvidence", "strongMaintainer">>,
  <<"oneRepoThin", "empty">>, <<"forkCollector", "frameworkTourist">>,
  <<"repoGraveyard", "archiveDiscipline">>, <<"readmeCeo", "releaseHeavy">>,
  <<"quiet", "quieter">>, <<"ciHeavy", "truePolyglot">>, <<"testHeavy", "commitGrinder">>,
  <<"ossContributor", "oneRepoHighImpact">>, <<"fixLooper", "sustainedGrinder">>,
  <<"monorepoOperator", "structureMerchant">>, <<"sidequestCollector", "archivedPortfolio">>,
  <<"unsupportedLanguages", "partialTreeFailure">>,
  <<"highActivityLowImpact", "manyTinyRepos">>}
ThinMatches == {<<"quiet", "quieter">>, <<"empty", "lowPublicEvidence">>,
                <<"strongMaintainer", "empty">>}

-----------------------------------------------------------------------------
(* What is true of the scorecards before any battle.                       *)

\* They are those the tests of the repository record for the same two profiles
\* (battle.golden.json): every category to a tenth of a point, the overall
\* scores, the confidence and the identities.
ASSUME GoldenScores ==
  LET Scores(p) == [i \in DOMAIN Categories |-> Cards[p].category[Categories[i]].score]
      left == Cards.strongMaintainer
      right == Cards.manyTinyRepos
  IN /\ Scores("strongMaintainer") = <<975, 879, 1000, 900, 853, 957, 936, 1000, None>>
     /\ Scores("manyTinyRepos") = <<0, 553, 0, 700, 250, 671, 93, 1000, None>>
     /\ left.overall = 92 /\ right.overall = 39
     /\ left.confidence = [score |-> 70, analyzed |-> 3, coverage |-> One, basis |-> 59]
     /\ right.confidence = [score |-> 70, analyzed |-> 3, coverage |-> One, basis |-> 54]
     /\ left.mogsona = "ship_goblin" /\ left.class = "mythic" /\ left.leak = "none"
     /\ right.mogsona = "repo_generalist" /\ right.leak = "commit_chaos"

\* What the calibration of the identities accepts for every fixture: the identity
\* or an alternate, the trait, the lowest and the highest class, the confidence.
Expected == {
  <<"strongMaintainer", {"ship_goblin"}, "none", "rare", "mythic", 55>>,
  <<"releaseHeavy", {"release_goblin"}, "none", "distinctive", "rare", 50>>,
  <<"ciHeavy", {"ci_enjoyer"}, "yaml_engineer", "standard", "rare", 40>>,
  <<"testHeavy", {"test_priest"}, "release_avoider", "distinctive", "rare", 50>>,
  <<"ossContributor", {"oss_landlord"}, "release_avoider", "standard", "rare", 40>>,
  <<"oneRepoHighImpact", {"one_repo_final_boss"}, "none", "distinctive", "rare", 40>>,
  <<"oneRepoThin", {"main_branch_menace", "repo_generalist", "stealth_builder"},
     "single_point_of_aura", "unrated", "distinctive", 0>>,
  <<"truePolyglot", {"polyglot_maxxer"}, "release_avoider", "distinctive", "rare", 50>>,
  <<"manyTinyRepos", {"stealth_builder", "repo_generalist"},
     "commit_chaos", "unrated", "standard", 0>>,
  <<"sidequestCollector", {"one_repo_final_boss", "repo_generalist", "stealth_builder"},
     "sidequest_collector", "standard", "rare", 0>>,
  <<"repoGraveyard", {"test_priest", "repo_generalist", "stealth_builder"},
     "repo_graveyard", "unrated", "rare", 0>>,
  <<"forkCollector", {"repo_generalist", "stealth_builder"},
     "forklift_operator", "unrated", "distinctive", 0>>,
  <<"readmeCeo", {"main_branch_menace", "repo_generalist", "stealth_builder"},
     "readme_ceo", "unrated", "distinctive", 0>>,
  <<"fixLooper", {"test_priest", "repo_generalist", "stealth_builder"},
     "fix_loop_enjoyer", "unrated", "rare", 0>>,
  <<"archiveDiscipline", {"archive_paladin"}, "release_avoider", "standard", "rare", 40>>,
  <<"archivedPortfolio", {"ship_goblin", "archive_paladin", "repo_dad"},
     "none", "standard", "rare", 40>>,
  <<"lowPublicEvidence", {"stealth_builder"}, "none", "unrated", "unrated", 0>>,
  <<"balancedBuilder", {"repo_generalist", "main_branch_menace"},
     "none", "standard", "distinctive", 40>>,
  <<"structureMerchant", {"structure_merchant"}, "none", "distinctive", "rare", 45>>,
  <<"highActivityLowImpact", {"repo_generalist", "stealth_builder"},
     "commit_chaos", "unrated", "standard", 0>>,
  <<"monorepoOperator", {"monorepo_maxxer"}, "localhost_millionaire", "distinctive", "rare", 45>>,
  <<"frameworkTourist", {"stealth_builder", "repo_generalist"},
     "framework_tourist", "unrated", "standard", 0>>,
  <<"sustainedGrinder", {"sustained_grinder", "structure_merchant"},
     "release_avoider", "distinctive", "rare", 45>>,
  <<"commitGrinder", {"commit_goblin", "main_branch_menace"},
     "code_hermit", "distinctive", "rare", 40>>,
  <<"unsupportedLanguages", {"ci_enjoyer", "test_priest", "ship_goblin", "repo_generalist"},
     "code_hermit", "standard", "rare", 40>>,
  <<"partialTreeFailure", {"main_branch_menace", "repo_generalist", "stealth_builder"},
     "none", "unrated", "distinctive", 0>>}
ASSUME Calibrated ==
  \A e \in Expected :
    LET card == Cards[e[1]]
    IN /\ card.mogsona \in e[2]
       /\ card.leak = e[3]
       /\ ClassRank(e[4]) <= ClassRank(card.class) /\ ClassRank(card.class) <= ClassRank(e[5])
       /\ card.confidence.score >= e[6]

\* What could not be measured neither helps nor hurts: the overall score lies
\* between the best and the worst of the measured categories, up to its
\* rounding (createScorecard).
ASSUME ScoreIsAnAverage ==
  \A p \in Profiles :
    LET scores == {Cards[p].category[c].score : c \in DOMAIN Cards[p].category} \ {None}
    IN scores # {} => /\ Min(scores) - 6 <= 10 * Cards[p].overall
                      /\ 10 * Cards[p].overall <= Max(scores) + 6

\* An identity and a trait of one profile never deny each other, though they
\* are chosen from two catalogs that do not know of each other (assignIdentity).
ASSUME IdentityCoherent ==
  \A p \in Profiles :
    <<Cards[p].mogsona, Cards[p].leak>> \notin
      {<<"one_repo_final_boss", "single_point_of_aura">>, <<"repo_dad", "readme_ceo">>,
       <<"repo_dad", "release_avoider">>, <<"archive_paladin", "repo_graveyard">>,
       <<"polyglot_maxxer", "framework_tourist">>, <<"main_branch_menace", "commit_chaos">>,
       <<"main_branch_menace", "fix_loop_enjoyer">>, <<"oss_landlord", "code_hermit">>,
       <<"release_goblin", "release_avoider">>, <<"ship_goblin", "release_avoider">>}

\* The theme is a property of the matchup, not of whoever is on the left
\* (selectTheme).
ASSUME ThemeIsOfTheMatchup ==
  \A m \in Matches, roast \in {"clean", "spicy"} :
    ThemeOf(Cards[m[1]], Cards[m[2]], roast) = ThemeOf(Cards[m[2]], Cards[m[1]], roast)
=============================================================================
