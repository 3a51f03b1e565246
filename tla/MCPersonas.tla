---------------------------- MODULE MCPersonas -----------------------------
(***************************************************************************)
(* The fixture profiles of the repository's own tests, as snapshots        *)
(* (test-fixtures/src/github-personas.ts): the files of their trees by what*)
(* the path rules see of them, days before the reference date, the counts  *)
(* of the commit sample and of the event feed.                             *)
(***************************************************************************)
EXTENDS Integers, Sequences

\* A group of n files that match the rules "is".
G(is, at, n) == [is |-> is, at |-> at, n |-> n, bytes |-> 4000]

WellTooled ==
  {G({"prose", "readme"}, "root", 1), G({}, "root", 1),
   G({"contributing", "prose"}, "root", 1), G({"manifest"}, "root", 1),
   G({"lockfile"}, "root", 1), G({"typing"}, "root", 1),
   G({"configuration", "lint", "source"}, "root", 1), G({"ci"}, "elsewhere", 1),
   G({"automation", "ci"}, "elsewhere", 1), G({"prose"}, "docs", 1), G({"source"}, "src", 20),
   G({"source", "test"}, "elsewhere", 5),
   G({"build output", "generated", "source"}, "elsewhere", 1)}
Bare ==
  {G({"prose", "readme"}, "root", 1), G({"source"}, "root", 1), G({}, "root", 1)}
TestHeavy ==
  {G({"prose", "readme"}, "root", 1), G({}, "root", 1), G({"manifest"}, "root", 1),
   G({"lockfile"}, "root", 1), G({"ci"}, "elsewhere", 1), G({"source"}, "src", 16),
   G({"source", "test"}, "elsewhere", 10)}
CiOnly ==
  {G({"prose", "readme"}, "root", 1), G({"ci"}, "elsewhere", 3),
   G({"automation"}, "github", 1), G({"automation"}, "root", 3), G({"manifest"}, "root", 1),
   G({"lockfile"}, "root", 1), G({"typing"}, "root", 1),
   G({"configuration", "lint", "source"}, "root", 1), G({"source"}, "src", 2)}
Workspace ==
  {G({"prose", "readme"}, "root", 1), G({}, "root", 1), G({"manifest"}, "root", 1),
   G({"lockfile"}, "root", 1), G({"workspace"}, "root", 2), G({"typing"}, "root", 1),
   G({"configuration", "lint", "source"}, "root", 1), G({"ci"}, "elsewhere", 1),
   G({"prose"}, "docs", 1), G({"manifest"}, "packages", 3), G({"source"}, "packages", 12),
   G({"source", "test"}, "packages", 3)}
DocsHeavy ==
  {G({"prose", "readme"}, "root", 1), G({"contributing", "prose"}, "root", 1),
   G({}, "root", 1), G({"prose"}, "docs", 5), G({"manifest"}, "root", 1),
   G({"lockfile"}, "root", 1), G({"source"}, "src", 2)}
SetupComplete ==
  {G({"prose", "readme"}, "root", 1), G({}, "root", 1), G({"manifest"}, "root", 1),
   G({"lockfile"}, "root", 1), G({"typing"}, "root", 1),
   G({"configuration", "lint", "source"}, "root", 1), G({"lint"}, "root", 1),
   G({"automation"}, "root", 1), G({"source"}, "src", 14)}
Structured ==
  {G({"prose", "readme"}, "root", 1), G({}, "root", 1), G({"manifest"}, "root", 1),
   G({"lockfile"}, "root", 1), G({"typing"}, "root", 1),
   G({"configuration", "lint", "source"}, "root", 1), G({"lint"}, "root", 1),
   G({"automation"}, "root", 1), G({"ci"}, "elsewhere", 1), G({"automation"}, "github", 1),
   G({"source"}, "src", 22), G({"source", "test"}, "elsewhere", 2)}
PythonTree ==
  {G({"prose", "readme"}, "root", 1), G({}, "root", 1), G({"manifest"}, "root", 2),
   G({"lockfile"}, "root", 1), G({"ci"}, "elsewhere", 1), G({"source"}, "src", 15),
   G({"source", "test"}, "elsewhere", 3)}
RustTree ==
  {G({"prose", "readme"}, "root", 1), G({}, "root", 1), G({"manifest"}, "root", 1),
   G({"lockfile"}, "root", 1), G({"ci"}, "elsewhere", 1), G({"source"}, "src", 16),
   G({"source", "test"}, "elsewhere", 2)}
GoTree ==
  {G({"prose", "readme"}, "root", 1), G({"manifest"}, "root", 1), G({"lockfile"}, "root", 1),
   G({"automation"}, "root", 1), G({"ci"}, "elsewhere", 1), G({"source"}, "src", 16),
   G({"source", "test"}, "src", 3),
   G({"dependency directory", "generated", "source"}, "elsewhere", 1)}
Readme == {G({"prose", "readme"}, "root", 1)}

Repo(sizeKb, age, idle) ==
  [fork |-> FALSE, special |-> FALSE, archived |-> FALSE, sizeKb |-> sizeKb, age |-> age,
   idle |-> idle, inspected |-> FALSE, analyzed |-> FALSE, tree |-> {}, releases |-> 0,
   primary |-> "typescript", languages |-> {}, distributed |-> FALSE]
\* Inspected: its tree, its languages and its releases were read.
Read(repo, tree, releases) ==
  [repo EXCEPT !.inspected = TRUE, !.analyzed = TRUE, !.tree = tree, !.releases = releases,
               !.languages = {"typescript"}]
\* Its tree could not be read.
Unread(repo) == [Read(repo, {}, 0) EXCEPT !.analyzed = FALSE]
Archived(repo) == [repo EXCEPT !.archived = TRUE]
Forked(repo) == [repo EXCEPT !.fork = TRUE]
Written(repo, language) ==
  [repo EXCEPT !.primary = language, !.languages = IF @ = {} THEN {} ELSE {language}]

Sample(size, merges, lowEffort, repair, revert, median) ==
  [size |-> size, merges |-> merges, lowEffort |-> lowEffort, repair |-> repair,
   revert |-> revert, median |-> median]
Good == Sample(22, 1, 0, 1, 0, 78)
Sloppy == Sample(22, 0, 14, 8, 2, 11)

Feed(total, pushes, weeks, external, merged, reviews, lastPush) ==
  [available |-> TRUE, total |-> total, pushes |-> pushes, weeks |-> weeks,
   external |-> external, merged |-> merged, reviews |-> reviews, truncated |-> FALSE,
   oldest |-> 0, lastPush |-> lastPush]
Pushed(pushes, weeks, lastPush) == Feed(pushes, pushes, weeks, 0, 0, 0, lastPush)

Profile(accountAge, commits, events, repos) ==
  [accountAge |-> accountAge, commits |-> commits, events |-> events, repos |-> repos,
   selected |-> Len(SelectSeq(repos, LAMBDA r : r.inspected))]

MCSnapshots == [
  strongMaintainer |-> Profile(2600, Good, Feed(43, 40, 12, 2, 2, 1, 0), <<
    Read(Repo(4200, 1400, 2), WellTooled, 9), Read(Repo(1800, 1100, 9), WellTooled, 4),
    Read(Repo(900, 800, 18), WellTooled, 2), Repo(300, 600, 44), Archived(Repo(500, 2000, 900))>>),
  highActivityLowImpact |-> Profile(900, Sloppy, Pushed(80, 7, 0), <<
    Read(Repo(240, 500, 1), Bare, 0), Read(Repo(180, 420, 3), Bare, 0),
    Read(Repo(60, 380, 5), Bare, 0)>>),
  oneRepoHighImpact |-> Profile(1800, Good, Pushed(18, 11, 0), <<
    Read(Repo(9000, 1500, 4), WellTooled, 22), Read(Repo(12, 1400, 300), Bare, 0)>>),
  manyTinyRepos |-> Profile(1300, Sloppy, Pushed(6, 6, 0), <<
    Read(Repo(300, 600, 40), Bare, 0), Read(Repo(300, 580, 40), Bare, 0),
    Read(Repo(8, 560, 502), Bare, 0), Repo(8, 540, 503), Repo(8, 520, 504), Repo(8, 500, 505),
    Repo(8, 480, 506), Repo(8, 460, 507), Repo(8, 440, 508), Repo(8, 420, 509),
    Repo(8, 400, 510), Repo(8, 380, 511), Repo(8, 360, 512), Repo(8, 340, 513)>>),
  archivedPortfolio |-> Profile(3000, Good, Pushed(8, 8, 0), <<
    Archived(Repo(1200, 2400, 800)), Archived(Read(Repo(800, 2100, 700), WellTooled, 3)),
    Archived(Unread(Repo(640, 1900, 640))), Read(Repo(500, 400, 12), WellTooled, 1)>>),
  lowPublicEvidence |-> Profile(400, Sample(0, 0, 0, 0, 0, 0), Pushed(0, 0, -1), <<
    Read(Repo(2, 200, 190), Readme, 0)>>),
  unsupportedLanguages |-> Profile(2200, Good, Pushed(20, 9, 0), <<
    Written(Read(Repo(3000, 900, 6), GoTree, 3), "zig"),
    Written(Read(Repo(2100, 800, 30), GoTree, 0), "haskell"),
    Written(Read(Repo(1400, 1200, 70), GoTree, 0), "c")>>),
  partialTreeFailure |-> Profile(1000, Good, Pushed(10, 7, 0), <<
    Read(Repo(900, 600, 5), WellTooled, 2), Unread(Repo(700, 500, 25))>>),
  releaseHeavy |-> Profile(2800, Good, Pushed(4, 0, 210), <<
    Read(Repo(2600, 1900, 210), WellTooled, 34), Read(Repo(1500, 1700, 240), WellTooled, 18),
    Read(Repo(1100, 1500, 260), WellTooled, 11)>>),
  ciHeavy |-> Profile(1100, Good, Pushed(14, 12, 0), <<
    Read(Repo(80, 500, 7), CiOnly, 0), Read(Repo(60, 460, 14), CiOnly, 0),
    Read(Repo(55, 430, 26), CiOnly, 0)>>),
  testHeavy |-> Profile(1600, Good, Pushed(16, 12, 0), <<
    Read(Repo(700, 900, 8), TestHeavy, 0), Read(Repo(520, 820, 19), TestHeavy, 0),
    Read(Repo(430, 760, 33), TestHeavy, 0)>>),
  ossContributor |-> Profile(2000, Good, Feed(12, 6, 7, 4, 4, 2, 0), <<
    Read(Repo(420, 900, 21), TestHeavy, 0), Read(Repo(90, 1400, 60), Bare, 0)>>),
  truePolyglot |-> Profile(2900, Good, Pushed(22, 10, 0), <<
    Written(Read(Repo(2400, 1600, 11), RustTree, 0), "rust"),
    Written(Read(Repo(1500, 1300, 24), PythonTree, 0), "python"),
    Written(Read(Repo(1200, 1100, 38), GoTree, 0), "go"), Repo(950, 900, 52)>>),
  repoGraveyard |-> Profile(3200, Good, Pushed(5, 5, 40), <<
    Read(Repo(900, 2400, 900), WellTooled, 0), Read(Repo(780, 2200, 860), WellTooled, 0),
    Repo(660, 2000, 820), Repo(540, 1800, 780), Read(Repo(460, 700, 40), Bare, 0)>>),
  forkCollector |-> Profile(1200, Good, Pushed(7, 7, 0), <<
    Forked(Repo(400, 500, 120)), Forked(Repo(400, 480, 130)), Forked(Repo(400, 460, 140)),
    Forked(Repo(400, 440, 150)), Forked(Repo(400, 420, 160)), Forked(Repo(400, 400, 170)),
    Forked(Repo(400, 380, 180)), Forked(Repo(400, 360, 190)), Forked(Repo(400, 340, 200)),
    Read(Repo(180, 400, 30), Bare, 0), Read(Repo(40, 380, 90), Bare, 0)>>),
  readmeCeo |-> Profile(800, Good, Pushed(12, 10, 0), <<
    Read(Repo(260, 500, 9), DocsHeavy, 0), Read(Repo(190, 420, 22), DocsHeavy, 0),
    Read(Repo(150, 360, 44), DocsHeavy, 0)>>),
  fixLooper |-> Profile(1400, Sample(24, 0, 0, 18, 2, 55), Pushed(18, 11, 0), <<
    Read(Repo(800, 800, 6), TestHeavy, 2), Read(Repo(520, 700, 18), TestHeavy, 0),
    Read(Repo(380, 620, 40), Bare, 0)>>),
  balancedBuilder |-> Profile(1500, Sample(8, 1, 0, 1, 0, 86), Pushed(11, 11, 0), <<
    Read(Repo(620, 700, 10), SetupComplete, 1), Read(Repo(340, 640, 30), SetupComplete, 0)>>),
  monorepoOperator |-> Profile(1700, Good, Pushed(15, 11, 0), <<
    Read(Repo(3100, 1000, 5), Workspace, 0), Read(Repo(1400, 860, 16), Workspace, 0)>>),
  frameworkTourist |-> Profile(900, Good, Pushed(6, 5, 0), <<
    Written(Read(Repo(14, 300, 290), Bare, 0), "svelte"),
    Written(Read(Repo(12, 260, 250), Bare, 0), "elixir"), Written(Repo(10, 220, 214), "rust"),
    Written(Repo(9, 180, 175), "go"), Written(Repo(8, 140, 136), "zig"),
    Written(Unread(Repo(6, 100, 30)), "none")>>),
  archiveDiscipline |-> Profile(3400, Good, Pushed(9, 9, 14), <<
    Archived(Read(Repo(900, 2600, 700), TestHeavy, 0)),
    Archived(Read(Repo(760, 2400, 660), TestHeavy, 0)), Archived(Repo(640, 2200, 620)),
    Archived(Repo(520, 2000, 580)), Archived(Repo(480, 1800, 540)),
    Read(Repo(420, 500, 14), TestHeavy, 0)>>),
  sustainedGrinder |-> Profile(3000, Good, Pushed(30, 12, 0), <<
    Read(Repo(1900, 2200, 4), SetupComplete, 0), Read(Repo(1400, 1900, 12), SetupComplete, 0),
    Read(Repo(900, 1600, 26), SetupComplete, 0), Repo(320, 1200, 48)>>),
  sidequestCollector |-> Profile(1600, Good, Pushed(8, 8, 0), <<
    Read(Repo(520, 700, 15), TestHeavy, 0), Repo(7, 500, 480), Repo(7, 475, 455),
    Repo(7, 450, 430), Repo(7, 425, 405), Repo(7, 400, 380), Repo(7, 375, 355),
    Repo(7, 350, 330), Repo(7, 325, 305), Repo(7, 300, 280), Unread(Repo(7, 275, 255)),
    Unread(Repo(7, 250, 230))>>),
  oneRepoThin |-> Profile(1000, Good, Pushed(7, 7, 0), <<
    Read(Repo(900, 300, 18), Bare, 0), Read(Repo(9, 260, 200), Bare, 0)>>),
  structureMerchant |-> Profile(1900, Good, Pushed(13, 11, 0), <<
    Read(Repo(1600, 1100, 9), Structured, 3), Read(Repo(900, 950, 23), Structured, 1),
    Read(Repo(540, 800, 41), Structured, 0)>>),
  commitGrinder |-> Profile(1300, Good, Pushed(90, 12, 0), <<
    Read(Repo(700, 600, 1), SetupComplete, 0), Read(Repo(260, 500, 4), Bare, 0)>>)]
=============================================================================
