------------------------------ MODULE Signals -------------------------------
(***************************************************************************)
(* From a profile snapshot to the signals of the public score              *)
(* (analyzers/src/structure.ts, fast-scan/signals.ts).  A tree is a set of *)
(* groups of files that the path rules cannot tell apart: the kinds they   *)
(* match, the place they are in, how many they are and their size.         *)
(***************************************************************************)
EXTENDS Curves

ActiveWeekWindow == 12
EventFeedDays == 90
AbandonedAfter == 365
MinimumCommitSample == 20
OversizedSourceBytes == 100000

LinterLanguages ==
  {"typescript", "javascript", "python", "go", "rust", "ruby", "php", "java", "kotlin",
   "swift", "c#", "c++", "scala", "dart", "elixir"}
GradualLanguages == {"typescript", "javascript", "python", "php", "ruby"}
SupportedLanguages == {"typescript", "javascript", "python", "go"}

\* A generated file is nothing else, a test is no source, and configuration
\* is not counted as source.
IsTest(g) == "test" \in g.is /\ "generated" \notin g.is
IsSource(g) == "source" \in g.is /\ g.is \cap {"generated", "test", "configuration"} = {}

\* What the paths of a tree say of the repository.
Structure(tree) ==
  LET Files(Those(_)) == MapThenSumSet(LAMBDA g : g.n, {g \in tree : Those(g)})
      Has(kind) == \E g \in tree : kind \in g.is
      AtTop(kind) == \E g \in tree : kind \in g.is /\ g.at \in {"root", "github"}
      sources == Files(IsSource)
      tests == Files(IsTest)
      sizes == {g.bytes : g \in {h \in tree : IsSource(h)}}
  IN [sources |-> sources, tests |-> tests, hasCi |-> Has("ci"),
      hasLinting |-> Has("lint"), hasTyping |-> Has("typing"),
      hasManifest |-> Has("manifest"), hasLockfile |-> Has("lockfile"),
      automated |-> Has("automation"), hasReadme |-> AtTop("readme"),
      contributing |-> AtTop("contributing"),
      documented |-> (\E g \in tree : g.at = "docs")
                     \/ Files(LAMBDA g : "prose" \in g.is /\ "generated" \notin g.is) >= 3,
      monorepo |-> Has("workspace")
                   \/ Files(LAMBDA g : "manifest" \in g.is /\ g.at = "packages") >= 2,
      dependencies |-> Has("dependency directory"), built |-> Has("build output"),
      rootFiles |-> Files(LAMBDA g : g.at = "root"),
      oversized |-> Files(LAMBDA g : IsSource(g) /\ g.bytes > OversizedSourceBytes),
      largest |-> IF sizes = {} THEN 0 ELSE Max(sizes),
      separates |-> /\ sources > 0
                    /\ tests > 0
                    /\ Files(LAMBDA g : IsSource(g) /\ g.at \in {"src", "packages"})
                       >= Files(LAMBDA g : IsSource(g) /\ g.at = "root")]

\* Substantial: a content anchor first, then two of seven points.
IsSubstantial(r, structure, releases, span) ==
  LET sourced == r.analyzed /\ structure.sources >= 20
      manifest == r.analyzed /\ structure.hasManifest
  IN /\ r.sizeKb >= 50 \/ releases >= 1 \/ sourced \/ manifest
     /\ Tally(<<r.sizeKb >= 50, r.sizeKb >= 500, span >= 30, span >= 180,
                releases >= 1, sourced, manifest>>) >= 2

\* What a repository with that structure shows.
EvidenceOf(r, structure) ==
  LET releases == IF r.inspected THEN r.releases ELSE 0
      span == Max({0, r.age - r.idle})
      eligible == ~r.fork /\ ~r.special /\ r.sizeKb > 0
      substantial == eligible /\ IsSubstantial(r, structure, releases, span)
  IN [fork |-> r.fork, archived |-> r.archived, sizeKb |-> r.sizeKb, idle |-> r.idle,
      inspected |-> r.inspected, analyzed |-> r.analyzed, structure |-> structure,
      releases |-> releases, span |-> span, eligible |-> eligible,
      substantial |-> substantial, primary |-> r.primary,
      languages |-> ({r.primary} \ {"none"}) \cup IF r.inspected THEN r.languages ELSE {},
      distributed |-> r.distributed,
      abandoned |-> /\ substantial
                    /\ ~r.archived
                    /\ r.age >= AbandonedAfter
                    /\ r.idle >= AbandonedAfter]

\* One repository of the listing with what its inspection found.
Evidence(repository) ==
  LET analyzed == repository.analyzed /\ repository.inspected
  IN EvidenceOf([repository EXCEPT !.analyzed = analyzed],
                Structure(IF analyzed THEN repository.tree ELSE {}))

\* The window the pushes were observed in: the real span of a feed cut at its
\* cap, else what GitHub keeps, bounded by the age of the account.
EventWindowDays(events, accountAge) ==
  IF ~events.available \/ events.total = 0 THEN EventFeedDays
  ELSE IF events.truncated THEN Max({7, events.oldest})
  ELSE Min({EventFeedDays, Max({14, accountAge})})

\* The rates are taken over the commits of people that are no merges, the size
\* of the sample counts the merges too.  The median length is in half characters.
CommitStatistics(commits) ==
  LET judged == commits.size - commits.merges
  IN [size |-> commits.size,
      lowEffort |-> Share(commits.lowEffort, judged),
      repair |-> Share(commits.repair, judged),
      revert |-> Share(commits.revert, judged),
      merge |-> Share(commits.merges, commits.size),
      median |-> IF judged = 0 THEN 0 ELSE commits.median]

\* Every signal the score reads.  The repositories stay a sequence, the sets
\* are sets of its indices; the commits of a year are in hundredths.
SignalsOf(snapshot, repos) ==
  LET Those(P(_)) == {i \in DOMAIN repos : P(repos[i])}
      substantial == Those(LAMBDA r : r.substantial)
      inspected == Those(LAMBDA r : r.inspected)
      analyzed == Those(LAMBDA r : r.analyzed)
      sizes == {repos[i].sizeKb : i \in substantial}
      bytes == MapThenSumSet(LAMBDA i : repos[i].sizeKb, substantial)
      days == {repos[i].idle : i \in DOMAIN repos}
              \cup IF snapshot.events.lastPush = None THEN {} ELSE {snapshot.events.lastPush}
      window == EventWindowDays(snapshot.events, snapshot.accountAge)
  IN [repos |-> repos, eligible |-> Those(LAMBDA r : r.eligible),
      inspected |-> inspected, analyzed |-> analyzed, substantial |-> substantial,
      abandoned |-> Those(LAMBDA r : r.abandoned),
      archived |-> Cardinality(Those(LAMBDA r : r.archived)),
      forks |-> Cardinality(Those(LAMBDA r : r.fork)),
      commits |-> CommitStatistics(snapshot.commits),
      annualized |-> Min({60000, HalfUp(snapshot.events.pushes * 36500, window)}),
      weeks |-> Min({ActiveWeekWindow, snapshot.events.weeks}),
      recency |-> IF days = {} THEN None ELSE Min(days),
      external |-> snapshot.events.external, merged |-> snapshot.events.merged,
      reviews |-> snapshot.events.reviews, truncated |-> snapshot.events.truncated,
      totalReleases |-> MapThenSumSet(LAMBDA i : repos[i].releases, DOMAIN repos),
      languages |-> UNION {repos[i].languages : i \in DOMAIN repos},
      substantialLanguages |-> UNION {repos[i].languages : i \in substantial},
      monorepos |-> Cardinality({i \in analyzed : repos[i].structure.monorepo}),
      releasing |-> {i \in inspected : repos[i].releases > 0},
      sustained |-> {i \in substantial : repos[i].span >= 180},
      dominant |-> IF bytes = 0 THEN 0 ELSE Share(Max(sizes), bytes),
      hasEvents |-> snapshot.events.available /\ snapshot.events.total > 0,
      selected |-> snapshot.selected]

Signals(snapshot) ==
  SignalsOf(snapshot, [i \in DOMAIN snapshot.repos |-> Evidence(snapshot.repos[i])])
=============================================================================
