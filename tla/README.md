# Git Mog: models, checks and proofs

This directory specifies the Git Mog CLI in TLA+: what may happen between two
requests, two system calls, two key presses or two processes, how a battle is scored
and told, and what must hold all the same. TLC checks the specifications on small
instances, TLAPS proves the central theorems for every instance. Paths below are
relative to the root of the repository; `cli/cli.ts` stands for
`packages/cli/src/cli.ts` and so on.

    tlc -config CliFiles.cfg MCCliFiles.tla      # one run
    tlapm CliFilesProofs.tla                     # one proof module

## 1. The system and what can go wrong in it

Git Mog reads one or two GitHub profiles and compares them. An invocation is one
short-lived process; what outlives it are cache files that other invocations use
at the same time, an exported battle, and the request allowance GitHub keeps for it.

| part | source | state it keeps | operations | hard because of |
|---|---|---|---|---|
| persistent cache entries | `cli/snapshot-store.ts`, `source-analysis/cache.ts`, `quality-judge/cache.ts`, `cli/cache-control.ts` | one file per key, one temporary name per key | get, set, scan, clear | no locks; kills between system calls; expiry |
| cache root | `cli/cache-control.ts` | marker file, layout | prepare, remove a legacy root, clear | races for the root and its marker |
| export artifact | `cli/export-artifact.ts` | temporary file, destination | check, reserve, write, link, clean up | other programs; each call may fail |
| request plan | `github/request-plan.ts` | none (pure) | build a plan, deal caps | boundaries of the allowance |
| preflight | `cli/preflight.ts`, `cli/cli.ts` | token, plan, consent | probe, read allowance, ask, sign in, plan again | everything it read may be stale when used |
| profile collection | `github/collect.ts`, `github/http.ts` | request budget, snapshot under construction | up to 16 requests | any request may fail, any budget may end |
| device sign-in | `github/device-flow.ts`, `private-context/auth.ts`, `cli/cli.ts`, `cli/open-external.ts` | code, interval, expiry, input session, launches | poll, launch, cancel | timers, late answers, cancellation |
| source sample and code reading | `github/source-sample.ts`, `personality/judge.ts` | candidates, opened opportunities, bytes left, receipts, two caches | rank trees, read blobs, keep a reading | warm and cold runs must agree; bounded receipts |
| quality source | `github/quality-source.ts` | selected files, caps, limitations | confirm revisions, read blobs, attribute | several ceilings at once |
| private context | `private-context/run.ts`, `auth.ts`, `cli/cli.ts` | single-use token, request counters | setup rechecks, listing, inspection, collection | counters shared by all phases; every request may fail |
| isolated parsing | `quality-judge/isolate.ts`, `parser-worker.ts` | worker, deadlines | start, parse, terminate | three deadlines against results |
| battle pipeline | `battle/run.ts`, `cli/cli.ts` | stage results, cache keys, exit code | plan, collect, read, judge, export | key and cap are computed twice, in two places |
| scoring, identity, battle lines | `scoring`, `analyzers/structure.ts` | in a battle: motifs and atoms spent | score, classify, tell slot by slot | roundings; budgets shared by all slots |
| progress, rendering, personality, story | `cli/progress.ts`, `cli/render.ts`, `personality`, `source-analysis` | a line on the screen, or none | | |

How they interact: the CLI *preflight* probes the *caches*, reads the allowance and
builds a *request plan*; questions may lead to a *device sign-in* and a new plan.
The plan's caps go to the *battle pipeline*, which for each profile runs a
*collection* (cache lookup, requests, cache store), the *source sample* and the
*quality preview* (quality source, then the parser worker). Every store is followed by
a ceiling scan and a new preparation of the *cache root* that all processes share. The
snapshots are scored and told as a *battle*; *private context* and the *export* end the
invocation.

What makes each part correct:

* cache entries: a hit is a whole value somebody stored, not expired; a crash or a race
  costs a recomputation, never a wrong answer.
* cache root: the layouts of two versions never meet, what is not Git Mog's is never
  touched, and a race for a new root has a winner.
* export: nobody's file is replaced, the destination is whole, the report is true.
* plan: the allowance is never overspent, a limited plan wastes none of it, and it buys
  evidence for every profile.
* preflight: nothing is collected without the consent the options imply, nor with a
  tier of another identity; `--quality` fails closed.
* collection: the cap holds, optional reads leave the reserve, what failed requests and
  page limits cost is stated, it ends.
* source sample: caches save requests and change nothing else, what went wrong is in
  the receipts, a reading made while GitHub failed is not kept.
* quality source and private context: no ceiling is passed, every loss is told, files
  are sampled fairly, "ready" means read, the token does not outlive its use.
* isolated parsing: the deadline holds, an answer belongs to its file, it ends.
* invocation: its profiles spend what was planned, it is served only what was made under
  its scope, stores nothing of a private run in the caches, and its exit code tells what
  was delivered.
* battle: no premise is overused, thin evidence is told, words agree with numbers.
* sign-in: GitHub is polled no faster than it asks and never in vain, the user can
  always reach the page, it ends.

`PROJECT.json` lists the hazards found in the code at their lines, with the properties
that cover each or the reason none does.

## 2. Modules

| module | models | extends / used by |
|---|---|---|
| `LossyCache` | what a cache promises (abstract) | refined by `FileCache` |
| `FileCache` | one entry: two file names, inodes, processes | `MCFileCache`, `FileCacheProofs` |
| `CacheRoot` | the root, its marker and its layouts | `CliFiles` |
| `Export` | the export of a battle | `CliFiles` |
| `CliFiles` | the order of both in an invocation, several at once | `MCCliFiles`, `CliFilesProofs` |
| `RequestPlan` | the planner as operators | `CapDealing`, `Preflight` |
| `CapDealing` | the dealing loop of the planner | `Collecting` |
| `RequestBudget` | what a client promises to its plan (abstract) | refined by `Collector` |
| `Collector` | one collection, one request per step | `Collecting` |
| `Collecting` | the loop that deals caps, then a collection with one | `MCCollecting`, `CollectingProofs` |
| `Preflight` | the CLI up to the start of a collection | `Invocation` |
| `Invocation` | whole invocations over the caches they share | `MCInvocation`, `InvocationProofs` |
| `DeviceFlow` | one sign-in, its terminal and its browser | `TerminalProofs` |
| `SourceSample` | the samplings of one profile over shared caches | `MCSourceSample`, `SourceSampleProofs` |
| `QualitySource` | the source collection of the preview | `PrivateContext` |
| `PrivateContext` | a private run around it, and a public collection | `MCPrivateContext`, `PrivateContextProofs` |
| `IsolatedParser` | the parser worker of one profile | `MCIsolatedParser`, `IsolatedParserProofs` |
| `Curves`, `Signals`, `Metrics`, `Scorecard` | from a snapshot to a score (operators) | each extends the one before |
| `Mogsonas`, `AuraLeaks`, `Identity` | identities, traits and their choice (operators) | extend `Scorecard` |
| `MemeAtoms`, `MemeTemplates` | what can be said, and the lines for it | `MemeEngine` |
| `MemeEngine`, `Battle` | the choice of a line, and one battle slot by slot | `MCBattle`, `MCPersonas`, `TerminalProofs` |

### FileCache

`path` and `tmp` are the inodes behind `<key>.json` and `<key>.json.tmp`; `content`
is what an inode holds, in chunks that name the envelope they are a part of.
Working with inodes rather than names matters: a writer whose file was renamed or
unlinked keeps writing into it. Each process (`pc`) is at one system call of `set`
(`BeginSet`, `OpenTmp`, `WriteChunk`, `WriteFails`, `Rename`, `UnlinkTmp`), of the
ceiling scan that follows it and that `--cache-info` runs (`ScanList` ...
`ScanEnd`), of `--clear-cache` (`BeginClear`, `ClearFile`, `ClearEnd`) or of `get`
(`BeginGet`, `OpenRead`, `ReadChunk`, `Judge`, `Drop`); `Crash` ends it anywhere.
The three caches differ in two points, which are constants: a `get` that rejects a
file removes it (`RemovesInvalid`, all but snapshots), and the checksum covers the
expiry (`SealsExpiry`, snapshots only). `Whole` is the validation: what the chunks
must look like to survive `JSON.parse`, the key check and the checksum. Which entries
an overfull cache evicts depends on other entries, so `ScanEntry` may doom any;
the same choice stands for the prune by count after a set.

### CacheRoot, Export, CliFiles

Every action is one system call of one process, or the check between two. `dir`,
`marker` (absent, empty, whole), `legacy`, `entries` and `foreign` are what is on the
disk; `rpc` is where each process is in `prepareCacheRoot`, in the store after which the
root is prepared again, or in `clearCache`. `maker` is the process whose open file the
marker is: its write reaches the marker only while nobody has replaced it. `harmed`
remembers that a process was killed, failed or cleared. In `Export`, `dest` is whose
file has the destination's name, `bytes` and `tmp` what each process's temporary file
holds and whether it still has a name; `mishap` remembers a failed unlink or close.
`CliFiles` runs them in the order of `run` (destination checked with the arguments,
cache root, analysis, export), so that a refused argument leaves nothing behind. Foreign
content neither comes nor goes during a run, and legacy files are one level deep.

### RequestPlan, CapDealing, Collector, RequestBudget, Collecting

The planner is pure, so it is a set of operators with the names of the fields of a
plan. `FairCaps` says in closed form what the nested loop computes; `CapDealing` has
the loop itself, one action per step. In `Collector` each action is one request
(`Send`, or `SendFails` with or without budget left) and what the code does with its
outcome; `lost` is what failed requests, requests without budget and page limits cost the
snapshot, `stated` what the snapshot admits. An answer of status 200 may hold less than it
should, or be read for less: a body that is no list counts as an empty list, an entry of
another shape is skipped, releases after the first ten are not asked for. Every action
that takes such an answer has this outcome (`Reads`), remembered in `misread`; the code
states none of it. `Collecting` composes them: a collection runs only when `collectionMayBegin`,
with the cap the loop has dealt; it starts only if that is the cap the closed form
names, so `PlanPaysOff` shows that loop and closed form agree, too.

### Preflight, Invocation

`opts` is a command line that passes the option validation; `plan`, `token`,
`qualityOn` are the variables of `run`. Every probe and every allowance is an
arbitrary member of its set, because between two plans other processes and clients
use the same caches and the same allowance. `after` is the continuation of a plan:
the canonical gate, the gate after a sign-in, or the start of the collection after a
sign-in at the quality question. `Invocation` puts real caches behind the probes
(`Found`), with the keys both places of the code compute, and follows the invocation to
its exit: the private offer, the stages of one or two profiles side by side, the
private run, the export. `aside` counts the question who signed in, which comes before
the offer (`Begin`) and is in no plan. The private run is ready, fails, is given up at the
setup prompt for a public result (`outcome.declined`), or ends in an exception that takes
the public result along (`End`). Entries may vanish at any moment before they are used.

### DeviceFlow

The loop of `authorizeGithubDevice` (the private flow is the same loop; its extra
refusals are outcomes of `Granted`), with a request in flight, the reading of its
body, the sleep and the prompt as separate states, because a key press, an interrupt,
a launch result or a deadline can come in each of them. `asked` and `announced` are
GitHub's view: when it was last contacted and the interval it wants kept.

### SourceSample

A `world` is what the snapshot offers: its representative repositories, best first,
each with the state of its tree, the number of its oversized candidates and its other
candidates in rank order (the rank itself is data). The metadata pass takes one
repository per step (`MissingTree`, `RankTree`), the round-robin traversal one candidate
per step: skipped (`SkipTest`, `SkipUnaffordable`), answered by a blob this invocation has
read before (`ReadAgain`), by the derived-feature cache (`UseDerived`), by GitHub
(`RequestArrives`, `RequestFails`), or refused (`OutOfBudget`). What a blob holds is
chosen when it is first read and never changes, which is what a content address
promises. `Finish` writes the closing receipts and decides whether the reading is kept;
`Recall` is a later invocation that finds it, `Evict` a loss in either cache. `receipts`
is what the sample set says went wrong, `met` what really did, `clean` the readings of
the invocations in which no request failed.

`OutOfBudget` has the client's own refusal as a second alternative. It is there because
the code has it; the theorem `AllowanceIsKept` shows that it never applies, since an
opportunity is opened before its request is sent.

### QualitySource, PrivateContext

A blob is `[repo, lane, rank, test, bytes]`; `Stratified` and `OpportunityOrder` are the
choice of files, computed once. The loops over revisions, blobs and attributions are one
step per request, each answered or failed; a client without budget sends nothing and
fails. In a private run each request also passes `wire`, the counters of
`boundedFetch`, in total and per repository. `PrivateContext` adds the lease, the setup
errors with their rechecks, the listing page by page, and revision, tree and releases of
every repository considered. What an answer contains is data; an answer of the wrong
form is a failed one.

### IsolatedParser

Time is counted in ticks; `due` is the timer that runs. The main thread acts between two
events of its loop, so the settling of a file and the step to the next are one action.
The worker may answer, throw, die or hang; `alive` are the workers that live, `inbox` the
mailbox of the one in hand. After `terminate` no `error` event of the old worker is
modelled: Node delivers none to a listener that was removed.

### From a snapshot to a battle

Ratios are ten-thousandths and scores tenths, the precision the code rounds to, so that
the thresholds are met exactly. A tree is a set of groups of files the path rules cannot
tell apart. Every metric, identity, trait and atom is an operator of its own; a template
is its slot, the atoms it phrases, its motif and its category, and templates that differ
only in wording are one entry with a number of copies. Where the code picks among equal
lines by a hash, `Battle` has a choice. `fight` holds what the page shows of the two
scorecards and the theme, both fixed before the first slot; `Facts` has the atoms of the
match for each margin it is told with. What an earlier slot told (`told`) is spent for the
later ones, so the order of the slots is that of `battle.ts`. Dates are whole days.

`MCPersonas` has the twenty-six fixture profiles of the repository's tests. Assumptions of
`MCBattle` replay what the tests expect of them: the golden battle (every category to a
tenth, both overall scores, confidence, identities) and the calibration (identity, trait,
class, confidence of each fixture). They also say that an overall score lies between the
best and the worst category, that identity and trait never contradict each other, and
that the theme does not depend on who is on the left. TLC evaluates them on every run.

## 3. Runs

| run | module | instance | shows |
|---|---|---|---|
| FileCache | MCFileCache | analysis and quality caches: 2 writers, one of which also reads and one scans and clears; values of 1 and 2 chunks, 3 inodes, 2 times, 2 envelopes | hits are sound, replacement is atomic, a lone set publishes, refinement of `LossyCache` |
| Collecting | MCCollecting | constants of the code, all pairs of 7 cache states, allowances 0..33 and unread, either profile collected | the allowance is spent exactly, the reserve holds, what requests and limits cost is stated, every plan pays off, refinement of `RequestBudget` |
| Invocation | MCInvocation | 2 invocations of any of 5 command lines, 3 accounts, 3 allowances, 3 states of the root | what a collection begins with, may spend and be served, what it leaves, what the exit code tells, the end |
| InvocationWarm | MCInvocation | the same | a disagreement (below) |
| DeviceFlow | DeviceFlow | lifetimes 3 and 6, intervals 1 and 2, increment 2, 2 manual launches | pace, expiry, link, end |
| SourceSample | MCSourceSample | 5 worlds, 6 contents, 2 errors, 3 policies, allowances 0, 2, 3, 2 invocations | what is read, told and kept |
| SourceSampleKept | MCSourceSample | limits of the code, one crowded world | a disagreement (below) |
| PrivateContext | MCPrivateContext | 4 repositories in 2 installations, 7 files, 1 recheck; 2 public caps | ceilings, told losses, fair turns, ready, token |
| IsolatedParser | MCIsolatedParser | 7 files, 6 allowed; start 6, file 2, profile 8 ticks | deadline, no answer lost and none credited to a file without one, end |
| CliFiles | MCCliFiles | 2 invocations with one destination, 1 clearer, 1 legacy file, up to 2 names | layouts, the race, the export and its report |
| Battle | MCBattle | 17 battles of 30 profiles, clean and spicy | the lines of a battle |
| BattleFinisher | MCBattle | 3 battles of quiet profiles | a disagreement (below) |

Bounds. *FileCache*: two chunks are enough for a value to be torn and different lengths
for a leftover to be too long; two writers for every race on two names; three inodes
because two names and one open unlinked file can exist at once with one more writer
opening (a process without a free inode waits, as on a full file system). It has the
constants of the analysis and quality caches; the snapshot cache (`SealsExpiry`) is the
stronger check and covered by the proofs, which hold for both. Symmetry (inodes) and the
view (contents of unreachable inodes) only merge states with the same future; the run
checks no liveness. *Collecting* and *Invocation* have the planner's constants of the
code, so every boundary is the real one; the cache states are one for each different
contribution to a plan, the accounts one that leaves its source all four requests, one
that is left three by a complete read, and one that cannot be scored. Two invocations
are enough for every property about caches: one stores, one is served. *DeviceFlow*: a
unit of time is the pause between two launches; a code lives several polls, long enough
for two slow_downs. *SourceSample* scales the byte limits of the code (12,000, 24,000 and
512) to 2, 3 and 1, the receipts to 4 and the metadata receipts to 1, so that worlds of
at most two repositories and five files reach every limit. *PrivateContext* scales its
ceilings likewise: sizes meet the byte ceiling exactly in some samples and pass it in
others; 22 requests in total and 8 for one repository are each met by some run.
*IsolatedParser*: the deadlines can fall due together; files are of every kind the
ceilings tell apart. *CliFiles*: two processes race for each name, with a clearer; one
legacy file suffices to be half removed. *Battle*: profiles have no more interaction than
one battle, so the matches are the interesting pairs; TLC takes every choice among lines.
Its runs check deadlock, which is its termination: a slot always has a next one.
`CHECK_DEADLOCK FALSE` stands where a terminated run has no step left.

Fairness. The dealing loop is synchronous code and each request of a collection has a
timeout, so `Collecting` has weak fairness of its next step. `Invocation` assumes that
prompts are answered and requests end, not that other processes do anything. `DeviceFlow`
assumes fairness only of timers (request timeout, launch timeout, sleep, clock), not of
GitHub or the user; `IsolatedParser` only of the program and the clock, not of the worker.
`PrivateContext` and `CliFiles` state fairness of the program but check safety.

Disagreements between the code and its own statements, each with a run whose
counterexample TLC prints:

* `InvocationWarm`: a snapshot that is found in the cache is read with another source
  allowance than the run that collected it had, hence under another key; the preflight
  probes a third one (`preflight.ts:120` against `analyze.ts:29`, and against
  `docs/BENCHMARKS.md`, where a fully warm run makes no request). `ServedInScope` is the
  part that holds: nobody is shown a reading of another allowance.
* `BattleFinisher`: no template of the finisher phrases `verdict_margin`, so a battle of
  two quiet profiles has no finisher and the command fails (`engine.ts:213` against its
  comment). `MatchupAlways` is the part that holds.
* `SourceSampleKept`: the seventeenth failure is not written down, and when it is a rate
  limit the partial reading passes for a lasting one and is kept
  (`source-sample.ts:354` against `code-dna.test.ts:561`). `KeptReadingsLast` is the part
  that holds.

Others were met while modelling; the models have them, and no property claims the
opposite:

* a plan made after a sign-in at the quality question is not brought back to the
  canonical gate (`cli.ts:1394` against `cli.ts:1333-1348`): a signed-in run may begin
  with limited caps nobody accepted. `BeginsAsPlanned` claims consent of anonymous plans
  only.
* warm quality caches give a tier without the allowance being read
  (`request-plan.ts:171` against the comment at 165 and `docs/QUALITY_JUDGE.md`).
* a second event page that fails leaves a window that is not marked truncated
  (`collect.ts:166-172` against `signals.ts:385`).
* a cancel during the reading of a body is reported as a malformed response
  (`device-flow.ts:83-89`).
* every setup recheck starts with fresh counters (`cli.ts:728`), so an invocation may send
  more than the 64 requests `SECURITY.md` names; `WithinCeilings` is about one run.

Behaviour a maintainer may want to know of, visible in the models:

* Invocation: a plan that is "complete" because a reading was found may still send four
  source requests per profile, also when nothing is left (`AllowanceKept` excludes it by
  its premise). A limited snapshot is served to complete runs for its 15 minutes. A
  signed-in run with the limited tier looks its quality result up under other caps than
  the preflight did. A quality result is stored although GitHub failed some requests.
  After a sign-in a run asks GitHub for the login (`cli.ts:1435`) when its plan is already
  made; a limited plan gives the whole allowance away, so the run may send one request more
  than there is (`AllowanceKept` is about the profiles' requests, and says that nothing but
  this one comes beside them).
  With private repositories the exit code is 0, and an export is written without the
  private part, when the user declines it at the setup prompt (`ExitTellsAll` excepts it);
  an interrupt at that prompt loses the public result as well.
* Collector: an answer of status 200 and another shape costs evidence without a degradation
  (`collect.ts:140`, 219, 277 and 283-292, with `normalize.ts`): a repository page that is
  no list ends the list as complete, a tree, release list, language table or commit list
  is empty. Releases after the first page are missing in silence, too. `LossIsStated` is
  about requests and page limits only.
* PrivateContext: a tree that GitHub truncated, a sample that ends on the last byte of its
  ceiling, and a listing page that fails leave no limitation. Only repositories with a push date are sampled. The
  per-repository ceiling leaves no room to attribute more than four of its files.
* CliFiles: a process killed between the creation and the writing of the marker leaves a
  root that no invocation uses and `--clear-cache` refuses. If the link succeeds and the
  unlink fails, the export is there and reported as failed; if the clean-up throws, the
  invocation ends as an internal error.
* Battle: the filters against repeated Aura Leaks (`dedupeAuraLeakMotifs`,
  `suppressAuraLeakDuplicate`) never remove anything, whatever the profiles (theorem
  `FiltersAreIdle`). The comment above the first one says that the leak's premise "has not
  consumed the engine's motif budget"; the engine reserves it before the first line.

## 4. Proofs

All with TLAPS, from the named assumptions on the constants only; TLC evaluates each of
them on a run.

* `FileCacheProofs`: `Typed`, `HitsAreSound`, `ImplementsLossyCache`,
  `ReplacementIsAtomic`, `LonelySetsPublish`. `HitSound` is not inductive: a get returns
  what it read, so the invariant `IInv` follows every chunk back to its writer: whatever
  is in an inode, a read buffer or a job stems from an envelope some process really began
  to store, so a text that passes `Whole` is one of them entirely. `AtomicReplace` needs a
  second invariant, `Solitary`: while no sets have overlapped, the inode of the one writer
  is either behind `tmp` or nowhere, hence never behind `path` while incomplete. For a set
  that ran alone, `Alone` follows its envelope from the open over each chunk to the
  rename, starting from a `tmp` that a killed writer may have left (`Clean`). The
  refinement maps every step that changes `begun` to `Offer`, a get's end to `Answer`,
  the clock to `Tick`, and all others to stuttering.
* `CollectingProofs`, in three parts. The dealing loop: `DealingTyped`,
  `AllowanceIsSpent`, `DealingIsFair`. `DealInv` says that the caps dealt plus the unassigned rest equal
  the allowance, that caps stay between minimum and expected, and that a pass that has
  granted nothing so far found every profile it passed full; together with "the allowance
  is below what is expected" the loop cannot end with a rest. `FairInv` adds the shape of the caps: those of some
  number of whole passes, plus one for the profiles the next pass has served (`Midway`).
  More passes never take anything back (`PassesMonotone`) and the next one always grants
  something while the allowance is limited (`LastWholePass`), so exactly one number of
  passes fits what was dealt, and the loop ends with the caps of the closed form
  (`MidwayIsFair`). The collection:
  `CollectionTyped`, `BudgetIsRespected`, `EventsAreOptional`, `MinimumBuysEvidence`,
  `LossesAreStated`, `KeepsToItsCap`. `CollectInv` gives for each phase the most that can
  have been spent when it is reached (`PhaseCeiling`) and, once an event page was read,
  that the reserve for inspections and the commit sample is still there (`PhaseReserve`).
  `Admitted` keeps what was lost stated and the completeness of the list true to it at every
  step.
  Both together, of `CollectingSpec`: `PlanIsUseful`, `ShareIsKept`. The first is what
  `PlanPaysOff` says of a collection that is through; it rests on `MinimumPaysInspection`,
  that the planner's minimum of 6 pays the user, two repository pages and one inspection.
* `InvocationProofs`: `CollectionBeginsAsPlanned`, `PlanBoundsSpending`,
  `RunKeepsAllowance`, `ReadingsServedInScope`, `ExitCodeTellsAll`,
  `PrivateRunsLeaveNothing`. They hold for every allowance and every value of the
  planner's constants, which rests on lemmas about the planner: the closed form of the
  caps hands out what is there and no more (`FairCapsSpendAll`), the preview gets only what
  a plan leaves (`PreviewIsSpare`), so what a plan promises fits the allowance
  (`PlanIsHonest`). The rounds of the deal are counted by a least number, which
  `LeastNatural` provides. `PreflightInv` carries plan, identity and consent up to the
  collection; `InvocationInv` adds that a cached reading is filed under the allowance it
  was made with (`ReadingsKeyed`), that each stage has spent at most its part
  (`SpentInOrder`), that the question beside the plan follows a sign-in (`AsideKept`), and that what is shown was found or made under the run's own key
  (`ShownInScope`).
* `TerminalProofs`, the sign-in: `PaceIsKept`, `UnwantedIsNotAsked`, `LinkIsAtHand`.
  `Timed` ties the two views of the pace: the interval of the loop never falls below the
  announced one, and a sleep ends no earlier than that much after the last request.
  `Linked` says that an open interaction shows the link unless a browser is, or is being,
  opened.
* `TerminalProofs`, the battle: `NothingIsOverused`, `MatchupIsNeverMissing`, `ThinIsTold`,
  `WordsAgree`, `FiltersAreIdle`. `BattleInv` is what a page keeps while it grows. The
  numbers on it are those of the two cards (`Fought`). Every line stems from a template of
  its slot whose atom fired (`FromTemplate`), and its words fit the numbers (`Worded`),
  which is a lemma over the atoms that can be told. A premise and a fact stay in their
  budgets, the identity cards counted (`Budgets`). A slot is only told in its turn
  (`Staged`), and from the caveat on a thin profile has been warned of, unless both are
  stealth builders (`Warned`). The matchup line is there because no identity card can spend
  the premise of the scoreline and only a finisher was told before it (`MatchupIsThere`),
  the caveat because nothing told earlier uses its templates (`CaveatIsThere`); where an
  atom qualifies, the lines of a slot are those of one best atom (`LinesOfOne`).
  The boundary is `NumbersAssumption` in `MemeEngine`: that what the analysis makes of a
  snapshot are numbers. The analysis folds over repositories, so this is induction over
  data; TLC evaluates it for the 30 profiles of the battles.
* `SourceSampleProofs`: `Typed`, `AllowanceIsKept`, `BytesAreBounded`, `TestsSupplement`,
  `ReceiptsAccount`, `KeptReadingsAreClean`, `AnswersAgree`. The parts of the invariant:
  every blob that was requested is behind an opened opportunity, and each request paid for
  a blob of its own (`Paid`); what a derived entry or a memo says fits the limit in its key
  (`Contents`); samples are placed and fit (`SoundSamples`), also those of a stored
  reading; everything in `met` is in `receipts` unless these are full (`Counted`), which
  also holds of a kept reading (`Kept`). `AnswersAgree` relates whole invocations:
  `Follows` is a sampling that knows what every blob holds and never meets a failure, with
  at most one step from each view; every step of the code without a failure follows it
  (`StepFollows`), whichever cache it was answered from; so each clean reading is at the
  end of a `Trail` from the start, two trails end alike (`OneWay`), and blobs read later
  do not bend an old trail (`KnowingMore`). A derived entry says what the file of its key
  holds (`Remembered`): the proof fails when the key leaves out the file.
* `PrivateContextProofs`: `TokenIsGone`, `PrivateTyped`, `CeilingsHold`, `LossesAreTold`,
  `SamplesAreFair`, `ReadyIsComplete`. `Leased` has the places at which the lease is in
  use. `PrivateInv` ties the counters of `boundedFetch` to those of the two clients
  (`Counters`, `Wired`) and what was offered and gathered to the sample; `Progress` follows
  each phase: a repository not confirmed, a file not read and an author not looked up has a
  limitation by the time its turn is over. Totals over sequences grow by what is appended
  (`TotalAppend`); a ranked set is listed in its order, each element once (`Ranking`), so no
  repository gets two files ahead of one that has more to offer (`TurnsAreFair`). Two assumptions on the constants matter: every tier
  that collects may ask for at least as many revisions as repositories are sampled (5 or
  21 requests for 3 repositories), and no two files of a repository share a place in the
  ranking.
* `IsolatedParserProofs`: `Typed`, `ProfileTimeIsKept`, `AnswersAreUsed`, `NoWorkerIsLeft`.
  A file is only sent to a worker that owes no answer, so the mailbox holds the file that
  is waited for or nothing (`Mailbox`); every timer is set from what is left of the
  profile's deadline, so it falls due before it, one tick excepted (`Deadline`); only
  files that were dealt with have been answered, and only answered ones are parsed
  (`Credited`).
* `CliFilesProofs`: `WholeExports`, `TrueReports`, `NothingIsReplaced`, `LayoutsApart`,
  `RaceIsWon`, `MarkersLast`, `ForeignIsSafe`, `RefusalsAreClean`, for any number of
  processes. `Export(p)` says what a process knows of its own file; a step of
  another leaves it true, because the only thing they share is the destination, and that
  changes only from nobody's (`StepOfOne`). `RootInv` says that whoever is past the check
  of the shape has seen the old layout gone, which never comes back; that foreign content
  stops everybody at the first look; and that only a clear, which is counted as harm,
  removes a marker. `Untouched` ties the two: an invocation in its arguments has no part
  in the root. `RaceIsWon` needs `Race`, which relates all processes: as long as there was
  no harm, a marker has a maker that is about to write it, to read it, or has the root;
  and while there is none, an absent root has somebody who is about to make it. So nobody
  is refused by the root without another one left who gets it (`RaceSteps`). It assumes
  only that there is a process.

Theorems state every safety invariant and every action property of the passing runs. Only
model-checked are:

* all liveness (`PlanPaysOff`, `InvocationEnds`, `Ends`, `ParsingEnds`), which is out of
  the provers' reach. Of `PlanPaysOff` the rest is proved: the caps the loop ends with
  and what a collection with such a cap has inspected.
* the numbers of the analysis: the golden scores, the calibration and the coherence of the
  identities, which `MCBattle` evaluates for its profiles.

## 5. Not modelled

The personality axes, the story and the source features work on the text of source
files, which the models abstract; path patterns and redaction match characters. Progress,
rendering and sharing are layout and wording, and nothing reads what they leave. The
format checks of GitHub's answers are data: where the code refuses an answer it is a
failure of the models, where the collector reads less of it in silence it is `Reads`. Stream errors of the
process entry, the in-process snapshot cache (the CLI does not use it), and the build,
release and acceptance scripts stay out. Within the modelled parts, `PROJECT.json` says of
each component what is left out.

Some steps of the models are coarser than the code. `CheckRoot` looks at the root in one
step where the code makes several system calls; subdirectories of a legacy cache are left
out. `ScanEntry` reads an entry file at once. `Preflight` has one flag for the terminal of
the input and that of the output. All processes share one clock, so a skew between them is
not covered by `LossySpec`. A private run can be cancelled at the setup prompt and by what
ends a sign-in, not in the middle of a request; a lease used by a callback that throws, or
again after `dispose`, is not among its steps. `PrivateLeavesNothing` is about the caches
and their root; an export is written on request.

What would come next: a second destination and foreign content that appears during a run
in `CliFiles`; the choice of the entries an overfull cache evicts; and that no atom of the
catalogue is out of reach of every profile.
