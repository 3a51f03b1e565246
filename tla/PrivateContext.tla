--------------------------- MODULE PrivateContext --------------------------
(***************************************************************************)
(* A Private Context run: collectPrivateContext of packages/cli/src/cli.ts  *)
(* authorizes once, holds the token in a one-use lease, and under it calls  *)
(* runPrivateContext (packages/private-context/src/run.ts), again after     *)
(* each setup step the person reports as done, at most MaxRechecks times.   *)
(* The run checks the identity and the installations, lists and ranks the   *)
(* private repositories, inspects the best of them, and hands those to the  *)
(* source collection of QualitySource, every request passing boundedFetch.  *)
(*                                                                          *)
(* Repositories are numbered as privateRank orders them, best first. The    *)
(* same module starts the public collection of a profile as an alternative. *)
(***************************************************************************)
EXTENDS QualitySource

CONSTANTS
    Listing,        \* the repositories of each installation, as GitHub lists them
    PageSize,       \* repositories per page (100)
    MaxPages,       \* pages read per installation (5)
    MaxConsidered,  \* PRIVATE_CONTEXT_MAX_REPOSITORIES
    Maintained,     \* repositories the person maintains
    Pushed,         \* repositories with a push date
    MaxRechecks,    \* setup steps the command waits for (3)
    PublicCaps,     \* the request caps a plan gives a public collection
    PrivateCaps     \* those of a private one

ASSUME PrivateAssumption ==
    /\ Repos \subseteq Nat \ {0} /\ IsFiniteSet(Repos)
    /\ Maintained \subseteq Repos /\ Pushed \subseteq Repos
    /\ Listing \in Seq(Seq(Repos))
    /\ PublicCaps \union {PrivateCaps} \subseteq [source : Nat, attribution : Nat]
    \* Every tier that collects at all may ask for the revision of each sampled
    \* repository (5 or 21 requests for 3 repositories).
    /\ \A cap \in PublicCaps \union {PrivateCaps} : MaxSampled <= cap.source
    /\ {PageSize, MaxPages, MaxConsidered, MaxRechecks} \subseteq Nat \ {0}

VARIABLES
    pc,         \* what the command does next
    lease,      \* has the lease the token, and is it in use?
    page,       \* the next page: [installation, number]
    found,      \* repositories listed
    considered, \* those considered, in rank order
    inspected,  \* those whose revision and tree could be read, in rank order
    turn,       \* position in "considered"
    told,       \* the run's own limitations
    answer,     \* what the run returned: an error code, a status, or "none"
    rechecks    \* setup steps reported as done

privateVars == <<pc, lease, page, found, considered, inspected, turn, told,
                 answer, rechecks>>
vars == <<qualityVars, privateVars>>

SetupErrors == {"installation_required", "selected_repositories_required"}
FinalErrors == {"unavailable", "identity_mismatch", "permissions_invalid",
                "privacy_violation"}
Statuses == {"ready", "partial", "insufficient"}

-----------------------------------------------------------------------------
PrivateInit ==
    /\ QualityInit
    /\ pc \in {"authorize", "public"}
    /\ lease = [token |-> FALSE, inUse |-> FALSE]
    /\ page = [installation |-> 1, number |-> 1]
    /\ found = {} /\ considered = <<>> /\ inspected = <<>> /\ turn = 1
    /\ told = <<>> /\ answer = "none" /\ rechecks = 0

\* The run's own client passes boundedFetch; its cap is boundedFetch's total.
\* r is 0 for a request about no repository.
Request(r, answered) ==
    LET fits == wire.total < MaxRequests /\ (r # 0 => wire.repo[r] < MaxPerRepository)
    IN  /\ answered => fits
        /\ wire' = IF ~fits THEN wire
                   ELSE IF r = 0 THEN [wire EXCEPT !.total = @ + 1] ELSE Count(r)

Tell(code) == told' = Append(told, code)

Return(a) == answer' = a /\ pc' = "returned"

-----------------------------------------------------------------------------
(* The lease and the setup steps. *)

Authorize ==
    /\ pc = "authorize"
    /\ \/ pc' = "start" /\ lease' = [token |-> TRUE, inUse |-> TRUE]
       \/ pc' = "ended" /\ UNCHANGED lease
    /\ UNCHANGED <<qualityVars, page, found, considered, inspected, turn, told,
                   answer, rechecks>>

\* Every call of runPrivateContext starts with counters of its own.
StartRun ==
    /\ pc = "start"
    /\ pc' = "user"
    /\ wire' = [total |-> 0, repo |-> [r \in Repos |-> 0]]
    /\ page' = [installation |-> 1, number |-> 1]
    /\ found' = {} /\ considered' = <<>> /\ inspected' = <<>> /\ turn' = 1
    /\ told' = <<>> /\ answer' = "none"
    /\ UNCHANGED <<stage, bounded, caps, sample, offered, confirmed, at, files,
                   limitations, used, lease, rechecks>>

\* Mutant: only the mark of use is cleared.
ClosedKeepingToken == [token |-> TRUE, inUse |-> FALSE]

\* What use's finally and dispose leave of the lease.
Closed == [token |-> FALSE, inUse |-> FALSE]

MayRecheck == answer \in SetupErrors /\ rechecks < MaxRechecks

\* The run returned: a setup error may be worth a prompt, anything else ends.
Returned ==
    /\ pc = "returned"
    /\ \/ MayRecheck /\ pc' = "prompt" /\ UNCHANGED lease
       \/ pc' = "ended" /\ lease' = Closed
    /\ UNCHANGED <<qualityVars, page, found, considered, inspected, turn, told,
                   answer, rechecks>>

\* Enter runs again; p and q, or a prompt that throws, end the use of the lease.
Answer ==
    /\ pc = "prompt"
    /\ \/ pc' = "start" /\ rechecks' = rechecks + 1 /\ UNCHANGED lease
       \/ pc' = "ended" /\ lease' = Closed /\ UNCHANGED rechecks
    /\ UNCHANGED <<qualityVars, page, found, considered, inspected, turn, told,
                   answer>>

-----------------------------------------------------------------------------
(* runPrivateContext. *)

AskUser ==
    /\ pc = "user"
    /\ \/ Request(0, FALSE) /\ Return("unavailable")
       \/ Request(0, TRUE) /\ Return("identity_mismatch")
       \/ Request(0, TRUE) /\ pc' = "installations" /\ UNCHANGED answer
    /\ UNCHANGED <<stage, bounded, caps, sample, offered, confirmed, at, files, limitations,
                   used, lease, page, found, considered, inspected, turn, told, rechecks>>

AskInstallations ==
    /\ pc = "installations"
    /\ \/ Request(0, FALSE) /\ Return("unavailable")
       \/ Request(0, TRUE) /\ \E e \in SetupErrors \union {"permissions_invalid"} : Return(e)
       \/ Request(0, TRUE) /\ pc' = "list" /\ UNCHANGED answer
    /\ UNCHANGED <<stage, bounded, caps, sample, offered, confirmed, at, files, limitations,
                   used, lease, page, found, considered, inspected, turn, told, rechecks>>

PageOf(p) ==
    LET all == Listing[p.installation]
        first == (p.number - 1) * PageSize + 1
        last == p.number * PageSize
    IN  SubSeq(all, first, IF last < Len(all) THEN last ELSE Len(all))

NextInstallation == [installation |-> page.installation + 1, number |-> 1]

\* A page that fails or makes no sense ends its installation, without a word.
ListPage ==
    /\ pc = "list" /\ page.installation <= Len(Listing)
    /\ \/ Request(0, FALSE) /\ page' = NextInstallation /\ UNCHANGED found
       \/ /\ Request(0, TRUE)
          /\ found' = found \union ToSet(PageOf(page))
          /\ page' = IF Len(PageOf(page)) < PageSize \/ page.number = MaxPages
                     THEN NextInstallation
                     ELSE [page EXCEPT !.number = @ + 1]
    /\ UNCHANGED <<stage, bounded, caps, sample, offered, confirmed, at, files, limitations,
                   used, lease, pc, considered, inspected, turn, told, answer, rechecks>>

Consider ==
    /\ pc = "list" /\ page.installation > Len(Listing)
    /\ LET ranked == Ascending(found)
           over == Len(ranked) > MaxConsidered
       IN  /\ considered' = IF over THEN SubSeq(ranked, 1, MaxConsidered) ELSE ranked
           /\ IF over THEN Tell("repository-limit") ELSE UNCHANGED told
    /\ pc' = "revision"
    /\ UNCHANGED <<qualityVars, lease, page, found, inspected, turn, answer,
                   rechecks>>

Looking == turn <= Len(considered)

\* Mutant: the repository is skipped without a limitation.
SkipQuietly == UNCHANGED told /\ turn' = turn + 1 /\ pc' = "revision"

SkipRepository == Tell("source-unavailable") /\ turn' = turn + 1 /\ pc' = "revision"

AskRevision ==
    /\ pc = "revision" /\ Looking
    /\ \/ Request(considered[turn], FALSE) /\ SkipRepository
       \/ Request(considered[turn], TRUE) /\ pc' = "tree" /\ UNCHANGED <<told, turn>>
    /\ UNCHANGED <<stage, bounded, caps, sample, offered, confirmed, at, files, limitations,
                   used, lease, page, found, considered, inspected, answer, rechecks>>

AskTree ==
    /\ pc = "tree"
    /\ \/ Request(considered[turn], FALSE) /\ SkipRepository
       \/ Request(considered[turn], TRUE) /\ pc' = "releases" /\ UNCHANGED <<told, turn>>
    /\ UNCHANGED <<stage, bounded, caps, sample, offered, confirmed, at, files, limitations,
                   used, lease, page, found, considered, inspected, answer, rechecks>>

\* Releases that cannot be read count as none.
AskReleases ==
    /\ pc = "releases"
    /\ Request(considered[turn], FALSE) \/ Request(considered[turn], TRUE)
    /\ inspected' = Append(inspected, considered[turn])
    /\ turn' = turn + 1 /\ pc' = "revision"
    /\ UNCHANGED <<stage, bounded, caps, sample, offered, confirmed, at, files, limitations,
                   used, lease, page, found, considered, told, answer, rechecks>>

\* selectSampleRepositories drops what was never pushed and ranks the rest anew.
StartCollection ==
    /\ pc = "revision" /\ ~Looking
    /\ \E rs \in SetToSeqs(ToSet(inspected) \intersect Pushed) :
          BeginQuality(rs, PrivateCaps, TRUE)
    /\ pc' = "collect"
    /\ UNCHANGED <<wire, lease, page, found, considered, inspected, turn, told, answer,
                   rechecks>>

StartPublic ==
    /\ pc = "public"
    /\ \E rs \in SetToSeqs(Pushed), cap \in PublicCaps : BeginQuality(rs, cap, FALSE)
    /\ pc' = "collect"
    /\ UNCHANGED <<wire, lease, page, found, considered, inspected, turn, told, answer,
                   rechecks>>

Collect ==
    /\ pc = "collect" /\ CollectStep
    /\ UNCHANGED <<pc, lease, page, found, considered, inspected, turn, told, answer,
                   rechecks>>

\* The reading of the maintained files is ready or not, as the parser found
\* them; without files it is not.
StatusOf(ready) ==
    IF files = <<>> THEN "insufficient"
    ELSE IF told = <<>> /\ limitations = <<>> /\ ready THEN "ready"
    ELSE "partial"

MaintainedFiles == {n \in DOMAIN files : files[n].blob.repo \in Maintained}

FinishPrivate ==
    /\ pc = "collect" /\ stage = "collected" /\ bounded
    /\ \/ Return("privacy_violation")
       \/ \E ready \in BOOLEAN :
             (ready => MaintainedFiles # {}) /\ Return(StatusOf(ready))
    /\ UNCHANGED <<qualityVars, lease, page, found, considered, inspected, turn, told,
                   rechecks>>

FinishPublic ==
    /\ pc = "collect" /\ stage = "collected" /\ ~bounded
    /\ pc' = "ended"
    /\ UNCHANGED <<qualityVars, lease, page, found, considered, inspected, turn, told,
                   answer, rechecks>>

Step == Authorize \/ StartRun \/ Returned \/ AskUser \/ AskInstallations \/ ListPage
          \/ Consider \/ AskRevision \/ AskTree \/ AskReleases \/ StartCollection
          \/ StartPublic \/ Collect \/ FinishPrivate \/ FinishPublic

PrivateNext == Step \/ Answer

\* The program runs on by itself; only the person may leave the prompt open.
PrivateSpec == PrivateInit /\ [][PrivateNext]_vars /\ WF_vars(Step)

-----------------------------------------------------------------------------
\* No ceiling is passed, whatever fails and however often a run is repeated:
\* the caps of the two clients, the bytes, and, in a private run, the requests
\* in total and about each repository.
WithinCeilings ==
    /\ \A c \in DOMAIN used : used[c] <= caps[c]
    /\ BytesOf(files) <= MaxTotalBytes /\ Len(files) <= MaxFiles
    /\ wire.total <= MaxRequests
    /\ \A r \in Repos : wire.repo[r] <= MaxPerRepository

TotalTold == TotalOf([n \in DOMAIN limitations |->
                       IF limitations[n].code = "attribution-budget" THEN 0
                       ELSE limitations[n].files])

\* A file the sample offered and the collection does not have is counted by a
\* limitation: no budget, failure or drift shrinks the sample in silence. (The
\* one silent end is a sample that fills the byte ceiling to the last byte.)
LossIsTold ==
    stage = "collected" =>
        \/ Len(offered) - Len(files) <= TotalTold
        \/ BytesOf(files) = MaxTotalBytes

\* The repositories of a sample take turns: none is two files ahead of one
\* whose next file was left out by the limit.
FairSample ==
    LET taken(r) == Cardinality({n \in DOMAIN offered : offered[n].repo = r})
    IN  \A r, s \in ToSet(sample) :
            taken(s) < Len(Stratified[s]) => taken(r) <= taken(s) + 1

\* A result that calls itself ready left nothing out that it knew of: every
\* repository considered was inspected, every file selected from the sampled
\* ones was read, and the authors of every file were looked up.
ReadyMeansRead ==
    answer = "ready" =>
        /\ inspected = considered /\ considered = Ascending(found)
        /\ confirmed = ToSet(sample)
        /\ \/ Len(files) = Len(offered)
           \/ BytesOf(files) = MaxTotalBytes
        /\ Unchecked = {}

\* When the command is done with private data the token is gone, on every path.
TokenGone == pc = "ended" => ~lease.token /\ ~lease.inUse
=============================================================================
