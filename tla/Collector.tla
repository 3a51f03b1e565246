----------------------------- MODULE Collector ------------------------------
(***************************************************************************)
(* The canonical collection of one profile (github/collect.ts) through its *)
(* GithubHttpClient (github/http.ts): user, repository pages, event pages, *)
(* the inspection of the selected repositories and one commit sample, one  *)
(* request per step, each of which may fail, inside one request cap.       *)
(*                                                                         *)
(* A page is full when it has as many entries as were asked for, so that   *)
(* GitHub may have more of the list; otherwise it is the last one.  What a  *)
(* failed request, a request that is not made or a page limit costs the    *)
(* snapshot is recorded in "lost", what the snapshot says of itself        *)
(* (degradations, inspection failures) in "stated".  That a reader left    *)
(* out part of an answer is "misread"; the snapshot does not say it.       *)
(***************************************************************************)
EXTENDS Naturals, FiniteSets

CONSTANTS GivenCaps,             \* the request caps a plan may give
          RepositoryPages,  \* REQUEST_BUDGETS (2)
          EventPages,       \* (2)
          Inspected,        \* inspectedRepositories (3)
          PerRepository     \* requests of one inspection (3)

ASSUME CollectorAssumption ==
  /\ GivenCaps \subseteq Nat
  /\ RepositoryPages \in Nat \ {0} /\ EventPages \in Nat \ {0}
  /\ Inspected \in Nat /\ PerRepository \in Nat \ {0}

VARIABLES cap,       \* maxRequests of the client
          used,      \* requestsUsed
          pc,
          page,      \* page of the list being read
          selected,  \* repositories selected for inspection
          inspected, \* repositories inspected
          endpoint,  \* requests made for the repository being inspected
          eventsRead,       \* event pages that arrived
          listComplete,     \* repositoryListComplete
          eventsAvailable,
          truncated,        \* eventWindow.truncated
          commit,           \* was the commit sample requested
          lost, stated,
          misread    \* was an answer read as less than it should have held?

list == <<listComplete, eventsAvailable, truncated>>
repos == <<selected, inspected, endpoint, commit>>
vars == <<cap, used, pc, page, repos, eventsRead, list, lost, stated, misread>>

Losses == {"repositories", "events", "inspection", "commit"}

Init ==
  /\ cap \in GivenCaps
  /\ used = 0
  /\ pc = "cache"
  /\ page = 1
  /\ selected = 0 /\ inspected = 0 /\ endpoint = 0 /\ commit = FALSE
  /\ eventsRead = 0
  /\ listComplete = TRUE /\ eventsAvailable = TRUE /\ truncated = FALSE
  /\ lost = {} /\ stated = {} /\ misread = FALSE

CanSpend(n) == used + n <= cap

\* A request is counted before it is sent; without budget none is sent.
\* Mutant: a retry is sent without asking the budget.
SendRetrying == CanSpend(1) /\ used' \in {used + 1, used + 2}
Send == CanSpend(1) /\ used' = used + 1
SendFails == IF CanSpend(1) THEN used' = used + 1 ELSE used' = used

\* An answer of status 200 is read as far as it is readable, without a word about
\* the rest: a body of another shape counts as an empty one, an entry of another
\* shape is skipped, and the releases after the first page are not asked for.
Reads == misread' \in {misread, TRUE}

Goto(label) == pc' = label
-----------------------------------------------------------------------------
\* A valid cached snapshot is the answer; otherwise a client is created.
LookUp ==
  /\ pc = "cache"
  /\ Goto("cached") \/ Goto("user")
  /\ UNCHANGED <<cap, used, page, repos, eventsRead, list, lost, stated, misread>>

ReadUser ==
  /\ pc = "user"
  /\ \/ Send /\ Goto("repositories")
     \/ SendFails /\ Goto("failed")       \* an error, or an unreadable profile
  /\ UNCHANGED <<cap, page, repos, eventsRead, list, lost, stated, misread>>

FullRepositoryPage ==
  /\ pc = "repositories" /\ Send /\ Reads
  /\ IF page < RepositoryPages
     THEN page' = page + 1 /\ UNCHANGED <<pc, list, lost, stated>>
     ELSE /\ listComplete' = FALSE
          /\ lost' = lost \cup {"repositories"}
          /\ stated' = stated \cup {"repositories"}
          /\ page' = 1 /\ Goto("events")
          /\ UNCHANGED <<eventsAvailable, truncated>>
  /\ UNCHANGED <<cap, repos, eventsRead>>

\* Also a page whose body is not a list: the list ends there and is complete as
\* far as the snapshot says.
LastRepositoryPage ==
  /\ pc = "repositories" /\ Send /\ Reads
  /\ page' = 1 /\ Goto("events")
  /\ UNCHANGED <<cap, repos, eventsRead, list, lost, stated>>

\* Mutant: a later page that fails ends the list as if it were its end.
RepositoriesFailSilently ==
  /\ pc = "repositories" /\ SendFails
  /\ IF page = 1
     THEN Goto("failed") /\ UNCHANGED <<page, list, lost, stated>>
     ELSE /\ lost' = lost \cup {"repositories"}
          /\ page' = 1 /\ Goto("events")
          /\ UNCHANGED <<list, stated>>
  /\ UNCHANGED <<cap, repos, eventsRead, misread>>

\* Without the first page there is no profile; a later one only costs evidence.
RepositoriesFail ==
  /\ pc = "repositories" /\ SendFails
  /\ IF page = 1
     THEN Goto("failed") /\ UNCHANGED <<page, list, lost, stated>>
     ELSE /\ listComplete' = FALSE
          /\ lost' = lost \cup {"repositories"}
          /\ stated' = stated \cup {"repositories"}
          /\ page' = 1 /\ Goto("events")
          /\ UNCHANGED <<eventsAvailable, truncated>>
  /\ UNCHANGED <<cap, repos, eventsRead, misread>>
-----------------------------------------------------------------------------
\* What an event page must leave: the inspections, and the commit sample.
Reserve == Inspected * PerRepository + 1

\* Mutant: event pages are read as long as any request is left.
MayReadEventsAny == CanSpend(1)
MayReadEvents == CanSpend(1 + Reserve)

EventsStop ==
  /\ pc = "events" /\ ~MayReadEvents
  /\ truncated' = TRUE
  /\ lost' = lost \cup {"events"}
  /\ stated' = stated \cup {"events"}
  /\ Goto("rank")
  /\ UNCHANGED <<cap, used, page, repos, eventsRead, listComplete, eventsAvailable, misread>>

FullEventPage ==
  /\ pc = "events" /\ MayReadEvents /\ Send /\ Reads
  /\ eventsRead' = eventsRead + 1
  /\ IF page < EventPages
     THEN page' = page + 1 /\ UNCHANGED <<pc, truncated, lost, stated>>
     ELSE /\ truncated' = TRUE
          /\ lost' = lost \cup {"events"}
          /\ stated' = stated \cup {"events"}
          /\ Goto("rank") /\ UNCHANGED page
  /\ UNCHANGED <<cap, repos, listComplete, eventsAvailable>>

LastEventPage ==
  /\ pc = "events" /\ MayReadEvents /\ Send /\ Reads
  /\ eventsRead' = eventsRead + 1
  /\ Goto("rank")
  /\ UNCHANGED <<cap, page, repos, list, lost, stated>>

\* A first page that fails is stated; a later one is the end of the feed as far
\* as the snapshot says.
EventsFail ==
  /\ pc = "events" /\ MayReadEvents /\ SendFails
  /\ lost' = lost \cup {"events"}
  /\ \/ page = 1 /\ eventsAvailable' = FALSE /\ stated' = stated \cup {"events"}
     \/ page > 1 /\ UNCHANGED <<eventsAvailable, stated>>
  /\ Goto("rank")
  /\ UNCHANGED <<cap, page, repos, eventsRead, listComplete, truncated, misread>>
-----------------------------------------------------------------------------
\* How many repositories are eligible is up to the profile.
Rank ==
  /\ pc = "rank"
  /\ selected' \in 0..Inspected
  /\ Goto("inspect")
  /\ UNCHANGED <<cap, used, page, inspected, endpoint, commit, eventsRead, list, lost, stated,
                 misread>>

\* Mutant: an inspection also reserves the commit sample.
MayInspectWithCommit == CanSpend(PerRepository + 1)
MayInspect == CanSpend(PerRepository)

InspectStops ==
  /\ pc = "inspect" /\ endpoint = 0 /\ inspected < selected /\ ~MayInspect
  /\ lost' = lost \cup {"inspection"}
  /\ stated' = stated \cup {"inspection"}
  /\ Goto("commit")
  /\ UNCHANGED <<cap, used, page, repos, eventsRead, list, misread>>

\* languages, releases, tree: a failed one is listed in the inspection, what an
\* answer is not read for is not.
InspectOne ==
  /\ pc = "inspect" /\ inspected < selected
  /\ endpoint = 0 => MayInspect
  /\ \/ Send /\ Reads /\ UNCHANGED <<lost, stated>>
     \/ /\ SendFails
        /\ lost' = lost \cup {"inspection"}
        /\ stated' = stated \cup {"inspection"}
        /\ UNCHANGED misread
  /\ IF endpoint + 1 = PerRepository
     THEN endpoint' = 0 /\ inspected' = inspected + 1
     ELSE endpoint' = endpoint + 1 /\ inspected' = inspected
  /\ UNCHANGED <<cap, pc, page, selected, commit, eventsRead, list>>

InspectEnds ==
  /\ pc = "inspect" /\ inspected = selected
  /\ Goto("commit")
  /\ UNCHANGED <<cap, used, page, repos, eventsRead, list, lost, stated, misread>>

NoCommit ==
  /\ pc = "commit" /\ (selected = 0 \/ ~CanSpend(1))
  /\ IF selected = 0 THEN UNCHANGED <<lost, stated>>
     ELSE lost' = lost \cup {"commit"} /\ stated' = stated \cup {"commit"}
  /\ Goto("done")
  /\ UNCHANGED <<cap, used, page, repos, eventsRead, list, misread>>

Commit ==
  /\ pc = "commit" /\ selected > 0 /\ CanSpend(1)
  /\ commit' = TRUE
  /\ \/ Send /\ Reads /\ UNCHANGED <<lost, stated>>
     \/ /\ SendFails
        /\ lost' = lost \cup {"commit"} /\ stated' = stated \cup {"commit"}
        /\ UNCHANGED misread
  /\ Goto("done")
  /\ UNCHANGED <<cap, page, selected, inspected, endpoint, eventsRead, list>>
-----------------------------------------------------------------------------
Next == \/ LookUp \/ ReadUser
        \/ FullRepositoryPage \/ LastRepositoryPage \/ RepositoriesFail
        \/ EventsStop \/ FullEventPage \/ LastEventPage \/ EventsFail
        \/ Rank \/ InspectStops \/ InspectOne \/ InspectEnds
        \/ NoCommit \/ Commit

\* Every request is answered or times out, and nothing else is waited for.
Spec == Init /\ [][Next]_vars /\ WF_vars(Next)
-----------------------------------------------------------------------------
PCs == {"cache", "cached", "user", "repositories", "events", "rank", "inspect",
        "commit", "done", "failed"}

\* The shape of a collection: never more repositories, inspections or event pages
\* than its limits name, and never an inspection of an unselected repository.
TypeOK ==
  /\ cap \in Nat /\ used \in Nat
  /\ pc \in PCs
  /\ page \in Nat \ {0}
  /\ selected \in 0..Inspected /\ inspected \in 0..selected
  /\ endpoint \in 0..(PerRepository - 1)
  /\ eventsRead \in 0..EventPages
  /\ listComplete \in BOOLEAN /\ eventsAvailable \in BOOLEAN /\ truncated \in BOOLEAN
  /\ commit \in BOOLEAN
  /\ lost \subseteq Losses /\ stated \subseteq Losses /\ misread \in BOOLEAN

\* The client never sends more requests than its cap, and a collection leaves
\* at least one request of a complete profile to the source analysis, whatever
\* the profile looks like and whichever requests fail.
MetadataCeiling == 1 + RepositoryPages + EventPages + Inspected * PerRepository + 1
BudgetRespected == used <= cap /\ used <= MetadataCeiling

\* Event pages are optional: they are read out of what the inspections and the
\* commit sample do not need, so a snapshot that has any has all of these.
EventsKeepReserve ==
  pc = "done" /\ eventsRead > 0 => inspected = selected /\ (selected > 0 => commit)

\* The smallest cap a limited plan gives buys an inspected repository: the user,
\* every repository page and one inspection fit in it.
MinimumIsUseful ==
  pc = "done" /\ cap >= 1 + RepositoryPages + PerRepository /\ selected > 0 => inspected > 0

\* A snapshot admits what its requests cost it: whatever it lacks because a request
\* failed or was not made, or because of a page limit, is stated, with the exception
\* of events after the first page; and it calls the repository list complete just
\* when all of its pages arrived. Nothing states what an answer was not read for.
LossIsStated ==
  pc = "done" =>
    /\ lost \ {"events"} \subseteq stated
    /\ listComplete = ("repositories" \notin lost)

Budget == INSTANCE RequestBudget WITH over <- pc \in {"cached", "done", "failed"}

\* The collector is a client that keeps to its cap (RequestBudget): one request
\* at a time, none beyond the cap, none after the answer.
BudgetSpec == Budget!Spec
=============================================================================
