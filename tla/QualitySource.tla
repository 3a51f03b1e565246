--------------------------- MODULE QualitySource ---------------------------
(***************************************************************************)
(* The source collection of the code-quality preview                       *)
(* (packages/github/src/quality-source.ts): confirm the revision of at most *)
(* MaxSampled repositories, read the blobs of an interleaved choice of     *)
(* their files under a request and a byte ceiling, look up who wrote each  *)
(* file, and say in "limitations" what was left out and why.               *)
(*                                                                         *)
(* The same code reads public repositories and, in a Private Context run,  *)
(* private ones; there every request passes "wire", the counters of        *)
(* boundedFetch, which answers 403 without sending once a counter is full. *)
(***************************************************************************)
EXTENDS Integers, SequencesExt

CONSTANTS
    Repos,            \* repositories
    Blobs,            \* source files: [repo, lane, rank, test, bytes]
    MaxSampled,       \* QUALITY_MAX_REPOSITORIES
    MaxImplementation, MaxTests,  \* QUALITY_MAX_*_FILES_PER_REPOSITORY
    MaxFiles,         \* QUALITY_MAX_FILES
    MaxTotalBytes,    \* QUALITY_MAX_TOTAL_BYTES
    MaxRequests,      \* PRIVATE_CONTEXT_MAX_REQUESTS
    MaxPerRepository  \* PRIVATE_CONTEXT_MAX_REQUESTS_PER_REPOSITORY

ASSUME QualityAssumption ==
    /\ {MaxSampled, MaxImplementation, MaxTests, MaxFiles, MaxTotalBytes,
        MaxRequests, MaxPerRepository} \subseteq Nat
    /\ IsFiniteSet(Blobs)
    /\ Blobs \subseteq [repo : Repos, lane : Nat, rank : Nat, test : BOOLEAN, bytes : Nat]
    \* rankSourceFiles: no two files of a repository have the same place.
    /\ \A f, g \in Blobs :
         f.repo = g.repo /\ f.test = g.test /\ f.rank = g.rank => f = g

VARIABLES
    stage,        \* "idle", "revisions", "blobs", "attribution", "collected"
    bounded,      \* do the requests pass boundedFetch?
    caps,         \* sourceRequestCap and attributionRequestCap
    sample,       \* the repositories to read from, in order
    offered,      \* their files in OpportunityOrder
    confirmed,    \* those whose revision is still the inspected one
    at,           \* position in the sequence the stage walks
    files,        \* files read, in order: [blob, status]
    limitations,  \* what was left out: [code, files]
    used,         \* requests each of the two clients spent
    wire          \* boundedFetch's total and per-repository counters

qualityVars == <<stage, bounded, caps, sample, offered, confirmed, at, files,
                 limitations, used, wire>>

-----------------------------------------------------------------------------
(* Which files, and in which order. *)

\* Is key k before key l, read from the left?
Lexical(k, l) == \E i \in DOMAIN k : k[i] < l[i] /\ \A j \in 1 .. i - 1 : k[j] = l[j]

LaneOf(f) == <<IF f.test THEN 1 ELSE 0, f.lane>>

BetterRanked(f) ==
    {g \in Blobs : g.repo = f.repo /\ g.test = f.test /\ g.rank < f.rank}

\* The best ranked implementations and tests of a repository.
Kept(r) == {f \in Blobs : f.repo = r /\ Cardinality(BetterRanked(f))
                            < IF f.test THEN MaxTests ELSE MaxImplementation}

\* The elements of S in the order "before", a strict total order on S.
Sorted(S, before(_, _)) ==
    LET place(x) == 1 + Cardinality({y \in S : before(y, x)})
    IN  [n \in 1 .. Cardinality(S) |-> CHOOSE x \in S : place(x) = n]

Ascending(S) == Sorted(S, <)

\* The lanes take turns: a file's round is its place within its lane.
Stratified == [r \in Repos |->
    LET round(f) == Cardinality({g \in BetterRanked(f) : LaneOf(g) = LaneOf(f)})
        key(f) == <<round(f)>> \o LaneOf(f)
    IN  Sorted(Kept(r), LAMBDA f, g : Lexical(key(f), key(g)))]

\* Mutant: one repository's files are all offered before the next one's.
OpportunityInBlocks(rs) ==
    LET all == FlattenSeq([i \in DOMAIN rs |-> Stratified[rs[i]]])
    IN  SubSeq(all, 1, IF Len(all) < MaxFiles THEN Len(all) ELSE MaxFiles)

\* The repositories take turns, up to MaxFiles.
OpportunityOrder(rs) ==
    LET turns == {t \in (1 .. Cardinality(Blobs)) \X DOMAIN rs :
                     t[1] <= Len(Stratified[rs[t[2]]])}
        order == Sorted(turns, Lexical)
    IN  [n \in 1 .. IF Len(order) < MaxFiles THEN Len(order) ELSE MaxFiles |->
            Stratified[rs[order[n][2]]][order[n][1]]]

\* The files of the confirmed repositories, in the order they were offered.
Selected ==
    LET places == Ascending({n \in DOMAIN offered : offered[n].repo \in confirmed})
    IN  [n \in DOMAIN places |-> offered[places[n]]]

TotalOf(counts) == FoldLeft(+, 0, counts)

BytesOf(fs) == TotalOf([n \in DOMAIN fs |-> fs[n].blob.bytes])

-----------------------------------------------------------------------------
(* Requests. *)

\* Mutant: the counters may pass their ceilings by one.
FitsOneMore(r) == wire.total <= MaxRequests /\ wire.repo[r] <= MaxPerRepository

\* boundedFetch sends the request.
Fits(r) == wire.total < MaxRequests /\ wire.repo[r] < MaxPerRepository

Count(r) == [total |-> wire.total + 1, repo |-> [wire.repo EXCEPT ![r] = @ + 1]]

CanSpend(client) == used[client] < caps[client]

\* A client spends one request about r; a refused one is answered 403 and
\* cannot be an answer of GitHub.
Ask(client, r, answered) ==
    /\ CanSpend(client)
    /\ used' = [used EXCEPT ![client] = @ + 1]
    /\ wire' = IF bounded /\ Fits(r) THEN Count(r) ELSE wire
    /\ answered => ~bounded \/ Fits(r)

Quiet == UNCHANGED <<used, wire>>

Limit(code, n) == limitations' = Append(limitations, [code |-> code, files |-> n])

NoLimit == UNCHANGED limitations

-----------------------------------------------------------------------------
QualityInit ==
    /\ stage = "idle" /\ bounded = FALSE
    /\ caps = [source |-> 0, attribution |-> 0]
    /\ sample = <<>> /\ offered = <<>> /\ confirmed = {} /\ at = 1 /\ files = <<>>
    /\ limitations = <<>>
    /\ used = [source |-> 0, attribution |-> 0]
    /\ wire = [total |-> 0, repo |-> [r \in Repos |-> 0]]

\* collectQualitySource is called with the inspected repositories rs, best first.
BeginQuality(rs, cap, private) ==
    /\ stage' = "revisions" /\ bounded' = private /\ caps' = cap
    /\ sample' = SubSeq(rs, 1, IF Len(rs) < MaxSampled THEN Len(rs) ELSE MaxSampled)
    /\ offered' = OpportunityOrder(sample')
    /\ confirmed' = {} /\ at' = 1 /\ files' = <<>> /\ limitations' = <<>>
    /\ used' = [source |-> 0, attribution |-> 0]

Walk(next) == stage' = next /\ at' = 1

\* Without a request left the loop ends, and says nothing.
ConfirmRevision ==
    /\ stage = "revisions" /\ at <= Len(sample) /\ CanSpend("source")
    /\ LET r == sample[at] IN
       \/ /\ Ask("source", r, FALSE)
          /\ Limit("unavailable", Len(Stratified[r]))
          /\ UNCHANGED confirmed
       \/ /\ Ask("source", r, TRUE)
          /\ Limit("revision-drift", Len(Stratified[r]))
          /\ UNCHANGED confirmed
       \/ /\ Ask("source", r, TRUE)
          /\ confirmed' = confirmed \union {r}
          /\ NoLimit
    /\ at' = at + 1
    /\ UNCHANGED <<stage, bounded, caps, sample, offered, files>>

EndRevisions ==
    /\ stage = "revisions" /\ (at > Len(sample) \/ ~CanSpend("source"))
    /\ Walk("blobs") /\ NoLimit /\ Quiet
    /\ UNCHANGED <<bounded, caps, sample, offered, confirmed, files>>

\* A full sample ends the loop without a word; a spent cap is a limitation.
BlobsFull == Len(files) >= MaxFiles \/ BytesOf(files) >= MaxTotalBytes

\* Mutant: the file at hand is not counted as lost.
RestAfterThis == Len(Selected) - at

RestOfSelected == Len(Selected) - Len(files)

\* The body that came: decodeBlob accepts it, or it is too long or not text.
ReadBlob ==
    /\ stage = "blobs" /\ at <= Len(Selected) /\ ~BlobsFull /\ CanSpend("source")
    /\ LET f == Selected[at] IN
       \/ /\ Ask("source", f.repo, FALSE) /\ Limit("unavailable", 1)
          /\ at' = at + 1 /\ UNCHANGED <<stage, files>>
       \/ /\ Ask("source", f.repo, TRUE)
          /\ \E code \in {"oversized", "non-text"} : Limit(code, 1)
          /\ at' = at + 1 /\ UNCHANGED <<stage, files>>
       \/ /\ Ask("source", f.repo, TRUE)
          /\ BytesOf(files) + f.bytes > MaxTotalBytes
          /\ Limit("source-budget", RestOfSelected)
          /\ Walk("attribution") /\ UNCHANGED files
       \/ /\ Ask("source", f.repo, TRUE)
          /\ BytesOf(files) + f.bytes <= MaxTotalBytes
          /\ files' = Append(files, [blob |-> f, status |-> "not-checked"])
          /\ at' = at + 1 /\ NoLimit /\ UNCHANGED stage
    /\ UNCHANGED <<bounded, caps, sample, offered, confirmed>>

EndBlobs ==
    /\ stage = "blobs"
    /\ \/ (at > Len(Selected) \/ BlobsFull) /\ NoLimit
       \/ /\ at <= Len(Selected) /\ ~BlobsFull /\ ~CanSpend("source")
          /\ Limit("source-budget", RestOfSelected)
    /\ Walk("attribution") /\ Quiet
    /\ UNCHANGED <<bounded, caps, sample, offered, confirmed, files>>

\* The commits of a file by the profile's login; no answer leaves it unchecked.
Attribute ==
    /\ stage = "attribution" /\ at <= Len(files)
    /\ LET r == files[at].blob.repo IN
       \/ ~CanSpend("attribution") /\ Quiet /\ UNCHANGED files
       \/ Ask("attribution", r, FALSE) /\ UNCHANGED files
       \/ /\ Ask("attribution", r, TRUE)
          /\ \E s \in {"attributed", "not-attributed"} :
                files' = [files EXCEPT ![at].status = s]
    /\ at' = at + 1 /\ NoLimit
    /\ UNCHANGED <<stage, bounded, caps, sample, offered, confirmed>>

Unchecked == {n \in DOMAIN files : files[n].status = "not-checked"}

CloseCollection ==
    /\ stage = "attribution" /\ at > Len(files)
    /\ stage' = "collected"
    /\ IF Unchecked = {} THEN NoLimit
       ELSE Limit("attribution-budget", Cardinality(Unchecked))
    /\ Quiet /\ UNCHANGED <<bounded, caps, sample, offered, confirmed, at, files>>

CollectStep == ConfirmRevision \/ EndRevisions \/ ReadBlob \/ EndBlobs
                 \/ Attribute \/ CloseCollection
=============================================================================
