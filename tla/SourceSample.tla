---------------------------- MODULE SourceSample -----------------------------
(***************************************************************************)
(* The sampling of one profile's public source (github/source-sample.ts)   *)
(* and the reading made of it (personality/judge.ts), over several         *)
(* invocations that share two persistent caches: "derived" keeps the       *)
(* features of a file under the byte limit it was read with, "stored" the  *)
(* whole reading of the snapshot.                                          *)
(*                                                                         *)
(* A world is the snapshot's sequence of representative repositories, best *)
(* first: the state of the collected tree, the number of its candidates    *)
(* whose advertised size is over the ceiling, and its other candidates in  *)
(* rank order.  What a blob holds is not known before it is read, and then *)
(* never changes.  "met" is what really went wrong in this invocation,     *)
(* "receipts" what the sample set says went wrong.                         *)
(***************************************************************************)
EXTENDS Integers, Sequences, FiniteSets

CONSTANTS Worlds,          \* sequences of [tree, large, files]
          Bodies,          \* what a blob may hold: [size, kept, kind]
          Errors,          \* what a request may end in, besides an answer
          Policies,        \* cache policies: [read, write]
          Allowances,      \* sourceRequestAllowance
          PerFile,         \* MAX_SAMPLE_BYTES_PER_FILE (12,000)
          Total,           \* MAX_SAMPLE_BYTES_TOTAL (24,000)
          Floor,           \* bytes without which no file is read (512)
          MaxCandidates,   \* MAX_CANDIDATES_PER_REPOSITORY (12)
          MaxFailures,     \* MAX_SOURCE_FAILURES (16)
          MaxMetadata,     \* MAX_METADATA_FAILURES (8)
          MinRepositories, \* MIN_REPOSITORIES (2)
          Preferred,       \* PREFERRED_FILES (3)
          MaxFiles,        \* MAX_FILES (4)
          MaxRuns          \* bound: invocations

Kinds == {"text", "binary", "secrets"}
Files == [path : STRING, blob : Nat, test : BOOLEAN, lane : BOOLEAN]
Trees == [tree : {"missing", "truncated", "whole"}, large : Nat, files : Seq(Files)]
Transient == {"rate-limited", "timeout", "transport-failure", "upstream-failure",
              "blob-unavailable", "tree-unavailable", "incomplete-github-response", "unknown"}
Stable == {"no-source-candidate", "request-budget-exhausted", "oversized", "non-text",
           "redaction-threshold", "unsupported-language"}
Reasons == Stable \cup Transient
Stops == {"request-budget-exhausted", "rate-limited"}

ASSUME SampleAssumption ==
  /\ Worlds \subseteq Seq(Trees)
  /\ Allowances \subseteq Nat
  /\ Errors \subseteq Transient
  /\ Bodies \subseteq [size : Nat, kept : Nat, kind : Kinds]
  /\ Policies \subseteq [read : BOOLEAN, write : BOOLEAN]
  /\ PerFile \in Nat /\ Total \in Nat /\ Floor \in Nat \ {0}
  /\ MaxFailures \in Nat \ {0} /\ MaxMetadata \in Nat \ {0}
  /\ MaxFiles \in Nat /\ Preferred \in Nat /\ MaxCandidates \in Nat /\ MaxRuns \in Nat

VARIABLES world, allowance,
          body,      \* what the blobs read so far turned out to hold
          derived,   \* the derived-feature cache: bytes kept, by key
          stored,    \* the stored reading of this snapshot, if there is one
          clean,     \* readings of the invocations in which no request failed
          pc, runs, policy,
          inspected, \* repositories whose metadata has been ranked
          metadata,  \* metadataFailureCount
          todo,      \* what is left of candidateOrder
          memo,      \* blobReads
          opened,    \* opportunityBlobs
          examined,  \* opportunitiesExamined
          shut,      \* opportunityBudgetExhausted
          used,      \* requestsUsed of the client
          bytes, samples, receipts, met

input == <<world, allowance, policy>>
caches == <<body, derived, stored, clean>>
traversal == <<todo, memo, opened, examined, shut, used>>
result == <<bytes, samples, receipts, met>>
vars == <<input, caches, pc, runs, inspected, metadata, traversal, result>>

Init ==
  /\ world \in Worlds /\ allowance \in Allowances /\ policy \in Policies
  /\ body = <<>> /\ derived = <<>> /\ stored = {} /\ clean = {}
  /\ pc = "idle" /\ runs = 0 /\ inspected = 0 /\ metadata = 0
  /\ todo = {} /\ memo = <<>> /\ opened = {} /\ examined = 0 /\ shut = FALSE /\ used = 0
  /\ bytes = 0 /\ samples = <<>> /\ receipts = <<>> /\ met = {}

Least(a, b) == IF a <= b THEN a ELSE b
Put(f, x, y) == [z \in DOMAIN f \cup {x} |-> IF z = x THEN y ELSE f[z]]
-----------------------------------------------------------------------------
\* Repositories whose tree arrived, their candidates and the round-robin order.
Ranked == {r \in DOMAIN world : world[r].tree # "missing"}
Candidates == {c \in (1..MaxCandidates) \X Ranked : c[1] <= Len(world[c[2]].files)}
Before(c, d) == c[1] < d[1] \/ (c[1] = d[1] /\ c[2] < d[2])
File(c) == world[c[2]].files[c[1]]
TargetFiles == IF Cardinality(Ranked) >= MinRepositories THEN Preferred ELSE MaxFiles

\* Receipts have a ceiling: what no longer fits is not written.
\* Mutant: one slot is never used.
RecordShort(rs, reason) == IF Len(rs) >= MaxFailures - 1 THEN rs ELSE Append(rs, reason)
Record(rs, reason) == IF Len(rs) >= MaxFailures THEN rs ELSE Append(rs, reason)

Limit == Least(PerFile, Total - bytes)

\* An entry is of a file, its blob and path, under the limit it was read with.
Key(f) == <<f, Limit>>

\* One logical opportunity per distinct blob, whatever the caches hold.
\* Mutant: only requests count, so a warm cache promotes extra candidates.
AffordableByRequests(f) == f.blob \in opened \/ used < allowance
Affordable(f) == f.blob \in opened \/ Cardinality(opened) < allowance

\* Mutant: the first slot is open to a test.
MaySampleAnyTest(f) == f.test => \A i \in DOMAIN samples : ~samples[i].test
MaySample(f) == f.test => samples # <<>> /\ \A i \in DOMAIN samples : ~samples[i].test

\* Mutant: a timed-out file counts as something that will not change.
LastingTimeout(rs) == \A i \in DOMAIN rs : rs[i] \in Stable \cup {"timeout"}
Lasting(rs) == \A i \in DOMAIN rs : rs[i] \in Stable

TreeTruncated == \E r \in DOMAIN world : world[r].tree = "truncated"
-----------------------------------------------------------------------------
\* A stored reading is the answer, unless the policy does not read.
Recall ==
  /\ pc = "idle" /\ runs < MaxRuns /\ policy.read
  /\ \E reading \in stored :
       /\ bytes' = reading.bytes /\ samples' = reading.samples
       /\ receipts' = reading.receipts /\ met' = reading.met
  /\ todo' = {} /\ memo' = <<>> /\ opened' = {} /\ examined' = 0 /\ shut' = FALSE /\ used' = 0
  /\ runs' = runs + 1
  /\ policy' \in Policies
  /\ UNCHANGED <<world, allowance, caches, pc, inspected, metadata>>

Begin ==
  /\ pc = "idle" /\ runs < MaxRuns /\ (policy.read => stored = {})
  /\ pc' = "metadata" /\ inspected' = 0 /\ metadata' = 0
  /\ todo' = Candidates /\ memo' = <<>> /\ opened' = {} /\ examined' = 0
  /\ shut' = FALSE /\ used' = 0
  /\ bytes' = 0 /\ samples' = <<>> /\ receipts' = <<>> /\ met' = {}
  /\ UNCHANGED <<input, caches, runs>>

\* The metadata pass, one repository at a time: a tree that was not collected ...
MissingTree ==
  /\ pc = "metadata" /\ inspected < Len(world) /\ world[inspected + 1].tree = "missing"
  /\ receipts' = Record(receipts, "tree-unavailable")
  /\ met' = met \cup {"tree-unavailable"}
  /\ inspected' = inspected + 1
  /\ UNCHANGED <<input, caches, pc, runs, metadata, traversal, bytes, samples>>

\* ... or the receipts of one that was, complete or not, and of its candidates.
RankTree ==
  /\ pc = "metadata" /\ inspected < Len(world) /\ world[inspected + 1].tree # "missing"
  /\ LET repository == world[inspected + 1]
         cut == repository.tree = "truncated"
         told == IF cut THEN Record(receipts, "incomplete-github-response") ELSE receipts
         large == Least(repository.large, Least(MaxMetadata - metadata, MaxFailures - Len(told)))
         empty == repository.files = <<>> /\ repository.large = 0
     IN /\ receipts' = IF empty THEN Record(told, "no-source-candidate")
                       ELSE told \o [i \in 1..large |-> "oversized"]
        /\ metadata' = metadata + (IF empty THEN 0 ELSE large)
        /\ met' = met \cup (IF cut THEN {"incomplete-github-response"} ELSE {})
                      \cup (IF empty THEN {"no-source-candidate"} ELSE {})
                      \cup (IF repository.large > 0 THEN {"oversized"} ELSE {})
  /\ inspected' = inspected + 1
  /\ UNCHANGED <<input, caches, pc, runs, traversal, bytes, samples>>

Sample ==
  /\ pc = "metadata" /\ inspected = Len(world)
  /\ pc' = "sampling"
  /\ UNCHANGED <<input, caches, runs, inspected, metadata, traversal, result>>
-----------------------------------------------------------------------------
Wanting == Len(samples) < TargetFiles /\ examined < MaxFailures + MaxFiles

\* The candidate c is next in the round-robin order, and still wanted.
Turn(c) == pc = "sampling" /\ Wanting /\ \A d \in todo : c = d \/ Before(c, d)

static == <<input, stored, clean, pc, runs, inspected, metadata>>

SkipTest(c) ==
  /\ Turn(c) /\ ~MaySample(File(c))
  /\ todo' = todo \ {c}
  /\ UNCHANGED <<static, body, derived, memo, opened, examined, shut, used, result>>

SkipUnaffordable(c) ==
  /\ Turn(c) /\ MaySample(File(c)) /\ ~Affordable(File(c))
  /\ todo' = todo \ {c} /\ shut' = TRUE
  /\ UNCHANGED <<static, body, derived, memo, opened, examined, used, result>>

\* What every candidate that is examined costs.
Examine(c) == /\ Turn(c) /\ MaySample(File(c)) /\ Affordable(File(c))
              /\ examined' = examined + 1 /\ opened' = opened \cup {File(c).blob}
              /\ UNCHANGED <<static, shut>>

Fail(c, reason) ==
  /\ receipts' = Record(receipts, reason) /\ met' = met \cup {reason}
  /\ todo' = IF reason \in Stops THEN {} ELSE todo \ {c}
  /\ UNCHANGED <<bytes, samples, derived>>

Keep(c, kept) ==
  /\ samples' = Append(samples, [path |-> File(c).path, bytes |-> kept, test |-> File(c).test])
  /\ bytes' = bytes + kept
  /\ receipts' = IF File(c).lane THEN receipts ELSE Record(receipts, "unsupported-language")
  /\ met' = IF File(c).lane THEN met ELSE met \cup {"unsupported-language"}
  /\ todo' = todo \ {c}

\* extractSample: the active ceiling, the redaction threshold, the cache entry.
Extract(c, content) ==
  CASE content.size > Limit -> Fail(c, "oversized")
    [] content.size <= Limit /\ content.kind = "secrets" -> Fail(c, "redaction-threshold")
    [] OTHER -> LET kept == Least(content.kept, Limit)
                IN /\ Keep(c, kept)
                   /\ derived' = IF policy.write THEN Put(derived, Key(File(c)), kept) ELSE derived

\* decodeBlob
Decoded(content) == CASE content.size > PerFile -> "oversized"
                      [] content.size <= PerFile /\ content.kind = "binary" -> "non-text"
                      [] OTHER -> "readable"

\* A blob this invocation has read, or failed to read, is not requested again.
ReadAgain(c) ==
  /\ Examine(c) /\ Total - bytes >= Floor /\ File(c).blob \in DOMAIN memo
  /\ IF memo[File(c).blob] = "readable" THEN Extract(c, body[File(c).blob])
                                        ELSE Fail(c, memo[File(c).blob])
  /\ UNCHANGED <<body, memo, used>>

HasDerived(f) == policy.read /\ Key(f) \in DOMAIN derived

UseDerived(c) ==
  /\ Examine(c) /\ Total - bytes >= Floor /\ File(c).blob \notin DOMAIN memo /\ HasDerived(File(c))
  /\ Keep(c, derived[Key(File(c))])
  /\ UNCHANGED <<body, derived, memo, used>>

Unread(c) == Total - bytes >= Floor /\ File(c).blob \notin DOMAIN memo /\ ~HasDerived(File(c))

\* No bytes, or no request, are left for this file.
OutOfBudget(c) ==
  /\ Examine(c)
  /\ Total - bytes < Floor \/ (Unread(c) /\ used >= allowance)
  /\ Fail(c, "request-budget-exhausted")
  /\ UNCHANGED <<body, memo, used>>

RequestFails(c, error) ==
  /\ Examine(c) /\ Unread(c) /\ used < allowance
  /\ used' = used + 1
  /\ memo' = Put(memo, File(c).blob, error)
  /\ Fail(c, error)
  /\ UNCHANGED body

RequestArrives(c, content) ==
  /\ Examine(c) /\ Unread(c) /\ used < allowance
  /\ used' = used + 1
  /\ File(c).blob \in DOMAIN body => content = body[File(c).blob]
  /\ body' = Put(body, File(c).blob, content)
  /\ memo' = Put(memo, File(c).blob, Decoded(content))
  /\ IF Decoded(content) = "readable" THEN Extract(c, content) ELSE Fail(c, Decoded(content))
-----------------------------------------------------------------------------
\* What is written when the traversal is over.
Closing ==
  LET budget == IF shut \/ (opened = {} /\ Candidates # {})
                THEN Record(receipts, "request-budget-exhausted") ELSE receipts
      nobody == IF world = <<>> THEN Record(budget, "no-source-candidate") ELSE budget
  IN IF samples = <<>> /\ nobody = <<>> THEN Record(nobody, "no-source-candidate") ELSE nobody

\* The reading is made, and kept if nothing in its receipts may pass.
Finish ==
  /\ pc = "sampling" /\ (todo = {} \/ ~Wanting)
  /\ pc' = "idle" /\ runs' = runs + 1
  /\ receipts' = Closing
  /\ met' = IF shut THEN met \cup {"request-budget-exhausted"} ELSE met
  /\ LET reading == [bytes |-> bytes, samples |-> samples, receipts |-> receipts', met |-> met']
         kept == policy.write /\ samples # <<>> /\ ~TreeTruncated /\ Lasting(receipts')
     IN /\ stored' = IF kept THEN {reading} ELSE stored
        /\ clean' = IF met \cap Errors = {} THEN clean \cup {<<samples, receipts'>>} ELSE clean
  /\ policy' \in Policies
  /\ UNCHANGED <<world, allowance, body, derived, inspected, metadata, traversal, bytes, samples>>

\* Between two invocations either cache may lose an entry.
Evict ==
  /\ pc = "idle" /\ runs < MaxRuns
  /\ \/ stored # {} /\ stored' = {} /\ UNCHANGED derived
     \/ /\ \E key \in DOMAIN derived : derived' = [k \in DOMAIN derived \ {key} |-> derived[k]]
        /\ UNCHANGED stored
  /\ UNCHANGED <<input, body, clean, pc, runs, inspected, metadata, traversal, result>>

Next == \/ Recall \/ Begin \/ MissingTree \/ RankTree \/ Sample
        \/ \E c \in todo : \/ SkipTest(c) \/ SkipUnaffordable(c)
                           \/ ReadAgain(c) \/ UseDerived(c) \/ OutOfBudget(c)
                           \/ \E error \in Errors : RequestFails(c, error)
                           \/ \E content \in Bodies : RequestArrives(c, content)
        \/ Finish \/ Evict

Spec == Init /\ [][Next]_vars
-----------------------------------------------------------------------------
Told(rs) == {rs[i] : i \in DOMAIN rs}

\* The shape of the state: counters within their ceilings, receipts with known reasons.
TypeOK ==
  /\ world \in Worlds /\ allowance \in Allowances /\ policy \in Policies
  /\ pc \in {"idle", "metadata", "sampling"}
  /\ runs \in 0..MaxRuns /\ inspected \in 0..Len(world) /\ metadata \in 0..MaxMetadata
  /\ todo \subseteq Candidates /\ used \in Nat /\ bytes \in Nat
  /\ examined \in 0..(MaxFailures + MaxFiles)
  /\ \A i \in DOMAIN receipts : receipts[i] \in Reasons
  /\ Len(receipts) <= MaxFailures /\ met \subseteq Reasons

\* Sampling never sends more requests than it opened opportunities, and never opens
\* more than the plan allowed, whatever mixture of hits, misses and failed reads it met.
SpendsWithinAllowance == used <= Cardinality(opened) /\ Cardinality(opened) <= allowance

\* The files that are kept, read or recalled under whatever limit, fit the byte ceilings.
BytesWithinCeiling == bytes <= Total /\ \A i \in DOMAIN samples : samples[i].bytes <= PerFile

\* Test code never leads and never comes twice: not after a failed first file, not
\* when both projects rank their tests high.
TestsOnlySupplement ==
  \A i \in DOMAIN samples : samples[i].test => i > 1 /\ \A j \in DOMAIN samples : samples[j].test => i = j

\* Caches save requests and nothing else: every invocation in which GitHub failed no
\* request gives the same samples and the same receipts, warm, cold or half evicted.
OneAnswer == Cardinality(clean) <= 1

\* What went wrong is in the receipts, unless these are full.
ReceiptsTellAll ==
  pc = "idle" => Len(receipts) = MaxFailures \/ met \subseteq Told(receipts)

\* A reading that is kept for later invocations owes nothing to a passing failure,
\* unless it has so many receipts that the failure was not written.
KeptReadingsLast ==
  \A reading \in stored :
    reading.met \cap Transient = {} \/ Len(reading.receipts) = MaxFailures

\* What personality/tests/code-dna.test.ts:561 says: "never caches a rate-limited partial".
RateLimitedIsNotKept == \A reading \in stored : "rate-limited" \notin reading.met
=============================================================================
