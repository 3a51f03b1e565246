------------------------- MODULE SourceSampleProofs --------------------------
(***************************************************************************)
(* Theorems about the sampling for every world, every content of blobs,    *)
(* every allowance and all ceilings.  The invariant relates the requests   *)
(* to the blobs this invocation has read and those to the opportunities it *)
(* opened, every kept size to the limit it was kept under, and what went   *)
(* wrong to the receipts.  That the caches change no answer is proved by   *)
(* comparing a sampling with one that knows what every blob holds.         *)
(***************************************************************************)
EXTENDS SourceSample, FiniteSetTheorems, TLAPS

Samples == [path : STRING, bytes : Nat, test : BOOLEAN]

\* Samples that fit the ceilings, with their tests in place.
SoundSamples(b, s) ==
  /\ b \in Nat /\ b <= Total
  /\ s \in Seq(Samples)
  /\ \A i \in DOMAIN s : s[i].bytes <= PerFile
  /\ \A i \in DOMAIN s : s[i].test => i > 1 /\ \A j \in DOMAIN s : s[j].test => i = j

\* Receipts that account for what went wrong.
SoundReceipts(r, m) ==
  /\ r \in Seq(Reasons) /\ Len(r) <= MaxFailures
  /\ m \subseteq Reasons
  /\ Len(r) = MaxFailures \/ m \subseteq Told(r)

Placed ==
  /\ world \in Worlds /\ allowance \in Allowances /\ policy \in Policies
  /\ pc \in {"idle", "metadata", "sampling"}
  /\ runs \in 0..MaxRuns /\ (pc # "idle" => runs < MaxRuns)
  /\ inspected \in 0..Len(world)
  /\ todo \subseteq Candidates
  /\ examined \in 0..(MaxFailures + MaxFiles)

Paid ==
  /\ IsFiniteSet(opened) /\ Cardinality(opened) <= allowance
  /\ DOMAIN memo \subseteq opened
  /\ used \in Nat /\ used <= Cardinality(DOMAIN memo)

Contents ==
  /\ \A b \in DOMAIN body : body[b] \in Bodies
  /\ \A b \in DOMAIN memo : /\ memo[b] \in Reasons \cup {"readable"}
                            /\ memo[b] = "readable" => b \in DOMAIN body
  /\ \A k \in DOMAIN derived : derived[k] \in Nat /\ derived[k] <= k[2]

Counted ==
  /\ SoundReceipts(receipts, met)
  /\ metadata \in 0..MaxMetadata
  /\ pc # "idle" /\ metadata > 0 => "oversized" \in Told(receipts)

Kept ==
  \A reading \in stored :
    /\ SoundSamples(reading.bytes, reading.samples)
    /\ SoundReceipts(reading.receipts, reading.met)
    /\ reading.met \cap Transient = {} \/ Len(reading.receipts) = MaxFailures

IInv == Placed /\ Paid /\ Contents /\ SoundSamples(bytes, samples) /\ Counted /\ Kept
-----------------------------------------------------------------------------
LEMMA EmptyDomain == DOMAIN <<>> = {}
  OBVIOUS

\* A receipt more loses none, and is told unless there is no room.
LEMMA Recording ==
  ASSUME NEW r \in Seq(Reasons), Len(r) <= MaxFailures, NEW reason \in Reasons
  PROVE  /\ Record(r, reason) \in Seq(Reasons)
         /\ Len(Record(r, reason)) <= MaxFailures
         /\ Told(r) \subseteq Told(Record(r, reason))
         /\ Len(r) = MaxFailures => Len(Record(r, reason)) = MaxFailures
         /\ Len(Record(r, reason)) = MaxFailures \/ reason \in Told(Record(r, reason))
         /\ Record(r, reason) # <<>>
<1>. MaxFailures \in Nat \ {0} BY SampleAssumption
<1>1. CASE Len(r) >= MaxFailures
  BY <1>1 DEF Record
<1>2. CASE Len(r) < MaxFailures
  <2>1. Record(r, reason) = Append(r, reason)  BY <1>2 DEF Record
  <2>2. /\ Append(r, reason) \in Seq(Reasons)
        /\ Len(Append(r, reason)) = Len(r) + 1
        /\ DOMAIN Append(r, reason) = 1..(Len(r) + 1)
        /\ Append(r, reason)[Len(r) + 1] = reason
        /\ \A i \in DOMAIN r : i \in 1..(Len(r) + 1) /\ Append(r, reason)[i] = r[i]
    OBVIOUS
  <2>3. Told(r) \subseteq Told(Append(r, reason))
    BY <2>2 DEF Told
  <2>4. reason \in Told(Append(r, reason))
    <3>1. Len(r) + 1 \in DOMAIN Append(r, reason)  BY <2>2
    <3>. QED  BY <3>1, <2>2 DEF Told
  <2>. QED  BY <2>1, <2>2, <2>3, <2>4, <1>2
<1>. QED  BY <1>1, <1>2

LEMMA RecordingSound ==
  ASSUME NEW r, NEW m, SoundReceipts(r, m), NEW reason \in Reasons
  PROVE  /\ SoundReceipts(Record(r, reason), m \cup {reason})
         /\ SoundReceipts(Record(r, reason), m)
         /\ Told(r) \subseteq Told(Record(r, reason))
  BY Recording DEF SoundReceipts

\* A sample more, under the active ceiling and by the rule for tests.
LEMMA Keeping ==
  ASSUME NEW f \in Files, SoundSamples(bytes, samples), MaySample(f),
         NEW kept \in Nat, kept <= Limit
  PROVE  SoundSamples(bytes + kept,
                      Append(samples, [path |-> f.path, bytes |-> kept, test |-> f.test]))
<1>. DEFINE x == [path |-> f.path, bytes |-> kept, test |-> f.test]
            s == Append(samples, x)
<1>1. x \in Samples /\ x.bytes = kept /\ x.test = f.test  BY DEF Files, Samples
<1>2. kept <= PerFile /\ bytes + kept <= Total /\ bytes + kept \in Nat
  BY SampleAssumption DEF SoundSamples, Limit, Least
<1>. HIDE DEF x
<1>3. /\ s \in Seq(Samples) /\ DOMAIN s = 1..(Len(samples) + 1) /\ s[Len(samples) + 1] = x
      /\ \A i \in 1..Len(samples) : s[i] = samples[i]
      /\ DOMAIN samples = 1..Len(samples) /\ Len(samples) \in Nat
  BY <1>1 DEF SoundSamples
<1>. HIDE DEF s
<1>4. \A i \in DOMAIN s : s[i].bytes <= PerFile
  BY <1>1, <1>2, <1>3 DEF SoundSamples
<1>5. x.test => Len(samples) > 0 /\ \A i \in 1..Len(samples) : ~samples[i].test
  <2>1. x.test => samples # <<>> /\ \A i \in DOMAIN samples : ~samples[i].test
    BY <1>1 DEF MaySample
  <2>2. samples # <<>> => Len(samples) > 0  BY DEF SoundSamples
  <2>. QED  BY <2>1, <2>2, <1>3
<1>6. \A i \in DOMAIN s : s[i].test => i > 1 /\ \A j \in DOMAIN s : s[j].test => i = j
  <2>. SUFFICES ASSUME NEW i \in DOMAIN s, s[i].test
                PROVE  i > 1 /\ \A j \in DOMAIN s : s[j].test => i = j
    OBVIOUS
  <2>1. CASE i = Len(samples) + 1
    BY <2>1, <1>3, <1>5
  <2>2. CASE i \in 1..Len(samples)
    BY <2>2, <1>3, <1>5 DEF SoundSamples
  <2>. QED  BY <2>1, <2>2, <1>3
<1>. QED  BY <1>2, <1>3, <1>4, <1>6 DEF SoundSamples, s, x

\* Every candidate is a file of the world.
LEMMA CandidateFile ==
  ASSUME world \in Worlds, NEW c \in Candidates
  PROVE  File(c) \in Files
<1>1. c[2] \in DOMAIN world /\ c[1] \in 1..MaxCandidates /\ c[1] <= Len(world[c[2]].files)
  BY DEF Candidates, Ranked
<1>2. world[c[2]] \in Trees
  BY <1>1, SampleAssumption
<1>3. c[1] \in DOMAIN world[c[2]].files
  BY <1>1, <1>2 DEF Trees
<1>. QED  BY <1>2, <1>3 DEF File, Trees
-----------------------------------------------------------------------------
\* What an examined candidate leaves, whether it was kept or not.
Outcome ==
  /\ SoundSamples(bytes', samples')
  /\ SoundReceipts(receipts', met')
  /\ Told(receipts) \subseteq Told(receipts')
  /\ todo' \subseteq todo
  /\ \A k \in DOMAIN derived' : derived'[k] \in Nat /\ derived'[k] <= k[2]

LEMMA LimitType ==
  ASSUME SoundSamples(bytes, samples)
  PROVE  Limit \in Nat
  BY SampleAssumption DEF SoundSamples, Limit, Least

LEMMA Failing ==
  ASSUME IInv, NEW c, NEW reason \in Reasons, Fail(c, reason)
  PROVE  Outcome
<1>1. SoundReceipts(receipts', met') /\ Told(receipts) \subseteq Told(receipts')
  BY RecordingSound DEF IInv, Counted, Fail
<1>. QED  BY <1>1 DEF Fail, Outcome, IInv, Contents

LEMMA KeepingSound ==
  ASSUME IInv, NEW c \in todo, MaySample(File(c)),
         NEW kept \in Nat, kept <= Limit, Keep(c, kept)
  PROVE  /\ SoundSamples(bytes', samples')
         /\ SoundReceipts(receipts', met') /\ Told(receipts) \subseteq Told(receipts')
         /\ todo' \subseteq todo
<1>1. File(c) \in Files  BY CandidateFile DEF IInv, Placed
<1>2. SoundSamples(bytes', samples')
  BY <1>1, Keeping DEF Keep, IInv
<1>3. SoundReceipts(receipts', met') /\ Told(receipts) \subseteq Told(receipts')
  <2>1. CASE File(c).lane
    BY <2>1 DEF Keep, IInv, Counted
  <2>2. CASE ~File(c).lane
    <3>. "unsupported-language" \in Reasons  BY DEF Reasons, Stable
    <3>. QED  BY <2>2, RecordingSound DEF Keep, IInv, Counted
  <2>. QED  BY <2>1, <2>2
<1>. QED  BY <1>2, <1>3 DEF Keep

LEMMA Extracting ==
  ASSUME IInv, NEW c \in todo, MaySample(File(c)), NEW content \in Bodies, Extract(c, content)
  PROVE  Outcome
<1>0. Limit \in Nat  BY LimitType DEF IInv
<1>1. content.size \in Nat /\ content.kept \in Nat  BY SampleAssumption
<1>2. CASE content.size > Limit
  <2>. "oversized" \in Reasons  BY DEF Reasons, Stable
  <2>1. Fail(c, "oversized")  BY <1>0, <1>1, <1>2 DEF Extract
  <2>. QED  BY <2>1, Failing
<1>3. CASE content.size <= Limit /\ content.kind = "secrets"
  <2>. "redaction-threshold" \in Reasons  BY DEF Reasons, Stable
  <2>1. Fail(c, "redaction-threshold")  BY <1>0, <1>1, <1>3 DEF Extract
  <2>. QED  BY <2>1, Failing
<1>4. CASE ~(content.size > Limit) /\ ~(content.size <= Limit /\ content.kind = "secrets")
  <2>. DEFINE kept == Least(content.kept, Limit)
  <2>1. kept \in Nat /\ kept <= Limit  BY <1>0, <1>1 DEF Least
  <2>2. /\ Keep(c, kept)
        /\ derived' = IF policy.write THEN Put(derived, Key(File(c)), kept) ELSE derived
    BY <1>4 DEF Extract
  <2>. HIDE DEF kept
  <2>3. \A k \in DOMAIN derived' : derived'[k] \in Nat /\ derived'[k] <= k[2]
    <3>1. CASE ~policy.write
      BY <2>2, <3>1 DEF IInv, Contents
    <3>2. CASE policy.write
      <4>. DEFINE key == Key(File(c))
      <4>1. key[2] = Limit  BY DEF Key
      <4>. HIDE DEF key
      <4>2. /\ derived' = Put(derived, key, kept)
            /\ DOMAIN Put(derived, key, kept) = DOMAIN derived \cup {key}
            /\ Put(derived, key, kept)[key] = kept
            /\ \A z \in DOMAIN derived : z # key => Put(derived, key, kept)[z] = derived[z]
        BY <2>2, <3>2 DEF key, Put
      <4>. QED  BY <2>1, <4>1, <4>2 DEF IInv, Contents
    <3>. QED  BY <3>1, <3>2
  <2>. QED  BY <2>1, <2>2, <2>3, KeepingSound DEF Outcome
<1>. QED  BY <1>2, <1>3, <1>4

\* Opening an opportunity keeps their number within the allowance.
LEMMA OneMoreOpened ==
  ASSUME IInv, NEW c \in todo, Examine(c)
  PROVE  /\ IsFiniteSet(opened') /\ Cardinality(opened') <= allowance'
         /\ opened' = opened \cup {File(c).blob}
<1>. DEFINE b == File(c).blob
<1>1. IsFiniteSet(opened) /\ Cardinality(opened) \in Nat /\ Cardinality(opened) <= allowance
  BY FS_CardinalityType DEF IInv, Paid
<1>2. allowance \in Nat  BY SampleAssumption DEF IInv, Placed
<1>3. opened' = opened \cup {b} /\ allowance' = allowance
  BY DEF Examine, static, input
<1>4. b \in opened \/ Cardinality(opened) < allowance
  BY DEF Examine, Affordable
<1>. HIDE DEF b
<1>5. CASE b \in opened
  <2>1. opened' = opened  BY <1>3, <1>5
  <2>. QED  BY <1>1, <1>3, <2>1 DEF b
<1>6. CASE b \notin opened
  <2>1. /\ IsFiniteSet(opened \cup {b})
        /\ Cardinality(opened \cup {b}) = Cardinality(opened) + 1
    BY <1>1, <1>6, FS_AddElement
  <2>2. Cardinality(opened) + 1 <= allowance  BY <1>1, <1>2, <1>4, <1>6
  <2>. QED  BY <1>3, <2>1, <2>2 DEF b
<1>. QED  BY <1>5, <1>6

\* A blob this invocation has not read costs one request, and there was one.
LEMMA Paying ==
  ASSUME IInv, NEW c \in todo, Examine(c), Unread(c), used' = used + 1, NEW outcome,
         memo' = Put(memo, File(c).blob, outcome)
  PROVE  Paid'
<1>. DEFINE b == File(c).blob
<1>1. IsFiniteSet(opened') /\ Cardinality(opened') <= allowance' /\ opened' = opened \cup {b}
  BY OneMoreOpened
<1>2. DOMAIN memo' = DOMAIN memo \cup {b}  BY DEF Put
<1>3. b \notin DOMAIN memo  BY DEF Unread
<1>4. DOMAIN memo \subseteq opened /\ IsFiniteSet(opened) /\ used \in Nat /\ used <= Cardinality(DOMAIN memo)
  BY DEF IInv, Paid
<1>. HIDE DEF b
<1>5. DOMAIN memo' \subseteq opened'  BY <1>1, <1>2, <1>4
<1>6. IsFiniteSet(DOMAIN memo) /\ Cardinality(DOMAIN memo) \in Nat
  BY <1>4, FS_Subset, FS_CardinalityType
<1>7. Cardinality(DOMAIN memo \cup {b}) = Cardinality(DOMAIN memo) + 1
  BY <1>3, <1>6, FS_AddElement
<1>8. used' \in Nat /\ used' <= Cardinality(DOMAIN memo')
  BY <1>2, <1>4, <1>6, <1>7
<1>. QED  BY <1>1, <1>5, <1>8 DEF Paid

\* Opening an opportunity without a request keeps the account.
LEMMA Opening ==
  ASSUME IInv, NEW c \in todo, Examine(c), UNCHANGED <<memo, used>>
  PROVE  Paid'
<1>1. IsFiniteSet(opened') /\ Cardinality(opened') <= allowance' /\ opened' = opened \cup {File(c).blob}
  BY OneMoreOpened
<1>2. DOMAIN memo \subseteq opened /\ used \in Nat /\ used <= Cardinality(DOMAIN memo)
  BY DEF IInv, Paid
<1>. QED  BY <1>1, <1>2 DEF Paid

\* What an examined candidate does to the parts of the invariant it does not account for.
LEMMA Examining ==
  ASSUME IInv, NEW c \in todo, Examine(c), Outcome
  PROVE  Placed' /\ SoundSamples(bytes, samples)' /\ Counted' /\ Kept'
<1>1. /\ UNCHANGED <<world, allowance, policy, stored, pc, runs, inspected, metadata>>
      /\ examined' = examined + 1 /\ examined < MaxFailures + MaxFiles
  BY DEF Examine, static, input, Turn, Wanting
<1>2. Placed'
  <2>1. examined' \in 0..(MaxFailures + MaxFiles)
    BY <1>1, SampleAssumption DEF IInv, Placed
  <2>2. Candidates' = Candidates  BY <1>1 DEF Candidates, Ranked
  <2>. QED  BY <1>1, <2>1, <2>2 DEF IInv, Placed, Outcome
<1>3. SoundSamples(bytes, samples)'  BY DEF Outcome, SoundSamples
<1>4. Counted'  BY <1>1 DEF Outcome, IInv, Counted, SoundReceipts, Told
<1>5. Kept'  BY <1>1 DEF IInv, Kept, SoundSamples, SoundReceipts, Told
<1>. QED  BY <1>2, <1>3, <1>4, <1>5

LEMMA Requesting ==
  ASSUME IInv, NEW c \in todo,
         \/ \E error \in Errors : RequestFails(c, error)
         \/ \E content \in Bodies : RequestArrives(c, content)
  PROVE  IInv'
<1>. DEFINE blob == File(c).blob
<1>1. CASE \E error \in Errors : RequestFails(c, error)
  <2>1. PICK error \in Errors : RequestFails(c, error)  BY <1>1
  <2>2. error \in Reasons /\ error # "readable"
    BY SampleAssumption DEF Reasons, Transient
  <2>3. Outcome  BY <2>1, <2>2, Failing DEF RequestFails
  <2>4. Placed' /\ SoundSamples(bytes, samples)' /\ Counted' /\ Kept'
    BY <2>1, <2>3, Examining DEF RequestFails
  <2>5. Paid'
    <3>. Examine(c) /\ Unread(c) /\ used' = used + 1 /\ memo' = Put(memo, File(c).blob, error)
      BY <2>1 DEF RequestFails
    <3>. QED  BY Paying
  <2>6. Contents'
    <3>1. memo' = Put(memo, blob, error) /\ body' = body  BY <2>1 DEF RequestFails
    <3>2. \A b \in DOMAIN memo' : /\ memo'[b] \in Reasons \cup {"readable"}
                                  /\ memo'[b] = "readable" => b \in DOMAIN body'
      BY <2>2, <3>1 DEF Put, IInv, Contents
    <3>. QED  BY <2>3, <3>1, <3>2 DEF Outcome, IInv, Contents
  <2>. QED  BY <2>4, <2>5, <2>6 DEF IInv
<1>2. CASE \E content \in Bodies : RequestArrives(c, content)
  <2>1. PICK content \in Bodies : RequestArrives(c, content)  BY <1>2
  <2>2. Decoded(content) \in Reasons \cup {"readable"}
    BY DEF Decoded, Reasons, Stable
  <2>3. Outcome
    <3>1. CASE Decoded(content) = "readable"
      BY <2>1, <3>1, Extracting DEF RequestArrives, Examine
    <3>2. CASE Decoded(content) # "readable"
      <4>1. Decoded(content) \in Reasons  BY <2>2, <3>2
      <4>2. Fail(c, Decoded(content))  BY <2>1, <3>2 DEF RequestArrives
      <4>. HIDE DEF Decoded
      <4>. QED  BY <4>1, <4>2, Failing
    <3>. QED  BY <3>1, <3>2
  <2>4. Placed' /\ SoundSamples(bytes, samples)' /\ Counted' /\ Kept'
    BY <2>1, <2>3, Examining DEF RequestArrives
  <2>5. Paid'
    <3>. /\ Examine(c) /\ Unread(c) /\ used' = used + 1
         /\ memo' = Put(memo, File(c).blob, Decoded(content))
      BY <2>1 DEF RequestArrives
    <3>. QED  BY Paying
  <2>6. Contents'
    <3>1. memo' = Put(memo, blob, Decoded(content)) /\ body' = Put(body, blob, content)
      BY <2>1 DEF RequestArrives
    <3>2. \A b \in DOMAIN body' : body'[b] \in Bodies
      BY <3>1 DEF Put, IInv, Contents
    <3>3. DOMAIN body' = DOMAIN body \cup {blob}  BY <3>1 DEF Put
    <3>4. \A b \in DOMAIN memo' : /\ memo'[b] \in Reasons \cup {"readable"}
                                  /\ memo'[b] = "readable" => b \in DOMAIN body'
      BY <2>2, <3>1, <3>3 DEF Put, IInv, Contents
    <3>. QED  BY <2>3, <3>2, <3>4 DEF Outcome, Contents
  <2>. QED  BY <2>4, <2>5, <2>6 DEF IInv
<1>. QED  BY <1>1, <1>2

LEMMA Reusing ==
  ASSUME IInv, NEW c \in todo, ReadAgain(c) \/ UseDerived(c) \/ OutOfBudget(c)
  PROVE  IInv'
<1>1. Outcome
  <2>1. CASE ReadAgain(c)
    <3>1. File(c).blob \in DOMAIN memo  BY <2>1 DEF ReadAgain
    <3>2. CASE memo[File(c).blob] = "readable"
      <4>1. body[File(c).blob] \in Bodies  BY <3>1, <3>2 DEF IInv, Contents
      <4>2. Extract(c, body[File(c).blob]) /\ MaySample(File(c))
        BY <2>1, <3>2 DEF ReadAgain, Examine
      <4>. QED  BY <4>1, <4>2, Extracting
    <3>3. CASE memo[File(c).blob] # "readable"
      <4>1. memo[File(c).blob] \in Reasons  BY <3>1, <3>3 DEF IInv, Contents
      <4>2. Fail(c, memo[File(c).blob])  BY <2>1, <3>3 DEF ReadAgain
      <4>. QED  BY <4>1, <4>2, Failing
    <3>. QED  BY <3>2, <3>3
  <2>2. CASE UseDerived(c)
    <3>. DEFINE kept == derived[Key(File(c))]
    <3>1. Key(File(c))[2] = Limit  BY DEF Key
    <3>2. kept \in Nat /\ kept <= Limit
      BY <2>2, <3>1 DEF UseDerived, HasDerived, IInv, Contents
    <3>3. Keep(c, kept) /\ MaySample(File(c)) /\ derived' = derived
      BY <2>2 DEF UseDerived, Examine
    <3>. HIDE DEF kept
    <3>. QED  BY <3>2, <3>3, KeepingSound DEF Outcome, IInv, Contents
  <2>3. CASE OutOfBudget(c)
    <3>. "request-budget-exhausted" \in Reasons  BY DEF Reasons, Stable
    <3>. QED  BY <2>3, Failing DEF OutOfBudget
  <2>. QED  BY <2>1, <2>2, <2>3
<1>2. Examine(c) /\ UNCHANGED <<body, memo, used>>
  BY DEF ReadAgain, UseDerived, OutOfBudget
<1>3. Contents'  BY <1>1, <1>2 DEF Outcome, IInv, Contents
<1>. QED  BY <1>1, <1>2, <1>3, Examining, Opening DEF IInv

LEMMA Skipping ==
  ASSUME IInv, NEW c \in todo, SkipTest(c) \/ SkipUnaffordable(c)
  PROVE  IInv'
<1>1. UNCHANGED <<static, body, derived, memo, opened, examined, used, result>> /\ todo' \subseteq todo
  BY DEF SkipTest, SkipUnaffordable
<1>2. Placed'  BY <1>1 DEF static, input, IInv, Placed, Candidates, Ranked
<1>3. Paid'  BY <1>1 DEF static, input, IInv, Paid
<1>4. Contents'  BY <1>1 DEF IInv, Contents
<1>5. SoundSamples(bytes, samples)' /\ Counted' /\ Kept'
  BY <1>1 DEF static, result, IInv, SoundSamples, Counted, Kept, SoundReceipts, Told
<1>. QED  BY <1>2, <1>3, <1>4, <1>5 DEF IInv
-----------------------------------------------------------------------------
\* A new invocation, with or without a stored reading.
LEMMA Opened ==
  ASSUME IInv, Recall \/ Begin
  PROVE  Placed' /\ Paid' /\ Contents' /\ Kept'
<1>1. /\ UNCHANGED <<world, allowance, body, derived, stored>> /\ policy' \in Policies
      /\ memo' = <<>> /\ opened' = {} /\ examined' = 0 /\ used' = 0
      /\ todo' \in {{}, Candidates}
  BY DEF Recall, Begin, caches, input, IInv, Placed
<1>2. /\ pc' \in {"idle", "metadata", "sampling"} /\ runs' \in 0..MaxRuns
      /\ (pc' # "idle" => runs' < MaxRuns) /\ inspected' \in 0..Len(world)
  BY SampleAssumption DEF Recall, Begin, input, caches, IInv, Placed
<1>3. Placed'
  <2>1. Candidates' = Candidates  BY <1>1 DEF Candidates, Ranked
  <2>. QED  BY <1>1, <1>2, <2>1, SampleAssumption DEF IInv, Placed
<1>4. Paid'
  <2>1. IsFiniteSet({}) /\ Cardinality({}) = 0  BY FS_EmptySet
  <2>2. DOMAIN memo' = {}  BY <1>1, EmptyDomain
  <2>3. allowance \in Nat  BY SampleAssumption DEF IInv, Placed
  <2>. QED  BY <1>1, <2>1, <2>2, <2>3 DEF Paid
<1>5. Contents'
  <2>. DOMAIN memo' = {}  BY <1>1, EmptyDomain
  <2>. QED  BY <1>1 DEF IInv, Contents
<1>6. Kept'  BY <1>1 DEF IInv, Kept, SoundSamples, SoundReceipts, Told
<1>. QED  BY <1>3, <1>4, <1>5, <1>6

LEMMA Recalling ==
  ASSUME IInv, Recall
  PROVE  SoundSamples(bytes, samples)' /\ Counted'
<1>1. PICK reading \in stored :
        /\ bytes' = reading.bytes /\ samples' = reading.samples
        /\ receipts' = reading.receipts /\ met' = reading.met
  BY DEF Recall
<1>2. SoundSamples(reading.bytes, reading.samples) /\ SoundReceipts(reading.receipts, reading.met)
  BY DEF IInv, Kept
<1>3. metadata' = metadata /\ pc' = "idle"  BY DEF Recall
<1>. QED  BY <1>1, <1>2, <1>3 DEF SoundSamples, SoundReceipts, Told, Counted, IInv

LEMMA Beginning ==
  ASSUME IInv, Begin
  PROVE  SoundSamples(bytes, samples)' /\ Counted'
<1>1. bytes' = 0 /\ samples' = <<>> /\ receipts' = <<>> /\ met' = {} /\ metadata' = 0
  BY DEF Begin
<1>2. <<>> \in Seq(Samples) /\ <<>> \in Seq(Reasons) /\ Len(<<>>) = 0  OBVIOUS
<1>3. SoundSamples(bytes, samples)'
  BY <1>1, <1>2, EmptyDomain, SampleAssumption DEF SoundSamples
<1>4. Counted'
  BY <1>1, <1>2, SampleAssumption DEF Counted, SoundReceipts, Told
<1>. QED  BY <1>3, <1>4

\* Several receipts of one kind at once.
LEMMA Adding ==
  ASSUME NEW r \in Seq(Reasons), NEW n \in Nat, NEW reason \in Reasons
  PROVE  LET s == r \o [i \in 1..n |-> reason]
         IN /\ s \in Seq(Reasons) /\ Len(s) = Len(r) + n
            /\ Told(r) \subseteq Told(s)
            /\ n > 0 => reason \in Told(s)
<1>. DEFINE t == [i \in 1..n |-> reason]
            s == r \o t
<1>1. t \in Seq(Reasons) /\ Len(t) = n  OBVIOUS
<1>. HIDE DEF t
<1>2. /\ s \in Seq(Reasons) /\ Len(s) = Len(r) + n /\ DOMAIN s = 1..(Len(r) + n)
      /\ \A i \in 1..Len(r) : s[i] = r[i]
      /\ \A i \in 1..n : s[Len(r) + i] = t[i]
  BY <1>1
<1>. HIDE DEF s
<1>3. Told(r) \subseteq Told(s)  BY <1>2 DEF Told
<1>4. n > 0 => reason \in Told(s)
  <2>. SUFFICES ASSUME n > 0 PROVE reason \in Told(s)
    OBVIOUS
  <2>1. t[1] = reason /\ 1 \in 1..n  BY DEF t
  <2>2. s[Len(r) + 1] = reason /\ Len(r) + 1 \in DOMAIN s  BY <1>2, <2>1
  <2>. QED  BY <2>2 DEF Told
<1>. QED  BY <1>2, <1>3, <1>4 DEF s, t

LEMMA Ranking ==
  ASSUME IInv, RankTree
  PROVE  Counted'
<1>. DEFINE repository == world[inspected + 1]
            cut == repository.tree = "truncated"
            told == IF cut THEN Record(receipts, "incomplete-github-response") ELSE receipts
            known == IF cut THEN met \cup {"incomplete-github-response"} ELSE met
            large == Least(repository.large, Least(MaxMetadata - metadata, MaxFailures - Len(told)))
            empty == repository.files = <<>> /\ repository.large = 0
<1>1. /\ receipts' = IF empty THEN Record(told, "no-source-candidate")
                     ELSE told \o [i \in 1..large |-> "oversized"]
      /\ metadata' = metadata + (IF empty THEN 0 ELSE large)
      /\ met' = (met \cup (IF cut THEN {"incomplete-github-response"} ELSE {}))
                    \cup (IF empty THEN {"no-source-candidate"} ELSE {})
                    \cup (IF repository.large > 0 THEN {"oversized"} ELSE {})
      /\ pc = "metadata" /\ inspected < Len(world)
  BY DEF RankTree
<1>2. repository.large \in Nat
  <2>1. inspected + 1 \in DOMAIN world /\ world \in Seq(Trees)
    BY <1>1, SampleAssumption DEF IInv, Placed
  <2>2. repository \in Trees  BY <2>1
  <2>. HIDE DEF repository
  <2>. QED  BY <2>2 DEF Trees
<1>. HIDE DEF repository
<1>3. /\ "incomplete-github-response" \in Reasons /\ "no-source-candidate" \in Reasons
      /\ "oversized" \in Reasons
  BY DEF Reasons, Stable, Transient
<1>4. SoundReceipts(told, known) /\ Told(receipts) \subseteq Told(told)
  <2>1. CASE cut
    BY <2>1, <1>3, RecordingSound DEF IInv, Counted
  <2>2. CASE ~cut
    BY <2>2 DEF IInv, Counted
  <2>. QED  BY <2>1, <2>2
<1>. HIDE DEF told, cut
<1>5. metadata \in 0..MaxMetadata /\ (metadata > 0 => "oversized" \in Told(receipts))
  BY <1>1 DEF IInv, Counted
<1>6. CASE empty
  <2>1. receipts' = Record(told, "no-source-candidate") /\ metadata' = metadata
        /\ met' = known \cup {"no-source-candidate"}
    BY <1>1, <1>2, <1>5, <1>6
  <2>2. SoundReceipts(receipts', met') /\ Told(told) \subseteq Told(receipts')
    BY <2>1, <1>3, <1>4, RecordingSound
  <2>. QED  BY <2>1, <2>2, <1>4, <1>5 DEF Counted, SoundReceipts, Told
<1>7. CASE ~empty
  <2>0. Len(told) \in Nat /\ Len(told) <= MaxFailures /\ told \in Seq(Reasons)
    BY <1>4 DEF SoundReceipts
  <2>1. /\ large \in Nat /\ large <= MaxMetadata - metadata /\ large <= MaxFailures - Len(told)
        /\ large = 0 => repository.large = 0 \/ metadata = MaxMetadata \/ Len(told) = MaxFailures
    BY <1>2, <1>5, <2>0, SampleAssumption DEF Least
  <2>. HIDE DEF large
  <2>2. receipts' = told \o [i \in 1..large |-> "oversized"] /\ metadata' = metadata + large
        /\ met' = known \cup (IF repository.large > 0 THEN {"oversized"} ELSE {})
    BY <1>1, <1>7
  <2>3. /\ receipts' \in Seq(Reasons) /\ Len(receipts') = Len(told) + large
        /\ Told(told) \subseteq Told(receipts')
        /\ large > 0 => "oversized" \in Told(receipts')
    BY <2>0, <2>1, <2>2, <1>3, Adding
  <2>4. metadata' \in 0..MaxMetadata
    BY <1>5, <2>1, <2>2, SampleAssumption
  <2>5. metadata' > 0 => "oversized" \in Told(receipts')
    <3>1. CASE large > 0
      BY <2>3, <3>1
    <3>2. CASE large = 0
      <4>1. metadata' = metadata  BY <1>5, <2>2, <3>2
      <4>. QED  BY <1>4, <1>5, <2>3, <4>1
    <3>. QED  BY <2>1, <3>1, <3>2
  <2>6. met' \subseteq Reasons  BY <1>3, <1>4, <2>2 DEF SoundReceipts
  <2>7. Len(receipts') <= MaxFailures  BY <2>0, <2>1, <2>3, SampleAssumption
  <2>8. Len(receipts') = MaxFailures \/ met' \subseteq Told(receipts')
    <3>. SUFFICES ASSUME Len(receipts') # MaxFailures
                  PROVE  met' \subseteq Told(receipts')
      OBVIOUS
    <3>1. Len(told) # MaxFailures  BY <2>0, <2>1, <2>3, SampleAssumption
    <3>2. known \subseteq Told(receipts')  BY <3>1, <1>4, <2>3 DEF SoundReceipts
    <3>3. repository.large > 0 => "oversized" \in Told(receipts')
      BY <3>1, <1>2, <1>4, <1>5, <2>1, <2>3, SampleAssumption
    <3>. QED  BY <3>2, <3>3, <2>2
  <2>. QED  BY <2>3, <2>4, <2>5, <2>6, <2>7, <2>8 DEF Counted, SoundReceipts, Told
<1>. QED  BY <1>6, <1>7

LEMMA Inspecting ==
  ASSUME IInv, MissingTree \/ RankTree \/ Sample
  PROVE  IInv'
<1>1. /\ UNCHANGED <<input, caches, runs, traversal, bytes, samples>>
      /\ inspected' \in 0..Len(world)
      /\ pc' \in {"metadata", "sampling"} /\ pc = "metadata"
  BY SampleAssumption DEF MissingTree, RankTree, Sample, IInv, Placed, result
<1>2. Placed'  BY <1>1 DEF input, traversal, IInv, Placed, Candidates, Ranked
<1>3. Paid' /\ Contents' /\ SoundSamples(bytes, samples)' /\ Kept'
  BY <1>1 DEF input, caches, traversal, IInv, Paid, Contents, SoundSamples, Kept, SoundReceipts, Told
<1>4. Counted'
  <2>1. CASE MissingTree
    <3>. "tree-unavailable" \in Reasons  BY DEF Reasons, Transient
    <3>1. /\ receipts' = Record(receipts, "tree-unavailable")
          /\ met' = met \cup {"tree-unavailable"} /\ metadata' = metadata /\ pc' = pc
      BY <2>1 DEF MissingTree
    <3>2. SoundReceipts(receipts', met') /\ Told(receipts) \subseteq Told(receipts')
      BY <3>1, RecordingSound DEF IInv, Counted
    <3>. QED  BY <3>1, <3>2 DEF IInv, Counted, SoundReceipts, Told
  <2>2. CASE RankTree
    BY <2>2, Ranking
  <2>3. CASE Sample
    BY <2>3 DEF Sample, result, IInv, Counted, SoundReceipts, Told
  <2>. QED  BY <2>1, <2>2, <2>3
<1>. QED  BY <1>2, <1>3, <1>4 DEF IInv

\* What is written at the end loses nothing of what is known.
LEMMA ClosingSound ==
  ASSUME IInv, Finish
  PROVE  SoundReceipts(receipts', met')
<1>. DEFINE budget == IF shut \/ (opened = {} /\ Candidates # {})
                      THEN Record(receipts, "request-budget-exhausted") ELSE receipts
            nobody == IF world = <<>> THEN Record(budget, "no-source-candidate") ELSE budget
<1>1. /\ receipts' = IF samples = <<>> /\ nobody = <<>>
                     THEN Record(nobody, "no-source-candidate") ELSE nobody
      /\ met' = IF shut THEN met \cup {"request-budget-exhausted"} ELSE met
  BY DEF Finish, Closing
<1>2. "request-budget-exhausted" \in Reasons /\ "no-source-candidate" \in Reasons
  BY DEF Reasons, Stable
<1>3. SoundReceipts(budget, met')
  <2>1. SoundReceipts(receipts, met)  BY DEF IInv, Counted
  <2>2. CASE shut
    BY <2>1, <2>2, <1>1, <1>2, RecordingSound
  <2>3. CASE ~shut
    BY <2>1, <2>3, <1>1, <1>2, RecordingSound
  <2>. QED  BY <2>2, <2>3
<1>. HIDE DEF budget
<1>4. SoundReceipts(nobody, met')  BY <1>2, <1>3, RecordingSound
<1>. HIDE DEF nobody
<1>. QED  BY <1>1, <1>2, <1>4, RecordingSound

LEMMA Finishing ==
  ASSUME IInv, Finish
  PROVE  IInv'
<1>1. /\ UNCHANGED <<world, allowance, body, derived, inspected, metadata, traversal, bytes, samples>>
      /\ pc = "sampling" /\ pc' = "idle" /\ runs' = runs + 1 /\ policy' \in Policies
  BY DEF Finish
<1>2. Placed'
  BY <1>1, SampleAssumption DEF traversal, IInv, Placed, Candidates, Ranked
<1>3. Paid' /\ Contents' /\ SoundSamples(bytes, samples)'
  BY <1>1 DEF traversal, IInv, Paid, Contents, SoundSamples
<1>4. SoundReceipts(receipts', met')  BY ClosingSound
<1>5. Counted'
  BY <1>1, <1>4 DEF IInv, Counted, SoundReceipts, Told
<1>6. Kept'
  <2>. DEFINE reading == [bytes |-> bytes, samples |-> samples, receipts |-> receipts', met |-> met']
  <2>1. \/ stored' = stored
        \/ stored' = {reading} /\ Lasting(receipts')
    BY DEF Finish
  <2>2. CASE stored' = stored
    BY <2>2 DEF IInv, Kept, SoundSamples, SoundReceipts, Told
  <2>3. CASE stored' = {reading} /\ Lasting(receipts')
    <3>1. Told(receipts') \subseteq Stable  BY <2>3 DEF Lasting, Told
    <3>2. Stable \cap Transient = {}  BY DEF Stable, Transient
    <3>3. met' \cap Transient = {} \/ Len(receipts') = MaxFailures
      BY <1>4, <3>1, <3>2 DEF SoundReceipts
    <3>4. SoundSamples(bytes, samples)  BY DEF IInv
    <3>5. /\ reading.bytes = bytes /\ reading.samples = samples
          /\ reading.receipts = receipts' /\ reading.met = met'
      OBVIOUS
    <3>. HIDE DEF reading
    <3>6. \A x \in stored' : x = reading  BY <2>3
    <3>. QED  BY <3>3, <3>4, <3>5, <3>6, <1>4 DEF Kept, SoundSamples, SoundReceipts, Told
  <2>. QED  BY <2>1, <2>2, <2>3
<1>. QED  BY <1>2, <1>3, <1>5, <1>6 DEF IInv

LEMMA Evicting ==
  ASSUME IInv, Evict
  PROVE  IInv'
<1>1. /\ UNCHANGED <<input, body, pc, runs, inspected, metadata, traversal, result>>
      /\ stored' \subseteq stored
      /\ \A k \in DOMAIN derived' : k \in DOMAIN derived /\ derived'[k] = derived[k]
  BY DEF Evict
<1>2. Placed' /\ Paid'
  BY <1>1 DEF input, traversal, IInv, Placed, Paid, Candidates, Ranked
<1>3. Contents'  BY <1>1 DEF traversal, IInv, Contents
<1>4. SoundSamples(bytes, samples)' /\ Counted' /\ Kept'
  BY <1>1 DEF result, IInv, SoundSamples, Counted, Kept, SoundReceipts, Told
<1>. QED  BY <1>2, <1>3, <1>4 DEF IInv
-----------------------------------------------------------------------------
LEMMA Initially == Init => IInv
<1>. SUFFICES ASSUME Init PROVE IInv
  OBVIOUS
<1>1. Placed
  <2>1. Len(world) \in Nat
    BY SampleAssumption DEF Init
  <2>. QED  BY <2>1, SampleAssumption DEF Init, Placed
<1>2. Paid
  BY EmptyDomain, FS_EmptySet, SampleAssumption DEF Init, Paid
<1>3. Contents /\ Kept  BY EmptyDomain DEF Init, Contents, Kept
<1>4. <<>> \in Seq(Samples) /\ <<>> \in Seq(Reasons) /\ Len(<<>>) = 0  OBVIOUS
<1>5. SoundSamples(bytes, samples)
  BY <1>4, EmptyDomain, SampleAssumption DEF Init, SoundSamples
<1>6. Counted
  BY <1>4, SampleAssumption DEF Init, Counted, SoundReceipts, Told
<1>. QED  BY <1>1, <1>2, <1>3, <1>5, <1>6 DEF IInv

LEMMA Inductive == IInv /\ [Next]_vars => IInv'
<1>. SUFFICES ASSUME IInv, [Next]_vars PROVE IInv'
  OBVIOUS
<1>1. CASE Recall \/ Begin
  BY <1>1, Opened, Recalling, Beginning DEF IInv
<1>2. CASE MissingTree \/ RankTree \/ Sample
  BY <1>2, Inspecting
<1>3. ASSUME NEW c \in todo, SkipTest(c) \/ SkipUnaffordable(c) PROVE IInv'
  BY <1>3, Skipping
<1>4. ASSUME NEW c \in todo, ReadAgain(c) \/ UseDerived(c) \/ OutOfBudget(c) PROVE IInv'
  BY <1>4, Reusing
<1>5. ASSUME NEW c \in todo,
             \/ \E error \in Errors : RequestFails(c, error)
             \/ \E content \in Bodies : RequestArrives(c, content)
      PROVE  IInv'
  BY <1>5, Requesting
<1>6. CASE Finish
  BY <1>6, Finishing
<1>7. CASE Evict
  BY <1>7, Evicting
<1>8. CASE UNCHANGED vars
  <2>1. Placed' /\ Paid' /\ Contents'
    BY <1>8 DEF vars, input, caches, traversal, result, IInv, Placed, Paid, Contents, Candidates, Ranked
  <2>2. SoundSamples(bytes, samples)' /\ Counted' /\ Kept'
    BY <1>8 DEF vars, input, caches, traversal, result, IInv, SoundSamples, Counted, Kept,
                SoundReceipts, Told
  <2>. QED  BY <2>1, <2>2 DEF IInv
<1>. QED  BY <1>1, <1>2, <1>3, <1>4, <1>5, <1>6, <1>7, <1>8 DEF Next

LEMMA Invariance == Spec => []IInv
<1>. QED  BY Initially, Inductive, PTL DEF Spec

\* The variables of a sampling keep their types, and its counters their ceilings.
THEOREM Typed == Spec => []TypeOK
<1>1. IInv => TypeOK
  BY SampleAssumption DEF IInv, Placed, Paid, Counted, SoundSamples, SoundReceipts, TypeOK
<1>. QED  BY <1>1, Invariance, PTL

\* No more requests than opportunities, no more opportunities than the plan allowed:
\* for every world, content of blobs, failure of requests and state of the caches.
THEOREM AllowanceIsKept == Spec => []SpendsWithinAllowance
<1>1. IInv => SpendsWithinAllowance
  <2>. SUFFICES ASSUME IInv PROVE SpendsWithinAllowance
    OBVIOUS
  <2>1. IsFiniteSet(opened) /\ IsFiniteSet(DOMAIN memo)
    BY FS_Subset DEF IInv, Paid
  <2>2. /\ Cardinality(DOMAIN memo) <= Cardinality(opened)
        /\ Cardinality(DOMAIN memo) \in Nat /\ Cardinality(opened) \in Nat
    BY <2>1, FS_Subset, FS_CardinalityType DEF IInv, Paid
  <2>. QED  BY <2>2 DEF IInv, Paid, SpendsWithinAllowance
<1>. QED  BY <1>1, Invariance, PTL

\* What is kept of the source fits the ceilings, also when it comes from a cache entry
\* of an invocation that had another limit.
THEOREM BytesAreBounded == Spec => []BytesWithinCeiling
<1>1. IInv => BytesWithinCeiling
  BY DEF IInv, SoundSamples, BytesWithinCeiling
<1>. QED  BY <1>1, Invariance, PTL

\* A test never leads and never comes twice.
THEOREM TestsSupplement == Spec => []TestsOnlySupplement
<1>1. IInv => TestsOnlySupplement
  BY DEF IInv, SoundSamples, TestsOnlySupplement
<1>. QED  BY <1>1, Invariance, PTL

\* Nothing that went wrong is missing from receipts with room left.
THEOREM ReceiptsAccount == Spec => []ReceiptsTellAll
<1>1. IInv => ReceiptsTellAll
  BY DEF IInv, Counted, SoundReceipts, ReceiptsTellAll
<1>. QED  BY <1>1, Invariance, PTL

\* Only the ceiling of the receipts can let a passing failure into a kept reading.
THEOREM KeptReadingsAreClean == Spec => []KeptReadingsLast
<1>1. IInv => KeptReadingsLast
  BY DEF IInv, Kept, KeptReadingsLast
<1>. QED  BY <1>1, Invariance, PTL
-----------------------------------------------------------------------------
(* One answer.  What a sampling would do that knew what every blob holds,   *)
(* without caches and requests, decides every step of one that no request   *)
(* failed.  Both leave the same trail, whatever the caches held.            *)

View == [pc |-> pc, inspected |-> inspected, metadata |-> metadata, todo |-> todo,
         opened |-> opened, examined |-> examined, shut |-> shut,
         bytes |-> bytes, samples |-> samples, receipts |-> receipts]

Start == [pc |-> "metadata", inspected |-> 0, metadata |-> 0, todo |-> Candidates,
          opened |-> {}, examined |-> 0, shut |-> FALSE,
          bytes |-> 0, samples |-> <<>>, receipts |-> <<>>]

Over(x) == x.todo = {} \/ ~(Len(x.samples) < TargetFiles /\ x.examined < MaxFailures + MaxFiles)

May(x, f) == f.test => x.samples # <<>> /\ \A i \in DOMAIN x.samples : ~x.samples[i].test
Affords(x, f) == f.blob \in x.opened \/ Cardinality(x.opened) < allowance
Room(x) == Least(PerFile, Total - x.bytes)

Missed(x, c, reason) ==
  [x EXCEPT !.receipts = Record(x.receipts, reason),
            !.todo = IF reason \in Stops THEN {} ELSE x.todo \ {c}]

Taken(x, c, kept) ==
  [x EXCEPT !.samples = Append(x.samples, [path |-> File(c).path, bytes |-> kept, test |-> File(c).test]),
            !.bytes = x.bytes + kept,
            !.receipts = IF File(c).lane THEN x.receipts ELSE Record(x.receipts, "unsupported-language"),
            !.todo = x.todo \ {c}]

Read(x, c, held) ==
  IF Decoded(held) # "readable" THEN Missed(x, c, Decoded(held))
  ELSE IF held.size > Room(x) THEN Missed(x, c, "oversized")
  ELSE IF held.kind = "secrets" THEN Missed(x, c, "redaction-threshold")
  ELSE Taken(x, c, Least(held.kept, Room(x)))

Looked(x, c) == [x EXCEPT !.examined = x.examined + 1, !.opened = x.opened \cup {File(c).blob}]

\* The candidate whose turn it is.
Sampled(B, x, y, c) ==
  /\ x.pc = "sampling" /\ ~Over(x)
  /\ c \in x.todo /\ \A d \in x.todo : c = d \/ Before(c, d)
  /\ \/ ~May(x, File(c)) /\ y = [x EXCEPT !.todo = x.todo \ {c}]
     \/ /\ May(x, File(c)) /\ ~Affords(x, File(c))
        /\ y = [x EXCEPT !.todo = x.todo \ {c}, !.shut = TRUE]
     \/ /\ May(x, File(c)) /\ Affords(x, File(c)) /\ Total - x.bytes < Floor
        /\ y = Missed(Looked(x, c), c, "request-budget-exhausted")
     \/ /\ May(x, File(c)) /\ Affords(x, File(c)) /\ ~(Total - x.bytes < Floor)
        /\ File(c).blob \in DOMAIN B
        /\ y = Read(Looked(x, c), c, B[File(c).blob])

\* The repository whose metadata is next.
Surveyed(x) ==
  LET repository == world[x.inspected + 1]
      told == IF repository.tree = "truncated"
              THEN Record(x.receipts, "incomplete-github-response") ELSE x.receipts
      large == Least(repository.large, Least(MaxMetadata - x.metadata, MaxFailures - Len(told)))
      empty == repository.files = <<>> /\ repository.large = 0
  IN IF x.inspected = Len(world) THEN [x EXCEPT !.pc = "sampling"]
     ELSE IF repository.tree = "missing"
     THEN [x EXCEPT !.receipts = Record(x.receipts, "tree-unavailable"), !.inspected = x.inspected + 1]
     ELSE [x EXCEPT !.receipts = IF empty THEN Record(told, "no-source-candidate")
                                 ELSE told \o [i \in 1..large |-> "oversized"],
                    !.metadata = x.metadata + (IF empty THEN 0 ELSE large),
                    !.inspected = x.inspected + 1]

\* What comes after x, if the blobs hold what B says.
Follows(B, x, y) ==
  \/ x.pc = "metadata" /\ y = Surveyed(x)
  \/ \E c \in x.todo : Sampled(B, x, y, c)

Answer(x) ==
  LET budget == IF x.shut \/ (x.opened = {} /\ Candidates # {})
                THEN Record(x.receipts, "request-budget-exhausted") ELSE x.receipts
      nobody == IF world = <<>> THEN Record(budget, "no-source-candidate") ELSE budget
  IN <<x.samples, IF x.samples = <<>> /\ nobody = <<>>
                  THEN Record(nobody, "no-source-candidate") ELSE nobody>>

\* T leads from the start to z, one step after the other.
Trail(T, B, z) ==
  /\ Start \in T /\ z \in T
  /\ \A x \in T : x = z \/ \E y \in T : Follows(B, x, y)

\* What the memo and the derived entries say is what is in the blobs.
Remembered ==
  /\ \A b \in DOMAIN memo :
       memo[b] \in Errors \/ (b \in DOMAIN body /\ memo[b] = Decoded(body[b]))
  /\ \A k \in DOMAIN derived :
       LET held == body[k[1].blob]
       IN /\ k[1].blob \in DOMAIN body
          /\ Decoded(held) = "readable" /\ held.size <= k[2] /\ held.kind # "secrets"
          /\ derived[k] = Least(held.kept, k[2])

Faultless == pc # "idle" /\ met \cap Errors = {}
Tracked == Faultless => \E T : Trail(T, body, View)
Repeated ==
  \A answer \in clean : \E T, z :
    /\ Trail(T, body, z) /\ z.pc = "sampling" /\ Over(z) /\ answer = Answer(z)
    /\ Faultless => View \in T
Same == \A a, b \in clean : a = b

Sameness == Remembered /\ Tracked /\ Repeated /\ Same
-----------------------------------------------------------------------------
Extends(B, C) == \A b \in DOMAIN B : b \in DOMAIN C /\ C[b] = B[b]

\* What is known of more blobs changes no step that was possible.
LEMMA KnowingMore ==
  ASSUME NEW B, NEW C, Extends(B, C), NEW x, NEW y, Follows(B, x, y)
  PROVE  Follows(C, x, y)
<1>1. CASE x.pc = "metadata" /\ y = Surveyed(x)
  BY <1>1 DEF Follows
<1>2. CASE \E c \in x.todo : Sampled(B, x, y, c)
  <2>1. PICK c \in x.todo : Sampled(B, x, y, c)  BY <1>2
  <2>2. File(c).blob \in DOMAIN B => File(c).blob \in DOMAIN C /\ C[File(c).blob] = B[File(c).blob]
    BY DEF Extends
  <2>. HIDE DEF File
  <2>3. Sampled(C, x, y, c)  BY <2>1, <2>2 DEF Sampled
  <2>. QED  BY <2>3 DEF Follows
<1>. QED  BY <1>1, <1>2 DEF Follows

\* From the state of a run there is one way on, and none when its sampling is over.
LEMMA OneWay ==
  ASSUME IInv, NEW B, NEW y, NEW z, Follows(B, View, y), Follows(B, View, z)
  PROVE  y = z
<1>1. View.pc = pc /\ View.todo = todo  BY DEF View
<1>2. CASE pc = "metadata"
  <2>1. \A c, v : ~Sampled(B, View, v, c)  BY <1>1, <1>2 DEF Sampled
  <2>. QED  BY <2>1 DEF Follows
<1>3. CASE pc # "metadata"
  <2>1. PICK c \in todo : Sampled(B, View, y, c)  BY <1>1, <1>3 DEF Follows
  <2>2. PICK d \in todo : Sampled(B, View, z, d)  BY <1>1, <1>3 DEF Follows
  <2>3. (c = d \/ Before(c, d)) /\ (d = c \/ Before(d, c))
    BY <1>1, <2>1, <2>2 DEF Sampled
  <2>4. c = d
    <3>1. c \in Candidates /\ d \in Candidates  BY DEF IInv, Placed
    <3>2. MaxCandidates \in Nat /\ Len(world) \in Nat /\ DOMAIN world = 1..Len(world)
      BY SampleAssumption DEF IInv, Placed
    <3>3. c[1] \in Nat /\ c[2] \in Nat /\ d[1] \in Nat /\ d[2] \in Nat
      BY <3>1, <3>2 DEF Candidates, Ranked
    <3>. QED  BY <2>3, <3>3 DEF Before
  <2>. HIDE DEF View, File
  <2>. QED  BY <2>1, <2>2, <2>4 DEF Sampled
<1>. QED  BY <1>2, <1>3

LEMMA Ending ==
  ASSUME NEW B, NEW x, NEW y, x.pc = "sampling", Over(x)
  PROVE  ~Follows(B, x, y)
  BY DEF Follows, Sampled

\* The definitions read the world and the allowance, which never change.
LEMMA SameWorld ==
  ASSUME UNCHANGED <<world, allowance>>
  PROVE  /\ \A B, x, y : Follows(B, x, y)' <=> Follows(B, x, y)
         /\ \A T, B, z : Trail(T, B, z)' <=> Trail(T, B, z)
         /\ \A x : Over(x)' = Over(x) /\ Answer(x)' = Answer(x)
         /\ Start' = Start
  BY DEF Follows, Sampled, Surveyed, Trail, Over, Answer, Start, Candidates, Ranked, TargetFiles,
         May, Affords, Room, Missed, Taken, Read, Looked, File
-----------------------------------------------------------------------------
\* What a blob turned out to hold is known from then on.
LEMMA BodyGrows ==
  ASSUME IInv, [Next]_vars
  PROVE  Extends(body, body')
<1>1. ASSUME NEW c \in todo, NEW held \in Bodies, RequestArrives(c, held) PROVE Extends(body, body')
  <2>1. /\ File(c).blob \in DOMAIN body => held = body[File(c).blob]
        /\ body' = Put(body, File(c).blob, held)
    BY <1>1 DEF RequestArrives
  <2>. HIDE DEF File
  <2>. QED  BY <2>1 DEF Put, Extends
<1>2. CASE body' = body
  BY <1>2 DEF Extends
<1>3. CASE UNCHANGED vars
  BY <1>2, <1>3 DEF vars, caches
<1>4. CASE Recall \/ Begin \/ MissingTree \/ RankTree \/ Sample \/ Finish \/ Evict
  BY <1>2, <1>4 DEF Recall, Begin, MissingTree, RankTree, Sample, Finish, Evict, caches
<1>5. ASSUME NEW c \in todo, \/ SkipTest(c) \/ SkipUnaffordable(c)
                             \/ ReadAgain(c) \/ UseDerived(c) \/ OutOfBudget(c)
                             \/ \E error \in Errors : RequestFails(c, error)
      PROVE  body' = body
  BY <1>5 DEF SkipTest, SkipUnaffordable, ReadAgain, UseDerived, OutOfBudget, RequestFails
<1>. QED  BY <1>1, <1>2, <1>3, <1>4, <1>5 DEF Next

\* An entry that is made is of what the blob holds.
LEMMA Derived ==
  ASSUME IInv, Remembered, NEW c \in todo, NEW held \in Bodies, Extract(c, held),
         Decoded(held) = "readable",
         Extends(body, body'), File(c).blob \in DOMAIN body', body'[File(c).blob] = held
  PROVE  \A k \in DOMAIN derived' :
           LET content == body'[k[1].blob]
           IN /\ k[1].blob \in DOMAIN body'
              /\ Decoded(content) = "readable" /\ content.size <= k[2] /\ content.kind # "secrets"
              /\ derived'[k] = Least(content.kept, k[2])
<1>. DEFINE key == Key(File(c))
            Fits(k, d) == /\ k[1].blob \in DOMAIN body'
                          /\ Decoded(body'[k[1].blob]) = "readable"
                          /\ body'[k[1].blob].size <= k[2] /\ body'[k[1].blob].kind # "secrets"
                          /\ d = Least(body'[k[1].blob].kept, k[2])
<1>1. \A k \in DOMAIN derived : Fits(k, derived[k])
  BY DEF Remembered, Extends
<1>2. Limit \in Nat /\ held.size \in Nat  BY LimitType, SampleAssumption DEF IInv
<1>3. CASE held.size <= Limit /\ held.kind # "secrets" /\ policy.write
  <2>1. derived' = Put(derived, key, Least(held.kept, Limit))
    BY <1>2, <1>3 DEF Extract
  <2>2. key[1] = File(c) /\ key[2] = Limit  BY DEF Key
  <2>3. Fits(key, Least(held.kept, Limit))
    BY <1>3, <2>2
  <2>. HIDE DEF key, Fits
  <2>4. \A k \in DOMAIN derived' : Fits(k, derived'[k])
    BY <1>1, <2>1, <2>3 DEF Put
  <2>. QED  BY <2>4 DEF Fits
<1>4. CASE ~(held.size <= Limit /\ held.kind # "secrets" /\ policy.write)
  <2>1. derived' = derived
    BY <1>2, <1>4 DEF Extract, Fail
  <2>. QED  BY <1>1, <2>1
<1>. QED  BY <1>3, <1>4

LEMMA StillRemembered ==
  ASSUME IInv, Remembered, [Next]_vars
  PROVE  Remembered'
<1>0. Extends(body, body')  BY BodyGrows
<1>. DEFINE Fits(k, d) == LET content == body'[k[1].blob]
                          IN /\ k[1].blob \in DOMAIN body'
                             /\ Decoded(content) = "readable" /\ content.size <= k[2]
                             /\ content.kind # "secrets" /\ d = Least(content.kept, k[2])
            Told1(b, m) == m \in Errors \/ (b \in DOMAIN body' /\ m = Decoded(body'[b]))
<1>1. /\ \A k \in DOMAIN derived : Fits(k, derived[k])
      /\ \A b \in DOMAIN memo : Told1(b, memo[b])
  BY <1>0 DEF Remembered, Extends
<1>2. /\ \A b \in DOMAIN memo' : Told1(b, memo'[b])
      /\ \A k \in DOMAIN derived' : Fits(k, derived'[k])
  <2>1. CASE UNCHANGED <<memo, derived>>
    BY <1>1, <2>1
  <2>2. CASE memo' = <<>> /\ derived' = derived
    <3>. DOMAIN memo' = {}  BY <2>2, EmptyDomain
    <3>. QED  BY <1>1, <2>2
  <2>3. CASE UNCHANGED vars
    BY <2>1, <2>3 DEF vars, traversal, caches
  <2>4. CASE Recall \/ Begin
    BY <2>2, <2>4 DEF Recall, Begin, caches
  <2>5. CASE MissingTree \/ RankTree \/ Sample \/ Finish
    BY <2>1, <2>5 DEF MissingTree, RankTree, Sample, Finish, traversal, caches
  <2>6. CASE Evict
    <3>1. memo' = memo /\ \A k \in DOMAIN derived' : k \in DOMAIN derived /\ derived'[k] = derived[k]
      BY <2>6 DEF Evict, traversal
    <3>. HIDE DEF Fits, Told1
    <3>. QED  BY <1>1, <3>1
  <2>7. ASSUME NEW c \in todo, SkipTest(c) \/ SkipUnaffordable(c) \/ UseDerived(c)
        PROVE  UNCHANGED <<memo, derived>>
    BY <2>7 DEF SkipTest, SkipUnaffordable, UseDerived
  <2>8. ASSUME NEW c \in todo, OutOfBudget(c) PROVE UNCHANGED <<memo, derived>>
    BY <2>8 DEF OutOfBudget, Fail
  <2>9. ASSUME NEW c \in todo, ReadAgain(c)
        PROVE  memo' = memo /\ \A k \in DOMAIN derived' : Fits(k, derived'[k])
    <3>1. memo' = memo /\ body' = body /\ File(c).blob \in DOMAIN memo
      BY <2>9 DEF ReadAgain
    <3>2. CASE memo[File(c).blob] = "readable"
      <4>1. "readable" \notin Errors  BY SampleAssumption DEF Transient
      <4>2. File(c).blob \in DOMAIN body /\ Decoded(body[File(c).blob]) = "readable"
        BY <3>1, <3>2, <4>1 DEF Remembered
      <4>3. body[File(c).blob] \in Bodies  BY <4>2 DEF IInv, Contents
      <4>4. Extract(c, body[File(c).blob])  BY <2>9, <3>2 DEF ReadAgain
      <4>. QED  BY <1>0, <3>1, <4>2, <4>3, <4>4, Derived
    <3>3. CASE memo[File(c).blob] # "readable"
      <4>1. derived' = derived  BY <2>9, <3>3 DEF ReadAgain, Fail
      <4>. QED  BY <1>1, <3>1, <4>1
    <3>. QED  BY <3>2, <3>3
  <2>10. ASSUME NEW c \in todo, NEW error \in Errors, RequestFails(c, error)
         PROVE  derived' = derived /\ \A b \in DOMAIN memo' : Told1(b, memo'[b])
    <3>1. derived' = derived /\ memo' = Put(memo, File(c).blob, error)
      BY <2>10 DEF RequestFails, Fail
    <3>2. Told1(File(c).blob, error)  OBVIOUS
    <3>. HIDE DEF Told1, File
    <3>. QED  BY <1>1, <3>1, <3>2 DEF Put
  <2>11. ASSUME NEW c \in todo, NEW held \in Bodies, RequestArrives(c, held)
         PROVE  /\ \A b \in DOMAIN memo' : Told1(b, memo'[b])
                /\ \A k \in DOMAIN derived' : Fits(k, derived'[k])
    <3>. DEFINE blob == File(c).blob
    <3>1. /\ body' = Put(body, blob, held) /\ memo' = Put(memo, blob, Decoded(held))
          /\ IF Decoded(held) = "readable" THEN Extract(c, held) ELSE Fail(c, Decoded(held))
      BY <2>11 DEF RequestArrives
    <3>2. blob \in DOMAIN body' /\ body'[blob] = held  BY <3>1 DEF Put
    <3>3. Told1(blob, Decoded(held))  BY <3>2
    <3>4. \A b \in DOMAIN memo' : Told1(b, memo'[b])
      <4>. HIDE DEF Told1, blob, Decoded
      <4>. QED  BY <1>1, <3>1, <3>3 DEF Put
    <3>5. CASE Decoded(held) = "readable"
      BY <1>0, <3>1, <3>2, <3>4, <3>5, Derived
    <3>6. CASE Decoded(held) # "readable"
      <4>1. derived' = derived  BY <3>1, <3>6 DEF Fail
      <4>. QED  BY <1>1, <3>4, <4>1
    <3>. QED  BY <3>5, <3>6
  <2>. HIDE DEF Fits, Told1
  <2>. QED  BY <1>1, <2>1, <2>3, <2>4, <2>5, <2>6, <2>7, <2>8, <2>9, <2>10, <2>11 DEF Next
<1>. QED  BY <1>2 DEF Remembered
-----------------------------------------------------------------------------
\* A blob that was opened and not read has a request left to read it.
LEMMA RequestLeft ==
  ASSUME IInv, NEW c \in todo, Examine(c), Unread(c)
  PROVE  used < allowance
<1>. DEFINE b == File(c).blob
<1>1. /\ IsFiniteSet(opened) /\ Cardinality(opened) <= allowance
      /\ DOMAIN memo \subseteq opened /\ used \in Nat /\ used <= Cardinality(DOMAIN memo)
      /\ allowance \in Nat
  BY SampleAssumption DEF IInv, Paid, Placed
<1>2. b \notin DOMAIN memo /\ (b \in opened \/ Cardinality(opened) < allowance)
  BY DEF Unread, Examine, Affordable
<1>3. /\ IsFiniteSet(DOMAIN memo) /\ Cardinality(DOMAIN memo) \in Nat /\ Cardinality(opened) \in Nat
      /\ Cardinality(DOMAIN memo) <= Cardinality(opened)
      /\ DOMAIN memo # opened => Cardinality(DOMAIN memo) < Cardinality(opened)
  BY <1>1, FS_Subset, FS_CardinalityType
<1>. HIDE DEF b
<1>. QED  BY <1>1, <1>2, <1>3

\* The parts of the view that an examined candidate changes.
LEMMA MissedView ==
  ASSUME NEW c \in todo, NEW reason, Examine(c), Fail(c, reason)
  PROVE  View' = Missed(Looked(View, c), c, reason)
<1>1. /\ examined' = examined + 1 /\ opened' = opened \cup {File(c).blob}
      /\ receipts' = Record(receipts, reason)
      /\ todo' = IF reason \in Stops THEN {} ELSE todo \ {c}
      /\ UNCHANGED <<pc, inspected, metadata, shut, bytes, samples>>
  BY DEF Examine, Fail, static
<1>2. /\ View.examined = examined /\ View.opened = opened
      /\ View.receipts = receipts /\ View.todo = todo
  BY DEF View
<1>. HIDE DEF File, Record
<1>3. Looked(View, c) = [View EXCEPT !.examined = examined', !.opened = opened']
  BY <1>1, <1>2 DEF Looked
<1>4. Looked(View, c).receipts = receipts /\ Looked(View, c).todo = todo
  BY <1>3 DEF View
<1>5. Missed(Looked(View, c), c, reason)
        = [[View EXCEPT !.examined = examined', !.opened = opened'] EXCEPT
             !.receipts = receipts', !.todo = todo']
  BY <1>1, <1>3, <1>4 DEF Missed
<1>. QED  BY <1>1, <1>5 DEF View

LEMMA TakenView ==
  ASSUME NEW c \in todo, NEW kept, Examine(c), Keep(c, kept)
  PROVE  View' = Taken(Looked(View, c), c, kept)
<1>. DEFINE entry == [path |-> File(c).path, bytes |-> kept, test |-> File(c).test]
<1>1. /\ examined' = examined + 1 /\ opened' = opened \cup {File(c).blob}
      /\ samples' = Append(samples, entry) /\ bytes' = bytes + kept
      /\ receipts' = IF File(c).lane THEN receipts ELSE Record(receipts, "unsupported-language")
      /\ todo' = todo \ {c}
      /\ UNCHANGED <<pc, inspected, metadata, shut>>
  BY DEF Examine, Keep, static
<1>2. /\ View.examined = examined /\ View.opened = opened
      /\ View.receipts = receipts /\ View.todo = todo
      /\ View.samples = samples /\ View.bytes = bytes
  BY DEF View
<1>3. Taken(Looked(View, c), c, kept)
        = [Looked(View, c) EXCEPT
             !.samples = Append(Looked(View, c).samples, entry),
             !.bytes = Looked(View, c).bytes + kept,
             !.receipts = IF File(c).lane THEN Looked(View, c).receipts
                          ELSE Record(Looked(View, c).receipts, "unsupported-language"),
             !.todo = Looked(View, c).todo \ {c}]
  BY DEF Taken
<1>. HIDE DEF File, Record, entry
<1>4. Looked(View, c) = [View EXCEPT !.examined = examined', !.opened = opened']
  BY <1>1, <1>2 DEF Looked
<1>5. /\ Looked(View, c).receipts = receipts /\ Looked(View, c).todo = todo
      /\ Looked(View, c).samples = samples /\ Looked(View, c).bytes = bytes
  BY <1>4 DEF View
<1>6. Taken(Looked(View, c), c, kept)
        = [[View EXCEPT !.examined = examined', !.opened = opened'] EXCEPT
             !.samples = samples', !.bytes = bytes', !.receipts = receipts', !.todo = todo']
  BY <1>1, <1>3, <1>4, <1>5
<1>7. Taken(Looked(View, c), c, kept)
        = [pc |-> pc, inspected |-> inspected, metadata |-> metadata, todo |-> todo',
           opened |-> opened', examined |-> examined', shut |-> shut,
           bytes |-> bytes', samples |-> samples', receipts |-> receipts']
  BY <1>6 DEF View
<1>. QED  BY <1>1, <1>7 DEF View

LEMMA ReadView ==
  ASSUME IInv, NEW c \in todo, NEW held \in Bodies, Examine(c),
         Decoded(held) = "readable", Extract(c, held)
  PROVE  View' = Read(Looked(View, c), c, held)
<1>. DEFINE x == Looked(View, c)
<1>1. Limit \in Nat /\ held.size \in Nat  BY LimitType, SampleAssumption DEF IInv
<1>2. Room(x) = Limit  BY DEF View, Looked, Room, Limit
<1>. HIDE DEF x
<1>3. CASE held.size > Limit
  <2>1. Fail(c, "oversized")  BY <1>1, <1>3 DEF Extract
  <2>2. View' = Missed(x, c, "oversized")  BY <2>1, MissedView DEF x
  <2>. QED  BY <1>2, <1>3, <2>2 DEF Read, x
<1>4. CASE ~(held.size > Limit) /\ held.kind = "secrets"
  <2>1. Fail(c, "redaction-threshold")  BY <1>1, <1>4 DEF Extract
  <2>2. View' = Missed(x, c, "redaction-threshold")  BY <2>1, MissedView DEF x
  <2>. QED  BY <1>2, <1>4, <2>2 DEF Read, x
<1>5. CASE ~(held.size > Limit) /\ held.kind # "secrets"
  <2>1. Keep(c, Least(held.kept, Limit))  BY <1>1, <1>5 DEF Extract
  <2>2. View' = Taken(x, c, Least(held.kept, Limit))  BY <2>1, TakenView DEF x
  <2>. QED  BY <1>2, <1>5, <2>2 DEF Read, x
<1>. QED  BY <1>3, <1>4, <1>5

LEMMA TurnTaken ==
  ASSUME NEW c \in todo, Examine(c)
  PROVE  /\ View.pc = "sampling" /\ ~Over(View) /\ View.todo = todo
         /\ \A d \in todo : c = d \/ Before(c, d)
         /\ May(View, File(c)) /\ Affords(View, File(c)) /\ View.bytes = bytes
  BY DEF Examine, Turn, Wanting, MaySample, Affordable, View, Over, May, Affords

\* Every examined candidate of a faultless sampling leaves what its blob says.
LEMMA ExaminedFollows ==
  ASSUME IInv, Remembered, NEW c \in todo, met' \cap Errors = {},
         \/ ReadAgain(c) \/ UseDerived(c) \/ OutOfBudget(c)
         \/ \E error \in Errors : RequestFails(c, error)
         \/ \E held \in Bodies : RequestArrives(c, held)
  PROVE  Follows(body', View, View')
<1>. DEFINE blob == File(c).blob
            x == Looked(View, c)
<1>0. Examine(c)
  BY DEF ReadAgain, UseDerived, OutOfBudget, RequestFails, RequestArrives
<1>1. ASSUME ~(Total - bytes < Floor), blob \in DOMAIN body', View' = Read(x, c, body'[blob])
      PROVE  Follows(body', View, View')
  <2>. HIDE DEF View, File
  <2>1. Sampled(body', View, View', c)
    BY <1>0, <1>1, TurnTaken DEF Sampled
  <2>. QED  BY <1>0, <2>1, TurnTaken DEF Follows
<1>2. Total - bytes \in Int /\ Floor \in Nat
  BY SampleAssumption DEF IInv, SoundSamples
<1>3. CASE ReadAgain(c)
  <2>1. ~(Total - bytes < Floor) /\ blob \in DOMAIN memo /\ body' = body
    BY <1>2, <1>3 DEF ReadAgain
  <2>2. CASE memo[blob] = "readable"
    <3>1. "readable" \notin Errors  BY SampleAssumption DEF Transient
    <3>2. blob \in DOMAIN body /\ Decoded(body[blob]) = "readable"
      BY <2>1, <2>2, <3>1 DEF Remembered
    <3>3. body[blob] \in Bodies  BY <3>2 DEF IInv, Contents
    <3>4. Extract(c, body[blob])  BY <1>3, <2>2 DEF ReadAgain
    <3>5. View' = Read(x, c, body[blob])  BY <1>0, <3>2, <3>3, <3>4, ReadView
    <3>. QED  BY <1>1, <2>1, <3>2, <3>5
  <2>3. CASE memo[blob] # "readable"
    <3>1. Fail(c, memo[blob])  BY <1>3, <2>3 DEF ReadAgain
    <3>2. memo[blob] \notin Errors  BY <3>1 DEF Fail
    <3>3. blob \in DOMAIN body /\ memo[blob] = Decoded(body[blob])
      BY <2>1, <3>2 DEF Remembered
    <3>4. View' = Missed(x, c, memo[blob])  BY <1>0, <3>1, MissedView
    <3>. HIDE DEF x, blob, Decoded
    <3>5. View' = Read(x, c, body[blob])  BY <2>3, <3>3, <3>4 DEF Read
    <3>. QED  BY <1>1, <2>1, <3>3, <3>5 DEF x, blob
  <2>. QED  BY <2>2, <2>3
<1>4. CASE UseDerived(c)
  <2>. DEFINE key == Key(File(c))
              held == body[blob]
  <2>1. ~(Total - bytes < Floor) /\ key \in DOMAIN derived /\ body' = body /\ Keep(c, derived[key])
    BY <1>2, <1>4 DEF UseDerived, HasDerived
  <2>2. key[1] = File(c) /\ key[2] = Limit  BY DEF Key
  <2>3. /\ blob \in DOMAIN body /\ Decoded(held) = "readable" /\ held.size <= Limit
        /\ held.kind # "secrets" /\ derived[key] = Least(held.kept, Limit)
    BY <2>1, <2>2 DEF Remembered
  <2>4. View' = Taken(x, c, Least(held.kept, Limit))  BY <1>0, <2>1, <2>3, TakenView
  <2>5. Room(x) = Limit /\ Limit \in Nat /\ held.size \in Nat
    <3>1. held \in Bodies  BY <2>3 DEF IInv, Contents
    <3>. QED  BY <3>1, LimitType, SampleAssumption DEF IInv, View, Looked, Room, Limit
  <2>. HIDE DEF x, held, key, Decoded
  <2>6. View' = Read(x, c, held)  BY <2>3, <2>4, <2>5 DEF Read
  <2>. QED  BY <1>1, <2>1, <2>3, <2>6 DEF x, held
<1>5. CASE OutOfBudget(c)
  <2>1. Total - bytes < Floor /\ Fail(c, "request-budget-exhausted")
    BY <1>0, <1>5, RequestLeft, SampleAssumption DEF OutOfBudget, IInv, Placed, Paid
  <2>2. View' = Missed(x, c, "request-budget-exhausted")  BY <1>0, <2>1, MissedView
  <2>. HIDE DEF View, File
  <2>3. Sampled(body', View, View', c)  BY <1>0, <2>1, <2>2, TurnTaken DEF Sampled
  <2>. QED  BY <1>0, <2>3, TurnTaken DEF Follows
<1>6. CASE \E error \in Errors : RequestFails(c, error)
  BY <1>6 DEF RequestFails, Fail
<1>7. CASE \E held \in Bodies : RequestArrives(c, held)
  <2>1. PICK held \in Bodies : RequestArrives(c, held)  BY <1>7
  <2>2. /\ body' = Put(body, blob, held) /\ ~(Total - bytes < Floor)
        /\ IF Decoded(held) = "readable" THEN Extract(c, held) ELSE Fail(c, Decoded(held))
    BY <1>2, <2>1 DEF RequestArrives, Unread
  <2>3. blob \in DOMAIN body' /\ body'[blob] = held  BY <2>2 DEF Put
  <2>4. CASE Decoded(held) = "readable"
    <3>1. View' = Read(x, c, held)  BY <1>0, <2>2, <2>4, ReadView
    <3>. QED  BY <1>1, <2>2, <2>3, <3>1
  <2>5. CASE Decoded(held) # "readable"
    <3>1. View' = Missed(x, c, Decoded(held))  BY <1>0, <2>2, <2>5, MissedView
    <3>. HIDE DEF x, blob, Decoded
    <3>2. View' = Read(x, c, held)  BY <2>5, <3>1 DEF Read
    <3>. QED  BY <1>1, <2>2, <2>3, <3>2 DEF x, blob
  <2>. QED  BY <2>4, <2>5
<1>. QED  BY <1>3, <1>4, <1>5, <1>6, <1>7

LEMMA SkippedFollows ==
  ASSUME NEW c \in todo, SkipTest(c) \/ SkipUnaffordable(c)
  PROVE  Follows(body', View, View')
<1>1. View.pc = "sampling" /\ ~Over(View) /\ View.todo = todo /\ \A d \in todo : c = d \/ Before(c, d)
  BY DEF SkipTest, SkipUnaffordable, Turn, Wanting, View, Over
<1>2. CASE SkipTest(c)
  <2>0. /\ todo' = todo \ {c} /\ UNCHANGED <<pc, inspected, metadata, opened, examined, shut>>
        /\ UNCHANGED <<bytes, samples, receipts>>
    BY <1>2 DEF SkipTest, static, result
  <2>1. ~May(View, File(c)) /\ todo' = View.todo \ {c} /\ View' = [View EXCEPT !.todo = todo']
    <3>1. ~May(View, File(c))  BY <1>2 DEF SkipTest, MaySample, View, May
    <3>. QED  BY <2>0, <3>1 DEF View
  <2>. HIDE DEF View, File
  <2>2. Sampled(body', View, View', c)  BY <1>1, <2>1 DEF Sampled
  <2>. QED  BY <1>1, <2>2 DEF Follows
<1>3. CASE SkipUnaffordable(c)
  <2>1. /\ May(View, File(c)) /\ ~Affords(View, File(c)) /\ todo' = View.todo \ {c}
        /\ View' = [View EXCEPT !.todo = todo', !.shut = TRUE]
    <3>0. shut' = TRUE
      BY <1>3 DEF SkipUnaffordable
    <3>1. /\ todo' = todo \ {c}
          /\ UNCHANGED <<pc, inspected, metadata, opened, examined, bytes, samples, receipts>>
      BY <1>3 DEF SkipUnaffordable, static, result
    <3>2. May(View, File(c)) /\ ~Affords(View, File(c))
      BY <1>3 DEF SkipUnaffordable, MaySample, Affordable, View, May, Affords
    <3>3. PICK left : left = [View EXCEPT !.todo = todo']
      OBVIOUS
    <3>4. left = [pc |-> pc, inspected |-> inspected, metadata |-> metadata, todo |-> todo',
                  opened |-> opened, examined |-> examined, shut |-> shut,
                  bytes |-> bytes, samples |-> samples, receipts |-> receipts]
      BY <3>3 DEF View
    <3>5. View' = [left EXCEPT !.shut = shut']
      BY <3>1, <3>4 DEF View
    <3>6. View' = [View EXCEPT !.todo = todo', !.shut = TRUE]
      BY <3>0, <3>3, <3>5
    <3>7. todo' = View.todo \ {c}  BY <3>1 DEF View
    <3>. QED  BY <3>2, <3>6, <3>7
  <2>. HIDE DEF View, File
  <2>2. Sampled(body', View, View', c)  BY <1>1, <2>1 DEF Sampled
  <2>. QED  BY <1>1, <2>2 DEF Follows
<1>. QED  BY <1>2, <1>3

LEMMA SurveyFollows ==
  ASSUME IInv, MissingTree \/ RankTree \/ Sample
  PROVE  Follows(body', View, View')
<1>0. pc = "metadata" /\ View.pc = pc /\ View.inspected = inspected /\ Len(world) \in Nat /\ inspected \in Nat
  BY SampleAssumption DEF MissingTree, RankTree, Sample, View, IInv, Placed
<1>1. CASE MissingTree
  <2>1. /\ receipts' = Record(View.receipts, "tree-unavailable") /\ inspected' = View.inspected + 1
        /\ View' = [View EXCEPT !.receipts = receipts', !.inspected = inspected']
    <3>1. /\ receipts' = Record(receipts, "tree-unavailable") /\ inspected' = inspected + 1
          /\ UNCHANGED <<pc, metadata, todo, opened, examined, shut, bytes, samples>>
      BY <1>1 DEF MissingTree, traversal
    <3>. HIDE DEF Record
    <3>2. View.receipts = receipts /\ View.inspected = inspected
      BY DEF View
    <3>3. PICK told : told = [View EXCEPT !.receipts = receipts']
      OBVIOUS
    <3>4. told = [pc |-> pc, inspected |-> inspected, metadata |-> metadata, todo |-> todo,
                  opened |-> opened, examined |-> examined, shut |-> shut,
                  bytes |-> bytes, samples |-> samples, receipts |-> receipts']
      BY <3>3 DEF View
    <3>5. View' = [told EXCEPT !.inspected = inspected']
      BY <3>1, <3>4 DEF View
    <3>6. View' = [View EXCEPT !.receipts = receipts', !.inspected = inspected']
      BY <3>3, <3>5
    <3>. QED  BY <3>1, <3>2, <3>6
  <2>2. inspected # Len(world) /\ world[inspected + 1].tree = "missing"
    BY <1>0, <1>1 DEF MissingTree
  <2>. QED  BY <1>0, <2>1, <2>2 DEF Follows, Surveyed
<1>2. CASE RankTree
  <2>. DEFINE repository == world[inspected + 1]
              told == IF repository.tree = "truncated"
                      THEN Record(receipts, "incomplete-github-response") ELSE receipts
              large == Least(repository.large, Least(MaxMetadata - metadata, MaxFailures - Len(told)))
              empty == repository.files = <<>> /\ repository.large = 0
  <2>1. /\ receipts' = IF empty THEN Record(told, "no-source-candidate")
                       ELSE told \o [i \in 1..large |-> "oversized"]
        /\ metadata' = metadata + (IF empty THEN 0 ELSE large)
        /\ inspected' = inspected + 1
        /\ UNCHANGED <<pc, todo, opened, examined, shut, bytes, samples>>
    BY <1>2 DEF RankTree, traversal
  <2>2. inspected # Len(world) /\ repository.tree # "missing"
    BY <1>0, <1>2 DEF RankTree
  <2>3. View.receipts = receipts /\ View.metadata = metadata  BY DEF View
  <2>4. Surveyed(View) = [View EXCEPT !.receipts = IF empty THEN Record(told, "no-source-candidate")
                                                   ELSE told \o [i \in 1..large |-> "oversized"],
                                      !.metadata = metadata + (IF empty THEN 0 ELSE large),
                                      !.inspected = inspected + 1]
    BY <1>0, <2>2, <2>3 DEF Surveyed
  <2>. HIDE DEF repository, told, large, empty
  <2>5. View' = Surveyed(View)  BY <2>1, <2>4 DEF View
  <2>. QED  BY <1>0, <2>5 DEF Follows
<1>3. CASE Sample
  <2>1. View' = [View EXCEPT !.pc = "sampling"] /\ inspected = Len(world)
    BY <1>3 DEF Sample, View, traversal, result
  <2>. QED  BY <1>0, <2>1 DEF Follows, Surveyed
<1>. QED  BY <1>1, <1>2, <1>3
-----------------------------------------------------------------------------
\* A step of a sampling, while it is one and no request has failed.
LEMMA StepFollows ==
  ASSUME IInv, Remembered, Next, pc # "idle", pc' # "idle", met' \cap Errors = {}
  PROVE  Follows(body', View, View') /\ met \cap Errors = {} /\ clean' = clean
<1>1. CASE MissingTree \/ RankTree \/ Sample
  <2>1. met \subseteq met' /\ clean' = clean
    BY <1>1 DEF MissingTree, RankTree, Sample, result, caches
  <2>. QED  BY <1>1, <2>1, SurveyFollows
<1>2. ASSUME NEW c \in todo, SkipTest(c) \/ SkipUnaffordable(c)
      PROVE  Follows(body', View, View') /\ met' = met /\ clean' = clean
  BY <1>2, SkippedFollows DEF SkipTest, SkipUnaffordable, result, static
<1>3. ASSUME NEW c \in todo,
             \/ ReadAgain(c) \/ UseDerived(c) \/ OutOfBudget(c)
             \/ \E error \in Errors : RequestFails(c, error)
             \/ \E held \in Bodies : RequestArrives(c, held)
      PROVE  Follows(body', View, View') /\ met \subseteq met' /\ clean' = clean
  <2>1. clean' = clean
    BY <1>3 DEF ReadAgain, UseDerived, OutOfBudget, RequestFails, RequestArrives, Examine, static
  <2>2. \/ \E reason : Fail(c, reason)
        \/ \E kept : Keep(c, kept)
    BY <1>3 DEF ReadAgain, UseDerived, OutOfBudget, RequestFails, RequestArrives, Extract
  <2>3. met \subseteq met'
    BY <2>2 DEF Fail, Keep
  <2>. QED  BY <1>3, <2>1, <2>3, ExaminedFollows
<1>4. ~Recall /\ ~Begin /\ ~Finish /\ ~Evict
  BY DEF Recall, Begin, Finish, Evict
<1>. QED  BY <1>1, <1>2, <1>3, <1>4 DEF Next

\* The trail of a run is longer by what follows.
LEMMA TrailGrows ==
  ASSUME NEW T, NEW B, NEW C, NEW x, NEW y, Trail(T, B, x), Extends(B, C), Follows(C, x, y)
  PROVE  Trail(T \cup {y}, C, y)
<1>1. Start \in T \cup {y} /\ y \in T \cup {y}
  BY DEF Trail
<1>2. ASSUME NEW z \in T \cup {y} PROVE z = y \/ \E v \in T \cup {y} : Follows(C, z, v)
  <2>1. CASE z = x
    BY <2>1
  <2>2. CASE z \in T /\ z # x
    <3>1. PICK v \in T : Follows(B, z, v)  BY <2>2 DEF Trail
    <3>. QED  BY <3>1, KnowingMore
  <2>. QED  BY <2>1, <2>2
<1>. QED  BY <1>1, <1>2 DEF Trail

LEMMA TrailKept ==
  ASSUME NEW T, NEW B, NEW C, NEW z, Trail(T, B, z), Extends(B, C)
  PROVE  Trail(T, C, z)
  BY KnowingMore DEF Trail

\* A run that is on the trail of an earlier answer stays on it.
LEMMA OnTheTrail ==
  ASSUME IInv, NEW T, NEW B, NEW z, NEW y, Trail(T, B, z), z.pc = "sampling", Over(z),
         View \in T, Follows(B, View, y)
  PROVE  y \in T
<1>1. View # z  BY Ending
<1>2. PICK v \in T : Follows(B, View, v)  BY <1>1 DEF Trail
<1>. QED  BY <1>2, OneWay

LEMMA SamenessKept ==
  ASSUME IInv, Sameness, [Next]_vars
  PROVE  Sameness'
<1>0. Extends(body, body') /\ Remembered'
  BY BodyGrows, StillRemembered DEF Sameness
<1>w. UNCHANGED <<world, allowance>>
  BY DEF Next, vars, input, static, Recall, Begin, MissingTree, RankTree, Sample, Finish, Evict,
         SkipTest, SkipUnaffordable, ReadAgain, UseDerived, OutOfBudget, RequestFails,
         RequestArrives, Examine
<1>e. /\ \A T, B, z : Trail(T, B, z)' <=> Trail(T, B, z)
      /\ \A x : Over(x)' = Over(x) /\ Answer(x)' = Answer(x)
      /\ Start' = Start
  BY <1>w, SameWorld
<1>. HIDE DEF View
<1>1. CASE Next /\ pc # "idle" /\ pc' # "idle" /\ met' \cap Errors = {}
  <2>1. Follows(body', View, View') /\ Faultless /\ clean' = clean
    BY <1>1, StepFollows DEF Sameness, Faultless
  <2>2. Tracked'
    <3>1. PICK T : Trail(T, body, View)  BY <2>1 DEF Sameness, Tracked
    <3>2. Trail(T \cup {View'}, body', View')  BY <1>0, <2>1, <3>1, TrailGrows
    <3>3. \E U : Trail(U, body', View')  BY <3>2
    <3>. QED  BY <1>e, <3>3 DEF Tracked
  <2>3. Repeated'
    <3>. SUFFICES ASSUME NEW answer \in clean
                  PROVE  \E T, z : /\ Trail(T, body', z) /\ z.pc = "sampling" /\ Over(z)
                                   /\ answer = Answer(z) /\ View' \in T
      BY <1>e, <2>1 DEF Repeated
    <3>1. PICK T, z : /\ Trail(T, body, z) /\ z.pc = "sampling" /\ Over(z)
                      /\ answer = Answer(z) /\ View \in T
      BY <2>1 DEF Sameness, Repeated
    <3>2. Trail(T, body', z)  BY <1>0, <3>1, TrailKept
    <3>3. View' \in T  BY <2>1, <3>1, <3>2, OnTheTrail
    <3>. QED  BY <3>1, <3>2, <3>3
  <2>. QED  BY <1>0, <2>1, <2>2, <2>3 DEF Sameness, Same
<1>2. CASE Begin
  <2>1. View' = Start /\ body' = body /\ clean' = clean
    BY <1>2 DEF Begin, View, Start, caches
  <2>2. Trail({Start}, body, Start)  BY DEF Trail
  <2>3. Tracked'
    <3>. \E T : Trail(T, body, Start)  BY <2>2
    <3>. QED  BY <1>e, <2>1 DEF Tracked
  <2>4. Repeated'
    <3>1. \A T, B, z : Trail(T, B, z) => Start \in T  BY DEF Trail
    <3>. QED  BY <1>e, <2>1, <3>1 DEF Sameness, Repeated
  <2>. QED  BY <1>0, <2>1, <2>3, <2>4 DEF Sameness, Same
<1>3. CASE Finish
  <2>1. pc = "sampling" /\ pc' = "idle" /\ body' = body /\ Over(View) /\ View.pc = "sampling"
    BY <1>3 DEF Finish, View, Over, Wanting
  <2>2. ~Faultless' /\ Tracked'  BY <2>1 DEF Faultless, Tracked
  <2>3. <<samples, receipts'>> = Answer(View)
    BY <1>3 DEF Finish, Closing, Answer, View
  <2>4. clean' = IF met \cap Errors = {} THEN clean \cup {Answer(View)} ELSE clean
    BY <1>3, <2>3 DEF Finish
  <2>5. CASE ~Faultless
    <3>1. clean' = clean  BY <2>1, <2>4, <2>5 DEF Faultless
    <3>2. Repeated'  BY <1>e, <2>1, <2>2, <3>1 DEF Sameness, Repeated
    <3>. QED  BY <1>0, <2>2, <3>1, <3>2 DEF Sameness, Same
  <2>6. CASE Faultless
    <3>1. clean' = clean \cup {Answer(View)}  BY <2>4, <2>6 DEF Faultless
    <3>2. PICK T : Trail(T, body, View)  BY <2>6 DEF Sameness, Tracked
    <3>3. \A answer \in clean : answer = Answer(View)
      <4>. SUFFICES ASSUME NEW answer \in clean PROVE answer = Answer(View)
        OBVIOUS
      <4>1. PICK U, z : Trail(U, body, z) /\ answer = Answer(z) /\ View \in U
        BY <2>6 DEF Sameness, Repeated
      <4>2. View = z
        <5>1. \A y : ~Follows(body, View, y)  BY <2>1, Ending
        <5>. QED  BY <4>1, <5>1 DEF Trail
      <4>. QED  BY <4>1, <4>2
    <3>4. Repeated'
      <4>. SUFFICES ASSUME NEW answer \in clean'
                    PROVE  \E U, z : /\ Trail(U, body, z) /\ z.pc = "sampling" /\ Over(z)
                                     /\ answer = Answer(z)
        BY <1>e, <2>1, <2>2 DEF Repeated
      <4>1. answer = Answer(View)  BY <3>1, <3>3
      <4>. QED  BY <2>1, <3>2, <4>1
    <3>5. Same'  BY <3>1, <3>3 DEF Same
    <3>. QED  BY <1>0, <2>2, <3>4, <3>5 DEF Sameness
  <2>. QED  BY <2>5, <2>6
<1>4. CASE UNCHANGED vars
  <2>1. View' = View /\ body' = body /\ clean' = clean /\ Faultless' = Faultless
    BY <1>4 DEF vars, View, traversal, result, caches, Faultless
  <2>. QED  BY <1>0, <1>e, <2>1 DEF Sameness, Tracked, Repeated, Same
<1>5. CASE Next /\ ~Begin /\ ~Finish /\ ~(pc # "idle" /\ pc' # "idle" /\ met' \cap Errors = {})
  <2>1. clean' = clean
    BY <1>5 DEF Next, caches, static, Recall, MissingTree, RankTree, Sample, Evict,
         SkipTest, SkipUnaffordable, ReadAgain, UseDerived, OutOfBudget, RequestFails,
         RequestArrives, Examine
  <2>2. pc = "idle" => pc' = "idle"
    BY <1>5 DEF Next, static, Recall, MissingTree, RankTree, Sample, Evict,
         SkipTest, SkipUnaffordable, ReadAgain, UseDerived, OutOfBudget, RequestFails,
         RequestArrives, Examine, Turn
  <2>3. ~Faultless'  BY <1>5, <2>2 DEF Faultless
  <2>4. Repeated'
    <3>. SUFFICES ASSUME NEW answer \in clean
                  PROVE  \E T, z : /\ Trail(T, body', z) /\ z.pc = "sampling" /\ Over(z)
                                   /\ answer = Answer(z)
      BY <1>e, <2>1, <2>3 DEF Repeated
    <3>1. PICK T, z : Trail(T, body, z) /\ z.pc = "sampling" /\ Over(z) /\ answer = Answer(z)
      BY DEF Sameness, Repeated
    <3>. QED  BY <1>0, <3>1, TrailKept
  <2>. QED  BY <1>0, <2>1, <2>3, <2>4 DEF Sameness, Tracked, Same
<1>. QED  BY <1>1, <1>2, <1>3, <1>4, <1>5

\* Caches save requests and nothing else (readBlob, judge): whatever they held, and
\* whatever was written, evicted and read under other limits, every sampling in
\* which no request failed gives the same samples and the same receipts.
THEOREM AnswersAgree == Spec => []OneAnswer
<1>1. Init => Sameness
  <2>. SUFFICES ASSUME Init PROVE Sameness
    OBVIOUS
  <2>. QED  BY EmptyDomain DEF Init, Sameness, Remembered, Tracked, Repeated, Same, Faultless
<1>2. IInv /\ Sameness /\ [Next]_vars => Sameness'
  BY SamenessKept
<1>3. Sameness => OneAnswer
  <2>. SUFFICES ASSUME Same PROVE Cardinality(clean) <= 1
    BY DEF Sameness, OneAnswer
  <2>1. CASE clean = {}
    BY <2>1, FS_EmptySet
  <2>2. CASE clean # {}
    <3>1. PICK a : clean = {a}  BY <2>2 DEF Same
    <3>2. Cardinality({a}) = 1  BY FS_Singleton
    <3>. QED  BY <3>1, <3>2
  <2>. QED  BY <2>1, <2>2
<1>. QED  BY <1>1, <1>2, <1>3, Invariance, PTL DEF Spec
=============================================================================
