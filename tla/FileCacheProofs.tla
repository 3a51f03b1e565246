-------------------------- MODULE FileCacheProofs ---------------------------
(***************************************************************************)
(* Theorems about the file caches for any number of processes, values,     *)
(* inodes and any time to live.  The invariant is provenance: every chunk  *)
(* in a file or in a buffer comes from a set that was begun, so whatever   *)
(* the validation accepts is one of the envelopes that were offered.       *)
(***************************************************************************)
EXTENDS FileCache, TLAPS

Chunks == begun \cup {Hole}
Answers == {Miss} \cup {[image |-> Image(e.val), exp |-> e.exp] : e \in begun}

Shared ==
  /\ now \in Nat
  /\ dir \in BOOLEAN
  /\ path \in Inodes \cup {None} /\ tmp \in Inodes \cup {None}
  /\ begun \subseteq Envelope
  /\ solo \subseteq Procs
  /\ overlap \in BOOLEAN

Locals ==
  /\ pc \in [Procs -> PCs]
  /\ job \in [Procs -> Envelope \cup {None}]
  /\ fd \in [Procs -> Inodes \cup {None}]
  /\ off \in [Procs -> Nat]
  /\ todo \in [Procs -> SUBSET Names]

\* Every chunk and every answer was handed to a set.
Provenance ==
  /\ content \in [Inodes -> Seq(Chunks)]
  /\ buf \in [Procs -> Seq(Chunks)]
  /\ result \in [Procs -> Answers]

\* A process in the middle of an operation has what its next step needs.
Ready ==
  \A p \in Procs :
    /\ pc[p] \in {"open", "write"} => job[p] \in begun
    /\ pc[p] \in {"write", "read"} => fd[p] \in Inodes

IInv == Shared /\ Locals /\ Provenance /\ Ready
-----------------------------------------------------------------------------
LEMMA SeqMonotone ==
  ASSUME NEW S, NEW T, S \subseteq T
  PROVE  Seq(S) \subseteq Seq(T)
  OBVIOUS

\* A write leaves a sequence of known chunks.
LEMMA WriteAtType ==
  ASSUME NEW S, NEW s \in Seq(S), NEW k \in Nat, NEW c \in S, Hole \in S
  PROVE  WriteAt(s, k, c) \in Seq(S)
  <1>1. Len(s) \in Nat /\ \A i \in 1..Len(s) : s[i] \in S  OBVIOUS
  <1> DEFINE n == IF Len(s) > k THEN Len(s) ELSE k
  <1>2. n \in Nat  BY <1>1
  <1>3. \A i \in 1..n : (IF i = k THEN c ELSE IF i <= Len(s) THEN s[i] ELSE Hole) \in S
    BY <1>1
  <1> HIDE DEF n
  <1>4. [i \in 1..n |-> IF i = k THEN c ELSE IF i <= Len(s) THEN s[i] ELSE Hole] \in Seq(S)
    BY <1>2, <1>3
  <1> QED BY <1>4 DEF WriteAt, n

\* What the validation accepts is an envelope some set was called with, whole.
LEMMA WholeIsKnown ==
  ASSUME begun \subseteq Envelope, NEW s \in Seq(Chunks), Whole(s)
  PROVE  \E e \in begun : /\ Decoded(s) = [image |-> Image(e.val), exp |-> e.exp]
                          /\ s[1] = e
  <1>1. Len(s) \in Nat /\ Len(s) > 0 /\ s[1] # Hole /\ s[1] \in Chunks
    BY DEF Whole
  <1>2. s[1] \in begun  BY <1>1 DEF Chunks
  <1>3. Len(s) = Size[s[1].val] /\ \A i \in 1..Len(s) : s[i].val = s[1].val
    BY DEF Whole
  <1>4. [i \in 1..Len(s) |-> s[i].val] = Image(s[1].val)
    BY <1>3 DEF Image
  <1> QED BY <1>2, <1>4 DEF Decoded
-----------------------------------------------------------------------------
LEMMA InitIInv == Init => IInv
  <1> SUFFICES ASSUME Init PROVE IInv  OBVIOUS
  <1> USE FileCacheAssumption
  <1>1. Shared  BY DEF Init, Shared
  <1>2. Locals  BY DEF Init, Locals, PCs
  <1>3. <<>> \in Seq(Chunks) /\ Miss \in Answers  BY DEF Answers
  <1>4. Provenance  BY <1>3 DEF Init, Provenance
  <1>5. Ready  BY DEF Init, Ready
  <1> QED BY <1>1, <1>2, <1>4, <1>5 DEF IInv

\* A step that begins no set keeps what is known and what is answered.
LEMMA SameChunks ==
  ASSUME begun' = begun
  PROVE  Chunks' = Chunks /\ Answers' = Answers /\ Seq(Chunks)' = Seq(Chunks)
  BY DEF Chunks, Answers

LEMMA BeginSetStep ==
  ASSUME IInv, NEW p \in Procs, NEW v \in Vals, BeginSet(p, v)
  PROVE  IInv'
  <1> DEFINE e == [val |-> v, exp |-> now + TTL]
  <1>1. e \in Envelope  BY FileCacheAssumption DEF IInv, Shared, Envelope
  <1>2. /\ begun' = begun \cup {e} /\ dir' = TRUE
        /\ job' = [job EXCEPT ![p] = e]
        /\ pc' = [pc EXCEPT ![p] = "open"]
        /\ solo' \subseteq Procs
        /\ overlap' \in BOOLEAN
        /\ UNCHANGED <<now, path, tmp, content, fd, off, buf, todo, result>>
    BY DEF BeginSet, Enter, Goto, IInv, Shared
  <1> HIDE DEF e
  <1>3. dir' \in BOOLEAN  BY <1>2
  <1>4. Shared'  BY <1>1, <1>2, <1>3 DEF IInv, Shared
  <1>5. Locals'  BY <1>1, <1>2 DEF IInv, Locals, PCs, Setting
  <1>6. Provenance'
    <2>1. Seq(Chunks) \subseteq Seq(Chunks')
      <3>1. Chunks \subseteq Chunks'  BY <1>2 DEF Chunks
      <3> QED BY <3>1, SeqMonotone
    <2>2. Answers \subseteq Answers'  BY <1>2 DEF Answers
    <2> QED BY <1>2, <2>1, <2>2 DEF IInv, Provenance
  <1>7. Ready'  BY <1>2 DEF IInv, Ready, Locals
  <1> QED BY <1>4, <1>5, <1>6, <1>7 DEF IInv

LEMMA SetStepIInv ==
  ASSUME IInv, NEW p \in Procs, SetStep(p)
  PROVE  IInv'
  <1> USE FileCacheAssumption
  <1>1. CASE OpenTmp(p)
    <2>1. begun' = begun  BY <1>1 DEF OpenTmp, Goto, history, FreeInodes
    <2>2. Shared'  BY <1>1, <2>1 DEF OpenTmp, Goto, history, FreeInodes, IInv, Shared
    <2>3. Locals'
      <3>1. PICK i \in Inodes : fd' = [fd EXCEPT ![p] = i]
        BY <1>1 DEF OpenTmp, FreeInodes, IInv, Shared
      <3>2. pc' = [pc EXCEPT ![p] = "write"] /\ UNCHANGED <<job, off, todo>>
        BY <1>1 DEF OpenTmp, Goto
      <3> QED BY <3>1, <3>2 DEF IInv, Locals, PCs, Setting
    <2>4. Provenance'
      <3>1. \E i \in Inodes : content' = [content EXCEPT ![i] = <<>>]
        BY <1>1 DEF OpenTmp, FreeInodes, IInv, Shared
      <3>2. UNCHANGED <<buf, result>>  BY <1>1 DEF OpenTmp
      <3>3. <<>> \in Seq(Chunks)  OBVIOUS
      <3> QED BY <2>1, <3>1, <3>2, <3>3, SameChunks DEF IInv, Provenance
    <2>5. Ready'  BY <1>1, <2>1 DEF OpenTmp, Goto, history, FreeInodes, IInv, Ready, Shared, Locals
    <2> QED BY <2>2, <2>3, <2>4, <2>5 DEF IInv
  <1>2. CASE WriteChunk(p)
    <2>1. begun' = begun  BY <1>2 DEF WriteChunk, Goto, history
    <2>2. Shared'  BY <1>2, <2>1 DEF WriteChunk, Goto, history, IInv, Shared
    <2>3. Locals'  BY <1>2 DEF WriteChunk, Goto, history, IInv, Locals, PCs, Setting, Names
    <2>4. Provenance'
      <3>1. fd[p] \in Inodes /\ job[p] \in Chunks /\ off[p] + 1 \in Nat /\ Hole \in Chunks
        BY <1>2 DEF WriteChunk, IInv, Ready, Locals, Chunks
      <3>2. content[fd[p]] \in Seq(Chunks)
        BY <3>1 DEF IInv, Provenance
      <3> DEFINE s == WriteAt(content[fd[p]], off[p] + 1, job[p])
      <3>3. s \in Seq(Chunks)
        BY <3>1, <3>2, WriteAtType
      <3>4. content' = [content EXCEPT ![fd[p]] = s] /\ UNCHANGED <<buf, result>>
        BY <1>2 DEF WriteChunk
      <3> HIDE DEF s
      <3> QED BY <2>1, <3>1, <3>3, <3>4, SameChunks DEF IInv, Provenance
    <2>5. Ready'  BY <1>2, <2>1 DEF WriteChunk, Goto, history, IInv, Ready, Shared, Locals
    <2> QED BY <2>2, <2>3, <2>4, <2>5 DEF IInv
  <1>3. CASE WriteFails(p)
    <2>1. begun' = begun  BY <1>3 DEF WriteFails, Goto, files, locals, history
    <2>2. Shared'  BY <1>3, <2>1 DEF WriteFails, Goto, files, locals, history, IInv, Shared
    <2>3. Locals'  BY <1>3 DEF WriteFails, Goto, files, locals, history, IInv, Locals, PCs, Setting, Names
    <2>4. Provenance'  BY <1>3, <2>1, SameChunks DEF WriteFails, Goto, files, locals, history, IInv, Provenance
    <2>5. Ready'  BY <1>3, <2>1 DEF WriteFails, Goto, files, locals, history, IInv, Ready, Shared, Locals
    <2> QED BY <2>2, <2>3, <2>4, <2>5 DEF IInv
  <1>4. CASE Rename(p)
    <2>1. begun' = begun  BY <1>4 DEF Rename, Goto, history
    <2>2. Shared'  BY <1>4, <2>1 DEF Rename, Goto, history, IInv, Shared
    <2>3. Locals'  BY <1>4 DEF Rename, Goto, history, IInv, Locals, PCs, Setting, Names
    <2>4. Provenance'  BY <1>4, <2>1, SameChunks DEF Rename, Goto, history, IInv, Provenance
    <2>5. Ready'  BY <1>4, <2>1 DEF Rename, Goto, history, IInv, Ready, Shared, Locals
    <2> QED BY <2>2, <2>3, <2>4, <2>5 DEF IInv
  <1>5. CASE UnlinkTmp(p)
    <2>1. begun' = begun  BY <1>5 DEF UnlinkTmp, Leave, history
    <2>2. Shared'  BY <1>5, <2>1 DEF UnlinkTmp, Leave, history, IInv, Shared
    <2>3. Locals'  BY <1>5 DEF UnlinkTmp, Leave, history, IInv, Locals, PCs, Setting, Names
    <2>4. Provenance'  BY <1>5, <2>1, SameChunks DEF UnlinkTmp, Leave, history, IInv, Provenance
    <2>5. Ready'  BY <1>5, <2>1 DEF UnlinkTmp, Leave, history, IInv, Ready, Shared, Locals
    <2> QED BY <2>2, <2>3, <2>4, <2>5 DEF IInv
  <1>6. CASE \E v \in Vals : BeginSet(p, v)
    BY <1>6, BeginSetStep
  <1> QED BY <1>1, <1>2, <1>3, <1>4, <1>5, <1>6 DEF SetStep

LEMMA ScanStepIInv ==
  ASSUME IInv, NEW p \in Procs, ScanStep(p)
  PROVE  IInv'
  <1> USE FileCacheAssumption
  <1>1. CASE BeginScan(p)
    <2>1. begun' = begun  BY <1>1 DEF BeginScan, Goto, Enter, files, locals
    <2>2. Shared'  BY <1>1, <2>1 DEF BeginScan, Goto, Enter, files, locals, IInv, Shared
    <2>3. Locals'  BY <1>1 DEF BeginScan, Goto, Enter, files, locals, IInv, Locals, PCs, Setting, Names
    <2>4. Provenance'  BY <1>1, <2>1, SameChunks DEF BeginScan, Goto, Enter, files, locals, IInv, Provenance
    <2>5. Ready'  BY <1>1, <2>1 DEF BeginScan, Goto, Enter, files, locals, IInv, Ready, Shared, Locals
    <2> QED BY <2>2, <2>3, <2>4, <2>5 DEF IInv
  <1>2. CASE ScanList(p)
    <2>1. begun' = begun  BY <1>2 DEF ScanList, Goto, files, history, Present
    <2>2. Shared'  BY <1>2, <2>1 DEF ScanList, Goto, files, history, Present, IInv, Shared
    <2>3. Locals'  BY <1>2 DEF ScanList, Goto, files, history, Present, IInv, Locals, PCs, Setting, Names
    <2>4. Provenance'  BY <1>2, <2>1, SameChunks DEF ScanList, Goto, files, history, Present, IInv, Provenance
    <2>5. Ready'  BY <1>2, <2>1 DEF ScanList, Goto, files, history, Present, IInv, Ready, Shared, Locals
    <2> QED BY <2>2, <2>3, <2>4, <2>5 DEF IInv
  <1>3. CASE ScanTmp(p)
    <2>1. begun' = begun  BY <1>3 DEF ScanTmp, history
    <2>2. Shared'  BY <1>3, <2>1 DEF ScanTmp, history, IInv, Shared
    <2>3. Locals'  BY <1>3 DEF ScanTmp, history, IInv, Locals, PCs, Setting, Names
    <2>4. Provenance'  BY <1>3, <2>1, SameChunks DEF ScanTmp, history, IInv, Provenance
    <2>5. Ready'  BY <1>3, <2>1 DEF ScanTmp, history, IInv, Ready, Shared, Locals
    <2> QED BY <2>2, <2>3, <2>4, <2>5 DEF IInv
  <1>4. CASE ScanEntry(p)
    <2>1. begun' = begun  BY <1>4 DEF ScanEntry, Goto, files, history
    <2>2. Shared'  BY <1>4, <2>1 DEF ScanEntry, Goto, files, history, IInv, Shared
    <2>3. Locals'  BY <1>4 DEF ScanEntry, Goto, files, history, IInv, Locals, PCs, Setting, Names
    <2>4. Provenance'  BY <1>4, <2>1, SameChunks DEF ScanEntry, Goto, files, history, IInv, Provenance
    <2>5. Ready'  BY <1>4, <2>1 DEF ScanEntry, Goto, files, history, IInv, Ready, Shared, Locals
    <2> QED BY <2>2, <2>3, <2>4, <2>5 DEF IInv
  <1>5. CASE Evict(p)
    <2>1. begun' = begun  BY <1>5 DEF Evict, Goto, locals, history
    <2>2. Shared'  BY <1>5, <2>1 DEF Evict, Goto, locals, history, IInv, Shared
    <2>3. Locals'  BY <1>5 DEF Evict, Goto, locals, history, IInv, Locals, PCs, Setting, Names
    <2>4. Provenance'  BY <1>5, <2>1, SameChunks DEF Evict, Goto, locals, history, IInv, Provenance
    <2>5. Ready'  BY <1>5, <2>1 DEF Evict, Goto, locals, history, IInv, Ready, Shared, Locals
    <2> QED BY <2>2, <2>3, <2>4, <2>5 DEF IInv
  <1>6. CASE ScanEnd(p)
    <2>1. begun' = begun  BY <1>6 DEF ScanEnd, Leave, files, history
    <2>2. Shared'  BY <1>6, <2>1 DEF ScanEnd, Leave, files, history, IInv, Shared
    <2>3. Locals'  BY <1>6 DEF ScanEnd, Leave, files, history, IInv, Locals, PCs, Setting, Names
    <2>4. Provenance'  BY <1>6, <2>1, SameChunks DEF ScanEnd, Leave, files, history, IInv, Provenance
    <2>5. Ready'  BY <1>6, <2>1 DEF ScanEnd, Leave, files, history, IInv, Ready, Shared, Locals
    <2> QED BY <2>2, <2>3, <2>4, <2>5 DEF IInv
  <1>7. CASE ScanSkip(p)
    <2>1. begun' = begun  BY <1>7 DEF ScanSkip, Leave, files, history
    <2>2. Shared'  BY <1>7, <2>1 DEF ScanSkip, Leave, files, history, IInv, Shared
    <2>3. Locals'  BY <1>7 DEF ScanSkip, Leave, files, history, IInv, Locals, PCs, Setting, Names
    <2>4. Provenance'  BY <1>7, <2>1, SameChunks DEF ScanSkip, Leave, files, history, IInv, Provenance
    <2>5. Ready'  BY <1>7, <2>1 DEF ScanSkip, Leave, files, history, IInv, Ready, Shared, Locals
    <2> QED BY <2>2, <2>3, <2>4, <2>5 DEF IInv
  <1> QED BY <1>1, <1>2, <1>3, <1>4, <1>5, <1>6, <1>7 DEF ScanStep

LEMMA ClearStepIInv ==
  ASSUME IInv, NEW p \in Procs, ClearStep(p)
  PROVE  IInv'
  <1> USE FileCacheAssumption
  <1>1. CASE BeginClear(p)
    <2>1. begun' = begun  BY <1>1 DEF BeginClear, Goto, Enter, files, Present
    <2>2. Shared'  BY <1>1, <2>1 DEF BeginClear, Goto, Enter, files, Present, IInv, Shared
    <2>3. Locals'  BY <1>1 DEF BeginClear, Goto, Enter, files, Present, IInv, Locals, PCs, Setting, Names
    <2>4. Provenance'  BY <1>1, <2>1, SameChunks DEF BeginClear, Goto, Enter, files, Present, IInv, Provenance
    <2>5. Ready'  BY <1>1, <2>1 DEF BeginClear, Goto, Enter, files, Present, IInv, Ready, Shared, Locals
    <2> QED BY <2>2, <2>3, <2>4, <2>5 DEF IInv
  <1>2. CASE ClearFile(p)
    <2>1. begun' = begun  BY <1>2 DEF ClearFile, history
    <2>2. Shared'  BY <1>2, <2>1 DEF ClearFile, history, IInv, Shared
    <2>3. Locals'  BY <1>2 DEF ClearFile, history, IInv, Locals, PCs, Setting, Names
    <2>4. Provenance'  BY <1>2, <2>1, SameChunks DEF ClearFile, history, IInv, Provenance
    <2>5. Ready'  BY <1>2, <2>1 DEF ClearFile, history, IInv, Ready, Shared, Locals
    <2> QED BY <2>2, <2>3, <2>4, <2>5 DEF IInv
  <1>3. CASE ClearEnd(p)
    <2>1. begun' = begun  BY <1>3 DEF ClearEnd, Leave, history
    <2>2. Shared'  BY <1>3, <2>1 DEF ClearEnd, Leave, history, IInv, Shared
    <2>3. Locals'  BY <1>3 DEF ClearEnd, Leave, history, IInv, Locals, PCs, Setting, Names
    <2>4. Provenance'  BY <1>3, <2>1, SameChunks DEF ClearEnd, Leave, history, IInv, Provenance
    <2>5. Ready'  BY <1>3, <2>1 DEF ClearEnd, Leave, history, IInv, Ready, Shared, Locals
    <2> QED BY <2>2, <2>3, <2>4, <2>5 DEF IInv
  <1> QED BY <1>1, <1>2, <1>3 DEF ClearStep

LEMMA RejectLocals ==
  ASSUME Locals, NEW p \in Procs, Reject(p)
  PROVE  Locals'
  <1>1. CASE RemovesInvalid
    <2>1. pc' = [pc EXCEPT ![p] = "drop"] /\ UNCHANGED <<job, fd, off, todo>>
      BY <1>1 DEF Reject, Goto, locals
    <2> QED BY <2>1 DEF Locals, PCs
  <1>2. CASE ~RemovesInvalid
    <2>1. Leave(p)  BY <1>2 DEF Reject
    <2> QED BY <2>1 DEF Leave, Locals, PCs
  <1> QED BY <1>1, <1>2

LEMMA GetStepIInv ==
  ASSUME IInv, NEW p \in Procs, GetStep(p)
  PROVE  IInv'
  <1> USE FileCacheAssumption
  <1>1. CASE BeginGet(p)
    <2>1. begun' = begun  BY <1>1 DEF BeginGet, Goto, Enter, files, locals
    <2>2. Shared'  BY <1>1, <2>1 DEF BeginGet, Goto, Enter, files, locals, IInv, Shared
    <2>3. Locals'  BY <1>1 DEF BeginGet, Goto, Enter, files, locals, IInv, Locals, PCs, Setting, Names
    <2>4. Provenance'
      <3>1. UNCHANGED <<content, buf>>
        BY <1>1 DEF BeginGet, files, locals
      <3>2. result' = result \/ result' = [result EXCEPT ![p] = Miss]
        BY <1>1 DEF BeginGet
      <3>3. Miss \in Answers  BY DEF Answers
      <3> QED BY <2>1, <3>1, <3>2, <3>3, SameChunks DEF IInv, Provenance
    <2>5. Ready'  BY <1>1, <2>1 DEF BeginGet, Goto, Enter, files, locals, IInv, Ready, Shared, Locals
    <2> QED BY <2>2, <2>3, <2>4, <2>5 DEF IInv
  <1>2. CASE OpenRead(p)
    <2>1. begun' = begun  BY <1>2 DEF OpenRead, Goto, Reject, files, history, Leave, locals
    <2>2. Shared'  BY <1>2, <2>1 DEF OpenRead, Goto, Reject, files, history, Leave, locals, IInv, Shared
    <2>3. Locals'
      <3>1. CASE path # None /\ fd' = [fd EXCEPT ![p] = path] /\ Goto(p, "read")
                  /\ UNCHANGED <<job, off, buf, todo, result>>
        BY <3>1 DEF Goto, IInv, Shared, Locals, PCs
      <3>2. CASE Reject(p)
        BY <3>2, RejectLocals DEF IInv
      <3> QED BY <1>2, <3>1, <3>2 DEF OpenRead
    <2>4. Provenance'
      <3>1. content' = content  BY <1>2 DEF OpenRead, files
      <3>2. buf' = buf \/ buf' = [buf EXCEPT ![p] = <<>>]
        BY <1>2 DEF OpenRead, Reject, Leave, locals
      <3>3. result' = result \/ result' = [result EXCEPT ![p] = Miss]
        BY <1>2 DEF OpenRead, Reject
      <3>4. Miss \in Answers /\ <<>> \in Seq(Chunks)  BY DEF Answers
      <3> QED BY <2>1, <3>1, <3>2, <3>3, <3>4, SameChunks DEF IInv, Provenance
    <2>5. Ready'  BY <1>2, <2>1 DEF OpenRead, Goto, Reject, files, history, Leave, locals, IInv, Ready, Shared, Locals
    <2> QED BY <2>2, <2>3, <2>4, <2>5 DEF IInv
  <1>3. CASE ReadChunk(p)
    <2>1. begun' = begun  BY <1>3 DEF ReadChunk, files, history
    <2>2. Shared'  BY <1>3, <2>1 DEF ReadChunk, files, history, IInv, Shared
    <2>3. Locals'  BY <1>3 DEF ReadChunk, files, history, IInv, Locals, PCs, Setting, Names
    <2>4. Provenance'
      <3>1. fd[p] \in Inodes /\ content[fd[p]] \in Seq(Chunks) /\ buf[p] \in Seq(Chunks)
        BY <1>3 DEF ReadChunk, IInv, Ready, Provenance
      <3>2. Len(buf[p]) \in Nat /\ Len(buf[p]) + 1 \in 1..Len(content[fd[p]])
        BY <1>3, <3>1 DEF ReadChunk
      <3> DEFINE c == content[fd[p]][Len(buf[p]) + 1]
      <3>3. c \in Chunks  BY <3>1, <3>2
      <3>4. buf' = [buf EXCEPT ![p] = Append(buf[p], c)] /\ UNCHANGED <<content, result>>
        BY <1>3 DEF ReadChunk, files
      <3> HIDE DEF c
      <3>5. Append(buf[p], c) \in Seq(Chunks)  BY <3>1, <3>3
      <3> QED BY <2>1, <3>4, <3>5, SameChunks DEF IInv, Provenance
    <2>5. Ready'  BY <1>3, <2>1 DEF ReadChunk, files, history, IInv, Ready, Shared, Locals
    <2> QED BY <2>2, <2>3, <2>4, <2>5 DEF IInv
  <1>4. CASE Judge(p)
    <2>1. begun' = begun  BY <1>4 DEF Judge, Leave, Reject, files, history, Goto, locals
    <2>2. Shared'  BY <1>4, <2>1 DEF Judge, Leave, Reject, files, history, Goto, locals, IInv, Shared
    <2>3. Locals'
      <3>1. CASE Leave(p)
        BY <3>1 DEF Leave, IInv, Locals, PCs
      <3>2. CASE Reject(p)
        BY <3>2, RejectLocals DEF IInv
      <3> QED BY <1>4, <3>1, <3>2 DEF Judge
    <2>4. Provenance'
      <3>1. content' = content  BY <1>4 DEF Judge, files
      <3>2. buf' = buf \/ buf' = [buf EXCEPT ![p] = <<>>]
        BY <1>4 DEF Judge, Reject, Leave, locals
      <3>3. Miss \in Answers /\ <<>> \in Seq(Chunks)  BY DEF Answers
      <3>4. \E r \in Answers : result' = result \/ result' = [result EXCEPT ![p] = r]
        <4>1. CASE Whole(buf[p]) /\ Unexpired(buf[p])
          <5>1. Decoded(buf[p]) \in Answers
            BY <4>1, WholeIsKnown DEF IInv, Provenance, Shared, Answers
          <5> QED BY <1>4, <4>1, <5>1 DEF Judge
        <4>2. CASE ~(Whole(buf[p]) /\ Unexpired(buf[p]))
          BY <1>4, <3>3, <4>2 DEF Judge, Reject
        <4> QED BY <4>1, <4>2
      <3>5. Chunks' = Chunks /\ Answers' = Answers /\ Seq(Chunks)' = Seq(Chunks)
        BY <2>1, SameChunks
      <3>6. buf' \in [Procs -> Seq(Chunks)]
        BY <3>2, <3>3 DEF IInv, Provenance
      <3>7. result' \in [Procs -> Answers]
        BY <3>4 DEF IInv, Provenance
      <3> QED BY <3>1, <3>5, <3>6, <3>7 DEF IInv, Provenance
    <2>5. Ready'  BY <1>4, <2>1 DEF Judge, Leave, Reject, files, history, Goto, locals, IInv, Ready, Shared, Locals
    <2> QED BY <2>2, <2>3, <2>4, <2>5 DEF IInv
  <1>5. CASE Drop(p)
    <2>1. begun' = begun  BY <1>5 DEF Drop, Leave, history
    <2>2. Shared'  BY <1>5, <2>1 DEF Drop, Leave, history, IInv, Shared
    <2>3. Locals'  BY <1>5 DEF Drop, Leave, history, IInv, Locals, PCs, Setting, Names
    <2>4. Provenance'
      <3>1. content' = content  BY <1>5 DEF Drop, files
      <3>2. buf' = buf \/ buf' = [buf EXCEPT ![p] = <<>>]
        BY <1>5 DEF Drop, Reject, Leave, locals
      <3>3. result' = result \/ result' = [result EXCEPT ![p] = Miss]
        BY <1>5 DEF Drop, Reject
      <3>4. Miss \in Answers /\ <<>> \in Seq(Chunks)  BY DEF Answers
      <3> QED BY <2>1, <3>1, <3>2, <3>3, <3>4, SameChunks DEF IInv, Provenance
    <2>5. Ready'  BY <1>5, <2>1 DEF Drop, Leave, history, IInv, Ready, Shared, Locals
    <2> QED BY <2>2, <2>3, <2>4, <2>5 DEF IInv
  <1> QED BY <1>1, <1>2, <1>3, <1>4, <1>5 DEF GetStep
LEMMA CrashStepIInv ==
  ASSUME IInv, NEW p \in Procs, Crash(p)
  PROVE  IInv'
  <1>1. begun' = begun /\ content' = content /\ result' = result
    BY DEF Crash, files, history
  <1>2. Shared'  BY DEF Crash, files, history, IInv, Shared
  <1>3. Locals'  BY DEF Crash, Leave, IInv, Locals, PCs
  <1>4. Provenance'  BY <1>1, SameChunks DEF Crash, Leave, IInv, Provenance
  <1>5. Ready'  BY <1>1 DEF Crash, Leave, IInv, Ready, Locals
  <1> QED BY <1>2, <1>3, <1>4, <1>5 DEF IInv

LEMMA NextIInv == IInv /\ [Next]_vars => IInv'
  <1> SUFFICES ASSUME IInv, [Next]_vars PROVE IInv'  OBVIOUS
  <1>1. ASSUME NEW p \in Procs, ScanStep(p) \/ Crash(p) PROVE IInv'
    BY <1>1, ScanStepIInv, CrashStepIInv
  <1>2. ASSUME NEW p \in Writers, SetStep(p) PROVE IInv'
    BY <1>2, SetStepIInv DEF Procs
  <1>3. ASSUME NEW p \in Readers, GetStep(p) PROVE IInv'
    BY <1>3, GetStepIInv DEF Procs
  <1>4. ASSUME NEW p \in Keepers, ClearStep(p) PROVE IInv'
    BY <1>4, ClearStepIInv DEF Procs
  <1>5. ASSUME Tick \/ UNCHANGED vars PROVE IInv'
    <2>1. /\ UNCHANGED <<files, pc, locals, result, history>>
          /\ now' \in Nat
      BY <1>5 DEF Tick, vars, IInv, Shared
    <2>2. Shared'  BY <2>1 DEF files, history, IInv, Shared
    <2>3. Locals'  BY <2>1 DEF locals, IInv, Locals
    <2>4. Provenance'  BY <2>1, SameChunks DEF files, locals, history, IInv, Provenance
    <2>5. Ready'  BY <2>1 DEF locals, history, IInv, Ready
    <2> QED BY <2>2, <2>3, <2>4, <2>5 DEF IInv
  <1> QED BY <1>1, <1>2, <1>3, <1>4, <1>5 DEF Next

LEMMA Inductive == Spec => []IInv
  BY InitIInv, NextIInv, PTL DEF Spec
-----------------------------------------------------------------------------
\* Names, inodes, buffers and program counters keep their types, with any
\* number of processes and with crashes anywhere.
THEOREM Typed == Spec => []TypeOK
  <1>1. IInv => TypeOK
    <2> SUFFICES ASSUME IInv PROVE TypeOK  OBVIOUS
    <2>1. Chunks \subseteq Chunk  BY DEF IInv, Shared, Chunks, Chunk
    <2>2. Seq(Chunks) \subseteq Seq(Chunk)  BY <2>1, SeqMonotone
    <2>3. content \in [Inodes -> Seq(Chunk)] /\ buf \in [Procs -> Seq(Chunk)]
      BY <2>2 DEF IInv, Provenance
    <2> QED BY <2>3 DEF IInv, Shared, Locals, TypeOK
  <1> QED BY Inductive, <1>1, PTL

\* A get never answers with a mixture: what it returns was passed to a set,
\* whole, with the expiry it was stored under, however writers, sweepers, clears
\* and crashes interleave.
THEOREM HitsAreSound == Spec => []HitSound
  <1>1. IInv => HitSound  BY DEF IInv, Provenance, Answers, HitSound
  <1> QED BY Inductive, <1>1, PTL
-----------------------------------------------------------------------------
\* What the steps of an operation can show to a caller of the cache.
LEMMA QuietStep ==
  ASSUME NEW p \in Procs,
         \/ OpenTmp(p) \/ WriteChunk(p) \/ WriteFails(p) \/ Rename(p) \/ UnlinkTmp(p)
         \/ ScanStep(p) \/ ClearStep(p) \/ Crash(p) \/ UNCHANGED vars
  PROVE  UNCHANGED <<now, begun, result>>
  <1>1. CASE OpenTmp(p) \/ WriteChunk(p) \/ WriteFails(p) \/ Rename(p) \/ UnlinkTmp(p)
    BY <1>1 DEF OpenTmp, WriteChunk, WriteFails, Rename, UnlinkTmp, history
  <1>2. CASE ScanStep(p)
    BY <1>2 DEF ScanStep, BeginScan, ScanList, ScanSkip, ScanTmp, ScanEntry, Evict, ScanEnd, history
  <1>3. CASE ClearStep(p)
    BY <1>3 DEF ClearStep, BeginClear, ClearFile, ClearEnd, history
  <1>4. CASE Crash(p) \/ UNCHANGED vars
    BY <1>4 DEF Crash, vars, history
  <1> QED BY <1>1, <1>2, <1>3, <1>4

LEMMA GetStepShows ==
  ASSUME IInv, NEW p \in Procs, GetStep(p)
  PROVE  /\ UNCHANGED <<now, begun>>
         /\ \/ UNCHANGED result
            \/ result' = [result EXCEPT ![p] = Miss]
            \/ \E e \in begun :
                 /\ e.exp > now
                 /\ result' = [result EXCEPT ![p] = [image |-> Image(e.val), exp |-> e.exp]]
  <1>1. CASE BeginGet(p)  BY <1>1 DEF BeginGet
  <1>2. CASE OpenRead(p)  BY <1>2 DEF OpenRead, Reject, history
  <1>3. CASE ReadChunk(p)  BY <1>3 DEF ReadChunk, history
  <1>4. CASE Judge(p)
    <2>1. UNCHANGED <<now, begun>>  BY <1>4 DEF Judge, history
    <2>2. CASE Whole(buf[p]) /\ Unexpired(buf[p])
      <3>1. result' = [result EXCEPT ![p] = Decoded(buf[p])]
        BY <1>4, <2>2 DEF Judge
      <3>2. PICK e \in begun : /\ Decoded(buf[p]) = [image |-> Image(e.val), exp |-> e.exp]
                               /\ buf[p][1] = e
        BY <2>2, WholeIsKnown DEF IInv, Provenance, Shared
      <3>3. e.exp > now  BY <2>2, <3>2 DEF Unexpired
      <3> QED BY <2>1, <3>1, <3>2, <3>3
    <2>3. CASE ~(Whole(buf[p]) /\ Unexpired(buf[p]))
      BY <1>4, <2>1, <2>3 DEF Judge, Reject
    <2> QED BY <2>2, <2>3
  <1>5. CASE Drop(p)  BY <1>5 DEF Drop, history
  <1> QED BY <1>1, <1>2, <1>3, <1>4, <1>5 DEF GetStep

\* The caches the processes share through the file system are the lossy cache
\* the pipeline was promised: they may forget, but never invent or serve late.
THEOREM ImplementsLossyCache == Spec => LossySpec
  <1> USE FileCacheAssumption
  <1> DEFINE offered == {[image |-> Image(e.val), exp |-> e.exp] : e \in begun}
  <1>1. Init => Lossy!Init  BY DEF Init, Lossy!Init
  <1>2. IInv /\ [Next]_vars => [Lossy!Next]_Lossy!vars
    <2> SUFFICES ASSUME IInv, [Next]_vars PROVE [Lossy!Next]_Lossy!vars  OBVIOUS
    <2>q. ASSUME UNCHANGED <<now, begun, result>> PROVE [Lossy!Next]_Lossy!vars
      BY <2>q DEF Lossy!vars
    <2>1. ASSUME NEW p \in Procs, GetStep(p) PROVE [Lossy!Next]_Lossy!vars
      <3>1. offered' = offered /\ now' = now  BY <2>1, GetStepShows
      <3>2. CASE UNCHANGED result
        BY <3>1, <3>2 DEF Lossy!vars
      <3>3. CASE result' = [result EXCEPT ![p] = Miss]
        BY <3>1, <3>3 DEF Lossy!Next, Lossy!Answer
      <3>4. CASE \E e \in begun :
                   /\ e.exp > now
                   /\ result' = [result EXCEPT ![p] = [image |-> Image(e.val), exp |-> e.exp]]
        <4>1. \E o \in offered : o.exp > now /\ result' = [result EXCEPT ![p] = o]
          BY <3>4
        <4> QED BY <3>1, <4>1 DEF Lossy!Next, Lossy!Answer
      <3> QED BY <2>1, <3>2, <3>3, <3>4, GetStepShows
    <2>2. ASSUME NEW p \in Procs, NEW v \in Vals, BeginSet(p, v)
          PROVE  [Lossy!Next]_Lossy!vars
      <3> DEFINE o == [image |-> Image(v), exp |-> now + TTL]
      <3> DEFINE e == [val |-> v, exp |-> now + TTL]
      <3>0. begun' = begun \cup {e}  BY <2>2 DEF BeginSet
      <3>1. offered' = offered \cup {o}
        <4>1. o = [image |-> Image(e.val), exp |-> e.exp]  OBVIOUS
        <4> HIDE DEF e, o
        <4> QED BY <3>0, <4>1
      <3>2. o.exp > now /\ UNCHANGED <<now, result>>
        BY <2>2 DEF BeginSet, IInv, Shared
      <3> HIDE DEF o
      <3> QED BY <3>1, <3>2 DEF Lossy!Next, Lossy!Offer
    <2>3. CASE Tick
      BY <2>3 DEF Tick, history, Lossy!Next, Lossy!Tick
    <2>4. ASSUME NEW p \in Writers, SetStep(p) PROVE [Lossy!Next]_Lossy!vars
      <3>1. p \in Procs  BY DEF Procs
      <3> QED BY <2>q, <2>2, <2>4, <3>1, QuietStep DEF SetStep
    <2>5. CASE \E p \in Procs : ScanStep(p) \/ Crash(p)
      BY <2>q, <2>5, QuietStep
    <2>6. CASE \E p \in Keepers : ClearStep(p)
      BY <2>q, <2>6, QuietStep DEF Procs
    <2>7. CASE \E p \in Readers : GetStep(p)
      BY <2>1, <2>7 DEF Procs
    <2>8. CASE UNCHANGED vars
      BY <2>q, <2>8 DEF vars, history
    <2> QED BY <2>3, <2>4, <2>5, <2>6, <2>7, <2>8 DEF Next
  <1> QED BY Inductive, <1>1, <1>2, PTL DEF Spec, LossySpec, Lossy!Spec
-----------------------------------------------------------------------------
(* While no two sets have overlapped, one process at a time owns the        *)
(* temporary file: it is not behind "path", and it holds what was written.  *)

Copies(e, n) == [i \in 1..n |-> e]

Owner ==
  /\ \A p, q \in Procs : pc[p] \in Setting /\ pc[q] \in Setting => p = q
  /\ path # None => tmp # path /\ Whole(content[path])
  /\ \A p \in Procs :
       /\ pc[p] \in {"idle", "open"} => off[p] = 0
       /\ pc[p] \in {"write", "rename"} =>
            /\ fd[p] \in Inodes /\ fd[p] # path /\ tmp \in {None, fd[p]}
            /\ job[p] \in begun
            /\ content[fd[p]] = Copies(job[p], off[p])
       /\ pc[p] = "write" => off[p] < Size[job[p].val]
       /\ pc[p] = "rename" => off[p] = Size[job[p].val]

Solitary == ~overlap => Owner

LEMMA CopiesGrow ==
  ASSUME NEW e, NEW n \in Nat
  PROVE  WriteAt(Copies(e, n), n + 1, e) = Copies(e, n + 1)
  <1>1. Len(Copies(e, n)) = n  BY DEF Copies
  <1>2. \A i \in 1..(n + 1) : i # n + 1 => i \in 1..n  OBVIOUS
  <1> QED BY <1>1, <1>2 DEF WriteAt, Copies

LEMMA CopiesAreWhole ==
  ASSUME NEW e \in Envelope
  PROVE  Whole(Copies(e, Size[e.val]))
  <1>1. e.val \in Vals /\ e # Hole  BY FileCacheAssumption DEF Envelope
  <1>2. Size[e.val] \in Nat \ {0}  BY <1>1, FileCacheAssumption
  <1> DEFINE n == Size[e.val]  s == Copies(e, n)
  <1>3. Len(s) = n /\ \A i \in 1..n : s[i] = e  BY <1>2 DEF Copies
  <1>4. 1 \in 1..n /\ n \in 1..n  BY <1>2
  <1> HIDE DEF s
  <1> QED BY <1>1, <1>2, <1>3, <1>4 DEF Whole, s

\* A step of a process that is not storing and leaves the files' contents alone.
LEMMA OtherStep ==
  ASSUME IInv, Solitary, NEW p \in Procs,
         UNCHANGED <<content, begun, overlap>>,
         path' \in {path, None}, tmp' \in {tmp, None},
         pc' \in [Procs -> PCs],
         \A q \in Procs \ {p} : pc'[q] = pc[q] /\ job'[q] = job[q] /\ fd'[q] = fd[q] /\ off'[q] = off[q],
         pc'[p] \notin Setting,
         pc'[p] = "idle" => off'[p] = 0 \/ (pc[p] = "idle" /\ off'[p] = off[p])
  PROVE  Solitary'
  <1> SUFFICES ASSUME ~overlap' PROVE Owner'  BY DEF Solitary
  <1> USE FileCacheAssumption
  <1>1. Owner  BY DEF Solitary
  <1>2. \A s : Whole(s)' = Whole(s)  BY DEF Whole
  <1>3. \A q, r \in Procs : pc'[q] \in Setting /\ pc'[r] \in Setting => q = r
    BY <1>1 DEF Owner
  <1>4. path' # None => tmp' # path' /\ Whole(content'[path'])
    BY <1>1 DEF Owner
  <1>5. ASSUME NEW q \in Procs, q # p
        PROVE  /\ pc'[q] \in {"idle", "open"} => off'[q] = 0
               /\ pc'[q] \in {"write", "rename"} =>
                    /\ fd'[q] \in Inodes /\ fd'[q] # path' /\ tmp' \in {None, fd'[q]}
                    /\ job'[q] \in begun'
                    /\ content'[fd'[q]] = Copies(job'[q], off'[q])
               /\ pc'[q] = "write" => off'[q] < Size[job'[q].val]
               /\ pc'[q] = "rename" => off'[q] = Size[job'[q].val]
    BY <1>1, <1>5 DEF Owner
  <1>6. /\ pc'[p] \in {"idle", "open"} => off'[p] = 0
        /\ pc'[p] \notin {"write", "rename"}
    BY <1>1 DEF Owner, Setting
  <1> QED BY <1>3, <1>4, <1>5, <1>6 DEF Owner
LEMMA BeginSetSolitary ==
  ASSUME IInv, IInv', Solitary, NEW p \in Procs, NEW v \in Vals, BeginSet(p, v)
  PROVE  Solitary'
  <1> SUFFICES ASSUME ~overlap' PROVE Owner'  BY DEF Solitary
  <1>1. /\ ~overlap /\ \A q \in Procs \ {p} : pc[q] \notin Setting
        /\ pc' = [pc EXCEPT ![p] = "open"]
        /\ begun \subseteq begun'
        /\ \A q \in Procs \ {p} : job'[q] = job[q]
        /\ pc[p] = "idle"
        /\ UNCHANGED <<path, tmp, content, fd, off>>
    BY DEF BeginSet, Enter, Goto, IInv, Locals
  <1>2. Owner  BY <1>1 DEF Solitary
  <1>3. \A q \in Procs : pc'[q] = IF q = p THEN "open" ELSE pc[q]
    BY <1>1 DEF IInv, Locals
  <1>4. \A q, r \in Procs : pc'[q] \in Setting /\ pc'[r] \in Setting => q = r
    BY <1>1, <1>3
  <1>5. path' # None => tmp' # path' /\ Whole(content[path])'
    BY <1>1, <1>2 DEF Owner, Whole
  <1> QED BY <1>1, <1>2, <1>3, <1>4, <1>5 DEF Owner, Setting

LEMMA OpenTmpSolitary ==
  ASSUME IInv, IInv', Solitary, NEW p \in Procs, OpenTmp(p)
  PROVE  Solitary'
  <1> SUFFICES ASSUME ~overlap' PROVE Owner'  BY DEF Solitary
  <1> USE FileCacheAssumption
  <1>1. pc[p] = "open" /\ UNCHANGED <<path, job, off, begun, overlap>>
    BY DEF OpenTmp, history
  <1>2. Owner  BY <1>1 DEF Solitary
  <1>3. PICK i \in (IF tmp # None THEN {tmp} ELSE FreeInodes) :
          /\ tmp' = i
          /\ fd' = [fd EXCEPT ![p] = i]
          /\ content' = [content EXCEPT ![i] = <<>>]
    BY DEF OpenTmp
  <1>4. i \in Inodes /\ i # path  BY <1>2, <1>3 DEF FreeInodes, IInv, Shared, Owner
  <1>5. \A q \in Procs : pc'[q] = IF q = p THEN "write" ELSE pc[q]
    BY DEF OpenTmp, Goto, IInv, Locals
  <1>6. off[p] = 0 /\ job[p] \in begun /\ Size[job[p].val] > 0
    BY <1>1, <1>2 DEF Owner, IInv, Ready, Shared, Envelope
  <1>7. \A q \in Procs : q # p => pc[q] \notin Setting
    BY <1>1, <1>2 DEF Owner, Setting
  <1>8. fd'[p] = i /\ content'[i] = Copies(job[p], 0)
    BY <1>3, <1>4 DEF Copies, IInv, Locals, Provenance
  <1>9. path' # None => tmp' # path' /\ Whole(content[path])'
    <2>1. path # None => content'[path] = content[path]
      BY <1>3, <1>4 DEF IInv, Shared, Provenance
    <2> QED BY <1>1, <1>2, <1>3, <1>4, <2>1 DEF Owner, Whole
  <1> QED BY <1>1, <1>2, <1>3, <1>4, <1>5, <1>6, <1>7, <1>8, <1>9 DEF Owner, Setting

LEMMA WriteChunkSolitary ==
  ASSUME IInv, IInv', Solitary, NEW p \in Procs, WriteChunk(p)
  PROVE  Solitary'
  <1> SUFFICES ASSUME ~overlap' PROVE Owner'  BY DEF Solitary
  <1> USE FileCacheAssumption
  <1>1. /\ pc[p] = "write" /\ UNCHANGED <<path, tmp, job, fd, begun, overlap>>
        /\ content' = [content EXCEPT ![fd[p]] = WriteAt(@, off[p] + 1, job[p])]
        /\ off' = [off EXCEPT ![p] = @ + 1]
    BY DEF WriteChunk, history
  <1>2. Owner  BY <1>1 DEF Solitary
  <1>3. /\ fd[p] \in Inodes /\ fd[p] # path /\ off[p] \in Nat
        /\ job[p] \in begun /\ Size[job[p].val] \in Nat /\ off[p] < Size[job[p].val]
        /\ content[fd[p]] = Copies(job[p], off[p])
    BY <1>1, <1>2 DEF Owner, IInv, Shared, Locals, Envelope
  <1>4. content'[fd[p]] = Copies(job[p], off[p] + 1)
    BY <1>1, <1>3, CopiesGrow DEF IInv, Provenance
  <1>5. off'[p] = off[p] + 1  BY <1>1 DEF IInv, Locals
  <1>6. /\ \A q \in Procs : q # p => pc'[q] = pc[q] /\ off'[q] = off[q]
        /\ pc'[p] = IF off[p] + 1 = Size[job[p].val] THEN "rename" ELSE "write"
    BY <1>1 DEF WriteChunk, Goto, IInv, Locals
  <1>7. \A q \in Procs : q # p => pc[q] \notin Setting
    BY <1>1, <1>2 DEF Owner, Setting
  <1>8. path' # None => tmp' # path' /\ Whole(content[path])'
    <2>1. path # None => content'[path] = content[path]
      BY <1>1, <1>3 DEF IInv, Shared, Provenance
    <2> QED BY <1>1, <1>2, <2>1 DEF Owner, Whole
  <1> QED BY <1>1, <1>2, <1>3, <1>4, <1>5, <1>6, <1>7, <1>8 DEF Owner, Setting

LEMMA RenameSolitary ==
  ASSUME IInv, IInv', Solitary, NEW p \in Procs, Rename(p)
  PROVE  Solitary'
  <1> SUFFICES ASSUME ~overlap' PROVE Owner'  BY DEF Solitary
  <1> USE FileCacheAssumption
  <1>1. pc[p] = "rename" /\ UNCHANGED <<content, job, off, begun, overlap>>
    BY DEF Rename, history
  <1>2. Owner  BY <1>1 DEF Solitary
  <1>3. \A q \in Procs : /\ q # p => pc'[q] = pc[q] /\ fd'[q] = fd[q]
                         /\ q = p => pc'[q] \in {"list", "unlink"}
    BY DEF Rename, Goto, IInv, Locals
  <1>4. \A q \in Procs : q # p => pc[q] \notin Setting
    BY <1>1, <1>2 DEF Owner, Setting
  <1>5. path' # None => tmp' # path' /\ Whole(content[path'])
    <2>1. CASE tmp = None
      BY <1>2, <2>1 DEF Rename, Owner
    <2>2. CASE tmp # None
      <3>1. path' = tmp /\ tmp' = None /\ tmp = fd[p] /\ fd[p] \in Inodes
        BY <1>1, <1>2, <2>2 DEF Rename, Owner
      <3>2. content[fd[p]] = Copies(job[p], Size[job[p].val]) /\ job[p] \in Envelope
        BY <1>1, <1>2 DEF Owner, IInv, Shared
      <3> QED BY <3>1, <3>2, CopiesAreWhole
    <2> QED BY <2>1, <2>2
  <1>6. path' # None => Whole(content[path])'
    BY <1>1, <1>5 DEF Whole
  <1> QED BY <1>1, <1>2, <1>3, <1>4, <1>5, <1>6 DEF Owner, Setting

LEMMA SetSolitary ==
  ASSUME IInv, IInv', Solitary, NEW p \in Procs, WriteFails(p) \/ UnlinkTmp(p)
  PROVE  Solitary'
  <1> DEFINE Quiet ==
        /\ UNCHANGED <<content, begun, overlap>>
        /\ path' \in {path, None} /\ tmp' \in {tmp, None}
        /\ \A q \in Procs \ {p} :
             pc'[q] = pc[q] /\ job'[q] = job[q] /\ fd'[q] = fd[q] /\ off'[q] = off[q]
        /\ pc'[p] \notin Setting
        /\ pc'[p] = "idle" => off'[p] = 0 \/ (pc[p] = "idle" /\ off'[p] = off[p])
  <1>1. ASSUME WriteFails(p) PROVE Quiet
    BY <1>1 DEF WriteFails, Goto, files, locals, history, Setting, IInv, Locals
  <1>2. ASSUME UnlinkTmp(p) PROVE Quiet
    BY <1>2 DEF UnlinkTmp, Leave, history, Setting, IInv, Locals
  <1>3. Quiet
    BY <1>1, <1>2
  <1>4. pc' \in [Procs -> PCs]  BY DEF IInv, Locals
  <1> QED BY <1>3, <1>4, OtherStep

LEMMA ScanSolitary ==
  ASSUME IInv, IInv', Solitary, NEW p \in Procs, ScanStep(p)
  PROVE  Solitary'
  <1> DEFINE Quiet ==
        /\ UNCHANGED <<content, begun, overlap>>
        /\ path' \in {path, None} /\ tmp' \in {tmp, None}
        /\ \A q \in Procs \ {p} :
             pc'[q] = pc[q] /\ job'[q] = job[q] /\ fd'[q] = fd[q] /\ off'[q] = off[q]
        /\ pc'[p] \notin Setting
        /\ pc'[p] = "idle" => off'[p] = 0 \/ (pc[p] = "idle" /\ off'[p] = off[p])
  <1>1. ASSUME BeginScan(p) PROVE Quiet
    BY <1>1 DEF BeginScan, Goto, Enter, files, locals, Setting, IInv, Locals
  <1>2. ASSUME ScanList(p) PROVE Quiet
    BY <1>2 DEF ScanList, Goto, files, history, Present, Setting, IInv, Locals
  <1>3. ASSUME ScanSkip(p) PROVE Quiet
    BY <1>3 DEF ScanSkip, Leave, files, history, Setting, IInv, Locals
  <1>4. ASSUME ScanTmp(p) PROVE Quiet
    BY <1>4 DEF ScanTmp, history, Setting, IInv, Locals
  <1>5. ASSUME ScanEntry(p) PROVE Quiet
    BY <1>5 DEF ScanEntry, Goto, files, history, Setting, IInv, Locals
  <1>6. ASSUME Evict(p) PROVE Quiet
    BY <1>6 DEF Evict, Goto, locals, history, Setting, IInv, Locals
  <1>7. ASSUME ScanEnd(p) PROVE Quiet
    BY <1>7 DEF ScanEnd, Leave, files, history, Setting, IInv, Locals
  <1>8. Quiet
    BY <1>1, <1>2, <1>3, <1>4, <1>5, <1>6, <1>7 DEF ScanStep
  <1>9. pc' \in [Procs -> PCs]  BY DEF IInv, Locals
  <1> QED BY <1>8, <1>9, OtherStep

LEMMA ClearSolitary ==
  ASSUME IInv, IInv', Solitary, NEW p \in Procs, ClearStep(p)
  PROVE  Solitary'
  <1> DEFINE Quiet ==
        /\ UNCHANGED <<content, begun, overlap>>
        /\ path' \in {path, None} /\ tmp' \in {tmp, None}
        /\ \A q \in Procs \ {p} :
             pc'[q] = pc[q] /\ job'[q] = job[q] /\ fd'[q] = fd[q] /\ off'[q] = off[q]
        /\ pc'[p] \notin Setting
        /\ pc'[p] = "idle" => off'[p] = 0 \/ (pc[p] = "idle" /\ off'[p] = off[p])
  <1>1. ASSUME BeginClear(p) PROVE Quiet
    BY <1>1 DEF BeginClear, Goto, Enter, files, Present, Setting, IInv, Locals
  <1>2. ASSUME ClearFile(p) PROVE Quiet
    BY <1>2 DEF ClearFile, history, Setting, IInv, Locals
  <1>3. ASSUME ClearEnd(p) PROVE Quiet
    BY <1>3 DEF ClearEnd, Leave, history, Setting, IInv, Locals
  <1>4. Quiet
    BY <1>1, <1>2, <1>3 DEF ClearStep
  <1>5. pc' \in [Procs -> PCs]  BY DEF IInv, Locals
  <1> QED BY <1>4, <1>5, OtherStep

LEMMA GetSolitary ==
  ASSUME IInv, IInv', Solitary, NEW p \in Procs, GetStep(p)
  PROVE  Solitary'
  <1> DEFINE Quiet ==
        /\ UNCHANGED <<content, begun, overlap>>
        /\ path' \in {path, None} /\ tmp' \in {tmp, None}
        /\ \A q \in Procs \ {p} :
             pc'[q] = pc[q] /\ job'[q] = job[q] /\ fd'[q] = fd[q] /\ off'[q] = off[q]
        /\ pc'[p] \notin Setting
        /\ pc'[p] = "idle" => off'[p] = 0 \/ (pc[p] = "idle" /\ off'[p] = off[p])
  <1>1. ASSUME BeginGet(p) PROVE Quiet
    BY <1>1 DEF BeginGet, Goto, Enter, files, locals, Setting, IInv, Locals
  <1>2. ASSUME OpenRead(p) PROVE Quiet
    BY <1>2 DEF OpenRead, Goto, Reject, files, history, Leave, locals, Setting, IInv, Locals
  <1>3. ASSUME ReadChunk(p) PROVE Quiet
    BY <1>3 DEF ReadChunk, files, history, Setting, IInv, Locals
  <1>4. ASSUME Judge(p) PROVE Quiet
    BY <1>4 DEF Judge, Leave, Reject, files, history, Goto, locals, Setting, IInv, Locals
  <1>5. ASSUME Drop(p) PROVE Quiet
    BY <1>5 DEF Drop, Leave, history, Setting, IInv, Locals
  <1>6. Quiet
    BY <1>1, <1>2, <1>3, <1>4, <1>5 DEF GetStep
  <1>7. pc' \in [Procs -> PCs]  BY DEF IInv, Locals
  <1> QED BY <1>6, <1>7, OtherStep

LEMMA CrashSolitary ==
  ASSUME IInv, IInv', Solitary, NEW p \in Procs, Crash(p)
  PROVE  Solitary'
  <1> DEFINE Quiet ==
        /\ UNCHANGED <<content, begun, overlap>>
        /\ path' \in {path, None} /\ tmp' \in {tmp, None}
        /\ \A q \in Procs \ {p} :
             pc'[q] = pc[q] /\ job'[q] = job[q] /\ fd'[q] = fd[q] /\ off'[q] = off[q]
        /\ pc'[p] \notin Setting
        /\ pc'[p] = "idle" => off'[p] = 0 \/ (pc[p] = "idle" /\ off'[p] = off[p])
  <1>1. ASSUME Crash(p) PROVE Quiet
    BY <1>1 DEF Crash, Leave, files, history, Setting, IInv, Locals
  <1>2. Quiet
    BY <1>1
  <1>3. pc' \in [Procs -> PCs]  BY DEF IInv, Locals
  <1> QED BY <1>2, <1>3, OtherStep

LEMMA NextSolitary == IInv /\ Solitary /\ [Next]_vars => Solitary'
  <1> SUFFICES ASSUME IInv, Solitary, [Next]_vars PROVE Solitary'  OBVIOUS
  <1>0. IInv'  BY NextIInv
  <1>1. ASSUME NEW p \in Procs, ScanStep(p) \/ Crash(p) PROVE Solitary'
    BY <1>0, <1>1, ScanSolitary, CrashSolitary
  <1>2. ASSUME NEW p \in Writers, SetStep(p) PROVE Solitary'
    BY <1>0, <1>2, BeginSetSolitary, OpenTmpSolitary, WriteChunkSolitary, RenameSolitary,
       SetSolitary DEF SetStep, Procs
  <1>3. ASSUME NEW p \in Readers, GetStep(p) PROVE Solitary'
    BY <1>0, <1>3, GetSolitary DEF Procs
  <1>4. ASSUME NEW p \in Keepers, ClearStep(p) PROVE Solitary'
    BY <1>0, <1>4, ClearSolitary DEF Procs
  <1>5. ASSUME Tick \/ UNCHANGED vars PROVE Solitary'
    BY <1>5 DEF Tick, vars, files, locals, history, Solitary, Owner, Whole
  <1> QED BY <1>1, <1>2, <1>3, <1>4, <1>5 DEF Next

\* While no two sets have overlapped, whatever else runs and is killed, the name
\* of an entry shows a complete entry or nothing.
THEOREM ReplacementIsAtomic == Spec => []AtomicReplace
  <1>1. Init => Solitary
    BY DEF Init, Solitary, Owner, Setting
  <1>2. Spec => []Solitary
    BY Inductive, <1>1, NextSolitary, PTL DEF Spec
  <1>3. Solitary => AtomicReplace
    BY DEF Solitary, Owner, AtomicReplace
  <1> QED BY <1>2, <1>3, PTL
-----------------------------------------------------------------------------
(* A process that has worked alone since its operation began is followed    *)
(* from the open of its temporary file to the scan: every chunk it has      *)
(* written is in that file, nothing of a leftover is, and the rename moves  *)
(* this very file.                                                          *)

\* Between two operations a process holds nothing.
Clean ==
  \A p \in Procs :
    /\ pc[p] = "idle" => job[p] = None
    /\ pc[p] \in {"idle", "open"} => off[p] = 0

Followed(p) ==
  /\ \A q \in Procs \ {p} : pc[q] = "idle"
  /\ pc[p] = "write" =>
       /\ tmp = fd[p] /\ off[p] < Size[job[p].val]
       /\ content[tmp] = Copies(job[p], off[p])
  /\ pc[p] = "rename" =>
       /\ tmp # None
       /\ content[tmp] = Copies(job[p], Size[job[p].val])
  /\ pc[p] = "list" /\ job[p] # None =>
       /\ path # None
       /\ content[path] = Copies(job[p], Size[job[p].val])

Alone == Clean /\ \A p \in solo : Followed(p)

\* A step that is not one of a set: the process begins something else, or it was
\* in the middle of it, and then it is the only one that can be followed.
LEMMA QuietAlone ==
  ASSUME IInv, Alone, NEW p \in Procs,
         (pc[p] # "idle" /\ solo' = solo) \/ Enter(p),
         pc' \in [Procs -> PCs],
         \A q \in Procs \ {p} : pc'[q] = pc[q] /\ job'[q] = job[q] /\ off'[q] = off[q],
         pc'[p] \notin Setting,
         pc'[p] = "list" => job'[p] = None,
         pc'[p] = "idle" => job'[p] = None /\ off'[p] = 0
  PROVE  Alone'
  <1>1. Clean'  BY DEF Alone, Clean, Setting
  <1>2. \A q \in solo' : q = p /\ \A r \in Procs \ {p} : pc[r] = "idle"
    BY DEF Alone, Followed, Enter, IInv, Shared
  <1>3. \A q \in solo' : Followed(q)'
    BY <1>2 DEF Followed, Setting
  <1> QED BY <1>1, <1>3 DEF Alone

LEMMA BeginSetAlone ==
  ASSUME IInv, IInv', Alone, NEW p \in Procs, NEW v \in Vals, BeginSet(p, v)
  PROVE  Alone'
  <1>1. /\ pc[p] = "idle" /\ pc' = [pc EXCEPT ![p] = "open"]
        /\ \A q \in Procs \ {p} : job'[q] = job[q]
        /\ solo' = IF \A q \in Procs \ {p} : pc[q] = "idle" THEN {p} ELSE {}
        /\ UNCHANGED off
    BY DEF BeginSet, Enter, Goto, IInv, Locals
  <1>2. \A q \in Procs : pc'[q] = IF q = p THEN "open" ELSE pc[q]
    BY <1>1 DEF IInv, Locals
  <1>3. Clean'  BY <1>1, <1>2 DEF Alone, Clean
  <1>4. \A q \in solo' : Followed(q)'
    BY <1>1, <1>2 DEF Followed
  <1> QED BY <1>3, <1>4 DEF Alone

\* The file is empty when it is opened, be it a leftover or a new one.
LEMMA OpenTmpAlone ==
  ASSUME IInv, IInv', Alone, NEW p \in Procs, OpenTmp(p)
  PROVE  Alone'
  <1> USE FileCacheAssumption
  <1>1. pc[p] = "open" /\ off[p] = 0 /\ UNCHANGED <<path, job, off, solo>>
    BY DEF OpenTmp, history, Alone, Clean
  <1>2. PICK i \in (IF tmp # None THEN {tmp} ELSE FreeInodes) :
          /\ tmp' = i
          /\ fd' = [fd EXCEPT ![p] = i]
          /\ content' = [content EXCEPT ![i] = <<>>]
    BY DEF OpenTmp
  <1>3. i \in Inodes  BY <1>2 DEF FreeInodes, IInv, Shared
  <1>4. \A q \in Procs : pc'[q] = IF q = p THEN "write" ELSE pc[q]
    BY DEF OpenTmp, Goto, IInv, Locals
  <1>5. job[p] \in Envelope /\ Size[job[p].val] \in Nat \ {0}
    BY <1>1 DEF IInv, Ready, Shared, Envelope
  <1>6. fd'[p] = i /\ content'[i] = Copies(job[p], 0)
    BY <1>2, <1>3 DEF Copies, IInv, Locals, Provenance
  <1>7. Clean'  BY <1>1, <1>4 DEF Alone, Clean
  <1>8. \A q \in solo' : Followed(q)'
    <2>1. \A q \in solo : q = p /\ \A r \in Procs \ {p} : pc[r] = "idle"
      BY <1>1 DEF Alone, Followed, IInv, Shared
    <2> QED BY <1>1, <1>2, <1>4, <1>5, <1>6, <2>1 DEF Followed
  <1> QED BY <1>7, <1>8 DEF Alone

LEMMA WriteChunkAlone ==
  ASSUME IInv, IInv', Alone, NEW p \in Procs, WriteChunk(p)
  PROVE  Alone'
  <1> USE FileCacheAssumption
  <1>1. /\ pc[p] = "write" /\ UNCHANGED <<path, tmp, job, fd, solo>>
        /\ content' = [content EXCEPT ![fd[p]] = WriteAt(@, off[p] + 1, job[p])]
        /\ off' = [off EXCEPT ![p] = @ + 1]
    BY DEF WriteChunk, history
  <1>2. \A q \in solo : q = p /\ \A r \in Procs \ {p} : pc[r] = "idle"
    BY <1>1 DEF Alone, Followed, IInv, Shared
  <1>3. /\ \A q \in Procs : q # p => pc'[q] = pc[q] /\ off'[q] = off[q]
        /\ pc'[p] = IF off[p] + 1 = Size[job[p].val] THEN "rename" ELSE "write"
        /\ off'[p] = off[p] + 1
    BY <1>1 DEF WriteChunk, Goto, IInv, Locals
  <1>4. Clean'  BY <1>1, <1>3 DEF Alone, Clean
  <1>5. ASSUME p \in solo PROVE Followed(p)'
    <2>1. /\ tmp = fd[p] /\ off[p] < Size[job[p].val] /\ content[tmp] = Copies(job[p], off[p])
      BY <1>1, <1>5 DEF Alone, Followed
    <2>2. fd[p] \in Inodes /\ off[p] \in Nat /\ job[p] \in Envelope /\ Size[job[p].val] \in Nat
      BY <1>1 DEF IInv, Ready, Shared, Locals, Envelope
    <2>3. content'[tmp] = Copies(job[p], off[p] + 1) /\ tmp # None
      BY <1>1, <2>1, <2>2, CopiesGrow DEF IInv, Provenance
    <2> QED BY <1>1, <1>2, <1>3, <1>5, <2>1, <2>2, <2>3 DEF Followed
  <1>6. \A q \in solo' : Followed(q)'  BY <1>1, <1>2, <1>5
  <1> QED BY <1>4, <1>6 DEF Alone

LEMMA RenameAlone ==
  ASSUME IInv, IInv', Alone, NEW p \in Procs, Rename(p)
  PROVE  Alone'
  <1>1. pc[p] = "rename" /\ UNCHANGED <<content, job, off, solo>>
    BY DEF Rename, history
  <1>2. \A q \in solo : q = p /\ \A r \in Procs \ {p} : pc[r] = "idle"
    BY <1>1 DEF Alone, Followed, IInv, Shared
  <1>3. /\ \A q \in Procs : q # p => pc'[q] = pc[q]
        /\ pc'[p] \in {"list", "unlink"}
        /\ tmp # None => path' = tmp
    BY DEF Rename, Goto, IInv, Locals
  <1>4. Clean'  BY <1>1, <1>3 DEF Alone, Clean
  <1>5. \A q \in solo' : Followed(q)'
    BY <1>1, <1>2, <1>3 DEF Alone, Followed
  <1> QED BY <1>4, <1>5 DEF Alone

LEMMA EndSetAlone ==
  ASSUME IInv, IInv', Alone, NEW p \in Procs, WriteFails(p) \/ UnlinkTmp(p)
  PROVE  Alone'
  <1> DEFINE Quiet ==
        /\ (pc[p] # "idle" /\ solo' = solo) \/ Enter(p)
        /\ \A q \in Procs \ {p} : pc'[q] = pc[q] /\ job'[q] = job[q] /\ off'[q] = off[q]
        /\ pc'[p] \notin Setting
        /\ pc'[p] = "list" => job'[p] = None
        /\ pc'[p] = "idle" => job'[p] = None /\ off'[p] = 0
  <1>1. ASSUME WriteFails(p) PROVE Quiet
    BY <1>1 DEF WriteFails, Goto, files, locals, history, Setting, IInv, Locals, Alone, Clean
  <1>2. ASSUME UnlinkTmp(p) PROVE Quiet
    BY <1>2 DEF UnlinkTmp, Leave, history, Setting, IInv, Locals, Alone, Clean
  <1>3. Quiet
    BY <1>1, <1>2
  <1>4. pc' \in [Procs -> PCs]  BY DEF IInv, Locals
  <1> QED BY <1>3, <1>4, QuietAlone

LEMMA ScanAlone ==
  ASSUME IInv, IInv', Alone, NEW p \in Procs, ScanStep(p)
  PROVE  Alone'
  <1> DEFINE Quiet ==
        /\ (pc[p] # "idle" /\ solo' = solo) \/ Enter(p)
        /\ \A q \in Procs \ {p} : pc'[q] = pc[q] /\ job'[q] = job[q] /\ off'[q] = off[q]
        /\ pc'[p] \notin Setting
        /\ pc'[p] = "list" => job'[p] = None
        /\ pc'[p] = "idle" => job'[p] = None /\ off'[p] = 0
  <1>1. ASSUME BeginScan(p) PROVE Quiet
    BY <1>1 DEF BeginScan, Goto, Enter, files, locals, Setting, IInv, Locals, Alone, Clean
  <1>2. ASSUME ScanList(p) PROVE Quiet
    BY <1>2 DEF ScanList, Goto, files, history, Setting, IInv, Locals, Alone, Clean
  <1>3. ASSUME ScanSkip(p) PROVE Quiet
    BY <1>3 DEF ScanSkip, Leave, files, history, Setting, IInv, Locals, Alone, Clean
  <1>4. ASSUME ScanTmp(p) PROVE Quiet
    BY <1>4 DEF ScanTmp, history, Setting, IInv, Locals, Alone, Clean
  <1>5. ASSUME ScanEntry(p) PROVE Quiet
    BY <1>5 DEF ScanEntry, Goto, files, history, Setting, IInv, Locals, Alone, Clean
  <1>6. ASSUME Evict(p) PROVE Quiet
    BY <1>6 DEF Evict, Goto, locals, history, Setting, IInv, Locals, Alone, Clean
  <1>7. ASSUME ScanEnd(p) PROVE Quiet
    BY <1>7 DEF ScanEnd, Leave, files, history, Setting, IInv, Locals, Alone, Clean
  <1>8. Quiet
    BY <1>1, <1>2, <1>3, <1>4, <1>5, <1>6, <1>7 DEF ScanStep
  <1>9. pc' \in [Procs -> PCs]  BY DEF IInv, Locals
  <1> QED BY <1>8, <1>9, QuietAlone

LEMMA ClearAlone ==
  ASSUME IInv, IInv', Alone, NEW p \in Procs, ClearStep(p)
  PROVE  Alone'
  <1> DEFINE Quiet ==
        /\ (pc[p] # "idle" /\ solo' = solo) \/ Enter(p)
        /\ \A q \in Procs \ {p} : pc'[q] = pc[q] /\ job'[q] = job[q] /\ off'[q] = off[q]
        /\ pc'[p] \notin Setting
        /\ pc'[p] = "list" => job'[p] = None
        /\ pc'[p] = "idle" => job'[p] = None /\ off'[p] = 0
  <1>1. ASSUME BeginClear(p) PROVE Quiet
    BY <1>1 DEF BeginClear, Goto, Enter, files, Setting, IInv, Locals, Alone, Clean
  <1>2. ASSUME ClearFile(p) PROVE Quiet
    BY <1>2 DEF ClearFile, history, Setting, IInv, Locals, Alone, Clean
  <1>3. ASSUME ClearEnd(p) PROVE Quiet
    BY <1>3 DEF ClearEnd, Leave, files, history, Setting, IInv, Locals, Alone, Clean
  <1>4. Quiet
    BY <1>1, <1>2, <1>3 DEF ClearStep
  <1>5. pc' \in [Procs -> PCs]  BY DEF IInv, Locals
  <1> QED BY <1>4, <1>5, QuietAlone

LEMMA GetAlone ==
  ASSUME IInv, IInv', Alone, NEW p \in Procs, GetStep(p)
  PROVE  Alone'
  <1> DEFINE Quiet ==
        /\ (pc[p] # "idle" /\ solo' = solo) \/ Enter(p)
        /\ \A q \in Procs \ {p} : pc'[q] = pc[q] /\ job'[q] = job[q] /\ off'[q] = off[q]
        /\ pc'[p] \notin Setting
        /\ pc'[p] = "list" => job'[p] = None
        /\ pc'[p] = "idle" => job'[p] = None /\ off'[p] = 0
  <1>1. ASSUME BeginGet(p) PROVE Quiet
    BY <1>1 DEF BeginGet, Goto, Enter, files, locals, Setting, IInv, Locals, Alone, Clean
  <1>2. ASSUME OpenRead(p) PROVE Quiet
    BY <1>2 DEF OpenRead, Goto, Reject, files, history, Leave, locals, Setting, IInv, Locals, Alone, Clean
  <1>3. ASSUME ReadChunk(p) PROVE Quiet
    BY <1>3 DEF ReadChunk, files, history, Setting, IInv, Locals, Alone, Clean
  <1>4. ASSUME Judge(p) PROVE Quiet
    BY <1>4 DEF Judge, Leave, Reject, files, history, Goto, locals, Setting, IInv, Locals, Alone, Clean
  <1>5. ASSUME Drop(p) PROVE Quiet
    BY <1>5 DEF Drop, Leave, history, Setting, IInv, Locals, Alone, Clean
  <1>6. Quiet
    BY <1>1, <1>2, <1>3, <1>4, <1>5 DEF GetStep
  <1>7. pc' \in [Procs -> PCs]  BY DEF IInv, Locals
  <1> QED BY <1>6, <1>7, QuietAlone

LEMMA CrashAlone ==
  ASSUME IInv, IInv', Alone, NEW p \in Procs, Crash(p)
  PROVE  Alone'
  <1> DEFINE Quiet ==
        /\ (pc[p] # "idle" /\ solo' = solo) \/ Enter(p)
        /\ \A q \in Procs \ {p} : pc'[q] = pc[q] /\ job'[q] = job[q] /\ off'[q] = off[q]
        /\ pc'[p] \notin Setting
        /\ pc'[p] = "list" => job'[p] = None
        /\ pc'[p] = "idle" => job'[p] = None /\ off'[p] = 0
  <1>1. ASSUME Crash(p) PROVE Quiet
    BY <1>1 DEF Crash, Leave, files, history, Setting, IInv, Locals, Alone, Clean
  <1>2. Quiet
    BY <1>1
  <1>3. pc' \in [Procs -> PCs]  BY DEF IInv, Locals
  <1> QED BY <1>2, <1>3, QuietAlone

LEMMA NextAlone == IInv /\ Alone /\ [Next]_vars => Alone'
  <1> SUFFICES ASSUME IInv, Alone, [Next]_vars PROVE Alone'  OBVIOUS
  <1>0. IInv'  BY NextIInv
  <1>1. ASSUME NEW p \in Procs, ScanStep(p) \/ Crash(p) PROVE Alone'
    BY <1>0, <1>1, ScanAlone, CrashAlone
  <1>2. ASSUME NEW p \in Writers, SetStep(p) PROVE Alone'
    BY <1>0, <1>2, BeginSetAlone, OpenTmpAlone, WriteChunkAlone, RenameAlone,
       EndSetAlone DEF SetStep, Procs
  <1>3. ASSUME NEW p \in Readers, GetStep(p) PROVE Alone'
    BY <1>0, <1>3, GetAlone DEF Procs
  <1>4. ASSUME NEW p \in Keepers, ClearStep(p) PROVE Alone'
    BY <1>0, <1>4, ClearAlone DEF Procs
  <1>5. ASSUME Tick \/ UNCHANGED vars PROVE Alone'
    BY <1>5 DEF Tick, vars, files, locals, history, Alone, Clean, Followed
  <1> QED BY <1>1, <1>2, <1>3, <1>4, <1>5 DEF Next

\* A set that had the cache for itself has published its own envelope, complete,
\* whatever state killed writers, scans and clears had left the files in.
THEOREM LonelySetsPublish == Spec => []SoloSetPublishes
  <1>1. Init => Alone
    BY DEF Init, Alone, Clean
  <1>2. Spec => []Alone
    BY Inductive, <1>1, NextAlone, PTL DEF Spec
  <1>3. Alone => SoloSetPublishes
    BY DEF Alone, Followed, SoloSetPublishes, Copies
  <1> QED BY <1>2, <1>3, PTL
=============================================================================
