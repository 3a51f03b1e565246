----------------------------- MODULE FileCache ------------------------------
(***************************************************************************)
(* One entry of a persistent cache of Git Mog and every process that works *)
(* on it.  Three caches share this protocol: the snapshot cache            *)
(* (cli/snapshot-store.ts), the Code DNA and derived-feature caches        *)
(* (source-analysis/cache.ts) and the quality cache                        *)
(* (quality-judge/cache.ts).  Each keeps the entry of a key in one file,   *)
(* "path", written through one temporary name, "tmp", that is the same in  *)
(* every process; no lock is taken.  A process is synchronous code, but    *)
(* the processes interleave between any two system calls, and any of them  *)
(* may be killed there.  A slot stands for one process after another.      *)
(*                                                                         *)
(* A file is an inode holding a sequence of chunks, each chunk naming the  *)
(* envelope it is a part of; names point to inodes, so a writer keeps      *)
(* writing into an inode that was renamed or unlinked under it.            *)
(***************************************************************************)
EXTENDS Naturals, Sequences

CONSTANTS Writers,          \* slots for processes storing the entry,
          Readers,          \* looking it up,
          Keepers,          \* inspecting or clearing the cache
          Vals,             \* the values that pass validation before a set
          Size,             \* Size[v]: chunks an envelope of v takes on disk
          Inodes,           \* the file objects the file system can hand out
          TTL,              \* time to live of an entry
          MaxTime,          \* bound: the clock stops here
          RemovesInvalid,   \* get unlinks a file it rejects (not snapshots)
          SealsExpiry,      \* the checksum covers expiresAt (snapshots only)
          None, Miss, Hole  \* no inode / no value / bytes nobody wrote

ASSUME FileCacheAssumption ==
  /\ Size \in [Vals -> Nat \ {0}]
  /\ TTL \in Nat \ {0}
  /\ MaxTime \in Nat
  /\ RemovesInvalid \in BOOLEAN
  /\ SealsExpiry \in BOOLEAN
  /\ None \notin Inodes
  /\ Hole \notin [val : Vals, exp : Nat]

VARIABLES now,      \* the clock every process reads
          dir,      \* does the cache directory exist
          path,     \* inode behind <key>.json, or None
          tmp,      \* inode behind <key>.json.tmp, or None
          content,  \* chunks held by each inode
          pc,       \* next system call of each process
          job,      \* envelope a process is storing
          fd,       \* inode a process has open
          off,      \* chunks a process has written
          buf,      \* chunks a process has read
          todo,     \* names a process has listed and not yet handled
          result,   \* answer of the latest get of each process
          begun,    \* history: the envelopes of every set begun so far
          solo,     \* history: the process working alone since it started
          overlap   \* history: two sets have been in progress at once

files == <<dir, path, tmp, content>>
locals == <<job, fd, off, buf, todo>>
history == <<begun, solo, overlap>>
vars == <<now, files, pc, locals, result, history>>

Procs == Writers \cup Readers \cup Keepers

Envelope == [val : Vals, exp : Nat]
Chunk == Envelope \cup {Hole}
Names == {"path", "tmp"}
Setting == {"open", "write", "rename"}
PCs == Setting \cup {"idle", "unlink", "list", "sweep", "evict", "clear",
                     "openread", "read", "drop"}

(***************************************************************************)
(* The validation of a stored file.  What a get decodes is the value the   *)
(* chunks spell and the expiresAt of the first one.  JSON.parse, the exact *)
(* key check and the checksum accept the chunks only when they are all of  *)
(* one value, none missing and none left over; when the checksum seals the *)
(* expiry too (it is the last field of a snapshot), the two ends must also *)
(* come from the same envelope.                                            *)
(***************************************************************************)
Image(v) == [i \in 1..Size[v] |-> v]
Decoded(s) == [image |-> [i \in 1..Len(s) |-> s[i].val], exp |-> s[1].exp]

\* Mutants: a validation that accepts a prefix; one that skips the expiry.
WholeOfPrefix(s) == Len(s) > 0 /\ \A i \in 1..Len(s) : s[i] # Hole /\ s[i].val = s[1].val
UnexpiredAlways(s) == TRUE

Whole(s) ==
  /\ Len(s) > 0
  /\ \A i \in 1..Len(s) : s[i] # Hole
  /\ \A i \in 1..Len(s) : s[i].val = s[1].val
  /\ Len(s) = Size[s[1].val]
  /\ SealsExpiry => s[Len(s)].exp = s[1].exp

Unexpired(s) == s[1].exp > now

\* A write at chunk k of an open file; a shorter file is padded by the kernel.
WriteAt(s, k, c) ==
  [i \in 1..(IF Len(s) > k THEN Len(s) ELSE k) |->
     IF i = k THEN c ELSE IF i <= Len(s) THEN s[i] ELSE Hole]

Present == {n \in Names : IF n = "path" THEN path # None ELSE tmp # None}
FreeInodes == Inodes \ ({path, tmp} \cup {fd[p] : p \in Procs})
-----------------------------------------------------------------------------
Init ==
  /\ now = 0
  /\ dir = FALSE /\ path = None /\ tmp = None
  /\ content = [i \in Inodes |-> <<>>]
  /\ pc = [p \in Procs |-> "idle"]
  /\ job = [p \in Procs |-> None]
  /\ fd = [p \in Procs |-> None]
  /\ off = [p \in Procs |-> 0]
  /\ buf = [p \in Procs |-> <<>>]
  /\ todo = [p \in Procs |-> {}]
  /\ result = [p \in Procs |-> Miss]
  /\ begun = {} /\ solo = {} /\ overlap = FALSE

\* A process leaves the cache code, normally or because it was killed.
Leave(p) ==
  /\ pc' = [pc EXCEPT ![p] = "idle"]
  /\ job' = [job EXCEPT ![p] = None]
  /\ fd' = [fd EXCEPT ![p] = None]
  /\ off' = [off EXCEPT ![p] = 0]
  /\ buf' = [buf EXCEPT ![p] = <<>>]
  /\ todo' = [todo EXCEPT ![p] = {}]

Goto(p, label) == pc' = [pc EXCEPT ![p] = label]

\* The operation p starts runs alone if nobody is in the middle of one.
Enter(p) ==
  /\ pc[p] = "idle"
  /\ solo' = IF \A q \in Procs \ {p} : pc[q] = "idle" THEN {p} ELSE {}
-----------------------------------------------------------------------------
(* set *)

\* mkdir -p, then the envelope is built with the clock of this instant.
BeginSet(p, v) ==
  LET e == [val |-> v, exp |-> now + TTL] IN
  /\ Enter(p)
  /\ dir' = TRUE
  /\ job' = [job EXCEPT ![p] = e]
  /\ begun' = begun \cup {e}
  /\ overlap' = (overlap \/ \E q \in Procs \ {p} : pc[q] \in Setting)
  /\ Goto(p, "open")
  /\ UNCHANGED <<now, path, tmp, content, fd, off, buf, todo, result>>

\* Mutant: the leftover is not truncated.
OpenTmpKeeping(p) ==
  /\ pc[p] = "open" /\ dir
  /\ \E i \in (IF tmp # None THEN {tmp} ELSE FreeInodes) :
       /\ tmp' = i
       /\ fd' = [fd EXCEPT ![p] = i]
       /\ content' = IF tmp = None THEN [content EXCEPT ![i] = <<>>] ELSE content
  /\ Goto(p, "write")
  /\ UNCHANGED <<now, dir, path, job, off, buf, todo, result, history>>

\* writeFileSync opens with O_CREAT and O_TRUNC: a leftover of a killed writer,
\* or the file another process is writing right now, is emptied and shared.
OpenTmp(p) ==
  /\ pc[p] = "open" /\ dir
  /\ \E i \in (IF tmp # None THEN {tmp} ELSE FreeInodes) :
       /\ tmp' = i
       /\ fd' = [fd EXCEPT ![p] = i]
       /\ content' = [content EXCEPT ![i] = <<>>]
  /\ Goto(p, "write")
  /\ UNCHANGED <<now, dir, path, job, off, buf, todo, result, history>>

\* Mutant: the rename does not wait for the last chunk.
WriteChunkOnce(p) ==
  /\ pc[p] = "write"
  /\ content' = [content EXCEPT ![fd[p]] = WriteAt(@, off[p] + 1, job[p])]
  /\ off' = [off EXCEPT ![p] = @ + 1]
  /\ Goto(p, "rename")
  /\ UNCHANGED <<now, dir, path, tmp, job, fd, buf, todo, result, history>>

WriteChunk(p) ==
  /\ pc[p] = "write"
  /\ content' = [content EXCEPT ![fd[p]] = WriteAt(@, off[p] + 1, job[p])]
  /\ off' = [off EXCEPT ![p] = @ + 1]
  /\ Goto(p, IF off[p] + 1 = Size[job[p].val] THEN "rename" ELSE "write")
  /\ UNCHANGED <<now, dir, path, tmp, job, fd, buf, todo, result, history>>

\* The directory is gone, or the disk refuses bytes: the catch block is next.
WriteFails(p) ==
  /\ \/ pc[p] = "open" /\ ~dir
     \/ pc[p] = "write"
  /\ Goto(p, "unlink")
  /\ UNCHANGED <<now, files, locals, result, history>>

\* renameSync moves whatever "tmp" names now, which may be another writer's file.
Rename(p) ==
  /\ pc[p] = "rename"
  /\ IF tmp # None
     THEN path' = tmp /\ tmp' = None /\ Goto(p, "list")
     ELSE UNCHANGED <<path, tmp>> /\ Goto(p, "unlink")
  /\ fd' = [fd EXCEPT ![p] = None]
  /\ UNCHANGED <<now, dir, content, job, off, buf, todo, result, history>>

UnlinkTmp(p) ==
  /\ pc[p] = "unlink"
  /\ tmp' = None
  /\ Leave(p)
  /\ UNCHANGED <<now, dir, path, content, result, history>>
-----------------------------------------------------------------------------
(* The ceiling scan: the afterWrite of every set, and --cache-info *)

BeginScan(p) ==
  /\ p \in Keepers
  /\ Enter(p) /\ dir
  /\ Goto(p, "list")
  /\ UNCHANGED <<now, files, locals, result, begun, overlap>>

ScanList(p) ==
  /\ pc[p] = "list"
  /\ todo' = [todo EXCEPT ![p] = Present]
  /\ Goto(p, "sweep")
  /\ UNCHANGED <<now, files, job, fd, off, buf, result, history>>

\* prepareCacheRoot refuses the root (its marker is being removed, say): no scan.
ScanSkip(p) ==
  /\ pc[p] = "list"
  /\ Leave(p)
  /\ UNCHANGED <<now, files, result, history>>

\* A name that is not the name of an entry is removed, whoever is writing it.
ScanTmp(p) ==
  /\ pc[p] = "sweep" /\ "tmp" \in todo[p]
  /\ tmp' = None
  /\ todo' = [todo EXCEPT ![p] = @ \ {"tmp"}]
  /\ UNCHANGED <<now, dir, path, content, pc, job, fd, off, buf, result, history>>

\* An invalid or expired entry is doomed; a valid one is too when the other
\* entries leave the cache above its ceiling (which ones is not modelled here).
ScanEntry(p) ==
  /\ pc[p] = "sweep" /\ "path" \in todo[p]
  /\ todo' = [todo EXCEPT ![p] = @ \ {"path"}]
  /\ \/ /\ path # None
        /\ Whole(content[path]) /\ Unexpired(content[path])
        /\ pc' = pc
     \/ Goto(p, "evict")
  /\ UNCHANGED <<now, files, job, fd, off, buf, result, history>>

\* rm by name: the file removed may not be the file that was inspected.
Evict(p) ==
  /\ pc[p] = "evict"
  /\ path' = None
  /\ Goto(p, "sweep")
  /\ UNCHANGED <<now, dir, tmp, content, locals, result, history>>

ScanEnd(p) ==
  /\ pc[p] = "sweep" /\ todo[p] = {}
  /\ Leave(p)
  /\ UNCHANGED <<now, files, result, history>>
-----------------------------------------------------------------------------
(* --clear-cache: visit, unlink what the visit saw, rmdir *)

BeginClear(p) ==
  /\ Enter(p) /\ dir
  /\ todo' = [todo EXCEPT ![p] = Present]
  /\ Goto(p, "clear")
  /\ UNCHANGED <<now, files, job, fd, off, buf, result, begun, overlap>>

ClearFile(p) ==
  /\ pc[p] = "clear"
  /\ \E n \in todo[p] :
       /\ todo' = [todo EXCEPT ![p] = @ \ {n}]
       /\ path' = IF n = "path" THEN None ELSE path
       /\ tmp' = IF n = "tmp" THEN None ELSE tmp
  /\ UNCHANGED <<now, dir, content, pc, job, fd, off, buf, result, history>>

\* rmdir refuses a directory that got a new file meanwhile: the clear reports it.
ClearEnd(p) ==
  /\ pc[p] = "clear" /\ todo[p] = {}
  /\ dir' = (path # None \/ tmp # None)
  /\ Leave(p)
  /\ UNCHANGED <<now, path, tmp, content, result, history>>
-----------------------------------------------------------------------------
(* get *)

\* existsSync
BeginGet(p) ==
  /\ Enter(p)
  /\ IF path = None
     THEN result' = [result EXCEPT ![p] = Miss] /\ pc' = pc
     ELSE Goto(p, "openread") /\ UNCHANGED result
  /\ UNCHANGED <<now, files, locals, begun, overlap>>

\* A get that cannot use the file answers Miss, after unlinking the path
\* in the caches that clean up behind themselves.
Reject(p) ==
  IF RemovesInvalid
  THEN Goto(p, "drop") /\ UNCHANGED <<locals, result>>
  ELSE Leave(p) /\ result' = [result EXCEPT ![p] = Miss]

OpenRead(p) ==
  /\ pc[p] = "openread"
  /\ \/ /\ path # None
        /\ fd' = [fd EXCEPT ![p] = path]
        /\ Goto(p, "read")
        /\ UNCHANGED <<job, off, buf, todo, result>>
     \/ path = None /\ Reject(p)
  /\ UNCHANGED <<now, files, history>>

ReadChunk(p) ==
  /\ pc[p] = "read" /\ Len(buf[p]) < Len(content[fd[p]])
  /\ buf' = [buf EXCEPT ![p] = Append(@, content[fd[p]][Len(@) + 1])]
  /\ UNCHANGED <<now, files, pc, job, fd, off, todo, result, history>>

\* At end of file the text read so far is parsed and validated.
Judge(p) ==
  /\ pc[p] = "read" /\ Len(buf[p]) >= Len(content[fd[p]])
  /\ IF Whole(buf[p]) /\ Unexpired(buf[p])
     THEN Leave(p) /\ result' = [result EXCEPT ![p] = Decoded(buf[p])]
     ELSE Reject(p)
  /\ UNCHANGED <<now, files, history>>

Drop(p) ==
  /\ pc[p] = "drop"
  /\ path' = None
  /\ Leave(p)
  /\ result' = [result EXCEPT ![p] = Miss]
  /\ UNCHANGED <<now, dir, tmp, content, history>>
-----------------------------------------------------------------------------
Crash(p) ==
  /\ pc[p] # "idle"
  /\ Leave(p)
  /\ UNCHANGED <<now, files, result, history>>

Tick ==
  /\ now < MaxTime
  /\ now' = now + 1
  /\ UNCHANGED <<files, pc, locals, result, history>>

SetStep(p) == \/ \E v \in Vals : BeginSet(p, v)
              \/ OpenTmp(p) \/ WriteChunk(p) \/ WriteFails(p)
              \/ Rename(p) \/ UnlinkTmp(p)
ScanStep(p) == \/ BeginScan(p) \/ ScanList(p) \/ ScanSkip(p) \/ ScanTmp(p)
               \/ ScanEntry(p) \/ Evict(p) \/ ScanEnd(p)
ClearStep(p) == BeginClear(p) \/ ClearFile(p) \/ ClearEnd(p)
GetStep(p) == BeginGet(p) \/ OpenRead(p) \/ ReadChunk(p) \/ Judge(p) \/ Drop(p)

Next == \/ \E p \in Procs : ScanStep(p) \/ Crash(p)
        \/ \E p \in Writers : SetStep(p)
        \/ \E p \in Readers : GetStep(p)
        \/ \E p \in Keepers : ClearStep(p)
        \/ Tick

Spec == Init /\ [][Next]_vars
-----------------------------------------------------------------------------
\* The shape of the files and of the processes: names point to inodes that exist,
\* and every stored envelope has an expiry that is a time.
TypeOK ==
  /\ now \in Nat
  /\ dir \in BOOLEAN
  /\ path \in Inodes \cup {None} /\ tmp \in Inodes \cup {None}
  /\ content \in [Inodes -> Seq(Chunk)]
  /\ pc \in [Procs -> PCs]
  /\ job \in [Procs -> Envelope \cup {None}]
  /\ fd \in [Procs -> Inodes \cup {None}]
  /\ off \in [Procs -> Nat]
  /\ buf \in [Procs -> Seq(Chunk)]
  /\ todo \in [Procs -> SUBSET Names]
  /\ begun \subseteq Envelope
  /\ solo \subseteq Procs
  /\ overlap \in BOOLEAN

\* Whatever the writers, sweepers, clears and crashes did to the files, a get
\* that hits returns, whole, a value some process passed to set, with an
\* expiry that value was stored under: never a mixture of two writes.
HitSound ==
  \A p \in Procs : result[p] # Miss =>
    \E e \in begun : result[p] = [image |-> Image(e.val), exp |-> e.exp]

\* While no two sets have ever overlapped, "path" never shows an incomplete
\* entry: not while its replacement is being written, not after a crash in the
\* middle of one, not with scans, clears and gets running at the same time.
AtomicReplace ==
  ~overlap /\ path # None => Whole(content[path])

\* A set that ran alone has put its own envelope behind "path" when it reaches
\* the scan, whatever a killed writer left in the temporary file before.
SoloSetPublishes ==
  \A p \in solo : pc[p] = "list" /\ job[p] # None =>
    /\ path # None
    /\ content[path] = [i \in 1..Size[job[p].val] |-> job[p]]

Lossy == INSTANCE LossyCache WITH
           Clients <- Procs,
           offered <- {[image |-> Image(e.val), exp |-> e.exp] : e \in begun},
           answer  <- result

\* The files implement the cache the pipeline was promised (LossyCache): a get
\* misses, or answers with a whole envelope that some set offered and that has
\* not expired at the moment of the answer.
LossySpec == Lossy!Spec
=============================================================================
