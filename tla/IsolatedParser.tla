--------------------------- MODULE IsolatedParser --------------------------
(***************************************************************************)
(* Parsing untrusted source in a worker thread                             *)
(* (packages/quality-judge/src/isolate.ts, parser-worker.ts and            *)
(* isolated-analyze.ts): one worker is started when the first file needs    *)
(* it, gets one file at a time, and is terminated when a file takes too     *)
(* long or the caller aborts; the next file then gets a new worker. Three   *)
(* limits run against the answers: startup, file and profile.               *)
(*                                                                          *)
(* The main thread acts between two events of its loop, so a result that    *)
(* settles a file and the step to the next file are one action; timers fire *)
(* when they are due. The worker may answer, throw, die or hang.            *)
(***************************************************************************)
EXTENDS Integers, Sequences, FiniteSets

CONSTANTS
    Inputs,        \* the collected files: [bytes, supported]
    MaxInputs,     \* QUALITY_MAX_FILES_PER_PROFILE
    MaxBytes,      \* QUALITY_MAX_SOURCE_BYTES_PER_PROFILE
    MaxFileBytes,  \* QUALITY_MAX_DECODED_BYTES_PER_FILE
    StartTime,     \* WORKER_STARTUP_TIME_MS
    FileTime,      \* QUALITY_PARSER_WALL_TIME_MS
    ProfileTime    \* QUALITY_PARSER_PROFILE_WALL_TIME_MS, the deadline

ASSUME ParserAssumption ==
    /\ Inputs \in Seq([bytes : Nat, supported : BOOLEAN])
    /\ {MaxInputs, MaxBytes, MaxFileBytes} \subseteq Nat
    /\ {StartTime, FileTime, ProfileTime} \subseteq Nat \ {0}

VARIABLES
    pc,        \* "loop", "starting", "parsing", "returned"
    at,        \* the file at hand
    results,   \* the verdicts so far, in the order of Inputs
    worker,    \* the worker in hand, 0 for null
    started,   \* workers started
    alive,     \* those not yet dead or told to terminate
    inbox,     \* files the worker in hand has not answered
    armed,     \* is its one message listener still attached?
    due,       \* when the running timer fires
    now,       \* the clock
    aborted,   \* has the caller aborted?
    answered   \* files the worker answered while they were waited for

vars == <<pc, at, results, worker, started, alive, inbox, armed, due, now,
          aborted, answered>>

Failures == {"cancelled", "unsupported-language", "oversized", "timeout",
             "isolation-failure"}

-----------------------------------------------------------------------------
(* isolated-analyze.ts: the files that may be parsed at all. *)

Least(m, n) == IF m < n THEN m ELSE n
Most(m, n) == IF m < n THEN n ELSE m

\* Bytes of the first n files, those left out included.
BytesUpTo[n \in 0 .. Len(Inputs)] ==
    IF n = 0 THEN 0 ELSE BytesUpTo[n - 1] + Inputs[n].bytes

Bounded == 1 .. Least(Len(Inputs), MaxInputs)

\* How many files are eligible. They are a prefix of Inputs because the sum only
\* grows, so a file has the same place among them and in the results.
Eligible == Cardinality({n \in Bounded : BytesUpTo[n] <= MaxBytes})

File == Inputs[at]

-----------------------------------------------------------------------------
Init ==
    /\ pc = "loop" /\ at = 1
    /\ results = [n \in Bounded |-> "null"]
    /\ worker = 0 /\ started = 0 /\ alive = {}
    /\ inbox = <<>> /\ armed = FALSE /\ due = 0 /\ now = 0
    /\ aborted \in BOOLEAN
    /\ answered = {}

Settle(verdict) ==
    /\ results' = [results EXCEPT ![at] = verdict]
    /\ at' = at + 1 /\ pc' = "loop" /\ armed' = FALSE

\* Why the file at hand is not given to a worker.
Refusal ==
    IF aborted THEN "cancelled"
    ELSE IF ~File.supported THEN "unsupported-language"
    ELSE IF File.bytes > MaxFileBytes THEN "oversized"
    ELSE IF now >= ProfileTime THEN "timeout"
    ELSE "none"

Refuse ==
    /\ pc = "loop" /\ at <= Eligible /\ Refusal # "none"
    /\ Settle(Refusal)
    /\ UNCHANGED <<worker, started, alive, inbox, due, now, aborted, answered>>

StartWorker ==
    /\ pc = "loop" /\ at <= Eligible /\ Refusal = "none" /\ worker = 0
    /\ pc' = "starting"
    /\ started' = started + 1
    /\ worker' = started + 1
    /\ alive' = alive \union {started + 1}
    /\ inbox' = <<>> /\ armed' = TRUE
    /\ due' = now + Least(StartTime, Most(1, ProfileTime - now))
    /\ UNCHANGED <<at, results, now, aborted, answered>>

\* Mutant: only the limit of the file runs, not what is left of the profile's.
FileDueAlone == now + FileTime

\* When the timer of a file that is sent now fires.
FileDue == now + Most(1, Least(FileTime, Most(0, ProfileTime - now)))

Post ==
    /\ pc' = "parsing" /\ inbox' = Append(inbox, at)
    /\ armed' = TRUE /\ due' = FileDue
    /\ UNCHANGED <<at, results, worker, started, alive, now, aborted, answered>>

\* The worker reports ready and gets the file at once.
WorkerReady == pc = "starting" /\ worker \in alive /\ Post

SendFile ==
    /\ pc = "loop" /\ at <= Eligible /\ Refusal = "none" /\ worker # 0
    /\ Post

Give(w) == worker' = 0 /\ alive' = alive \ {w} /\ inbox' = <<>>

\* Mutant: the worker of a file that took too long is kept for the next one.
ReleaseKeeping == UNCHANGED <<worker, alive, inbox>>

\* stop: the worker is terminated and not used again.
Release == Give(worker)

\* A worker that dies by itself while it starts or parses.
WorkerDies ==
    /\ pc \in {"starting", "parsing"} /\ worker \in alive
    /\ Give(worker) /\ Settle("isolation-failure")
    /\ UNCHANGED <<started, due, now, aborted, answered>>

\* Mutant: startup has no timer.
TimerFiresParsing ==
    /\ pc = "parsing" /\ now >= due
    /\ Release /\ Settle("timeout")
    /\ UNCHANGED <<started, due, now, aborted, answered>>

\* Startup or the file takes too long.
TimerFires ==
    /\ pc \in {"starting", "parsing"} /\ now >= due
    /\ Release
    /\ Settle(IF pc = "parsing" THEN "timeout" ELSE "isolation-failure")
    /\ UNCHANGED <<started, due, now, aborted, answered>>

\* The worker answers the oldest file it has. The listener hears one message;
\* it settles the file at hand if the message is about it.
Answer ==
    /\ pc = "parsing" /\ inbox # <<>> /\ worker \in alive
    /\ LET n == Head(inbox) IN
       /\ inbox' = Tail(inbox)
       /\ answered' = IF n = at THEN answered \union {n} ELSE answered
       /\ IF armed /\ n = at
          THEN \E verdict \in {"parsed", "isolation-failure"} : Settle(verdict)
          ELSE armed' = FALSE /\ UNCHANGED <<results, at, pc>>
    /\ UNCHANGED <<worker, started, alive, due, now, aborted>>

\* The signal ends what waits for it. Between two waits nothing can abort, and
\* a signal aborted before the start is an initial state.
Abort ==
    /\ ~aborted /\ pc \in {"starting", "parsing"}
    /\ aborted' = TRUE
    /\ Release /\ Settle("cancelled")
    /\ UNCHANGED <<started, due, now, answered>>

Return ==
    /\ pc = "loop" /\ at > Eligible
    /\ pc' = "returned"
    /\ IF worker # 0 THEN Give(worker) ELSE UNCHANGED <<worker, alive, inbox>>
    /\ UNCHANGED <<at, results, started, armed, due, now, aborted, answered>>

\* Time passes only while the program waits, and no timer is late.
Tick ==
    /\ pc \in {"starting", "parsing"} /\ now < due
    /\ now' = now + 1
    /\ UNCHANGED <<pc, at, results, worker, started, alive, inbox, armed, due,
                   aborted, answered>>

Program == Refuse \/ StartWorker \/ SendFile \/ TimerFires \/ Return

Next == Program \/ WorkerReady \/ WorkerDies \/ Answer \/ Abort \/ Tick

\* The program and its timers run; the worker and the caller promise nothing.
Spec == Init /\ [][Next]_vars /\ WF_vars(Program) /\ WF_vars(Tick)

-----------------------------------------------------------------------------
TypeOK ==
    /\ pc \in {"loop", "starting", "parsing", "returned"}
    /\ at \in 1 .. Eligible + 1
    /\ results \in [Bounded -> Failures \union {"null", "parsed"}]
    /\ started \in Nat /\ worker \in 0 .. started /\ alive \subseteq 1 .. started
    /\ inbox \in Seq(Bounded) /\ armed \in BOOLEAN /\ aborted \in BOOLEAN
    /\ now \in Nat /\ due \in Nat

\* However workers hang, die or are replaced, at most one lives, it is the one
\* in hand, and none is left when the results are returned.
AtMostOneWorker ==
    /\ alive \subseteq {worker}
    /\ pc = "returned" => alive = {}

\* The profile's deadline bounds the whole, starts and restarts of workers
\* included; a file sent on the last moment adds no more than its least timer.
WithinProfileTime == now <= ProfileTime + 1

\* What the worker answered in time is used for the file it is about: the answer is
\* not lost to that of another file, no file that was answered times out, and no
\* file counts as parsed without an answer of its own.
AnswerIsUsed ==
    \A n \in Bounded :
        /\ n \in answered => results[n] \in {"parsed", "isolation-failure"}
        /\ results[n] = "parsed" => n \in answered

\* Parsing ends, whatever the worker does.
ParsingEnds == <>(pc = "returned")
=============================================================================
