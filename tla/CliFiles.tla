------------------------------ MODULE CliFiles ------------------------------
(***************************************************************************)
(* What an invocation does to the disk, in the order of run (cli/cli.ts):   *)
(* the export destination is checked with the arguments, before anything is *)
(* created; then the cache root is prepared, entries are stored, and the    *)
(* export is written whether or not there is a cache. Several invocations,  *)
(* and --clear-cache, run at once.                                          *)
(***************************************************************************)
EXTENDS CacheRoot, Export

\* Every invocation may be asked to export, and files have one name.
ASSUME FilesAssumption == Exporters = Procs /\ "other" \notin Procs

VARIABLE
    stage  \* of each invocation: "args", "cache", "export" or "out"

filesVars == <<rootVars, exportVars, stage>>

FilesInit == RootInit /\ ExportInit /\ stage = [p \in Procs |-> "args"]

\* The destination is checked before the cache is opened.
Arguments(p) ==
    /\ stage[p] = "args"
    /\ IF dest # "none"
       THEN stage' = [stage EXCEPT ![p] = "out"] /\ Conclude(p, "idle", "invalid")
       ELSE stage' = [stage EXCEPT ![p] = "cache"] /\ UNCHANGED exportVars
    /\ UNCHANGED rootVars

CacheWork(p) ==
    /\ stage[p] = "cache" /\ RootProgram(p)
    /\ UNCHANGED <<exportVars, stage>>

\* The analysis goes on without a cache that was refused, and so does the export.
BeginExport(p) ==
    /\ stage[p] = "cache" /\ rpc[p] = "done"
    /\ stage' = [stage EXCEPT ![p] = "export"]
    /\ At(p, "idle", "check")
    /\ UNCHANGED <<dest, bytes, tmp, stale, tried, outcome, mishap, rootVars>>

ExportWork(p) ==
    /\ stage[p] = "export"
    /\ ExportProgram(p)
    /\ stage' = [stage EXCEPT ![p] = IF xpc'[p] = "done" THEN "out" ELSE "export"]
    /\ UNCHANGED rootVars

\* A process is killed at work on the cache root, or once its export has a file
\* (before that, a killed process leaves what a failed one leaves).
Kill(p) ==
    /\ \/ stage[p] = "cache" /\ Killed(p) /\ Conclude(p, "idle", "killed")
       \/ stage[p] = "export" /\ p \in tmp /\ Conclude(p, xpc[p], "killed") /\ UNCHANGED rootVars
    /\ stage' = [stage EXCEPT ![p] = "out"]

ClearWork(c) == (RootProgram(c) \/ Killed(c)) /\ UNCHANGED <<exportVars, stage>>

Invocation(p) == Arguments(p) \/ CacheWork(p) \/ BeginExport(p) \/ ExportWork(p)

FilesNext ==
    \/ \E p \in Procs : Invocation(p) \/ Kill(p)
    \/ \E c \in Clearers : ClearWork(c)
    \/ OtherMakes /\ UNCHANGED <<rootVars, stage>>

FilesSpec ==
    /\ FilesInit /\ [][FilesNext]_filesVars
    /\ \A p \in Procs : WF_filesVars(Invocation(p))

-----------------------------------------------------------------------------
\* An invocation whose destination argument is refused has left nothing on the
\* disk: not an entry, not the marker, not the end of an older version's cache.
RefusedTouchesNothing ==
    \A p \in Procs :
        outcome[p] = "invalid" => p \notin entries /\ maker # p /\ rpc[p] = "start"
=============================================================================
