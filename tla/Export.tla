------------------------------- MODULE Export -------------------------------
(***************************************************************************)
(* The export of a battle (cli/export-artifact.ts): a destination that must *)
(* be new is checked with the arguments and again before it is written; the *)
(* bytes go to a temporary file, and link(2) gives them their name, which   *)
(* fails if another program has taken it meanwhile. Each system call is a    *)
(* step that may fail, and a process may be killed between two of them.      *)
(***************************************************************************)
EXTENDS Integers, FiniteSets

CONSTANTS
    Exporters,  \* processes that export, all to the same destination
    Attempts,   \* names tried for the temporary file (16 in the code)
    Leftovers   \* how many of them earlier processes may have left, by process

ASSUME AttemptsAssumption ==
    Attempts \in Nat \ {0} /\ Leftovers \subseteq [Exporters -> 0..Attempts]

VARIABLES
    dest,     \* whose file has the destination's name: a process, "other" or "none"
    bytes,    \* what each process's temporary file holds
    tmp,      \* the processes whose temporary file has a name
    stale,    \* how many names are taken by files of an earlier process of this pid
    xpc,      \* where each export is
    tried,    \* names each has tried
    outcome,  \* "none", "ok", "error", "internal" (an exception) or "killed"
    mishap    \* history: the processes whose unlink or close failed

exportVars == <<dest, bytes, tmp, stale, xpc, tried, outcome, mishap>>

ExportInit ==
    /\ dest \in {"none", "other"}
    /\ bytes = [p \in Exporters |-> "nothing"]
    /\ tmp = {} /\ mishap = {}
    /\ stale \in Leftovers
    /\ xpc = [p \in Exporters |-> "idle"]
    /\ tried = [p \in Exporters |-> 0]
    /\ outcome = [p \in Exporters |-> "none"]

At(p, from, to) == xpc[p] = from /\ xpc' = [xpc EXCEPT ![p] = to]

\* The end of an export without a file to close or remove.
Conclude(p, from, end) ==
    /\ At(p, from, "done")
    /\ outcome' = [outcome EXCEPT ![p] = end]
    /\ UNCHANGED <<dest, bytes, tmp, stale, tried, mishap>>

\* canonicalDestination: a destination that exists is refused.
CheckDestination(p) ==
    IF dest # "none" THEN Conclude(p, "check", "error")
    ELSE At(p, "check", "render") /\ UNCHANGED <<dest, bytes, tmp, stale, tried, outcome, mishap>>

\* renderBattleExport throws if a private name got into the text or it is too
\* large; the parent cannot be made, or has become a link to another place.
Render(p) ==
    \/ At(p, "render", "reserve") /\ UNCHANGED <<dest, bytes, tmp, stale, tried, outcome, mishap>>
    \/ \E end \in {"internal", "error"} : Conclude(p, "render", end)

\* Each name is tried once, and the first that is not taken is reserved.
Reserve(p) ==
    /\ xpc[p] = "reserve" /\ tried[p] < Attempts
    /\ tried' = [tried EXCEPT ![p] = @ + 1]
    /\ IF tried[p] < stale[p] THEN UNCHANGED <<xpc, tmp>>
       ELSE tmp' = tmp \union {p} /\ xpc' = [xpc EXCEPT ![p] = "write"]
    /\ UNCHANGED <<dest, bytes, stale, outcome, mishap>>

\* All names are taken, or none can be made, because the parent is gone or closed.
ReserveFails(p) == tried[p] \in {0, Attempts} /\ Conclude(p, "reserve", "error")

WriteSome(p) ==
    /\ xpc[p] = "write" /\ bytes[p] = "nothing"
    /\ bytes' = [bytes EXCEPT ![p] = "some"]
    /\ UNCHANGED <<dest, tmp, stale, xpc, tried, outcome, mishap>>

\* writeFileSync, fsyncSync, closeSync
WriteRest(p) ==
    /\ At(p, "write", "link") /\ bytes[p] = "some"
    /\ bytes' = [bytes EXCEPT ![p] = "whole"]
    /\ UNCHANGED <<dest, tmp, stale, tried, outcome, mishap>>

WriteFails(p) ==
    /\ At(p, "write", "clean")
    /\ outcome' = [outcome EXCEPT ![p] = "error"]
    /\ UNCHANGED <<dest, bytes, tmp, stale, tried, mishap>>

\* Mutant: rename(2), which replaces what has the name.
CommitByRename(p) ==
    /\ At(p, "link", "unlink") /\ dest' = p
    /\ UNCHANGED <<bytes, tmp, stale, tried, outcome, mishap>>

\* link(2) never replaces a file.
Commit(p) ==
    /\ dest = "none"
    /\ At(p, "link", "unlink") /\ dest' = p
    /\ UNCHANGED <<bytes, tmp, stale, tried, outcome, mishap>>

\* Mutant: a destination that is there counts as exported.
CommitFailsAsSuccess(p) ==
    /\ At(p, "link", "unlink")
    /\ UNCHANGED <<dest, bytes, tmp, stale, tried, mishap, outcome>>

CommitFails(p) ==
    /\ At(p, "link", "clean")
    /\ outcome' = [outcome EXCEPT ![p] = "error"]
    /\ UNCHANGED <<dest, bytes, tmp, stale, tried, mishap>>

\* The first unlink: its failure is reported as a failed export.
Unlink(p) ==
    \/ /\ At(p, "unlink", "done")
       /\ tmp' = tmp \ {p} /\ outcome' = [outcome EXCEPT ![p] = "ok"]
       /\ UNCHANGED <<dest, bytes, stale, tried, mishap>>
    \/ /\ At(p, "unlink", "clean")
       /\ outcome' = [outcome EXCEPT ![p] = "error"] /\ mishap' = mishap \union {p}
       /\ UNCHANGED <<dest, bytes, tmp, stale, tried>>

\* finally: what it throws goes out of writeBattleExport.
Clean(p) ==
    \/ /\ At(p, "clean", "done")
       /\ tmp' = tmp \ {p}
       /\ UNCHANGED <<dest, bytes, stale, tried, outcome, mishap>>
    \/ /\ At(p, "clean", "done")
       /\ outcome' = [outcome EXCEPT ![p] = "internal"] /\ mishap' = mishap \union {p}
       /\ UNCHANGED <<dest, bytes, tmp, stale, tried>>

\* Another program makes a file of that name.
OtherMakes ==
    /\ dest = "none" /\ dest' = "other"
    /\ UNCHANGED <<bytes, tmp, stale, xpc, tried, outcome, mishap>>

ExportProgram(p) ==
    \/ CheckDestination(p) \/ Render(p) \/ Reserve(p) \/ ReserveFails(p)
    \/ WriteSome(p) \/ WriteRest(p) \/ WriteFails(p) \/ Commit(p) \/ CommitFails(p)
    \/ Unlink(p) \/ Clean(p)

-----------------------------------------------------------------------------
\* A file that has the destination's name keeps it: no export replaces a file of
\* the user's, or that of an invocation that was quicker.
NeverReplaced == [][dest # "none" => dest' = dest]_exportVars

\* Whoever opens the destination reads a whole export, at any moment and whatever
\* was killed.
ExportIsWhole == dest \in Exporters => bytes[dest] = "whole"

\* An invocation that reports success has its file there and nothing else; one
\* that reports a failure left nothing, unless an unlink failed: then the export
\* may be there although it was reported as failed.
ReportIsTrue ==
    \A p \in Exporters :
      /\ outcome[p] = "ok" => dest = p /\ p \notin tmp
      /\ xpc[p] = "done" /\ outcome[p] \in {"error", "internal"} /\ p \notin mishap =>
           dest # p /\ p \notin tmp
=============================================================================
