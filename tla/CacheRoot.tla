----------------------------- MODULE CacheRoot ------------------------------
(***************************************************************************)
(* The ownership of the cache root (cli/cache-control.ts): a directory is   *)
(* used only if it is absent, empty, marked as Git Mog's, or shaped like    *)
(* it; a cache of an older version is removed first; the marker is created  *)
(* exclusively; --clear-cache removes everything it listed. No lock guards   *)
(* any of it, so each system call is a step and any process may run, fail    *)
(* or be killed between two of them.                                        *)
(***************************************************************************)
EXTENDS Integers, FiniteSets

CONSTANTS
    Procs,       \* processes that store an entry
    Clearers,    \* processes that run --clear-cache
    LegacyFiles  \* what an older version may have left

\* Something runs; a process either analyses or clears, and no name stands for two
\* things.
ASSUME RootAssumption ==
    /\ Procs # {}
    /\ Procs \cap Clearers = {}
    /\ "none" \notin Procs \union Clearers
    /\ "marker" \notin Procs \union LegacyFiles

VARIABLES
    dir,      \* does the root exist?
    marker,   \* ".gitmog-cache": "none", "empty" or "whole"
    maker,    \* the process whose open file the marker is
    legacy,   \* files of an older cache
    entries,  \* processes whose entry is stored
    foreign,  \* is there something that is not Git Mog's?
    rpc,      \* where each process is
    listed,   \* what it has listed for removal
    result,   \* of its first preparation: "none", "ok" or "refused"
    harmed    \* history: has a process been killed, a call failed or a clear begun?

rootVars == <<dir, marker, maker, legacy, entries, foreign, rpc, listed, result, harmed>>
disk == <<dir, marker, maker, legacy, entries, foreign>>

All == Procs \union Clearers

\* Mutant: anything may lie beside a valid marker or without one.
ShapeAnything == dir /\ marker # "empty"

\* expectedRootShape: nothing but a valid marker and the known directories.
Shape == dir /\ marker # "empty" /\ legacy = {} /\ ~foreign

\* cacheRootOwned
Owned == ~dir \/ IF marker # "none" THEN marker = "whole" ELSE Shape

\* legacyCacheLayout: nothing but files of an older version.
LegacyLayout == dir /\ legacy # {} /\ marker = "none" /\ entries = {} /\ ~foreign

EmptyRoot == dir /\ marker = "none" /\ legacy = {} /\ entries = {} /\ ~foreign

RootInit ==
    /\ marker = "none" /\ entries = {} /\ maker = "none"
    /\ \/ dir = FALSE /\ legacy = {} /\ foreign = FALSE
       \/ dir = TRUE /\ legacy \in {{}, LegacyFiles} /\ foreign \in BOOLEAN
    /\ rpc = [p \in All |-> "start"]
    /\ listed = [p \in All |-> {}]
    /\ result = [p \in All |-> "none"]
    /\ harmed = FALSE

Go(p, to) == rpc' = [rpc EXCEPT ![p] = to]

\* A preparation ends; the first one decides whether the process has a cache.
Settle(p, verdict) ==
    IF result[p] = "none"
    THEN /\ result' = [result EXCEPT ![p] = verdict]
         /\ Go(p, IF verdict = "ok" THEN "store" ELSE "done")
    ELSE Go(p, "done") /\ UNCHANGED result

RefuseRoot(p) == Settle(p, "refused") /\ UNCHANGED <<disk, listed, harmed>>

-----------------------------------------------------------------------------
(* prepareCacheRoot *)

CheckRoot(p) ==
    /\ p \in Procs /\ rpc[p] = "start"
    /\ IF Owned
       THEN Go(p, "make") /\ UNCHANGED <<disk, listed, result, harmed>>
       ELSE IF LegacyLayout
            THEN /\ Go(p, "remove") /\ listed' = [listed EXCEPT ![p] = legacy]
                 /\ UNCHANGED <<disk, result, harmed>>
            ELSE RefuseRoot(p)

\* rmSync with force: a file that is gone is no error.
RemoveLegacy(p) ==
    /\ rpc[p] = "remove" /\ p \in Procs
    /\ \E f \in listed[p] :
         /\ legacy' = legacy \ {f}
         /\ listed' = [listed EXCEPT ![p] = @ \ {f}]
    /\ UNCHANGED <<dir, marker, maker, entries, foreign, rpc, result, harmed>>

\* rmdirSync removes the root only if it is empty.
RemoveLegacyRoot(p) ==
    /\ rpc[p] = "remove" /\ listed[p] = {} /\ p \in Procs
    /\ IF EmptyRoot
       THEN /\ dir' = FALSE /\ Go(p, "make")
            /\ UNCHANGED <<marker, maker, legacy, entries, foreign, listed, result, harmed>>
       ELSE RefuseRoot(p)

\* Mutant: without "recursive", a root that is there is an error.
MakeRootNew(p) ==
    /\ rpc[p] = "make"
    /\ IF dir THEN RefuseRoot(p)
       ELSE /\ dir' = TRUE /\ Go(p, "shape")
            /\ UNCHANGED <<marker, maker, legacy, entries, foreign, listed, result, harmed>>

MakeRoot(p) ==
    /\ rpc[p] = "make"
    /\ dir' = TRUE /\ Go(p, "shape")
    /\ UNCHANGED <<marker, maker, legacy, entries, foreign, listed, result, harmed>>

CheckShape(p) ==
    /\ rpc[p] = "shape"
    /\ IF Shape THEN Go(p, "find") /\ UNCHANGED <<disk, listed, result, harmed>>
       ELSE RefuseRoot(p)

FindMarker(p) ==
    /\ rpc[p] = "find"
    /\ Go(p, IF marker = "none" THEN "create" ELSE "read")
    /\ UNCHANGED <<disk, listed, result, harmed>>

\* writeFileSync with "wx" creates the file before it writes it.
CreateMarker(p) ==
    /\ rpc[p] = "create"
    /\ IF ~dir \/ marker # "none" THEN RefuseRoot(p)
       ELSE /\ marker' = "empty" /\ maker' = p /\ Go(p, "write")
            /\ UNCHANGED <<dir, legacy, entries, foreign, listed, result, harmed>>

\* The write goes to the file that was opened, also if it has been removed.
WriteMarker(p) ==
    /\ rpc[p] = "write"
    /\ marker' = IF maker = p /\ marker = "empty" THEN "whole" ELSE marker
    /\ Go(p, "read")
    /\ UNCHANGED <<dir, maker, legacy, entries, foreign, listed, result, harmed>>

WriteMarkerFails(p) ==
    /\ rpc[p] = "write"
    /\ Settle(p, "refused") /\ harmed' = TRUE
    /\ UNCHANGED <<disk, listed>>

ReadMarker(p) ==
    /\ rpc[p] = "read"
    /\ Settle(p, IF marker = "whole" THEN "ok" ELSE "refused")
    /\ UNCHANGED <<disk, listed, harmed>>

\* The set of a cache makes its directory, and with it a root that was cleared;
\* afterCacheWrite prepares the root again.
Store(p) ==
    /\ rpc[p] = "store"
    /\ dir' = TRUE /\ entries' = entries \union {p}
    /\ Go(p, "start")
    /\ UNCHANGED <<marker, maker, legacy, foreign, listed, result, harmed>>

-----------------------------------------------------------------------------
(* clearCache *)

BeginClear(p) ==
    /\ p \in Clearers /\ rpc[p] = "start"
    /\ IF dir /\ ((Owned /\ Shape) \/ LegacyLayout)
       THEN /\ Go(p, "clear") /\ harmed' = TRUE
            /\ listed' = [listed EXCEPT ![p] =
                 entries \union legacy \union (IF marker = "none" THEN {} ELSE {"marker"})]
       ELSE Go(p, "done") /\ UNCHANGED <<listed, harmed>>
    /\ UNCHANGED <<disk, result>>

ClearOne(p) ==
    /\ rpc[p] = "clear"
    /\ \E f \in listed[p] :
         /\ listed' = [listed EXCEPT ![p] = @ \ {f}]
         /\ marker' = IF f = "marker" THEN "none" ELSE marker
         /\ entries' = entries \ {f} /\ legacy' = legacy \ {f}
    /\ UNCHANGED <<dir, maker, foreign, rpc, result, harmed>>

\* The root goes if nothing has come into it since.
ClearRoot(p) ==
    /\ rpc[p] = "clear" /\ listed[p] = {}
    /\ dir' = (dir /\ ~EmptyRoot)
    /\ Go(p, "done")
    /\ UNCHANGED <<marker, maker, legacy, entries, foreign, listed, result, harmed>>

-----------------------------------------------------------------------------
Killed(p) ==
    /\ rpc[p] \notin {"start", "done"}
    /\ Go(p, "done") /\ harmed' = TRUE
    /\ UNCHANGED <<disk, listed, result>>

RootProgram(p) ==
    \/ CheckRoot(p) \/ RemoveLegacy(p) \/ RemoveLegacyRoot(p) \/ MakeRoot(p)
    \/ CheckShape(p) \/ FindMarker(p) \/ CreateMarker(p) \/ WriteMarker(p)
    \/ WriteMarkerFails(p) \/ ReadMarker(p) \/ Store(p)
    \/ BeginClear(p) \/ ClearOne(p) \/ ClearRoot(p)

-----------------------------------------------------------------------------
RootPlaces == {"start", "remove", "make", "shape", "find", "create", "write", "read",
               "store", "clear", "done"}

RootTypeOK ==
    /\ dir \in BOOLEAN /\ foreign \in BOOLEAN /\ harmed \in BOOLEAN
    /\ marker \in {"none", "empty", "whole"} /\ maker \in All \union {"none"}
    /\ legacy \subseteq LegacyFiles /\ entries \subseteq Procs
    /\ rpc \in [All -> RootPlaces]
    /\ listed \in [All -> SUBSET (LegacyFiles \union Procs \union {"marker"})]
    /\ result \in [All -> {"none", "ok", "refused"}]
    /\ ~dir => marker = "none" /\ legacy = {} /\ entries = {} /\ ~foreign

\* What is not Git Mog's is never removed, marked or written into.
ForeignUntouched ==
    [][foreign => foreign' /\ dir' /\ marker' = marker /\ entries' = entries
                  /\ legacy' = legacy]_rootVars

\* The old layout and the new one are never mixed, whoever removes the old one
\* while others make the new one: a mixture would be refused for ever.
NeverMixed == marker # "none" \/ entries # {} => legacy = {}

\* However processes that find no marker, or an old cache, race for the root, one
\* of them gets it, unless one was killed, failed or cleared.
RaceHasAWinner ==
    ~harmed /\ ~foreign /\ (\A p \in Procs : rpc[p] = "done") =>
        \E p \in Procs : result[p] = "ok"

\* A marker that is whole stays so, however many processes create it at once: it
\* is torn or lost only after a kill, a failure or a clear.
OnceWhole == [][marker = "whole" => marker' = "whole" \/ harmed']_rootVars
=============================================================================
