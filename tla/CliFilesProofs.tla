--------------------------- MODULE CliFilesProofs ---------------------------
(***************************************************************************)
(* Theorems about the files of the CLI for any number of invocations and   *)
(* clearers, any legacy files and any number of names for temporary files. *)
(* The export: what each process knows of its own file, a step of one      *)
(* leaving the others' alone.  The cache root: what is Git Mog's is made   *)
(* only once the old layout is gone, and what is foreign stops everybody   *)
(* at the first look.                                                      *)
(***************************************************************************)
EXTENDS CliFiles, TLAPS

ExportPlaces == {"idle", "check", "render", "reserve", "write", "link", "unlink", "clean", "done"}
Outcomes == {"none", "ok", "error", "internal", "killed", "invalid"}

ExportTypes ==
  /\ dest \in Exporters \union {"none", "other"}
  /\ bytes \in [Exporters -> {"nothing", "some", "whole"}]
  /\ tmp \subseteq Exporters /\ mishap \subseteq Exporters
  /\ xpc \in [Exporters -> ExportPlaces]
  /\ tried \in [Exporters -> 0 .. Attempts]
  /\ outcome \in [Exporters -> Outcomes]

\* What holds of a process, its temporary file and the destination.
Export(p) ==
  /\ xpc[p] \in {"link", "unlink"} => bytes[p] = "whole"
  /\ dest = p => bytes[p] = "whole" /\ xpc[p] \in {"unlink", "clean", "done"}
  /\ xpc[p] = "unlink" => dest = p
  /\ xpc[p] \in {"idle", "check", "render", "reserve"} => p \notin tmp
  /\ xpc[p] \notin {"clean", "done"} => outcome[p] = "none"
  /\ xpc[p] = "clean" => outcome[p] = "error"
  /\ xpc[p] = "clean" /\ p \notin mishap => dest # p
  /\ outcome[p] = "ok" => dest = p /\ p \notin tmp
  /\ xpc[p] = "done" /\ outcome[p] \in {"error", "internal"} /\ p \notin mishap =>
       dest # p /\ p \notin tmp

ExportInv == ExportTypes /\ \A p \in Exporters : Export(p)

\* A step that is p's own.
Alone(p) ==
  \A q \in Exporters \ {p} :
    /\ xpc'[q] = xpc[q] /\ outcome'[q] = outcome[q] /\ bytes'[q] = bytes[q]
    /\ q \in tmp' <=> q \in tmp
    /\ q \in mishap' <=> q \in mishap
    /\ dest' = q <=> dest = q

\* The stage of an invocation is the place of its export, or before it.
Staged(p) ==
  /\ stage[p] \in {"args", "cache", "export", "out"}
  /\ stage[p] \in {"args", "cache"} <=> xpc[p] = "idle"
  /\ stage[p] = "out" <=> xpc[p] = "done"
-----------------------------------------------------------------------------
LEMMA Names == "none" \notin Exporters /\ "other" \notin Exporters /\ Exporters = Procs
  BY RootAssumption, FilesAssumption

LEMMA StepOfOne ==
  ASSUME ExportInv, NEW p \in Exporters, ExportTypes', Export(p)', Alone(p)
  PROVE  ExportInv'
  <1> SUFFICES ASSUME NEW q \in Exporters \ {p} PROVE Export(q)'
    BY DEF ExportInv
  <1>1. Export(q)
    BY DEF ExportInv
  <1> QED BY <1>1 DEF Alone, Export

LEMMA Concluded ==
  ASSUME ExportInv, NEW p \in Exporters, NEW from, NEW end \in Outcomes, Conclude(p, from, end),
         \/ end \in {"killed", "invalid"}
         \/ from \in {"check", "render", "reserve"} /\ end \in {"error", "internal"}
  PROVE  ExportInv'
  <1>1. ExportTypes /\ Export(p)
    BY DEF ExportInv
  <1>2. ExportTypes'
    BY <1>1 DEF ExportTypes, Conclude, At, ExportPlaces
  <1>3. Alone(p)
    BY <1>1 DEF Alone, Conclude, At, ExportTypes
  <1>4. xpc'[p] = "done" /\ outcome'[p] = end /\ xpc[p] = from
    BY <1>1 DEF Conclude, At, ExportTypes
  <1>5. Export(p)'
    BY <1>1, <1>4 DEF Export, Conclude
  <1> QED BY <1>2, <1>3, <1>5, StepOfOne

LEMMA ExportSteps ==
  ASSUME ExportInv, NEW p \in Exporters, ExportProgram(p)
  PROVE  ExportInv'
  <1>0. ExportTypes /\ Export(p) /\ Attempts \in Nat
    BY AttemptsAssumption DEF ExportInv
  <1>1. CASE CheckDestination(p)
    <2>1. CASE dest # "none"
      BY <1>1, <2>1, Concluded DEF CheckDestination, Outcomes
    <2>2. CASE dest = "none"
      <3>1. At(p, "check", "render") /\ UNCHANGED <<dest, bytes, tmp, stale, tried, outcome, mishap>>
        BY <1>1, <2>2 DEF CheckDestination
      <3>2. ExportTypes' /\ Alone(p) /\ Export(p)'
        BY <1>0, <3>1 DEF ExportTypes, At, ExportPlaces, Alone, Export
      <3> QED BY <3>2, StepOfOne
    <2> QED BY <2>1, <2>2
  <1>2. CASE Render(p)
    <2>1. CASE At(p, "render", "reserve") /\ UNCHANGED <<dest, bytes, tmp, stale, tried, outcome, mishap>>
      <3>1. ExportTypes' /\ Alone(p) /\ Export(p)'
        BY <1>0, <2>1 DEF ExportTypes, At, ExportPlaces, Alone, Export
      <3> QED BY <3>1, StepOfOne
    <2>2. CASE \E end \in {"internal", "error"} : Conclude(p, "render", end)
      BY <2>2, Concluded DEF Outcomes
    <2> QED BY <1>2, <2>1, <2>2 DEF Render
  <1>3. CASE Reserve(p)
    <2>1. tried'[p] \in 0 .. Attempts /\ tried' \in [Exporters -> 0 .. Attempts]
      BY <1>0, <1>3 DEF Reserve, ExportTypes
    <2>2. ExportTypes'
      BY <1>0, <1>3, <2>1 DEF Reserve, ExportTypes, ExportPlaces
    <2>3. Alone(p)
      BY <1>0, <1>3 DEF Reserve, ExportTypes, Alone
    <2>4. Export(p)'
      BY <1>0, <1>3 DEF Reserve, ExportTypes, Export
    <2> QED BY <2>2, <2>3, <2>4, StepOfOne
  <1>4. CASE ReserveFails(p)
    BY <1>4, Concluded DEF ReserveFails, Outcomes
  <1>5. CASE WriteSome(p)
    <2>1. ExportTypes' /\ Alone(p)
      BY <1>0, <1>5 DEF WriteSome, ExportTypes, Alone
    <2>2. Export(p)'
      BY <1>0, <1>5 DEF WriteSome, ExportTypes, Export
    <2> QED BY <2>1, <2>2, StepOfOne
  <1>6. CASE WriteRest(p)
    <2>1. ExportTypes' /\ Alone(p)
      BY <1>0, <1>6 DEF WriteRest, At, ExportTypes, ExportPlaces, Alone
    <2>2. Export(p)'
      BY <1>0, <1>6 DEF WriteRest, At, ExportTypes, Export
    <2> QED BY <2>1, <2>2, StepOfOne
  <1>7. CASE WriteFails(p)
    <2>1. ExportTypes' /\ Alone(p)
      BY <1>0, <1>7 DEF WriteFails, At, ExportTypes, ExportPlaces, Outcomes, Alone
    <2>2. Export(p)'
      BY <1>0, <1>7 DEF WriteFails, At, ExportTypes, Export
    <2> QED BY <2>1, <2>2, StepOfOne
  <1>8. CASE Commit(p)
    <2>1. ExportTypes'
      BY <1>0, <1>8 DEF Commit, At, ExportTypes, ExportPlaces
    <2>2. Alone(p)
      BY <1>0, <1>8, Names DEF Commit, At, ExportTypes, Alone
    <2>3. Export(p)'
      BY <1>0, <1>8 DEF Commit, At, ExportTypes, Export
    <2> QED BY <2>1, <2>2, <2>3, StepOfOne
  <1>9. CASE CommitFails(p)
    <2>1. ExportTypes' /\ Alone(p)
      BY <1>0, <1>9 DEF CommitFails, At, ExportTypes, ExportPlaces, Outcomes, Alone
    <2>2. Export(p)'
      BY <1>0, <1>9 DEF CommitFails, At, ExportTypes, Export
    <2> QED BY <2>1, <2>2, StepOfOne
  <1>10. CASE Unlink(p)
    <2>1. ExportTypes'
      BY <1>0, <1>10 DEF Unlink, At, ExportTypes, ExportPlaces, Outcomes
    <2>2. Alone(p)
      BY <1>0, <1>10 DEF Unlink, At, ExportTypes, Alone
    <2>3. Export(p)'
      BY <1>0, <1>10 DEF Unlink, At, ExportTypes, Export
    <2> QED BY <2>1, <2>2, <2>3, StepOfOne
  <1>11. CASE Clean(p)
    <2>1. ExportTypes'
      BY <1>0, <1>11 DEF Clean, At, ExportTypes, ExportPlaces, Outcomes
    <2>2. Alone(p)
      BY <1>0, <1>11 DEF Clean, At, ExportTypes, Alone
    <2>3. Export(p)'
      BY <1>0, <1>11 DEF Clean, At, ExportTypes, Export
    <2> QED BY <2>1, <2>2, <2>3, StepOfOne
  <1> QED BY <1>1, <1>2, <1>3, <1>4, <1>5, <1>6, <1>7, <1>8, <1>9, <1>10, <1>11
          DEF ExportProgram
-----------------------------------------------------------------------------
(* The cache root. *)

RootInv ==
  /\ RootTypeOK
  /\ NeverMixed
  /\ foreign => dir /\ marker = "none" /\ entries = {}
  /\ \A c \in Clearers : rpc[c] \in {"start", "clear", "done"}
  /\ \A p \in All :
       /\ rpc[p] \in {"find", "create", "write", "read", "store"} => legacy = {}
       /\ rpc[p] = "clear" => harmed
       /\ foreign => rpc[p] \in {"start", "done"}

\* What a step on the root does to the disk, whoever takes it.
RootStep(p) ==
  /\ foreign' = foreign
  /\ foreign => dir' /\ marker' = marker /\ entries' = entries /\ legacy' = legacy
  /\ marker = "whole" => marker' = "whole" \/ harmed'
  /\ entries' \subseteq entries \union {p}
  /\ maker' \in {maker, p}
  /\ \A q \in All \ {p} : rpc'[q] = rpc[q]

LEMMA RootSteps ==
  ASSUME RootInv, NEW p \in All, RootProgram(p) \/ Killed(p)
  PROVE  RootInv' /\ RootStep(p)
  <1> USE DEF RootInv, RootTypeOK, RootPlaces, NeverMixed, RootStep, Go
  <1>0. All = Procs \union Clearers /\ p \in Procs \union Clearers
    BY DEF All
  <1>r. ASSUME RefuseRoot(p), rpc[p] \notin {"done", "clear"} PROVE RootInv' /\ RootStep(p)
    BY <1>0, <1>r DEF RefuseRoot, Settle, disk
  <1>1. CASE CheckRoot(p)
    BY <1>0, <1>1, <1>r, RootAssumption DEF CheckRoot, Owned, LegacyLayout, Shape, disk
  <1>2. CASE RemoveLegacy(p)
    BY <1>0, <1>2 DEF RemoveLegacy
  <1>3. CASE RemoveLegacyRoot(p)
    BY <1>0, <1>3, <1>r, RootAssumption DEF RemoveLegacyRoot, EmptyRoot
  <1>4. CASE MakeRoot(p)
    BY <1>0, <1>4 DEF MakeRoot
  <1>5. CASE CheckShape(p)
    BY <1>0, <1>5, <1>r DEF CheckShape, Shape, disk
  <1>6. CASE FindMarker(p)
    BY <1>0, <1>6 DEF FindMarker, disk
  <1>7. CASE CreateMarker(p)
    BY <1>0, <1>7, <1>r DEF CreateMarker
  <1>8. CASE WriteMarker(p)
    BY <1>0, <1>8 DEF WriteMarker
  <1>9. CASE WriteMarkerFails(p)
    BY <1>0, <1>9 DEF WriteMarkerFails, Settle, disk
  <1>10. CASE ReadMarker(p)
    BY <1>0, <1>10 DEF ReadMarker, Settle, disk
  <1>11. CASE Store(p)
    BY <1>0, <1>11 DEF Store
  <1>12. CASE BeginClear(p)
    <2>1. UNCHANGED <<disk, result>> /\ (harmed' = TRUE \/ harmed' = harmed)
      BY <1>12 DEF BeginClear
    <2>2. \/ rpc' = [rpc EXCEPT ![p] = "done"]
          \/ ~foreign /\ harmed' = TRUE /\ rpc' = [rpc EXCEPT ![p] = "clear"]
      BY <1>12 DEF BeginClear, LegacyLayout, Shape
    <2>3. p \in Clearers /\ rpc[p] = "start"
      BY <1>12 DEF BeginClear
    <2>4. listed' \in [All -> SUBSET (LegacyFiles \union Procs \union {"marker"})]
      <3>1. PICK files \in SUBSET (LegacyFiles \union Procs \union {"marker"}) :
              listed' = listed \/ listed' = [listed EXCEPT ![p] = files]
        BY <1>12 DEF BeginClear
      <3> QED BY <1>0, <3>1
    <2>5. RootTypeOK'
      BY <1>0, <2>1, <2>2, <2>3, <2>4 DEF disk
    <2> QED BY <1>0, <2>1, <2>2, <2>3, <2>5 DEF disk
  <1>13. CASE ClearOne(p)
    BY <1>0, <1>13 DEF ClearOne
  <1>14. CASE ClearRoot(p)
    BY <1>0, <1>14 DEF ClearRoot, EmptyRoot
  <1>15. CASE Killed(p)
    BY <1>0, <1>15 DEF Killed, disk
  <1> QED BY <1>1, <1>2, <1>3, <1>4, <1>5, <1>6, <1>7, <1>8, <1>9, <1>10, <1>11, <1>12, <1>13,
             <1>14, <1>15 DEF RootProgram
-----------------------------------------------------------------------------
(* The race for the root. *)

Running == {"start", "remove", "make", "shape", "find", "create"}

\* As long as nobody was killed, failed or cleared, the race can still be won: the
\* marker is somebody's who is about to write it, to read it, or who has the
\* cache; or nobody has made one, and whoever finds the root gone is about to
\* make it.
Race ==
  /\ \A p \in All :
       /\ rpc[p] = "write" <=> marker = "empty" /\ maker = p
       /\ rpc[p] = "remove" => legacy \subseteq listed[p]
       /\ rpc[p] \in {"make", "shape"} => legacy = {}
       /\ rpc[p] = "store" \/ result[p] = "ok" => marker = "whole"
       /\ rpc[p] = "read" => marker # "none"
       /\ result[p] = "refused" => rpc[p] = "done"
  /\ entries # {} => marker = "whole"
  /\ marker = "whole" =>
       maker \in Procs /\ (result[maker] = "ok" \/ rpc[maker] = "read")
  /\ marker = "empty" => maker \in Procs
  /\ marker = "none" =>
       \E p \in Procs : rpc[p] \in IF dir THEN Running ELSE {"start", "make"}

OpenRace == ~harmed /\ ~foreign => Race

LEMMA RaceBegins == RootInit => OpenRace
  <1> SUFFICES ASSUME RootInit PROVE Race
    BY DEF OpenRace
  <1>1. PICK p \in Procs : p \in All
    BY RootAssumption DEF All
  <1>2. rpc[p] = "start"
    BY <1>1 DEF RootInit
  <1> QED BY <1>1, <1>2, RootAssumption DEF RootInit, Race, Running, All

\* A preparation is refused only to somebody who has not made the marker, and
\* only while there is one or the root is gone from under it.
LEMMA Refused ==
  ASSUME RootInv, Race, ~harmed, ~foreign, NEW p \in Procs, RefuseRoot(p),
         rpc[p] \in {"start", "remove", "make", "shape", "create"},
         marker # "none" \/ (~dir /\ rpc[p] \notin {"start", "make"})
  PROVE  Race'
  <1>0. Procs \subseteq All /\ p \in All
    BY DEF All
  <1>1. /\ UNCHANGED <<dir, marker, maker, legacy, entries, listed>>
        /\ rpc' = [rpc EXCEPT ![p] = "done"]
        /\ result' = [result EXCEPT ![p] = IF result[p] = "none" THEN "refused" ELSE @]
    BY <1>0 DEF RefuseRoot, Settle, Go, disk, RootInv, RootTypeOK
  <1>2. rpc \in [All -> RootPlaces] /\ result \in [All -> {"none", "ok", "refused"}]
    BY DEF RootInv, RootTypeOK
  <1>3. marker = "whole" => maker' \in Procs /\ (result'[maker'] = "ok" \/ rpc'[maker'] = "read")
    BY <1>0, <1>1, <1>2 DEF Race
  <1>4. marker = "none" =>
          \E q \in Procs : rpc'[q] \in IF dir THEN Running ELSE {"start", "make"}
    <2>1. CASE marker = "none"
      <3>1. PICK q \in Procs : rpc[q] \in {"start", "make"}
        BY <2>1 DEF Race
      <3> QED BY <1>0, <1>1, <1>2, <2>1, <3>1
    <2> QED BY <2>1
  <1> QED BY <1>0, <1>1, <1>2, <1>3, <1>4 DEF Race

LEMMA RaceSteps ==
  ASSUME RootInv, OpenRace, NEW p \in All, RootProgram(p) \/ Killed(p)
  PROVE  OpenRace'
  <1>0. RootInv' /\ RootStep(p) /\ All = Procs \union Clearers /\ Procs \subseteq All
    BY RootSteps DEF All
  <1> SUFFICES ASSUME ~harmed', ~foreign' PROVE Race'
    BY DEF OpenRace
  <1>h. ~harmed /\ ~foreign /\ Race
    <2>1. harmed => harmed'
      BY DEF RootProgram, CheckRoot, RefuseRoot, RemoveLegacy, RemoveLegacyRoot, MakeRoot,
             CheckShape, FindMarker, CreateMarker, WriteMarker, WriteMarkerFails, ReadMarker,
             Store, BeginClear, ClearOne, ClearRoot, Killed
    <2> QED BY <1>0, <2>1 DEF OpenRace, RootStep
  <1>t. /\ rpc \in [All -> RootPlaces] /\ result \in [All -> {"none", "ok", "refused"}]
        /\ DOMAIN listed = All
        /\ dir \in BOOLEAN /\ marker \in {"none", "empty", "whole"}
        /\ NeverMixed /\ (~dir => marker = "none" /\ legacy = {} /\ entries = {})
    BY DEF RootInv, RootTypeOK
  <1>c. p \in Clearers => p \notin Procs /\ rpc[p] \notin {"clear", "remove", "make", "shape",
                            "find", "create", "write", "read", "store"}
    BY <1>h, RootAssumption DEF RootInv
  <1> USE DEF Race, Go, Running
  <1>1. CASE CheckRoot(p)
    <2>1. p \in Procs /\ rpc[p] = "start"
      BY <1>1 DEF CheckRoot
    <2>2. CASE Owned
      <3>1. legacy = {}
        BY <1>h, <1>t, <2>2 DEF Owned, Shape, NeverMixed
      <3>2. UNCHANGED <<dir, marker, maker, legacy, entries, listed, result>>
            /\ rpc' = [rpc EXCEPT ![p] = "make"]
        BY <1>1, <2>2 DEF CheckRoot, disk
      <3> QED BY <1>0, <1>h, <1>t, <2>1, <3>1, <3>2
    <2>3. CASE ~Owned /\ LegacyLayout
      <3>1. UNCHANGED <<dir, marker, maker, legacy, entries, result>>
            /\ rpc' = [rpc EXCEPT ![p] = "remove"] /\ listed' = [listed EXCEPT ![p] = legacy]
        BY <1>1, <2>3 DEF CheckRoot, disk
      <3>2. dir /\ marker = "none" /\ \A q \in All \ {p} : listed'[q] = listed[q]
        BY <2>3, <3>1 DEF LegacyLayout
      <3> QED BY <1>0, <1>h, <1>t, <2>1, <3>1, <3>2
    <2>4. CASE ~Owned /\ ~LegacyLayout
      <3>1. RefuseRoot(p)
        BY <1>1, <2>4 DEF CheckRoot
      <3>2. marker # "none"
        BY <1>h, <1>t, <2>4 DEF Owned, Shape, LegacyLayout
      <3> QED BY <1>h, <2>1, <3>1, <3>2, Refused
    <2> QED BY <2>2, <2>3, <2>4
  <1>2. CASE RemoveLegacy(p)
    BY <1>0, <1>h, <1>t, <1>2 DEF RemoveLegacy
  <1>3. CASE RemoveLegacyRoot(p)
    <2>1. p \in Procs /\ rpc[p] = "remove" /\ legacy = {}
      BY <1>0, <1>h, <1>3 DEF RemoveLegacyRoot
    <2>2. CASE EmptyRoot
      BY <1>0, <1>h, <1>t, <1>3, <2>1, <2>2 DEF RemoveLegacyRoot, EmptyRoot
    <2>3. CASE ~EmptyRoot
      <3>1. RefuseRoot(p)
        BY <1>3, <2>3 DEF RemoveLegacyRoot
      <3>2. marker # "none" \/ ~dir
        BY <1>h, <2>1, <2>3 DEF EmptyRoot
      <3> QED BY <1>h, <2>1, <3>1, <3>2, Refused
    <2> QED BY <2>2, <2>3
  <1>4. CASE MakeRoot(p)
    BY <1>0, <1>h, <1>t, <1>c, <1>4 DEF MakeRoot
  <1>5. CASE CheckShape(p)
    <2>1. p \in Procs /\ rpc[p] = "shape" /\ legacy = {}
      BY <1>0, <1>h, <1>c, <1>5 DEF CheckShape
    <2>2. CASE Shape
      BY <1>0, <1>h, <1>t, <1>5, <2>1, <2>2 DEF CheckShape, Shape, disk
    <2>3. CASE ~Shape
      <3>1. RefuseRoot(p)
        BY <1>5, <2>3 DEF CheckShape
      <3>2. marker # "none" \/ ~dir
        BY <1>h, <2>1, <2>3 DEF Shape
      <3> QED BY <1>h, <2>1, <3>1, <3>2, Refused
    <2> QED BY <2>2, <2>3
  <1>6. CASE FindMarker(p)
    BY <1>0, <1>h, <1>t, <1>c, <1>6 DEF FindMarker, disk
  <1>7. CASE CreateMarker(p)
    <2>1. p \in Procs /\ rpc[p] = "create"
      BY <1>0, <1>c, <1>7 DEF CreateMarker
    <2>2. CASE ~dir \/ marker # "none"
      BY <1>h, <1>7, <2>1, <2>2, Refused DEF CreateMarker
    <2>3. CASE dir /\ marker = "none"
      BY <1>0, <1>h, <1>t, <1>7, <2>1, <2>3 DEF CreateMarker
    <2> QED BY <2>2, <2>3, <1>t
  <1>8. CASE WriteMarker(p)
    <2>1. p \in Procs /\ rpc[p] = "write" /\ marker = "empty" /\ maker = p
      BY <1>0, <1>h, <1>c, <1>8 DEF WriteMarker
    <2> QED BY <1>0, <1>h, <1>t, <1>8, <2>1 DEF WriteMarker
  <1>9. CASE WriteMarkerFails(p)
    BY <1>9 DEF WriteMarkerFails
  <1>10. CASE ReadMarker(p)
    <2>1. p \in Procs /\ rpc[p] = "read" /\ result[p] \in {"none", "ok"} /\ marker # "none"
      BY <1>0, <1>h, <1>c, <1>t, <1>10 DEF ReadMarker
    <2>2. UNCHANGED <<dir, marker, maker, legacy, entries, listed>>
      BY <1>10 DEF ReadMarker, disk
    <2>3. CASE marker = "whole"
      <3>1. \/ result[p] = "none" /\ result' = [result EXCEPT ![p] = "ok"]
               /\ rpc' = [rpc EXCEPT ![p] = "store"]
            \/ result[p] = "ok" /\ result' = result /\ rpc' = [rpc EXCEPT ![p] = "done"]
        BY <1>10, <2>1, <2>3 DEF ReadMarker, Settle
      <3> QED BY <1>0, <1>h, <1>t, <2>1, <2>2, <2>3, <3>1
    <2>4. CASE marker = "empty"
      <3>1. result[p] = "none" /\ result' = [result EXCEPT ![p] = "refused"]
               /\ rpc' = [rpc EXCEPT ![p] = "done"]
        BY <1>0, <1>h, <1>10, <2>1, <2>4 DEF ReadMarker, Settle
      <3> QED BY <1>0, <1>h, <1>t, <2>1, <2>2, <2>4, <3>1
    <2> QED BY <1>t, <2>1, <2>3, <2>4
  <1>11. CASE Store(p)
    <2>1. p \in Procs /\ rpc[p] = "store" /\ marker = "whole"
      BY <1>0, <1>h, <1>c, <1>11 DEF Store
    <2> QED BY <1>0, <1>h, <1>t, <1>11, <2>1 DEF Store
  <1>12. CASE BeginClear(p)
    <2>1. UNCHANGED <<dir, marker, maker, legacy, entries, listed, result>>
          /\ rpc' = [rpc EXCEPT ![p] = "done"] /\ rpc[p] = "start" /\ p \in Clearers
      BY <1>12 DEF BeginClear, disk
    <2> QED BY <1>0, <1>c, <1>h, <1>t, <2>1
  <1>13. CASE ClearOne(p) \/ ClearRoot(p)
    BY <1>h, <1>13, <1>0 DEF ClearOne, ClearRoot, RootInv
  <1>14. CASE Killed(p)
    BY <1>14 DEF Killed
  <1> QED BY <1>1, <1>2, <1>3, <1>4, <1>5, <1>6, <1>7, <1>8, <1>9, <1>10, <1>11, <1>12, <1>13,
             <1>14 DEF RootProgram
-----------------------------------------------------------------------------
(* The invocation as a whole. *)

\* What a step of an export leaves alone.
LEMMA ExportOnly ==
  ASSUME ExportTypes, NEW p \in Exporters, ExportProgram(p)
  PROVE  /\ xpc[p] # "idle" /\ xpc'[p] # "idle"
         /\ outcome'[p] # "invalid" \/ outcome'[p] = outcome[p]
         /\ \A q \in Exporters \ {p} : xpc'[q] = xpc[q] /\ outcome'[q] = outcome[q]
         /\ dest # "none" => dest' = dest
  <1> USE DEF ExportTypes, ExportPlaces, At, Conclude
  <1>1. CASE CheckDestination(p)
    BY <1>1 DEF CheckDestination
  <1>2. CASE Render(p)
    BY <1>2 DEF Render
  <1>3. CASE Reserve(p)
    BY <1>3 DEF Reserve
  <1>4. CASE ReserveFails(p)
    BY <1>4 DEF ReserveFails
  <1>5. CASE WriteSome(p) \/ WriteRest(p) \/ WriteFails(p)
    BY <1>5 DEF WriteSome, WriteRest, WriteFails
  <1>6. CASE Commit(p) \/ CommitFails(p)
    BY <1>6 DEF Commit, CommitFails
  <1>7. CASE Unlink(p) \/ Clean(p)
    BY <1>7 DEF Unlink, Clean
  <1> QED BY <1>1, <1>2, <1>3, <1>4, <1>5, <1>6, <1>7 DEF ExportProgram

\* Until its arguments are accepted, an invocation has no part in the root.
Untouched(p) ==
  stage[p] = "args" \/ outcome[p] = "invalid" =>
    rpc[p] = "start" /\ p \notin entries /\ maker # p

FilesInv ==
  /\ ExportInv /\ RootInv
  /\ stage \in [Procs -> {"args", "cache", "export", "out"}]
  /\ \A p \in Procs : Staged(p) /\ Untouched(p)

LEMMA FilesBegin == FilesInit => FilesInv
  <1> SUFFICES ASSUME FilesInit PROVE FilesInv
    OBVIOUS
  <1>0. Exporters = Procs /\ "none" \notin Exporters /\ "other" \notin Exporters
        /\ "none" \notin All /\ Procs \subseteq All /\ Attempts \in Nat
    BY Names, RootAssumption, AttemptsAssumption DEF All
  <1>1. ExportInv
    BY <1>0 DEF FilesInit, ExportInit, ExportInv, ExportTypes, ExportPlaces, Outcomes, Export
  <1>2. RootInv
    BY <1>0 DEF FilesInit, RootInit, RootInv, RootTypeOK, RootPlaces, NeverMixed, All
  <1>3. \A p \in Procs : Staged(p) /\ Untouched(p)
    BY <1>0 DEF FilesInit, ExportInit, RootInit, Staged, Untouched
  <1>4. stage \in [Procs -> {"args", "cache", "export", "out"}]
    BY DEF FilesInit
  <1> QED BY <1>1, <1>2, <1>3, <1>4 DEF FilesInv

\* What the properties of the steps follow from.
FilesStep ==
  /\ foreign => foreign' /\ dir' /\ marker' = marker /\ entries' = entries /\ legacy' = legacy
  /\ marker = "whole" => marker' = "whole" \/ harmed'
  /\ dest # "none" => dest' = dest

\* A step of an invocation on the root.
LEMMA RootWork ==
  ASSUME FilesInv, NEW p \in All, RootProgram(p) \/ Killed(p), UNCHANGED <<exportVars, stage>>,
         p \in Procs => stage[p] = "cache"
  PROVE  FilesInv' /\ FilesStep
  <1>1. RootInv' /\ RootStep(p)
    BY RootSteps DEF FilesInv
  <1>2. ExportInv'
    BY DEF FilesInv, ExportInv, ExportTypes, Export, exportVars
  <1>3. ASSUME NEW q \in Procs PROVE Staged(q)' /\ Untouched(q)'
    <2>1. Staged(q)'
      BY DEF FilesInv, Staged, exportVars
    <2>2. CASE q = p
      <3>1. xpc[q] = "idle" /\ outcome[q] = "none" /\ q \in Exporters
        BY <2>2, Names DEF FilesInv, Staged, ExportInv, Export
      <3> QED BY <2>1, <2>2, <3>1 DEF Untouched, exportVars
    <2>3. CASE q # p
      BY <1>1, <2>1, <2>3, RootAssumption DEF FilesInv, Untouched, RootStep, exportVars, All, RootInv, RootTypeOK
    <2> QED BY <2>2, <2>3
  <1>4. FilesStep
    BY <1>1 DEF FilesStep, RootStep, exportVars
  <1> QED BY <1>1, <1>2, <1>3, <1>4 DEF FilesInv

\* A step of an invocation that leaves the root alone.
LEMMA ExportStage ==
  ASSUME FilesInv, NEW p \in Procs, UNCHANGED rootVars, ExportInv',
         \A q \in Procs \ {p} : xpc'[q] = xpc[q] /\ outcome'[q] = outcome[q],
         NEW to \in {"cache", "export", "out"}, stage' = [stage EXCEPT ![p] = to],
         to = "cache" <=> xpc'[p] = "idle", to = "out" <=> xpc'[p] = "done",
         outcome'[p] = "invalid" => stage[p] = "args" \/ outcome[p] = "invalid",
         dest # "none" => dest' = dest
  PROVE  FilesInv' /\ FilesStep
  <1>1. RootInv'
    BY DEF FilesInv, RootInv, RootTypeOK, NeverMixed, rootVars
  <1>2. stage' \in [Procs -> {"args", "cache", "export", "out"}]
    BY DEF FilesInv
  <1>3. ASSUME NEW q \in Procs PROVE Staged(q)' /\ Untouched(q)'
    <2>1. CASE q = p
      BY <2>1 DEF FilesInv, Staged, Untouched, rootVars
    <2>2. CASE q # p
      BY <2>2 DEF FilesInv, Staged, Untouched, rootVars
    <2> QED BY <2>1, <2>2
  <1>4. FilesStep
    BY DEF FilesStep, rootVars, FilesInv, RootInv
  <1> QED BY <1>1, <1>2, <1>3, <1>4 DEF FilesInv

LEMMA FilesSteps ==
  ASSUME FilesInv, [FilesNext]_filesVars
  PROVE  FilesInv' /\ FilesStep
  <1>0. Exporters = Procs /\ Procs \subseteq All /\ ExportInv /\ ExportTypes /\ RootInv
    BY Names DEF All, FilesInv, ExportInv
  <1>1. ASSUME NEW p \in Procs, Arguments(p) PROVE FilesInv' /\ FilesStep
    <2>1. CASE dest # "none"
      <3>1. Conclude(p, "idle", "invalid") /\ stage' = [stage EXCEPT ![p] = "out"]
            /\ UNCHANGED rootVars /\ stage[p] = "args"
        BY <1>1, <2>1 DEF Arguments
      <3>2. ExportInv'
        BY <1>0, <3>1, Concluded DEF Outcomes
      <3>3. xpc'[p] = "done" /\ dest' = dest
            /\ \A q \in Procs \ {p} : xpc'[q] = xpc[q] /\ outcome'[q] = outcome[q]
        BY <1>0, <3>1 DEF Conclude, At, ExportTypes
      <3> QED BY <3>1, <3>2, <3>3, ExportStage
    <2>2. CASE dest = "none"
      <3>1. UNCHANGED exportVars /\ stage' = [stage EXCEPT ![p] = "cache"]
            /\ UNCHANGED rootVars /\ stage[p] = "args"
        BY <1>1, <2>2 DEF Arguments
      <3>2. ExportInv'
        BY <1>0, <3>1 DEF ExportInv, ExportTypes, Export, exportVars
      <3>3. xpc' = xpc /\ outcome' = outcome /\ dest' = dest /\ xpc[p] = "idle"
        BY <3>1 DEF exportVars, FilesInv, Staged
      <3> QED BY <3>1, <3>2, <3>3, ExportStage
    <2> QED BY <2>1, <2>2
  <1>2. ASSUME NEW p \in Procs, CacheWork(p) PROVE FilesInv' /\ FilesStep
    BY <1>0, <1>2, RootWork DEF CacheWork
  <1>3. ASSUME NEW p \in Procs, BeginExport(p) PROVE FilesInv' /\ FilesStep
    <2>1. At(p, "idle", "check") /\ UNCHANGED <<dest, bytes, tmp, stale, tried, outcome, mishap>>
          /\ stage' = [stage EXCEPT ![p] = "export"] /\ UNCHANGED rootVars
      BY <1>3 DEF BeginExport
    <2>2. Export(p) /\ p \in Exporters
      BY <1>0 DEF ExportInv
    <2>3. ExportTypes' /\ Export(p)' /\ Alone(p)
      BY <1>0, <2>1, <2>2 DEF ExportTypes, ExportPlaces, At, Export, Alone
    <2>4. ExportInv'
      BY <1>0, <2>3, StepOfOne
    <2>5. xpc'[p] = "check" /\ outcome' = outcome /\ dest' = dest
          /\ \A q \in Procs \ {p} : xpc'[q] = xpc[q]
      BY <1>0, <2>1 DEF At, ExportTypes
    <2> QED BY <2>1, <2>4, <2>5, ExportStage
  <1>4. ASSUME NEW p \in Procs, ExportWork(p) PROVE FilesInv' /\ FilesStep
    <2>1. ExportInv'
      BY <1>0, <1>4, ExportSteps DEF ExportWork
    <2>2. /\ xpc'[p] # "idle"
          /\ outcome'[p] # "invalid" \/ outcome'[p] = outcome[p]
          /\ \A q \in Procs \ {p} : xpc'[q] = xpc[q] /\ outcome'[q] = outcome[q]
          /\ dest # "none" => dest' = dest
      BY <1>0, <1>4, ExportOnly DEF ExportWork
    <2>3. UNCHANGED rootVars
          /\ stage' = [stage EXCEPT ![p] = IF xpc'[p] = "done" THEN "out" ELSE "export"]
      BY <1>4 DEF ExportWork
    <2>4. CASE xpc'[p] = "done"
      BY <2>1, <2>2, <2>3, <2>4, ExportStage
    <2>5. CASE xpc'[p] # "done"
      BY <2>1, <2>2, <2>3, <2>5, ExportStage
    <2> QED BY <2>4, <2>5
  <1>5. ASSUME NEW p \in Procs, Kill(p) PROVE FilesInv' /\ FilesStep
    <2>1. CASE stage[p] = "cache" /\ Killed(p) /\ Conclude(p, "idle", "killed")
      <3>1. ExportInv'
        BY <1>0, <2>1, Concluded DEF Outcomes
      <3>2. RootInv' /\ RootStep(p)
        BY <1>0, <2>1, RootSteps
      <3>3. xpc'[p] = "done" /\ outcome'[p] = "killed" /\ dest' = dest
            /\ \A q \in Procs \ {p} : xpc'[q] = xpc[q] /\ outcome'[q] = outcome[q]
        BY <1>0, <2>1 DEF Conclude, At, ExportTypes
      <3>4. stage' = [stage EXCEPT ![p] = "out"]
            /\ stage' \in [Procs -> {"args", "cache", "export", "out"}]
        BY <1>5 DEF Kill, FilesInv
      <3>5. ASSUME NEW q \in Procs PROVE Staged(q)' /\ Untouched(q)'
        <4>1. CASE q = p
          BY <3>3, <3>4, <4>1 DEF FilesInv, Staged, Untouched
        <4>2. CASE q # p
          BY <1>0, <3>2, <3>3, <3>4, <4>2, RootAssumption
             DEF FilesInv, Staged, Untouched, RootStep
        <4> QED BY <4>1, <4>2
      <3> QED BY <3>1, <3>2, <3>3, <3>4, <3>5 DEF FilesInv, FilesStep, RootStep
    <2>2. CASE stage[p] = "export" /\ Conclude(p, xpc[p], "killed") /\ UNCHANGED rootVars
      <3>1. ExportInv'
        BY <1>0, <2>2, Concluded DEF Outcomes
      <3>2. xpc'[p] = "done" /\ outcome'[p] = "killed" /\ dest' = dest
            /\ \A q \in Procs \ {p} : xpc'[q] = xpc[q] /\ outcome'[q] = outcome[q]
        BY <1>0, <2>2 DEF Conclude, At, ExportTypes
      <3> QED BY <1>5, <2>2, <3>1, <3>2, ExportStage DEF Kill
    <2> QED BY <1>5, <2>1, <2>2 DEF Kill
  <1>6. ASSUME NEW c \in Clearers, ClearWork(c) PROVE FilesInv' /\ FilesStep
    BY <1>6, RootWork, RootAssumption DEF ClearWork, All
  <1>7. CASE OtherMakes /\ UNCHANGED <<rootVars, stage>>
    <2>1. ExportInv'
      BY <1>0, <1>7, Names DEF OtherMakes, ExportInv, ExportTypes, Export
    <2> QED BY <1>7, <2>1 DEF FilesInv, FilesStep, OtherMakes, RootInv, RootTypeOK, NeverMixed,
                              rootVars, Staged, Untouched
  <1>8. CASE UNCHANGED filesVars
    <2>1. ExportInv'
      BY <1>0, <1>8 DEF filesVars, exportVars, ExportInv, ExportTypes, Export
    <2> QED BY <1>8, <2>1 DEF FilesInv, FilesStep, RootInv, RootTypeOK, NeverMixed,
                              filesVars, rootVars, exportVars, Staged, Untouched
  <1> QED BY <1>1, <1>2, <1>3, <1>4, <1>5, <1>6, <1>7, <1>8 DEF FilesNext, Invocation
-----------------------------------------------------------------------------
(* The theorems. *)

\* The inductive invariant of all the files, which the theorems below read.
THEOREM FilesInvariant == FilesSpec => []FilesInv
  <1>1. FilesInit => FilesInv
    BY FilesBegin
  <1>2. FilesInv /\ [FilesNext]_filesVars => FilesInv'
    BY FilesSteps
  <1> QED BY <1>1, <1>2, PTL DEF FilesSpec

\* Whoever opens the destination reads a whole export (commitExclusive links a
\* file that has been written, synced and closed).
THEOREM WholeExports == FilesSpec => []ExportIsWhole
  <1>1. FilesInv => ExportIsWhole
    BY DEF FilesInv, ExportInv, Export, ExportIsWhole
  <1> QED BY <1>1, FilesInvariant, PTL

\* The export says what it did (writeBattleExport), unless an unlink failed.
THEOREM TrueReports == FilesSpec => []ReportIsTrue
  <1>1. FilesInv => ReportIsTrue
    BY DEF FilesInv, ExportInv, Export, ReportIsTrue
  <1> QED BY <1>1, FilesInvariant, PTL

\* Nobody's file of the destination's name is ever replaced.
THEOREM NothingIsReplaced == FilesSpec => NeverReplaced
  <1>1. FilesInv /\ [FilesNext]_filesVars => [dest # "none" => dest' = dest]_exportVars
    BY FilesSteps DEF FilesStep
  <1> QED BY <1>1, FilesInvariant, PTL DEF FilesSpec, NeverReplaced

\* The layouts of two versions are never mixed (prepareCacheRoot).
THEOREM LayoutsApart == FilesSpec => []NeverMixed
  <1>1. FilesInv => NeverMixed
    BY DEF FilesInv, RootInv
  <1> QED BY <1>1, FilesInvariant, PTL

\* A marker, once whole, is lost only to a kill, a failure or a clear.
THEOREM MarkersLast == FilesSpec => OnceWhole
  <1>1. FilesInv /\ [FilesNext]_filesVars
          => [marker = "whole" => marker' = "whole" \/ harmed']_rootVars
    BY FilesSteps DEF FilesStep
  <1> QED BY <1>1, FilesInvariant, PTL DEF FilesSpec, OnceWhole

\* What is not Git Mog's is neither removed nor marked nor added to.
THEOREM ForeignIsSafe == FilesSpec => ForeignUntouched
  <1>1. FilesInv /\ [FilesNext]_filesVars
          => [foreign => foreign' /\ dir' /\ marker' = marker /\ entries' = entries
                         /\ legacy' = legacy]_rootVars
    BY FilesSteps DEF FilesStep
  <1> QED BY <1>1, FilesInvariant, PTL DEF FilesSpec, ForeignUntouched

\* An invocation with a bad destination has not touched the disk.
THEOREM RefusalsAreClean == FilesSpec => []RefusedTouchesNothing
  <1>1. FilesInv => RefusedTouchesNothing
    BY DEF FilesInv, Untouched, RefusedTouchesNothing
  <1> QED BY <1>1, FilesInvariant, PTL

\* Whoever races for the root, one gets it (prepareCacheRoot): unless a process was
\* killed, failed or cleared, not everybody is refused.
THEOREM RaceIsWon == FilesSpec => []RaceHasAWinner
  <1>1. FilesInit => OpenRace
    BY RaceBegins DEF FilesInit
  <1>2. FilesInv /\ OpenRace /\ [FilesNext]_filesVars => OpenRace'
    <2> SUFFICES ASSUME FilesInv, OpenRace, [FilesNext]_filesVars PROVE OpenRace'
      OBVIOUS
    <2>1. CASE UNCHANGED rootVars
      BY <2>1 DEF OpenRace, Race, Running, rootVars
    <2>2. ASSUME NEW p \in All, RootProgram(p) \/ Killed(p) PROVE OpenRace'
      BY <2>2, RaceSteps DEF FilesInv
    <2> QED BY <2>1, <2>2 DEF FilesNext, Invocation, Arguments, CacheWork, BeginExport,
                 ExportWork, Kill, ClearWork, filesVars, All
  <1>3. FilesInv /\ OpenRace => RaceHasAWinner
    <2> SUFFICES ASSUME FilesInv, Race, \A p \in Procs : rpc[p] = "done"
                 PROVE  \E p \in Procs : result[p] = "ok"
      BY DEF OpenRace, RaceHasAWinner
    <2>1. marker \in {"none", "empty", "whole"} /\ Procs \subseteq All
      BY DEF FilesInv, RootInv, RootTypeOK, All
    <2> QED BY <2>1 DEF Race, Running
  <1> QED BY <1>1, <1>2, <1>3, FilesInvariant, PTL DEF FilesSpec
=============================================================================
