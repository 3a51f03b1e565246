----------------------------- MODULE Invocation -----------------------------
(***************************************************************************)
(* Whole invocations of the CLI over the caches they share: the preflight   *)
(* (module Preflight, its probes now looked up in real caches), the         *)
(* question about private repositories, the collection of one or two        *)
(* profiles, the code reading, the quality preview, private context, export *)
(* and the exit code (cli/cli.ts run, cli/preflight.ts cacheStateFor,       *)
(* battle/run.ts, personality/judge.ts readCodeDna).                        *)
(*                                                                          *)
(* Collection, sampling and the private run have modules of their own; here *)
(* each is one action per profile that says what it spends, shows and       *)
(* stores. Other processes may evict an entry at any time.                  *)
(***************************************************************************)
EXTENDS Preflight

CONSTANTS
    Handles,    \* the accounts
    Need,       \* requests of a complete collection of each
    Files,      \* source files worth sampling of each
    Empty,      \* accounts without public repositories and activity
    Lines,      \* bound: the command lines considered
    MaxRuns,    \* bound: invocations, one after another
    Editions    \* bound: contents that pushes and failing requests make of an account

VARIABLES
    root,       \* the cache root: "absent", "present" or "unusable"
    snapshots,  \* cache entries, at most one per account
    readings,   \* cache entries of code readings
    qualities,  \* cache entries of quality results
    line,       \* the command line
    private,    \* privateContextRequested
    stage, run,
    done,       \* the profiles that have finished the stage
    got,        \* the snapshot of each profile
    sent,       \* requests of each profile: [metadata, source, quality]
    shown,      \* what each profile is shown: [files, allowance]
    aside,      \* requests outside the plan: who signed in?
    vanished,   \* history: has an entry vanished since the invocation began?
    outcome     \* what the invocation leaves: [exit, public, private, declined, exported]

caches == <<root, snapshots, readings, qualities>>
work == <<done, got, sent, shown, aside, vanished>>
iVars == <<vars, caches, line, private, stage, run, work, outcome>>

None == [of |-> "none"]
Sides == DOMAIN line.who
Larger(a, b) == IF a >= b THEN a ELSE b

-----------------------------------------------------------------------------
(* Command lines that pass the checks of run. *)

CommandLine ==
    [who : Seq(Handles), opts : Options, private : BOOLEAN, publicOnly : BOOLEAN,
     mode : {"normal", "refresh", "no-cache"}, output : {"text", "json", "export"}]

Valid(l) ==
    /\ l \in CommandLine
    /\ Len(l.who) \in {1, 2} /\ (Len(l.who) = 2 => l.who[1] # l.who[2])
    /\ l.output = "export" => Len(l.who) = 2
    /\ l.output = "json" => ~l.opts.canAsk /\ ~l.opts.signIn
    /\ l.private => ~l.publicOnly /\ (l.opts.canAsk \/ l.output = "json")
    /\ l.opts.anonymous => l.publicOnly

ASSUME InvocationAssumption ==
    /\ Need \in [Handles -> Nat \ {0}] /\ Files \in [Handles -> Nat]
    /\ Empty \subseteq Handles
    /\ \A l \in Lines : Valid(l)

MayOffer(l) == ~l.publicOnly /\ l.opts.canAsk
Defers(l) == root = "absent" /\ (l.private \/ MayOffer(l))
Prepared(l) == IF root = "absent" /\ l.mode # "no-cache" THEN "present" ELSE root

Reads == line.mode = "normal"

\* Mutant: the answer to the offer does not reach the cache policy.
WritesUnlessAsked == root = "present" /\ line.mode # "no-cache" /\ ~line.private

\* cachePolicy.write, and a root to write to.
Writes == root = "present" /\ line.mode # "no-cache" /\ ~private

-----------------------------------------------------------------------------
(* The keys of the caches. *)

\* digest(evidence): everything of a snapshot but the budget it was given.
KeyOf(s) == [of |-> s.of, edition |-> s.edition, used |-> s.used]

\* Mutant: readings of one snapshot share a key, whatever their allowance.
ReadingKeyOfSnapshot(s, allowance) == <<KeyOf(s), 0>>

ReadingKey(s, allowance) == <<KeyOf(s), allowance>>

QualityKey(s, cap) == <<KeyOf(s), cap.source, cap.attribution>>

\* What is left of the budget the snapshot was collected with.
LeftOf(s) == Larger(0, s.max - s.used)

Unknown == [snapshotHit |-> FALSE, analysisHit |-> FALSE, qualityHit |-> FALSE,
            sourceMax |-> MaxSource, supported |-> "unknown", eligible |-> "unknown",
            reason |-> "none"]

\* cacheStateFor
ProbeOf(h) ==
    LET s == snapshots[h]
        tier == IF SignedIn THEN [source |-> QualitySource, attribution |-> QualityAttribution]
                ELSE [source |-> QualityMinimum, attribution |-> 0]
    IN  IF ~Reads \/ s = None THEN Unknown
        ELSE [snapshotHit |-> TRUE,
              analysisHit |-> \E r \in readings : r.key = ReadingKey(s, LeftOf(s)),
              qualityHit |-> QualityKey(s, tier) \in qualities,
              sourceMax |-> Lower(MaxSource, LeftOf(s)),
              supported |-> IF Files[h] > 0 THEN "yes" ELSE "no",
              eligible |-> IF Files[h] > 0 THEN "yes" ELSE "no",
              reason |-> "none"]

Found == [i \in Sides |-> ProbeOf(line.who[i])]

-----------------------------------------------------------------------------
\* The result of a failure; also, but for the exit code, of a run that has begun.
Nothing == [exit |-> 1, public |-> FALSE, private |-> FALSE, declined |-> FALSE,
            exported |-> FALSE]

InvocationInit ==
    /\ Init
    /\ root \in {"absent", "present", "unusable"}
    /\ snapshots = [h \in Handles |-> None] /\ readings = {} /\ qualities = {}
    /\ line \in Lines /\ opts = line.opts /\ private = line.private
    /\ stage = "idle" /\ run = 0
    /\ done = {} /\ got = <<>> /\ sent = <<>> /\ shown = <<>>
    /\ aside = 0 /\ vanished = FALSE
    /\ outcome = [Nothing EXCEPT !.exit = 0]

\* The argument checks and the caches of the next invocation.
Invoke ==
    /\ stage \in {"idle", "ended"} /\ run < MaxRuns
    /\ run' = run + 1 /\ stage' = "preflight"
    /\ line' \in Lines
    /\ opts' = line'.opts /\ private' = line'.private
    /\ pc' = "start" /\ after' = "gate"
    /\ token' = IF opts'.explicit THEN "explicit" ELSE "none"
    /\ probes' = <<>> /\ plan' = <<>>
    /\ qualityOn' = (opts'.quality # "off")
    /\ consented' = FALSE /\ asked' = 0 /\ signIns' = 0
    /\ root' = IF Defers(line') THEN root ELSE Prepared(line')
    /\ done' = {} /\ aside' = 0 /\ vanished' = FALSE
    /\ got' = [i \in DOMAIN line'.who |-> None]
    /\ sent' = [i \in DOMAIN line'.who |-> [metadata |-> 0, source |-> 0, quality |-> 0]]
    /\ shown' = [i \in DOMAIN line'.who |-> [files |-> 0, allowance |-> 0]]
    /\ outcome' = [Nothing EXCEPT !.exit = 0]
    /\ UNCHANGED <<snapshots, readings, qualities>>

\* One step of the preflight; a probe finds what the caches hold.
Preflighting ==
    /\ stage = "preflight" /\ pc \notin {"collect", "refused"}
    /\ IF pc = "plan" THEN probes' = Found ELSE TRUE
    /\ Next
    /\ UNCHANGED <<caches, line, private, stage, run, work, outcome>>

\* The process leaves a result and the caches; its memory is gone.
Leave(result) ==
    /\ stage' = "ended" /\ outcome' = result
    /\ probes' = <<>> /\ plan' = <<>> /\ token' = "none" /\ asked' = 0 /\ signIns' = 0
    /\ consented' = FALSE /\ qualityOn' = FALSE /\ pc' = "start" /\ after' = "gate"
    /\ done' = {} /\ got' = <<>> /\ sent' = <<>> /\ shown' = <<>> /\ aside' = 0
    /\ vanished' = FALSE
    /\ UNCHANGED <<opts, readings, qualities, snapshots, line, run>>

Refused ==
    /\ stage = "preflight" /\ pc = "refused"
    /\ Leave(Nothing)
    /\ UNCHANGED <<root, private>>

\* canOfferSecondaryPrivateContext, after a sign-in in this invocation
Offers == token = "device" /\ MayOffer(line) /\ ~private

\* After a sign-in GitHub is asked for the login (authenticatedPublicLogin), a
\* request the plan does not know; to the owner of a handle private repositories
\* are offered. Then a deferred cache root is made, unless they were chosen.
Begin ==
    /\ stage = "preflight" /\ pc = "collect"
    /\ \/ /\ private' \in {private} \union (IF Offers THEN {TRUE} ELSE {})
          /\ aside' = IF Offers THEN 1 ELSE 0
          /\ root' = IF private' THEN root ELSE Prepared(line)
          /\ stage' = "collect"
          /\ UNCHANGED <<vars, snapshots, readings, qualities, line, run, done, got, sent,
                         shown, vanished, outcome>>
       \/ Offers /\ Leave(Nothing) /\ UNCHANGED <<private, root>>   \* cancelled

-----------------------------------------------------------------------------
(* battle/run.ts: the profiles go through the stages side by side; a stage   *)
(* ends when both have finished it.                                          *)

Cap(i) == plan.caps[i]

Collect(i) ==
    LET h == line.who[i] IN
    /\ stage = "collect" /\ i \notin done
    /\ done' = done \union {i}
    /\ IF Reads /\ snapshots[h] # None
       THEN got' = [got EXCEPT ![i] = snapshots[h]] /\ UNCHANGED <<sent, snapshots>>
       ELSE \/ /\ Cap(i) > 0   \* collected, with what the cap allows
               /\ \E edition \in Editions :
                    LET used == Lower(Need[h], Cap(i))
                        s == [of |-> h, edition |-> edition, used |-> used, max |-> Cap(i)]
                    IN  /\ got' = [got EXCEPT ![i] = s]
                        /\ sent' = [sent EXCEPT ![i].metadata = used]
                        /\ snapshots' = IF Writes THEN [snapshots EXCEPT ![h] = s]
                                        ELSE snapshots
            \/ /\ sent' = [sent EXCEPT ![i].metadata = Lower(1, Cap(i))]
               /\ UNCHANGED <<got, snapshots>>   \* no profile
    /\ UNCHANGED <<vars, root, readings, qualities, line, private, stage, run,
                   shown, aside, vanished, outcome>>

\* Mutant: a side that failed is waited for.
CollectedTogether ==
    /\ stage = "collect" /\ done = Sides /\ \A i \in Sides : got[i] # None
    /\ stage' = "read" /\ done' = {}
    /\ UNCHANGED <<vars, caches, line, private, run, got, sent, shown, aside,
                   vanished, outcome>>

\* The error of the left profile, then that of the right, then the lack of
\* evidence ends the invocation; a snapshot that was collected is kept.
Collected ==
    /\ stage = "collect" /\ done = Sides
    /\ IF \E i \in Sides : got[i] = None \/ got[i].of \in Empty
       THEN Leave(Nothing) /\ UNCHANGED <<root, private>>
       ELSE /\ stage' = "read" /\ done' = {}
            /\ UNCHANGED <<vars, caches, line, private, run, got, sent, shown, aside, vanished,
                           outcome>>

\* Mutant: what the metadata took is not subtracted.
SourceAllowanceWhole(i) == Cap(i)

\* maxRequests of readCodeDna
SourceAllowance(i) == Larger(0, Cap(i) - sent[i].metadata)

\* readCodeDna: a stable reading of this scope, or a new one, of which derived
\* features may save requests and which transient failures keep out of the cache.
Read(i) ==
    LET s == got[i]
        allowance == SourceAllowance(i)
        key == ReadingKey(s, allowance)
        kept == {r \in readings : r.key = key}
        all == Lower(allowance, Files[s.of])
    IN
    /\ stage = "read" /\ i \notin done
    /\ done' = done \union {i}
    /\ IF Reads /\ kept # {}
       THEN /\ \E r \in kept :
                 shown' = [shown EXCEPT ![i].files = r.files, ![i].allowance = r.allowance]
            /\ UNCHANGED <<sent, readings>>
       ELSE \E lasting \in BOOLEAN, spent \in {0, all} :
            /\ sent' = [sent EXCEPT ![i].source = spent]
            /\ shown' = [shown EXCEPT ![i].files = IF lasting THEN all ELSE 0,
                                      ![i].allowance = allowance]
            /\ readings' = IF Writes /\ lasting /\ all > 0
                           THEN readings \union
                                {[key |-> key, files |-> all, allowance |-> allowance,
                                  complete |-> plan.disposition = "complete"]}
                           ELSE readings
    /\ UNCHANGED <<vars, root, snapshots, qualities, line, private, stage, run,
                   got, aside, vanished, outcome>>

ReadAll ==
    /\ stage = "read" /\ done = Sides
    /\ stage' = "quality" /\ done' = {}
    /\ UNCHANGED <<vars, caches, line, private, run, got, sent, shown,
                   aside, vanished, outcome>>

\* runQualityPreview: it spends up to its caps, and its result is kept whatever
\* failed, unless the collection threw.
Judge(i) ==
    LET cap == plan.qualityCap
        key == QualityKey(got[i], cap)
    IN
    /\ stage = "quality" /\ i \notin done
    /\ done' = done \union {i}
    /\ IF ~qualityOn \/ cap.source = 0 \/ (Reads /\ key \in qualities)
       THEN UNCHANGED <<sent, qualities>>
       ELSE \E threw \in BOOLEAN :
            /\ sent' = [sent EXCEPT ![i].quality = cap.source + cap.attribution]
            /\ qualities' = IF Writes /\ ~threw THEN qualities \union {key} ELSE qualities
    /\ UNCHANGED <<vars, root, snapshots, readings, line, private, stage, run,
                   got, shown, aside, vanished, outcome>>

\* Mutant: an export goes on without the private part that was asked for.
MayExportAnyhow(result) == line.output = "export"

MayExport(result) == line.output = "export" /\ result # "failed"

\* The private run, the export and the exit code. "public" is the user's choice at
\* the setup prompt to go on without the private part, which is no error; an
\* exception, as of a prompt that is interrupted, takes the result along.
End ==
    /\ stage = "quality" /\ done = Sides
    /\ \/ \E result \in IF private THEN {"ready", "failed", "public"} ELSE {"none"},
             written \in IF line.output = "export" THEN BOOLEAN ELSE {FALSE} :
             LET exported == MayExport(result) /\ written IN
             Leave([exit |-> IF result = "failed" \/ (line.output = "export" /\ ~exported)
                             THEN 1 ELSE 0,
                    public |-> line.output # "export",
                    private |-> result = "ready" /\ (line.output = "export" => exported),
                    declined |-> result = "public",
                    exported |-> exported])
       \/ private /\ Leave(Nothing)
    /\ UNCHANGED <<root, private>>

-----------------------------------------------------------------------------
(* The world *)

\* An entry expires, is rejected, or is evicted or cleared by another process;
\* at most once in an invocation (bound). Later stages only look up entries that
\* might as well have vanished by then.
Vanish ==
    /\ stage \in {"preflight", "collect"} /\ ~vanished
    /\ \/ \E h \in Handles : /\ snapshots[h] # None
                             /\ snapshots' = [snapshots EXCEPT ![h] = None]
                             /\ UNCHANGED <<readings, qualities>>
       \/ \E r \in readings : readings' = readings \ {r} /\ UNCHANGED <<snapshots, qualities>>
       \/ \E q \in qualities : qualities' = qualities \ {q} /\ UNCHANGED <<snapshots, readings>>
    /\ vanished' = TRUE
    /\ UNCHANGED <<vars, root, line, private, stage, run, done, got, sent, shown,
                   aside, outcome>>

Program ==
    \/ Preflighting \/ Refused \/ Begin \/ Collected \/ ReadAll \/ End
    \/ \E i \in Sides : Collect(i) \/ Read(i) \/ Judge(i)

InvocationNext == Invoke \/ Program \/ Vanish

\* Requests are answered or time out, and prompts are answered.
InvocationSpec == InvocationInit /\ [][InvocationNext]_iVars /\ WF_iVars(Program)

-----------------------------------------------------------------------------
Working == stage \in {"collect", "read", "quality"}

\* However the caches change between the plan and the run, a profile never
\* spends more than it was given, metadata and source together.
SpendsWithinPlan ==
    Working => \A i \in Sides :
        /\ sent[i].metadata + sent[i].source <= plan.caps[i]
        /\ sent[i].quality <= plan.qualityCap.source + plan.qualityCap.attribution

\* What a run sends for its profiles fits the allowance its plan was made for, also
\* when entries the plan counted on have vanished. (Not when the plan found a
\* reading: it then expects no request of a profile it gives a cap to.) Beside it
\* the run asks at most one question, who signed in, and only if somebody did: a
\* request that a plan which gave the whole allowance away does not have.
AllowanceKept ==
    /\ Working /\ plan.remaining # Unread
    /\ Total(plan.caps) <= plan.expected
    => /\ Total([i \in Sides |-> sent[i].metadata + sent[i].source + sent[i].quality])
              <= plan.remaining
       /\ aside <= signIns

\* A reading that is shown was made with the very allowance of this run, in
\* whichever run it was made.
ServedInScope ==
    stage = "quality" => \A i \in Sides : shown[i].allowance = SourceAllowance(i)

\* The exit code is zero just when all that was asked for was delivered: the
\* result or the export, and the private part if it was wanted and the user did not
\* decline it later. An export lacks that part only if it was declined.
ExitTellsAll ==
    stage = "ended" =>
        LET wanted == private /\ ~outcome.declined IN
        /\ (outcome.exit = 0) =
               /\ outcome.private = wanted
               /\ IF line.output = "export" THEN outcome.exported ELSE outcome.public
        /\ outcome.exported => outcome.private = wanted

\* From the moment private repositories are wanted, an invocation stores nothing
\* in the caches and makes no cache root. (An export is written all the same.)
PrivateLeavesNothing ==
    [][private' => /\ root' = root
                   /\ readings' \subseteq readings /\ qualities' \subseteq qualities
                   /\ \A h \in Handles : snapshots'[h] \in {None, snapshots[h]}]_iVars

\* Every invocation ends.
InvocationEnds == (stage = "preflight") ~> (stage = "ended")

\* Whether a complete run finds its caches cold or warm, it reads a snapshot
\* with the same source allowance.
SameReadingWarm ==
    \A r, s \in readings :
        r.key[1] = s.key[1] /\ r.complete /\ s.complete => r.allowance = s.allowance
=============================================================================
