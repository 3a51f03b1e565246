--------------------------- MODULE TerminalProofs ---------------------------
(***************************************************************************)
(* Theorems about what the terminal shows: the device sign-in and the      *)
(* lines of a battle.                                                      *)
(*                                                                         *)
(* The sign-in, for every lifetime of a code, every interval GitHub may    *)
(* ask for and any bound on the clock and on the launches.  The pace is    *)
(* kept because a sleep is never set shorter than the interval GitHub      *)
(* announced, counted from an instant that is not before the last contact; *)
(* the link is there because an interaction that was not closed writes it  *)
(* with every launch that does not open.                                   *)
(*                                                                         *)
(* The battle, for any profiles and any battles between them, whatever was *)
(* collected of them: only that the analysis makes numbers of it is        *)
(* assumed.  Every line on the page was selected for its place, so its     *)
(* atom fired on the numbers shown there and its budgets were not spent;   *)
(* and the matchup line and the caveat are there because their templates   *)
(* are used by nothing that can be told before them.                       *)
(***************************************************************************)
EXTENDS DeviceFlow, Battle, FiniteSetTheorems, NaturalsInduction, WellFoundedInduction, TLAPS

\* The larger of two numbers is one of them.
LEMMA MaxOfInts ==
  ASSUME NEW a \in Int, NEW b \in Int
  PROVE  Max({a, b}) \in {a, b} /\ a <= Max({a, b}) /\ b <= Max({a, b})
  <1>1. \E x \in {a, b} : \A y \in {a, b} : x >= y  OBVIOUS
  <1>2. Max({a, b}) \in {a, b} /\ \A y \in {a, b} : Max({a, b}) >= y
    BY <1>1 DEF Max
  <1> QED BY <1>2

-----------------------------------------------------------------------------
(* The sign-in *)

Waiting == {"asleep", "token", "tokenBody"}
Labels == Waiting \cup {"code", "codeBody", "prompting", "done"}

\* What the clock and the answers leave in the variables of the loop.
Timed ==
  /\ now \in Nat /\ asked \in Nat /\ wakeAt \in Nat /\ expiresAt \in Nat
  /\ interval \in Nat /\ announced \in Nat
  /\ asked <= now
  /\ announced <= interval
  /\ pc = "asleep" => asked + announced <= wakeAt

\* Only the end of the flow closes the interaction, and an open one shows the
\* link unless a browser is, or is being, opened.
Linked ==
  /\ pc \in Labels
  /\ opening \in BOOLEAN /\ linkShown \in BOOLEAN /\ closed \in BOOLEAN /\ browser \in BOOLEAN
  /\ closed = TRUE => pc = "done"
  /\ pc \in Waiting /\ opening = FALSE /\ launched # "opened" => linkShown = TRUE

SignInInv == Timed /\ Linked
-----------------------------------------------------------------------------
LEMMA MaxOfTwo ==
  ASSUME NEW a \in Nat, NEW b \in Nat
  PROVE  Max({a, b}) \in Nat /\ a <= Max({a, b}) /\ b <= Max({a, b})
  BY MaxOfInts

\* The head of the loop, entered with the interval that is to be kept.
LEMMA LoopKeepsPace ==
  ASSUME NEW pause \in Nat, now \in Nat, asked \in Nat, asked <= now, wakeAt \in Nat,
         NEW wanted \in Nat, wanted <= pause, Loop(pause)
  PROVE  /\ wakeAt' \in Nat
         /\ pc' = "asleep" => asked + wanted <= wakeAt'
  BY DEF Loop, Finish

\* A slow_down makes the interval longer than before, and at least what GitHub
\* wants.
LEMMA SlowDownInterval ==
  ASSUME NEW kept \in Nat, NEW said \in Nat, said <= kept, NEW returned \in Nat
  PROVE  /\ Max({kept + Increment, returned}) \in Nat
         /\ (IF returned = 0 THEN said + Increment ELSE returned)
              <= Max({kept + Increment, returned})
         /\ (IF returned = 0 THEN said + Increment ELSE returned) \in Nat
  <1>1. kept + Increment \in Nat /\ Increment \in Nat  BY DeviceFlowAssumption
  <1>2. /\ Max({kept + Increment, returned}) \in Nat
        /\ kept + Increment <= Max({kept + Increment, returned})
        /\ returned <= Max({kept + Increment, returned})
    BY <1>1, MaxOfTwo
  <1> QED BY <1>1, <1>2

LEMMA InitSignIn == Init => SignInInv
  <1> SUFFICES ASSUME Init PROVE SignInInv  OBVIOUS
  <1>1. Timed  BY DEF Init, Timed
  <1>2. Linked
    <2>1. opening \in BOOLEAN /\ linkShown \in BOOLEAN /\ closed \in BOOLEAN /\ browser \in BOOLEAN
      BY DEF Init
    <2>2. pc = "code" /\ ~(closed = TRUE)  BY DEF Init
    <2> QED BY <2>1, <2>2 DEF Linked, Labels, Waiting
  <1> QED BY <1>1, <1>2 DEF SignInInv
-----------------------------------------------------------------------------
LEMMA AnswerTimed ==
  ASSUME SignInInv, Answer
  PROVE  Timed'
  <1> USE DeviceFlowAssumption
  <1>1. CASE CodeArrives
    BY <1>1 DEF CodeArrives, SignInInv, Timed
  <1>2. CASE Granted
    BY <1>2 DEF Granted, Finish, clock, launcher, github, SignInInv, Timed
  <1>3. CASE Pending
    <2>1. Loop(interval) /\ UNCHANGED <<now, expiresAt, interval, asked, announced>>
      BY <1>3 DEF Pending, github
    <2> QED BY <2>1, LoopKeepsPace DEF SignInInv, Timed
  <1>4. CASE SlowDown
    <2>1. PICK returned \in Nat :
            /\ interval' = Max({interval + Increment, returned})
            /\ announced' = IF returned = 0 THEN announced + Increment ELSE returned
      BY <1>4 DEF SlowDown
    <2>2. Loop(interval') /\ UNCHANGED <<now, expiresAt, asked>>
      BY <1>4 DEF SlowDown
    <2>3. interval' \in Nat /\ announced' \in Nat /\ announced' <= interval'
      BY <2>1, SlowDownInterval DEF SignInInv, Timed
    <2>4. wakeAt' \in Nat /\ (pc' = "asleep" => asked + announced' <= wakeAt')
      BY <2>2, <2>3, LoopKeepsPace DEF SignInInv, Timed
    <2> QED BY <2>2, <2>3, <2>4 DEF SignInInv, Timed
  <1>5. CASE Refused
    BY <1>5 DEF Refused, Finish, clock, launcher, github, SignInInv, Timed
  <1> QED BY <1>1, <1>2, <1>3, <1>4, <1>5 DEF Answer

LEMMA NextTimed ==
  ASSUME SignInInv, [Next]_vars
  PROVE  Timed'
  <1>1. CASE RequestFails
    BY <1>1 DEF RequestFails, Finish, clock, launcher, github, SignInInv, Timed
  <1>2. CASE ResponseArrives
    BY <1>2 DEF ResponseArrives, clock, launcher, github, SignInInv, Timed
  <1>3. CASE BodyFails
    BY <1>3 DEF BodyFails, Finish, clock, launcher, github, SignInInv, Timed
  <1>4. CASE Prompt
    <2>1. Loop(interval) /\ UNCHANGED <<now, expiresAt, interval, asked, announced>>
      BY <1>4 DEF Prompt, Prompted, github
    <2> QED BY <2>1, LoopKeepsPace DEF SignInInv, Timed
  <1>5. CASE Wake
    BY <1>5 DEF Wake, Finish, clock, launcher, SignInInv, Timed
  <1>6. CASE WakeAborted
    BY <1>6 DEF WakeAborted, Finish, clock, launcher, github, SignInInv, Timed
  <1>7. CASE Answer
    BY <1>7, AnswerTimed
  <1>8. CASE PressEnter
    BY <1>8 DEF PressEnter, clock, github, SignInInv, Timed
  <1>9. CASE Settle
    BY <1>9 DEF Settle, LaunchSettles, clock, github, SignInInv, Timed
  <1>10. CASE Abort
    BY <1>10 DEF Abort, clock, launcher, github, SignInInv, Timed
  <1>11. CASE Tick
    BY <1>11 DEF Tick, clock, launcher, github, SignInInv, Timed
  <1>12. CASE UNCHANGED vars
    BY <1>12 DEF vars, clock, launcher, github, SignInInv, Timed
  <1> QED BY <1>1, <1>2, <1>3, <1>4, <1>5, <1>6, <1>7, <1>8, <1>9, <1>10, <1>11, <1>12
          DEF Next
-----------------------------------------------------------------------------
\* A step that leaves the launches alone and either ends the flow or goes on
\* waiting, or has not begun to wait, leaves the link where it is.
LEMMA SameLink ==
  ASSUME Linked, UNCHANGED <<browser, launcher>>,
         \/ pc' = "done" /\ closed' = TRUE
         \/ pc' \in Waiting /\ pc \in Waiting /\ UNCHANGED closed
         \/ pc' \in {"code", "codeBody", "prompting"} /\ pc # "done" /\ UNCHANGED closed
  PROVE  Linked'
  BY DEF Linked, Waiting, Labels, launcher

\* The loop either goes on or ends the flow.
LEMMA LoopWaitsOrEnds ==
  ASSUME NEW pause, Loop(pause)
  PROVE  \/ pc' = "done" /\ closed' = TRUE
         \/ pc' = "asleep" /\ UNCHANGED closed
  BY DEF Loop, Finish

LEMMA NextLinked ==
  ASSUME SignInInv, [Next]_vars
  PROVE  Linked'
  <1>0. Linked  BY DEF SignInInv
  <1>1. CASE RequestFails
    BY <1>0, <1>1, SameLink DEF RequestFails, Finish
  <1>2. CASE ResponseArrives
    BY <1>0, <1>2, SameLink DEF ResponseArrives, Waiting
  <1>3. CASE BodyFails
    BY <1>0, <1>3, SameLink DEF BodyFails, Finish
  <1>4. CASE Prompt
    <2>1. PICK result \in {"opened", "failed", "unsupported"} :
            /\ pc = "prompting" /\ UNCHANGED browser
            /\ launched' = result /\ opening' = FALSE
            /\ linkShown' = (result # "opened")
            /\ Loop(interval)
      BY <1>4 DEF Prompt, Prompted
    <2>2. closed # TRUE  BY <1>0, <2>1 DEF Linked
    <2>3. linkShown' \in BOOLEAN /\ (launched' # "opened" => linkShown' = TRUE)
      BY <2>1
    <2>4. \/ pc' = "done" /\ closed' = TRUE
          \/ pc' = "asleep" /\ UNCHANGED closed
      BY <2>1, LoopWaitsOrEnds
    <2> QED BY <1>0, <2>1, <2>2, <2>3, <2>4 DEF Linked, Waiting, Labels
  <1>5. CASE Wake
    BY <1>0, <1>5, SameLink DEF Wake, Finish, Waiting
  <1>6. CASE WakeAborted
    BY <1>0, <1>6, SameLink DEF WakeAborted, Finish
  <1>7. CASE Answer
    <2>1. CASE CodeArrives
      BY <1>0, <2>1 DEF CodeArrives, Linked, Waiting, Labels
    <2>2. CASE Granted
      BY <1>0, <2>2, SameLink DEF Granted, Finish
    <2>3. CASE Pending \/ SlowDown
      <3>1. pc = "tokenBody" /\ UNCHANGED <<browser, launcher>> /\ \E pause : Loop(pause)
        BY <2>3 DEF Pending, SlowDown
      <3>2. \/ pc' = "done" /\ closed' = TRUE
            \/ pc' = "asleep" /\ UNCHANGED closed
        BY <3>1, LoopWaitsOrEnds
      <3> QED BY <1>0, <3>1, <3>2, SameLink DEF Waiting
    <2>4. CASE Refused
      BY <1>0, <2>4, SameLink DEF Refused, Finish
    <2> QED BY <1>7, <2>1, <2>2, <2>3, <2>4 DEF Answer
  <1>8. CASE PressEnter
    BY <1>0, <1>8 DEF PressEnter, MayOpen, ShowFallback, Linked, Waiting, Labels
  <1>9. CASE Settle
    <2>1. PICK result \in {"opened", "failed"} : LaunchSettles(result)
      BY <1>9 DEF Settle
    <2>2. /\ opening' = FALSE /\ launched' = result
          /\ UNCHANGED <<browser, pc, closed>>
      BY <2>1 DEF LaunchSettles
    <2>3. /\ linkShown' \in BOOLEAN /\ (linkShown = TRUE => linkShown' = TRUE)
          /\ result # "opened" /\ closed = FALSE => linkShown' = TRUE
      BY <1>0, <2>1 DEF LaunchSettles, ShowFallback, Linked
    <2> QED BY <1>0, <2>2, <2>3 DEF Linked, Waiting, Labels
  <1>10. CASE Abort
    BY <1>0, <1>10, SameLink DEF Abort, Linked, Labels
  <1>11. CASE Tick
    BY <1>0, <1>11, SameLink DEF Tick, Linked, Labels
  <1>12. CASE UNCHANGED vars
    BY <1>0, <1>12 DEF vars, launcher, Linked
  <1> QED BY <1>1, <1>2, <1>3, <1>4, <1>5, <1>6, <1>7, <1>8, <1>9, <1>10, <1>11, <1>12
          DEF Next

LEMMA SignInInvariant == Spec => []SignInInv
  <1>1. SignInInv /\ [Next]_vars => SignInInv'
    BY NextTimed, NextLinked DEF SignInInv
  <1> QED BY InitSignIn, <1>1, PTL DEF Spec
-----------------------------------------------------------------------------
\* Nothing but the timer of the sleep asks GitHub for the token, and it only does
\* with a code that is valid and a flow that was not aborted.
LEMMA OnlyWakePolls ==
  ASSUME Timed, [Next]_vars, Polls
  PROVE  now < expiresAt /\ ~aborted /\ now >= wakeAt
  <1>0. pc = "asleep" /\ pc' = "token"  BY DEF Polls
  <1>1. ~RequestFails  BY <1>0 DEF RequestFails
  <1>2. ~ResponseArrives  BY <1>0 DEF ResponseArrives
  <1>3. ~BodyFails  BY <1>0 DEF BodyFails
  <1>4. ~Prompt  BY <1>0 DEF Prompt, Prompted
  <1>5. ~WakeAborted  BY <1>0 DEF WakeAborted, Finish
  <1>6. ~Answer
    BY <1>0 DEF Answer, CodeArrives, Granted, Pending, SlowDown, Refused
  <1>7. ~PressEnter /\ ~Settle /\ ~Abort /\ ~Tick /\ ~UNCHANGED vars
    BY <1>0 DEF PressEnter, Settle, LaunchSettles, Abort, Tick, vars
  <1>8. Wake  BY <1>1, <1>2, <1>3, <1>4, <1>5, <1>6, <1>7 DEF Next
  <1> QED BY <1>0, <1>8 DEF Wake, Finish, Timed

\* However late timers fire and answers come, GitHub is asked for the token no
\* more often than it last said.
THEOREM PaceIsKept == Spec => KeepsThePace
  <1>1. SignInInv /\ [Next]_vars => [Polls => now - asked >= announced]_vars
    BY OnlyWakePolls DEF SignInInv, Timed, Polls
  <1> QED BY SignInInvariant, <1>1, PTL DEF Spec, KeepsThePace

\* An expired code is never used and an aborted flow never asks again.
THEOREM UnwantedIsNotAsked == Spec => PollsWhileWanted
  <1>1. SignInInv /\ [Next]_vars => [Polls => now < expiresAt /\ ~aborted]_vars
    BY OnlyWakePolls DEF SignInInv
  <1> QED BY SignInInvariant, <1>1, PTL DEF Spec, PollsWhileWanted

\* Whichever launches fail, whoever waits without a browser has the link.
THEOREM LinkIsAtHand == Spec => []LinkAtHand
  <1>1. SignInInv => LinkAtHand
    BY DEF SignInInv, Linked, Waiting, LinkAtHand
  <1> QED BY SignInInvariant, <1>1, PTL

-----------------------------------------------------------------------------
(* What the analysis makes of a profile *)

\* An identity is a record of the five titles.
LEMMA Titled ==
  ASSUME NEW card
  PROVE  \E a, b, c, d, e : AssignIdentity(card) =
           [mogsona |-> a, motif |-> b, class |-> c, leak |-> d, leakMotif |-> e]
  BY Zenon DEF AssignIdentity, FromCatalogs, IdentityOf

\* What a scorecard says.
CardFields == {"metrics", "overall", "category", "confidence", "diagnostics"}

\* Of a scorecard, an identity takes no field away.
LEMMA AssessedKeeps ==
  ASSUME NEW p \in Profiles
  PROVE  LET card == Scorecard(Snapshots[p])
             title == AssignIdentity(card)
         IN /\ Cards[p].metrics = card.metrics
            /\ Cards[p].overall = card.overall
            /\ Cards[p].category = card.category
            /\ Cards[p].confidence = card.confidence
            /\ Cards[p].diagnostics = card.diagnostics
            /\ Cards[p].mogsona = title.mogsona
            /\ Cards[p].motif = title.motif
            /\ Cards[p].leakMotif = title.leakMotif
  <1> DEFINE card == Scorecard(Snapshots[p])
             title == AssignIdentity(card)
  <1>1. DOMAIN title = {"mogsona", "motif", "class", "leak", "leakMotif"}
    BY Titled
  <1>2. DOMAIN card = CardFields
    BY DEF Scorecard, Measure, Graded, CardFields
  <1>3. Cards[p] = [x \in DOMAIN title \cup DOMAIN card |->
                      IF x \in DOMAIN title THEN title[x] ELSE card[x]]
    BY DEF Cards, Assessed, Joined
  <1> HIDE DEF title, card
  <1> QED BY <1>1, <1>2, <1>3 DEF CardFields, title, card

\* What the diagnostics count.
Fields == {"public", "eligible", "substantial", "archived", "forks", "abandoned", "inspected",
           "tested", "withCi", "monorepos", "releaseRepos", "sustained", "deepLanguages",
           "languages", "dominant", "sample", "annualized", "weeks", "days", "lowEffort",
           "repair", "revert", "external", "merged", "releases"}

\* What an assessed scorecard counts are numbers.
LEMMA DiagnosticsFields ==
  ASSUME NEW p \in Profiles
  PROVE  LET card == Cards[p] IN
         /\ DOMAIN card.diagnostics = Fields
         /\ \A x \in Fields : card.diagnostics[x] \in Int
         /\ DOMAIN card.category = {Categories[i] : i \in DOMAIN Categories}
         /\ \A x \in DOMAIN card.category : card.category[x].score \in Int
  <1>1. DOMAIN Cards[p].diagnostics = Fields
    <2>1. Scorecard(Snapshots[p]).diagnostics = Diagnostics(Signals(Snapshots[p]))
      BY DEF Scorecard, Measure, Graded
    <2>2. \A s : DOMAIN Diagnostics(s) = Fields
      BY Zenon DEF Diagnostics, Fields
    <2> QED BY <2>1, <2>2, AssessedKeeps
  <1>2. DOMAIN Cards[p].category = {Categories[i] : i \in DOMAIN Categories}
    BY AssessedKeeps DEF Scorecard, Measure, Graded
  <1>3. Cards[p].diagnostics = Scorecard(Snapshots[p]).diagnostics
        /\ Cards[p].category = Scorecard(Snapshots[p]).category
    BY AssessedKeeps
  <1> QED BY <1>1, <1>2, <1>3, NumbersAssumption

\* A share is a number, whatever it is the share of.
LEMMA ShareInt ==
  ASSUME NEW a \in Int, NEW b \in Int
  PROVE Share(a, b) \in Int
  <1>1. CASE b > 0
    <2>1. 2 * b \in Int /\ 2 * b > 0 /\ 2 * (a * 10000) + b \in Int BY <1>1
    <2> QED BY <1>1, <2>1 DEF Share, HalfUp, One
  <1>2. CASE b <= 0
    BY <1>2 DEF Share
  <1> QED BY <1>1, <1>2

\* Everything the atoms compare is a number.
Numbers(v) ==
  /\ {v.overall, v.analyzed, v.coverage, v.confidence, v.substantialRatio, v.forkRatio,
      v.abandonmentDensity, v.days} \subseteq Int
  /\ \A x \in Fields : v[x] \in Int
  /\ \A m \in MetricNames : v.m[m] \in Int

\* The view of a profile is made of numbers, and shows the score, the confidence
\* and the repositories of its scorecard.
LEMMA ViewNumbers ==
  ASSUME NEW p \in Profiles
  PROVE  LET v == View(Cards[p])
         IN /\ Numbers(v)
            /\ v.overall = Cards[p].overall
            /\ v.confidence = Cards[p].confidence.score
            /\ v.analyzed = Cards[p].confidence.analyzed
  <1> DEFINE card == Cards[p]
             d == card.diagnostics
             own == {"m", "confidence", "baseline", "substantialRatio", "forkRatio",
                     "abandonmentDensity", "releaseDensity", "days"}
             iv == IdentitySignals(card)
             v == View(card)
  <1>1. DOMAIN d = Fields /\ \A x \in Fields : d[x] \in Int
    BY DiagnosticsFields
  <1> DEFINE r == [m |-> [x \in DOMAIN card.metrics |-> card.metrics[x].ratio],
                   confidence |-> card.confidence.score,
                   baseline |-> Baseline(card),
                   substantialRatio |-> Share(d.substantial, d.eligible),
                   forkRatio |-> Share(d.forks, d.public),
                   abandonmentDensity |-> Share(d.abandoned, d.substantial),
                   releaseDensity |-> IF d.substantial = 0 THEN 0
                                      ELSE HalfUp(100 * d.releases, d.substantial),
                   days |-> Or(d.days, 3650)]
  <1>2. /\ DOMAIN r = own
        /\ r.m = [x \in DOMAIN card.metrics |-> card.metrics[x].ratio]
        /\ r.confidence = card.confidence.score
        /\ r.substantialRatio = Share(d.substantial, d.eligible)
        /\ r.forkRatio = Share(d.forks, d.public)
        /\ r.abandonmentDensity = Share(d.abandoned, d.substantial)
        /\ r.days = Or(d.days, 3650)
    OBVIOUS
  <1>a. iv = Joined(r, d)
    BY DEF IdentitySignals
  <1> HIDE DEF r
  <1>3. iv = [x \in own \cup Fields |-> IF x \in own THEN r[x] ELSE d[x]]
    BY <1>1, <1>2, <1>a DEF Joined
  <1> HIDE DEF iv
  <1>4. /\ v.overall = card.overall
        /\ v.analyzed = card.confidence.analyzed
        /\ v.coverage = card.confidence.coverage
        /\ \A x \in own \cup Fields : v[x] = iv[x]
    BY <1>3 DEF View, Joined, Fields, iv
  <1>5. card.overall \in Int /\ card.confidence \in [score : Int, analyzed : Int, coverage : Int, basis : Int]
    BY AssessedKeeps, NumbersAssumption
  <1>6. \A m \in MetricNames : m \in DOMAIN card.metrics /\ card.metrics[m].ratio \in Int
    BY AssessedKeeps, NumbersAssumption
  <1> HIDE DEF v, card
  <1>7. /\ v.m = r.m /\ v.confidence = r.confidence /\ v.substantialRatio = r.substantialRatio
        /\ v.forkRatio = r.forkRatio /\ v.abandonmentDensity = r.abandonmentDensity
        /\ v.days = r.days
        /\ \A x \in Fields \ {"days"} : v[x] = d[x]
    BY <1>3, <1>4 DEF Fields
  <1>8. {d.substantial, d.eligible, d.forks, d.public, d.abandoned, d.days} \subseteq Int
    BY <1>1 DEF Fields
  <1>9. {v.substantialRatio, v.forkRatio, v.abandonmentDensity, v.days} \subseteq Int
    <2>1. /\ Share(d.substantial, d.eligible) \in Int /\ Share(d.forks, d.public) \in Int
          /\ Share(d.abandoned, d.substantial) \in Int
      BY <1>8, ShareInt
    <2>2. Or(d.days, 3650) \in Int  BY <1>8 DEF Or
    <2> QED BY <1>2, <1>7, <2>1, <2>2
  <1>10. \A m \in MetricNames : v.m[m] \in Int
    BY <1>2, <1>6, <1>7
  <1>11. \A x \in Fields : v[x] \in Int
    BY <1>1, <1>7, <1>9
  <1> QED BY <1>2, <1>4, <1>5, <1>7, <1>9, <1>10, <1>11 DEF Numbers, v, card

-----------------------------------------------------------------------------
(* The facts of a battle *)

\* How often a fact may be told, as the property has it.
RepetitionsOf(id) ==
  CASE id \in {"round_clear_win", "round_close_win", "round_tie"} -> 8
    [] id = "verdict_margin" -> 4
    [] id = "low_public_evidence" -> 2
    [] OTHER -> 1

\* An atom about the numbers of the page fires only on what the page shows, and
\* only where it is about the same subject.
Sound(a, s, o, margin) ==
  /\ a.repetitions = RepetitionsOf(a.id)
  /\ a.priority \in Int /\ a.intensity \in Int
  /\ a.id \in {"nuclear_gap", "photo_finish"} => a.slots = {"finisher", "summary"}
  /\ a.id = "public_evidence_diff" => a.slots = {"summary", "matchup"}
  /\ a.id \in {"round_clear_win", "round_close_win", "round_tie"} => a.slots = {"round"}
  /\ a.intensity # None =>
       /\ a.id = "nuclear_gap" => margin >= 200
       /\ a.id = "photo_finish" => margin <= 20
       /\ a.id = "public_evidence_diff" => s.confidence - o.confidence >= 15
       /\ a.id = "round_tie" => margin = 0
       /\ a.id \in {"round_clear_win", "round_close_win"} => margin > 0

\* All 43 atoms keep to that, for all numbers of the two sides.
LEMMA SoundAtoms ==
  ASSUME NEW s, NEW o, Numbers(s), Numbers(o), NEW margin \in Int
  PROVE  \A i \in DOMAIN MemeAtomsOf(s, o, margin) :
           Sound(MemeAtomsOf(s, o, margin)[i], s, o, margin)
  <1> USE DEF Sound, RepetitionsOf, Atom, When, Everywhere, None, One
  <1>1. Sound(AbandonedProjectGap(s, o), s, o, margin)
    BY DEF AbandonedProjectGap, Numbers, Fields
  <1>2. Sound(ActivityWithoutShipping(s, o), s, o, margin)
    BY DEF ActivityWithoutShipping, Numbers, Fields, MetricNames
  <1>3. Sound(ArchiveDiscipline(s, o), s, o, margin)
    BY DEF ArchiveDiscipline, Numbers, Fields
  <1>4. Sound(CiGap(s, o), s, o, margin)
    BY DEF CiGap, RatioGap, Numbers, Fields, MetricNames
  <1>5. Sound(CommitChaosAtom(s, o), s, o, margin)
    BY DEF CommitChaosAtom, Spicy, Numbers, Fields
  <1>6. Sound(CommitMannersGap(s, o), s, o, margin)
    BY DEF CommitMannersGap, Numbers, Fields, MetricNames
  <1>7. Sound(ConfidenceMismatch(s, o), s, o, margin)
    BY DEF ConfidenceMismatch, Numbers, Fields
  <1>8. Sound(DocsWithoutShipping(s, o), s, o, margin)
    BY DEF DocsWithoutShipping, Spicy, Numbers, Fields, MetricNames
  <1>9. Sound(ExternalProjectActivity(s, o), s, o, margin)
    BY DEF ExternalProjectActivity, Numbers, Fields
  <1>10. Sound(GrindsetGap(s, o), s, o, margin)
    BY DEF GrindsetGap, Numbers, Fields
  <1>11. Sound(HighForkRatio(s, o), s, o, margin)
    BY DEF HighForkRatio, Spicy, Numbers, Fields
  <1>12. Sound(HighTreeCoverage(s, o), s, o, margin)
    BY DEF HighTreeCoverage, Numbers, Fields
  <1>13. Sound(IdentityMatchup(s, o), s, o, margin)
    BY DEF IdentityMatchup, Numbers, Fields
  <1>14. Sound(ImpactConcentration(s, o), s, o, margin)
    BY DEF ImpactConcentration, Numbers, Fields
  <1>15. Sound(LowPublicEvidence(s, o), s, o, margin)
    BY DEF LowPublicEvidence, Numbers, Fields
  <1>16. Sound(MainBranchBehavior(s, o), s, o, margin)
    BY DEF MainBranchBehavior, Numbers, Fields, MetricNames
  <1>17. Sound(MonorepoOperatingSystem(s, o), s, o, margin)
    BY DEF MonorepoOperatingSystem, Numbers, Fields, MetricNames
  <1>18. Sound(NuclearGap(margin), s, o, margin)
    BY DEF NuclearGap, RoundAtom
  <1>19. Sound(OneRepoCarry(s, o), s, o, margin)
    BY DEF OneRepoCarry, Numbers, Fields, MetricNames
  <1>20. Sound(OneRepoFinalBossAtom(s, o), s, o, margin)
    BY DEF OneRepoFinalBossAtom, Numbers, Fields, MetricNames
  <1>21. Sound(PhotoFinish(margin), s, o, margin)
    BY DEF PhotoFinish, RoundAtom
  <1>22. Sound(PolyglotWithDepth(s, o), s, o, margin)
    BY DEF PolyglotWithDepth, Numbers, Fields
  <1>23. Sound(PolyglotWithoutDepth(s, o), s, o, margin)
    BY DEF PolyglotWithoutDepth, Numbers, Fields, MetricNames
  <1>24. Sound(PublicEvidenceDiff(s, o), s, o, margin)
    BY DEF PublicEvidenceDiff, Numbers, Fields
  <1>25. Sound(RecentActivityGap(s, o), s, o, margin)
    BY DEF RecentActivityGap, Numbers, Fields
  <1>26. Sound(ReleaseAvoidance(s, o), s, o, margin)
    BY DEF ReleaseAvoidance, Numbers, Fields, MetricNames
  <1>27. Sound(ReleaseDensityGap(s, o), s, o, margin)
    <2>1. s.releases \in Int /\ s.substantial \in Int
      BY DEF Numbers, Fields
    <2>2. Max({1, s.substantial}) \in Int /\ Max({1, s.substantial}) >= 1
      <3> DEFINE x == s.substantial
      <3>1. x \in Int  BY <2>1
      <3> HIDE DEF x
      <3>2. Max({1, x}) \in {1, x} /\ 1 <= Max({1, x})  BY <3>1, MaxOfInts
      <3> QED BY <3>1, <3>2 DEF x
    <2>3. HalfUp(s.releases * One, Max({1, s.substantial})) \in Int
      BY <2>1, <2>2 DEF HalfUp
    <2> QED BY <2>3 DEF ReleaseDensityGap
  <1>28. Sound(ReleaseGap(s, o), s, o, margin)
    BY DEF ReleaseGap, Numbers, Fields
  <1>29. Sound(RepairLoopGap(s, o), s, o, margin)
    BY DEF RepairLoopGap, Numbers, Fields, MetricNames
  <1>30. Sound(RepoCountWithoutSubstance(s, o), s, o, margin)
    BY DEF RepoCountWithoutSubstance, Numbers, Fields
  <1>31. Sound(RepoGraveyardDensity(s, o), s, o, margin)
    BY DEF RepoGraveyardDensity, Numbers, Fields
  <1>32. Sound(RoundClearWin(margin), s, o, margin)
    BY DEF RoundClearWin, RoundAtom
  <1>33. Sound(RoundCloseWin(margin), s, o, margin)
    BY DEF RoundCloseWin, RoundAtom
  <1>34. Sound(RoundTie(margin), s, o, margin)
    BY DEF RoundTie, RoundAtom
  <1>35. Sound(ShipToYapGap(s, o), s, o, margin)
    BY DEF ShipToYapGap, Numbers, Fields, MetricNames
  <1>36. Sound(StrongMaintenance(s, o), s, o, margin)
    BY DEF StrongMaintenance, Numbers, Fields, MetricNames
  <1>37. Sound(StructureGap(s, o), s, o, margin)
    BY DEF StructureGap, RatioGap, Numbers, Fields, MetricNames
  <1>38. Sound(SubstanceRatioGap(s, o), s, o, margin)
    BY DEF SubstanceRatioGap, Numbers, Fields
  <1>39. Sound(SustainedWorkGap(s, o), s, o, margin)
    BY DEF SustainedWorkGap, RatioGap, Numbers, Fields, MetricNames
  <1>40. Sound(TestsGap(s, o), s, o, margin)
    BY DEF TestsGap, RatioGap, Numbers, Fields, MetricNames
  <1>41. Sound(ToolingWithoutOutput(s, o), s, o, margin)
    BY DEF ToolingWithoutOutput, Spicy, Numbers, Fields, MetricNames
  <1>42. Sound(VerdictMargin(margin), s, o, margin)
    BY DEF VerdictMargin, RoundAtom
  <1>43. Sound(VerificationStackAtom(s, o), s, o, margin)
    BY DEF VerificationStackAtom, Numbers, Fields, MetricNames
  <1> HIDE DEF Sound, RepetitionsOf, Atom, When, Everywhere, None, One
  <1> QED BY <1>1, <1>2, <1>3, <1>4, <1>5, <1>6, <1>7, <1>8, <1>9, <1>10, <1>11, <1>12, <1>13, <1>14, <1>15, <1>16, <1>17, <1>18, <1>19, <1>20, <1>21, <1>22, <1>23, <1>24, <1>25, <1>26, <1>27, <1>28, <1>29, <1>30, <1>31, <1>32, <1>33, <1>34, <1>35, <1>36, <1>37, <1>38, <1>39, <1>40, <1>41, <1>42, <1>43 DEF MemeAtomsOf

\* A set of natural numbers has a least one.
LEMMA LeastNatural ==
  ASSUME NEW S \in SUBSET Nat, S # {}
  PROVE  \E m \in S : \A n \in S : m <= n
  <1> DEFINE R == OpToRel(<, Nat)
  <1>1. IsWellFoundedOn(R, Nat)  BY NatLessThanWellFounded
  <1>2. \A x, y \in Nat : x < y => <<x, y>> \in R  BY DEF OpToRel
  <1> HIDE DEF R
  <1>3. PICK m \in S : \A n \in S : <<n, m>> \notin R  BY <1>1, WFMin
  <1>4. ASSUME NEW n \in S PROVE m <= n
    <2>1. n \in Nat /\ m \in Nat /\ <<n, m>> \notin R  BY <1>3
    <2>2. ~(n < m)  BY <1>2, <2>1
    <2> QED BY <2>1, <2>2
  <1> QED BY <1>4

\* Induction, for a set of numbers.
LEMMA SetInduction ==
  ASSUME NEW S, 0 \in S, \A n \in Nat : n \in S => n + 1 \in S
  PROVE  Nat \subseteq S
  <1> SUFFICES ASSUME Nat \ S # {} PROVE FALSE  OBVIOUS
  <1>1. PICK m \in Nat \ S : \A n \in Nat \ S : m <= n  BY LeastNatural
  <1>2. m - 1 \in Nat /\ m - 1 \notin S  BY <1>1
  <1> QED BY <1>1, <1>2

\* R compares any two places of a list of n.
Ranks(R, n) ==
  /\ \A i, j \in 1 .. n : <<i, j>> \in R \/ <<j, i>> \in R
  /\ \A i, j, k \in 1 .. n : <<i, j>> \in R /\ <<j, k>> \in R => <<i, k>> \in R

\* Among some places of a list there is a best one, whatever ranks them.
LEMMA BestExists ==
  ASSUME NEW n \in Nat, NEW R, Ranks(R, n), NEW S \in SUBSET (1 .. n), S # {}
  PROVE  \E i \in S : \A j \in S : <<i, j>> \in R
  <1> DEFINE Best(T) == \E i \in T : \A j \in T : <<i, j>> \in R
             K == {k \in Nat : k <= n => \A T \in SUBSET (1 .. k) : T # {} => Best(T)}
  <1>1. 0 \in K
    <2>1. \A T \in SUBSET (1 .. 0) : T = {}  OBVIOUS
    <2> QED BY <2>1
  <1>2. ASSUME NEW k \in Nat, k \in K PROVE k + 1 \in K
    <2> SUFFICES ASSUME k + 1 <= n, NEW T \in SUBSET (1 .. k + 1), T # {} PROVE Best(T)
      OBVIOUS
    <2> DEFINE U == T \ {k + 1}
    <2>1. U \in SUBSET (1 .. k)  OBVIOUS
    <2>2. T \subseteq 1 .. n /\ U \subseteq T  OBVIOUS
    <2>3. CASE U = {}
      <3>1. T = {k + 1}  BY <2>3
      <3>2. <<k + 1, k + 1>> \in R  BY <2>2, <3>1 DEF Ranks
      <3> QED BY <3>1, <3>2
    <2>4. CASE U # {}
      <3>0. \A V \in SUBSET (1 .. k) : V # {} => Best(V)  BY <1>2
      <3>1. PICK b \in U : \A j \in U : <<b, j>> \in R  BY <2>1, <2>4, <3>0
      <3>2. CASE k + 1 \notin T
        BY <3>1, <3>2
      <3>3. CASE k + 1 \in T /\ <<b, k + 1>> \in R
        BY <3>1, <3>3
      <3>4. CASE k + 1 \in T /\ <<b, k + 1>> \notin R
        <4>1. <<k + 1, b>> \in R /\ <<k + 1, k + 1>> \in R
          BY <2>2, <3>1, <3>4 DEF Ranks
        <4>2. \A j \in U : <<k + 1, j>> \in R  BY <2>2, <3>1, <3>4, <4>1 DEF Ranks
        <4> QED BY <3>4, <4>1, <4>2
      <3> QED BY <3>2, <3>3, <3>4
    <2> QED BY <2>3, <2>4
  <1> HIDE DEF K
  <1>3. n \in K  BY <1>1, <1>2, SetInduction
  <1> QED BY <1>3 DEF K

-----------------------------------------------------------------------------
(* The titles of a profile *)

\* What the lines of a battle have to share with the identity cards.
TitleOf(g) ==
  /\ g.motif # "scoreline"
  /\ g.motif = "stealth-mode" => g.id = "stealth_builder"
TraitOf(g) == g.motif \notin {"scoreline", "stealth-mode"}

\* The sixteen identities of the catalog.
LEMMA MogsonasKnown ==
  ASSUME NEW v
  PROVE  \A i \in DOMAIN MogsonaCatalog(v) :
           TitleOf(MogsonaCatalog(v)[i]) /\ MogsonaCatalog(v)[i].specificity \in Int
  <1>1. TitleOf(ArchivePaladin(v)) /\ ArchivePaladin(v).specificity \in Int
    BY DEF TitleOf, ArchivePaladin, Specialist
  <1>2. TitleOf(CiEnjoyer(v)) /\ CiEnjoyer(v).specificity \in Int
    BY DEF TitleOf, CiEnjoyer, Specialist
  <1>3. TitleOf(CommitGoblin(v)) /\ CommitGoblin(v).specificity \in Int
    BY DEF TitleOf, CommitGoblin, Specialist
  <1>4. TitleOf(MainBranchMenace(v)) /\ MainBranchMenace(v).specificity \in Int
    BY DEF TitleOf, MainBranchMenace, Specialist
  <1>5. TitleOf(MonorepoMaxxer(v)) /\ MonorepoMaxxer(v).specificity \in Int
    BY DEF TitleOf, MonorepoMaxxer, Specialist
  <1>6. TitleOf(OneRepoFinalBoss(v)) /\ OneRepoFinalBoss(v).specificity \in Int
    BY DEF TitleOf, OneRepoFinalBoss, Specialist
  <1>7. TitleOf(OssLandlord(v)) /\ OssLandlord(v).specificity \in Int
    BY DEF TitleOf, OssLandlord, Specialist
  <1>8. TitleOf(PolyglotMaxxer(v)) /\ PolyglotMaxxer(v).specificity \in Int
    BY DEF TitleOf, PolyglotMaxxer, Specialist
  <1>9. TitleOf(ReleaseGoblin(v)) /\ ReleaseGoblin(v).specificity \in Int
    BY DEF TitleOf, ReleaseGoblin, Specialist
  <1>10. TitleOf(RepoDad(v)) /\ RepoDad(v).specificity \in Int
    BY DEF TitleOf, RepoDad, Specialist
  <1>11. TitleOf(RepoGeneralist(v)) /\ RepoGeneralist(v).specificity \in Int
    BY DEF TitleOf, RepoGeneralist, Specialist
  <1>12. TitleOf(ShipGoblin(v)) /\ ShipGoblin(v).specificity \in Int
    BY DEF TitleOf, ShipGoblin, Specialist
  <1>13. TitleOf(StealthBuilder(v)) /\ StealthBuilder(v).specificity \in Int
    BY DEF TitleOf, StealthBuilder, Specialist
  <1>14. TitleOf(StructureMerchant(v)) /\ StructureMerchant(v).specificity \in Int
    BY DEF TitleOf, StructureMerchant, Specialist
  <1>15. TitleOf(SustainedGrinder(v)) /\ SustainedGrinder(v).specificity \in Int
    BY DEF TitleOf, SustainedGrinder, Specialist
  <1>16. TitleOf(TestPriest(v)) /\ TestPriest(v).specificity \in Int
    BY DEF TitleOf, TestPriest, Specialist
  <1> QED BY <1>1, <1>2, <1>3, <1>4, <1>5, <1>6, <1>7, <1>8, <1>9, <1>10, <1>11, <1>12, <1>13, <1>14, <1>15, <1>16 DEF MogsonaCatalog

\* The twelve traits of the catalog.
LEMMA LeaksKnown ==
  ASSUME NEW v
  PROVE  \A i \in DOMAIN LeakCatalog(v) :
           TraitOf(LeakCatalog(v)[i]) /\ LeakCatalog(v)[i].severity \in DOMAIN SeverityBonus
  <1>1. TraitOf(CodeHermit(v)) /\ CodeHermit(v).severity \in DOMAIN SeverityBonus
    BY DEF TraitOf, SeverityBonus, CodeHermit, Leak
  <1>2. TraitOf(CommitChaos(v)) /\ CommitChaos(v).severity \in DOMAIN SeverityBonus
    BY DEF TraitOf, SeverityBonus, CommitChaos, Leak
  <1>3. TraitOf(FixLoopEnjoyer(v)) /\ FixLoopEnjoyer(v).severity \in DOMAIN SeverityBonus
    BY DEF TraitOf, SeverityBonus, FixLoopEnjoyer, Leak
  <1>4. TraitOf(ForkliftOperator(v)) /\ ForkliftOperator(v).severity \in DOMAIN SeverityBonus
    BY DEF TraitOf, SeverityBonus, ForkliftOperator, Leak
  <1>5. TraitOf(FrameworkTourist(v)) /\ FrameworkTourist(v).severity \in DOMAIN SeverityBonus
    BY DEF TraitOf, SeverityBonus, FrameworkTourist, Leak
  <1>6. TraitOf(LocalhostMillionaire(v)) /\ LocalhostMillionaire(v).severity \in DOMAIN SeverityBonus
    BY DEF TraitOf, SeverityBonus, LocalhostMillionaire, Leak
  <1>7. TraitOf(ReadmeCeo(v)) /\ ReadmeCeo(v).severity \in DOMAIN SeverityBonus
    BY DEF TraitOf, SeverityBonus, ReadmeCeo, Leak
  <1>8. TraitOf(ReleaseAvoider(v)) /\ ReleaseAvoider(v).severity \in DOMAIN SeverityBonus
    BY DEF TraitOf, SeverityBonus, ReleaseAvoider, Leak
  <1>9. TraitOf(RepoGraveyard(v)) /\ RepoGraveyard(v).severity \in DOMAIN SeverityBonus
    BY DEF TraitOf, SeverityBonus, RepoGraveyard, Leak
  <1>10. TraitOf(SidequestCollector(v)) /\ SidequestCollector(v).severity \in DOMAIN SeverityBonus
    BY DEF TraitOf, SeverityBonus, SidequestCollector, Leak
  <1>11. TraitOf(SinglePointOfAura(v)) /\ SinglePointOfAura(v).severity \in DOMAIN SeverityBonus
    BY DEF TraitOf, SeverityBonus, SinglePointOfAura, Leak
  <1>12. TraitOf(YamlEngineer(v)) /\ YamlEngineer(v).severity \in DOMAIN SeverityBonus
    BY DEF TraitOf, SeverityBonus, YamlEngineer, Leak
  <1> QED BY <1>1, <1>2, <1>3, <1>4, <1>5, <1>6, <1>7, <1>8, <1>9, <1>10, <1>11, <1>12 DEF LeakCatalog

\* The strongest of some entries is one of them, whatever the strengths are.
LEMMA StrongestIsOne ==
  ASSUME NEW n \in Nat, NEW r \in [1 .. n -> Int], NEW S \in SUBSET (1 .. n), S # {}
  PROVE  Min({i \in S : \A j \in S : r[j] <= r[i]}) \in S
  <1> DEFINE R == {x \in (1 .. n) \X (1 .. n) : r[x[2]] <= r[x[1]]}
             T == {i \in S : \A j \in S : r[j] <= r[i]}
  <1>1. \A i, j \in 1 .. n : <<i, j>> \in R <=> r[j] <= r[i]  OBVIOUS
  <1> HIDE DEF R
  <1>2. \A i, j \in 1 .. n : <<i, j>> \in R \/ <<j, i>> \in R
    <2> SUFFICES ASSUME NEW i \in 1 .. n, NEW j \in 1 .. n
                 PROVE  <<i, j>> \in R \/ <<j, i>> \in R
      OBVIOUS
    <2>1. r[i] \in Int /\ r[j] \in Int  OBVIOUS
    <2> QED BY <1>1, <2>1
  <1>3. \A i, j, k \in 1 .. n : <<i, j>> \in R /\ <<j, k>> \in R => <<i, k>> \in R
    <2> SUFFICES ASSUME NEW i \in 1 .. n, NEW j \in 1 .. n, NEW k \in 1 .. n,
                        <<i, j>> \in R, <<j, k>> \in R
                 PROVE  <<i, k>> \in R
      OBVIOUS
    <2>1. r[j] <= r[i] /\ r[k] <= r[j]  BY <1>1
    <2>2. r[i] \in Int /\ r[j] \in Int /\ r[k] \in Int  OBVIOUS
    <2> QED BY <1>1, <2>1, <2>2
  <1>4. PICK b \in S : \A j \in S : <<b, j>> \in R
    <2>1. Ranks(R, n)  BY <1>2, <1>3 DEF Ranks
    <2> QED BY <2>1, BestExists
  <1>5. \A j \in S : r[j] <= r[b]
    <2>1. S \subseteq 1 .. n  OBVIOUS
    <2> QED BY <1>1, <1>4, <2>1
  <1>6. b \in T /\ T \in SUBSET Nat
    <2>1. b \in T  BY <1>5
    <2>2. \A i \in 1 .. n : i \in Nat  OBVIOUS
    <2>3. T \subseteq 1 .. n  OBVIOUS
    <2> QED BY <2>1, <2>2, <2>3
  <1> HIDE DEF T
  <1>7. PICK m \in T : \A k \in T : m <= k  BY <1>6, LeastNatural
  <1>8. Min(T) \in T  BY <1>7, Zenon DEF Min
  <1> QED BY <1>8 DEF T

\* Only the stealth builder is introduced with the joke about stealth, and no
\* identity card with the scoreline.
LEMMA TitlesKnown ==
  ASSUME NEW p \in Profiles
  PROVE  /\ Cards[p].motif # "scoreline"
         /\ Cards[p].motif = "stealth-mode" => Cards[p].mogsona = "stealth_builder"
         /\ Cards[p].leakMotif \notin {"scoreline", "stealth-mode"}
  <1> DEFINE card == Scorecard(Snapshots[p])
             v == IdentitySignals(card)
             mogsonas == MogsonaCatalog(v)
             leaks == LeakCatalog(v)
             qualified == {i \in DOMAIN mogsonas : Qualifies(card, v, mogsonas[i])}
             Named(id) == CHOOSE i \in DOMAIN mogsonas : mogsonas[i].id = id
             fallbacks == {Named("repo_generalist"), Named("stealth_builder")}
             given == IF qualified \ fallbacks # {}
                      THEN Strongest(mogsonas, qualified \ fallbacks, SignalScore)
                      ELSE IF Named("repo_generalist") \in qualified THEN RepoGeneralist(v)
                      ELSE StealthBuilder(v)
             teased == {i \in DOMAIN leaks : LeakQualifies(card, leaks[i])}
             leak == Strongest(leaks, teased, LAMBDA l : l.signal + SeverityBonus[l.severity])
             title == AssignIdentity(card)
  <1>1. /\ title.mogsona = given.id
        /\ title.motif = given.motif
        /\ title.leakMotif = IF teased = {} THEN "none" ELSE leak.motif
    BY Zenon DEF AssignIdentity, FromCatalogs, IdentityOf
  <1>2. TitleOf(given)
    <2>1. CASE qualified \ fallbacks # {}
      <3> DEFINE S == qualified \ fallbacks
                 r == [i \in 1 .. 16 |-> SignalScore(mogsonas[i])]
      <3>1. DOMAIN mogsonas = 1 .. 16  BY DEF MogsonaCatalog
      <3>2. \A i \in 1 .. 16 : mogsonas[i].signal \in Int /\ mogsonas[i].specificity \in Int
        BY <3>1, NumbersAssumption, MogsonasKnown
      <3>3. r \in [1 .. 16 -> Int]
        BY <3>2 DEF SignalScore, HalfUp
      <3>4. S \in SUBSET (1 .. 16)  BY <3>1
      <3>5. Strongest(mogsonas, S, SignalScore)
              = mogsonas[Min({i \in S : \A j \in S :
                                SignalScore(mogsonas[j]) <= SignalScore(mogsonas[i])})]
        BY DEF Strongest
      <3> HIDE DEF S, mogsonas
      <3>6. {i \in S : \A j \in S : SignalScore(mogsonas[j]) <= SignalScore(mogsonas[i])}
              = {i \in S : \A j \in S : r[j] <= r[i]}
        BY <3>4
      <3> HIDE DEF r
      <3>7. S # {}  BY <2>1 DEF S
      <3>8. Min({i \in S : \A j \in S : r[j] <= r[i]}) \in S
        BY <3>3, <3>4, <3>7, StrongestIsOne
      <3>9. given = Strongest(mogsonas, S, SignalScore)
        BY <2>1 DEF S, mogsonas
      <3> HIDE DEF given
      <3> QED BY <3>1, <3>4, <3>5, <3>6, <3>8, <3>9, MogsonasKnown DEF mogsonas
    <2>2. TitleOf(RepoGeneralist(v)) /\ TitleOf(StealthBuilder(v))
      BY DEF TitleOf, RepoGeneralist, StealthBuilder, Specialist
    <2> QED BY <2>1, <2>2
  <1>3. teased # {} => TraitOf(leak)
    <2> SUFFICES ASSUME teased # {} PROVE TraitOf(leak)  OBVIOUS
    <2> DEFINE r == [i \in 1 .. 12 |-> leaks[i].signal + SeverityBonus[leaks[i].severity]]
    <2>1. DOMAIN leaks = 1 .. 12  BY DEF LeakCatalog
    <2>2. \A i \in 1 .. 12 : /\ leaks[i].signal \in Int
                             /\ SeverityBonus[leaks[i].severity] \in Int
      <3>1. \A x \in DOMAIN SeverityBonus : SeverityBonus[x] \in Int
        BY DEF SeverityBonus
      <3> QED BY <2>1, <3>1, NumbersAssumption, LeaksKnown
    <2>3. r \in [1 .. 12 -> Int]  BY <2>2
    <2>4. teased \in SUBSET (1 .. 12)  BY <2>1
    <2>5. leak = leaks[Min({i \in teased : \A j \in teased :
                              leaks[j].signal + SeverityBonus[leaks[j].severity]
                                <= leaks[i].signal + SeverityBonus[leaks[i].severity]})]
      BY DEF Strongest
    <2> HIDE DEF teased, leaks
    <2>6. {i \in teased : \A j \in teased :
             leaks[j].signal + SeverityBonus[leaks[j].severity]
               <= leaks[i].signal + SeverityBonus[leaks[i].severity]}
            = {i \in teased : \A j \in teased : r[j] <= r[i]}
      BY <2>4
    <2> HIDE DEF r, leak
    <2>7. Min({i \in teased : \A j \in teased : r[j] <= r[i]}) \in teased
      BY <2>3, <2>4, StrongestIsOne
    <2> QED BY <2>1, <2>4, <2>5, <2>6, <2>7, LeaksKnown DEF leaks
  <1> HIDE DEF given, leak, teased, title, card
  <1> QED BY <1>1, <1>2, <1>3, AssessedKeeps DEF TitleOf, TraitOf, title, card

-----------------------------------------------------------------------------
(* The lines of a slot *)

\* The places of a page.
Slots == {"finisher", "matchup", "low-evidence", "summary", "round", "strength", "weakness"}

\* Whatever is said about stealth is said about thin evidence; and the scoreline
\* is no finisher.
Fitting(t) ==
  /\ t.motif = "stealth-mode" \/ t.id = "low" \/ t.slot = "low-evidence"
     => t.atoms = {"low_public_evidence"}
  /\ t.slot = "finisher" => t.id # "mat.margin.board"

\* All 156 lines do.
LEMMA TemplatesFit == \A t \in MemeTemplates : Fitting(t)
  <1>1. \A t \in MatchupsOfCraft : Fitting(t)
    BY DEF Fitting, MatchupsOfCraft, Phrased
  <1>2. \A t \in MatchupsOfConduct : Fitting(t)
    BY DEF Fitting, MatchupsOfConduct, Phrased
  <1>3. \A t \in MatchupsOfScale : Fitting(t)
    BY DEF Fitting, MatchupsOfScale, Phrased
  <1>4. \A t \in FinishersOfTooling : Fitting(t)
    BY DEF Fitting, FinishersOfTooling, Phrased
  <1>5. \A t \in FinishersOfShipping : Fitting(t)
    BY DEF Fitting, FinishersOfShipping, Phrased
  <1>6. \A t \in FinishersOfProjects : Fitting(t)
    BY DEF Fitting, FinishersOfProjects, Phrased
  <1>7. \A t \in FinishersOfUpkeep : Fitting(t)
    BY DEF Fitting, FinishersOfUpkeep, Phrased
  <1>8. \A t \in FinishersOfCadence : Fitting(t)
    BY DEF Fitting, FinishersOfCadence, Phrased
  <1>9. \A t \in FinishersOfContrast : Fitting(t)
    BY DEF Fitting, FinishersOfContrast, Phrased
  <1>10. \A t \in FirstTieFinishers : Fitting(t)
    BY DEF Fitting, FirstTieFinishers, Phrased
  <1>11. \A t \in SecondTieFinishers : Fitting(t)
    BY DEF Fitting, SecondTieFinishers, Phrased
  <1>12. \A t \in RoundsOfCraft : Fitting(t)
    BY DEF Fitting, RoundsOfCraft, Phrased, PhrasedFor
  <1>13. \A t \in RoundsOfShipping : Fitting(t)
    BY DEF Fitting, RoundsOfShipping, Phrased, PhrasedFor
  <1>14. \A t \in RoundsOfStructure : Fitting(t)
    BY DEF Fitting, RoundsOfStructure, Phrased, PhrasedFor
  <1>15. \A t \in StrengthsOfProjects : Fitting(t)
    BY DEF Fitting, StrengthsOfProjects, Phrased
  <1>16. \A t \in StrengthsOfPractice : Fitting(t)
    BY DEF Fitting, StrengthsOfPractice, Phrased
  <1>17. \A t \in WeaknessesOfProjects : Fitting(t)
    BY DEF Fitting, WeaknessesOfProjects, Phrased
  <1>18. \A t \in WeaknessesOfPractice : Fitting(t)
    BY DEF Fitting, WeaknessesOfPractice, Phrased
  <1>19. \A t \in LowEvidence : Fitting(t)
    BY DEF Fitting, LowEvidence, Phrased
  <1>20. \A t \in SummariesOfTheBoard : Fitting(t)
    BY DEF Fitting, SummariesOfTheBoard, Phrased
  <1>21. \A t \in SummariesOfEvidence : Fitting(t)
    BY DEF Fitting, SummariesOfEvidence, Phrased
  <1> QED
    BY <1>1, <1>2, <1>3, <1>4, <1>5, <1>6, <1>7, <1>8, <1>9, <1>10, <1>11, <1>12, <1>13, <1>14, <1>15, <1>16, <1>17, <1>18, <1>19, <1>20, <1>21
    DEF MemeTemplates

\* The board: the scoreline, which is always true; and the caveat.
Board == [id |-> "mat.margin.board", slot |-> "matchup", atoms |-> {"verdict_margin"},
          motif |-> "scoreline", category |-> "any", copies |-> 1]
Caveat == [id |-> "low", slot |-> "low-evidence", atoms |-> {"low_public_evidence"},
           motif |-> "stealth-mode", category |-> "any", copies |-> 8]

\* A row of the table is a line, as the table has it.
LEMMA RowIsLine ==
  ASSUME NEW slot, NEW rows, NEW r \in rows
  PROVE  [id |-> r[1], slot |-> slot, atoms |-> r[2], motif |-> r[3], category |-> "any",
          copies |-> 1] \in Phrased(slot, rows)
  BY DEF Phrased

\* The place of a row is that of its table.
LEMMA RowHasSlot ==
  ASSUME NEW slot, NEW rows, NEW r \in rows
  PROVE  \E t \in Phrased(slot, rows) : t.slot = slot
  <1> DEFINE t == [id |-> r[1], slot |-> slot, atoms |-> r[2], motif |-> r[3],
                   category |-> "any", copies |-> 1]
  <1>1. t \in Phrased(slot, rows)  BY RowIsLine
  <1>2. t.slot = slot  OBVIOUS
  <1> QED BY <1>1, <1>2

\* Both are among the lines.
LEMMA BoardAndCaveat == Board \in MemeTemplates /\ Caveat \in MemeTemplates
  <1>1. Board \in MatchupsOfScale
    <2> DEFINE row == <<"mat.margin.board", {"verdict_margin"}, "scoreline">>
    <2>1. row[1] = "mat.margin.board" /\ row[2] = {"verdict_margin"} /\ row[3] = "scoreline"
      OBVIOUS
    <2> HIDE DEF row
    <2>2. \A rows : row \in rows => Board \in Phrased("matchup", rows)
      BY <2>1, RowIsLine DEF Board
    <2> QED BY <2>2 DEF MatchupsOfScale, row
  <1>2. Caveat \in LowEvidence
    <2> DEFINE row == <<"low", {"low_public_evidence"}, "stealth-mode">>
               plain == [id |-> row[1], slot |-> "low-evidence", atoms |-> row[2],
                         motif |-> row[3], category |-> "any", copies |-> 1]
    <2>1. plain \in Phrased("low-evidence", {row})
      BY RowIsLine, Zenon
    <2>2. Caveat = [plain EXCEPT !.copies = 8]  BY DEF Caveat
    <2> HIDE DEF plain
    <2> QED BY <2>1, <2>2 DEF LowEvidence
  <1> QED BY <1>1, <1>2 DEF MemeTemplates

\* Every place of the page has lines.
LEMMA SlotsHaveLines ==
  ASSUME NEW slot \in Slots
  PROVE  TemplatesOf[slot] = {t \in MemeTemplates : t.slot = slot}
  <1>2. \E t \in FinishersOfTooling : t.slot = "finisher"
    BY RowHasSlot DEF FinishersOfTooling
  <1>3. \E t \in RoundsOfCraft : t.slot = "round"
    <2>1. ASSUME NEW category, NEW rows, NEW r \in rows
          PROVE  \E t \in PhrasedFor(category, rows) : t.slot = "round"
      <3> DEFINE t == [id |-> r[1], slot |-> "round", atoms |-> r[2], motif |-> r[3],
                       category |-> "any", copies |-> 1]
                 u == [t EXCEPT !.category = category]
      <3>1. t \in Phrased("round", rows)  BY RowIsLine
      <3>2. u.slot = "round"  OBVIOUS
      <3> HIDE DEF t
      <3>3. u \in PhrasedFor(category, rows)  BY <3>1 DEF PhrasedFor
      <3> QED BY <3>2, <3>3
    <2> DEFINE row == <<"rnd.testing.clear", {"round_clear_win"}, "round-testing">>
    <2>2. \A rows : row \in rows => \E t \in PhrasedFor("craft.testing", rows) : t.slot = "round"
      BY <2>1, Zenon
    <2> HIDE DEF row
    <2> QED BY <2>2 DEF RoundsOfCraft, row
  <1>4. \E t \in StrengthsOfProjects : t.slot = "strength"
    BY RowHasSlot DEF StrengthsOfProjects
  <1>5. \E t \in WeaknessesOfProjects : t.slot = "weakness"
    BY RowHasSlot DEF WeaknessesOfProjects
  <1>6. \E t \in SummariesOfTheBoard : t.slot = "summary"
    BY RowHasSlot DEF SummariesOfTheBoard
  <1>7. \E t \in MemeTemplates : t.slot = slot
    BY <1>2, <1>3, <1>4, <1>5, <1>6, BoardAndCaveat DEF MemeTemplates, Slots, Board, Caveat
  <1> QED BY <1>7 DEF TemplatesOf

-----------------------------------------------------------------------------
(* The facts of a battle are those of its two sides *)

\* The opponent of a side.
Other(side) == IF side = "left" THEN "right" ELSE "left"

\* The battle is one of those that may be.
Fought ==
  \E m \in Matches, roast \in {"clean", "spicy"} :
    fight = Fight(m[1], m[2], Cards[m[1]], Cards[m[2]], roast)

\* The margins its slots are told with.
RoundsShown == {i \in DOMAIN Categories : RoundOf(Categories[i]).winner # "unscored"}
Margins == {Margin} \cup {RoundOf(Categories[i]).margin : i \in RoundsShown}

\* The atoms of a side are about s, the side, and o, the other one.
About(side, margin, s, o) ==
  /\ Numbers(s) /\ Numbers(o)
  /\ AtomsFor(side, margin) = MemeAtomsOf(s, o, margin)
  /\ s.confidence = CardOf(side).confidence.score
  /\ o.confidence = CardOf(Other(side)).confidence.score
  /\ o.analyzed = CardOf(Other(side)).confidence.analyzed

\* A battle shows of both sides what their cards say.
LEMMA FightShows ==
  ASSUME NEW p, NEW q, NEW left, NEW right, NEW roast, fight = Fight(p, q, left, right, roast)
  PROVE  /\ CardOf("left") = Shown(p, left) /\ CardOf("right") = Shown(q, right)
         /\ fight.left = Shown(p, left) /\ fight.right = Shown(q, right)
         /\ fight.roast = roast
         /\ \A card, r : /\ Shown(r, card).profile = r
                         /\ Shown(r, card).overall = card.overall
                         /\ Shown(r, card).confidence = card.confidence
                         /\ Shown(r, card).mogsona = card.mogsona
                         /\ Shown(r, card).motif = card.motif
                         /\ Shown(r, card).leakMotif = card.leakMotif
                         /\ Shown(r, card).scores = [c \in DOMAIN card.category |-> card.category[c].score]
  <1>1. CardOf("left") = fight.left /\ CardOf("right") = fight.right
    BY DEF CardOf
  <1>2. fight.left = Shown(p, left) /\ fight.right = Shown(q, right) /\ fight.roast = roast
    BY DEF Fight
  <1> QED BY <1>1, <1>2 DEF Shown

\* Both sides have a score in the same categories, a number each.
LEMMA ScoresKnown ==
  ASSUME Fought
  PROVE  \E m \in Matches :
           /\ m \in Profiles \X Profiles /\ m = <<m[1], m[2]>>
           /\ fight.left = Shown(m[1], Cards[m[1]]) /\ fight.right = Shown(m[2], Cards[m[2]])
           /\ CardOf("left") = fight.left /\ CardOf("right") = fight.right
           /\ fight.roast \in {"clean", "spicy"}
           /\ fight.left.overall \in Int /\ fight.right.overall \in Int
           /\ fight.left.overall = Cards[m[1]].overall /\ fight.right.overall = Cards[m[2]].overall
           /\ fight.left.confidence.score \in Int /\ fight.right.confidence.score \in Int
           /\ fight.left.confidence.analyzed \in Int /\ fight.right.confidence.analyzed \in Int
           /\ DOMAIN Cards[m[1]].category = {Categories[i] : i \in DOMAIN Categories}
           /\ \A i \in DOMAIN Categories :
                LET c == Categories[i]
                IN /\ fight.left.scores[c] = Cards[m[1]].category[c].score
                   /\ fight.right.scores[c] = Cards[m[2]].category[c].score
                   /\ fight.left.scores[c] \in Int /\ fight.right.scores[c] \in Int
  <1>1. PICK m \in Matches, roast \in {"clean", "spicy"} :
          fight = Fight(m[1], m[2], Cards[m[1]], Cards[m[2]], roast)
    BY DEF Fought
  <1>2. m \in Profiles \X Profiles /\ m = <<m[1], m[2]>> /\ m[1] \in Profiles /\ m[2] \in Profiles
    BY MatchesAssumption
  <1>3. /\ fight.left = Shown(m[1], Cards[m[1]]) /\ fight.right = Shown(m[2], Cards[m[2]])
        /\ CardOf("left") = fight.left /\ CardOf("right") = fight.right
        /\ fight.roast \in {"clean", "spicy"}
    BY <1>1, FightShows
  <1>4. \A r, card : /\ Shown(r, card).overall = card.overall
                     /\ Shown(r, card).confidence = card.confidence
                     /\ Shown(r, card).scores = [c \in DOMAIN card.category |-> card.category[c].score]
    BY DEF Shown
  <1>5. \A p \in Profiles :
          /\ Cards[p].overall \in Int
          /\ Cards[p].confidence \in [score : Int, analyzed : Int, coverage : Int, basis : Int]
    BY AssessedKeeps, NumbersAssumption
  <1>6. \A p \in Profiles :
          /\ DOMAIN Cards[p].category = {Categories[i] : i \in DOMAIN Categories}
          /\ \A x \in DOMAIN Cards[p].category : Cards[p].category[x].score \in Int
    BY DiagnosticsFields
  <1>7. \A p \in Profiles, i \in DOMAIN Categories :
          /\ Categories[i] \in DOMAIN Cards[p].category
          /\ Shown(p, Cards[p]).scores[Categories[i]] = Cards[p].category[Categories[i]].score
          /\ Shown(p, Cards[p]).scores[Categories[i]] \in Int
    <2> TAKE p \in Profiles, i \in DOMAIN Categories
    <2> DEFINE c == Categories[i]
               card == Cards[p]
               scores == [x \in DOMAIN card.category |-> card.category[x].score]
    <2>1. c \in DOMAIN card.category  BY <1>6
    <2>2. Shown(p, card).scores = scores  BY <1>4
    <2>3. card.category[c].score \in Int  BY <1>6, <2>1
    <2> HIDE DEF c, card
    <2>4. scores[c] = card.category[c].score  BY <2>1
    <2> HIDE DEF scores
    <2>5. Shown(p, card).scores[c] = card.category[c].score  BY <2>2, <2>4
    <2> QED BY <2>1, <2>3, <2>5 DEF c, card
  <1> HIDE DEF Cards
  <1>8. /\ fight.left.overall \in Int /\ fight.right.overall \in Int
        /\ fight.left.overall = Cards[m[1]].overall /\ fight.right.overall = Cards[m[2]].overall
        /\ fight.left.confidence.score \in Int /\ fight.right.confidence.score \in Int
        /\ fight.left.confidence.analyzed \in Int /\ fight.right.confidence.analyzed \in Int
    BY <1>2, <1>3, <1>4, <1>5
  <1>9. \A i \in DOMAIN Categories :
          LET c == Categories[i]
          IN /\ fight.left.scores[c] = Cards[m[1]].category[c].score
             /\ fight.right.scores[c] = Cards[m[2]].category[c].score
             /\ fight.left.scores[c] \in Int /\ fight.right.scores[c] \in Int
    BY <1>2, <1>3, <1>7
  <1> QED BY <1>2, <1>3, <1>6, <1>8, <1>9

\* How far two numbers are apart.
LEMMA ApartInts ==
  ASSUME NEW x \in Int, NEW y \in Int
  PROVE  /\ Apart(x, y) \in Int
         /\ x >= y => Apart(x, y) = x - y
         /\ y >= x => Apart(x, y) = y - x
  <1> DEFINE a == x - y
             b == y - x
  <1>1. a \in Int /\ b \in Int  OBVIOUS
  <1>2. Max({a, b}) \in {a, b} /\ a <= Max({a, b}) /\ b <= Max({a, b})
    BY <1>1, MaxOfInts
  <1>3. Apart(x, y) = Max({a, b})  BY DEF Apart
  <1> QED BY <1>1, <1>2, <1>3

\* The margin of the battle and those of its rounds are numbers.
LEMMA MarginsKnown ==
  ASSUME Fought
  PROVE  /\ Margins \subseteq Int
         /\ Margin = 10 * Apart(fight.left.overall, fight.right.overall)
         /\ \A i \in RoundsShown :
              LET left == fight.left.scores[Categories[i]]
                  right == fight.right.scores[Categories[i]]
              IN /\ RoundOf(Categories[i]).winner = Ahead(left, right)
                 /\ RoundOf(Categories[i]).margin = Apart(left, right)
  <1>1. /\ CardOf("left") = fight.left /\ CardOf("right") = fight.right
        /\ fight.left.overall \in Int /\ fight.right.overall \in Int
        /\ \A i \in DOMAIN Categories : /\ fight.left.scores[Categories[i]] \in Int
                                        /\ fight.right.scores[Categories[i]] \in Int
    BY ScoresKnown
  <1>2. Margin = 10 * Apart(fight.left.overall, fight.right.overall) /\ Margin \in Int
    <2>1. Apart(fight.left.overall, fight.right.overall) \in Int  BY <1>1, ApartInts
    <2>2. Margin = 10 * Apart(fight.left.overall, fight.right.overall)  BY DEF Margin, MarginOf
    <2> QED BY <2>1, <2>2
  <1>3. ASSUME NEW i \in RoundsShown
        PROVE  LET left == fight.left.scores[Categories[i]]
                   right == fight.right.scores[Categories[i]]
               IN /\ RoundOf(Categories[i]).winner = Ahead(left, right)
                  /\ RoundOf(Categories[i]).margin = Apart(left, right)
                  /\ RoundOf(Categories[i]).margin \in Int
    <2> DEFINE left == fight.left.scores[Categories[i]]
               right == fight.right.scores[Categories[i]]
               round == RoundOf(Categories[i])
    <2>1. round = IF left = None \/ right = None THEN [winner |-> "unscored", margin |-> 0]
                  ELSE [winner |-> Ahead(left, right), margin |-> Apart(left, right)]
      BY <1>1 DEF RoundOf
    <2>2. i \in DOMAIN Categories /\ round.winner # "unscored"  BY DEF RoundsShown
    <2>3. left \in Int /\ right \in Int  BY <1>1, <2>2
    <2> HIDE DEF left, right, round
    <2>4. round = [winner |-> Ahead(left, right), margin |-> Apart(left, right)]
      BY <2>1, <2>2
    <2>5. round.winner = Ahead(left, right) /\ round.margin = Apart(left, right)
          /\ round.margin \in Int
      BY <2>3, <2>4, ApartInts
    <2> QED BY <2>5 DEF left, right, round
  <1>4. \A i \in RoundsShown : RoundOf(Categories[i]).margin \in Int  BY <1>3
  <1>5. Margins \subseteq Int  BY <1>2, <1>4 DEF Margins
  <1> QED BY <1>2, <1>3, <1>5

\* Whatever margin a slot is told with, its facts are about the two sides.
LEMMA FactsAbout ==
  ASSUME Fought, NEW side \in Sides, NEW margin \in Margins
  PROVE  \E s, o : About(side, margin, s, o)
  <1>1. PICK m \in Matches :
           /\ m \in Profiles \X Profiles /\ m = <<m[1], m[2]>>
           /\ fight.left = Shown(m[1], Cards[m[1]]) /\ fight.right = Shown(m[2], Cards[m[2]])
           /\ CardOf("left") = fight.left /\ CardOf("right") = fight.right
           /\ fight.left.overall = Cards[m[1]].overall /\ fight.right.overall = Cards[m[2]].overall
           /\ DOMAIN Cards[m[1]].category = {Categories[i] : i \in DOMAIN Categories}
           /\ \A i \in DOMAIN Categories :
                LET c == Categories[i]
                IN /\ fight.left.scores[c] = Cards[m[1]].category[c].score
                   /\ fight.right.scores[c] = Cards[m[2]].category[c].score
    BY ScoresKnown
  <1> DEFINE lc == Cards[m[1]]
             rc == Cards[m[2]]
             l == View(lc)
             r == View(rc)
  <1>2. margin \in MarginsOf(lc, rc)
    <2>1. CASE margin = Margin
      BY <1>1, <2>1 DEF Margin, MarginOf, MarginsOf
    <2>2. CASE \E i \in RoundsShown : margin = RoundOf(Categories[i]).margin
      <3>1. PICK i \in RoundsShown : margin = RoundOf(Categories[i]).margin  BY <2>2
      <3>2. i \in DOMAIN Categories  BY DEF RoundsShown
      <3>3. margin = Apart(fight.left.scores[Categories[i]], fight.right.scores[Categories[i]])
        BY <3>1, MarginsKnown
      <3>4. Categories[i] \in DOMAIN lc.category  BY <1>1, <3>2
      <3>5. margin = Apart(lc.category[Categories[i]].score, rc.category[Categories[i]].score)
        BY <1>1, <3>2, <3>3
      <3> HIDE DEF lc, rc
      <3> QED BY <3>4, <3>5 DEF MarginsOf
    <2> QED BY <2>1, <2>2 DEF Margins
  <1>3. Facts[<<m[1], m[2]>>] = AtomsBetween(l, r, MarginsOf(lc, rc))
    BY <1>1 DEF Facts, FactsOf
  <1>4. Facts[<<m[1], m[2]>>][margin] = [left |-> MemeAtomsOf(l, r, margin),
                                         right |-> MemeAtomsOf(r, l, margin)]
    <2> HIDE DEF lc, rc, l, r
    <2> QED BY <1>2, <1>3 DEF AtomsBetween
  <1>5. fight.left.profile = m[1] /\ fight.right.profile = m[2]
    BY <1>1 DEF Shown
  <1>6. /\ AtomsFor("left", margin) = MemeAtomsOf(l, r, margin)
        /\ AtomsFor("right", margin) = MemeAtomsOf(r, l, margin)
    BY <1>4, <1>5 DEF AtomsFor
  <1>7. /\ Numbers(l) /\ Numbers(r)
        /\ l.confidence = lc.confidence.score /\ r.confidence = rc.confidence.score
        /\ l.analyzed = lc.confidence.analyzed /\ r.analyzed = rc.confidence.analyzed
    BY <1>1, ViewNumbers
  <1>8. fight.left.confidence = lc.confidence /\ fight.right.confidence = rc.confidence
    BY <1>1 DEF Shown
  <1>9. CASE side = "left"
    <2> HIDE DEF l, r, lc, rc
    <2>1. CardOf(Other("left")) = fight.right  BY <1>1 DEF Other
    <2>2. About("left", margin, l, r)
      BY <1>1, <1>6, <1>7, <1>8, <2>1 DEF About
    <2> QED BY <1>9, <2>2
  <1>10. CASE side = "right"
    <2> HIDE DEF l, r, lc, rc
    <2>1. CardOf(Other("right")) = fight.left  BY <1>1 DEF Other
    <2>2. About("right", margin, r, l)
      BY <1>1, <1>6, <1>7, <1>8, <2>1 DEF About
    <2> QED BY <1>10, <2>2
  <1> QED BY <1>9, <1>10 DEF Sides

-----------------------------------------------------------------------------
(* What is selected for a slot *)

\* The atoms that can be told in a slot.
Candidates(atoms, slot, category) ==
  {i \in Firing(atoms, fight.roast) :
     /\ slot \in atoms[i].slots
     /\ AtomUses(atoms[i].id) < atoms[i].repetitions
     /\ LinesFor(atoms[i], slot, category) # {}}

\* A template told of an atom.
Told(t, atom) == [template |-> t.id, motif |-> t.motif, atom |-> atom.id]

\* The lines of a slot are all those of one candidate, if there is any.
LEMMA LinesOfOne ==
  ASSUME NEW n \in Nat, NEW atoms, DOMAIN atoms = 1 .. n,
         \A i \in 1 .. n : atoms[i].priority \in Int /\ atoms[i].intensity \in Int,
         NEW slot, NEW category
  PROVE  IF Candidates(atoms, slot, category) = {} THEN LinesOfBest(atoms, slot, category) = {}
         ELSE \E i \in Candidates(atoms, slot, category) :
                LinesOfBest(atoms, slot, category)
                  = {Told(t, atoms[i]) : t \in LinesFor(atoms[i], slot, category)}
  <1> DEFINE open == {j \in Firing(atoms, fight.roast) :
                        slot \in atoms[j].slots /\ AtomUses(atoms[j].id) < atoms[j].repetitions}
             lines == [i \in open |-> LinesFor(atoms[i], slot, category)]
             candidates == {i \in DOMAIN lines : lines[i] # {}}
             Rank(i) == atoms[i].priority + Part(atoms[i].theme = fight.theme, ThemeBoost)
             Before(i, j) == \/ Rank(i) > Rank(j)
                             \/ Rank(i) = Rank(j) /\ atoms[i].intensity > atoms[j].intensity
                             \/ /\ Rank(i) = Rank(j) /\ atoms[i].intensity = atoms[j].intensity
                                /\ i <= j
             best == CHOOSE i \in candidates : \A j \in candidates : Before(i, j)
  <1>1. LinesOfBest(atoms, slot, category)
          = IF candidates = {} THEN {}
            ELSE {[template |-> t.id, motif |-> t.motif, atom |-> atoms[best].id] : t \in lines[best]}
    BY DEF LinesOfBest
  <1>2. candidates = Candidates(atoms, slot, category)
    BY DEF Candidates
  <1>3. candidates \subseteq 1 .. n
    BY DEF Firing
  <1>4. \A i \in candidates : i \in open
    OBVIOUS
  <1>5. \A i \in 1 .. n : Rank(i) \in Int /\ atoms[i].intensity \in Int
    BY DEF Part, ThemeBoost
  <1> HIDE DEF Rank, candidates, open
  <1> DEFINE R == {x \in (1 .. n) \X (1 .. n) : Before(x[1], x[2])}
  <1>6. \A i, j \in 1 .. n : <<i, j>> \in R <=> Before(i, j)
    OBVIOUS
  <1> HIDE DEF R
  <1>7. Ranks(R, n)
    <2>1. ASSUME NEW i \in 1 .. n, NEW j \in 1 .. n
          PROVE  <<i, j>> \in R \/ <<j, i>> \in R
      <3>1. /\ Rank(i) \in Int /\ Rank(j) \in Int
            /\ atoms[i].intensity \in Int /\ atoms[j].intensity \in Int
        BY <1>5
      <3>2. Before(i, j) \/ Before(j, i)  BY <3>1
      <3> HIDE DEF Before
      <3> QED BY <1>6, <3>2
    <2>2. ASSUME NEW i \in 1 .. n, NEW j \in 1 .. n, NEW k \in 1 .. n,
                 <<i, j>> \in R, <<j, k>> \in R
          PROVE  <<i, k>> \in R
      <3>1. /\ Rank(i) \in Int /\ Rank(j) \in Int /\ Rank(k) \in Int
            /\ atoms[i].intensity \in Int /\ atoms[j].intensity \in Int
            /\ atoms[k].intensity \in Int
        BY <1>5
      <3>2. Before(i, j) /\ Before(j, k)
        <4> HIDE DEF Before
        <4> QED BY <1>6, <2>2
      <3>3. Before(i, k)  BY <3>1, <3>2
      <3> HIDE DEF Before
      <3> QED BY <1>6, <3>3
    <2> QED BY <2>1, <2>2 DEF Ranks
  <1>8. CASE candidates = {}
    BY <1>1, <1>2, <1>8
  <1>9. CASE candidates # {}
    <2>1. PICK b \in candidates : \A j \in candidates : <<b, j>> \in R
      BY <1>3, <1>7, <1>9, BestExists
    <2> HIDE DEF Before
    <2>2. \A j \in candidates : Before(b, j)
      BY <1>3, <1>6, <2>1
    <2>3. best \in candidates
      BY <2>1, <2>2, Zenon
    <2> HIDE DEF best
    <2>4. lines[best] = LinesFor(atoms[best], slot, category)
      BY <1>4, <2>3
    <2> HIDE DEF lines
    <2>5. LinesOfBest(atoms, slot, category)
            = {Told(t, atoms[best]) : t \in LinesFor(atoms[best], slot, category)}
      BY <1>1, <1>9, <2>4 DEF Told
    <2> QED BY <1>2, <1>9, <2>3, <2>5
  <1> QED BY <1>8, <1>9

\* There are 43 atoms.
LEMMA AtomsAreCounted ==
  ASSUME NEW s, NEW o, NEW margin
  PROVE  DOMAIN MemeAtomsOf(s, o, margin) = 1 .. 43
  BY DEF MemeAtomsOf

\* The templates an atom can be told with, the generic ones included.
Matching(atom, slot, category) ==
  {t \in MemeTemplates : /\ t.slot = slot
                         /\ atom.id \in t.atoms
                         /\ TemplateUses(t) < t.copies
                         /\ MotifUses(t.motif) < MotifBudget
                         /\ t.category \in {"any", category}}

\* Its lines are among them, and are none only if they are none.
LEMMA LinesMatch ==
  ASSUME NEW atom, NEW slot \in Slots, NEW category
  PROVE  /\ LinesFor(atom, slot, category) \subseteq Matching(atom, slot, category)
         /\ Matching(atom, slot, category) # {} => LinesFor(atom, slot, category) # {}
  <1> DEFINE matching == {t \in TemplatesOf[slot] : /\ atom.id \in t.atoms
                                                    /\ TemplateUses(t) < t.copies
                                                    /\ MotifUses(t.motif) < MotifBudget
                                                    /\ t.category \in {"any", category}}
             specific == {t \in matching : t.category # "any"}
  <1>1. matching = Matching(atom, slot, category)
    BY SlotsHaveLines, Zenon DEF Matching
  <1>2. LinesFor(atom, slot, category) = IF specific # {} THEN specific ELSE matching
    BY Zenon DEF LinesFor
  <1>3. specific \subseteq matching  OBVIOUS
  <1> HIDE DEF matching, specific
  <1> QED BY <1>1, <1>2, <1>3

\* A selected line is one of the templates of its slot, told of an atom that
\* fires; neither its premise nor its fact is spent.
Justified(line, slot, s, o, margin) ==
  \E a, t : /\ t \in MemeTemplates
            /\ t.slot = slot
            /\ line = Told(t, a)
            /\ a.id \in t.atoms
            /\ Sound(a, s, o, margin)
            /\ slot \in a.slots
            /\ a.intensity # None
            /\ AtomUses(a.id) < RepetitionsOf(a.id)
            /\ MotifUses(t.motif) < MotifBudget

\* Every line that can be selected is.
LEMMA LineIsJustified ==
  ASSUME Fought, NEW side \in Sides, NEW margin \in Margins, NEW s, NEW o,
         About(side, margin, s, o), NEW slot \in Slots, NEW category,
         NEW line \in Select(slot, category, side, margin)
  PROVE  Justified(line, slot, s, o, margin)
  <1> DEFINE atoms == AtomsFor(side, margin)
  <1>1. /\ Numbers(s) /\ Numbers(o) /\ margin \in Int
        /\ atoms = MemeAtomsOf(s, o, margin)
    BY MarginsKnown DEF About
  <1>2. DOMAIN atoms = 1 .. 43
    BY <1>1, AtomsAreCounted
  <1>3. \A i \in 1 .. 43 : Sound(atoms[i], s, o, margin)
    BY <1>1, <1>2, SoundAtoms
  <1>4. \A i \in 1 .. 43 : atoms[i].priority \in Int /\ atoms[i].intensity \in Int
    BY <1>3 DEF Sound
  <1>5. line \in LinesOfBest(atoms, slot, category)
    BY DEF Select
  <1> HIDE DEF atoms
  <1>6. PICK i \in Candidates(atoms, slot, category) :
          line \in {Told(t, atoms[i]) : t \in LinesFor(atoms[i], slot, category)}
    <2>1. PICK c \in Candidates(atoms, slot, category) : TRUE
      BY <1>2, <1>4, <1>5, LinesOfOne
    <2>2. PICK i \in Candidates(atoms, slot, category) :
            LinesOfBest(atoms, slot, category)
              = {Told(t, atoms[i]) : t \in LinesFor(atoms[i], slot, category)}
      BY <1>2, <1>4, <2>1, LinesOfOne
    <2> QED BY <1>5, <2>2
  <1>7. PICK t \in LinesFor(atoms[i], slot, category) : line = Told(t, atoms[i])
    BY <1>6
  <1>8. /\ i \in 1 .. 43 /\ atoms[i].intensity # None
        /\ slot \in atoms[i].slots
        /\ AtomUses(atoms[i].id) < atoms[i].repetitions
    BY <1>2, <1>6 DEF Candidates, Firing
  <1>9. atoms[i].repetitions = RepetitionsOf(atoms[i].id)
    BY <1>3, <1>8 DEF Sound
  <1>10. t \in Matching(atoms[i], slot, category)
    BY <1>7, LinesMatch
  <1>11. /\ t \in MemeTemplates /\ t.slot = slot /\ atoms[i].id \in t.atoms
         /\ MotifUses(t.motif) < MotifBudget
    BY <1>10 DEF Matching
  <1> QED BY <1>3, <1>7, <1>8, <1>9, <1>11 DEF Justified

\* A slot gets a line when one of its atoms fires and has a template left.
LEMMA LineIsThere ==
  ASSUME Fought, NEW side \in Sides, NEW margin \in Margins, NEW s, NEW o,
         About(side, margin, s, o), NEW slot \in Slots, NEW category,
         NEW i \in 1 .. 43,
         LET a == MemeAtomsOf(s, o, margin)[i]
         IN /\ a.intensity # None /\ a.spicy = FALSE
            /\ slot \in a.slots
            /\ AtomUses(a.id) < a.repetitions
            /\ Matching(a, slot, category) # {}
  PROVE  Select(slot, category, side, margin) # {}
  <1> DEFINE atoms == AtomsFor(side, margin)
  <1>1. /\ Numbers(s) /\ Numbers(o) /\ margin \in Int
        /\ atoms = MemeAtomsOf(s, o, margin)
    BY MarginsKnown DEF About
  <1>2. DOMAIN atoms = 1 .. 43
    BY <1>1, AtomsAreCounted
  <1>3. \A j \in 1 .. 43 : atoms[j].priority \in Int /\ atoms[j].intensity \in Int
    BY <1>1, <1>2, SoundAtoms DEF Sound
  <1>4. Select(slot, category, side, margin) = LinesOfBest(atoms, slot, category)
    BY DEF Select
  <1>5. /\ atoms[i].intensity # None /\ atoms[i].spicy = FALSE
        /\ slot \in atoms[i].slots
        /\ AtomUses(atoms[i].id) < atoms[i].repetitions
        /\ Matching(atoms[i], slot, category) # {}
    BY <1>1
  <1> HIDE DEF atoms
  <1>6. LinesFor(atoms[i], slot, category) # {}
    BY <1>5, LinesMatch
  <1>7. i \in Candidates(atoms, slot, category)
    BY <1>2, <1>5, <1>6 DEF Candidates, Firing
  <1>8. PICK j \in Candidates(atoms, slot, category) :
          LinesOfBest(atoms, slot, category)
            = {Told(t, atoms[j]) : t \in LinesFor(atoms[j], slot, category)}
    BY <1>2, <1>3, <1>7, LinesOfOne
  <1>9. LinesFor(atoms[j], slot, category) # {}
    BY DEF Candidates
  <1> QED BY <1>4, <1>8, <1>9

-----------------------------------------------------------------------------
(* Where a line may be put, and what it says there *)

\* A page tells a slot from one of the sides and with one of the margins: a
\* round with its own, everything else with that of the battle.
Place(slot, of, side, margin) ==
  /\ slot \in Slots /\ side \in Sides /\ margin \in Margins
  /\ slot # "round" => margin = Margin
  /\ slot \in {"finisher", "matchup", "summary"} => side = WinningSide
  /\ slot = "round" => \E i \in RoundsShown : of = Categories[i] /\ margin = RoundOf(of).margin

\* A line that was selected, put where it belongs.
Proper(l) ==
  \E line, slot, of, side, margin, s, o :
    /\ Place(slot, of, side, margin)
    /\ About(side, margin, s, o)
    /\ Justified(line, slot, s, o, margin)
    /\ l = Placed(line, slot, of)

\* A line on the page is one of the templates.
FromTemplate(l) ==
  \E t \in MemeTemplates :
    t.slot = l.slot /\ t.id = l.template /\ t.motif = l.motif /\ l.atom \in t.atoms

\* What WordsMatchNumbers asks of one line.
Worded(l) ==
  /\ l.atom = "nuclear_gap" => ClassifyVerdict(Margin) = "nuclear-repo-gap"
  /\ l.atom = "photo_finish" => ClassifyVerdict(Margin) \in {"photo-finish", "mutual-aura"}
  /\ l.atom = "public_evidence_diff" => EvidenceDiff = WinningSide
  /\ l.slot = "round" => /\ RoundOf(l.of).winner # "unscored"
                         /\ l.atom = "round_tie" => RoundOf(l.of).winner = "tie"
                         /\ l.atom \in {"round_clear_win", "round_close_win"}
                            => RoundOf(l.of).winner \in Sides

\* A line put in its place says what was selected.
LEMMA PlacedFields ==
  ASSUME NEW t, NEW a, NEW slot, NEW of
  PROVE  LET l == Placed(Told(t, a), slot, of)
         IN /\ l.slot = slot /\ l.of = of
            /\ l.template = t.id /\ l.motif = t.motif /\ l.atom = a.id
  <1> DEFINE f == [slot |-> slot, of |-> of]
             g == Told(t, a)
  <1>1. DOMAIN f = {"slot", "of"} /\ f["slot"] = slot /\ f["of"] = of  OBVIOUS
  <1>2. /\ DOMAIN g = {"template", "motif", "atom"}
        /\ g["template"] = t.id /\ g["motif"] = t.motif /\ g["atom"] = a.id
    BY DEF Told
  <1>3. Placed(g, slot, of) = Joined(f, g)  BY DEF Placed
  <1> HIDE DEF f, g
  <1> QED BY <1>1, <1>2, <1>3 DEF Joined, g

\* A proper line is one of the templates.
LEMMA ProperIsFromTemplate ==
  ASSUME NEW l, Proper(l)
  PROVE  FromTemplate(l)
  <1>1. PICK line, slot, of, side, margin, s, o :
          Justified(line, slot, s, o, margin) /\ l = Placed(line, slot, of)
    BY DEF Proper
  <1>2. PICK a, t : t \in MemeTemplates /\ t.slot = slot /\ line = Told(t, a) /\ a.id \in t.atoms
    BY <1>1 DEF Justified
  <1> QED BY <1>1, <1>2, PlacedFields DEF FromTemplate

\* The margin a line about the verdict is told with is that of the verdict, and
\* the side a line about the evidence is told from has the more of it.
LEMMA ProperIsWorded ==
  ASSUME Fought, NEW l, Proper(l)
  PROVE  Worded(l)
  <1>1. PICK line, slot, of, side, margin, s, o :
          /\ Place(slot, of, side, margin)
          /\ About(side, margin, s, o)
          /\ Justified(line, slot, s, o, margin)
          /\ l = Placed(line, slot, of)
    BY DEF Proper
  <1>2. PICK a, t :
          /\ line = Told(t, a)
          /\ Sound(a, s, o, margin)
          /\ slot \in a.slots
          /\ a.intensity # None
    BY <1>1 DEF Justified
  <1>3. l.slot = slot /\ l.of = of /\ l.atom = a.id
    BY <1>1, <1>2, PlacedFields
  <1>4. margin \in Int
    BY <1>1, MarginsKnown DEF Place
  <1>5. ASSUME l.atom = "nuclear_gap" PROVE ClassifyVerdict(Margin) = "nuclear-repo-gap"
    <2>1. slot # "round" /\ margin >= 200  BY <1>2, <1>3, <1>5 DEF Sound
    <2>2. Margin >= 200  BY <1>1, <2>1 DEF Place
    <2> QED BY <2>2 DEF ClassifyVerdict
  <1>6. ASSUME l.atom = "photo_finish"
        PROVE  ClassifyVerdict(Margin) \in {"photo-finish", "mutual-aura"}
    <2>1. slot # "round" /\ margin <= 20  BY <1>2, <1>3, <1>6 DEF Sound
    <2>2. Margin <= 20 /\ Margin \in Int  BY <1>1, <1>4, <2>1 DEF Place
    <2> QED BY <2>2 DEF ClassifyVerdict
  <1>7. ASSUME l.atom = "public_evidence_diff" PROVE EvidenceDiff = WinningSide
    <2>1. slot \in {"summary", "matchup"} /\ s.confidence - o.confidence >= 15
      BY <1>2, <1>3, <1>7 DEF Sound
    <2>2. side = WinningSide /\ side \in Sides  BY <1>1, <2>1 DEF Place
    <2> DEFINE left == CardOf("left").confidence.score
               right == CardOf("right").confidence.score
    <2>3. left \in Int /\ right \in Int  BY ScoresKnown
    <2>4. EvidenceDiff = IF Apart(left, right) < 15 THEN "none" ELSE Ahead(left, right)
      BY DEF EvidenceDiff, ConfidenceDiffThreshold
    <2>5. s.confidence = CardOf(side).confidence.score
          /\ o.confidence = CardOf(Other(side)).confidence.score
      BY <1>1 DEF About
    <2>6. CASE side = "left"
      <3>1. left - right >= 15  BY <2>1, <2>5, <2>6 DEF Other
      <3> HIDE DEF left, right
      <3>2. Apart(left, right) = left - right  BY <2>3, <3>1, ApartInts
      <3> QED BY <2>2, <2>3, <2>4, <2>6, <3>1, <3>2 DEF Ahead
    <2>7. CASE side = "right"
      <3>1. right - left >= 15  BY <2>1, <2>5, <2>7 DEF Other
      <3> HIDE DEF left, right
      <3>2. Apart(left, right) = right - left  BY <2>3, <3>1, ApartInts
      <3> QED BY <2>2, <2>3, <2>4, <2>7, <3>1, <3>2 DEF Ahead
    <2> QED BY <2>2, <2>6, <2>7 DEF Sides
  <1>8. ASSUME l.slot = "round"
        PROVE  /\ RoundOf(l.of).winner # "unscored"
               /\ l.atom = "round_tie" => RoundOf(l.of).winner = "tie"
               /\ l.atom \in {"round_clear_win", "round_close_win"}
                  => RoundOf(l.of).winner \in Sides
    <2>1. PICK i \in RoundsShown : of = Categories[i] /\ margin = RoundOf(of).margin
      BY <1>1, <1>3, <1>8 DEF Place
    <2> DEFINE left == fight.left.scores[Categories[i]]
               right == fight.right.scores[Categories[i]]
    <2>2. i \in DOMAIN Categories /\ RoundOf(of).winner # "unscored"
      BY <2>1 DEF RoundsShown
    <2>3. left \in Int /\ right \in Int
      BY <2>2, ScoresKnown
    <2>4. RoundOf(of).winner = Ahead(left, right) /\ margin = Apart(left, right)
      BY <2>1, MarginsKnown
    <2> HIDE DEF left, right
    <2>5. /\ l.atom = "round_tie" => margin = 0
          /\ l.atom \in {"round_clear_win", "round_close_win"} => margin > 0
      BY <1>2, <1>3 DEF Sound
    <2>6. (margin = 0) <=> (left = right)
      <3>1. (left >= right => margin = left - right) /\ (right >= left => margin = right - left)
        BY <2>3, <2>4, ApartInts
      <3> QED BY <2>3, <3>1
    <2>7. Ahead(left, right) = IF margin = 0 THEN "tie" ELSE IF left > right THEN "left" ELSE "right"
      BY <2>6 DEF Ahead
    <2> QED BY <1>3, <1>4, <2>2, <2>4, <2>5, <2>7 DEF Sides
  <1> QED BY <1>5, <1>6, <1>7, <1>8 DEF Worded

-----------------------------------------------------------------------------
(* The inductive invariant *)

\* The budgets: no told premise and no told fact is over its own.
Budgets ==
  /\ IsFiniteSet(told)
  /\ \A l \in told : MotifUses(l.motif) <= MotifBudget /\ AtomUses(l.atom) <= RepetitionsOf(l.atom)

\* A profile that hardly shows anything.
Thin(side) == CardOf(side).confidence.score < 45 \/ CardOf(side).confidence.analyzed < 2

\* A side that hardly shows anything is told of, or nobody shows anything.
Warned(side) ==
  Thin(side) => \/ \E l \in told : l.atom = "low_public_evidence"
                \/ \A x \in Sides : CardOf(x).mogsona = "stealth_builder"

\* The stages before the caveats were asked for.
BeforeLeft == {"finisher", "matchup", "low-evidence left", "failed"}
BeforeRight == BeforeLeft \cup {"low-evidence right"}

\* Where a battle is.
Staged ==
  /\ stage \in {"finisher", "failed"} => told = {}
  /\ stage = "matchup" => \E l : told = {l} /\ l.slot = "finisher"
  /\ turn \in Nat
  /\ stage = "rounds" => turn < Len(Categories)

\* All of it together.
BattleInv ==
  /\ Fought
  /\ \A l \in told : FromTemplate(l) /\ Worded(l)
  /\ Budgets
  /\ Staged
  /\ stage \notin BeforeLeft => Warned("left")
  /\ stage \notin BeforeRight => Warned("right")

-----------------------------------------------------------------------------
(* What a step does to the page: nothing, or one more line *)

\* The page has one line more.
More(l) == told' = told \cup {l}

\* A slot gets a proper line whenever there is a line for it.
LEMMA TellAdds ==
  ASSUME Fought, NEW slot, NEW of, NEW category, NEW side, NEW margin,
         Place(slot, of, side, margin), Tell(slot, of, category, side, margin)
  PROVE  \/ Select(slot, category, side, margin) = {} /\ told' = told
         \/ /\ Select(slot, category, side, margin) # {}
            /\ \E l : Proper(l) /\ l.slot = slot /\ More(l)
  <1>1. CASE Select(slot, category, side, margin) = {}
    <2>1. told' = told  BY <1>1 DEF Tell, TellOneOf
    <2> QED BY <1>1, <2>1
  <1>2. CASE Select(slot, category, side, margin) # {}
    <2>1. PICK line \in Select(slot, category, side, margin) :
            told' = told \cup {Placed(line, slot, of)}
      BY <1>2 DEF Tell, TellOneOf
    <2>2. slot \in Slots /\ side \in Sides /\ margin \in Margins  BY DEF Place
    <2>3. PICK s, o : About(side, margin, s, o)  BY <2>2, FactsAbout
    <2>4. Justified(line, slot, s, o, margin)  BY <2>1, <2>2, <2>3, LineIsJustified
    <2> DEFINE l == Placed(line, slot, of)
    <2>5. Proper(l)  BY <2>3, <2>4 DEF Proper
    <2>6. l.slot = slot
      <3>1. PICK a, t : line = Told(t, a)  BY <2>4 DEF Justified
      <3> QED BY <3>1, PlacedFields
    <2>7. More(l)  BY <2>1 DEF More
    <2> HIDE DEF l
    <2> QED BY <1>2, <2>5, <2>6, <2>7
  <1> QED BY <1>1, <1>2

\* The winner's slots are told with the margin of the battle.
LEMMA Places ==
  /\ WinningSide \in Sides
  /\ \A slot \in Slots \ {"round"} : \A of : Place(slot, of, WinningSide, Margin)
  <1>1. WinningSide \in Sides  BY DEF WinningSide, SubjectOf, Sides
  <1>2. Margin \in Margins  BY DEF Margins
  <1> QED BY <1>1, <1>2 DEF Place, Slots

\* A side's own slot, and the two lines a battle cannot be without.
LEMMA SideLineAdds ==
  ASSUME Fought, NEW here, NEW slot \in {"low-evidence", "strength", "weakness"}, NEW of,
         NEW subject \in Sides, NEW next, SideLine(here, slot, of, subject, next)
  PROVE  /\ stage = here /\ stage' = next /\ UNCHANGED <<fight, turn>>
         /\ \/ Select(slot, "any", subject, Margin) = {} /\ told' = told
            \/ /\ Select(slot, "any", subject, Margin) # {}
               /\ \E l : Proper(l) /\ l.slot = slot /\ More(l)
  <1>1. Place(slot, of, subject, Margin)  BY DEF Place, Slots, Margins
  <1>2. /\ stage = here /\ stage' = next /\ UNCHANGED <<fight, turn>>
        /\ Tell(slot, of, "any", subject, Margin)
    BY DEF SideLine
  <1> QED BY <1>1, <1>2, TellAdds

\* Without a line for it, a required slot ends the battle.
LEMMA RequiredAdds ==
  ASSUME Fought, NEW slot \in {"finisher", "matchup"}, NEW next, Required(slot, next)
  PROVE  /\ stage = slot /\ UNCHANGED <<fight, turn>>
         /\ stage' = IF told' = told THEN "failed" ELSE next
         /\ \/ Select(slot, "any", WinningSide, Margin) = {} /\ told' = told
            \/ /\ Select(slot, "any", WinningSide, Margin) # {}
               /\ \E l : Proper(l) /\ l.slot = slot /\ More(l)
  <1>1. Place(slot, "battle", WinningSide, Margin)  BY Places DEF Slots
  <1>2. /\ stage = slot /\ UNCHANGED <<fight, turn>>
        /\ stage' = IF told' = told THEN "failed" ELSE next
        /\ Tell(slot, "battle", "any", WinningSide, Margin)
    BY DEF Required
  <1> QED BY <1>1, <1>2, TellAdds

\* No step takes a line away or changes the battle.
LEMMA StepAdds ==
  ASSUME BattleInv, BattleNext
  PROVE  /\ fight' = fight
         /\ told' = told \/ \E l : Proper(l) /\ More(l)
  <1> DEFINE Goal == fight' = fight /\ (told' = told \/ \E l : Proper(l) /\ More(l))
  <1> SUFFICES Goal  OBVIOUS
  <1>0. Fought /\ Staged  BY DEF BattleInv
  <1>1. CASE Finisher \/ Matchup
    <2>1. PICK slot \in {"finisher", "matchup"} : \E next : Required(slot, next)
      BY <1>1 DEF Finisher, Matchup
    <2>2. PICK next : Required(slot, next)  BY <2>1
    <2> QED BY <1>0, <2>2, RequiredAdds
  <1>2. CASE \/ LowEvidenceLeft \/ LowEvidenceRight \/ StrengthLeft \/ StrengthRight
             \/ WeaknessLeft \/ WeaknessRight
    <2>1. ASSUME NEW here, NEW slot \in {"low-evidence", "strength", "weakness"}, NEW of,
                 NEW subject \in Sides, NEW next, SideLine(here, slot, of, subject, next)
          PROVE  Goal
      BY <1>0, <2>1, SideLineAdds
    <2> HIDE DEF Goal
    <2>2. "left" \in Sides /\ "right" \in Sides  BY DEF Sides
    <2>3. CASE LowEvidenceLeft  BY <2>1, <2>2, <2>3 DEF LowEvidenceLeft
    <2>4. CASE LowEvidenceRight  BY <2>1, <2>2, <2>4 DEF LowEvidenceRight
    <2>5. CASE StrengthLeft  BY <2>1, <2>2, <2>5 DEF StrengthLeft
    <2>6. CASE StrengthRight  BY <2>1, <2>2, <2>6 DEF StrengthRight
    <2>7. CASE WeaknessLeft  BY <2>1, <2>2, <2>7 DEF WeaknessLeft
    <2>8. CASE WeaknessRight  BY <2>1, <2>2, <2>8 DEF WeaknessRight
    <2> QED BY <1>2, <2>3, <2>4, <2>5, <2>6, <2>7, <2>8
  <1>3. CASE Summary
    <2>1. fight' = fight /\ Tell("summary", "battle", "any", WinningSide, Margin)
      BY <1>3 DEF Summary
    <2>2. Place("summary", "battle", WinningSide, Margin)  BY Places DEF Slots
    <2> QED BY <1>0, <2>1, <2>2, TellAdds
  <1>4. CASE SummaryOver \/ Finished
    BY <1>4 DEF SummaryOver, Finished, battleVars
  <1>5. CASE Round
    <2> DEFINE category == Categories[turn + 1]
               round == RoundOf(category)
    <2>1. /\ stage = "rounds" /\ fight' = fight
          /\ IF round.winner = "unscored" THEN UNCHANGED <<told, notes>>
             ELSE Tell("round", category, category, SubjectOf(round.winner), round.margin)
      BY <1>5 DEF Round
    <2>2. CASE round.winner = "unscored"
      BY <2>1, <2>2
    <2>3. CASE round.winner # "unscored"
      <3>1. turn + 1 \in DOMAIN Categories
        <4>1. DOMAIN Categories = 1 .. Len(Categories)  BY DEF Categories
        <4>2. turn \in Nat /\ turn < Len(Categories)  BY <1>0, <2>1 DEF Staged
        <4>3. Len(Categories) \in Nat  BY DEF Categories
        <4> QED BY <4>1, <4>2, <4>3
      <3>2. turn + 1 \in RoundsShown  BY <2>3, <3>1 DEF RoundsShown
      <3>3. SubjectOf(round.winner) \in Sides  BY DEF SubjectOf, Sides
      <3>4. Place("round", category, SubjectOf(round.winner), round.margin)
        BY <3>2, <3>3 DEF Place, Slots, Margins
      <3>5. Tell("round", category, category, SubjectOf(round.winner), round.margin)
        BY <2>1, <2>3
      <3> HIDE DEF round, category
      <3> QED BY <1>0, <2>1, <3>4, <3>5, TellAdds
    <2> QED BY <2>2, <2>3
  <1> QED BY <1>1, <1>2, <1>3, <1>4, <1>5 DEF BattleNext

\* Only the page grows; what a line says of the battle stays true.
Grows == fight' = fight /\ (told' = told \/ \E l : Proper(l) /\ More(l))

\* As long as the battle is the same, its numbers are.
LEMMA SameFight ==
  ASSUME fight' = fight
  PROVE  /\ Fought => Fought'
         /\ \A l : Worded(l) => Worded(l)'
         /\ \A l : FromTemplate(l) => FromTemplate(l)'
         /\ \A motif : Reserved(motif)' = Reserved(motif)
  <1>1. CardOf("left")' = CardOf("left") /\ CardOf("right")' = CardOf("right")
    BY DEF CardOf
  <1>2. \A c : RoundOf(c)' = RoundOf(c)
    BY <1>1 DEF RoundOf
  <1>3. Margin' = Margin /\ WinningSide' = WinningSide /\ EvidenceDiff' = EvidenceDiff
    BY <1>1 DEF Margin, WinningSide, Winner, EvidenceDiff
  <1>4. ASSUME NEW l, Worded(l) PROVE Worded(l)'
    <2>1. RoundOf(l.of)' = RoundOf(l.of)  BY <1>2
    <2> QED BY <1>3, <1>4, <2>1 DEF Worded
  <1>5. \A l : FromTemplate(l) => FromTemplate(l)'
    BY DEF FromTemplate
  <1>6. \A motif : Reserved(motif)' = Reserved(motif)
    BY <1>1 DEF Reserved
  <1>7. Fought => Fought'
    BY DEF Fought
  <1> QED BY <1>4, <1>5, <1>6, <1>7

\* The lines on the page stay templates and stay true.
LEMMA LinesStay ==
  ASSUME BattleInv, Grows
  PROVE  (\A l \in told : FromTemplate(l) /\ Worded(l))'
  <1>1. fight' = fight /\ Fought /\ \A l \in told : FromTemplate(l) /\ Worded(l)
    BY DEF Grows, BattleInv
  <1>2. \A l \in told' : FromTemplate(l) /\ Worded(l)
    <2>1. CASE told' = told  BY <1>1, <2>1
    <2>2. CASE \E l : Proper(l) /\ More(l)
      <3>1. PICK l : Proper(l) /\ told' = told \cup {l}  BY <2>2 DEF More
      <3>2. FromTemplate(l) /\ Worded(l)
        BY <1>1, <3>1, ProperIsFromTemplate, ProperIsWorded
      <3> QED BY <1>1, <3>1, <3>2
    <2> QED BY <2>1, <2>2 DEF Grows
  <1> QED BY <1>1, <1>2, SameFight

\* One more line is one more use of whatever it uses.
LEMMA OneMore ==
  ASSUME NEW S, IsFiniteSet(S), NEW T \in SUBSET S, NEW x
  PROVE  /\ Cardinality(T) \in Nat
         /\ Cardinality(T \cup {x}) <= Cardinality(T) + 1
  <1>1. IsFiniteSet(T)  BY FS_Subset
  <1>2. Cardinality(T) \in Nat  BY <1>1, FS_CardinalityType
  <1>3. Cardinality(T \cup {x}) = IF x \in T THEN Cardinality(T) ELSE Cardinality(T) + 1
    BY <1>1, FS_AddElement
  <1> QED BY <1>2, <1>3

\* What the identity cards spend is at least what they show.
LEMMA ReservedNatural ==
  ASSUME NEW motif
  PROVE  /\ Reserved(motif) \in Nat
         /\ Part(CardOf("left").motif = motif, 1) + Part(CardOf("left").leakMotif = motif, 1)
              + (Part(CardOf("right").motif = motif, 1) + Part(CardOf("right").leakMotif = motif, 1))
              <= Reserved(motif)
  BY DEF Reserved, Part

\* No line is told over the budget of its premise or its fact.
LEMMA BudgetsStay ==
  ASSUME BattleInv, Grows
  PROVE  Budgets'
  <1>1. fight' = fight /\ Budgets
    BY DEF Grows, BattleInv
  <1>2. CASE told' = told
    <2>1. \A m : MotifUses(m)' = MotifUses(m)  BY <1>1, <1>2, SameFight DEF MotifUses
    <2>2. \A id : AtomUses(id)' = AtomUses(id)  BY <1>2 DEF AtomUses
    <2> QED BY <1>1, <1>2, <2>1, <2>2 DEF Budgets
  <1>3. CASE \E l : Proper(l) /\ More(l)
    <2>1. PICK x : Proper(x) /\ told' = told \cup {x}  BY <1>3 DEF More
    <2>2. IsFiniteSet(told)  BY <1>1 DEF Budgets
    <2>3. IsFiniteSet(told')  BY <2>1, <2>2, FS_AddElement
    <2>4. MotifUses(x.motif) < MotifBudget /\ AtomUses(x.atom) < RepetitionsOf(x.atom)
      <3>1. PICK line, slot, of, side, margin, s, o :
              Justified(line, slot, s, o, margin) /\ x = Placed(line, slot, of)
        BY <2>1 DEF Proper
      <3>2. PICK a, t : /\ line = Told(t, a)
                        /\ MotifUses(t.motif) < MotifBudget
                        /\ AtomUses(a.id) < RepetitionsOf(a.id)
        BY <3>1 DEF Justified
      <3> QED BY <3>1, <3>2, PlacedFields
    <2>5. ASSUME NEW m
          PROVE  /\ MotifUses(m) \in Nat /\ MotifUses(m)' \in Nat
                 /\ MotifUses(m)' <= MotifUses(m) + 1
                 /\ m # x.motif => MotifUses(m)' = MotifUses(m)
      <3> DEFINE T == {l \in told : l.motif = m}
                 U == {l \in told' : l.motif = m}
      <3>1. MotifUses(m) = Reserved(m) + Cardinality(T) /\ Reserved(m) \in Nat
        BY ReservedNatural DEF MotifUses
      <3>2. MotifUses(m)' = Reserved(m) + Cardinality(U)
        <4>1. MotifUses(m)' = Reserved(m)' + Cardinality(U)  BY DEF MotifUses
        <4> QED BY <1>1, <4>1, SameFight
      <3>3. Cardinality(T) \in Nat /\ Cardinality(T \cup {x}) <= Cardinality(T) + 1
        BY <2>2, OneMore
      <3>4. Cardinality(U) \in Nat  BY <2>3, OneMore
      <3>5. CASE m = x.motif
        <4>1. U = T \cup {x}  BY <2>1, <3>5
        <4> HIDE DEF T, U
        <4> QED BY <3>1, <3>2, <3>3, <3>4, <3>5, <4>1
      <3>6. CASE m # x.motif
        <4>1. U = T  BY <2>1, <3>6
        <4> HIDE DEF T, U
        <4> QED BY <3>1, <3>2, <3>3, <3>4, <3>6, <4>1
      <3> QED BY <3>5, <3>6
    <2>6. ASSUME NEW id
          PROVE  /\ AtomUses(id) \in Nat /\ AtomUses(id)' \in Nat
                 /\ AtomUses(id)' <= AtomUses(id) + 1
                 /\ id # x.atom => AtomUses(id)' = AtomUses(id)
      <3> DEFINE T == {l \in told : l.atom = id}
                 U == {l \in told' : l.atom = id}
      <3>1. AtomUses(id) = Cardinality(T) /\ AtomUses(id)' = Cardinality(U)
        BY DEF AtomUses
      <3>3. Cardinality(T) \in Nat /\ Cardinality(T \cup {x}) <= Cardinality(T) + 1
        BY <2>2, OneMore
      <3>4. Cardinality(U) \in Nat  BY <2>3, OneMore
      <3>5. CASE id = x.atom
        <4>1. U = T \cup {x}  BY <2>1, <3>5
        <4> HIDE DEF T, U
        <4> QED BY <3>1, <3>3, <3>4, <3>5, <4>1
      <3>6. CASE id # x.atom
        <4>1. U = T  BY <2>1, <3>6
        <4> HIDE DEF T, U
        <4> QED BY <3>1, <3>3, <3>4, <3>6, <4>1
      <3> QED BY <3>5, <3>6
    <2>7. ASSUME NEW l \in told'
          PROVE  MotifUses(l.motif)' <= MotifBudget /\ AtomUses(l.atom)' <= RepetitionsOf(l.atom)
      <3>1. \A id : RepetitionsOf(id) \in Nat  BY DEF RepetitionsOf
      <3>2. MotifUses(l.motif)' <= MotifBudget
        <4>1. CASE l.motif = x.motif  BY <2>4, <2>5, <4>1 DEF MotifBudget
        <4>2. CASE l.motif # x.motif
          <5>1. l \in told  BY <2>1, <4>2
          <5> QED BY <1>1, <2>5, <4>2, <5>1 DEF Budgets
        <4> QED BY <4>1, <4>2
      <3>3. AtomUses(l.atom)' <= RepetitionsOf(l.atom)
        <4>1. CASE l.atom = x.atom
          <5>1. AtomUses(x.atom) \in Nat /\ AtomUses(x.atom)' <= AtomUses(x.atom) + 1
                /\ AtomUses(x.atom)' \in Nat
            BY <2>6
          <5> QED BY <2>4, <3>1, <4>1, <5>1
        <4>2. CASE l.atom # x.atom
          <5>1. l \in told  BY <2>1, <4>2
          <5> QED BY <1>1, <2>6, <4>2, <5>1 DEF Budgets
        <4> QED BY <4>1, <4>2
      <3> QED BY <3>2, <3>3
    <2> QED BY <2>3, <2>7 DEF Budgets
  <1> QED BY <1>2, <1>3 DEF Grows

-----------------------------------------------------------------------------
(* The two lines that are always there *)

\* The identities spend nothing of the scoreline, and of the joke about stealth
\* only the stealth builder does.
LEMMA ReservedKnown ==
  ASSUME Fought
  PROVE  /\ Reserved("scoreline") = 0
         /\ \/ Reserved("stealth-mode") < MotifBudget
            \/ \A x \in Sides : CardOf(x).mogsona = "stealth_builder"
  <1>1. PICK m \in Matches :
          /\ m \in Profiles \X Profiles
          /\ fight.left = Shown(m[1], Cards[m[1]]) /\ fight.right = Shown(m[2], Cards[m[2]])
          /\ CardOf("left") = fight.left /\ CardOf("right") = fight.right
    BY ScoresKnown
  <1>2. m[1] \in Profiles /\ m[2] \in Profiles  BY <1>1
  <1>3. \A r, card : /\ Shown(r, card).motif = card.motif
                     /\ Shown(r, card).leakMotif = card.leakMotif
                     /\ Shown(r, card).mogsona = card.mogsona
    BY DEF Shown
  <1>4. \A p \in Profiles : /\ Cards[p].motif # "scoreline"
                            /\ Cards[p].motif = "stealth-mode" => Cards[p].mogsona = "stealth_builder"
                            /\ Cards[p].leakMotif \notin {"scoreline", "stealth-mode"}
    BY TitlesKnown
  <1> HIDE DEF Cards
  <1>5. \A x \in Sides : /\ CardOf(x).motif # "scoreline"
                         /\ CardOf(x).motif = "stealth-mode" => CardOf(x).mogsona = "stealth_builder"
                         /\ CardOf(x).leakMotif \notin {"scoreline", "stealth-mode"}
    BY <1>1, <1>2, <1>3, <1>4 DEF Sides
  <1>6. \A motif : Reserved(motif) = Part(CardOf("left").motif = motif, 1)
                                     + Part(CardOf("left").leakMotif = motif, 2)
                                     + (Part(CardOf("right").motif = motif, 1)
                                        + Part(CardOf("right").leakMotif = motif, 2))
    BY DEF Reserved
  <1>7. Reserved("scoreline") = 0
    BY <1>5, <1>6 DEF Part, Sides
  <1>8. \/ Reserved("stealth-mode") < MotifBudget
        \/ \A x \in Sides : CardOf(x).mogsona = "stealth_builder"
    <2>1. CASE CardOf("left").motif = "stealth-mode" /\ CardOf("right").motif = "stealth-mode"
      BY <1>5, <2>1 DEF Sides
    <2>2. CASE CardOf("left").motif # "stealth-mode"
      BY <1>5, <1>6, <2>2 DEF Part, Sides, MotifBudget
    <2>3. CASE CardOf("right").motif # "stealth-mode"
      BY <1>5, <1>6, <2>3 DEF Part, Sides, MotifBudget
    <2> QED BY <2>1, <2>2, <2>3
  <1> QED BY <1>7, <1>8

\* The scoreline can be told before anything but a finisher was.
LEMMA MatchupIsThere ==
  ASSUME BattleInv, stage = "matchup"
  PROVE  Select("matchup", "any", WinningSide, Margin) # {}
  <1>1. Fought /\ WinningSide \in Sides /\ Margin \in Margins
    BY Places DEF BattleInv, Margins
  <1>2. PICK s, o : About(WinningSide, Margin, s, o)
    BY <1>1, FactsAbout
  <1> DEFINE a == VerdictMargin(Margin)
  <1>3. MemeAtomsOf(s, o, Margin)[42] = a
    BY DEF MemeAtomsOf
  <1>4. /\ a.id = "verdict_margin" /\ a.intensity = 0 /\ a.spicy = FALSE /\ a.repetitions = 4
        /\ "matchup" \in a.slots
    BY DEF VerdictMargin, Atom
  <1>5. PICK l : told = {l} /\ l.slot = "finisher" /\ FromTemplate(l)
    BY DEF BattleInv, Staged
  <1>6. \A T \in SUBSET told : Cardinality(T) \in {0, 1}
    <2>1. \A T \in SUBSET told : T = {} \/ T = {l}  BY <1>5
    <2> QED BY <2>1, FS_EmptySet, FS_Singleton
  <1>7. AtomUses("verdict_margin") < 4
    BY <1>6 DEF AtomUses
  <1>8. TemplateUses(Board) = 0
    <2>1. l.template # Board.id
      BY <1>5, TemplatesFit DEF FromTemplate, Fitting, Board
    <2>2. {k \in told : k.template = Board.id} = {}
      BY <1>5, <2>1
    <2> QED BY <2>2, FS_EmptySet DEF TemplateUses
  <1>9. MotifUses("scoreline") < MotifBudget
    <2>1. {k \in told : k.motif = "scoreline"} \in SUBSET told  OBVIOUS
    <2>2. Cardinality({k \in told : k.motif = "scoreline"}) \in {0, 1}
      BY <1>6, <2>1
    <2> QED BY <1>1, <2>2, ReservedKnown DEF MotifUses, MotifBudget
  <1>10. Board \in Matching(a, "matchup", "any")
    <2>1. /\ Board.slot = "matchup" /\ Board.atoms = {"verdict_margin"} /\ Board.copies = 1
          /\ Board.motif = "scoreline" /\ Board.category = "any"
      BY DEF Board
    <2> HIDE DEF a
    <2>2. TemplateUses(Board) < Board.copies  BY <1>8, <2>1
    <2> QED BY <1>4, <1>9, <2>1, <2>2, BoardAndCaveat DEF Matching
  <1> HIDE DEF a
  <1>11. a.intensity # None  BY <1>4 DEF None
  <1>12. LET x == MemeAtomsOf(s, o, Margin)[42]
         IN /\ x.intensity # None /\ x.spicy = FALSE
            /\ "matchup" \in x.slots
            /\ AtomUses(x.id) < x.repetitions
            /\ Matching(x, "matchup", "any") # {}
    BY <1>3, <1>4, <1>7, <1>10, <1>11
  <1>13. 42 \in 1 .. 43 /\ "matchup" \in Slots  BY DEF Slots
  <1> QED BY <1>1, <1>2, <1>12, <1>13, LineIsThere

\* Nobody has said anything about thin evidence: then the caveat can be told.
LEMMA CaveatIsThere ==
  ASSUME BattleInv, NEW side \in Sides, Thin(Other(side)),
         \A l \in told : l.atom # "low_public_evidence",
         ~(\A x \in Sides : CardOf(x).mogsona = "stealth_builder")
  PROVE  Select("low-evidence", "any", side, Margin) # {}
  <1>1. Fought /\ Margin \in Margins
    BY DEF BattleInv, Margins
  <1>2. PICK s, o : About(side, Margin, s, o)
    BY <1>1, FactsAbout
  <1> DEFINE a == LowPublicEvidence(s, o)
  <1>3. MemeAtomsOf(s, o, Margin)[15] = a
    BY DEF MemeAtomsOf
  <1>4. /\ a.id = "low_public_evidence" /\ a.spicy = FALSE /\ a.repetitions = 2
        /\ "low-evidence" \in a.slots
        /\ a.intensity = When(o.confidence < 45 \/ o.analyzed < 2, (45 - o.confidence) * One)
    BY DEF LowPublicEvidence, Atom
  <1>5. a.intensity # None
    <2>1. o.confidence \in Int  BY <1>2 DEF About, Numbers
    <2>2. o.confidence < 45 \/ o.analyzed < 2  BY <1>2 DEF About, Thin
    <2> HIDE DEF a
    <2>3. a.intensity = (45 - o.confidence) * One  BY <1>4, <2>2 DEF When
    <2> QED BY <2>1, <2>3 DEF One, None
  <1>6. AtomUses("low_public_evidence") = 0
    <2>1. {l \in told : l.atom = "low_public_evidence"} = {}  OBVIOUS
    <2> QED BY <2>1, FS_EmptySet DEF AtomUses
  <1>7. \A l \in told : l.template # "low" /\ l.motif # "stealth-mode"
    <2> TAKE l \in told
    <2>1. PICK t \in MemeTemplates : t.id = l.template /\ t.motif = l.motif /\ l.atom \in t.atoms
      BY DEF BattleInv, FromTemplate
    <2> QED BY <2>1, TemplatesFit DEF Fitting
  <1>8. TemplateUses(Caveat) = 0
    <2>1. Caveat.id = "low"  BY DEF Caveat
    <2>2. {l \in told : l.template = Caveat.id} = {}  BY <1>7, <2>1
    <2> QED BY <2>2, FS_EmptySet DEF TemplateUses
  <1>9. MotifUses("stealth-mode") < MotifBudget
    <2>1. {l \in told : l.motif = "stealth-mode"} = {}  BY <1>7
    <2>2. Reserved("stealth-mode") < MotifBudget /\ Reserved("stealth-mode") \in Nat
      BY <1>1, ReservedKnown, ReservedNatural
    <2> QED BY <2>1, <2>2, FS_EmptySet DEF MotifUses
  <1>10. Caveat \in Matching(a, "low-evidence", "any")
    <2>1. /\ Caveat.slot = "low-evidence" /\ Caveat.atoms = {"low_public_evidence"}
          /\ Caveat.copies = 8 /\ Caveat.motif = "stealth-mode" /\ Caveat.category = "any"
      BY DEF Caveat
    <2> HIDE DEF a
    <2>2. TemplateUses(Caveat) < Caveat.copies  BY <1>8, <2>1
    <2> QED BY <1>4, <1>9, <2>1, <2>2, BoardAndCaveat DEF Matching
  <1> HIDE DEF a
  <1>11. AtomUses(a.id) < a.repetitions  BY <1>4, <1>6
  <1>12. LET x == MemeAtomsOf(s, o, Margin)[15]
         IN /\ x.intensity # None /\ x.spicy = FALSE
            /\ "low-evidence" \in x.slots
            /\ AtomUses(x.id) < x.repetitions
            /\ Matching(x, "low-evidence", "any") # {}
    BY <1>3, <1>4, <1>5, <1>10, <1>11
  <1>13. 15 \in 1 .. 43 /\ "low-evidence" \in Slots  BY DEF Slots
  <1> QED BY <1>1, <1>2, <1>12, <1>13, LineIsThere

-----------------------------------------------------------------------------
(* Every step keeps the invariant *)

\* The matchup line never fails, and the rounds are counted.
LEMMA StagesStay ==
  ASSUME BattleInv, BattleNext
  PROVE  Staged'
  <1>0. Fought /\ Staged  BY DEF BattleInv
  <1>1. CASE Finisher
    <2>1. /\ stage = "finisher" /\ turn' = turn
          /\ stage' = IF told' = told THEN "failed" ELSE "matchup"
          /\ told' = told \/ \E l : l.slot = "finisher" /\ More(l)
      BY <1>0, <1>1, RequiredAdds DEF Finisher
    <2>2. told = {} /\ turn \in Nat  BY <1>0, <2>1 DEF Staged
    <2>3. CASE told' = told  BY <2>1, <2>2, <2>3 DEF Staged
    <2>4. CASE told' # told
      <3>1. PICK l : l.slot = "finisher" /\ told' = {l}  BY <2>1, <2>2, <2>4 DEF More
      <3> QED BY <2>1, <2>2, <2>4, <3>1 DEF Staged
    <2> QED BY <2>3, <2>4
  <1>2. CASE Matchup
    <2>1. /\ stage = "matchup" /\ turn' = turn
          /\ stage' = IF told' = told THEN "failed" ELSE "low-evidence left"
          /\ \/ Select("matchup", "any", WinningSide, Margin) = {}
             \/ \E l : l.slot = "matchup" /\ More(l)
      BY <1>0, <1>2, RequiredAdds DEF Matchup
    <2>2. PICK l : l.slot = "matchup" /\ told' = told \cup {l}
      BY <2>1, MatchupIsThere DEF More
    <2>3. l \notin told  BY <1>0, <2>1, <2>2 DEF Staged
    <2>4. stage' = "low-evidence left"  BY <2>1, <2>2, <2>3
    <2>5. turn \in Nat  BY <1>0 DEF Staged
    <2> QED BY <2>1, <2>4, <2>5 DEF Staged
  <1>3. CASE LowEvidenceLeft \/ LowEvidenceRight
    BY <1>0, <1>3 DEF LowEvidenceLeft, LowEvidenceRight, SideLine, Staged
  <1>4. CASE StrengthLeft \/ StrengthRight \/ WeaknessLeft \/ WeaknessRight
    BY <1>0, <1>4 DEF StrengthLeft, StrengthRight, WeaknessLeft, WeaknessRight, SideLine, Staged
  <1>5. CASE Summary
    BY <1>0, <1>5 DEF Summary, Staged
  <1>6. CASE SummaryOver
    <2>1. Len(Categories) = 9  BY DEF Categories
    <2> QED BY <1>6, <2>1 DEF SummaryOver, Staged
  <1>7. CASE Round
    <2>1. Len(Categories) = 9  BY DEF Categories
    <2>2. /\ stage = "rounds" /\ turn' = turn + 1
          /\ stage' = IF turn' = Len(Categories) THEN "strength left" ELSE stage
      BY <1>7 DEF Round
    <2>3. turn \in Nat /\ turn < 9  BY <1>0, <2>1, <2>2 DEF Staged
    <2>4. turn' \in Nat /\ (stage' = "rounds" => turn' < Len(Categories))
      <3>0. turn' = turn + 1  BY <2>2
      <3>1. turn' \in Nat /\ turn' <= 9  BY <2>3, <3>0
      <3>2. stage' = "rounds" => turn' # Len(Categories)  BY <2>2
      <3>3. stage' = "rounds" => turn' # 9  BY <2>1, <3>2
      <3> QED BY <2>1, <3>1, <3>3
    <2>5. stage' \in {"rounds", "strength left"}  BY <2>2
    <2> QED BY <2>4, <2>5 DEF Staged
  <1>8. CASE Finished
    <2>1. told' = told /\ stage' = stage /\ turn' = turn
      BY <1>8 DEF Finished, battleVars
    <2> QED BY <1>0, <2>1 DEF Staged
  <1> QED BY <1>1, <1>2, <1>3, <1>4, <1>5, <1>6, <1>7, <1>8 DEF BattleNext

\* A warning is not taken back.
LEMMA WarnedStays ==
  ASSUME Grows, NEW side, Warned(side)
  PROVE  Warned(side)'
  <1>1. fight' = fight /\ told \subseteq told'
    BY DEF Grows, More
  <1> QED BY <1>1 DEF Warned, Thin, CardOf

\* A side is told of from the other one.
LEMMA WarnedComes ==
  ASSUME BattleInv, Grows, NEW side \in Sides,
         \/ Select("low-evidence", "any", side, Margin) = {}
         \/ \E l : Proper(l) /\ l.slot = "low-evidence" /\ More(l)
  PROVE  Warned(Other(side))'
  <1>1. CASE \E l : Proper(l) /\ l.slot = "low-evidence" /\ More(l)
    <2>1. PICK l : Proper(l) /\ l.slot = "low-evidence" /\ told' = told \cup {l}
      BY <1>1 DEF More
    <2>2. FromTemplate(l)  BY <2>1, ProperIsFromTemplate
    <2>3. l.atom = "low_public_evidence"
      BY <2>1, <2>2, TemplatesFit DEF FromTemplate, Fitting
    <2> QED BY <2>1, <2>3 DEF Warned
  <1>2. CASE Select("low-evidence", "any", side, Margin) = {}
    <2>1. Warned(Other(side))
      BY <1>2, CaveatIsThere DEF Warned
    <2> QED BY <2>1, WarnedStays
  <1> QED BY <1>1, <1>2

\* Only its own slot takes a battle past the caveat of a side.
LEMMA Transitions ==
  ASSUME BattleNext
  PROVE  /\ stage \in BeforeLeft => stage' \in BeforeLeft \/ LowEvidenceLeft
         /\ stage \in BeforeRight => stage' \in BeforeRight \/ LowEvidenceRight
  <1> USE DEF BeforeLeft, BeforeRight
  <1>1. CASE Finisher \/ Matchup
    BY <1>1 DEF Finisher, Matchup, Required
  <1>2. CASE LowEvidenceLeft \/ LowEvidenceRight
    BY <1>2 DEF LowEvidenceLeft, LowEvidenceRight, SideLine
  <1>3. CASE StrengthLeft \/ StrengthRight \/ WeaknessLeft \/ WeaknessRight
    BY <1>3 DEF StrengthLeft, StrengthRight, WeaknessLeft, WeaknessRight, SideLine
  <1>4. CASE Summary  BY <1>4 DEF Summary
  <1>5. CASE SummaryOver  BY <1>5 DEF SummaryOver
  <1>6. CASE Round  BY <1>6 DEF Round
  <1>7. CASE Finished  BY <1>7 DEF Finished, battleVars
  <1> QED BY <1>1, <1>2, <1>3, <1>4, <1>5, <1>6, <1>7 DEF BattleNext

\* Both sides are told of once their slots are over.
LEMMA WarningsStay ==
  ASSUME BattleInv, BattleNext, Grows
  PROVE  /\ (stage \notin BeforeLeft => Warned("left"))'
         /\ (stage \notin BeforeRight => Warned("right"))'
  <1>0. Fought  BY DEF BattleInv
  <1>1. ASSUME stage' \notin BeforeLeft PROVE Warned("left")'
    <2>1. CASE LowEvidenceLeft
      <3>1. \/ Select("low-evidence", "any", "right", Margin) = {}
            \/ \E l : Proper(l) /\ l.slot = "low-evidence" /\ More(l)
        BY <1>0, <2>1, SideLineAdds DEF LowEvidenceLeft, Sides
      <3> QED BY <3>1, WarnedComes DEF Sides, Other
    <2>2. CASE ~LowEvidenceLeft
      <3>1. Warned("left")  BY <1>1, <2>2, Transitions DEF BattleInv
      <3> QED BY <3>1, WarnedStays
    <2> QED BY <2>1, <2>2
  <1>2. ASSUME stage' \notin BeforeRight PROVE Warned("right")'
    <2>1. CASE LowEvidenceRight
      <3>1. \/ Select("low-evidence", "any", "left", Margin) = {}
            \/ \E l : Proper(l) /\ l.slot = "low-evidence" /\ More(l)
        BY <1>0, <2>1, SideLineAdds DEF LowEvidenceRight, Sides
      <3> QED BY <3>1, WarnedComes DEF Sides, Other
    <2>2. CASE ~LowEvidenceRight
      <3>1. Warned("right")  BY <1>2, <2>2, Transitions DEF BattleInv
      <3> QED BY <3>1, WarnedStays
    <2> QED BY <2>1, <2>2
  <1>3. BeforeLeft' = BeforeLeft /\ BeforeRight' = BeforeRight
    BY DEF BeforeLeft, BeforeRight
  <1> QED BY <1>1, <1>2, <1>3

\* An empty page of one of the battles.
LEMMA InitBattle == BattleInit => BattleInv
  <1> SUFFICES ASSUME BattleInit PROVE BattleInv  OBVIOUS
  <1>1. Fought  BY Zenon DEF BattleInit, Fought
  <1>2. told = {} /\ stage = "finisher" /\ turn = 0  BY DEF BattleInit
  <1>3. Budgets  BY <1>2, FS_EmptySet DEF Budgets
  <1>4. Staged  BY <1>2 DEF Staged
  <1> QED BY <1>1, <1>2, <1>3, <1>4 DEF BattleInv, BeforeLeft, BeforeRight

\* The invariant is inductive.
LEMMA StepBattle == BattleInv /\ [BattleNext]_battleVars => BattleInv'
  <1> SUFFICES ASSUME BattleInv, [BattleNext]_battleVars PROVE BattleInv'  OBVIOUS
  <1>1. CASE BattleNext
    <2>1. Grows  BY <1>1, StepAdds DEF Grows
    <2>2. Fought'  BY <2>1, SameFight DEF Grows, BattleInv
    <2>3. (\A l \in told : FromTemplate(l) /\ Worded(l))'  BY <2>1, LinesStay
    <2>4. Budgets'  BY <2>1, BudgetsStay
    <2>5. Staged'  BY <1>1, StagesStay
    <2>6. /\ (stage \notin BeforeLeft => Warned("left"))'
          /\ (stage \notin BeforeRight => Warned("right"))'
      BY <1>1, <2>1, WarningsStay
    <2> QED BY <2>2, <2>3, <2>4, <2>5, <2>6 DEF BattleInv
  <1>2. CASE UNCHANGED battleVars
    <2>1. fight' = fight /\ told' = told /\ stage' = stage /\ turn' = turn
      BY <1>2 DEF battleVars
    <2>2. Grows  BY <2>1 DEF Grows
    <2>3. Fought'  BY <2>1, SameFight DEF BattleInv
    <2>4. (\A l \in told : FromTemplate(l) /\ Worded(l))'  BY <2>2, LinesStay
    <2>5. Budgets'  BY <2>2, BudgetsStay
    <2>6. Staged'  BY <2>1 DEF BattleInv, Staged
    <2>7. /\ (stage \notin BeforeLeft => Warned("left"))'
          /\ (stage \notin BeforeRight => Warned("right"))'
      BY <2>1, <2>2, WarnedStays DEF BattleInv, BeforeLeft, BeforeRight
    <2> QED BY <2>3, <2>4, <2>5, <2>6, <2>7 DEF BattleInv
  <1> QED BY <1>1, <1>2

-----------------------------------------------------------------------------
\* It holds of every battle.
THEOREM BattleInvariant == BattleSpec => []BattleInv
  BY InitBattle, StepBattle, PTL DEF BattleSpec

\* A battle is never left without a matchup line: the scoreline is always true,
\* no identity card spends its premise, and only a finisher was told before it.
THEOREM MatchupIsNeverMissing == BattleSpec => []MatchupAlways
  <1>1. BattleInv => MatchupAlways  BY DEF BattleInv, Staged, MatchupAlways
  <1> QED BY <1>1, BattleInvariant, PTL

\* On no page is a premise told more than twice, the identity cards counted, nor
\* a fact more often than its atom allows.
THEOREM NothingIsOverused == BattleSpec => []NothingOverused
  <1>1. BattleInv => NothingOverused
    <2> SUFFICES ASSUME BattleInv, NEW l \in told
                 PROVE  LET OnCards(side) == Part(CardOf(side).motif = l.motif, 1)
                                             + Part(CardOf(side).leakMotif = l.motif, 1)
                        IN /\ OnCards("left") + OnCards("right")
                                + Cardinality({k \in told : k.motif = l.motif}) <= 2
                           /\ Cardinality({k \in told : k.atom = l.atom}) <= RepetitionsOf(l.atom)
      BY Zenon DEF NothingOverused, RepetitionsOf
    <2>1. /\ IsFiniteSet(told)
          /\ MotifUses(l.motif) <= 2 /\ AtomUses(l.atom) <= RepetitionsOf(l.atom)
      BY DEF BattleInv, Budgets, MotifBudget
    <2>2. {k \in told : k.motif = l.motif} \in SUBSET told  OBVIOUS
    <2>3. Cardinality({k \in told : k.motif = l.motif}) \in Nat
      BY <2>1, <2>2, OneMore
    <2>4. MotifUses(l.motif) = Reserved(l.motif) + Cardinality({k \in told : k.motif = l.motif})
      BY DEF MotifUses
    <2>5. Cardinality({k \in told : k.atom = l.atom}) <= RepetitionsOf(l.atom)
      BY <2>1 DEF AtomUses
    <2>6. /\ Reserved(l.motif) \in Nat
          /\ Part(CardOf("left").motif = l.motif, 1) + Part(CardOf("left").leakMotif = l.motif, 1)
               + (Part(CardOf("right").motif = l.motif, 1)
                  + Part(CardOf("right").leakMotif = l.motif, 1)) <= Reserved(l.motif)
      BY ReservedNatural
    <2>7. \A c, n : n \in Int => Part(c, n) \in Int  BY DEF Part
    <2> QED BY <2>1, <2>3, <2>4, <2>5, <2>6, <2>7
  <1> QED BY <1>1, BattleInvariant, PTL

\* Whoever reads a battle of a profile that hardly shows anything is told so.
THEOREM ThinIsTold == BattleSpec => []ThinEvidenceIsTold
  <1>1. BattleInv => ThinEvidenceIsTold
    <2> SUFFICES ASSUME BattleInv, stage = "done", NEW side \in Sides, Thin(side)
                 PROVE  \/ \E l \in told : l.atom = "low_public_evidence"
                        \/ \A x \in Sides : CardOf(x).mogsona = "stealth_builder"
      BY DEF ThinEvidenceIsTold, Thin
    <2>1. Warned("left") /\ Warned("right")
      BY DEF BattleInv, BeforeLeft, BeforeRight
    <2> QED BY <2>1 DEF Warned, Sides
  <1> QED BY <1>1, BattleInvariant, PTL

\* No line contradicts the verdict, its round or the difference of the evidence.
THEOREM WordsAgree == BattleSpec => []WordsMatchNumbers
  <1>1. BattleInv => WordsMatchNumbers
    BY DEF BattleInv, Worded, WordsMatchNumbers
  <1> QED BY <1>1, BattleInvariant, PTL

-----------------------------------------------------------------------------
(* What is filtered afterwards *)

\* The notes are lines of the page.
NotesTold == notes \in Seq(told)

LEMMA NotesGrow ==
  ASSUME NotesTold, NEW lines, NEW slot, NEW of, TellOneOf(lines, slot, of)
  PROVE  NotesTold'
  <1>1. CASE UNCHANGED <<told, notes>>
    BY <1>1 DEF NotesTold
  <1>2. CASE \E line \in lines :
               /\ told' = told \cup {Placed(line, slot, of)}
               /\ notes' = IF slot \in Noted THEN Append(notes, Placed(line, slot, of)) ELSE notes
    <2>1. PICK l : /\ told' = told \cup {l}
                   /\ notes' = Append(notes, l) \/ notes' = notes
      BY <1>2
    <2>2. notes \in Seq(told')  BY <2>1 DEF NotesTold
    <2>3. l \in told'  BY <2>1
    <2>4. notes' \in Seq(told')  BY <2>1, <2>2, <2>3
    <2> QED BY <2>4 DEF NotesTold
  <1> QED BY <1>1, <1>2 DEF TellOneOf

LEMMA NotesStay ==
  ASSUME NotesTold, [BattleNext]_battleVars
  PROVE  NotesTold'
  <1>0. ASSUME NEW slot, NEW of, NEW category, NEW side, NEW margin,
               Tell(slot, of, category, side, margin)
        PROVE  NotesTold'
    BY <1>0, NotesGrow DEF Tell
  <1>1. CASE Finisher \/ Matchup
    BY <1>0, <1>1 DEF Finisher, Matchup, Required
  <1>2. CASE LowEvidenceLeft \/ LowEvidenceRight
    BY <1>0, <1>2 DEF LowEvidenceLeft, LowEvidenceRight, SideLine
  <1>3. CASE StrengthLeft \/ StrengthRight \/ WeaknessLeft \/ WeaknessRight
    BY <1>0, <1>3 DEF StrengthLeft, StrengthRight, WeaknessLeft, WeaknessRight, SideLine
  <1>4. CASE Summary
    BY <1>0, <1>4 DEF Summary
  <1>5. CASE SummaryOver \/ Finished \/ UNCHANGED battleVars
    BY <1>5 DEF SummaryOver, Finished, battleVars, NotesTold
  <1>6. CASE Round
    <2>1. CASE UNCHANGED <<told, notes>>  BY <2>1 DEF NotesTold
    <2>2. CASE ~UNCHANGED <<told, notes>>
      <3>1. \E slot, of, category, side, margin : Tell(slot, of, category, side, margin)
        BY <1>6, <2>2 DEF Round
      <3> QED BY <1>0, <3>1
    <2> QED BY <2>1, <2>2
  <1> QED BY <1>1, <1>2, <1>3, <1>4, <1>5, <1>6 DEF BattleNext

\* A premise that is on the page is not that of an Aura Leak.
LEMMA LeaksAreNotTold ==
  ASSUME BattleInv, NEW l \in told
  PROVE  /\ l.motif # CardOf("left").leakMotif /\ l.motif # CardOf("right").leakMotif
         /\ LeakUses(l.motif) = 0 /\ MotifUses(l.motif) <= MotifBudget
         /\ MotifUses(l.motif) \in Nat
  <1> DEFINE T == {k \in told : k.motif = l.motif}
  <1>1. /\ IsFiniteSet(told)
        /\ MotifUses(l.motif) <= 2 /\ MotifUses(l.motif) <= MotifBudget
    BY DEF BattleInv, Budgets, MotifBudget
  <1>2. Cardinality(T) \in Nat /\ Cardinality(T) # 0
    <2>1. IsFiniteSet(T)  BY <1>1, FS_Subset
    <2>2. T # {}  OBVIOUS
    <2> QED BY <2>1, <2>2, FS_CardinalityType, FS_EmptySet
  <1>3. MotifUses(l.motif) = Reserved(l.motif) + Cardinality(T)
    BY DEF MotifUses
  <1> HIDE DEF T
  <1>4. Reserved(l.motif) \in Nat  BY ReservedNatural
  <1>5. Reserved(l.motif) <= 1 /\ MotifUses(l.motif) \in Nat
    BY <1>1, <1>2, <1>3, <1>4
  <1>6. l.motif # CardOf("left").leakMotif /\ l.motif # CardOf("right").leakMotif
    BY <1>5 DEF Reserved, Part
  <1>7. LeakUses(l.motif) = 0
    BY <1>6 DEF LeakUses, Part
  <1> QED BY <1>1, <1>5, <1>6, <1>7

\* The first three notes that repeat no section of the page, and every weakness.
FirstNotes ==
  LET kept == {i \in DOMAIN notes : notes[i].template \notin DedicatedSections}
  IN {notes[i] : i \in {j \in kept : Cardinality({k \in kept : k < j}) < SummaryLines}}
NothingHidden ==
  /\ DedupeAuraLeakMotifs = FirstNotes
  /\ \A side \in Sides : Weakness(side) = {l \in told : l.slot = "weakness" /\ l.of = side}

\* The engine has counted the Aura Leaks already: the filters that drop a note or
\* a weakness which repeats one (dedupeAuraLeakMotifs, suppressAuraLeakDuplicate) never drop any.
THEOREM FiltersAreIdle == BattleSpec => []NothingHidden
  <1>1. BattleInit => NotesTold
    BY DEF BattleInit, NotesTold
  <1>2. NotesTold /\ [BattleNext]_battleVars => NotesTold'
    BY NotesStay
  <1>3. BattleInv /\ NotesTold => NothingHidden
    <2> SUFFICES ASSUME BattleInv, NotesTold PROVE NothingHidden  OBVIOUS
    <2> DEFINE Earlier(i) == {j \in 1 .. i - 1 : notes[j].motif = notes[i].motif
                                                 /\ notes[j].template \notin DedicatedSections}
               Kept(i) == /\ notes[i].template \notin DedicatedSections
                          /\ Cardinality(Earlier(i)) >= MotifUses(notes[i].motif)
                                                        + LeakUses(notes[i].motif) - MotifBudget
               kept == {i \in DOMAIN notes : Kept(i)}
               all == {i \in DOMAIN notes : notes[i].template \notin DedicatedSections}
    <2>1. \A i \in DOMAIN notes : notes[i] \in told /\ i \in Nat
      BY DEF NotesTold
    <2>2. ASSUME NEW i \in DOMAIN notes
          PROVE  Cardinality(Earlier(i)) >= MotifUses(notes[i].motif)
                                            + LeakUses(notes[i].motif) - MotifBudget
      <3>1. /\ LeakUses(notes[i].motif) = 0 /\ MotifUses(notes[i].motif) <= MotifBudget
            /\ MotifUses(notes[i].motif) \in Nat
        BY <2>1, LeaksAreNotTold
      <3>2. Cardinality(Earlier(i)) \in Nat
        <4>1. IsFiniteSet(1 .. i - 1)  BY <2>1, FS_Interval
        <4>2. IsFiniteSet(Earlier(i))  BY <4>1, FS_Subset
        <4> QED BY <4>2, FS_CardinalityType
      <3> HIDE DEF Earlier
      <3> QED BY <3>1, <3>2 DEF MotifBudget
    <2>3. kept = all
      <3> HIDE DEF Earlier
      <3> QED BY <2>2
    <2>4. DedupeAuraLeakMotifs
            = {notes[i] : i \in {j \in kept : Cardinality({k \in kept : k < j}) < SummaryLines}}
      BY DEF DedupeAuraLeakMotifs
    <2>5. FirstNotes
            = {notes[i] : i \in {j \in all : Cardinality({k \in all : k < j}) < SummaryLines}}
      BY DEF FirstNotes
    <2> HIDE DEF kept, all
    <2>6. DedupeAuraLeakMotifs = FirstNotes  BY <2>3, <2>4, <2>5
    <2>7. \A side \in Sides : Weakness(side) = {l \in told : l.slot = "weakness" /\ l.of = side}
      BY LeaksAreNotTold DEF Weakness, Sides
    <2> QED BY <2>6, <2>7 DEF NothingHidden
  <1> QED BY <1>1, <1>2, <1>3, BattleInvariant, PTL DEF BattleSpec
=============================================================================
