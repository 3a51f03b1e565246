----------------------------- MODULE DeviceFlow -----------------------------
(***************************************************************************)
(* One GitHub device sign-in: the polling loop (github/device-flow.ts; the *)
(* private one, private-context/auth.ts, is the same loop with a stricter  *)
(* answer), the terminal interaction around it (createDeviceInteraction in *)
(* cli/cli.ts), the browser it launches (open-external.ts), GitHub and the *)
(* clock.  The flow is one asynchronous function; key presses, the result  *)
(* of a browser launch, an interrupt and the clock come between its steps. *)
(*                                                                         *)
(* A request is in flight until its response or a failure arrives, and its *)
(* body is read after that.  The clock counts units of OpenGap, the pause  *)
(* between two launches; the seconds of GitHub's answers are scaled to it. *)
(***************************************************************************)
EXTENDS Integers, FiniteSetsExt

CONSTANTS Lifetimes,  \* expires_in that GitHub gives a code
          Intervals,  \* interval it gives with the code
          Returned,   \* interval of a slow_down answer; 0: none, or unusable
          Increment,  \* what a slow_down adds (5 s)
          MaxManual,  \* manual launches before only the link is left (5)
          Horizon     \* bound on the clock

OpenGap == 1

ASSUME DeviceFlowAssumption ==
  /\ Lifetimes \subseteq Nat \ {0} /\ Intervals \subseteq Nat \ {0}
  /\ Returned \subseteq Nat
  /\ Increment \in Nat \ {0} /\ MaxManual \in Nat /\ Horizon \in Nat

VARIABLES now,
          browser,    \* may a browser be launched
          pc, outcome,
          expiresAt, interval, wakeAt,
          aborted,    \* the signal: Ctrl-C, or q while the input session runs
          session,    \* does the input session run
          closed,     \* interaction.close() ran
          launched,   \* has a launch settled, and how did the last one
          opening, openedAt, manual, \* a launch is under way; its time; manual ones
          linkShown,  \* is the link on the screen (fallbackShown)
          asked, announced  \* GitHub: last contact, interval it wants kept

clock == <<expiresAt, interval, wakeAt>>
launcher == <<launched, opening, openedAt, manual, linkShown>>
github == <<asked, announced>>
vars == <<now, browser, pc, outcome, clock, aborted, session, closed,
          launcher, github>>

Init ==
  /\ now = 0
  /\ browser \in BOOLEAN
  /\ pc = "code" /\ outcome = "none"
  /\ expiresAt = 0 /\ interval = 0 /\ wakeAt = 0
  /\ aborted = FALSE /\ session = FALSE /\ closed = FALSE
  /\ launched = "none" /\ opening = FALSE /\ openedAt = -OpenGap /\ manual = 0
  /\ linkShown = FALSE
  /\ asked = 0 /\ announced = 0

\* The flow returns, and its caller closes the interaction.
Finish(result) ==
  /\ pc' = "done" /\ outcome' = result
  /\ closed' = TRUE /\ session' = FALSE

\* The head of the loop: sleep while the code is valid, otherwise give up.
Loop(pause) ==
  IF now < expiresAt
  THEN /\ pc' = "asleep" /\ wakeAt' = now + pause
       /\ UNCHANGED <<outcome, closed>>
  ELSE Finish("expired") /\ UNCHANGED wakeAt
-----------------------------------------------------------------------------
\* Mutant: requests have no timeout of their own.
RequestFailsUntimed ==
  /\ pc \in {"code", "token"} /\ aborted
  /\ Finish("cancelled")
  /\ UNCHANGED <<now, browser, clock, aborted, launcher, github>>

\* A request is aborted with the signal, times out or fails on the network.
RequestFails ==
  /\ pc \in {"code", "token"}
  /\ IF aborted
     THEN Finish("cancelled")
     ELSE Finish("timeout") \/ Finish("network")
  /\ UNCHANGED <<now, browser, clock, aborted, launcher, github>>

ResponseArrives ==
  /\ ~aborted
  /\ \/ pc = "code" /\ pc' = "codeBody"
     \/ pc = "token" /\ pc' = "tokenBody"
  /\ UNCHANGED <<now, browser, outcome, clock, aborted, session,
                 closed, launcher, github>>

\* readJson catches whatever ends the reading of a body, the signal and the
\* timeout of the request too; what cannot be used is malformed as well.
BodyFails ==
  /\ pc \in {"codeBody", "tokenBody"}
  /\ Finish("malformed")
  /\ UNCHANGED <<now, browser, clock, aborted, launcher, github>>

\* The code arrives; the browser is launched before the code is shown.
CodeArrives ==
  /\ pc = "codeBody" /\ ~aborted
  /\ \E lifetime \in Lifetimes, first \in Intervals :
       /\ expiresAt' = now + lifetime
       /\ interval' = first /\ announced' = first
  /\ asked' = now
  /\ pc' = "prompting"
  /\ opening' = browser
  /\ openedAt' = IF browser THEN now ELSE openedAt
  /\ UNCHANGED <<now, browser, outcome, wakeAt, aborted, session,
                 closed, launched, manual, linkShown>>

\* The prompt is written, with the link unless the browser opened, and the
\* keys are listened to.  A flow that expired meanwhile closes them again.
Prompted(result) ==
  /\ pc = "prompting"
  /\ opening => result # "unsupported"
  /\ ~opening => result = "unsupported"
  /\ launched' = result /\ opening' = FALSE
  /\ linkShown' = (result # "opened")
  /\ Loop(interval)
  /\ session' = (now < expiresAt)
  /\ UNCHANGED <<now, browser, expiresAt, interval, aborted, openedAt,
                 manual, github>>
-----------------------------------------------------------------------------
\* Mutant: the timer alone decides, an expired code is still polled.
WakeLate ==
  /\ pc = "asleep" /\ ~aborted /\ now >= wakeAt
  /\ pc' = "token" /\ asked' = now
  /\ UNCHANGED <<now, browser, outcome, clock, aborted, session,
                 closed, launcher, announced>>

\* The timer fires, on time or late; GitHub is asked if the code is valid.
Wake ==
  /\ pc = "asleep" /\ ~aborted /\ now >= wakeAt
  /\ IF now >= expiresAt
     THEN Finish("expired") /\ UNCHANGED asked
     ELSE /\ pc' = "token" /\ asked' = now
          /\ UNCHANGED <<outcome, closed, session>>
  /\ UNCHANGED <<now, browser, clock, aborted, launcher, announced>>

WakeAborted ==
  /\ pc = "asleep" /\ aborted
  /\ Finish("cancelled")
  /\ UNCHANGED <<now, browser, clock, aborted, launcher, github>>

\* A token ends the flow; the public caller refuses one with scopes, the
\* private flow also one of a wrong form or equal to the public token.
Granted ==
  /\ pc = "tokenBody" /\ ~aborted
  /\ \/ Finish("token")
     \/ Finish("unexpected_scope")
     \/ Finish("conflicting_token_boundary")
  /\ UNCHANGED <<now, browser, clock, aborted, launcher, github>>

Pending ==
  /\ pc = "tokenBody" /\ ~aborted
  /\ Loop(interval)
  /\ session' = (session /\ now < expiresAt)
  /\ UNCHANGED <<now, browser, expiresAt, interval, aborted, launcher,
                 github>>

\* Mutant: the interval GitHub returns replaces the one kept so far, and
\* without one nothing changes.
SlowDownReturned ==
  /\ pc = "tokenBody" /\ ~aborted
  /\ \E returned \in Returned :
       /\ interval' = IF returned = 0 THEN interval ELSE returned
       /\ announced' = IF returned = 0 THEN announced + Increment ELSE returned
  /\ Loop(interval')
  /\ session' = (session /\ now < expiresAt)
  /\ UNCHANGED <<now, browser, expiresAt, aborted, launcher, asked>>

\* GitHub wants what it returns kept, or its rule: the increment on top.
SlowDown ==
  /\ pc = "tokenBody" /\ ~aborted
  /\ \E returned \in Returned :
       /\ interval' = Max({interval + Increment, returned})
       /\ announced' = IF returned = 0 THEN announced + Increment ELSE returned
  /\ Loop(interval')
  /\ session' = (session /\ now < expiresAt)
  /\ UNCHANGED <<now, browser, expiresAt, aborted, launcher, asked>>

Refused ==
  /\ pc = "tokenBody" /\ ~aborted
  /\ Finish("access_denied") \/ Finish("expired")
  /\ UNCHANGED <<now, browser, clock, aborted, launcher, github>>
-----------------------------------------------------------------------------
\* The link is written once, and never after the interaction was closed.
ShowFallback == linkShown' = (linkShown \/ ~closed)

MayOpen == session /\ ~closed /\ browser /\ ~opening

\* Enter: launch the browser again, unless it was launched just now; after
\* the last permitted launch only the link is written.
PressEnter ==
  /\ MayOpen
  /\ IF manual >= MaxManual
     THEN ShowFallback /\ UNCHANGED <<opening, openedAt, manual>>
     ELSE /\ now - openedAt >= OpenGap
          /\ manual' = manual + 1 /\ openedAt' = now /\ opening' = TRUE
          /\ UNCHANGED linkShown
  /\ UNCHANGED <<now, browser, pc, outcome, clock, aborted, session,
                 closed, launched, github>>

\* Mutant: only the last permitted launch leads to the link.
LaunchSettlesLast(result) ==
  /\ opening /\ pc # "prompting"
  /\ opening' = FALSE /\ launched' = result
  /\ IF manual >= MaxManual THEN ShowFallback ELSE UNCHANGED linkShown
  /\ UNCHANGED <<now, browser, pc, outcome, clock, aborted, session,
                 closed, openedAt, manual, github>>

\* A manual launch settles, within the timeout of openExternal.
LaunchSettles(result) ==
  /\ opening /\ pc # "prompting"
  /\ opening' = FALSE /\ launched' = result
  /\ IF result # "opened" \/ manual >= MaxManual
     THEN ShowFallback ELSE UNCHANGED linkShown
  /\ UNCHANGED <<now, browser, pc, outcome, clock, aborted, session,
                 closed, openedAt, manual, github>>

\* q while the session runs, or an interrupt at any time.
Abort ==
  /\ pc # "done" /\ ~aborted
  /\ aborted' = TRUE
  /\ UNCHANGED <<now, browser, pc, outcome, clock, session, closed,
                 launcher, github>>

\* Only differences of times matter, so the clock starts with the code.
Tick ==
  /\ now < Horizon /\ pc \notin {"code", "codeBody", "done"}
  /\ now' = now + 1
  /\ UNCHANGED <<browser, pc, outcome, clock, aborted, session, closed,
                 launcher, github>>
-----------------------------------------------------------------------------
Prompt == \E result \in {"opened", "failed", "unsupported"} : Prompted(result)
Answer == CodeArrives \/ Granted \/ Pending \/ SlowDown \/ Refused
Settle == \E result \in {"opened", "failed"} : LaunchSettles(result)

Next ==
  \/ RequestFails \/ ResponseArrives \/ BodyFails \/ Prompt
  \/ Wake \/ WakeAborted \/ Answer
  \/ PressEnter \/ Settle \/ Abort \/ Tick

Spec == Init /\ [][Next]_vars

\* Timers fire: the timeout of a request, which bounds the reading of its body
\* too, the one of a launch, the sleep, and the clock itself.
FairSpec ==
  /\ Spec
  /\ WF_vars(RequestFails) /\ WF_vars(BodyFails) /\ WF_vars(Prompt)
  /\ WF_vars(Wake) /\ WF_vars(WakeAborted) /\ WF_vars(Settle) /\ WF_vars(Tick)
-----------------------------------------------------------------------------
Polls == pc = "asleep" /\ pc' = "token"

\* GitHub is asked for the token no more often than it last said it wants to be
\* (a slow_down without a usable interval adds to the last one), however late
\* timers fire and answers come.
KeepsThePace == [][Polls => now - asked >= announced]_vars

\* GitHub is not asked with a code that has expired, nor after q or Ctrl-C.
PollsWhileWanted == [][Polls => now < expiresAt /\ ~aborted]_vars

\* Whoever waits for the token and has no browser from the last launch has the
\* link to open by hand, whichever of the launches failed.
LinkAtHand ==
  pc \in {"asleep", "token", "tokenBody"} /\ ~opening /\ launched # "opened"
    => linkShown

\* Every sign-in ends, also when GitHub does not answer and nobody enters the
\* code.
Ends == <>(pc = "done")
=============================================================================
