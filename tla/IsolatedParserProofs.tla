----------------------- MODULE IsolatedParserProofs ------------------------
(***************************************************************************)
(* Theorems about the isolated parser for all files, ceilings and limits   *)
(* of time.  A file is sent only to a worker that owes no answer, so the   *)
(* mailbox holds the file that is waited for or nothing; and every timer   *)
(* is set from what is left of the profile's deadline, so a timer that     *)
(* runs is due before it, one tick excepted.                               *)
(***************************************************************************)
EXTENDS IsolatedParser, FiniteSetTheorems, TLAPS

Verdicts == {"parsed", "isolation-failure"}

\* The worker in hand and its mailbox.
Mailbox ==
    /\ pc \in {"loop", "starting", "returned"} => inbox = <<>>
    /\ pc = "parsing" => inbox = <<at>> /\ armed
    /\ pc \in {"starting", "parsing"} => at <= Eligible /\ worker # 0

\* The timer that runs, and the clock when none does.
Deadline ==
    /\ pc = "starting" => now <= due /\ due <= ProfileTime
    /\ pc = "parsing" => now <= due /\ due <= ProfileTime + 1
    /\ now <= ProfileTime + 1

\* Only files that were dealt with have been answered, and only those that were
\* answered are parsed.
Credited ==
    /\ answered \subseteq 1 .. at - 1
    /\ AnswerIsUsed

OneWorker ==
    /\ AtMostOneWorker
    /\ worker = 0 => alive = {}

IInv == TypeOK /\ Mailbox /\ Deadline /\ Credited /\ OneWorker
-----------------------------------------------------------------------------
\* No more files are eligible than are looked at.
LEMMA EligibleBounded ==
  /\ Eligible \in Nat
  /\ \A n \in 1 .. Eligible : n \in Bounded
  <1> DEFINE some == {n \in Bounded : BytesUpTo[n] <= MaxBytes}
             most == Least(Len(Inputs), MaxInputs)
  <1>1. most \in Nat
    BY ParserAssumption DEF Least
  <1>2. IsFiniteSet(Bounded) /\ Cardinality(Bounded) = most
    BY <1>1, FS_Interval DEF Bounded
  <1>3. IsFiniteSet(some) /\ Cardinality(some) <= Cardinality(Bounded)
    BY <1>2, FS_Subset
  <1>4. Cardinality(some) \in Nat
    BY <1>3, FS_CardinalityType
  <1> HIDE DEF most
  <1>5. Eligible = Cardinality(some) /\ Bounded = 1 .. most
    BY DEF Eligible, Bounded, most
  <1> HIDE DEF some
  <1> QED BY <1>1, <1>2, <1>3, <1>4, <1>5

LEMMA TimesInNat ==
  /\ StartTime \in Nat \ {0} /\ FileTime \in Nat \ {0} /\ ProfileTime \in Nat \ {0}
  BY ParserAssumption

\* Nothing was refused: the deadline is ahead.
LEMMA NotRefused ==
  ASSUME Refusal = "none"
  PROVE  ~(now >= ProfileTime)
  BY DEF Refusal

\* A timer set for a file fires at most one tick after the deadline.
LEMMA FileTimer ==
  ASSUME now \in Nat, now <= ProfileTime
  PROVE  FileDue \in Nat /\ now <= FileDue /\ FileDue <= ProfileTime + 1
  BY TimesInNat DEF FileDue, Most, Least
-----------------------------------------------------------------------------
LEMMA InitIInv == ASSUME Init PROVE IInv
  <1>1. TypeOK
    <2>1. <<>> \in Seq(Bounded)
      OBVIOUS
    <2>2. results \in [Bounded -> Failures \union {"null", "parsed"}]
      BY DEF Init
    <2>3. at \in 1 .. Eligible + 1
      BY EligibleBounded DEF Init
    <2>4. inbox \in Seq(Bounded)
      BY <2>1 DEF Init
    <2>5. worker \in 0 .. started /\ alive \subseteq 1 .. started /\ started \in Nat
      BY DEF Init
    <2>6. pc = "loop" /\ armed \in BOOLEAN /\ aborted \in BOOLEAN /\ now \in Nat /\ due \in Nat
      BY DEF Init
    <2> QED BY <2>2, <2>3, <2>4, <2>5, <2>6 DEF TypeOK
  <1>2. Mailbox /\ OneWorker
    BY DEF Init, Mailbox, OneWorker, AtMostOneWorker
  <1>3. Deadline
    BY TimesInNat DEF Init, Deadline
  <1>4. Credited
    BY DEF Init, Credited, AnswerIsUsed
  <1> QED BY <1>1, <1>2, <1>3, <1>4 DEF IInv

\* The end of a file: any verdict, while the worker is let go or kept for the next.
LEMMA Settled ==
  ASSUME IInv, at <= Eligible,
         NEW verdict \in Failures \union Verdicts, Settle(verdict),
         UNCHANGED now,
         inbox' = <<>>,
         worker' \in {0, worker}, started' = started, aborted' \in BOOLEAN,
         alive' = (IF worker' = 0 THEN alive \ {worker} ELSE alive),
         due' = due,
         \/ answered' = answered /\ verdict # "parsed"
         \/ answered' = answered \union {at} /\ verdict \in Verdicts
  PROVE  IInv'
  <1>1. at \in 1 .. Eligible /\ at \in Bounded /\ at' = at + 1 /\ at \in Nat /\ Eligible \in Nat
    BY EligibleBounded DEF IInv, TypeOK, Settle
  <1>2. results' = [results EXCEPT ![at] = verdict]
        /\ results \in [Bounded -> Failures \union {"null", "parsed"}]
    BY DEF Settle, IInv, TypeOK
  <1>3. results' \in [Bounded -> Failures \union {"null", "parsed"}]
    BY <1>1, <1>2 DEF Failures, Verdicts
  <1>4. pc' = "loop" /\ armed' = FALSE
    BY DEF Settle
  <1>5. at' \in 1 .. Eligible + 1
    BY <1>1
  <1>6. worker' \in 0 .. started' /\ alive' \subseteq 1 .. started'
    BY DEF IInv, TypeOK
  <1>7. TypeOK'
    <2>1. inbox' \in Seq(Bounded)
      OBVIOUS
    <2> QED BY <1>3, <1>4, <1>5, <1>6, <2>1 DEF IInv, TypeOK
  <1>8. Mailbox'
    BY <1>4 DEF Mailbox
  <1>9. Deadline'
    BY <1>4 DEF IInv, Deadline
  <1>10. Credited'
    <2>1. answered' \subseteq 1 .. at' - 1
      <3>1. answered \subseteq 1 .. at - 1 /\ answered' \subseteq answered \union {at}
        BY DEF IInv, Credited
      <3>2. \A n \in 1 .. at - 1 : n \in 1 .. at' - 1
        BY <1>1
      <3>3. at \in 1 .. at' - 1
        BY <1>1
      <3> QED BY <3>1, <3>2, <3>3
    <2>2. ASSUME NEW n \in Bounded, n \in answered'
          PROVE  results'[n] \in Verdicts
      <3>1. CASE n = at
        <4>1. at \notin answered
          BY <1>1 DEF IInv, Credited
        <4> QED BY <1>2, <2>2, <3>1, <4>1
      <3>2. CASE n # at
        BY <1>2, <2>2, <3>2 DEF IInv, Credited, AnswerIsUsed, Verdicts
      <3> QED BY <3>1, <3>2
    <2>3. ASSUME NEW n \in Bounded, results'[n] = "parsed"
          PROVE  n \in answered'
      <3>1. CASE n = at
        BY <1>2, <2>3, <3>1
      <3>2. CASE n # at
        BY <1>2, <2>3, <3>2 DEF IInv, Credited, AnswerIsUsed
      <3> QED BY <3>1, <3>2
    <2> QED BY <2>1, <2>2, <2>3 DEF Credited, AnswerIsUsed, Verdicts
  <1>11. OneWorker'
    BY <1>4 DEF IInv, OneWorker, AtMostOneWorker
  <1> QED BY <1>7, <1>8, <1>9, <1>10, <1>11 DEF IInv

\* A file goes to a worker that has none.
LEMMA Posted ==
  ASSUME IInv, Post, at <= Eligible, worker # 0, inbox = <<>>, now <= ProfileTime
  PROVE  IInv'
  <1>1. at \in Bounded /\ at \in 1 .. Eligible
    BY EligibleBounded DEF IInv, TypeOK
  <1>2. pc' = "parsing" /\ armed' /\ inbox' = <<at>> /\ due' = FileDue
        /\ armed' \in BOOLEAN
        /\ UNCHANGED <<at, results, worker, started, alive, now, aborted, answered>>
    BY DEF Post
  <1>3. FileDue \in Nat /\ now <= FileDue /\ FileDue <= ProfileTime + 1
    BY FileTimer DEF IInv, TypeOK
  <1>4. TypeOK'
    BY <1>1, <1>2, <1>3 DEF IInv, TypeOK
  <1>5. Mailbox'
    BY <1>2 DEF Mailbox
  <1>6. Deadline'
    BY <1>2, <1>3 DEF IInv, Deadline
  <1>7. Credited' /\ OneWorker'
    BY <1>2 DEF IInv, Credited, AnswerIsUsed, OneWorker, AtMostOneWorker
  <1> QED BY <1>4, <1>5, <1>6, <1>7 DEF IInv

LEMMA NextIInv == ASSUME IInv, [Next]_vars PROVE IInv'
  <1> USE DEF IInv
  <1>t. TypeOK
    OBVIOUS
  <1>1. CASE Refuse
    <2>1. Refusal \in Failures /\ Refusal # "parsed"
      BY <1>1 DEF Refuse, Refusal, Failures
    <2>2. inbox' = <<>> /\ at <= Eligible
      BY <1>1 DEF Refuse, Mailbox
    <2> QED BY <1>1, <1>t, <2>1, <2>2, Settled DEF Refuse, TypeOK
  <1>2. CASE StartWorker
    <2>1. now \in Nat /\ now < ProfileTime /\ ProfileTime \in Nat /\ StartTime \in Nat \ {0}
      BY <1>2, NotRefused, TimesInNat DEF StartWorker, TypeOK
    <2>2. due' \in Nat /\ now <= due' /\ due' <= ProfileTime
      BY <1>2, <2>1 DEF StartWorker, Least, Most
    <2>3. TypeOK'
      BY <1>2, <2>2 DEF StartWorker, TypeOK
    <2>4. Mailbox' /\ OneWorker'
      BY <1>2 DEF StartWorker, Mailbox, OneWorker, AtMostOneWorker, TypeOK
    <2>5. Deadline'
      BY <1>2, <2>1, <2>2 DEF StartWorker, Deadline
    <2>6. Credited'
      BY <1>2 DEF StartWorker, Credited, AnswerIsUsed
    <2> QED BY <2>3, <2>4, <2>5, <2>6
  <1>3. CASE SendFile
    <2>1. now <= ProfileTime
      BY <1>3, NotRefused, TimesInNat DEF SendFile, TypeOK
    <2> QED BY <1>3, <2>1, Posted DEF SendFile, Mailbox
  <1>4. CASE TimerFires
    BY <1>4, Settled DEF TimerFires, Release, Give, Mailbox, TypeOK, Failures, Verdicts
  <1>5. CASE Return
    <2>1. TypeOK'
      <3>1. inbox' = inbox
        BY <1>5 DEF Return, Give, Mailbox
      <3>2. worker' \in 0 .. started' /\ alive' \subseteq 1 .. started'
        <4>1. started' = started /\ started \in Nat
          BY <1>5 DEF Return, TypeOK
        <4>2. worker' \in {0, worker}
          BY <1>5 DEF Return, Give
        <4>3. alive' \subseteq alive
          BY <1>5 DEF Return, Give
        <4> QED BY <4>1, <4>2, <4>3 DEF TypeOK
      <3> QED BY <1>5, <3>1, <3>2 DEF Return, TypeOK
    <2>2. Mailbox' /\ Deadline' /\ OneWorker'
      BY <1>5 DEF Return, Give, Mailbox, Deadline, OneWorker, AtMostOneWorker
    <2>3. Credited'
      BY <1>5 DEF Return, Credited, AnswerIsUsed
    <2> QED BY <2>1, <2>2, <2>3
  <1>6. CASE WorkerReady
    <2>1. now <= ProfileTime
      BY <1>6, TimesInNat DEF WorkerReady, Deadline, TypeOK
    <2> QED BY <1>6, <2>1, Posted DEF WorkerReady, Mailbox
  <1>7. CASE WorkerDies
    BY <1>7, Settled DEF WorkerDies, Give, Mailbox, TypeOK, Failures, Verdicts
  <1>8. CASE Answer
    <2>1. inbox = <<at>> /\ armed /\ at <= Eligible
      BY <1>8 DEF Answer, Mailbox
    <2>2. Head(inbox) = at /\ inbox' = <<>>
      BY <1>8, <2>1 DEF Answer
    <2>3. PICK verdict \in Verdicts : Settle(verdict)
      BY <1>8, <2>1, <2>2 DEF Answer, Verdicts
    <2>4. answered' = answered \union {at}
      BY <1>8, <2>2 DEF Answer
    <2> QED BY <1>8, <2>1, <2>2, <2>3, <2>4, Settled DEF Answer, TypeOK, Mailbox
  <1>9. CASE Abort
    BY <1>9, Settled DEF Abort, Release, Give, Mailbox, TypeOK, Failures, Verdicts
  <1>10. CASE Tick
    <2>1. TypeOK'
      BY <1>10 DEF Tick, TypeOK
    <2>2. Mailbox' /\ OneWorker'
      BY <1>10 DEF Tick, Mailbox, OneWorker, AtMostOneWorker
    <2>3. Deadline'
      BY <1>10, TimesInNat DEF Tick, Deadline, TypeOK
    <2>4. Credited'
      BY <1>10 DEF Tick, Credited, AnswerIsUsed
    <2> QED BY <2>1, <2>2, <2>3, <2>4
  <1>11. CASE UNCHANGED vars
    BY <1>11 DEF vars, TypeOK, Mailbox, Deadline, Credited, AnswerIsUsed, OneWorker,
                 AtMostOneWorker
  <1> QED BY <1>1, <1>2, <1>3, <1>4, <1>5, <1>6, <1>7, <1>8, <1>9, <1>10, <1>11
          DEF Next, Program
-----------------------------------------------------------------------------
LEMMA Inductive == Spec => []IInv
  BY InitIInv, NextIInv, PTL DEF Spec

\* The variables of a parse keep their types, whatever the worker does.
THEOREM Typed == Spec => []TypeOK
  BY Inductive, PTL DEF IInv

\* Parsing a profile takes no more than its deadline and one tick, for all files
\* and for every choice of the three limits, however often workers are started.
THEOREM ProfileTimeIsKept == Spec => []WithinProfileTime
  <1>1. IInv => WithinProfileTime
    BY DEF IInv, Deadline, WithinProfileTime
  <1> QED BY <1>1, Inductive, PTL

\* An answer that came in time is the verdict of the file it is about, and a file
\* is parsed by an answer about it only.
THEOREM AnswersAreUsed == Spec => []AnswerIsUsed
  <1>1. IInv => AnswerIsUsed
    BY DEF IInv, Credited
  <1> QED BY <1>1, Inductive, PTL

\* There is never a worker beside the one in hand, and none is left behind.
THEOREM NoWorkerIsLeft == Spec => []AtMostOneWorker
  <1>1. IInv => AtMostOneWorker
    BY DEF IInv, OneWorker
  <1> QED BY <1>1, Inductive, PTL
=============================================================================
