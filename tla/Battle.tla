------------------------------- MODULE Battle -------------------------------
(***************************************************************************)
(* One battle (fast-scan/battle.ts, verdict.ts): the scorecards decide the *)
(* winner, then every slot of the page asks the engine for a line, in the  *)
(* order of the code.  The order matters: what an early slot tells is      *)
(* spent for all later ones.                                               *)
(***************************************************************************)
EXTENDS MemeEngine

VARIABLES stage,   \* the slot that is asked next
          turn,    \* within the summary or the rounds, how many are over
          notes    \* the candidates of the battle notes, in the order told
battleVars == <<fight, told, stage, turn, notes>>

Sides == {"left", "right"}
SummaryLines == 3
SummaryCandidates == 6
ConfidenceDiffThreshold == 15

DedicatedSections == {"sum.scoreline", "sum.basis", "sum.confidence", "sum.margin"}

Ahead(x, y) == IF x = y THEN "tie" ELSE IF x > y THEN "left" ELSE "right"
Winner == Ahead(CardOf("left").overall, CardOf("right").overall)
\* A tie is told from the left.
SubjectOf(winner) == IF winner = "right" THEN "right" ELSE "left"
WinningSide == SubjectOf(Winner)

\* Mutant: two points are not a photo finish any more.
ClassifyVerdictStrictly(margin) ==
  IF margin >= 200 THEN "nuclear-repo-gap"
  ELSE IF margin >= 120 THEN "extreme-diff"
  ELSE IF margin >= 60 THEN "clean-mog"
  ELSE IF margin >= 20 THEN "aura-edge"
  ELSE IF margin >= 10 THEN "photo-finish" ELSE "mutual-aura"

\* Points of a margin in tenths.
ClassifyVerdict(margin) ==
  IF margin >= 200 THEN "nuclear-repo-gap"
  ELSE IF margin >= 120 THEN "extreme-diff"
  ELSE IF margin >= 60 THEN "clean-mog"
  ELSE IF margin >= 30 THEN "aura-edge"
  ELSE IF margin >= 10 THEN "photo-finish" ELSE "mutual-aura"

EvidenceDiff ==
  LET left == CardOf("left").confidence.score
      right == CardOf("right").confidence.score
  IN IF Apart(left, right) < ConfidenceDiffThreshold THEN "none" ELSE Ahead(left, right)

\* The score of a category for both sides, and the round it makes.
RoundOf(category) ==
  LET left == CardOf("left").scores[category]
      right == CardOf("right").scores[category]
  IN IF left = None \/ right = None THEN [winner |-> "unscored", margin |-> 0]
     ELSE [winner |-> Ahead(left, right), margin |-> Apart(left, right)]

-----------------------------------------------------------------------------
(* The notes: at most three of the candidates, none that repeats a section *)
(* of the page or an Aura Leak.                                            *)

LeakUses(motif) == Part(CardOf("left").leakMotif = motif, 1)
                   + Part(CardOf("right").leakMotif = motif, 1)

\* Of the lines of a motif that is shown too often the first ones go.
DedupeAuraLeakMotifs ==
  LET Earlier(i) == {j \in 1 .. i - 1 : notes[j].motif = notes[i].motif
                                        /\ notes[j].template \notin DedicatedSections}
      Kept(i) == /\ notes[i].template \notin DedicatedSections
                 /\ Cardinality(Earlier(i)) >= MotifUses(notes[i].motif)
                                               + LeakUses(notes[i].motif) - MotifBudget
      kept == {i \in DOMAIN notes : Kept(i)}
  IN {notes[i] : i \in {j \in kept : Cardinality({k \in kept : k < j}) < SummaryLines}}

\* A weakness that says what the Aura Leak says already is not shown.
Weakness(side) ==
  {l \in told : l.slot = "weakness" /\ l.of = side /\ l.motif # CardOf(side).leakMotif}

-----------------------------------------------------------------------------
BattleInit ==
  /\ \E match \in Matches, roast \in {"clean", "spicy"} :
        fight = Fight(match[1], match[2], Cards[match[1]], Cards[match[2]], roast)
  /\ told = {}
  /\ stage = "finisher"
  /\ turn = 0
  /\ notes = <<>>

Noted == {"low-evidence", "summary"}

\* Tells one of the lines of a slot, or nothing when there is none.
TellOneOf(lines, slot, of) ==
  \/ /\ lines = {}
     /\ UNCHANGED <<told, notes>>
  \/ \E line \in lines :
       /\ told' = told \cup {Placed(line, slot, of)}
       /\ notes' = IF slot \in Noted THEN Append(notes, Placed(line, slot, of)) ELSE notes

Tell(slot, of, category, side, margin) ==
  TellOneOf(Select(slot, category, side, margin), slot, of)

\* The two lines a battle cannot be without: the code throws.
Required(slot, next) ==
  /\ stage = slot
  /\ Tell(slot, "battle", "any", WinningSide, Margin)
  /\ stage' = IF told' = told THEN "failed" ELSE next
  /\ UNCHANGED <<fight, turn>>

Finisher == Required("finisher", "matchup")
Matchup == Required("matchup", "low-evidence left")

SideLine(here, slot, side, subject, next) ==
  /\ stage = here
  /\ Tell(slot, side, "any", subject, Margin)
  /\ stage' = next
  /\ UNCHANGED <<fight, turn>>

\* Like a weakness, told from the other side.
LowEvidenceLeft ==
  SideLine("low-evidence left", "low-evidence", "left", "right", "low-evidence right")
LowEvidenceRight ==
  SideLine("low-evidence right", "low-evidence", "right", "left", "summary")

\* The summary stops at the first candidate that is not there.
Summary ==
  /\ stage = "summary"
  /\ turn < SummaryCandidates
  /\ Tell("summary", "battle", "any", WinningSide, Margin)
  /\ told' # told
  /\ turn' = turn + 1
  /\ UNCHANGED <<fight, stage>>

SummaryOver ==
  /\ stage = "summary"
  /\ turn = SummaryCandidates \/ Select("summary", "any", WinningSide, Margin) = {}
  /\ stage' = "rounds"
  /\ turn' = 0
  /\ UNCHANGED <<fight, told, notes>>

\* A round without a line of the engine gets the line of the system.
Round ==
  /\ stage = "rounds"
  /\ LET category == Categories[turn + 1]
         round == RoundOf(category)
     IN IF round.winner = "unscored" THEN UNCHANGED <<told, notes>>
        ELSE Tell("round", category, category, SubjectOf(round.winner), round.margin)
  /\ turn' = turn + 1
  /\ stage' = IF turn' = Len(Categories) THEN "strength left" ELSE stage
  /\ UNCHANGED fight

StrengthLeft == SideLine("strength left", "strength", "left", "left", "strength right")
StrengthRight == SideLine("strength right", "strength", "right", "right", "weakness left")
WeaknessLeft == SideLine("weakness left", "weakness", "left", "right", "weakness right")
WeaknessRight == SideLine("weakness right", "weakness", "right", "left", "done")

\* The battle is over; a battle that stops anywhere else is a deadlock.
Finished ==
  /\ stage \in {"done", "failed"}
  /\ UNCHANGED battleVars

BattleNext ==
  \/ Finisher
  \/ Matchup
  \/ LowEvidenceLeft
  \/ LowEvidenceRight
  \/ Summary
  \/ SummaryOver
  \/ Round
  \/ StrengthLeft
  \/ StrengthRight
  \/ WeaknessLeft
  \/ WeaknessRight
  \/ Finished

BattleSpec == BattleInit /\ [][BattleNext]_battleVars

-----------------------------------------------------------------------------
(* What the page of a battle has to keep.                                  *)

\* A battle may be left without a finisher, but never for want of a matchup
\* line: whatever premises the identities spend, the scoreline can still be
\* told (the throw of meme/engine.ts, "matchup").
MatchupAlways == stage = "failed" => told = {}

\* However many slots ask, a premise is told at most twice on a page, the lines
\* of the identity cards counted, and a fact as often as its atom allows
\* (MOTIF_BUDGET, maxRepetitions: the overuse the engine is there to prevent).
NothingOverused ==
  \A l \in told :
    LET OnCards(side) == Part(CardOf(side).motif = l.motif, 1)
                         + Part(CardOf(side).leakMotif = l.motif, 1)
        repetitions == CASE l.atom \in {"round_clear_win", "round_close_win", "round_tie"} -> 8
                         [] l.atom = "verdict_margin" -> 4
                         [] l.atom = "low_public_evidence" -> 2
                         [] OTHER -> 1
    IN /\ OnCards("left") + OnCards("right") + Cardinality({k \in told : k.motif = l.motif}) <= 2
       /\ Cardinality({k \in told : k.atom = l.atom}) <= repetitions

\* Whoever reads a battle of a profile that hardly shows anything is told so,
\* by a caveat or by the identity of both (low_public_evidence, stealth_builder).
ThinEvidenceIsTold ==
  LET Thin(side) == CardOf(side).confidence.score < 45 \/ CardOf(side).confidence.analyzed < 2
  IN stage = "done" /\ (\E side \in Sides : Thin(side))
     => \/ \E l \in told : l.atom = "low_public_evidence"
        \/ \A side \in Sides : CardOf(side).mogsona = "stealth_builder"

\* The words of a page agree with its numbers: a line about the margin with the
\* verdict, a line about a round with its winner, a line about the evidence
\* with the difference shown (classifyVerdict, buildRounds, evidenceDiff).
WordsMatchNumbers ==
  \A l \in told :
    /\ l.atom = "nuclear_gap" => ClassifyVerdict(Margin) = "nuclear-repo-gap"
    /\ l.atom = "photo_finish" => ClassifyVerdict(Margin) \in {"photo-finish", "mutual-aura"}
    /\ l.atom = "public_evidence_diff" => EvidenceDiff = WinningSide
    /\ l.slot = "round" => /\ RoundOf(l.of).winner # "unscored"
                           /\ l.atom = "round_tie" => RoundOf(l.of).winner = "tie"
                           /\ l.atom \in {"round_clear_win", "round_close_win"}
                              => RoundOf(l.of).winner \in Sides

\* Says what engine.ts says of itself: a battle always has a finisher.
BattleHasFinisher == stage # "failed" \/ told # {}
=============================================================================
