----------------------------- MODULE MemeEngine -----------------------------
(***************************************************************************)
(* The selection of the lines of one battle (meme/engine.ts,               *)
(* meme/narrative.ts): the best atom that fires and still has something to *)
(* say, then any of its lines, for the code picks by a hash of the battle. *)
(***************************************************************************)
EXTENDS MemeAtoms, MemeTemplates

CONSTANTS Profiles,   \* the profiles that may meet
          Snapshots,  \* what was collected of each
          Matches     \* the battles: pairs of profiles, the left one and the right one
ASSUME MatchesAssumption == Matches \subseteq Profiles \X Profiles

VARIABLES fight,      \* [left, right, roast, theme]: what is shown of the two sides
          told        \* every line selected so far: [slot, of, template, motif, atom]

\* Metrics of the scorecard the facts are drawn from.
MetricNames ==
  {"ci", "substantialProjects", "messages", "repairLoops", "documentation", "testsExist",
   "organization", "sustainedWork", "releaseHygiene", "continuity", "testWorkflow"}

\* What the analysis makes of a profile are numbers, the identity's signals among them.
ASSUME NumbersAssumption ==
  \A p \in Profiles :
    LET card == Scorecard(Snapshots[p])
        mogsonas == MogsonaCatalog(IdentitySignals(card))
        leaks == LeakCatalog(IdentitySignals(card))
    IN /\ card.overall \in Int
       /\ card.confidence \in [score : Int, analyzed : Int, coverage : Int, basis : Int]
       /\ \A c \in DOMAIN card.category : card.category[c].score \in Int
       /\ \A d \in DOMAIN card.diagnostics : card.diagnostics[d] \in Int
       /\ MetricNames \subseteq DOMAIN card.metrics
       /\ \A m \in MetricNames : card.metrics[m].ratio \in Int
       /\ \A i \in DOMAIN mogsonas : mogsonas[i].signal \in Int
       /\ \A i \in DOMAIN leaks : leaks[i].signal \in Int

Assessed(card) == Joined(AssignIdentity(card), card)
Cards == [p \in Profiles |-> Assessed(Scorecard(Snapshots[p]))]

MotifBudget == 2
ThemeBoost == 12
Themeless == {"verdict_margin", "round_clear_win", "round_close_win", "round_tie"}

Apart(x, y) == Max({x - y, y - x})
\* The margin of a battle, in tenths of a point like those of the rounds.
MarginOf(left, right) == 10 * Apart(left.overall, right.overall)

\* The margins a match is told with: its own and those of its rounds.
MarginsOf(left, right) ==
  {MarginOf(left, right)}
    \cup {Apart(left.category[c].score, right.category[c].score) : c \in DOMAIN left.category}

\* The atoms with a side as the subject, for each of the margins.
AtomsBetween(left, right, margins) ==
  [margin \in margins |-> [left |-> MemeAtomsOf(left, right, margin),
                           right |-> MemeAtomsOf(right, left, margin)]]
FactsOf(left, right) == AtomsBetween(View(left), View(right), MarginsOf(left, right))
Facts == [m \in Matches |-> FactsOf(Cards[m[1]], Cards[m[2]])]

\* The theme of the atom of the highest priority that fires for either of the
\* two; one does, for the identities always fire.
DominantTheme(atoms, roast) ==
  LET contest == {f \in (1 .. 2) \X DOMAIN atoms[1] :
                    f[2] \in Firing(atoms[f[1]], roast) /\ atoms[f[1]][f[2]].id \notin Themeless}
      Beats(f, g) == LET x == atoms[f[1]][f[2]].priority
                         y == atoms[g[1]][g[2]].priority
                     IN x > y \/ (x = y /\ f[2] <= g[2])
      dominant == CHOOSE f \in contest : \A g \in contest : Beats(f, g)
  IN atoms[dominant[1]][dominant[2]].theme

ThemeOf(left, right, roast) ==
  LET margin == MarginOf(left, right)
  IN DominantTheme(<<MemeAtomsOf(View(left), View(right), margin),
                     MemeAtomsOf(View(right), View(left), margin)>>, roast)

\* What a page shows of a profile, and the battle of two.
Shown(p, card) ==
  [profile |-> p, overall |-> card.overall, confidence |-> card.confidence,
   scores |-> [c \in DOMAIN card.category |-> card.category[c].score],
   mogsona |-> card.mogsona, motif |-> card.motif, leakMotif |-> card.leakMotif]
Fight(p, q, left, right, roast) ==
  [left |-> Shown(p, left), right |-> Shown(q, right), roast |-> roast,
   theme |-> ThemeOf(left, right, roast)]

CardOf(side) == fight[side]
Margin == MarginOf(fight.left, fight.right)
AtomsFor(side, margin) == Facts[<<fight.left.profile, fight.right.profile>>][margin][side]

-----------------------------------------------------------------------------
(* The three budgets.  The premises of the identity lines are spent before *)
(* the first selection, those of an Aura Leak twice.                       *)

Reserved(motif) ==
  LET Spent(side) == Part(CardOf(side).motif = motif, 1) + Part(CardOf(side).leakMotif = motif, 2)
  IN Spent("left") + Spent("right")

\* Mutant: the identity cards spend nothing.
MotifUsesOfLines(motif) == Cardinality({l \in told : l.motif = motif})

MotifUses(motif) == Reserved(motif) + Cardinality({l \in told : l.motif = motif})
AtomUses(id) == Cardinality({l \in told : l.atom = id})
TemplateUses(template) == Cardinality({l \in told : l.template = template.id})

TemplatesOf == [slot \in {t.slot : t \in MemeTemplates} |-> {t \in MemeTemplates : t.slot = slot}]

\* The lines an atom can still be told with; a line written for the category
\* leaves no room for the generic ones.
LinesFor(atom, slot, category) ==
  LET matching == {t \in TemplatesOf[slot] : /\ atom.id \in t.atoms
                                             /\ TemplateUses(t) < t.copies
                                             /\ MotifUses(t.motif) < MotifBudget
                                             /\ t.category \in {"any", category}}
      specific == {t \in matching : t.category # "any"}
  IN IF specific # {} THEN specific ELSE matching

\* The lines of the best of the atoms for a slot, none without a candidate.
LinesOfBest(atoms, slot, category) ==
  LET lines == [i \in {j \in Firing(atoms, fight.roast) :
                         slot \in atoms[j].slots /\ AtomUses(atoms[j].id) < atoms[j].repetitions}
                  |-> LinesFor(atoms[i], slot, category)]
      candidates == {i \in DOMAIN lines : lines[i] # {}}
      Rank(i) == atoms[i].priority + Part(atoms[i].theme = fight.theme, ThemeBoost)
      Before(i, j) == \/ Rank(i) > Rank(j)
                      \/ Rank(i) = Rank(j) /\ atoms[i].intensity > atoms[j].intensity
                      \/ Rank(i) = Rank(j) /\ atoms[i].intensity = atoms[j].intensity /\ i <= j
      best == CHOOSE i \in candidates : \A j \in candidates : Before(i, j)
  IN IF candidates = {} THEN {}
     ELSE {[template |-> t.id, motif |-> t.motif, atom |-> atoms[best].id] : t \in lines[best]}

\* The lines a slot may get.
Select(slot, category, side, margin) == LinesOfBest(AtomsFor(side, margin), slot, category)

\* A selected line with the place it is told in.
Placed(line, slot, of) == Joined([slot |-> slot, of |-> of], line)
=============================================================================
