------------------------------ MODULE Identity ------------------------------
(***************************************************************************)
(* The choice of one identity and at most one trait (identity/classify.ts).*)
(***************************************************************************)
EXTENDS AuraLeaks

AuraClasses == <<"unrated", "standard", "distinctive", "rare", "mythic">>
ClassRank(class) == CHOOSE i \in DOMAIN AuraClasses : AuraClasses[i] = class

Pieces(card, cited, Polarity(_)) ==
  MapThenSumSet(LAMBDA m : Cardinality({i \in DOMAIN card.metrics[m].evidence :
                                           Polarity(card.metrics[m].evidence[i])}), cited)

\* Positive evidence; only the last fallback may rest on neutral evidence.
MogsonaEvidence(card, definition) ==
  LET positive == Pieces(card, definition.cited, LAMBDA p : p = "positive")
  IN IF positive > 0 \/ definition.id # "stealth_builder" THEN positive
     ELSE Pieces(card, definition.cited, LAMBDA p : p # "negative")

\* A trait is a contradiction, it cites both halves.
LeakEvidence(card, definition) == Pieces(card, definition.cited, LAMBDA p : TRUE)

MeasuredIn(card, required) == \A m \in required : card.metrics[m].ratio # None

\* The signal of an identity, held under what the identity can explain.
SignalScore(definition) == HalfUp(definition.signal * definition.specificity, 100)

\* The class of what is given: how strong the evidence is, never more than the
\* definition allows.
Class(v, definition, evidence) ==
  LET Reaches(signal, confidence, pieces) ==
        /\ SignalScore(definition) >= signal
        /\ v.confidence >= confidence
        /\ evidence >= pieces
        /\ definition.qualifying >= pieces
      reached == IF Reaches(8800, 62, 3) /\ definition.gate THEN "mythic"
                 ELSE IF Reaches(7800, 55, 3) THEN "rare"
                 ELSE IF Reaches(6200, 45, 2) THEN "distinctive"
                 ELSE IF Reaches(4000, 0, 1) THEN "standard" ELSE "unrated"
  IN IF ClassRank(reached) <= ClassRank(definition.highest) THEN reached ELSE definition.highest

Qualifies(card, v, definition) ==
  /\ MeasuredIn(card, definition.required)
  /\ ~definition.blocked
  /\ SignalScore(definition) >= definition.floor
  /\ v.confidence >= definition.confidence
  /\ MogsonaEvidence(card, definition) >= definition.least

LeakQualifies(card, definition) ==
  /\ MeasuredIn(card, definition.required)
  /\ ~definition.blocked
  /\ definition.signal >= definition.floor
  /\ LeakEvidence(card, definition) >= definition.least

SeverityBonus == [critical |-> 2000, notable |-> 1000, light |-> 0]

\* The strongest entry, the first of equals.
Strongest(catalog, S, Rank(_)) ==
  catalog[Min({i \in S : \A j \in S : Rank(catalog[j]) <= Rank(catalog[i])})]

\* The identity of a profile and its trait, None when no trait qualifies.
IdentityOf(card, v, mogsonas, leaks) ==
  LET qualified == {i \in DOMAIN mogsonas : Qualifies(card, v, mogsonas[i])}
      Named(id) == CHOOSE i \in DOMAIN mogsonas : mogsonas[i].id = id
      fallbacks == {Named("repo_generalist"), Named("stealth_builder")}
      given == IF qualified \ fallbacks # {} THEN Strongest(mogsonas, qualified \ fallbacks,
                                                            SignalScore)
               ELSE IF Named("repo_generalist") \in qualified THEN RepoGeneralist(v)
               ELSE StealthBuilder(v)
      teased == {i \in DOMAIN leaks : LeakQualifies(card, leaks[i])}
      leak == Strongest(leaks, teased,
                        LAMBDA l : l.signal + SeverityBonus[l.severity])
  IN [mogsona |-> given.id, motif |-> given.motif,
      class |-> Class(v, given, MogsonaEvidence(card, given)),
      leak |-> IF teased = {} THEN "none" ELSE leak.id,
      leakMotif |-> IF teased = {} THEN "none" ELSE leak.motif]

FromCatalogs(card, v) == IdentityOf(card, v, MogsonaCatalog(v), LeakCatalog(v))
AssignIdentity(card) == FromCatalogs(card, IdentitySignals(card))
=============================================================================
