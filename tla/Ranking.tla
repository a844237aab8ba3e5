------------------------------ MODULE Ranking -------------------------------
(***************************************************************************)
(* Usefulness of a voucher to the owner (score) and the owner's hard rules *)
(* (eligibility).  A voucher is a record of the fields these read; a field *)
(* that is not stated is None.  Money is whole VND, percentages are whole, *)
(* time is in minutes.  A name that is compared without case and padding   *)
(* is a pair of the name and its spelling.                                 *)
(***************************************************************************)
EXTENDS Basics, Sequences, SequencesExt

\* Option::filter(is_sign_positive): zero has a positive sign.
NonNegative(x) == IF Stated(x) /\ x >= 0 THEN x ELSE None

ContainsIgnoreCase(names, name) == \E n \in names : n[1] = name[1]

\* The smaller of amount and cap, or whichever is stated.
EffectiveDiscount(v) ==
  LET amount == NonNegative(v.amount)
      cap    == NonNegative(v.cap)
  IN IF Stated(amount) /\ Stated(cap) THEN Min2(amount, cap)
     ELSE IF Stated(amount) THEN amount ELSE cap

-----------------------------------------------------------------------------
(* Weights *)

AbsoluteTiers   == << <<500000, 30>>, <<200000, 24>>, <<100000, 18>>, <<50000, 12>>, <<20000, 6>>, <<1, 2>> >>
PercentTiers    == << <<50, 20>>, <<30, 15>>, <<20, 10>>, <<10, 6>>, <<1, 2>> >>
EfficiencyTiers == << <<50, 25>>, <<25, 20>>, <<10, 14>>, <<5, 8>>, <<2, 3>> >>
CapTiers        == << <<100000, 12>>, <<50000, 8>>, <<20000, 4>>, <<1, 1>> >>
ActivationTiers == << <<60, 8>>, <<360, 5>>, <<1440, 3>>, <<10080, 1>> >>
DurationTiers   == << <<168, 6>>, <<48, 4>>, <<12, 2>>, <<1, 1>> >>

TypeWeight ==
  [Platform |-> 12, Freeship |-> 10, Payment |-> 6, Shop |-> 4, Category |-> 4,
   Live |-> 2, Video |-> 2, Unknown |-> 0]

ScopeWeight ==
  [Platform |-> 8, Shop |-> -4, Category |-> -2, Payment |-> -6, Other |-> -3, Unstated |-> -1]

Marks(tiers) == {tiers[i][1] : i \in DOMAIN tiers}

\* The delta of the first tier whose mark is reached, else otherwise.
TierFor(tiers, reached, otherwise) ==
  LET i == SelectInSeq(tiers, LAMBDA t : t[1] \in reached)
  IN IF i = 0 THEN otherwise ELSE tiers[i][2]

-----------------------------------------------------------------------------
(* score.rs.  Each part is the sum of its components' deltas; one that says *)
(* nothing adds nothing.                                                    *)

ScoreReadiness(v) == IF v.ready THEN 10 ELSE -15

ScoreType(v, rules) == TypeWeight[v.type] + (IF v.type \in rules.preferred THEN 10 ELSE 0)

ScoreAbsolute(v) ==
  LET amount == NonNegative(v.amount)
  IN IF Stated(amount) THEN TierFor(AbsoluteTiers, {t \in Marks(AbsoluteTiers) : amount >= t}, 0)
     ELSE IF Stated(v.percent) \/ Stated(v.cap) THEN 0
     ELSE IF v.discount = "FreeShipping" THEN 8 ELSE -6

ScorePercent(v) ==
  LET percent == NonNegative(v.percent)
  IN IF Stated(percent) THEN TierFor(PercentTiers, {t \in Marks(PercentTiers) : percent >= t}, 0) ELSE 0

ScoreCap(v) ==
  LET cap == NonNegative(v.cap)
  IN IF Stated(cap) THEN TierFor(CapTiers, {t \in Marks(CapTiers) : cap >= t}, 0)
     ELSE IF Stated(v.percent) THEN -3 ELSE 0

\* A ratio by a minimum of zero is no number, and says nothing.
ScoreEfficiency(v) ==
  LET value == EffectiveDiscount(v)
      spend == NonNegative(v.min)
  IN IF ~Stated(value) THEN 0
     ELSE IF ~Stated(spend) THEN 25
     ELSE IF spend = 0 THEN 0
     ELSE TierFor(EfficiencyTiers, {t \in Marks(EfficiencyTiers) : value * 100 >= t * spend}, -5)

ScoreActivation(v, now) ==
  IF ~Stated(v.start) THEN 2
  ELSE IF v.start <= now THEN 10
  ELSE TierFor(ActivationTiers, {t \in Marks(ActivationTiers) : v.start - now <= t}, -2)

\* Mutant: the tiers are read like those of activation.
ScoreDurationBackwards(v, now) ==
  IF ~Stated(v.end) THEN -2
  ELSE LET from == IF Stated(v.start) THEN Max2(v.start, now) ELSE now
       IN TierFor(DurationTiers, {t \in Marks(DurationTiers) : v.end - from <= 60 * t}, -4)

ScoreDuration(v, now) ==
  IF ~Stated(v.end) THEN -2
  ELSE LET from == IF Stated(v.start) THEN Max2(v.start, now) ELSE now
       IN TierFor(DurationTiers, {t \in Marks(DurationTiers) : v.end - from >= 60 * t}, -4)

ScoreRestrictions(v) ==
  ScopeWeight[v.scope.kind] + (IF Stated(v.method) /\ v.scope.kind # "Payment" THEN -4 ELSE 0)

ScoreSource(v, rules) == IF v.source \in rules.trusted THEN 12 ELSE 0

Expired(v, now) == Stated(v.end) /\ v.end <= now

Merits(v, rules, now) ==
  ScoreReadiness(v) + ScoreType(v, rules) + ScoreAbsolute(v) + ScorePercent(v)
    + ScoreCap(v) + ScoreEfficiency(v) + ScoreActivation(v, now)
    + ScoreDuration(v, now) + ScoreRestrictions(v) + ScoreSource(v, rules)

\* Mutant: expiry is one weight among the others.
ScoreWeighed(v, rules, now) == Merits(v, rules, now) - (IF Expired(v, now) THEN 40 ELSE 0)

\* Expiry disqualifies: nothing else is counted.
Score(v, rules, now) == IF Expired(v, now) THEN -1000 ELSE Merits(v, rules, now)

\* rank_all's comparison: higher score, then smaller id.
RanksBefore(v, w, rules, now) ==
  \/ Score(v, rules, now) > Score(w, rules, now)
  \/ Score(v, rules, now) = Score(w, rules, now) /\ v.id < w.id

-----------------------------------------------------------------------------
(* rules.rs and eligibility.rs *)

RulesIssues(rules) ==
  (IF rules.autoClaim < rules.notify THEN {"ThresholdsInverted"} ELSE {})
    \union (IF Stated(rules.minDiscount) /\ rules.minDiscount < 0 THEN {"NegativeMinDiscount"} ELSE {})
    \union (IF Stated(rules.maxSpend) /\ rules.maxSpend < 0 THEN {"NegativeMaxSpend"} ELSE {})

PassesNotification(score, rules) == score >= rules.notify
MeetsAutoClaim(score, rules)     == score >= rules.autoClaim

TerminalForOwner == {"Saved", "Exhausted", "Expired", "Ineligible"}

\* The payment scope's method hides the field's.
RequiredMethod(v) == IF v.scope.kind = "Payment" THEN v.scope.of ELSE v.method

\* Every failing rule is listed.
Denials(v, rules) ==
  LET value == EffectiveDiscount(v)
      spend == NonNegative(v.min)
  IN (IF v.status \in TerminalForOwner THEN {"status"} ELSE {})
       \union (IF v.scope.kind = "Shop" /\ ContainsIgnoreCase(rules.noShops, v.scope.of) THEN {"shop"} ELSE {})
       \union (IF v.scope.kind = "Category" /\ ContainsIgnoreCase(rules.noCategories, v.scope.of)
               THEN {"category"} ELSE {})
       \union (IF Stated(RequiredMethod(v)) /\ ContainsIgnoreCase(rules.noMethods, RequiredMethod(v))
               THEN {"payment"} ELSE {})
       \union (IF Stated(rules.minDiscount) /\ (~Stated(value) \/ value < rules.minDiscount)
               THEN {"discount"} ELSE {})
       \union (IF Stated(rules.maxSpend) /\ Stated(spend) /\ spend > rules.maxSpend
               THEN {"spend"} ELSE {})

Eligible(v, rules) == Denials(v, rules) = {}

=============================================================================
