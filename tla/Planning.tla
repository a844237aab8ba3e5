------------------------------ MODULE Planning ------------------------------
(***************************************************************************)
(* Planned purchases: what a voucher is known to demand (constraint.rs),   *)
(* whether it may help an item of the watchlist (relevance.rs), and which  *)
(* combination saves most on a basket (optimize.rs).  Labels are numbers   *)
(* in their lexical order.  A name is a pair of the name and its spelling. *)
(***************************************************************************)
EXTENDS Ranking, FiniteSets, FiniteSetsExt

-----------------------------------------------------------------------------
(* constraint.rs *)

\* Decimal::round_dp(0) of n / d: halves go to the even neighbour.
Rounded(n, d) ==
  LET q == n \div d
      r == 2 * (n % d)
  IN IF r > d \/ (r = d /\ q % 2 = 1) THEN q + 1 ELSE q

DiscountRule(v) ==
  LET percent == NonNegative(v.percent)
      cap     == NonNegative(v.cap)
      value   == EffectiveDiscount(v)
  IN IF Stated(percent) THEN [kind |-> "Percent", percent |-> percent, cap |-> cap]
     ELSE IF v.type = "Freeship" \/ v.discount = "FreeShipping"
       THEN [kind |-> "FreeShipping", amount |-> value]
     ELSE IF Stated(value) THEN [kind |-> "Fixed", amount |-> value]
     ELSE [kind |-> "Unknown"]

\* The field of a voucher wins over its scope.
PaymentMethod(v) ==
  IF Stated(v.method) THEN v.method
  ELSE IF v.scope.kind = "Payment" THEN v.scope.of ELSE None

\* VoucherConstraint::from_voucher: every gap is named.
Unknowns(v) ==
  (CASE v.scope.kind = "Unstated" -> {"ScopeUnknown"}
     [] v.scope.kind \in {"Other", "Platform"} -> {"ProductLevelRestrictionsUnknown"}
     [] OTHER -> {})
    \union (IF DiscountRule(v).kind = "Percent" /\ ~Stated(DiscountRule(v).cap)
            THEN {"DiscountCapUnknown"} ELSE {})
    \union (IF DiscountRule(v).kind = "Unknown" THEN {"DiscountValueUnknown"} ELSE {})
    \union (IF ~Stated(v.min) THEN {"MinSpendUnknown"} ELSE {})
    \union (IF Stated(PaymentMethod(v)) THEN {"PaymentMethodUnverified"} ELSE {})
    \union (IF ~Stated(v.start) /\ ~Stated(v.end) THEN {"VoucherWindowUnknown"} ELSE {})

TargetsShipping(v) == DiscountRule(v).kind = "FreeShipping" \/ v.type = "Freeship"

\* estimate_discount: never above the amount it applies to.
Estimate(v, applicable) ==
  LET rule == DiscountRule(v)
      base == Max2(applicable, 0)
      UpTo(x) == IF Stated(x) THEN Min2(x, base) ELSE base
  IN CASE rule.kind \in {"Fixed", "FreeShipping"} -> UpTo(rule.amount)
       [] rule.kind = "Percent" -> Min2(Rounded(base * rule.percent, 100), UpTo(rule.cap))
       [] rule.kind = "Unknown" -> 0

EstimateGaps(v, applicable) ==
  LET rule == DiscountRule(v)
  IN CASE rule.kind = "Percent" /\ ~Stated(rule.cap) -> {"DiscountCapUnknown"}
       [] rule.kind = "FreeShipping" /\ ~Stated(rule.amount) /\ applicable <= 0 ->
            {"ShippingEstimateMissing"}
       [] rule.kind = "Unknown" -> {"DiscountValueUnknown"}
       [] OTHER -> {}

-----------------------------------------------------------------------------
(* basket.rs: a basket is [shops : Seq([id, subtotal, items, tags]),        *)
(* shipping, method]; an item of a shop is [price, quantity].               *)

Subtotals(b, lines) == SumFunction([i \in lines |-> b.shops[i].subtotal])

Merchandise(b) == Subtotals(b, DOMAIN b.shops)

ShopOf(b, id) == SelectInSeq(b.shops, LAMBDA s : s.id[1] = id[1])

CategorySubtotal(b, tag) ==
  Subtotals(b, {i \in DOMAIN b.shops : ContainsIgnoreCase(b.shops[i].tags, tag)})

\* Yes, no, or None when the owner has not decided.
MatchesMethod(planned, method) ==
  IF ~Stated(planned) THEN None ELSE planned[1] = method[1]

ListedTotal(s) == SumFunction([i \in DOMAIN s.items |-> s.items[i].price * s.items[i].quantity])

ShopIssues(s) ==
  (IF s.id[1] = "" THEN {"BlankIdentifier"} ELSE {})
    \union (IF s.subtotal < 0 THEN {"NegativeAmount"} ELSE {})
    \union (UNION {(IF i.quantity = 0 THEN {"ZeroQuantity"} ELSE {})
                     \union (IF i.price < 0 THEN {"NegativeAmount"} ELSE {}) : i \in ToSet(s.items)})
    \union (IF s.items # << >> /\ ListedTotal(s) # s.subtotal THEN {"SubtotalMismatch"} ELSE {})

\* Mutant: two entries are compared as they are spelled.
BasketIssuesVerbatim(b) ==
  (IF b.shops = << >> THEN {"EmptyBasket"} ELSE {})
    \union (IF Stated(b.shipping) /\ b.shipping < 0 THEN {"NegativeAmount"} ELSE {})
    \union (UNION {ShopIssues(s) : s \in ToSet(b.shops)})
    \union (IF \E i, j \in DOMAIN b.shops : i # j /\ b.shops[i].id = b.shops[j].id
            THEN {"DuplicateShop"} ELSE {})

BasketIssues(b) ==
  (IF b.shops = << >> THEN {"EmptyBasket"} ELSE {})
    \union (IF Stated(b.shipping) /\ b.shipping < 0 THEN {"NegativeAmount"} ELSE {})
    \union (UNION {ShopIssues(s) : s \in ToSet(b.shops)})
    \union (IF \E i, j \in DOMAIN b.shops : i # j /\ b.shops[i].id[1] = b.shops[j].id[1]
            THEN {"DuplicateShop"} ELSE {})

-----------------------------------------------------------------------------
(* optimize.rs: candidates *)

\* The amount that must clear the minimum, which shipping vouchers are not
\* applied to.
Qualifying(v, b) ==
  CASE v.scope.kind = "Shop" /\ ShopOf(b, v.scope.of) # 0 -> b.shops[ShopOf(b, v.scope.of)].subtotal
    [] v.scope.kind = "Shop" /\ ShopOf(b, v.scope.of) = 0 -> 0
    [] v.scope.kind = "Category" -> CategorySubtotal(b, v.scope.of)
    [] OTHER -> Merchandise(b)

\* evaluate: the first reason why a voucher cannot take part, or None.
NotApplicable(v, b) ==
  LET method == PaymentMethod(v)
      least  == NonNegative(v.min)
  IN CASE v.status \in {"Expired", "Exhausted", "Ineligible"} -> "TerminalStatus"
       [] Stated(method) /\ MatchesMethod(b.method, method) = FALSE -> "PaymentMethodMismatch"
       [] v.scope.kind = "Shop" /\ ShopOf(b, v.scope.of) = 0 -> "ShopNotInBasket"
       [] v.scope.kind = "Category" /\ Qualifying(v, b) = 0 -> "CategoryNotInBasket"
       [] Stated(least) /\ Qualifying(v, b) < least -> "MinSpendNotMet"
       [] OTHER -> None

Base(v, b) ==
  IF ~TargetsShipping(v) THEN Qualifying(v, b)
  ELSE IF Stated(b.shipping) THEN b.shipping ELSE 0

\* A shop voucher's slot is its shop as the voucher spells it.
StackGroup(v) ==
  CASE TargetsShipping(v) -> <<"Freeship">>
    [] ~TargetsShipping(v) /\ (Stated(PaymentMethod(v)) \/ v.type = "Payment") -> <<"Payment">>
    [] OTHER -> IF v.scope.kind = "Shop" THEN <<"Shop", v.scope.of>>
                ELSE IF v.scope.kind = "Platform" \/ v.type = "Platform" THEN <<"Platform">>
                ELSE <<"Other">>

\* The gaps a voucher brings into a plan.
CandidateGaps(v, b) ==
  ((Unknowns(v) \ IF Stated(PaymentMethod(v)) /\ MatchesMethod(b.method, PaymentMethod(v)) = TRUE
                  THEN {"PaymentMethodUnverified"} ELSE {})
    \union IF v.scope.kind = "Category" THEN {"CategoryCoverageAssumed"} ELSE {})
    \union EstimateGaps(v, Base(v, b))

\* The candidates: what the search reads of each voucher that applies.
Evaluate(vs, b) ==
  [i \in {j \in DOMAIN vs : NotApplicable(vs[j], b) = None} |->
     [label    |-> vs[i].label,
      group    |-> StackGroup(vs[i]),
      estimate |-> Estimate(vs[i], Base(vs[i], b)),
      shipping |-> TargetsShipping(vs[i]),
      gaps     |-> CandidateGaps(vs[i], b)]]

\* Mutant: the label does not break ties of value.
BeforeByIndex(cs, i, j) ==
  \/ cs[i].estimate > cs[j].estimate
  \/ cs[i].estimate = cs[j].estimate /\ i < j

\* Candidates are ordered by value, label and position.
Before(cs, i, j) ==
  \/ cs[i].estimate > cs[j].estimate
  \/ cs[i].estimate = cs[j].estimate /\ cs[i].label < cs[j].label
  \/ cs[i].estimate = cs[j].estimate /\ cs[i].label = cs[j].label /\ i < j

MaxSearchCandidates == 16
MaxAlternatives     == 5

Limit(policy) == Min2(policy.maxCandidates, MaxSearchCandidates)

Searched(cs, policy) ==
  {i \in DOMAIN cs : Cardinality({j \in DOMAIN cs : Before(cs, j, i)}) < Limit(policy)}

\* Mutant: one candidate above the limit goes unnoticed.
TruncatedLate(cs, policy) == Cardinality(DOMAIN cs) > Limit(policy) + 1

Truncated(cs, policy) == Cardinality(DOMAIN cs) > Limit(policy)

-----------------------------------------------------------------------------
(* optimize.rs: combinations.  A combination is the set of its candidates.  *)

Slots(group, policy) ==
  CASE group[1] = "Platform" -> policy.maxPlatform
    [] group[1] = "Shop"     -> policy.maxShopPerShop
    [] group[1] = "Freeship" -> policy.maxFreeship
    [] group[1] = "Payment"  -> policy.maxPayment
    [] group[1] = "Other"    -> policy.maxOther

PolicyAllows(cs, combo, policy) ==
  /\ Stated(policy.maxTotal) => Cardinality(combo) <= policy.maxTotal
  /\ \A i \in combo :
       Cardinality({j \in combo : cs[j].group = cs[i].group}) <= Slots(cs[i].group, policy)

Shipping(b) == IF Stated(b.shipping) THEN b.shipping ELSE 0

Estimated(cs, combo) == SumFunction([i \in combo |-> cs[i].estimate])

\* Mutant: one pool for merchandise and shipping.
ComboTotalPooled(cs, b, combo) == Min2(Estimated(cs, combo), Merchandise(b) + Shipping(b))

\* combo_total: each pool is clamped on its own.
ComboTotal(cs, b, combo) ==
  LET shipping == {i \in combo : cs[i].shipping}
  IN Min2(Estimated(cs, combo \ shipping), Merchandise(b))
       + Min2(Estimated(cs, shipping), Shipping(b))

Capped(cs, b, combo) == ComboTotal(cs, b, combo) < Estimated(cs, combo)

\* The labels of a combination, in the candidates' order.
Labels(cs, combo) ==
  LET Nth(k) == CHOOSE i \in combo : Cardinality({j \in combo : Before(cs, j, i)}) = k - 1
  IN [k \in 1..Cardinality(combo) |-> cs[Nth(k)].label]

\* The comparison of combinations of one size: by labels, then by the bit mask
\* of the candidates' positions, in which they were enumerated.
EnumeratedFirst(cs, c, d) ==
  LET x == Labels(cs, c)
      y == Labels(cs, d)
  IN \/ \E k \in DOMAIN x : x[k] < y[k] /\ \A m \in 1..(k - 1) : x[m] = y[m]
     \/ x = y /\ \E j \in d \ c : \A i \in c \ d : Before(cs, i, j)

\* Mutant: of two combinations that save the same, the larger comes first.
RanksFirstGreedy(cs, b, c, d) ==
  LET x == ComboTotal(cs, b, c)
      y == ComboTotal(cs, b, d)
  IN \/ x > y
     \/ x = y /\ Cardinality(c) > Cardinality(d)
     \/ x = y /\ Cardinality(c) = Cardinality(d) /\ EnumeratedFirst(cs, c, d)

\* rank_combinations: higher total, fewer vouchers, smaller labels.
RanksFirst(cs, b, c, d) ==
  LET x == ComboTotal(cs, b, c)
      y == ComboTotal(cs, b, d)
  IN \/ x > y
     \/ x = y /\ Cardinality(c) < Cardinality(d)
     \/ x = y /\ Cardinality(c) = Cardinality(d) /\ EnumeratedFirst(cs, c, d)

Combinations(cs, policy) == {c \in SUBSET Searched(cs, policy) : PolicyAllows(cs, c, policy)}

Best(cs, b, combos) ==
  CHOOSE c \in combos : \A d \in combos \ {c} : RanksFirst(cs, b, c, d)

\* build_alternatives: the best losing combinations.
Alternatives(cs, b, losing) ==
  {c \in losing : Cardinality({d \in losing : RanksFirst(cs, b, d, c)}) < MaxAlternatives}

PlanGaps(cs, b, searched, best) ==
  {"CheckoutApplicabilityUnverified"}
    \union (IF searched # {} THEN {"StackingRulesAssumed"} ELSE {})
    \union (IF Cardinality(best) > 1 THEN {"DiscountsAssumedIndependent"} ELSE {})
    \union (IF ~Stated(b.shipping) /\ \E i \in searched : cs[i].shipping
            THEN {"ShippingEstimateMissing"} ELSE {})
    \union (UNION {cs[i].gaps : i \in best})

\* The plan that selects best, the combination that wins over the others.
PlanWith(cs, b, searched, best, others) ==
  [selected |-> best,
   total    |-> ComboTotal(cs, b, best),
   after    |-> Max2(Merchandise(b) + Shipping(b) - ComboTotal(cs, b, best), 0),
   capped   |-> Capped(cs, b, best),
   alternatives |-> Alternatives(cs, b, others \ {{}}),
   gaps     |-> PlanGaps(cs, b, searched, best)]

\* Of the candidates searched, given the combinations of them.
PlanAmong(cs, b, searched, combos) ==
  LET best == Best(cs, b, combos)
  IN PlanWith(cs, b, searched, best, combos \ {best})

PlanOf(cs, b, policy) ==
  [PlanAmong(cs, b, Searched(cs, policy), Combinations(cs, policy))
     EXCEPT !.gaps = @ \union IF Truncated(cs, policy) THEN {"CandidateSetTruncated"} ELSE {}]

\* optimize_with.  The vouchers that are not searched are the excluded ones.
Plan(vs, b, policy) == PlanOf(Evaluate(vs, b), b, policy)

-----------------------------------------------------------------------------
(* watchlist.rs and relevance.rs: an item is [id, shops, tags, target,      *)
(* planned, purchaseAt, method].                                            *)

EffectiveSpend(item) == IF Stated(item.planned) THEN item.planned ELSE item.target

ItemIssues(item) ==
  (IF item.id = "" THEN {"BlankIdentifier"} ELSE {})
    \union (IF \E x \in {item.target, item.planned} : Stated(x) /\ x < 0
            THEN {"NegativeAmount"} ELSE {})

\* Watchlist::validate.
WatchlistIssues(items) ==
  (UNION {ItemIssues(x) : x \in ToSet(items)})
    \union (IF \E i, j \in DOMAIN items : i # j /\ items[i].id = items[j].id
            THEN {"DuplicateWatchItem"} ELSE {})

CheckScope(v, item) ==
  LET Check(known, name) ==
        IF known = {} THEN "Unknown"
        ELSE IF ContainsIgnoreCase(known, name) THEN "Matches" ELSE "Conflicts"
  IN CASE v.scope.kind = "Platform" -> "Matches"
       [] v.scope.kind = "Shop"     -> Check(item.shops, v.scope.of)
       [] v.scope.kind = "Category" -> Check(item.tags, v.scope.of)
       [] OTHER -> "Unknown"

\* Mutant: an item without a planned method is not checked.
CheckPaymentWhenPlanned(v, item) ==
  IF ~Stated(PaymentMethod(v)) \/ ~Stated(item.method) THEN "NotConstrained"
  ELSE IF MatchesMethod(item.method, PaymentMethod(v)) THEN "Matches" ELSE "Conflicts"

CheckPayment(v, item) ==
  LET method == PaymentMethod(v)
  IN IF ~Stated(method) THEN "NotConstrained"
     ELSE CASE MatchesMethod(item.method, method) = TRUE  -> "Matches"
            [] MatchesMethod(item.method, method) = FALSE -> "Conflicts"
            [] MatchesMethod(item.method, method) = None  -> "Unknown"

\* Mutant: the spend must exceed the minimum.
CheckMinSpendStrict(v, item) ==
  LET least == NonNegative(v.min)
      spend == EffectiveSpend(item)
  IN IF ~Stated(least) THEN "NotConstrained"
     ELSE IF ~Stated(spend) THEN "Unknown"
     ELSE IF spend > least THEN "Matches" ELSE "Conflicts"

CheckMinSpend(v, item) ==
  LET least == NonNegative(v.min)
      spend == EffectiveSpend(item)
  IN IF ~Stated(least) THEN "NotConstrained"
     ELSE IF ~Stated(spend) THEN "Unknown"
     ELSE IF spend >= least THEN "Matches" ELSE "Conflicts"

CheckWindow(v, item) ==
  LET at == item.purchaseAt
  IN IF ~Stated(at) \/ (~Stated(v.start) /\ ~Stated(v.end)) THEN "NotConstrained"
     ELSE IF (Stated(v.end) /\ v.end < at) \/ (Stated(v.start) /\ v.start > at)
     THEN "Conflicts" ELSE "Matches"

Checks(v, item) ==
  <<CheckScope(v, item), CheckPayment(v, item), CheckMinSpend(v, item), CheckWindow(v, item)>>

Level(v, item) ==
  LET found == ToSet(Checks(v, item))
  IN IF "Conflicts" \in found THEN "Unlikely"
     ELSE IF "Matches" \notin found THEN "Unknown"
     ELSE IF "Unknown" \in found THEN "Possible" ELSE "Likely"

LevelOrder == [Unlikely |-> 1, Unknown |-> 2, Possible |-> 3, Likely |-> 4]

IsActionable(level) == level \in {"Likely", "Possible"}

\* estimate_saving: no value for shipping, and never a value of zero.
Saving(v, item) ==
  LET spend == EffectiveSpend(item)
  IN IF ~IsActionable(Level(v, item)) \/ TargetsShipping(v) \/ ~Stated(spend) THEN None
     ELSE IF Estimate(v, spend) > 0 THEN Estimate(v, spend) ELSE None

\* What a verdict leaves open.
RelevanceGaps(v, item) ==
  ({"CheckoutApplicabilityUnverified"}
    \union {u \in Unknowns(v) : u = "PaymentMethodUnverified" => CheckPayment(v, item) # "Matches"})
  \union (IF v.scope.kind = "Category" /\ CheckScope(v, item) = "Matches"
          THEN {"CategoryCoverageAssumed"} ELSE {})
  \union (IF CheckMinSpend(v, item) = "Unknown" THEN {"PlannedSpendUnknown"} ELSE {})
  \union (IF ~IsActionable(Level(v, item)) THEN {}
          ELSE IF TargetsShipping(v) THEN {"ShippingEstimateMissing"}
          ELSE IF Stated(EffectiveSpend(item)) THEN EstimateGaps(v, EffectiveSpend(item)) ELSE {})

\* relevance_for_watchlist's comparison.
MoreRelevant(v, x, y) ==
  LET Value(i) == IF Stated(Saving(v, i)) THEN Saving(v, i) ELSE 0
      Rank(i)  == LevelOrder[Level(v, i)]
  IN \/ Rank(x) > Rank(y)
     \/ Rank(x) = Rank(y) /\ Value(x) > Value(y)
     \/ Rank(x) = Rank(y) /\ Value(x) = Value(y) /\ x.id < y.id

=============================================================================
