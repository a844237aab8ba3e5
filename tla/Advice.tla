------------------------------- MODULE Advice -------------------------------
(***************************************************************************)
(* The owner asks for advice: whether one voucher is worth more than       *)
(* another, whether a voucher may help a planned purchase, and which       *)
(* combination to use for a basket.  The crates that answer hold no state; *)
(* a state of this module is one question, and the properties are about    *)
(* the answers.                                                            *)
(***************************************************************************)
EXTENDS Planning, Question

CONSTANTS
  ScoredVouchers,  \* vouchers whose scores are compared
  RuleSets,        \* the owner's rules
  Times,           \* moments at which a score is asked for
  Better,          \* values that may replace a stated term of a voucher
  PlanVouchers,    \* vouchers a plan is made from
  MaxVouchers,     \* bound: vouchers in a plan
  Baskets,
  Policies,
  WatchItems

\* What the validation of candidates admits (domain/validation.rs) and the types
\* of the fields say.
ASSUME AdviceAssumption ==
  /\ \A v \in ScoredVouchers \union PlanVouchers :
       /\ {v.amount, v.percent, v.cap, v.min} \subseteq Nat \union {None}
       /\ {v.start, v.end} \subseteq Int \union {None}
       /\ v.type \in DOMAIN TypeWeight /\ v.scope.kind \in DOMAIN ScopeWeight
       /\ v.label \in Int
       /\ {"ready", "type", "discount", "amount", "percent", "cap", "min", "start", "end",
           "scope", "method", "source"} \subseteq DOMAIN v
  /\ Times \subseteq Int
  /\ Better.money \subseteq Nat /\ Better.percent \subseteq Nat /\ Better.time \subseteq Int
  /\ \A b \in Baskets :
       /\ b.shops \in Seq(Range(b.shops)) /\ \A i \in DOMAIN b.shops : b.shops[i].subtotal \in Int
       /\ b.shipping \in Int \union {None}
  /\ \A p \in Policies :
       /\ {p.maxPlatform, p.maxShopPerShop, p.maxFreeship, p.maxPayment, p.maxOther, p.maxCandidates} \subseteq Nat
       /\ p.maxTotal \in Nat \union {None}
  /\ \A item \in WatchItems :
       IsFiniteSet(item.shops) /\ {item.target, item.planned} \subseteq Int \union {None}
  /\ MaxVouchers \in Nat
  /\ None \notin BOOLEAN
  /\ None \notin {"PaymentMethodMismatch", "ShopNotInBasket", "CategoryNotInBasket", "MinSpendNotMet"}

AskScore ==
  \E v \in ScoredVouchers, rules \in RuleSets, now \in Times :
    question' = [about |-> "score", v |-> v, rules |-> rules, now |-> now]

AskRelevance ==
  \E v \in PlanVouchers, item \in WatchItems :
    question' = [about |-> "relevance", v |-> v, item |-> item]

\* Distinct vouchers in any order.
Orders ==
  UNION {SetToSeqs(vs) : vs \in {x \in SUBSET PlanVouchers : IsFiniteSet(x) /\ Cardinality(x) <= MaxVouchers}}

AskPlan ==
  \E vs \in Orders, b \in Baskets, policy \in Policies :
    question' = [about |-> "plan", vs |-> vs, basket |-> b, policy |-> policy]

-----------------------------------------------------------------------------
(* Properties of scores *)

AboutScore == question.about = "score"

\* Terms of v that are at least as good: more off, a lower minimum, longer valid.
Improved(v) ==
  {[v EXCEPT !.amount = x] : x \in {y \in Better.money : Stated(v.amount) /\ y >= v.amount}}
    \union {[v EXCEPT !.cap = x] : x \in {y \in Better.money : Stated(v.cap) /\ y >= v.cap}}
    \union {[v EXCEPT !.percent = x] : x \in {y \in Better.percent : Stated(v.percent) /\ y >= v.percent}}
    \union {[v EXCEPT !.min = x] : x \in {y \in Better.money : Stated(v.min) /\ y <= v.min}}
    \union {[v EXCEPT !.end = x] : x \in {y \in Better.time : Stated(v.end) /\ y >= v.end}}

\* A voucher with better terms never scores less, across all tier boundaries;
\* a minimum of zero is the exception the code makes (see ZeroMinimumIsNoMinimum).
BetterTermsNeverScoreLess ==
  AboutScore => \A w \in Improved(question.v) :
    (w.min # 0 \/ question.v.min = 0) =>
      Score(w, question.rules, question.now) >= Score(question.v, question.rules, question.now)

\* However good its terms were, an expired voucher ranks after every voucher
\* that can still be used.
ExpiredRanksLast ==
  AboutScore /\ Expired(question.v, question.now) =>
    \A w \in ScoredVouchers :
      ~Expired(w, question.now) => RanksBefore(w, question.v, question.rules, question.now)

-----------------------------------------------------------------------------
(* Properties of plans *)

AboutPlan == question.about = "plan"

Cands  == Evaluate(question.vs, question.basket)
Answer == Plan(question.vs, question.basket, question.policy)

MissesNothing(cs, answer) ==
  \A combo \in SUBSET DOMAIN cs :
    /\ \A i, j \in combo : i # j => cs[i].group # cs[j].group
    /\ \A i \in combo : Slots(cs[i].group, question.policy) > 0
    /\ Stated(question.policy.maxTotal) => Cardinality(combo) <= question.policy.maxTotal
    => ComboTotal(cs, question.basket, combo) <= answer.total

\* The plan saves as much as any combination of all applicable vouchers that
\* share no slot of the policy, the ones left out of the search included, or it
\* says that the search was cut short.
BestOrDisclosed ==
  AboutPlan => "CandidateSetTruncated" \in Answer.gaps \/ MissesNothing(Cands, Answer)

EachPays(cs, answer) ==
  \A i \in answer.selected :
    ComboTotal(cs, question.basket, answer.selected \ {i}) < answer.total

\* Every recommended voucher pays: without any one of them less is saved.
NoIdleVoucher == AboutPlan => EachPays(Cands, Answer)

\* The order in which vouchers with labels of their own are known does not
\* matter: the plan recommends the same labels for each.
SameForEveryOrder ==
  AboutPlan /\ (\A i, j \in DOMAIN question.vs : question.vs[i].label = question.vs[j].label => i = j) =>
    \A vs \in SetToSeqs(ToSet(question.vs)) :
      {question.vs[i].label : i \in Answer.selected} =
        {vs[i].label : i \in Plan(vs, question.basket, question.policy).selected}

InPools(shipping, answer) ==
  /\ shipping = {} => answer.total <= Merchandise(question.basket)
  /\ shipping = answer.selected => answer.total <= Shipping(question.basket)
  /\ answer.after + answer.total = Merchandise(question.basket) + Shipping(question.basket)

\* Savings stay within what they are made on: without a shipping voucher the
\* merchandise bounds them, without a merchandise voucher the shipping does.
SavingsStayInTheirPool ==
  AboutPlan =>
    InPools({i \in Answer.selected : TargetsShipping(question.vs[i])}, Answer)

\* In a basket that validates, a shop voucher is measured against everything
\* bought from that shop, however the shop is spelled.
ShopIsMeasuredWhole ==
  AboutPlan /\ BasketIssues(question.basket) = {} =>
    \A i \in DOMAIN Cands :
      LET v == question.vs[i]
      IN v.scope.kind = "Shop" =>
           Qualifying(v, question.basket) =
             Subtotals(question.basket,
                       {j \in DOMAIN question.basket.shops : question.basket.shops[j].id[1] = v.scope.of[1]})

-----------------------------------------------------------------------------
(* Properties of relevance *)

AboutRelevance == question.about = "relevance"

\* The purchase of an item as a basket of one shop.
AsBasket(item) ==
  [shops    |-> <<[id |-> CHOOSE s \in item.shops : TRUE, subtotal |-> EffectiveSpend(item),
                   items |-> << >>, tags |-> item.tags]>>,
   shipping |-> None,
   method   |-> item.method]

\* The item states everything a basket states.
Planned(item) ==
  /\ Cardinality(item.shops) = 1 /\ item.tags # {}
  /\ Stated(EffectiveSpend(item)) /\ EffectiveSpend(item) > 0

\* The two advisers agree: a live voucher conflicts with a planned purchase
\* exactly if the planner leaves it out of that purchase's basket, and the
\* saving announced for the item is the estimate the planner would use.
AdvisersAgree ==
  AboutRelevance /\ Planned(question.item) =>
    LET v == question.v
        b == AsBasket(question.item)
        conflicts == \E i \in 1..3 : Checks(v, question.item)[i] = "Conflicts"
    IN NotApplicable(v, b) # "TerminalStatus" =>
         /\ conflicts <=> NotApplicable(v, b) # None
         /\ Stated(Saving(v, question.item)) =>
              Saving(v, question.item) = Estimate(v, Base(v, b))

\* A voucher is called likely only if nothing was left unchecked, and what it
\* then leaves open are never the facts the checks are about.
LikelyIsChecked ==
  AboutRelevance /\ Level(question.v, question.item) = "Likely" =>
    RelevanceGaps(question.v, question.item)
      \intersect {"PaymentMethodUnverified", "PlannedSpendUnknown", "ScopeUnknown"} = {}

-----------------------------------------------------------------------------
(* What the repository says and the program does not do *)

\* ranking/score.rs:52: the bonus is for a voucher that demands no minimum
\* spend. A minimum of zero demands none, so it scores like none.
ZeroMinimumIsNoMinimum ==
  AboutScore /\ question.v.min = 0 =>
    Score(question.v, question.rules, question.now) =
      Score([question.v EXCEPT !.min = None], question.rules, question.now)

\* ranking/eligibility.rs:132: a payment requirement of either the scope or the
\* field must be checked. No eligible voucher requires an excluded method.
ExcludedMethodIsDenied ==
  AboutScore /\ Eligible(question.v, question.rules) =>
    \A method \in {question.v.method, question.v.scope.of} :
      Stated(method) => ~ContainsIgnoreCase(question.rules.noMethods, method)

\* planning/optimize.rs:57: the limit is per individual shop.
OneVoucherPerShop ==
  AboutPlan => \A i, j \in Answer.selected :
    LET g == StackGroup(question.vs[i])
        h == StackGroup(question.vs[j])
    IN i # j /\ g[1] = "Shop" /\ h[1] = "Shop" => g[2][1] # h[2][1]

=============================================================================
