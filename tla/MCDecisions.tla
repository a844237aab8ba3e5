---------------------------- MODULE MCDecisions ----------------------------
(***************************************************************************)
(* Instances of Decisions: inputs on both sides of every boundary.         *)
(***************************************************************************)
EXTENDS Decisions

-----------------------------------------------------------------------------
(* Advice: vouchers, rules, baskets and watch items *)

NoScope == [kind |-> "Unstated", of |-> None]
Platform == [kind |-> "Platform", of |-> None]
Shop(id) == [kind |-> "Shop", of |-> id]
Category(tag) == [kind |-> "Category", of |-> tag]
Payment(method) == [kind |-> "Payment", of |-> method]

S1 == <<"s1", "lower">>
S1Upper == <<"s1", "upper">>
S2 == <<"s2", "lower">>
Food == <<"food", "lower">>
Wallet == <<"wallet", "lower">>
WalletUpper == <<"wallet", "upper">>
Card == <<"card", "lower">>

Blank ==
  [id |-> 1, label |-> 1, type |-> "Unknown", discount |-> None, amount |-> None,
   percent |-> None, cap |-> None, min |-> None, start |-> None, end |-> None,
   scope |-> NoScope, method |-> None, status |-> "Eligible", source |-> "feed", ready |-> TRUE]

\* Scores: the terms of a voucher on both sides of the tier boundaries.
MCTimes == {1000}
MCBetter == [money |-> {0, 1, 20000, 49999, 50000, 500000}, percent |-> {1, 10, 49, 50},
             time |-> {1000, 1059, 1060, 1720, 11080, 20000}]

MCScored ==
  {[Blank EXCEPT !.id = i, !.type = t, !.amount = a, !.percent = p, !.cap = c, !.min = m,
                 !.start = s, !.end = e] :
     i \in {1}, t \in {"Platform"}, a \in {None, 1, 20000, 50000}, p \in {None, 10},
     c \in {None, 20000}, m \in {None, 0, 1, 50000, 500000}, s \in {None, 999, 1061},
     e \in {None, 1000, 1061 + 59, 1061 + 720}}
  \union
  {[Blank EXCEPT !.id = 2, !.scope = x[1], !.method = x[2], !.status = x[3], !.ready = FALSE,
                 !.discount = d, !.end = e] :
     x \in {Payment(Wallet), Payment(Card), Shop(S1), NoScope} \X {None, Card, WalletUpper}
             \X {"Eligible", "Saved"},
     d \in {None, "FreeShipping"}, e \in {900, 1001}}

MCRules ==
  {[minDiscount |-> None, maxSpend |-> None, preferred |-> {"Platform"}, noMethods |-> {Wallet},
    noShops |-> {}, noCategories |-> {}, trusted |-> {}, notify |-> 25, autoClaim |-> 60],
   [minDiscount |-> 20000, maxSpend |-> 50000, preferred |-> {}, noMethods |-> {Card},
    noShops |-> {S1Upper}, noCategories |-> {}, trusted |-> {"feed"}, notify |-> 25, autoClaim |-> 60]}

\* Plans: small amounts, with ties of value and every kind of slot.
MCPlanVouchers ==
  {[Blank EXCEPT !.label = 1, !.type = "Platform", !.scope = Platform, !.amount = 5, !.min = 6],
   [Blank EXCEPT !.label = 2, !.type = "Platform", !.scope = Platform, !.percent = 50, !.cap = 4, !.min = 0],
   [Blank EXCEPT !.label = 3, !.type = "Shop", !.scope = Shop(S1), !.amount = 3, !.min = 5],
   [Blank EXCEPT !.label = 4, !.type = "Shop", !.scope = Shop(S1Upper), !.percent = 50],
   [Blank EXCEPT !.label = 5, !.type = "Freeship", !.scope = Shop(S2), !.cap = 3, !.min = 5],
   [Blank EXCEPT !.label = 6, !.type = "Unknown", !.discount = "FreeShipping", !.start = 1],
   [Blank EXCEPT !.label = 7, !.type = "Payment", !.scope = Payment(Wallet), !.method = Card, !.amount = 3],
   [Blank EXCEPT !.label = 8, !.type = "Category", !.scope = Category(Food), !.amount = 2, !.end = 9,
                  !.method = Card],
   [Blank EXCEPT !.label = 9, !.type = "Payment", !.scope = Payment(WalletUpper), !.amount = 0],
   [Blank EXCEPT !.label = 10, !.type = "Live", !.amount = 9, !.status = "Exhausted"]}

ShopLine(id, subtotal, tags) == [id |-> id, subtotal |-> subtotal, items |-> << >>, tags |-> tags]

MCBaskets ==
  {[shops |-> <<ShopLine(S1, 5, {Food}), ShopLine(S2, 4, {})>>, shipping |-> None, method |-> None],
   [shops |-> <<ShopLine(S1Upper, 5, {})>>, shipping |-> 2, method |-> Wallet],
   [shops |-> <<ShopLine(S1, 5, {Food}), ShopLine(S2, 5, {Food})>>, shipping |-> 4, method |-> Card],
   [shops |-> <<ShopLine(S1, 3, {}), ShopLine(S1Upper, 3, {})>>, shipping |-> 0, method |-> Card],
   [shops |-> <<[ShopLine(S2, 6, {Food}) EXCEPT !.items = <<[price |-> 3, quantity |-> 2]>>]>>,
    shipping |-> 3, method |-> None]}

Policy == [maxPlatform |-> 1, maxShopPerShop |-> 1, maxFreeship |-> 1, maxPayment |-> 1,
           maxOther |-> 1, maxTotal |-> None, maxCandidates |-> 12]
MCPolicies == {Policy, [Policy EXCEPT !.maxTotal = 2], [Policy EXCEPT !.maxCandidates = 2]}

MCWatchItems ==
  [id : {1}, shops : {{}, {S1}, {S2}}, tags : {{}, {Food}}, target : {None, 5}, planned : {None, 6, 9},
   purchaseAt : {None, 1, 10}, method : {None, Wallet, Card}]

-----------------------------------------------------------------------------
(* Campaign: moments 0..12, with campaigns that overlap, tie and are broken *)

DaySale ==
  [id |-> 1, start |-> 4, end |-> 7, enabled |-> TRUE, lead |-> 2, recovery |-> 2,
   windows |-> << >>, overrides |-> [s \in {} |-> None], profile |-> None, notification |-> None]

Window(from, to, profile) == [start |-> from, end |-> to, profile |-> profile]

Slow == [s \in {"feed"} |-> [enabled |-> None, percent |-> 300]]
Off  == [s \in {"feed"} |-> [enabled |-> FALSE, percent |-> None]]

MCCampaigns ==
  {DaySale,
   [DaySale EXCEPT !.windows = <<Window(4, 5, None), Window(4, 6, "PreCampaign")>>],
   [DaySale EXCEPT !.id = 2, !.overrides = Slow, !.notification = "quiet"],
   [DaySale EXCEPT !.id = 2, !.profile = "Normal", !.overrides = Off],
   [DaySale EXCEPT !.id = 2, !.windows = <<Window(8, 9, None)>>],
   [DaySale EXCEPT !.id = 3, !.start = 6, !.end = 9, !.windows = <<Window(6, 7, None)>>],
   [DaySale EXCEPT !.id = 3, !.start = 2, !.lead = 3, !.recovery = 6],
   [DaySale EXCEPT !.id = 3, !.lead = -1, !.recovery = -1, !.overrides = Slow],
   [DaySale EXCEPT !.id = 3, !.start = 6, !.end = 5, !.enabled = FALSE],
   [DaySale EXCEPT !.id = 3, !.start = 6, !.end = 5]}

MCCalendars ==
  {[campaigns |-> cs, postures |-> p] :
     cs \in UNION {[1..n -> MCCampaigns] : n \in 0..2},
     p \in {[x \in {} |-> None],
            [x \in {"Normal"} |-> [percent |-> 1, min |-> 1, max |-> 1]],
            [x \in {"Recovery"} |-> [percent |-> 0, min |-> 2, max |-> 1]]}}

MCMoments == 0..12
MCBases   == {0, 1, 59999, 600000, 6000000}

-----------------------------------------------------------------------------
(* Intake *)

Text(word) == <<word, "plain">>

Spot ==
  [source |-> "feed", key |-> Text("k"), external |-> None, code |-> Text("c"), promotion |-> Text("p"),
   signature |-> None, title |-> Text("t"), type |-> "Platform", amount |-> 5, percent |-> None,
   cap |-> None, min |-> 0, start |-> 3, end |-> 8, scope |-> NoScopeStated, method |-> None]

MCCandidates ==
  {Spot,
   [Spot EXCEPT !.start = 2, !.end = 9],
   [Spot EXCEPT !.promotion = None, !.end = 9, !.scope = [kind |-> "Category", of |-> Text("food")]],
   [Spot EXCEPT !.promotion = None, !.code = <<"c", "upper">>, !.percent = 10, !.start = 2],
   [Spot EXCEPT !.percent = 10],
   [Spot EXCEPT !.source = "shopee", !.signature = Text("s"), !.start = 4, !.method = Text("card")],
   [Spot EXCEPT !.source = "shopee", !.start = None, !.end = None, !.cap = 3, !.code = None],
   [Spot EXCEPT !.source = "owner", !.external = Text("x"), !.title = <<"t", "padded">>, !.min = None],
   [Spot EXCEPT !.source = "owner", !.signature = <<"", "plain">>, !.percent = 0],
   [Spot EXCEPT !.external = <<"", "plain">>, !.signature = <<"", "plain">>, !.code = None,
                !.scope = [kind |-> "Shop", of |-> <<"s", "upper">>]]}

MCTiers == [feed |-> 1, shopee |-> 2, owner |-> 3]

MCCouponItems ==
  [name : {None, Text("freeship"), <<"", "plain">>},
   coupons : {<< >>, <<None, <<"c", "padded">> >>, <<<<"", "plain">>, Text("c")>>},
   amount : {None, 0, 5}, percent : {None, 101, 10}, cap : {-1, 3}, min : {None, 0},
   start : {None, <<"garbled", 0>>, <<"local", VietnamOffset + 2>>}, end : {None, <<"epoch", 2>>, <<"offset", 5>>}]

MCFeedItems ==
  [id : {None, <<"", "plain">>}, promotion : {None, Text("p")}, code : {None, Text("c")}, signature : {None},
   title : {None, <<"t", "padded">>}, type : {"Shop"}, amount : {-1}, percent : {None}, cap : {None},
   min : {None}, start : {None}, end : {None}, method : {None},
   scope : {None, [kind |-> "Platform", of |-> None]}
             \union [kind : {"Shop", "Category", "", "Live"}, of : {<<"s", "upper">>}]]

MCPollingConfigs ==
  [normal : {2, 12}, active : {2, 4}, backoffMax : {2, 60, 64}, jitter : {-5, 0, 15, 120}]
MCPollingSignals ==
  [health : {"Healthy", "RateLimited"}, failures : {0, 1, 2, 3, 18}, hurried : BOOLEAN,
   retryAfter : {None, 0, 30, 90}]

MCLifetimes ==
  [status : {"Open", "Saved", "Expired"}, start : {None, 1, 3}, end : {None, 2, 3}, seenOnce : BOOLEAN]

-----------------------------------------------------------------------------
(* Collecting: good, unusable and rejected items, together and repeated     *)

MCAnswers ==
  [sent : {"answered"}, status : {200, 204, 302, 401, 403, 404, 429, 503}, body : {"whole"}, echo : {FALSE}]
  \union [sent : {"answered"}, status : {200}, body : {"cut", "garbled"}, echo : BOOLEAN]
  \union [sent : {"timeout", "unreachable"}, status : {0}, body : {"whole"}, echo : BOOLEAN]

Deal ==
  [name |-> Text("deal"), coupons |-> <<Text("c")>>, amount |-> 5, percent |-> None, cap |-> None,
   min |-> None, start |-> None, end |-> None]
Line ==
  [id |-> Text("i"), promotion |-> None, code |-> None, signature |-> None, title |-> Text("t"),
   type |-> "Shop", amount |-> None, percent |-> None, cap |-> None, min |-> None, start |-> None,
   end |-> None, scope |-> None, method |-> None]

SequencesUpTo(S, n) == UNION {[1..k -> S] : k \in 0..n}

MCBatches ==
  [from : {"coupon"},
   items : SequencesUpTo({Deal, [Deal EXCEPT !.amount = 6], [Deal EXCEPT !.coupons = << >>],
                          [Deal EXCEPT !.percent = 101, !.coupons = <<Text("d")>>], Mistyped}, 3)]
  \union
  [from : {"feed"},
   items : SequencesUpTo({Line, [Line EXCEPT !.title = None], [Line EXCEPT !.amount = -1],
                          [Line EXCEPT !.id = None, !.promotion = Text("p")], Mistyped}, 2)]

MCFixtures ==
  SequencesUpTo({None, << >>, <<Spot>>, <<[Spot EXCEPT !.min = 1], [Spot EXCEPT !.amount = -1]>>,
                 <<[Spot EXCEPT !.amount = 6]>>}, 3)

-----------------------------------------------------------------------------
(* Responses: every marker once, alone and next to another *)

Needles == {"rate limit", "has ended", "het han", "not exist", "not eligible", "chua bat dau", "already exist",
            "not claimed", "het luot", "invalid", "captcha", "login"}
MCTexts == {Spelled(x) : x \in {{}, {"het han", "rate limit"}, {"not exist", "invalid"}} \union {{n} : n \in Needles}}

Reply == [html |-> FALSE, json |-> TRUE, error |-> None, code |-> None, errorMsg |-> None, msg |-> None,
          data |-> {}, user |-> FALSE]
MCBodies ==
  {[Reply EXCEPT !.error = e, !.code = c, !.errorMsg = m, !.data = d] :
     e \in {None, 0, 5, 9}, c \in {None, 0, 7}, m \in MCTexts \union {None},
     d \in {{}, {"captcha"}, {"claimed"}, {"login"}}}
  \union {[Reply EXCEPT !.error = 0, !.user = TRUE, !.msg = m] : m \in MCTexts \union {None}}
  \union {[Reply EXCEPT !.json = FALSE, !.html = h, !.data = d] : h \in BOOLEAN, d \in MCTexts}

-----------------------------------------------------------------------------
(* Analytics: logs around the thresholds of 10 runs and of 20, 50 and 80 %  *)

Run == [outcome |-> "SUCCESS", candidates |-> 0, new |-> 0, updated |-> 0, errors |-> 0, limited |-> FALSE]

MCRunLogs ==
  {[r \in {x \in {Run, FailedRun(FALSE), found} : x # found \/ k > 0} |->
      CASE r = Run -> runs [] r = FailedRun(FALSE) -> fails [] r = found -> k] :
     runs \in {1, 2, 7, 98}, fails \in {1, 2, 8}, k \in {0, 1, 2},
     found \in {[Run EXCEPT !.candidates = 1, !.new = 1],
                [Run EXCEPT !.outcome = "PARTIAL", !.candidates = 3, !.updated = 1, !.errors = 1],
                [Run EXCEPT !.outcome = "PARTIAL", !.candidates = 1, !.errors = 2],
                FailedRun(TRUE)}}
  \union {SetToBag({[Run EXCEPT !.outcome = "PARTIAL", !.candidates = n, !.new = 1] : n \in 1..k}) : k \in {9, 10}}
  \union {[r \in {FailedRun(limited)} |-> k] : limited \in BOOLEAN, k \in {9, 10}}

MCObservationLogs ==
  UNION {[1..n -> [voucher : {1, 2}, source : {1, 2}, at : {0, 1, 2}]] : n \in 0..3}

MCDeltas == {-1, 0, 3, 4, 9}

-----------------------------------------------------------------------------
(* Messages: Telegram's answers, vouchers as a source may state them, and   *)
(* alert conditions around a cooldown of 3                                  *)

NoHint == [status |-> 0, ok |-> FALSE, hint |-> None, header |-> None]

MCReplies ==
  {[NoHint EXCEPT !.status = s, !.ok = ok] : s \in {0, 200, 302, 400, 403, 429, 502}, ok \in BOOLEAN}
  \union {[NoHint EXCEPT !.status = 429, !.hint = h, !.header = k] : h \in {None, 0, 7, 31}, k \in {None, 2}}

MCShownVouchers ==
  {[Blank EXCEPT !.amount = a, !.percent = p, !.cap = c, !.discount = d, !.type = t] :
     a \in {None, 3, 6}, p \in {None, 10, 50}, c \in {None, 2, 5},
     d \in {None, "FreeShipping"}, t \in {"Platform", "Freeship"}}

MCThresholds ==
  [collectorStale |-> 2, lag |-> 2, unknowns |-> 3, failures |-> 5, restarts |-> 3, cooldown |-> 3]

Quiet ==
  [collectorAge |-> 2, claimAtRisk |-> FALSE, lag |-> 2, database |-> TRUE,
   unknowns |-> 2, failures |-> 4, restarts |-> 2]
MCInputs ==
  {Quiet, [Quiet EXCEPT !.collectorAge = None, !.lag = None], [Quiet EXCEPT !.collectorAge = 3, !.lag = 3],
   [Quiet EXCEPT !.claimAtRisk = TRUE, !.database = FALSE, !.unknowns = 3, !.failures = 5, !.restarts = 3]}

-----------------------------------------------------------------------------
(* Startup: the template with features on and off, and every wrong value    *)

Unset ==
  [key \in Keys |-> IF key = "DATABASE_URL" THEN "sqlite:" ELSE None]

Values(key) ==
  CASE key = "APP_ENV" -> {"production", "staging"}
    [] key = "LOG_FORMAT" -> {"json", "text"}
    [] key = "DATABASE_URL" -> {None, "postgres:", "mysql:"}
    [] key = "SHOPEE_BASE_URL" -> {"https:", "http:"}
    [] key = "EXTERNAL_FEED_URL" -> {"feed"}
    [] key \in {"ACCESSTRADE_TOKEN", "TELEGRAM_BOT_TOKEN"} -> {"secret", "CHANGE_ME"}
    [] key = "TELEGRAM_CHAT_ID" -> {"42"}
    [] key \in DOMAIN Features \union DOMAIN SourceFlags \union OtherFlags -> {"on", "off", "maybe"}
    [] key = "HEALTHCHECK_BIND_ADDR" -> {<<"address", 1>>, <<"junk">>}
    [] OTHER -> {<<"number", 0>>, <<"number", 700>>, <<"junk">>}

MCEnvironments ==
  {[Unset EXCEPT !.ENABLE_TELEGRAM = t, !.TELEGRAM_BOT_TOKEN = b, !.TELEGRAM_CHAT_ID = c,
                 !.ENABLE_EXTERNAL_FEED_COLLECTOR = f, !.EXTERNAL_FEED_URL = u,
                 !.ENABLE_ACCESSTRADE_COLLECTOR = a, !.ACCESSTRADE_TOKEN = k,
                 !.ENABLE_REPLAY_COLLECTOR = r] :
     t \in {"on", "off"}, b \in {None, "secret", "CHANGE_ME"}, c \in {None, "42"}, f \in {"on", None},
     u \in {None, "feed"}, a \in {"on", "off"}, k \in {None, "secret", "CHANGE_ME"}, r \in {None, "on"}}
  \union
  UNION {UNION {{[Unset EXCEPT ![x] = v, ![y] = w] : v \in Values(x), w \in Values(y)} :
                  y \in Keys \ OtherKeys} : x \in Keys}

MCAdminCalls ==
  [call : {"pause", "resume", "refresh"}, header : {None, "secret"}] \union [call : Reports, header : {None}]

MCChatMessages == [chat : {"owner", "other"}, word : Commands \union {"/start", "hello"}, bot : BOOLEAN]

-----------------------------------------------------------------------------
(* Records: moments around a whole second and the precision of the text     *)

Job == [action |-> "ClaimVoucher", status |-> "Pending", execute |-> 1000, preflight |-> 0]

MCJobTables ==
  {<<[Job EXCEPT !.action = a, !.status = s]>> : a \in DOMAIN ActionAsStr, s \in DOMAIN JobStatusAsStr}
  \union
  {<<[Job EXCEPT !.execute = x, !.preflight = p], [Job EXCEPT !.execute = y, !.status = s]>> :
     x \in {1000, 1009, 1010, 1500, 2000}, y \in {999, 1000, 1001, 1500}, p \in {999, 1000, 1005, 1250},
     s \in {"Pending", "Ready", "Running", "Stale"}}

MCRunTables == SequencesUpTo([source : {1, 2}, started : {1000, 1004, 1500}, outcome : {"SUCCESS"}], 4)

=============================================================================
