------------------------------ MODULE Startup ------------------------------
(***************************************************************************)
(* From the environment to the running service: Settings::from_lookup, its *)
(* validation and what app/runtime.rs starts from it, the pace of a        *)
(* supervised worker, and who may operate the service through the admin    *)
(* API and the chat commands.  An environment maps keys to None (unset or  *)
(* blank) or to what the value is: "on", "off", "CHANGE_ME", a scheme,     *)
(* <<"number", n>> and so on; a number its setting has no room for is junk *)
(* as any other.  Every key whose value can be refused is here, and those  *)
(* that only name a place or a text are left out.                          *)
(***************************************************************************)
EXTENDS Basics, Sequences, SequencesExt, FiniteSets, Question

CONSTANTS
  Bad,           \* ConfigError
  Environments,
  Failures,      \* failures in a row of a worker
  AdminTokens,   \* None is an empty one
  AdminCalls,    \* [call, header], the reports of the session among them
  MaxCalls,      \* bound: calls in a row
  ChatMessages   \* [chat, word, bot]: what a chat sends to the bot

\* The keys of settings that nothing at the start depends on, but which keep the
\* service from starting when they cannot be read.
OtherNumbers ==
  {"SHOPEE_REQUEST_TIMEOUT_MS", "SHOPEE_CONNECT_TIMEOUT_MS", "SESSION_HEALTH_INTERVAL_SECS",
   "COLLECTOR_TIMEOUT_SECS", "COLLECTOR_SOURCE_HOURLY_BUDGET", "SCHEDULER_COARSE_TICK_SECS",
   "SCHEDULER_STALE_AFTER_SECS", "CLAIM_MAX_RETRIES", "CLAIM_RETRY_BASE_DELAY_MS", "CLAIM_MIN_SCORE"}

OtherFlags == {"ENABLE_BROWSER_SESSION_REFRESH", "ENABLE_AUTO_CLAIM", "METRICS_ENABLED"}

OtherKeys == OtherNumbers \union OtherFlags \union {"HEALTHCHECK_BIND_ADDR"}

\* The keys that are read.
Keys ==
  OtherKeys \union
  {"APP_ENV", "LOG_FORMAT", "DATABASE_URL", "DATABASE_MAX_CONNECTIONS", "SHOPEE_BASE_URL",
   "COLLECTOR_DEFAULT_INTERVAL_SECS", "COLLECTOR_MAX_CONCURRENCY", "ENABLE_SHOPEE_PAGE_COLLECTOR",
   "ENABLE_EXTERNAL_FEED_COLLECTOR", "EXTERNAL_FEED_URL", "ENABLE_ACCESSTRADE_COLLECTOR",
   "ACCESSTRADE_TOKEN", "ENABLE_MANUAL_COLLECTOR", "ENABLE_REPLAY_COLLECTOR",
   "SCHEDULER_PREFLIGHT_SECS", "SCHEDULER_PRECISION_WINDOW_SECS", "ENABLE_TELEGRAM",
   "TELEGRAM_BOT_TOKEN", "TELEGRAM_CHAT_ID"}

\* commands.rs: what the bot answers to.
Commands ==
  {"/status", "/session", "/sources", "/jobs", "/recent", "/pause_claims", "/resume_claims",
   "/watchlist", "/help"}

\* Neither a missing value nor an error is a value, and no value is an error by
\* itself.
ASSUME StartupAssumption ==
  /\ None \notin {"on", "0"} \union Commands /\ Bad \notin {None, "CHANGE_ME", "secret"} /\ Bad # TRUE
  /\ Failures \subseteq Nat
  /\ \A e \in Environments : DOMAIN e = Keys /\ \A key \in Keys : e[key] # Bad

-----------------------------------------------------------------------------
(* config.rs.  A field of the settings may be Bad.                          *)

Require(value) == Otherwise(value, Bad)

Number(value, default) ==
  IF ~Stated(value) THEN default ELSE IF value[1] = "number" THEN value[2] ELSE Bad

Flag(value, default) ==
  IF ~Stated(value) THEN default
  ELSE CASE value = "on" -> TRUE [] value = "off" -> FALSE [] OTHER -> Bad

Address(value) == IF ~Stated(value) \/ value[1] = "address" THEN value ELSE Bad

\* The settings of OtherKeys, of which only matters that they can be read.
OtherSettings(e) ==
  IF /\ \A key \in OtherNumbers : Number(e[key], 0) # Bad
     /\ \A key \in OtherFlags : Flag(e[key], FALSE) # Bad
     /\ Address(e.HEALTHCHECK_BIND_ADDR) # Bad
  THEN "read"
  ELSE Bad

AppEnv(value) ==
  LET env == Otherwise(value, "development")
  IN IF env \in {"development", "production"} THEN env ELSE Bad

FromLookup(e) ==
  LET telegram == Flag(e.ENABLE_TELEGRAM, FALSE)
      Needed(value) == IF telegram = TRUE THEN Require(value) ELSE value
  IN [env         |-> AppEnv(e.APP_ENV),
      format      |-> Otherwise(e.LOG_FORMAT, IF AppEnv(e.APP_ENV) = "production" THEN "json" ELSE "pretty"),
      database    |-> Require(e.DATABASE_URL),
      connections |-> Number(e.DATABASE_MAX_CONNECTIONS, 5),
      shopee      |-> Otherwise(e.SHOPEE_BASE_URL, "https:"),
      interval    |-> Number(e.COLLECTOR_DEFAULT_INTERVAL_SECS, 120),
      concurrency |-> Number(e.COLLECTOR_MAX_CONCURRENCY, 4),
      page        |-> Flag(e.ENABLE_SHOPEE_PAGE_COLLECTOR, FALSE),
      feed        |-> Flag(e.ENABLE_EXTERNAL_FEED_COLLECTOR, FALSE),
      url         |-> e.EXTERNAL_FEED_URL,
      accesstrade |-> Flag(e.ENABLE_ACCESSTRADE_COLLECTOR, FALSE),
      token       |-> e.ACCESSTRADE_TOKEN,
      manual      |-> Flag(e.ENABLE_MANUAL_COLLECTOR, TRUE),
      replay      |-> Flag(e.ENABLE_REPLAY_COLLECTOR, FALSE),
      preflight   |-> Number(e.SCHEDULER_PREFLIGHT_SECS, 600),
      precision   |-> Number(e.SCHEDULER_PRECISION_WINDOW_SECS, 10),
      telegram    |-> telegram,
      bot         |-> Needed(e.TELEGRAM_BOT_TOKEN),
      chat        |-> Needed(e.TELEGRAM_CHAT_ID),
      others      |-> OtherSettings(e)]

\* Mutant: placeholders are refused whether the feature is on or not.
InvalidEagerly(s) ==
  \/ s.database \notin {"sqlite:", "postgres:"} \/ s.connections = 0
  \/ s.shopee # "https:" \/ s.concurrency = 0
  \/ s.precision >= s.preflight
  \/ s.bot = "CHANGE_ME"
  \/ s.feed /\ ~Stated(s.url)
  \/ s.accesstrade /\ s.token \in {None, "CHANGE_ME"}

\* Mutant: the feed's address is not asked for.
InvalidUnlessFeed(s) ==
  \/ s.database \notin {"sqlite:", "postgres:"} \/ s.connections = 0
  \/ s.shopee # "https:" \/ s.concurrency = 0
  \/ s.precision >= s.preflight
  \/ s.telegram /\ s.bot = "CHANGE_ME"
  \/ s.accesstrade /\ s.token \in {None, "CHANGE_ME"}

\* Settings::validate.
Invalid(s) ==
  \/ s.database \notin {"sqlite:", "postgres:"} \/ s.connections = 0
  \/ s.shopee # "https:" \/ s.concurrency = 0
  \/ s.precision >= s.preflight
  \/ s.telegram /\ s.bot = "CHANGE_ME"
  \/ s.feed /\ ~Stated(s.url)
  \/ s.accesstrade /\ s.token \in {None, "CHANGE_ME"}

\* Settings::from_env returns settings.
Loads(e) ==
  LET s == FromLookup(e)
  IN (\A field \in DOMAIN s : s[field] # Bad) /\ ~Invalid(s)

-----------------------------------------------------------------------------
(* runtime.rs *)

\* The page and the manual source have a setting and no collector.
BuildCollectors(s) ==
  (IF s.feed /\ Stated(s.url) THEN {"external-feed"} ELSE {})
    \union (IF s.accesstrade /\ Stated(s.token) THEN {"accesstrade"} ELSE {})
    \union (IF s.replay THEN {"replay"} ELSE {})

\* Mutant: the stub is given the chat as it is configured.
ChatIdAsConfigured(s) == s.chat

\* spawn_notifier: the stub needs a chat that is not empty.
ChatId(s) == Otherwise(s.chat, "0")

\* The constructors' own checks: TelegramNotifier::new and
\* OutboxNotifierWorker::new.
NotifierStarts(s) == Stated(ChatId(s)) /\ (s.telegram => Stated(s.bot))

LogFormats == {"pretty", "json"}

\* main comes to run the service.
Starts(e) == Loads(e) /\ FromLookup(e).format \in LogFormats /\ NotifierStarts(FromLookup(e))

\* The workers it spawns then, with their intervals in seconds.
Workers(e) ==
  LET s == FromLookup(e)
  IN [w \in BuildCollectors(s) \union {"notifier", "maintenance"} |->
        CASE w = "notifier" -> 5 [] w = "maintenance" -> 3600 [] OTHER -> s.interval]

-----------------------------------------------------------------------------
(* worker.rs.  A delay is in hundredths of half a second, from the least to *)
(* the most the jitter makes of it.                                         *)

BackoffBase   == 1
BackoffMax    == 120
JitterPercent == 10

Jitter(base) == [from |-> base * (100 - JitterPercent), to |-> base * (100 + JitterPercent)]

\* Mutant: the exponent is not bounded and the power wraps at 32 bits.
DelayWrapping(interval, failures) ==
  Jitter(IF failures = 0 THEN 2 * interval
         ELSE Min2(BackoffBase * (IF failures > 30 THEN 0 ELSE 2^(failures - 1)), BackoffMax))

\* WorkerConfig::delay_after.
DelayAfter(interval, failures) ==
  Jitter(IF failures = 0 THEN 2 * interval
         ELSE Min2(BackoffBase * 2^Min2(failures - 1, 16), BackoffMax))

-----------------------------------------------------------------------------
(* api.rs and control.rs: the mutating endpoints over the control plane.    *)

\* Mutant: without a configured token a call without one is let in.
AuthorizedIfSame(token, header) == header = token

Authorized(token, header) == Stated(token) /\ header = token

NewControls == [paused |-> FALSE, refresh |-> FALSE, healthy |-> FALSE]

Reports == {"healthy", "unhealthy"}

\* One call, or a report of the session manager.
Operate(token, c, x) ==
  CASE x.call \in Reports -> [c EXCEPT !.healthy = x.call = "healthy"]
    [] x.call = "pause"   /\ Authorized(token, x.header) -> [c EXCEPT !.paused = TRUE]
    [] x.call = "resume"  /\ Authorized(token, x.header) -> [c EXCEPT !.paused = FALSE]
    [] x.call = "refresh" /\ Authorized(token, x.header) -> [c EXCEPT !.refresh = TRUE]
    [] OTHER -> c

ClaimsAllowed(c) == c.healthy /\ ~c.paused

-----------------------------------------------------------------------------
(* commands.rs *)

\* Mutant: the name of the bot is taken for a part of the command.
ParseCommandWhole(word, bot) ==
  IF bot THEN None ELSE IF word = "/start" THEN "/help" ELSE IF word \in Commands THEN word ELSE None

\* The name of the bot after an @ is cut off.
ParseCommand(word, bot) ==
  IF word = "/start" THEN "/help" ELSE IF word \in Commands THEN word ELSE None

AuthorizeChat(owners, chat, word, bot) ==
  IF ~Stated(ParseCommand(word, bot)) THEN <<"Unknown">>
  ELSE IF chat \in owners THEN <<"Authorized", ParseCommand(word, bot)>>
  ELSE <<"Unauthorized">>

HelpText == Commands \ {"/help"}

-----------------------------------------------------------------------------
AboutControl == question.about = "control"

AskStart == \E e \in Environments : question' = [about |-> "start", environment |-> e]

AskDelay ==
  \E interval \in {0, 120}, n \in Failures :
    question' = [about |-> "delay", interval |-> interval, failures |-> n]

AskControl ==
  \E token \in AdminTokens :
    question' = [about |-> "control", token |-> token, calls |-> << >>, controls |-> NewControls]

\* The next call or report finds the controls as the last one left them.
CallControl ==
  /\ AboutControl /\ Len(question.calls) < MaxCalls
  /\ \E x \in AdminCalls :
       question' = [about    |-> "control",
                    token    |-> question.token,
                    calls    |-> Append(question.calls, x),
                    controls |-> Operate(question.token, question.controls, x)]

AskCommand == \E m \in ChatMessages : question' = [about |-> "command", message |-> m]

-----------------------------------------------------------------------------
AboutStart == question.about = "start"

Env == question.environment

\* Of the three sources there is a collector for, a service that starts runs a
\* worker for each its environment enables and for no other; and it runs no worker
\* for anything else, whatever the flags of the page and the manual source say.
EnabledSourceRuns ==
  AboutStart /\ Starts(Env) =>
    DOMAIN Workers(Env) \ {"notifier", "maintenance"} =
      (IF Env.ENABLE_EXTERNAL_FEED_COLLECTOR = "on" THEN {"external-feed"} ELSE {})
        \union (IF Env.ENABLE_ACCESSTRADE_COLLECTOR = "on" THEN {"accesstrade"} ELSE {})
        \union (IF Env.ENABLE_REPLAY_COLLECTOR = "on" THEN {"replay"} ELSE {})

\* The keys that only a feature reads.
Features ==
  [ENABLE_TELEGRAM                |-> {"TELEGRAM_BOT_TOKEN", "TELEGRAM_CHAT_ID"},
   ENABLE_EXTERNAL_FEED_COLLECTOR |-> {"EXTERNAL_FEED_URL"},
   ENABLE_ACCESSTRADE_COLLECTOR   |-> {"ACCESSTRADE_TOKEN"}]

\* A feature that is off never keeps a service from starting, whatever its
\* other keys hold: the placeholders of the template, say.
SwitchedOffIsIgnored ==
  AboutStart =>
    \A feature \in DOMAIN Features : Env[feature] # "on" =>
      \A key \in Features[feature], value \in {None, "CHANGE_ME", "secret"} :
        LET other == [Env EXCEPT ![key] = value]
        IN /\ Starts(other) <=> Starts(Env)
           /\ Starts(Env) => Workers(other) = Workers(Env)

\* What the validation accepts starts: no constructor finds a fault with a
\* setting later, when the database is open and the first workers run.
AcceptedSettingsStart ==
  AboutStart /\ Loads(Env) /\ (Stated(Env.LOG_FORMAT) => Env.LOG_FORMAT \in LogFormats) => Starts(Env)

\* A failing worker never spins, waits at least as long after one failure more,
\* and never longer than the ceiling with its jitter.
FailingWorkerWaits ==
  question.about = "delay" /\ question.failures > 0 =>
    LET delay == DelayAfter(question.interval, question.failures)
        next  == DelayAfter(question.interval, question.failures + 1)
    IN /\ delay.from > 0 /\ delay.from <= delay.to
       /\ next.to >= delay.to
       /\ delay.to <= Jitter(BackoffMax).to

\* A call of this kind that is the owner's: made with the configured token.
IsOwners(token, x, call) == x.call = call /\ Stated(token) /\ x.header = token

\* Calls without the configured token change nothing, none does without one
\* configured, and while the owner has paused the claims no report of the
\* session allows them: the claims are paused if and only if the owner did it
\* last, a refresh is pending if and only if the owner asked for it.
OnlyTheOwnerOperates ==
  AboutControl =>
    LET n == Len(question.calls)
        c == question.controls
        OwnersCall(i, call) == IsOwners(question.token, question.calls[i], call)
    IN /\ c.paused <=> \E i \in 1..n : OwnersCall(i, "pause") /\ \A j \in i..n : ~OwnersCall(j, "resume")
       /\ c.refresh <=> \E i \in 1..n : OwnersCall(i, "refresh")
       /\ ClaimsAllowed(c) => \A i \in 1..n : OwnersCall(i, "pause") => \E j \in i..n : OwnersCall(j, "resume")

\* A command means the same with the name of the bot, everything the help
\* names is one, and a chat that is not an owner's runs none.
CommandsKeepTheirMeaning ==
  question.about = "command" =>
    LET m == question.message
        answer == AuthorizeChat({"owner"}, m.chat, m.word, m.bot)
    IN /\ answer = AuthorizeChat({"owner"}, m.chat, m.word, ~m.bot)
       /\ m.chat # "owner" => answer[1] # "Authorized"
       /\ m.chat = "owner" /\ m.word \in HelpText => answer = <<"Authorized", m.word>>

-----------------------------------------------------------------------------
(* What the repository says and the program does not do *)

\* The flags of the sources, with the sources they are documented to switch.
SourceFlags ==
  [ENABLE_SHOPEE_PAGE_COLLECTOR   |-> "shopee-page",
   ENABLE_EXTERNAL_FEED_COLLECTOR |-> "external-feed",
   ENABLE_ACCESSTRADE_COLLECTOR   |-> "accesstrade",
   ENABLE_MANUAL_COLLECTOR        |-> "manual",
   ENABLE_REPLAY_COLLECTOR        |-> "replay"]

\* runtime.rs:94: one supervised worker per enabled collector. Two of the five
\* flags, the one that is on by default among them, run none.
EverySwitchedOnSourceRuns ==
  AboutStart /\ Starts(Env) =>
    \A flag \in DOMAIN SourceFlags :
      Flag(Env[flag], flag = "ENABLE_MANUAL_COLLECTOR") => SourceFlags[flag] \in DOMAIN Workers(Env)

\* collectors/polling.rs:4: a collector can never accidentally issue unlimited
\* requests. Its worker may have no delay at all between two collections.
EveryCollectorPauses ==
  AboutStart /\ Starts(Env) => \A w \in DOMAIN Workers(Env) : Workers(Env)[w] > 0

\* collectors/polling.rs:50: backoff takes precedence. The worker of a source
\* that fails comes back sooner than that of one that answers.
FailingSourceIsNotHurried ==
  question.about = "delay" =>
    DelayAfter(question.interval, question.failures).to >= DelayAfter(question.interval, 0).from

=============================================================================
