--------------------------- MODULE CollectorProofs ---------------------------
(***************************************************************************)
(* Theorems about sources.  First the pace at which they are asked: the    *)
(* campaign that governs and what it asks for, the delays of the policy    *)
(* and of a failing worker, and the budget of an hour.  Then what becomes  *)
(* of what they answer: how it is written, observed again and merged, the  *)
(* collection of many items, the rows and queries of the store, and how a  *)
(* source is judged by them.                                               *)
(***************************************************************************)
EXTENDS DecisionsProofs

-----------------------------------------------------------------------------
(* worker.rs: the backoff of a failing worker *)

\* The exponent of a backoff after one failure more.
LEMMA NextExponent ==
  ASSUME NEW failures \in Nat \ {0}
  PROVE  LET p == 2^Min2(failures - 1, 16)
             q == 2^Min2(failures + 1 - 1, 16)
         IN p \in Nat \ {0} /\ q \in Nat \ {0} /\ (q = p \/ q = 2 * p)
<1> DEFINE k == Min2(failures - 1, 16)
           l == Min2(failures + 1 - 1, 16)
<1>1. k \in 0..16 /\ l \in 0..16 /\ (l = k \/ l = k + 1)
  BY DEF Min2
<1> HIDE DEF k, l
<1>2. 2^k \in Nat \ {0} /\ 2^l \in Nat \ {0}
  BY <1>1, PowersOfTwo
<1>3. 2^(k + 1) = 2 * 2^k
  BY <1>1, PowersOfTwo
<1>4. 2^l = 2^k \/ 2^l = 2 * 2^k
  <2>1. CASE l = k
    BY <2>1, Zenon
  <2>2. CASE l = k + 1
    BY <1>3, <2>2, Zenon
  <2> QED  BY <1>1, <2>1, <2>2
<1> QED  BY <1>2, <1>4 DEF k, l

DelayAsked == question.about = "delay" => question.failures \in Nat

LEMMA FailuresWait ==
  ASSUME DelayAsked
  PROVE  FailingWorkerWaits
<1> DEFINE n == question.failures
           p == 2^Min2(n - 1, 16)
           q == 2^Min2(n + 1 - 1, 16)
           delay == DelayAfter(question.interval, n)
           next  == DelayAfter(question.interval, n + 1)
<1> SUFFICES ASSUME question.about = "delay", n > 0
             PROVE  /\ delay.from > 0 /\ delay.from <= delay.to
                    /\ next.to >= delay.to
                    /\ delay.to <= Jitter(BackoffMax).to
  BY DEF FailingWorkerWaits
<1>1. n \in Nat \ {0}
  BY DEF DelayAsked
<1>2. p \in Nat \ {0} /\ q \in Nat \ {0} /\ (q = p \/ q = 2 * p)
  BY <1>1, NextExponent
<1>3. delay = Jitter(Min2(BackoffBase * p, BackoffMax)) /\ next = Jitter(Min2(BackoffBase * q, BackoffMax))
  BY <1>1 DEF DelayAfter
<1> HIDE DEF p, q, delay, next, n
<1> QED  BY <1>2, <1>3 DEF Jitter, Min2, BackoffBase, BackoffMax, JitterPercent

-----------------------------------------------------------------------------
(* polling.rs: the delays of the policy *)

\* Half the jitter of an even delay is added to it, so that the longer of two
\* delays stays the longer.
LEMMA JitterKeepsOrder ==
  ASSUME NEW a, NEW b, Even(a), Even(b), a <= b, NEW jitter \in Int
  PROVE  Jittered(a, jitter) <= Jittered(b, jitter)
<1> DEFINE spread == Min2(Max2(jitter, 0), 100)
<1>1. spread \in Nat
  BY DEF Min2, Max2
<1>2. Jittered(a, jitter) = 200 * a + a * spread /\ Jittered(b, jitter) = 200 * b + b * spread
  BY DEF Jittered, Even
<1>3. a \in Nat /\ b \in Nat
  BY DEF Even
<1> HIDE DEF spread
<1>4. a * spread <= b * spread
  <2>1. b * spread - a * spread = (b - a) * spread
    BY <1>1, <1>3
  <2>2. (b - a) * spread >= 0
    BY <1>1, <1>3
  <2>3. a * spread \in Int /\ b * spread \in Int
    BY <1>1, <1>3
  <2> QED  BY <2>1, <2>2, <2>3
<1>5. a * spread \in Int /\ b * spread \in Int
  BY <1>1, <1>3
<1> HIDE <1>4
<1> QED  BY <1>2, <1>3, <1>4, <1>5

LEMMA EvenTimes ==
  ASSUME NEW a, Even(a), NEW p \in Nat
  PROVE  Even(a * p)
<1>1. PICK h \in Nat : a = 2 * h
  BY DEF Even
<1>2. a * p = 2 * (h * p) /\ h * p \in Nat
  BY <1>1
<1> HIDE <1>1
<1>3. ASSUME NEW m \in Nat PROVE Even(2 * m)
  BY DEF Even
<1> QED  BY <1>2, <1>3

LEMMA EvenMinMax ==
  ASSUME NEW a, Even(a), NEW b, Even(b)
  PROVE  Even(Min2(a, b)) /\ Even(Max2(a, b))
BY DEF Even, Min2, Max2

PaceAsked ==
  question.about = "pace" =>
    LET config == question.config
        s      == question.signals
    IN /\ Even(config.normal) /\ Even(config.active) /\ Even(config.backoffMax) /\ config.jitter \in Int
       /\ s.failures \in Nat /\ (s.retryAfter = None \/ Even(s.retryAfter))
       /\ DOMAIN s = {"health", "failures", "hurried", "retryAfter"}

LEMMA TroubledIsNotHurried ==
  ASSUME PaceAsked
  PROVE  TroubledSourceIsNotHurried
<1> DEFINE config == question.config
           s      == question.signals
           quiet  == [s EXCEPT !.health = "Healthy", !.failures = 0, !.hurried = FALSE]
           more   == [s EXCEPT !.failures = @ + 1]
           limited == Max2(Min2(Otherwise(s.retryAfter, config.backoffMax), config.backoffMax), config.normal)
<1> SUFFICES ASSUME question.about = "pace", config.normal <= config.backoffMax
             PROVE  /\ s.failures > 0 \/ s.health = "RateLimited" =>
                         NextInterval(config, s) >= NextInterval(config, quiet)
                    /\ s.failures > 0 => NextInterval(config, more) >= NextInterval(config, s)
  BY DEF TroubledSourceIsNotHurried
<1>1. /\ Even(config.normal) /\ Even(config.backoffMax) /\ config.jitter \in Int
      /\ s.failures \in Nat /\ (s.retryAfter = None \/ Even(s.retryAfter))
      /\ DOMAIN s = {"health", "failures", "hurried", "retryAfter"}
  BY DEF PaceAsked
<1>2. NextInterval(config, quiet) = Jittered(config.normal, config.jitter)
  <2>1. quiet.health = "Healthy" /\ quiet.failures = 0 /\ quiet.hurried = FALSE
    BY <1>1
  <2> HIDE DEF quiet
  <2> QED  BY <2>1 DEF NextInterval
<1>3. /\ more.health = s.health /\ more.failures = s.failures + 1 /\ more.retryAfter = s.retryAfter
  BY <1>1
<1>4. ASSUME NEW a, Even(a), NEW b, Even(b), a <= b
      PROVE  Jittered(b, config.jitter) >= Jittered(a, config.jitter)
  <2>1. Jittered(a, config.jitter) <= Jittered(b, config.jitter)
    BY <1>1, <1>4, JitterKeepsOrder
  <2>2. Jittered(a, config.jitter) \in Int /\ Jittered(b, config.jitter) \in Int
    <3>1. ASSUME NEW d \in Nat, NEW spread \in Nat PROVE d * spread \in Int
      BY <3>1
    <3>2. Min2(Max2(config.jitter, 0), 100) \in Nat
      BY <1>1 DEF Min2, Max2
    <3> QED  BY <1>4, <3>1, <3>2 DEF Jittered, Even
  <2> QED  BY <2>1, <2>2
<1> HIDE DEF quiet, more, config, s
<1>5. CASE s.health = "RateLimited"
  <2>1. NextInterval(config, s) = Jittered(limited, config.jitter)
    BY <1>5 DEF NextInterval
  <2>2. NextInterval(config, more) = Jittered(limited, config.jitter)
    BY <1>3, <1>5 DEF NextInterval
  <2>3. Even(limited) /\ limited >= config.normal
    <3>1. Even(Otherwise(s.retryAfter, config.backoffMax))
      BY <1>1 DEF Otherwise, Stated
    <3>2. Even(Min2(Otherwise(s.retryAfter, config.backoffMax), config.backoffMax))
      BY <1>1, <3>1, EvenMinMax
    <3>3. Even(limited)
      BY <1>1, <3>2, EvenMinMax
    <3> QED  BY <1>1, <3>2, <3>3 DEF Max2, Even
  <2> HIDE DEF limited
  <2>4. Jittered(limited, config.jitter) >= Jittered(config.normal, config.jitter)
    BY <1>1, <1>4, <2>3 DEF Even
  <2>5. Jittered(limited, config.jitter) >= Jittered(limited, config.jitter)
    BY <1>4, <2>3 DEF Even
  <2> QED  BY <1>2, <2>1, <2>2, <2>4, <2>5
<1>6. CASE s.health # "RateLimited" /\ s.failures > 0
  <2> DEFINE p == 2^Min2(s.failures - 1, 16)
             q == 2^Min2(s.failures + 1 - 1, 16)
             once == Min2(config.normal * p, config.backoffMax)
             again == Min2(config.normal * q, config.backoffMax)
  <2>1. NextInterval(config, s) = Jittered(once, config.jitter)
    BY <1>6 DEF NextInterval
  <2>2. NextInterval(config, more) = Jittered(again, config.jitter)
    BY <1>1, <1>3, <1>6 DEF NextInterval
  <2>3. p \in Nat \ {0} /\ q \in Nat \ {0} /\ (q = p \/ q = 2 * p)
    BY <1>1, <1>6, NextExponent
  <2> HIDE DEF p, q
  <2>4. Even(config.normal * p) /\ Even(config.normal * q)
    BY <1>1, <2>3, EvenTimes
  <2>5. config.normal <= config.normal * p /\ config.normal * p <= config.normal * q
    <3>1. ASSUME NEW a \in Nat, NEW b \in Nat \ {0} PROVE a <= a * b
      BY <3>1
    <3>2. config.normal \in Nat /\ config.normal * p \in Nat
      BY <1>1, <2>4 DEF Even
    <3>3. config.normal * (2 * p) = 2 * (config.normal * p)
      BY <2>3, <3>2
    <3>4. config.normal <= config.normal * p
      BY <2>3, <3>1, <3>2
    <3>5. config.normal * q = config.normal * p \/ config.normal * q = 2 * (config.normal * p)
      BY <2>3, <3>3
    <3>6. ASSUME NEW a \in Nat, NEW b, b = a \/ b = 2 * a PROVE a <= b
      BY <3>6
    <3> QED  BY <3>2, <3>4, <3>5, <3>6
  <2>6. Even(once) /\ Even(again)
    BY <1>1, <2>4, EvenMinMax
  <2>7. config.normal <= once /\ once <= again
    BY <1>1, <2>4, <2>5 DEF Min2, Even
  <2> HIDE DEF once, again
  <2> QED  BY <1>1, <1>2, <1>4, <2>1, <2>2, <2>6, <2>7
<1>7. CASE s.health # "RateLimited" /\ ~(s.failures > 0)
  BY <1>7
<1> QED  BY <1>5, <1>6, <1>7

-----------------------------------------------------------------------------
(* Campaign: the campaign that governs *)

IsCalendar(cal) ==
  /\ DOMAIN cal = {"campaigns", "postures"}
  /\ cal.campaigns \in Seq(Range(cal.campaigns)) /\ \A c \in Range(cal.campaigns) : IsCampaign(c)
  /\ \A profile \in DOMAIN cal.postures : cal.postures[profile] \in [percent : Nat, min : Nat, max : Nat]

\* The campaigns that ask for a profile, by their place in the file, and those
\* that no other precedes.
Asking(cal, now) == {i \in DOMAIN cal.campaigns : Stated(Phase(cal.campaigns[i], now))}
First(cal, now) ==
  {i \in Asking(cal, now) : \A j \in Asking(cal, now) : Governs(cal.campaigns[i], cal.campaigns[j], now)}

\* A campaign asks for a profile, if it asks.
LEMMA PhaseIsProfile ==
  ASSUME NEW c, IsCampaign(c), NEW now
  PROVE  Phase(c, now) \in Profiles \union {None}
BY DEF Phase, IsCampaign, Otherwise, Profiles, Priority

LEMMA CampaignsAre ==
  ASSUME NEW cal, IsCalendar(cal)
  PROVE  /\ Len(cal.campaigns) \in Nat /\ DOMAIN cal.campaigns = 1..Len(cal.campaigns)
         /\ \A i \in DOMAIN cal.campaigns : IsCampaign(cal.campaigns[i])
<1>1. cal.campaigns \in Seq(Range(cal.campaigns))
  BY DEF IsCalendar
<1>2. \A i \in DOMAIN cal.campaigns : cal.campaigns[i] \in Range(cal.campaigns)
  BY DEF Range
<1> QED  BY <1>1, <1>2 DEF IsCalendar

\* Some campaign precedes all others as soon as any asks: the highest priority,
\* of these the earliest start, of these the least id.
LEMMA FirstExists ==
  ASSUME NEW cal, IsCalendar(cal), NEW now, Asking(cal, now) # {}
  PROVE  First(cal, now) # {}
<1> DEFINE A      == Asking(cal, now)
           c(i)   == cal.campaigns[i]
           p(i)   == Priority[Phase(cal.campaigns[i], now)]
           Rank(i) == 3 - p(i)
<1>1. ASSUME NEW i \in A
      PROVE  p(i) \in 0..3 /\ c(i).start \in Nat /\ c(i).id \in Nat
  <2>1. IsCampaign(c(i)) /\ Stated(Phase(c(i), now))
    BY CampaignsAre DEF Asking
  <2>2. Phase(c(i), now) \in Profiles
    BY <2>1, PhaseIsProfile DEF Stated
  <2>3. p(i) \in 0..3
    BY <2>2 DEF Profiles, Priority
  <2>4. c(i).start \in Nat /\ c(i).id \in Nat
    BY <2>1, CampaignAssumption DEF IsCampaign
  <2> QED  BY <2>3, <2>4
<1> HIDE DEF A, p
<1>2. PICK r \in {Rank(i) : i \in A} : \A n \in {Rank(i) : i \in A} : r <= n
  <2>1. {Rank(i) : i \in A} \subseteq Nat /\ {Rank(i) : i \in A} # {}
    BY <1>1 DEF A
  <2> QED  BY <2>1, LeastExists
<1> DEFINE B == {i \in A : Rank(i) = r}
<1>3. B # {} /\ B \subseteq A
  BY <1>2
<1> HIDE DEF B
<1>4. PICK s \in {c(i).start : i \in B} : \A n \in {c(i).start : i \in B} : s <= n
  <2>1. {c(i).start : i \in B} \subseteq Nat /\ {c(i).start : i \in B} # {}
    BY <1>1, <1>3
  <2> QED  BY <2>1, LeastExists
<1> DEFINE D == {i \in B : c(i).start = s}
<1>5. D # {} /\ D \subseteq B
  BY <1>4
<1> HIDE DEF D
<1>6. PICK k \in {c(i).id : i \in D} : \A n \in {c(i).id : i \in D} : k <= n
  <2>1. {c(i).id : i \in D} \subseteq Nat /\ {c(i).id : i \in D} # {}
    BY <1>1, <1>3, <1>5
  <2> QED  BY <2>1, LeastExists
<1>7. PICK i \in D : c(i).id = k
  BY <1>6
<1>8. i \in A /\ Rank(i) = r /\ c(i).start = s
  BY <1>3, <1>5 DEF B, D
<1>9. ASSUME NEW j \in A
      PROVE  Governs(c(i), c(j), now)
  <2>1. r <= Rank(j)
    BY <1>2
  <2>2. CASE r < Rank(j)
    <3>1. Priority[Phase(c(i), now)] > Priority[Phase(c(j), now)]
      BY <1>1, <1>8, <2>2 DEF p
    <3> QED  BY <3>1 DEF Governs
  <2>3. CASE r = Rank(j)
    <3>1. j \in B
      BY <2>3 DEF B
    <3>2. s <= c(j).start
      BY <1>4, <3>1
    <3>3. Priority[Phase(c(i), now)] = Priority[Phase(c(j), now)]
      BY <1>1, <1>8, <2>3 DEF p
    <3>4. CASE s < c(j).start
      BY <1>8, <3>3, <3>4 DEF Governs
    <3>5. CASE s = c(j).start
      <4>1. j \in D
        BY <3>1, <3>5 DEF D
      <4>2. k <= c(j).id
        BY <1>6, <4>1
      <4> QED  BY <1>7, <1>8, <3>3, <3>5, <4>2 DEF Governs
    <3> QED  BY <1>1, <1>8, <3>2, <3>4, <3>5
  <2> QED  BY <1>1, <1>8, <2>1, <2>2, <2>3
<1> QED  BY <1>8, <1>9 DEF First, A

\* What governs is a campaign that precedes all that ask.
LEMMA GoverningPrecedes ==
  ASSUME NEW cal, IsCalendar(cal), NEW now
  PROVE  /\ Asking(cal, now) = {} => Governing(cal, now) = None
         /\ Asking(cal, now) # {} => \E i \in First(cal, now) : Governing(cal, now) = cal.campaigns[i]
<1> DEFINE F == First(cal, now)
<1>1. Governing(cal, now) = IF Asking(cal, now) = {} THEN None
                            ELSE cal.campaigns[CHOOSE i \in F : \A j \in F : i <= j]
  BY DEF Governing, Asking, First
<1>2. ASSUME Asking(cal, now) # {}
      PROVE  (CHOOSE i \in F : \A j \in F : i <= j) \in F
  <2>1. F # {} /\ F \subseteq Nat
    <3>1. F \subseteq DOMAIN cal.campaigns
      BY DEF First, Asking
    <3>2. DOMAIN cal.campaigns \subseteq Nat
      BY CampaignsAre
    <3> QED  BY <1>2, <3>1, <3>2, FirstExists
  <2>2. PICK m \in F : \A j \in F : m <= j
    BY <2>1, LeastExists
  <2> QED  BY <2>2
<1> QED  BY <1>1, <1>2

\* Of campaigns with ids of their own no two precede each other.
LEMMA FirstIsOne ==
  ASSUME NEW cal, IsCalendar(cal), NEW now,
         \A i, j \in DOMAIN cal.campaigns : i # j => cal.campaigns[i].id # cal.campaigns[j].id,
         NEW i \in First(cal, now), NEW j \in First(cal, now)
  PROVE  i = j
<1> DEFINE c == cal.campaigns[i]
           d == cal.campaigns[j]
<1>1. i \in DOMAIN cal.campaigns /\ j \in DOMAIN cal.campaigns /\ Governs(c, d, now) /\ Governs(d, c, now)
  BY DEF First, Asking
<1>2. IsCampaign(c) /\ IsCampaign(d) /\ Stated(Phase(c, now)) /\ Stated(Phase(d, now))
  BY <1>1, CampaignsAre DEF First, Asking
<1>3. Priority[Phase(c, now)] \in 0..3 /\ Priority[Phase(d, now)] \in 0..3
  <2>1. Phase(c, now) \in Profiles /\ Phase(d, now) \in Profiles
    BY <1>2, PhaseIsProfile DEF Stated
  <2> QED  BY <2>1 DEF Profiles, Priority
<1>4. c.start \in Nat /\ c.id \in Nat /\ d.start \in Nat /\ d.id \in Nat
  BY <1>2, CampaignAssumption DEF IsCampaign
<1> HIDE DEF c, d
<1>5. c.id = d.id
  BY <1>1, <1>3, <1>4 DEF Governs
<1> QED  BY <1>1, <1>5 DEF c, d

\* The file turned round.
Turned(cal) == [cal EXCEPT !.campaigns = Reverse(@)]

LEMMA TurnedIs ==
  ASSUME NEW cal, IsCalendar(cal)
  PROVE  LET n == Len(cal.campaigns)
         IN /\ DOMAIN Turned(cal).campaigns = 1..n
            /\ \A i \in 1..n : n - i + 1 \in 1..n /\ Turned(cal).campaigns[i] = cal.campaigns[n - i + 1]
            /\ Turned(cal).postures = cal.postures
            /\ IsCalendar(Turned(cal))
<1> DEFINE n == Len(cal.campaigns)
           t == Turned(cal).campaigns
<1>1. n \in Nat /\ DOMAIN cal.campaigns = 1..n
  BY CampaignsAre
<1>2. /\ t = Reverse(cal.campaigns) /\ Turned(cal).postures = cal.postures
      /\ DOMAIN Turned(cal) = {"campaigns", "postures"}
  BY DEF Turned, IsCalendar
<1>3. t = [i \in 1..n |-> cal.campaigns[(n - i) + 1]]
  BY <1>2 DEF Reverse
<1>4. \A i \in 1..n : n - i + 1 \in 1..n /\ t[i] = cal.campaigns[n - i + 1]
  BY <1>1, <1>3
<1>5. DOMAIN t = 1..n
  BY <1>3
<1>6. t \in Seq(Range(t))
  <2>1. \A i \in 1..n : t[i] \in Range(t)
    BY <1>5 DEF Range
  <2>2. t \in [1..n -> Range(t)]
    BY <1>3, <2>1
  <2> QED  BY <1>1, <2>2
<1>7. \A c \in Range(t) : IsCampaign(c)
  <2>1. ASSUME NEW c \in Range(t) PROVE IsCampaign(c)
    <3>1. PICK i \in 1..n : c = t[i]
      BY <1>5 DEF Range
    <3> QED  BY <1>1, <1>4, <3>1, CampaignsAre
  <2> QED  BY <2>1
<1>8. IsCalendar(Turned(cal))
  BY <1>2, <1>6, <1>7 DEF IsCalendar
<1> QED  BY <1>2, <1>4, <1>5, <1>8

LEMMA GoverningOfTurned ==
  ASSUME NEW cal, IsCalendar(cal), NEW now,
         \A i, j \in DOMAIN cal.campaigns : i # j => cal.campaigns[i].id # cal.campaigns[j].id
  PROVE  Governing(Turned(cal), now) = Governing(cal, now)
<1> DEFINE n == Len(cal.campaigns)
           m(i) == n - i + 1
           turned == Turned(cal)
<1>1. n \in Nat /\ DOMAIN cal.campaigns = 1..n
  BY CampaignsAre
<1>2. /\ DOMAIN turned.campaigns = 1..n /\ IsCalendar(turned)
      /\ \A i \in 1..n : m(i) \in 1..n /\ turned.campaigns[i] = cal.campaigns[m(i)]
  BY TurnedIs
<1>3. \A i \in 1..n : m(m(i)) = i
  BY <1>1
<1> HIDE DEF m, n, turned
<1>4. \A i \in 1..n : cal.campaigns[i] = turned.campaigns[m(i)]
  BY <1>2, <1>3
<1>5. \A i \in 1..n : i \in Asking(turned, now) <=> m(i) \in Asking(cal, now)
  BY <1>1, <1>2 DEF Asking
<1>6. Asking(turned, now) \subseteq 1..n /\ Asking(cal, now) \subseteq 1..n
  BY <1>1, <1>2 DEF Asking
<1>7. CASE Asking(cal, now) = {}
  <2>1. Asking(turned, now) = {}
    BY <1>5, <1>6, <1>7
  <2> QED  BY <1>2, <1>7, <2>1, GoverningPrecedes DEF turned
<1>8. CASE Asking(cal, now) # {}
  <2>1. Asking(turned, now) # {}
    BY <1>2, <1>3, <1>5, <1>6, <1>8
  <2>2. PICK i \in First(cal, now) : Governing(cal, now) = cal.campaigns[i]
    BY <1>8, GoverningPrecedes
  <2>3. PICK j \in First(turned, now) : Governing(turned, now) = turned.campaigns[j]
    BY <1>2, <2>1, GoverningPrecedes
  <2>4. m(j) \in First(cal, now)
    <3>1. j \in 1..n /\ j \in Asking(turned, now) /\ m(j) \in Asking(cal, now)
      BY <1>5, <1>6, <2>3 DEF First
    <3>2. ASSUME NEW k \in Asking(cal, now)
          PROVE  Governs(cal.campaigns[m(j)], cal.campaigns[k], now)
      <4>1. k \in 1..n /\ m(k) \in 1..n /\ m(k) \in Asking(turned, now)
        BY <1>2, <1>3, <1>5, <1>6
      <4>2. Governs(turned.campaigns[j], turned.campaigns[m(k)], now)
        BY <2>3, <4>1 DEF First
      <4> QED  BY <1>2, <1>4, <3>1, <4>1, <4>2
    <3> QED  BY <3>1, <3>2 DEF First
  <2>5. m(j) = i
    BY <2>2, <2>4, FirstIsOne
  <2>6. j \in 1..n
    BY <1>6, <2>3 DEF First
  <2> QED  BY <1>2, <2>2, <2>3, <2>5, <2>6 DEF turned
<1> QED  BY <1>7, <1>8

CampaignAsked ==
  AboutCampaign => IsCalendar(question.calendar) /\ question.now \in 0..Horizon

\* What a calendar without issues is.
LEMMA AcceptedCalendar ==
  ASSUME NEW cal, CalendarIssues(cal) = {}
  PROVE  /\ \A i, j \in DOMAIN cal.campaigns : i # j => cal.campaigns[i].id # cal.campaigns[j].id
         /\ \A c \in ToSet(cal.campaigns) : CampaignIssues(c) = {}
         /\ \A p \in Range(cal.postures) : PostureIssues(p) = {}
<1>1. ASSUME NEW c \in ToSet(cal.campaigns), NEW issue \in CampaignIssues(c)
      PROVE  issue \in CalendarIssues(cal)
  BY <1>1 DEF CalendarIssues
<1>2. ASSUME NEW p \in Range(cal.postures), NEW issue \in PostureIssues(p)
      PROVE  issue \in CalendarIssues(cal)
  BY <1>2 DEF CalendarIssues
<1>3. ASSUME NEW i \in DOMAIN cal.campaigns, NEW j \in DOMAIN cal.campaigns,
             i # j, cal.campaigns[i].id = cal.campaigns[j].id
      PROVE  "DuplicateCampaign" \in CalendarIssues(cal)
  BY <1>3 DEF CalendarIssues
<1> QED  BY <1>1, <1>2, <1>3

LEMMA OrderIsIrrelevant ==
  ASSUME CampaignAsked
  PROVE  FileOrderIsIrrelevant
<1> DEFINE cal == question.calendar
           now == question.now
           turned == Turned(cal)
<1> SUFFICES ASSUME AboutCampaign, Accepted
             PROVE  /\ Resolve(turned, now) = Resolve(cal, now)
                    /\ \A s \in Sources : SourcePosture(turned, s, now) = SourcePosture(cal, s, now)
  BY DEF FileOrderIsIrrelevant, Turned
<1>1. IsCalendar(cal)
  BY DEF CampaignAsked
<1>2. \A i, j \in DOMAIN cal.campaigns : i # j => cal.campaigns[i].id # cal.campaigns[j].id
  BY AcceptedCalendar DEF Accepted
<1>3. Governing(turned, now) = Governing(cal, now)
  BY <1>1, <1>2, GoverningOfTurned
<1>4. turned.postures = cal.postures
  BY <1>1, TurnedIs
<1> HIDE DEF cal, turned, now
<1>5. \A profile : PostureFor(turned, profile) = PostureFor(cal, profile)
  BY <1>4 DEF PostureFor
<1>6. Resolve(turned, now) = Resolve(cal, now)
  BY <1>3, <1>5 DEF Resolve, ResolvedFor, Resolved
<1> QED  BY <1>3, <1>6 DEF SourcePosture

-----------------------------------------------------------------------------
(* Campaign: postures and windows *)

\* A posture that can be loaded keeps its bounds, whatever it scales.
Sound(p) ==
  /\ p \in [percent : Nat, min : Nat, max : Nat]
  /\ p.min > 0 /\ p.min <= p.max

LEMMA AppliedWithin ==
  ASSUME NEW p, Sound(p), NEW base \in Nat
  PROVE  Apply(p, base) >= 1000 /\ Apply(p, base) \in (1000 * p.min)..(1000 * p.max)
<1> DEFINE scaled == (base * p.percent) \div 100
<1>1. p.percent \in Nat /\ p.min \in Nat /\ p.max \in Nat /\ p.min > 0 /\ p.min <= p.max
  BY DEF Sound
<1>2. scaled \in Nat
  <2>1. base * p.percent \in Nat
    BY <1>1
  <2> HIDE DEF Sound
  <2>2. ASSUME NEW n \in Nat PROVE n \div 100 \in Nat
    BY <2>2
  <2> QED  BY <2>1, <2>2
<1>3. Apply(p, base) = Max2(1000 * p.min, Min2(scaled, 1000 * Max2(p.max, p.min)))
  BY DEF Apply
<1> HIDE DEF scaled
<1> QED  BY <1>1, <1>2, <1>3 DEF Max2, Min2

LEMMA DefaultIsSound ==
  ASSUME NEW profile \in Profiles
  PROVE  Sound(DefaultPosture[profile])
BY DEF Sound, DefaultPosture, Profiles, Priority

\* Every profile has a posture in a calendar that loads.
LEMMA PostureIsSound ==
  ASSUME NEW cal, IsCalendar(cal), CalendarIssues(cal) = {}, NEW profile \in Profiles
  PROVE  Sound(PostureFor(cal, profile))
<1>1. CASE profile \in DOMAIN cal.postures
  <2> DEFINE p == cal.postures[profile]
  <2>1. p \in [percent : Nat, min : Nat, max : Nat]
    BY <1>1 DEF IsCalendar
  <2>2. p \in Range(cal.postures)
    BY <1>1 DEF Range
  <2>3. PostureIssues(p) = {}
    BY <2>2, AcceptedCalendar
  <2> HIDE DEF p
  <2>4. ~(p.min = 0 \/ p.min > p.max)
    BY <2>3 DEF PostureIssues
  <2>5. Sound(p)
    BY <2>1, <2>4 DEF Sound
  <2> QED  BY <1>1, <2>5 DEF PostureFor, p
<1>2. CASE profile \notin DOMAIN cal.postures
  BY <1>2, DefaultIsSound DEF PostureFor
<1> QED  BY <1>1, <1>2

\* The window that is open is one of the campaign's.
LEMMA OpenWindowIs ==
  ASSUME NEW c, IsCampaign(c), NEW now, Stated(OpenWindow(c, now))
  PROVE  /\ c.enabled /\ OpenWindow(c, now) \in ToSet(c.windows) /\ OpenWindow(c, now) \in Windows
         /\ Within(OpenWindow(c, now), now)
<1> DEFINE i == SelectInSeq(c.windows, LAMBDA w : Within(w, now))
           I == {j \in 1..Len(c.windows) : Within(c.windows[j], now)}
<1>1. i = IF I # {} THEN Min(I) ELSE 0
  BY DEF SelectInSeq
<1>2. I # {} => Min(I) \in I
  <2>1. I \subseteq Nat
    OBVIOUS
  <2> HIDE DEF I
  <2>2. ASSUME I # {} PROVE \E m \in I : \A n \in I : m <= n
    BY <2>1, <2>2, LeastExists
  <2> QED  BY <2>2 DEF Min
<1> HIDE DEF I, i
<1>3. OpenWindow(c, now) = IF c.enabled /\ i # 0 THEN c.windows[i] ELSE None
  BY DEF OpenWindow, i
<1>4. c.enabled /\ i # 0 /\ OpenWindow(c, now) = c.windows[i]
  BY <1>3 DEF Stated
<1>5. i \in 1..Len(c.windows) /\ Within(c.windows[i], now)
  BY <1>1, <1>2, <1>4 DEF I
<1>6. c.windows[i] \in Windows /\ c.windows[i] \in ToSet(c.windows)
  <2>1. c.windows \in Seq(Windows)
    BY DEF IsCampaign
  <2> QED  BY <1>5, <2>1, ElementOfSeq DEF ToSet
<1> QED  BY <1>4, <1>5, <1>6

\* The profile in force is a profile.
LEMMA ResolvedProfile ==
  ASSUME NEW cal, IsCalendar(cal), NEW now
  PROVE  /\ Resolve(cal, now).profile \in Profiles
         /\ Resolve(cal, now).posture = PostureFor(cal, Resolve(cal, now).profile)
         /\ Stated(Governing(cal, now)) => IsCampaign(Governing(cal, now))
<1> DEFINE c == Governing(cal, now)
           w == IF Stated(c) THEN OpenWindow(c, now) ELSE None
<1>1. Stated(c) => IsCampaign(c) /\ Phase(c, now) \in Profiles
  <2> SUFFICES ASSUME Stated(c) PROVE IsCampaign(c) /\ Phase(c, now) \in Profiles
    OBVIOUS
  <2>1. PICK i \in First(cal, now) : c = cal.campaigns[i]
    BY GoverningPrecedes DEF Stated
  <2>2. i \in DOMAIN cal.campaigns /\ Stated(Phase(c, now))
    BY <2>1 DEF First, Asking
  <2>3. IsCampaign(c)
    BY <2>1, <2>2, CampaignsAre
  <2> QED  BY <2>2, <2>3, PhaseIsProfile DEF Stated
<1>2. Stated(w) => w.profile \in Profiles \union {None}
  <2> SUFFICES ASSUME Stated(w) PROVE w.profile \in Profiles \union {None}
    OBVIOUS
  <2>1. Stated(c) /\ w = OpenWindow(c, now)
    BY DEF Stated
  <2>2. w \in Windows
    BY <1>1, <2>1, OpenWindowIs
  <2> QED  BY <2>2 DEF Windows
<1>3. Resolve(cal, now) = Resolved(cal, now, c, w)
  BY DEF Resolve, ResolvedFor
<1> HIDE DEF c, w
<1>4. "Normal" \in Profiles
  BY DEF Profiles, Priority
<1>5. /\ Resolved(cal, now, c, w).profile \in Profiles
      /\ Resolved(cal, now, c, w).posture = PostureFor(cal, Resolved(cal, now, c, w).profile)
  BY <1>1, <1>2, <1>4 DEF Resolved, Stated
<1> QED  BY <1>1, <1>3, <1>5 DEF c

LEMMA PollsWithDelay ==
  ASSUME CampaignAsked
  PROVE  NoPollWithoutDelay
<1> DEFINE cal == question.calendar
           now == question.now
           p   == Resolve(cal, now).posture
           c   == Governing(cal, now)
<1> SUFFICES ASSUME AboutCampaign, Accepted, NEW source, NEW base \in Bases
             PROVE  KeepsItsFloor(SourcePosture(cal, source, now), base)
  BY DEF NoPollWithoutDelay
<1>1. IsCalendar(cal) /\ CalendarIssues(cal) = {}
  BY DEF CampaignAsked, Accepted
<1>2. Sound(p)
  BY <1>1, ResolvedProfile, PostureIsSound
<1>3. Stated(c) => IsCampaign(c)
  BY <1>1, ResolvedProfile
<1>4. SourcePosture(cal, source, now) = Overridden(c, source, p)
  BY DEF SourcePosture
<1>5. base \in Nat
  BY CampaignAssumption
<1> HIDE DEF p, c, cal, now
<1>6. Stated(Overridden(c, source, p)) => Sound(Overridden(c, source, p))
  <2>1. CASE ~Stated(c) \/ source \notin DOMAIN c.overrides
    BY <1>2, <2>1 DEF Overridden
  <2>2. CASE Stated(c) /\ source \in DOMAIN c.overrides
    <3> DEFINE o == c.overrides[source]
    <3>1. o.percent \in Nat \union {None}
      BY <1>3, <2>2 DEF IsCampaign
    <3>2. Overridden(c, source, p) =
            IF o.enabled = FALSE THEN None
            ELSE IF Stated(o.percent) /\ o.percent > 0 THEN [p EXCEPT !.percent = o.percent] ELSE p
      BY <2>2 DEF Overridden
    <3> HIDE DEF o
    <3>3. Stated(o.percent) => Sound([p EXCEPT !.percent = o.percent])
      BY <1>2, <3>1 DEF Sound, Stated
    <3> QED  BY <1>2, <3>2, <3>3 DEF Stated
  <2> QED  BY <2>1, <2>2
<1> QED  BY <1>4, <1>5, <1>6, AppliedWithin DEF KeepsItsFloor

\* A window that is open in a campaign without issues finds it running.
LEMMA WindowIsWithin ==
  ASSUME NEW c, IsCampaign(c), CampaignIssues(c) = {}, NEW now \in Nat, Stated(OpenWindow(c, now))
  PROVE  /\ Phase(c, now) = Otherwise(c.profile, "CampaignActive")
         /\ Stated(Phase(c, now))
<1> DEFINE w == OpenWindow(c, now)
<1>1. c.enabled /\ w \in ToSet(c.windows) /\ w \in Windows /\ Within(w, now)
  BY OpenWindowIs
<1>2. WindowIssues(c, w) = {}
  <2>1. \A issue \in WindowIssues(c, w) : issue \in CampaignIssues(c)
    BY <1>1 DEF CampaignIssues
  <2> QED  BY <2>1
<1> HIDE DEF w
<1>3. c.start <= w.start /\ w.end <= c.end
  <2>1. c.start \in Int /\ c.end \in Int /\ w.start \in Int /\ w.end \in Int
    BY <1>1, CampaignAssumption DEF IsCampaign, Windows
  <2> QED  BY <1>2, <2>1 DEF WindowIssues
<1>4. Within(c, now)
  <2>1. c.start \in Int /\ c.end \in Int /\ w.start \in Int /\ w.end \in Int
    BY <1>1, CampaignAssumption DEF IsCampaign, Windows
  <2> QED  BY <1>1, <1>3, <2>1 DEF Within
<1>5. Phase(c, now) = Otherwise(c.profile, "CampaignActive")
  BY <1>1, <1>4 DEF Phase
<1>6. "CampaignActive" # None
  BY CampaignAssumption DEF Profiles, Priority
<1> QED  BY <1>5, <1>6 DEF Otherwise, Stated

LEMMA WindowIsRunning ==
  ASSUME CampaignAsked
  PROVE  WindowFindsCampaignRunning
<1> DEFINE cal == question.calendar
           now == question.now
           g   == Governing(cal, now)
           w   == OpenWindow(g, now)
           answer == Resolve(cal, now)
           Wishes(c) == Stated(c.profile) \/ \E x \in ToSet(c.windows) : Stated(x.profile)
<1> SUFFICES ASSUME AboutCampaign, Accepted, HighInterest(cal, now)
             PROVE  /\ Stated(answer.campaign)
                    /\ answer.profile # "CampaignActive" => \E c \in ToSet(cal.campaigns) : Wishes(c)
  BY DEF WindowFindsCampaignRunning
<1>1. IsCalendar(cal) /\ CalendarIssues(cal) = {} /\ now \in Nat
  BY CampaignAssumption DEF CampaignAsked, Accepted
<1>2. answer = Resolved(cal, now, g, IF Stated(g) THEN w ELSE None)
  BY DEF Resolve, ResolvedFor
<1> HIDE DEF cal, now, answer, w
<1>3. PICK c \in ToSet(cal.campaigns) : Stated(OpenWindow(c, now))
  BY DEF HighInterest
<1>4. PICK j \in DOMAIN cal.campaigns : c = cal.campaigns[j]
  BY <1>1, CampaignsAre DEF ToSet
<1>5. IsCampaign(c) /\ CampaignIssues(c) = {}
  BY <1>1, <1>3, <1>4, CampaignsAre, AcceptedCalendar
<1>6. Phase(c, now) = Otherwise(c.profile, "CampaignActive") /\ Stated(Phase(c, now))
  BY <1>1, <1>3, <1>5, WindowIsWithin
<1>7. j \in Asking(cal, now)
  BY <1>4, <1>6 DEF Asking
<1>8. PICK i \in First(cal, now) : g = cal.campaigns[i]
  BY <1>1, <1>7, GoverningPrecedes
<1>9. i \in DOMAIN cal.campaigns /\ Stated(Phase(g, now)) /\ Governs(g, c, now)
  BY <1>4, <1>7, <1>8 DEF First, Asking
<1>10. IsCampaign(g) /\ Stated(g) /\ g \in ToSet(cal.campaigns)
  <2>1. IsCampaign(g)
    BY <1>1, <1>8, <1>9, CampaignsAre
  <2> QED  BY <1>1, <1>8, <1>9, <2>1, CampaignsAre DEF IsCampaign, Stated, ToSet
<1> HIDE DEF g
<1>11. Stated(answer.campaign)
  <2>1. answer.campaign = g.id
    BY <1>2, <1>10 DEF Resolved
  <2> QED  BY <1>10, <2>1, NoneAssumption DEF IsCampaign, Stated
<1>12. ASSUME ~Wishes(c), ~Wishes(g) PROVE answer.profile = "CampaignActive"
  <2>1. Phase(c, now) = "CampaignActive"
    BY <1>6, <1>12 DEF Otherwise
  <2>2. Phase(g, now) \in Profiles
    BY <1>9, <1>10, PhaseIsProfile DEF Stated
  <2>3. Priority[Phase(g, now)] >= 3
    <3>1. Priority[Phase(c, now)] = 3 /\ Priority[Phase(g, now)] \in 0..3
      BY <2>1, <2>2 DEF Profiles, Priority
    <3> QED  BY <1>9, <3>1 DEF Governs
  <2>4. Phase(g, now) = "CampaignActive"
    BY <2>2, <2>3 DEF Profiles, Priority
  <2>5. ~(Stated(w) /\ Stated(w.profile))
    BY <1>10, <1>12, OpenWindowIs DEF w, g
  <2> QED  BY <1>2, <1>10, <2>4, <2>5 DEF Resolved, Stated
<1> QED  BY <1>3, <1>10, <1>11, <1>12

-----------------------------------------------------------------------------
(* Campaign: offsets *)

LEMMA OffsetsAreNarrow ==
  ASSUME CampaignAsked
  PROVE  BrokenOffsetNeverWidens
<1> DEFINE now == question.now
<1> SUFFICES ASSUME AboutCampaign, NEW c \in ToSet(question.calendar.campaigns),
                    c.start < c.end, Stated(Phase(c, now))
             PROVE  /\ c.lead < 0 \/ c.start - c.lead < 0 => now >= c.start
                    /\ c.recovery < 0 \/ c.end + c.recovery > Horizon => now < c.end
  BY DEF BrokenOffsetNeverWidens
<1>1. now \in Int /\ Horizon \in Nat
  BY CampaignAssumption DEF CampaignAsked
<1>2. IsCampaign(c)
  <2>1. IsCalendar(question.calendar)
    BY DEF CampaignAsked
  <2>2. \E i \in DOMAIN question.calendar.campaigns : c = question.calendar.campaigns[i]
    BY <2>1, CampaignsAre DEF ToSet
  <2> QED  BY <2>1, <2>2, CampaignsAre
<1>3. c.start \in 0..Horizon /\ c.end \in 0..Horizon /\ c.lead \in Int /\ c.recovery \in Int
  BY <1>2 DEF IsCampaign
<1>4. \/ c.start <= now /\ now < c.end
      \/ WarmupStart(c) <= now /\ now < c.start
      \/ c.end <= now /\ now < RecoveryEnd(c)
  BY DEF Phase, Stated, Within
<1> HIDE DEF now
<1>5. c.lead < 0 \/ c.start - c.lead < 0 => WarmupStart(c) >= c.start
  <2>1. c.start + (-c.lead) = c.start - c.lead /\ c.start - c.lead \in Int
    BY <1>3
  <2>2. ASSUME c.start - c.lead \in 0..Horizon PROVE WarmupStart(c) = c.start - c.lead
    BY <1>1, <2>1, <2>2, NoneAssumption DEF WarmupStart, Offset, Otherwise, Stated
  <2>3. ASSUME c.start - c.lead \notin 0..Horizon PROVE WarmupStart(c) = c.start
    BY <2>1, <2>3 DEF WarmupStart, Offset, Otherwise, Stated
  <2> QED  BY <1>1, <1>3, <2>1, <2>2, <2>3
<1>6. c.recovery < 0 \/ c.end + c.recovery > Horizon => RecoveryEnd(c) <= c.end
  <2>1. c.end + c.recovery \in Int
    BY <1>3
  <2>2. ASSUME c.end + c.recovery \in 0..Horizon PROVE RecoveryEnd(c) = c.end + c.recovery
    BY <1>1, <2>1, <2>2, NoneAssumption DEF RecoveryEnd, Offset, Otherwise, Stated
  <2>3. ASSUME c.end + c.recovery \notin 0..Horizon PROVE RecoveryEnd(c) = c.end
    BY <2>1, <2>3 DEF RecoveryEnd, Offset, Otherwise, Stated
  <2> QED  BY <1>1, <1>3, <2>1, <2>2, <2>3
<1>7. WarmupStart(c) \in Int /\ RecoveryEnd(c) \in Int
  <2>1. c.start + (-c.lead) \in Int /\ c.end + c.recovery \in Int
    BY <1>3
  <2> QED  BY <1>3, <2>1 DEF WarmupStart, RecoveryEnd, Offset, Otherwise, Stated
<1> QED  BY <1>1, <1>3, <1>4, <1>5, <1>6, <1>7

-----------------------------------------------------------------------------
(* polling.rs: the budget of an hour *)

\* The requests granted within the hour that ends with request i.
GrantedInHour(times, granted, i) == {j \in 1..i : granted[j] = TRUE /\ times[i] - times[j] < Hour}

\* What a budget knows of its requests: it keeps the ones granted within the
\* hour before the last, and never granted more than it may.
Kept(limit, times, kept, granted) ==
  /\ limit \in Nat
  /\ times \in Seq(Int) /\ granted \in Seq(BOOLEAN) /\ Len(granted) = Len(times)
  /\ \A i, j \in 1..Len(times) : i <= j => times[i] <= times[j]
  /\ kept = IF Len(times) = 0 THEN {} ELSE GrantedInHour(times, granted, Len(times))
  /\ \A i \in 1..Len(times) :
       /\ Cardinality(GrantedInHour(times, granted, i)) <= limit
       /\ granted[i] # TRUE => Cardinality(GrantedInHour(times, granted, i)) = limit

LEMMA KeptOnce ==
  ASSUME NEW limit, NEW times, NEW kept, NEW granted, Kept(limit, times, kept, granted),
         NEW now \in Int, \A i \in 1..Len(times) : times[i] <= now,
         Hour \in Nat \ {0}
  PROVE  LET times1 == Append(times, now)
             left   == Retained(kept, times, now)
             grant  == Cardinality(left) < limit
         IN Kept(limit, times1, IF grant THEN left \union {Len(times1)} ELSE left, Append(granted, grant))
<1> DEFINE n      == Len(times)
           times1 == Append(times, now)
           left   == Retained(kept, times, now)
           grant  == Cardinality(left) < limit
           granted1 == Append(granted, grant)
           kept1  == IF grant THEN left \union {Len(times1)} ELSE left
           last   == GrantedInHour(times1, granted1, n + 1)
<1>1. /\ limit \in Nat /\ n \in Nat /\ times \in Seq(Int)
      /\ granted \in Seq(BOOLEAN) /\ Len(granted) = n
      /\ \A i, j \in 1..n : i <= j => times[i] <= times[j]
      /\ kept = IF n = 0 THEN {} ELSE GrantedInHour(times, granted, n)
      /\ \A i \in 1..n : times[i] \in Int
  BY DEF Kept
<1>2. grant \in BOOLEAN
  OBVIOUS
<1>3. /\ times1 \in Seq(Int) /\ Len(times1) = n + 1 /\ times1[n + 1] = now
      /\ \A i \in 1..n : times1[i] = times[i]
  BY <1>1
<1> HIDE DEF grant
<1>4. /\ granted1 \in Seq(BOOLEAN) /\ Len(granted1) = n + 1 /\ granted1[n + 1] = grant
      /\ \A i \in 1..n : granted1[i] = granted[i]
  BY <1>1, <1>2
<1> HIDE DEF times1, granted1, n
<1>5. \A i, j \in 1..(n + 1) : i <= j => times1[i] <= times1[j]
  <2>1. \A i \in 1..(n + 1) : i \in 1..n \/ i = n + 1
    BY <1>1
  <2>2. \A i \in 1..n : times[i] <= now
    BY DEF n
  <2> QED  BY <1>1, <1>3, <2>1, <2>2
<1>6. \A i \in 1..n : GrantedInHour(times1, granted1, i) = GrantedInHour(times, granted, i)
  <2>1. \A i \in 1..n : \A j \in 1..i : j \in 1..n
    BY <1>1
  <2> QED  BY <1>1, <1>3, <1>4, <2>1 DEF GrantedInHour
<1>7. left = {j \in 1..n : granted[j] = TRUE /\ now - times[j] < Hour}
  <2>1. CASE n = 0
    BY <1>1, <2>1 DEF Retained
  <2>2. CASE n # 0
    <3>1. kept = {j \in 1..n : granted[j] = TRUE /\ times[n] - times[j] < Hour}
      BY <1>1, <2>2 DEF GrantedInHour
    <3>2. n \in 1..n /\ times[n] <= now /\ times[n] \in Int
      BY <1>1, <2>2 DEF n
    <3>3. \A j \in 1..n : now - times[j] < Hour => times[n] - times[j] < Hour
      BY <1>1, <3>2
    <3> QED  BY <3>1, <3>3 DEF Retained
  <2> QED  BY <2>1, <2>2
<1>8. IsFiniteSet(left) /\ Cardinality(left) \in Nat /\ n + 1 \notin left /\ left \subseteq 1..n
  <2>1. left \subseteq 1..n /\ n + 1 \notin left
    BY <1>1, <1>7
  <2>2. IsFiniteSet(1..n)
    BY <1>1, FS_Interval
  <2> HIDE DEF left
  <2>3. IsFiniteSet(left)
    BY <2>1, <2>2, FS_Subset
  <2> QED  BY <2>1, <2>3, FS_CardinalityType
<1>9. Cardinality(left) <= limit
  <2>1. CASE n = 0
    <3>1. left = {}
      BY <1>8, <2>1
    <3>2. Cardinality({}) = 0
      BY FS_EmptySet
    <3> HIDE DEF left
    <3> QED  BY <1>1, <3>1, <3>2
  <2>2. CASE n # 0
    <3>1. left \subseteq GrantedInHour(times, granted, n)
      BY <1>1, <2>2 DEF Retained
    <3>2. GrantedInHour(times, granted, n) \subseteq 1..n /\ IsFiniteSet(1..n)
      BY <1>1, FS_Interval DEF GrantedInHour
    <3>3. IsFiniteSet(GrantedInHour(times, granted, n))
      BY <3>2, FS_Subset
    <3> HIDE DEF left
    <3>4. Cardinality(left) <= Cardinality(GrantedInHour(times, granted, n))
      BY <3>1, <3>3, FS_Subset
    <3>5. Cardinality(GrantedInHour(times, granted, n)) <= limit
      <4>1. n \in 1..Len(times)
        BY <1>1, <2>2 DEF n
      <4> QED  BY <4>1 DEF Kept
    <3>6. Cardinality(GrantedInHour(times, granted, n)) \in Nat
      BY <3>3, FS_CardinalityType
    <3> QED  BY <1>1, <1>8, <3>4, <3>5, <3>6
  <2> QED  BY <2>1, <2>2
<1>10. last = kept1 /\ Cardinality(kept1) \in Nat
  <2>1. last = {j \in 1..(n + 1) : granted1[j] = TRUE /\ now - times1[j] < Hour}
    BY <1>3 DEF GrantedInHour
  <2> HIDE DEF last, left, kept1
  <2>2. ASSUME NEW j \in 1..n PROVE j \in last <=> j \in left
    <3>1. j \in 1..(n + 1) /\ granted1[j] = granted[j] /\ times1[j] = times[j]
      BY <1>1, <1>3, <1>4
    <3> QED  BY <1>7, <2>1, <3>1
  <2>3. n + 1 \in last <=> grant = TRUE
    <3>1. now - now < Hour /\ n + 1 \in 1..(n + 1)
      BY <1>1
    <3> QED  BY <1>3, <1>4, <2>1, <3>1
  <2>4. last \subseteq 1..(n + 1) /\ left \subseteq 1..n /\ \A j \in 1..(n + 1) : j \in 1..n \/ j = n + 1
    BY <1>1, <1>8, <2>1
  <2>5. last = kept1
    <3>1. CASE grant = TRUE
      <4>1. kept1 = left \union {n + 1}
        BY <1>3, <3>1 DEF kept1
      <4> QED  BY <2>2, <2>3, <2>4, <3>1, <4>1
    <3>2. CASE grant = FALSE
      <4>1. kept1 = left
        BY <3>2 DEF kept1
      <4> QED  BY <1>8, <2>2, <2>3, <2>4, <3>2, <4>1
    <3> QED  BY <1>2, <3>1, <3>2
  <2>6. IsFiniteSet(kept1)
    BY <1>8, FS_AddElement DEF kept1
  <2> QED  BY <2>5, <2>6, FS_CardinalityType
<1> HIDE DEF last, left, kept1
<1>11. /\ Cardinality(kept1) <= limit
       /\ grant # TRUE => Cardinality(kept1) = limit
  <2>1. CASE grant = TRUE
    <3>1. kept1 = left \union {n + 1}
      BY <1>3, <2>1 DEF kept1
    <3>2. Cardinality(left \union {n + 1}) = Cardinality(left) + 1
      BY <1>8, FS_AddElement
    <3>3. Cardinality(left) < limit
      BY <2>1 DEF grant
    <3> QED  BY <1>1, <1>8, <2>1, <3>1, <3>2, <3>3
  <2>2. CASE grant = FALSE
    <3>1. kept1 = left
      BY <2>2 DEF kept1
    <3>2. ~(Cardinality(left) < limit)
      BY <2>2 DEF grant
    <3>3. Cardinality(left) = limit
      BY <1>1, <1>8, <1>9, <3>2
    <3> QED  BY <1>9, <3>1, <3>3, Zenon
  <2> QED  BY <1>2, <2>1, <2>2, Zenon
<1>12. ASSUME NEW i \in 1..(n + 1)
       PROVE  /\ Cardinality(GrantedInHour(times1, granted1, i)) <= limit
              /\ granted1[i] # TRUE => Cardinality(GrantedInHour(times1, granted1, i)) = limit
  <2>1. CASE i \in 1..n
    <3>1. /\ Cardinality(GrantedInHour(times, granted, i)) <= limit
          /\ granted[i] # TRUE => Cardinality(GrantedInHour(times, granted, i)) = limit
      BY <2>1 DEF Kept, n
    <3> QED  BY <1>4, <1>6, <2>1, <3>1
  <2>2. CASE i = n + 1
    <3>1. GrantedInHour(times1, granted1, i) = kept1 /\ granted1[i] = grant
      BY <1>4, <1>10, <2>2 DEF last
    <3> QED  BY <1>11, <3>1
  <2>3. i \in 1..n \/ i = n + 1
    BY <1>1
  <2> QED  BY <2>1, <2>2, <2>3, Zenon
<1>13. n + 1 # 0
  BY <1>1
<1>14. Kept(limit, times1, kept1, granted1)
  BY <1>1, <1>3, <1>4, <1>5, <1>10, <1>12, <1>13 DEF Kept, last
<1> QED  BY <1>14 DEF times1, granted1, kept1, left, grant, n

BudgetKept == AboutBudget => Kept(question.limit, question.times, question.kept, question.granted)

LEMMA HourIsCapped ==
  ASSUME BudgetKept
  PROVE  RollingHourIsCapped
<1> DEFINE times   == question.times
           granted == question.granted
           InHour(i) == {j \in 1..i : granted[j] /\ times[i] - times[j] < Hour}
<1> SUFFICES ASSUME AboutBudget, NEW i \in DOMAIN times
             PROVE  /\ Cardinality(InHour(i)) <= question.limit
                    /\ ~granted[i] => Cardinality(InHour(i)) = question.limit
  BY DEF RollingHourIsCapped
<1>1. Kept(question.limit, times, question.kept, granted)
  BY DEF BudgetKept
<1>2. i \in 1..Len(times) /\ \A j \in 1..Len(times) : granted[j] \in BOOLEAN
  BY <1>1 DEF Kept
<1> HIDE DEF times, granted
<1>3. \A j \in 1..i : j \in 1..Len(times)
  BY <1>1, <1>2 DEF Kept
<1>4. \A j \in 1..Len(times) : granted[j] <=> granted[j] = TRUE
  BY <1>2, Zenon
<1>5. InHour(i) = GrantedInHour(times, granted, i)
  BY <1>3, <1>4, Zenon DEF GrantedInHour
<1>6. /\ Cardinality(GrantedInHour(times, granted, i)) <= question.limit
      /\ granted[i] # TRUE => Cardinality(GrantedInHour(times, granted, i)) = question.limit
  BY <1>1, <1>2 DEF Kept
<1>7. ~granted[i] => granted[i] # TRUE
  BY <1>2, <1>4, Zenon
<1> HIDE DEF InHour
<1> QED  BY <1>5, <1>6, <1>7

-----------------------------------------------------------------------------
(* Every question about the pace is one the lemmas are about. *)

PaceIsAsked == DelayAsked /\ PaceAsked /\ CampaignAsked /\ BudgetKept

LEMMA PollingMeasured ==
  ASSUME PaceIsAsked
  PROVE  PollingIsMeasured
BY FailuresWait, TroubledIsNotHurried, OrderIsIrrelevant, PollsWithDelay, WindowIsRunning, OffsetsAreNarrow,
   HourIsCapped DEF PaceIsAsked, PollingIsMeasured

PaceTopics == {"delay", "pace", "campaign", "budget"}

LEMMA OtherThanPace ==
  ASSUME \/ AskScore \/ AskRelevance \/ AskPlan
         \/ AskIngest \/ AskCollected \/ AskFed \/ AskStage
         \/ AskCollection \/ AskReplay \/ AskResponse
         \/ AskSource \/ AskDiscovery \/ AskTimings
         \/ AskSend \/ AskMessage \/ AskAlerts \/ AskStart \/ AskControl \/ AskCommand
         \/ AskVoucherRow \/ AskAttemptRow \/ AskJobTable \/ AskRunTable
         \/ EvaluateAlerts \/ CallControl \/ Observe
  PROVE  question'.about \notin PaceTopics
BY TopicOf DEF PaceTopics

LEMMA PaceAskedFirst == Init => PaceIsAsked
BY DEF Init, PaceIsAsked, DelayAsked, PaceAsked, CampaignAsked, BudgetKept, AboutCampaign, AboutBudget

\* What an action asks about the pace is well asked, and the next request finds
\* the budget as the last one left it.
LEMMA PaceAskedNext == PaceIsAsked /\ [Next]_question => PaceIsAsked'
<1> SUFFICES ASSUME PaceIsAsked, [Next]_question
             PROVE  PaceIsAsked'
  OBVIOUS
<1> USE DEF PaceIsAsked, DelayAsked, CampaignAsked, BudgetKept, AboutCampaign, AboutBudget
<1>1. ASSUME question'.about \notin PaceTopics PROVE PaceIsAsked'
  BY <1>1 DEF PaceTopics, PaceAsked
<1>2. CASE AskDelay
  <2>1. question'.about = "delay" /\ question'.failures \in Nat
    BY <1>2, StartupAssumption DEF AskDelay
  <2> QED  BY <2>1 DEF PaceAsked
<1>3. CASE AskPace
  <2>1. PICK config \in PollingConfigs, s \in PollingSignals :
          question' = [about |-> "pace", config |-> config, signals |-> s]
    BY <1>3 DEF AskPace
  <2>2. question'.about = "pace" /\ question'.config = config /\ question'.signals = s
    BY <2>1
  <2>3. PaceAsked'
    BY <2>2, PollingAssumption DEF PaceAsked
  <2> QED  BY <2>2, <2>3
<1>4. CASE AskCampaign
  <2>1. PICK cal \in Calendars, now \in Moments : question' = [about |-> "campaign", calendar |-> cal, now |-> now]
    BY <1>4 DEF AskCampaign
  <2>2. question'.about = "campaign" /\ question'.calendar = cal /\ question'.now = now
    BY <2>1
  <2>3. IsCalendar(cal) /\ now \in 0..Horizon
    BY CampaignAssumption DEF IsCalendar
  <2> QED  BY <2>2, <2>3 DEF PaceAsked
<1>5. ASSUME question'.about = "budget",
             Kept(question'.limit, question'.times, question'.kept, question'.granted)
      PROVE  PaceIsAsked'
  BY <1>5 DEF PaceAsked
<1>6. CASE AskBudget
  <2>1. /\ question'.about = "budget" /\ question'.limit \in Nat
        /\ question'.times = << >> /\ question'.kept = {} /\ question'.granted = << >>
    BY <1>6, PollingAssumption DEF AskBudget
  <2>2. Kept(question'.limit, question'.times, question'.kept, question'.granted)
    BY <2>1 DEF Kept
  <2> QED  BY <1>5, <2>1, <2>2
<1>7. CASE TryConsume
  <2>1. Kept(question.limit, question.times, question.kept, question.granted)
    BY <1>7 DEF TryConsume
  <2>2. PICK now \in RequestTimes :
          LET times == Append(question.times, now)
              kept  == Retained(question.kept, question.times, now)
              can   == Cardinality(kept) < question.limit
          IN /\ \A i \in DOMAIN question.times : question.times[i] <= now
             /\ question' = [about   |-> "budget",
                             limit   |-> question.limit,
                             times   |-> times,
                             kept    |-> IF can THEN kept \union {Len(times)} ELSE kept,
                             granted |-> Append(question.granted, can)]
    BY <1>7 DEF TryConsume
  <2>3. now \in Int /\ Hour \in Nat \ {0} /\ \A i \in 1..Len(question.times) : question.times[i] <= now
    BY <2>1, <2>2, PollingAssumption DEF Kept
  <2>4. Kept(question'.limit, question'.times, question'.kept, question'.granted)
    BY <2>1, <2>2, <2>3, KeptOnce
  <2> QED  BY <1>5, <2>2, <2>4
<1>8. CASE UNCHANGED question
  BY <1>8 DEF PaceAsked
<1> QED
  BY <1>1, <1>2, <1>3, <1>4, <1>6, <1>7, <1>8, OtherThanPace DEF Next, Ask

-----------------------------------------------------------------------------
\* Sources are asked at a measured pace, whatever the calendar, the delays and
\* the hints, and however many requests a budget is asked for (campaign,
\* polling.rs, worker.rs).
THEOREM PollingIsAlwaysMeasured == Spec => []PollingIsMeasured
<1>1. Spec => []PaceIsAsked
  BY PaceAskedFirst, PaceAskedNext, PTL DEF Spec
<1> QED  BY <1>1, PollingMeasured, PTL

-----------------------------------------------------------------------------
(* provenance.rs: a merged view covers what it was merged from *)

IsMerged(m) ==
  /\ m = [f \in Fields |-> m[f]]
  /\ m.source \in DOMAIN Tiers
  /\ m.type # None /\ m.scope # None /\ Stated(m.title) /\ Stated(m.key)

Covers(m, c) ==
  /\ Tiers[c.source] <= Tiers[m.source]
  /\ \A f \in Fields : Stated(c[f]) => Stated(m[f])
  /\ c.scope.kind # "Unstated" => m.scope.kind # "Unstated"

LEMMA ValidIsMerged ==
  ASSUME NEW c \in Valid
  PROVE  IsMerged(c) /\ IsCandidate(c) /\ Word(c.title) # "" /\ Stated(c.title)
<1>1. IsCandidate(c) /\ Issues(c) = {}
  BY IntakeAssumption DEF Valid
<1>2. Word(c.title) # "" /\ Word(c.key) # ""
  BY <1>1 DEF Issues
<1>3. Stated(c.title) /\ Stated(c.key)
  BY <1>2 DEF Word
<1>4. Stated(c.scope)
  BY <1>1 DEF IsCandidate, IsScope
<1> QED  BY <1>1, <1>2, <1>3, <1>4 DEF IsCandidate, IsMerged, Stated

\* A merge covers both of its sides.
LEMMA MergeCovers ==
  ASSUME NEW k, IsMerged(k), NEW c \in Valid
  PROVE  /\ IsMerged(Merge(k, c))
         /\ Covers(Merge(k, c), c)
         /\ \A d : d.source \in DOMAIN Tiers /\ Covers(k, d) => Covers(Merge(k, c), d)
<1> DEFINE m == Merge(k, c)
           ec == Tiers[k.source]
           ic == Tiers[c.source]
           winner == IF ic > ec THEN c ELSE k
<1>1. IsMerged(c) /\ Word(c.title) # ""
  BY ValidIsMerged
<1>2. DOMAIN k = Fields /\ ec \in Nat /\ ic \in Nat
  BY <1>1, IntakeAssumption DEF IsMerged
<1>3. m = [f \in Fields |-> m[f]]
  BY <1>2 DEF Merge
<1>4. m.source = winner.source /\ m.key = winner.key /\ m.type = winner.type /\ m.title = winner.title
  BY <1>1, <1>2 DEF Merge, Fields, Conditions
<1>5. m.scope = IF c.scope.kind = "Unstated" THEN k.scope
                ELSE IF k.scope.kind = "Unstated" THEN c.scope ELSE winner.scope
  BY <1>1, <1>2 DEF Merge, Fields, Conditions
<1>6. \A f \in Fields \ {"source", "key", "type", "title", "scope"} : m[f] = ResolveOptional(k[f], c[f], ec, ic)
  BY <1>1, <1>2 DEF Merge
<1>7. IsMerged(m)
  BY <1>1, <1>3, <1>4, <1>5 DEF IsMerged
<1>8. Tiers[m.source] >= ec /\ Tiers[m.source] >= ic
  BY <1>2, <1>4
<1>9. \A f \in Fields : Stated(k[f]) \/ Stated(c[f]) => Stated(m[f])
  <2>1. ASSUME NEW f \in Fields \ {"source", "key", "type", "title", "scope"}, Stated(k[f]) \/ Stated(c[f])
        PROVE  Stated(m[f])
    BY <1>6, <2>1 DEF ResolveOptional, Otherwise, Stated
  <2>2. Stated(m.source) /\ Stated(m.key) /\ Stated(m.type) /\ Stated(m.title) /\ Stated(m.scope)
    BY <1>7, IntakeAssumption DEF IsMerged, Stated
  <2> QED  BY <2>1, <2>2
<1>10. k.scope.kind # "Unstated" \/ c.scope.kind # "Unstated" => m.scope.kind # "Unstated"
  BY <1>5
<1>11. Covers(m, c)
  BY <1>8, <1>9, <1>10 DEF Covers
<1>12. ASSUME NEW d, d.source \in DOMAIN Tiers, Covers(k, d) PROVE Covers(m, d)
  <2>1. Tiers[d.source] \in Nat /\ Tiers[d.source] <= ec /\ Tiers[m.source] \in Nat
    BY <1>7, <1>12, IntakeAssumption DEF Covers, IsMerged
  <2> QED  BY <1>2, <1>8, <1>9, <1>10, <1>12, <2>1 DEF Covers
<1> QED  BY <1>7, <1>11, <1>12

\* What is covered adds nothing.
LEMMA CoveredIsStable ==
  ASSUME NEW m, IsMerged(m), NEW c \in Valid, Covers(m, c)
  PROVE  Merge(m, c) = m
<1> DEFINE ec == Tiers[m.source]
           ic == Tiers[c.source]
<1>1. IsMerged(c) /\ Word(c.title) # ""
  BY ValidIsMerged
<1>2. DOMAIN m = Fields /\ ~(ic > ec)
  <2>1. DOMAIN m = Fields /\ ec \in Nat /\ ic \in Nat
    BY <1>1, IntakeAssumption DEF IsMerged
  <2>2. ic <= ec
    BY DEF Covers
  <2> QED  BY <2>1, <2>2
<1>3. ASSUME NEW f \in Fields PROVE Merge(m, c)[f] = m[f]
  <2>1. CASE f \in {"source", "key", "type", "title", "scope"}
    BY <1>1, <1>2, <2>1 DEF Merge, Covers
  <2>2. CASE f \notin {"source", "key", "type", "title", "scope"}
    <3>1. Merge(m, c)[f] = ResolveOptional(m[f], c[f], ec, ic)
      BY <1>2, <2>2 DEF Merge
    <3>2. Stated(c[f]) => Stated(m[f])
      BY DEF Covers
    <3> QED  BY <1>2, <3>1, <3>2 DEF ResolveOptional, Otherwise, Stated
  <2> QED  BY <2>1, <2>2
<1>4. Merge(m, c) = [f \in Fields |-> Merge(m, c)[f]]
  BY <1>2 DEF Merge
<1> QED  BY <1>3, <1>4 DEF IsMerged

-----------------------------------------------------------------------------
(* identity.rs, repositories/voucher.rs: the row of a voucher *)

TermsOf(c) == [f \in Conditions |-> c[f]]

\* Equal versions mean the same: nothing that Meaning looks at is left out of
\* the hash.
LEMMA EqualVersionsMeanTheSame ==
  ASSUME NEW c, NEW d, VersionHash(c) = VersionHash(d)
  PROVE  Meaning(TermsOf(c)) = Meaning(TermsOf(d))
<1>1. /\ Word(c.code) = Word(d.code) /\ OrEmpty(c.promotion) = OrEmpty(d.promotion)
      /\ OrEmpty(c.signature) = OrEmpty(d.signature) /\ Trimmed(c.title) = Trimmed(d.title)
      /\ c.type = d.type /\ c.amount = d.amount /\ c.percent = d.percent /\ c.cap = d.cap /\ c.min = d.min
      /\ CanonTime(c.start) = CanonTime(d.start) /\ CanonTime(c.end) = CanonTime(d.end)
      /\ Canonical(c.scope) = Canonical(d.scope)
      /\ Lowered(OrEmpty(c.method)) = Lowered(OrEmpty(d.method))
  BY DEF VersionHash
<1>2. ASSUME NEW f \in Conditions PROVE Meaning(TermsOf(c))[f] = Meaning(TermsOf(d))[f]
  <2> DEFINE Clean(r, g) == CASE g = "code" -> Word(r.code)
                              [] g = "promotion" -> OrEmpty(r.promotion)
                              [] g = "signature" -> OrEmpty(r.signature)
                              [] g = "title" -> Trimmed(r.title)
                              [] g = "scope" -> Canonical(r.scope)
                              [] g = "method" -> Lowered(OrEmpty(r.method))
                              [] g = "start" -> CanonTime(r.start)
                              [] g = "end" -> CanonTime(r.end)
                              [] OTHER -> r[g]
  <2>1. ASSUME NEW r PROVE Meaning(TermsOf(r))[f] = Clean(r, f)
    <3> DEFINE t == TermsOf(r)
    <3>1. /\ DOMAIN t = Conditions
          /\ \A g \in Conditions : t[g] = r[g]
      BY DEF TermsOf
    <3>2. {"code", "promotion", "signature", "title", "scope", "method", "start", "end"} \subseteq Conditions
      BY DEF Conditions
    <3> HIDE DEF t
    <3>3. Meaning(t)[f] = CASE f = "code" -> Word(t.code)
                            [] f = "promotion" -> OrEmpty(t.promotion)
                            [] f = "signature" -> OrEmpty(t.signature)
                            [] f = "title" -> Trimmed(t.title)
                            [] f = "scope" -> Canonical(t.scope)
                            [] f = "method" -> Lowered(OrEmpty(t.method))
                            [] f = "start" -> CanonTime(t.start)
                            [] f = "end" -> CanonTime(t.end)
                            [] OTHER -> t[f]
      BY <1>2, <3>1 DEF Meaning
    <3> QED  BY <1>2, <3>1, <3>2, <3>3 DEF t
  <2>2. Clean(c, f) = Clean(d, f)
    <3>1. CASE f \in {"code", "promotion", "signature", "title", "scope", "method", "start", "end"}
      BY <1>1, <3>1
    <3>2. CASE f \notin {"code", "promotion", "signature", "title", "scope", "method", "start", "end"}
      <4>1. c[f] = d[f]
        BY <1>1, <1>2, <3>2 DEF Conditions
      <4>2. Clean(c, f) = c[f] /\ Clean(d, f) = d[f]
        BY <3>2
      <4> QED  BY <4>1, <4>2
    <3> QED  BY <3>1, <3>2
  <2> HIDE DEF Clean
  <2> QED  BY <2>1, <2>2
<1> DEFINE m == Meaning(TermsOf(c))
           n == Meaning(TermsOf(d))
<1>3. m = [f \in Conditions |-> m[f]] /\ n = [f \in Conditions |-> n[f]]
  BY DEF Meaning, TermsOf
<1>4. \A f \in Conditions : m[f] = n[f]
  BY <1>2
<1> HIDE DEF m, n
<1>5. m = n
  BY <1>3, <1>4
<1> QED  BY <1>5 DEF m, n

\* The row holds an observation, in its own spelling or another.
Holds(row, c) ==
  /\ DOMAIN row = {"identity", "source", "key", "version", "terms", "outcome"}
  /\ row.identity = Identity(c)
  /\ row.version = VersionHash(c)
  /\ Meaning(row.terms) = Meaning(TermsOf(c))

LEMMA CreatedHolds ==
  ASSUME NEW c
  PROVE  Holds(FromCandidate(c), c)
BY DEF Holds, FromCandidate, TermsOf

LEMMA UpsertHolds ==
  ASSUME NEW row, NEW c, NEW d, Holds(row, d), Identity(c) = row.identity
  PROVE  Holds(Upsert(row, c), c)
<1>1. CASE row.version = VersionHash(c)
  <2>1. Upsert(row, c) = [row EXCEPT !.outcome = "Unchanged"]
    BY <1>1 DEF Upsert
  <2>2. Meaning(TermsOf(c)) = Meaning(TermsOf(d))
    BY <1>1, EqualVersionsMeanTheSame DEF Holds
  <2> QED  BY <1>1, <2>1, <2>2 DEF Holds
<1>2. CASE row.version # VersionHash(c)
  <2>1. Upsert(row, c) = [row EXCEPT !.version = VersionHash(c), !.terms = TermsOf(c), !.outcome = "Updated"]
    BY <1>2 DEF Upsert, TermsOf
  <2> QED  BY <1>2, <2>1 DEF Holds
<1> QED  BY <1>1, <1>2

LEMMA TextsAlike ==
  ASSUME NEW t, IsText(t), Stated(t), NEW s \in Spellings
  PROVE  /\ Stated(<<t[1], s>>)
         /\ Word(<<t[1], s>>) = Word(t)
         /\ s \in InAnyPadding(t) => Trimmed(<<t[1], s>>) = Trimmed(t)
         /\ s \in InAnyCase(t) => Lowered(<<t[1], s>>) = Lowered(t)
<1>1. PICK w, x : t = <<w, x>>
  BY Zenon DEF IsText
<1>2. /\ t[1] = w /\ t[2] = x /\ x \in Spellings /\ \A y \in Spellings : Stated(<<w, y>>)
  BY <1>1 DEF IsText
<1>3. Stated(<<w, s>>) /\ Word(<<w, s>>) = w /\ Word(t) = w
  BY <1>1, <1>2 DEF Word
<1>4. ASSUME s \in InAnyPadding(t) PROVE Trimmed(<<w, s>>) = Trimmed(<<w, x>>)
  <2>1. IF x = "upper" THEN s = "upper" ELSE s \in {"plain", "padded"}
    BY <1>2, <1>4 DEF InAnyPadding
  <2>2. Trimmed(<<w, s>>) = IF s = "padded" THEN <<w, "plain">> ELSE <<w, s>>
    BY <1>3 DEF Trimmed
  <2>3. Trimmed(<<w, x>>) = IF x = "padded" THEN <<w, "plain">> ELSE <<w, x>>
    BY <1>2 DEF Trimmed
  <2> QED  BY <1>2, <2>1, <2>2, <2>3 DEF Spellings
<1>5. ASSUME s \in InAnyCase(t) PROVE Lowered(<<w, s>>) = Lowered(<<w, x>>)
  <2>1. IF x = "padded" THEN s = "padded" ELSE s \in {"plain", "upper"}
    BY <1>2, <1>5 DEF InAnyCase
  <2>2. Lowered(<<w, s>>) = IF s = "upper" THEN <<w, "plain">> ELSE <<w, s>>
    BY <1>3 DEF Lowered
  <2>3. Lowered(<<w, x>>) = IF x = "upper" THEN <<w, "plain">> ELSE <<w, x>>
    BY <1>2 DEF Lowered
  <2> QED  BY <1>2, <2>1, <2>2, <2>3 DEF Spellings
<1> QED  BY <1>1, <1>2, <1>3, <1>4, <1>5

\* Spelling changes neither the key nor the version.
LEMMA RespelledAlike ==
  ASSUME NEW c \in Valid, NEW d \in Respelled(c)
  PROVE  Identity(d) = Identity(c) /\ VersionHash(d) = VersionHash(c)
<1>1. IsCandidate(c) /\ Word(c.title) # "" /\ Stated(c.title)
  BY ValidIsMerged
<1> DEFINE Same(f) == d[f] = c[f]
<1>2. /\ Trimmed(d.title) = Trimmed(c.title) /\ Word(d.code) = Word(c.code)
      /\ Lowered(OrEmpty(d.method)) = Lowered(OrEmpty(c.method)) /\ Canonical(d.scope) = Canonical(c.scope)
      /\ \A f \in Fields \ {"title", "code", "method", "scope"} : d[f] = c[f]
  <2>1. CASE d \in {[c EXCEPT !.title = <<c.title[1], s>>] : s \in InAnyPadding(c.title)}
    <3>1. PICK s \in InAnyPadding(c.title) : d = [c EXCEPT !.title = <<c.title[1], s>>]
      BY <2>1
    <3>2. d.title = <<c.title[1], s>> /\ \A f \in Fields \ {"title"} : d[f] = c[f]
      BY <1>1, <3>1 DEF IsCandidate, Fields, Conditions
    <3>3. IsText(c.title)
      BY <1>1 DEF IsCandidate
    <3>4. s \in Spellings
      BY <3>1 DEF InAnyPadding, Spellings
    <3>5. Trimmed(<<c.title[1], s>>) = Trimmed(c.title)
      BY <1>1, <3>1, <3>3, <3>4, TextsAlike
    <3> QED  BY <3>2, <3>5, SMTT(30) DEF Fields, Conditions
  <2>2. CASE d \in {[c EXCEPT !.code = <<c.code[1], s>>] : s \in IF Stated(c.code) THEN Spellings ELSE {}}
    <3>1. PICK s \in Spellings : d = [c EXCEPT !.code = <<c.code[1], s>>] /\ Stated(c.code)
      BY <2>2
    <3>2. d.code = <<c.code[1], s>> /\ \A f \in Fields \ {"code"} : d[f] = c[f]
      BY <1>1, <3>1 DEF IsCandidate, Fields, Conditions
    <3>3. IsText(c.code)
      BY <1>1 DEF IsCandidate
    <3>4. Word(d.code) = Word(c.code)
      BY <3>1, <3>2, <3>3, TextsAlike
    <3> QED  BY <3>2, <3>4 DEF Fields, Conditions
  <2>3. CASE d \in {[c EXCEPT !.method = <<c.method[1], s>>] : s \in InAnyCase(c.method)}
    <3>1. PICK s \in InAnyCase(c.method) : d = [c EXCEPT !.method = <<c.method[1], s>>]
      BY <2>3
    <3>2. d.method = <<c.method[1], s>> /\ \A f \in Fields \ {"method"} : d[f] = c[f]
      BY <1>1, <3>1 DEF IsCandidate, Fields, Conditions
    <3>3. IsText(c.method) /\ Stated(c.method)
      BY <1>1, <3>1 DEF IsCandidate, InAnyCase
    <3>4. s \in Spellings
      BY <3>1, <3>3 DEF InAnyCase, Spellings
    <3>5. Stated(d.method) /\ Lowered(d.method) = Lowered(c.method)
      BY <3>1, <3>2, <3>3, <3>4, TextsAlike
    <3>6. Lowered(OrEmpty(d.method)) = Lowered(OrEmpty(c.method))
      BY <3>3, <3>5 DEF OrEmpty, Otherwise
    <3> QED  BY <3>2, <3>6 DEF Fields, Conditions
  <2>4. CASE d \in {[c EXCEPT !.scope = [kind |-> @.kind, of |-> <<@.of[1], s>>]] :
                     s \in IF c.scope.kind = "Shop" THEN {} ELSE InAnyCase(c.scope.of)}
    <3>1. PICK s \in InAnyCase(c.scope.of) :
            /\ c.scope.kind # "Shop"
            /\ d = [c EXCEPT !.scope = [kind |-> c.scope.kind, of |-> <<c.scope.of[1], s>>]]
      BY <2>4
    <3>2. /\ d.scope = [kind |-> c.scope.kind, of |-> <<c.scope.of[1], s>>]
          /\ \A f \in Fields \ {"scope"} : d[f] = c[f]
      BY <1>1, <3>1 DEF IsCandidate, Fields, Conditions
    <3>3. IsText(c.scope.of) /\ Stated(c.scope.of) /\ c.scope = [kind |-> c.scope.kind, of |-> c.scope.of]
      BY <1>1, <3>1 DEF IsCandidate, IsScope, InAnyCase
    <3>4. s \in Spellings
      BY <3>1, <3>3 DEF InAnyCase, Spellings
    <3>5. d.scope.of = <<c.scope.of[1], s>>
      BY <3>2
    <3>6. Lowered(d.scope.of) = Lowered(c.scope.of)
      BY <3>1, <3>3, <3>4, <3>5, TextsAlike
    <3>7. Canonical(d.scope) = Canonical(c.scope)
      BY <3>1, <3>2, <3>3, <3>6 DEF Canonical
    <3> QED  BY <3>2, <3>7 DEF Fields, Conditions
  <2> QED  BY <2>1, <2>2, <2>3, <2>4 DEF Respelled
<1>3. Identity(d) = Identity(c)
  BY <1>2 DEF Identity, Fields, Conditions
<1>4. VersionHash(d) = VersionHash(c)
  BY <1>2 DEF VersionHash, Fields, Conditions
<1> QED  BY <1>3, <1>4

-----------------------------------------------------------------------------
(* accesstrade.rs, external_feed.rs, lifecycle.rs *)

\* A coupon that passes validation has what a claim needs.
LEMMA ValidCouponIsClaimable ==
  ASSUME NEW item
  PROVE  LET c == FromCoupon(item)
         IN Stated(c) /\ Issues(c) = {} =>
              /\ HasClaimIdentifiers(FromCandidate(c).terms)
              /\ ClaimIdentifier(FromCandidate(c).terms) = "Code"
              /\ Identity(c).basis = "ExternalId"
<1> DEFINE c == FromCoupon(item)
           code == NonEmpty(FirstCode(item.coupons))
           terms == FromCandidate(c).terms
<1> SUFFICES ASSUME Stated(c)
             PROVE  /\ HasClaimIdentifiers(terms)
                    /\ ClaimIdentifier(terms) = "Code"
                    /\ Identity(c).basis = "ExternalId"
  OBVIOUS
<1>1. Stated(code) /\ NonEmpty(code) = code
  BY DEF FromCoupon, NonEmpty, Stated, Word
<1>2. c.code = code /\ c.external = code /\ c.promotion = None /\ c.signature = None
  BY <1>1 DEF FromCoupon
<1>3. terms.code = code /\ terms.promotion = None /\ terms.signature = None
  BY <1>2 DEF FromCandidate, Conditions
<1>4. NonEmpty(None) = None
  BY DEF NonEmpty
<1>5. HasClaimIdentifiers(terms) /\ ClaimIdentifier(terms) = "Code"
  BY <1>1, <1>3, <1>4 DEF HasClaimIdentifiers, ClaimIdentifier, Stated
<1>6. Identity(c).basis = "ExternalId"
  BY <1>1, <1>2 DEF Identity
<1> QED  BY <1>5, <1>6

CouponAsked == question.about = "collected" /\ question.from = "coupon" => question.item \in CouponItems
FeedAsked   == question.about = "collected" /\ question.from # "coupon" =>
                 question.from = "feed" /\ question.item \in FeedItems

\* The forms in which a time is written again stand for the same time.
LEMMA FormsAlike ==
  ASSUME NEW t, Stated(ParseTime(t)) => t[2] \in Int /\ None \notin Forms(t),
         NEW s \in Forms(t)
  PROVE  ParseTime(s) = ParseTime(t)
<1>1. CASE ~Stated(ParseTime(t))
  <2>1. s \in {t, None, <<"garbled", 0>>}
    BY <1>1 DEF Forms
  <2>2. ParseTime(None) = None /\ ParseTime(<<"garbled", 0>>) = None
    BY DEF ParseTime, Stated
  <2> QED  BY <1>1, <2>1, <2>2 DEF Stated
<1>2. CASE Stated(ParseTime(t))
  <2> DEFINE p == ParseTime(t)
  <2>1. p \in Int
    <3>1. VietnamOffset \in Int
      BY IntakeAssumption DEF VietnamOffset
    <3> QED  BY <1>2, <3>1 DEF ParseTime, Stated
  <2>2. Stated(s) /\ s \in {<<"epoch", p>>, <<"offset", p>>, <<"local", p + VietnamOffset>>}
    BY <1>2, Zenon DEF Forms, Stated
  <2> HIDE DEF p
  <2>3. CASE s = <<"epoch", p>> \/ s = <<"offset", p>>
    <3>1. s[1] \in {"epoch", "offset"} /\ s[2] = p
      BY <2>3
    <3> QED  BY <2>2, <3>1 DEF ParseTime, p
  <2>4. CASE s = <<"local", p + VietnamOffset>>
    <3>1. s[1] = "local" /\ s[2] = p + VietnamOffset
      BY <2>4
    <3>2. ParseTime(s) = s[2] - VietnamOffset
      BY <2>2, <3>1 DEF ParseTime
    <3>3. VietnamOffset \in Int
      BY IntakeAssumption DEF VietnamOffset
    <3>4. ParseTime(s) = p
      BY <2>1, <3>1, <3>2, <3>3
    <3> QED  BY <3>4 DEF p
  <2> QED  BY <2>2, <2>3, <2>4
<1> QED  BY <1>1, <1>2

\* The shops and categories of a scope are lowered before anything reads them.
LEMMA ScopesAlike ==
  ASSUME NEW x, IsScope(x), Stated(x.of), NEW s \in InAnyCase(x.of)
  PROVE  ScopeFrom([x EXCEPT !.of = <<x.of[1], s>>]) = ScopeFrom(x)
<1> DEFINE y == [x EXCEPT !.of = <<x.of[1], s>>]
<1>1. s \in Spellings
  BY DEF InAnyCase, Spellings
<1>2. y.kind = x.kind /\ y.of = <<x.of[1], s>>
  BY DEF IsScope
<1>3. Lowered(<<x.of[1], s>>) = Lowered(x.of)
  BY <1>1, TextsAlike DEF IsScope
<1>4. Stated(x) /\ Stated(y)
  BY <1>1 DEF IsScope
<1> HIDE DEF y
<1> QED  BY <1>2, <1>3, <1>4 DEF ScopeFrom, y

\* However an item is written, the candidate is the same.
LEMMA WrittenAlike ==
  ASSUME CouponAsked, FeedAsked
  PROVE  WritingDoesNotMatter
<1> DEFINE item == question.item
           Read(i) == IF question.from = "coupon" THEN FromCoupon(i) ELSE FromFeed(i)
<1> SUFFICES ASSUME question.about = "collected", NEW other \in Rewritten(item, question.from)
             PROVE  Read(other) = Read(item)
  BY DEF WritingDoesNotMatter
<1>1. CASE question.from = "coupon"
  <2>1. /\ DOMAIN item = {"name", "coupons", "amount", "percent", "cap", "min", "start", "end"}
        /\ \A t \in {item.start, item.end} : Stated(ParseTime(t)) => t[2] \in Int /\ None \notin Forms(t)
    BY <1>1, IntakeAssumption DEF CouponAsked
  <2>2. PICK s \in Forms(item.start), e \in Forms(item.end) : other = WithTimes(item, s, e)
    <3> HIDE DEF item
    <3>1. Rewritten(item, question.from) = {WithTimes(item, s, e) : s \in Forms(item.start), e \in Forms(item.end)}
      BY <1>1 DEF Rewritten
    <3> QED  BY <3>1
  <2>3. /\ other.name = item.name /\ other.coupons = item.coupons /\ other.amount = item.amount
        /\ other.percent = item.percent /\ other.cap = item.cap /\ other.min = item.min
        /\ other.start = s /\ other.end = e
    BY <2>1, <2>2 DEF WithTimes
  <2>4. ParseTime(s) = ParseTime(item.start) /\ ParseTime(e) = ParseTime(item.end)
    BY <2>1, FormsAlike
  <2>5. FromCoupon(other) = FromCoupon(item)
    BY <2>3, <2>4 DEF FromCoupon
  <2> QED  BY <1>1, <2>5
<1>2. CASE question.from # "coupon"
  <2> DEFINE x == item.scope
  <2>1. /\ DOMAIN item = (Fields \ {"source", "key", "external"}) \union {"id"}
        /\ Stated(x) => IsScope(x)
    BY <1>2, IntakeAssumption DEF FeedAsked
  <2>2. PICK y \in ScopesAs(x) : other = [item EXCEPT !.scope = y]
    BY <1>2 DEF Rewritten
  <2>3. other.scope = y /\ \A f \in DOMAIN item \ {"scope"} : other[f] = item[f]
    BY <2>1, <2>2 DEF Fields, Conditions
  <2>4. ScopeFrom(y) = ScopeFrom(x)
    BY <2>1, <2>2, ScopesAlike DEF ScopesAs
  <2>5. FromFeed(other) = FromFeed(item)
    BY <2>1, <2>3, <2>4 DEF FromFeed, Fields, Conditions
  <2> QED  BY <1>2, <2>5
<1> QED  BY <1>1, <1>2

StageAsked ==
  question.about = "stage" => {question.voucher.start, question.voucher.end} \subseteq Int \union {None}

\* The stages of a voucher are in the order of its times.
LEMMA TimeGoesForward ==
  ASSUME StageAsked
  PROVE  StageMovesForward
<1> DEFINE v == question.voucher
           Order == [FirstSeen |-> 0, Upcoming |-> 1, Active |-> 2, Expired |-> 3]
<1> SUFFICES ASSUME question.about = "stage", v.status = "Open", NEW now \in Instants, NEW later \in Instants
             PROVE  /\ now <= later => Order[Stage(v, now)] <= Order[Stage(v, later)]
                    /\ Stage(v, now) = "Expired" <=> Stated(v.end) /\ v.end <= now
                    /\ IsUpcomingWithin(v, now, later) /\ (Stated(v.end) => v.start < v.end)
                         => Stage(v, now) = "Upcoming"
  BY DEF StageMovesForward
<1>1. now \in Int /\ later \in Int /\ (Stated(v.start) => v.start \in Int) /\ (Stated(v.end) => v.end \in Int)
  BY IntakeAssumption DEF StageAsked, Stated
<1>2. \A t : Stage(v, t) = IF Stated(v.end) /\ v.end <= t THEN "Expired"
                           ELSE IF Stated(v.start) THEN IF v.start > t THEN "Upcoming" ELSE "Active"
                           ELSE IF v.seenOnce THEN "FirstSeen" ELSE "Active"
  BY DEF Stage
<1>3. /\ Order["FirstSeen"] = 0 /\ Order["Upcoming"] = 1 /\ Order["Active"] = 2 /\ Order["Expired"] = 3
  OBVIOUS
<1> HIDE DEF v, Order
<1> QED  BY <1>1, <1>2, <1>3 DEF IsUpcomingWithin

-----------------------------------------------------------------------------
(* What is observed stays: the row and the merged view, induction over the   *)
(* observations                                                              *)

\* i is the latest observation of the row's identity, and the row holds it.
LatestIs(row, observed, i) ==
  /\ i \in DOMAIN observed
  /\ Holds(row, observed[i])
  /\ \A j \in DOMAIN observed : Identity(observed[j]) = row.identity => j <= i

IngestKept ==
  AboutIngest =>
    /\ Observed \in Seq(Valid)
    /\ \E i \in DOMAIN Observed : LatestIs(question.row, Observed, i)
    /\ IsMerged(question.merged)
    /\ \A i \in DOMAIN Observed : Covers(question.merged, Observed[i])

\* All that is asked about what was collected is what the lemmas are about.
ObservationsAsked == CouponAsked /\ FeedAsked /\ StageAsked /\ IngestKept

ObservedTopics == {"ingest", "collected", "stage"}

\* The row has the terms of the latest observation of its voucher.
LEMMA StoredAreLatest ==
  ASSUME IngestKept
  PROVE  StoredTermsAreTheLatest
<1> SUFFICES ASSUME AboutIngest
             PROVE  \E i \in DOMAIN Observed :
                      /\ Identity(Observed[i]) = question.row.identity
                      /\ \A j \in DOMAIN Observed : Identity(Observed[j]) = question.row.identity => j <= i
                      /\ Meaning(question.row.terms) = Meaning(TermsOf(Observed[i]))
  BY DEF StoredTermsAreTheLatest, TermsOf
<1>1. PICK i \in DOMAIN Observed : LatestIs(question.row, Observed, i)
  BY DEF IngestKept
<1> QED  BY <1>1 DEF LatestIs, Holds

\* A merged view lacks nothing, and what it covers does not change it.
LEMMA MergeIsStable ==
  ASSUME IngestKept
  PROVE  MergeIsLosslessAndStable
<1> SUFFICES ASSUME AboutIngest, NEW i \in DOMAIN Observed
             PROVE  LET c == Observed[i]
                    IN /\ \A f \in DOMAIN c : Stated(c[f]) => Stated(question.merged[f])
                       /\ c.scope.kind # "Unstated" => question.merged.scope.kind # "Unstated"
                       /\ Merge(question.merged, c) = question.merged
  BY DEF MergeIsLosslessAndStable
<1> DEFINE c == Observed[i]
<1>1. Observed \in Seq(Valid) /\ IsMerged(question.merged) /\ Covers(question.merged, c)
  BY DEF IngestKept
<1>2. c \in Valid
  BY <1>1
<1>3. DOMAIN c = Fields
  BY <1>2, ValidIsMerged DEF IsCandidate
<1> HIDE DEF c
<1>4. Merge(question.merged, c) = question.merged
  BY <1>1, <1>2, CoveredIsStable
<1> QED  BY <1>1, <1>3, <1>4 DEF Covers, c

\* An observation in another spelling is no new version.
LEMMA RespelledIsQuiet ==
  ASSUME IngestKept
  PROVE  RespellingIsQuiet
<1> SUFFICES ASSUME AboutIngest, NEW c \in ToSet(Observed), NEW d \in Respelled(c)
             PROVE  /\ Identity(d) = Identity(c)
                    /\ Upsert(FromCandidate(c), d).outcome = "Unchanged"
  BY DEF RespellingIsQuiet
<1>1. c \in Valid
  BY DEF IngestKept, ToSet
<1>2. Identity(d) = Identity(c) /\ VersionHash(d) = VersionHash(c)
  BY <1>1, RespelledAlike
<1>3. FromCandidate(c).version = VersionHash(d) /\ "outcome" \in DOMAIN FromCandidate(c)
  BY <1>2 DEF FromCandidate
<1>4. Upsert(FromCandidate(c), d) = [FromCandidate(c) EXCEPT !.outcome = "Unchanged"]
  BY <1>3 DEF Upsert
<1> QED  BY <1>2, <1>3, <1>4

\* The other steps ask about something else.
LEMMA OtherThanObserved ==
  ASSUME \/ AskScore \/ AskRelevance \/ AskPlan
         \/ AskCampaign \/ AskPace \/ AskBudget
         \/ AskCollection \/ AskReplay \/ AskResponse
         \/ AskSource \/ AskDiscovery \/ AskTimings
         \/ AskSend \/ AskMessage \/ AskAlerts \/ AskStart \/ AskDelay \/ AskControl \/ AskCommand
         \/ AskVoucherRow \/ AskAttemptRow \/ AskJobTable \/ AskRunTable
         \/ EvaluateAlerts \/ CallControl \/ TryConsume
  PROVE  question'.about \notin ObservedTopics
BY TopicOf DEF ObservedTopics

LEMMA ObservationsAskedFirst == Init => ObservationsAsked
BY DEF Init, ObservationsAsked, CouponAsked, FeedAsked, StageAsked, IngestKept, AboutIngest

\* One observation more: the row holds it if it is the row's, and the view
\* covers it and what it covered before.
LEMMA ObservedOnceMore ==
  ASSUME NEW observed \in Seq(Valid), NEW row, NEW m, NEW c \in Valid,
         NEW i \in DOMAIN observed, LatestIs(row, observed, i),
         IsMerged(m), \A j \in DOMAIN observed : Covers(m, observed[j])
  PROVE  LET observed1 == Append(observed, c)
             row1      == IF Identity(c) = row.identity THEN Upsert(row, c) ELSE row
             m1        == Merge(m, c)
         IN /\ observed1 \in Seq(Valid)
            /\ \E k \in DOMAIN observed1 : LatestIs(row1, observed1, k)
            /\ IsMerged(m1)
            /\ \A j \in DOMAIN observed1 : Covers(m1, observed1[j])
<1> DEFINE observed1 == Append(observed, c)
           row1      == IF Identity(c) = row.identity THEN Upsert(row, c) ELSE row
           m1        == Merge(m, c)
           n         == Len(observed)
<1>1. /\ n \in Nat /\ DOMAIN observed = 1..n /\ DOMAIN observed1 = 1..(n + 1)
      /\ observed1 \in Seq(Valid) /\ observed1[n + 1] = c
      /\ \A j \in 1..n : observed1[j] = observed[j]
  OBVIOUS
<1> HIDE DEF observed1, n
<1>2. \A j \in DOMAIN observed1 : j \in DOMAIN observed \/ j = n + 1
  BY <1>1
<1>3. \E k \in DOMAIN observed1 : LatestIs(row1, observed1, k)
  <2>1. CASE Identity(c) = row.identity
    <3>1. Holds(Upsert(row, c), c) /\ Upsert(row, c) = row1
      BY <2>1, UpsertHolds DEF LatestIs
    <3>2. LatestIs(row1, observed1, n + 1)
      BY <1>1, <3>1 DEF LatestIs
    <3> QED  BY <1>1, <3>2
  <2>2. CASE Identity(c) # row.identity
    <3>1. row1 = row
      BY <2>2
    <3> HIDE DEF row1
    <3>2. i \in DOMAIN observed1 /\ observed1[i] = observed[i]
      BY <1>1
    <3>3. ASSUME NEW j \in DOMAIN observed1, Identity(observed1[j]) = row.identity PROVE j <= i
      <4>1. j \in DOMAIN observed /\ observed1[j] = observed[j]
        BY <1>1, <1>2, <2>2, <3>3
      <4> QED  BY <3>3, <4>1 DEF LatestIs
    <3>4. LatestIs(row1, observed1, i)
      BY <3>1, <3>2, <3>3 DEF LatestIs
    <3> QED  BY <3>2, <3>4
  <2> QED  BY <2>1, <2>2
<1> HIDE DEF row1
<1>4. IsMerged(m1) /\ Covers(m1, c) /\ \A d : d.source \in DOMAIN Tiers /\ Covers(m, d) => Covers(m1, d)
  BY MergeCovers
<1>5. ASSUME NEW j \in DOMAIN observed1 PROVE Covers(m1, observed1[j])
  <2>1. CASE j \in DOMAIN observed
    <3>1. observed1[j] = observed[j] /\ observed[j] \in Valid /\ Covers(m, observed[j])
      BY <1>1, <2>1
    <3>2. observed[j].source \in DOMAIN Tiers
      BY <3>1, ValidIsMerged DEF IsCandidate
    <3> HIDE DEF m1
    <3> QED  BY <1>4, <3>1, <3>2
  <2>2. CASE j = n + 1
    BY <1>1, <1>4, <2>2
  <2> QED  BY <1>2, <2>1, <2>2
<1> HIDE DEF m1
<1> QED  BY <1>1, <1>3, <1>4, <1>5 DEF observed1, row1, m1

LEMMA ObservationsAskedNext == ObservationsAsked /\ [Next]_question => ObservationsAsked'
<1> SUFFICES ASSUME ObservationsAsked, [Next]_question
             PROVE  ObservationsAsked'
  OBVIOUS
<1> USE DEF ObservationsAsked, CouponAsked, FeedAsked, StageAsked, IngestKept, AboutIngest
<1>1. ASSUME question'.about \notin ObservedTopics PROVE ObservationsAsked'
  BY <1>1 DEF ObservedTopics
<1>2. CASE AskCollected
  <2>1. question'.about = "collected" /\ question'.from = "coupon" /\ question'.item \in CouponItems
    BY <1>2 DEF AskCollected
  <2> QED  BY <2>1
<1>3. CASE AskFed
  <2>1. question'.about = "collected" /\ question'.from = "feed" /\ question'.item \in FeedItems
    BY <1>3 DEF AskFed
  <2> QED  BY <2>1
<1>4. CASE AskStage
  <2>1. PICK v \in Lifetimes : question' = [about |-> "stage", voucher |-> v]
    BY <1>4 DEF AskStage
  <2>2. question'.about = "stage" /\ question'.voucher = v
    BY <2>1
  <2> QED  BY <2>2, IntakeAssumption
<1>5. ASSUME question'.about = "ingest",
             question'.observed \in Seq(Valid),
             \E i \in DOMAIN question'.observed : LatestIs(question'.row, question'.observed, i),
             IsMerged(question'.merged),
             \A i \in DOMAIN question'.observed : Covers(question'.merged, question'.observed[i])
      PROVE  ObservationsAsked'
  BY <1>5 DEF Observed
<1>6. CASE AskIngest
  <2>1. PICK c \in Valid :
          question' = [about |-> "ingest", observed |-> <<c>>, row |-> FromCandidate(c), merged |-> c]
    BY <1>6 DEF AskIngest
  <2>2. /\ question'.about = "ingest" /\ question'.observed = <<c>>
        /\ question'.row = FromCandidate(c) /\ question'.merged = c
    BY <2>1
  <2>3. IsMerged(c) /\ c.source \in DOMAIN Tiers /\ Tiers[c.source] \in Nat
    BY ValidIsMerged, IntakeAssumption DEF IsCandidate
  <2>4. Covers(c, c)
    BY <2>3 DEF Covers
  <2>5. LatestIs(FromCandidate(c), <<c>>, 1)
    BY CreatedHolds DEF LatestIs
  <2> QED  BY <1>5, <2>2, <2>3, <2>4, <2>5
<1>7. CASE Observe
  <2>1. PICK c \in Valid :
          question' = [about    |-> "ingest",
                       observed |-> Append(Observed, c),
                       row      |-> IF Identity(c) = question.row.identity THEN Upsert(question.row, c)
                                    ELSE question.row,
                       merged   |-> Merge(question.merged, c)]
    BY <1>7 DEF Observe, Observed
  <2>2. AboutIngest
    BY <1>7 DEF Observe
  <2>3. PICK i \in DOMAIN Observed : LatestIs(question.row, Observed, i)
    BY <2>2
  <2>4. /\ Observed \in Seq(Valid) /\ IsMerged(question.merged)
        /\ \A j \in DOMAIN Observed : Covers(question.merged, Observed[j])
    BY <2>2
  <2>5. /\ question'.about = "ingest"
        /\ question'.observed = Append(Observed, c)
        /\ question'.row = IF Identity(c) = question.row.identity THEN Upsert(question.row, c) ELSE question.row
        /\ question'.merged = Merge(question.merged, c)
    BY <2>1
  <2> DEFINE observed1 == Append(Observed, c)
             row1 == IF Identity(c) = question.row.identity THEN Upsert(question.row, c) ELSE question.row
             m1 == Merge(question.merged, c)
  <2>6. /\ observed1 \in Seq(Valid)
        /\ \E k \in DOMAIN observed1 : LatestIs(row1, observed1, k)
        /\ IsMerged(m1)
        /\ \A j \in DOMAIN observed1 : Covers(m1, observed1[j])
    BY <2>3, <2>4, ObservedOnceMore
  <2> HIDE DEF observed1, row1, m1
  <2>7. question'.observed = observed1 /\ question'.row = row1 /\ question'.merged = m1
    BY <2>5 DEF observed1, row1, m1
  <2> QED  BY <1>5, <2>5, <2>6, <2>7
<1>8. CASE UNCHANGED question
  BY <1>8 DEF Observed
<1> QED
  BY <1>1, <1>2, <1>3, <1>4, <1>6, <1>7, <1>8, OtherThanObserved DEF Next, Ask

\* What collectors read and the store keeps, however sources write it and
\* however often it is observed: coupons can be claimed, spellings make no
\* second voucher, rows hold the latest terms, the moments among them to the
\* second, merged views lose nothing, and time takes a voucher forward only
\* (accesstrade.rs, external_feed.rs, identity.rs, provenance.rs, lifecycle.rs,
\* storage's voucher.rs).
THEOREM ObservationsAreKept ==
  Spec => [](/\ CouponsAreClaimable /\ WritingDoesNotMatter /\ RespellingIsQuiet
             /\ StoredTermsAreTheLatest /\ MergeIsLosslessAndStable /\ StageMovesForward)
<1>1. Spec => []ObservationsAsked
  BY ObservationsAskedFirst, ObservationsAskedNext, PTL DEF Spec
<1>2. ObservationsAsked =>
        /\ CouponsAreClaimable /\ WritingDoesNotMatter /\ RespellingIsQuiet
        /\ StoredTermsAreTheLatest /\ MergeIsLosslessAndStable /\ StageMovesForward
  <2>1. CouponsAreClaimable
    BY ValidCouponIsClaimable DEF CouponsAreClaimable
  <2> QED
    BY <2>1, WrittenAlike, RespelledIsQuiet, StoredAreLatest, MergeIsStable, TimeGoesForward DEF ObservationsAsked
<1> QED  BY <1>1, <1>2, PTL

-----------------------------------------------------------------------------
(* accesstrade.rs, pipeline.rs: loops over a sequence.  What a recursive     *)
(* function computes is known once it exists; that it does, for a sequence   *)
(* of any length, follows from a least length for which it would not.        *)

ReadsTo(f, read, n) == f = [k \in 0..n |-> IF k = 0 THEN Failure(None, FALSE) ELSE ReadOne(f[k - 1], read[k])]

\* The reading of any number of items exists: the recursion is well founded.
LEMMA ReadingExists ==
  ASSUME NEW read, NEW n \in Nat
  PROVE  \E f : ReadsTo(f, read, n)
<1> DEFINE Without == {k \in Nat : ~\E f : ReadsTo(f, read, k)}
<1> SUFFICES ASSUME Without # {} PROVE FALSE
  OBVIOUS
<1>1. PICK m \in Without : \A k \in Without : m <= k
  BY LeastExists
<1>2. CASE m = 0
  <2>1. ReadsTo([k \in 0..0 |-> Failure(None, FALSE)], read, 0)
    BY DEF ReadsTo
  <2> QED  BY <1>2, <2>1
<1>3. CASE m # 0
  <2>1. m - 1 \in Nat /\ m - 1 \notin Without
    BY <1>1, <1>3
  <2>2. PICK f : ReadsTo(f, read, m - 1)
    BY <2>1
  <2> DEFINE g == [k \in 0..m |-> IF k = m THEN ReadOne(f[m - 1], read[m]) ELSE f[k]]
  <2>3. ASSUME NEW k \in 0..m PROVE g[k] = IF k = 0 THEN Failure(None, FALSE) ELSE ReadOne(g[k - 1], read[k])
    <3>1. CASE k = m
      <4>1. k - 1 \in 0..m /\ k - 1 # m /\ k # 0
        BY <1>3, <3>1
      <4>2. g[k - 1] = f[k - 1]
        BY <4>1
      <4>3. g[k] = ReadOne(f[k - 1], read[k])
        BY <3>1
      <4> QED  BY <4>1, <4>2, <4>3, Zenon
    <3>2. CASE k # m
      <4>1. k \in 0..(m - 1) /\ g[k] = f[k] /\ (k # 0 => k - 1 \in 0..m /\ k - 1 # m)
        BY <2>1, <3>2
      <4>2. k # 0 => g[k - 1] = f[k - 1]
        BY <4>1
      <4>3. f[k] = IF k = 0 THEN Failure(None, FALSE) ELSE ReadOne(f[k - 1], read[k])
        BY <2>2, <4>1, Zenon DEF ReadsTo
      <4> QED  BY <4>1, <4>2, <4>3, Zenon
    <3> QED  BY <3>1, <3>2
  <2>4. ReadsTo(g, read, m)
    BY <2>3 DEF ReadsTo
  <2> QED  BY <2>4
<1> QED  BY <1>2, <1>3

\* What is parsed is read item by item.
LEMMA ParsedIsRead ==
  ASSUME NEW read, Len(read) \in Nat
  PROVE  \E f : /\ Parsed(read) = f[Len(read)]
                /\ f[0] = Failure(None, FALSE)
                /\ \A k \in 1..Len(read) : f[k] = ReadOne(f[k - 1], read[k])
<1> DEFINE f == CHOOSE f : f = [k \in 0..Len(read) |->
                                  IF k = 0 THEN Failure(None, FALSE) ELSE ReadOne(f[k - 1], read[k])]
<1>1. \E h : h = [k \in 0..Len(read) |-> IF k = 0 THEN Failure(None, FALSE) ELSE ReadOne(h[k - 1], read[k])]
  BY ReadingExists DEF ReadsTo
<1>2. f = [k \in 0..Len(read) |-> IF k = 0 THEN Failure(None, FALSE) ELSE ReadOne(f[k - 1], read[k])]
  BY <1>1, Zenon
<1>3. Parsed(read) = f[Len(read)]
  BY Zenon DEF Parsed
<1> HIDE DEF f
<1>4. 0 \in 0..Len(read) /\ \A k \in 1..Len(read) : k \in 0..Len(read) /\ k # 0
  OBVIOUS
<1>5. f[0] = Failure(None, FALSE) /\ \A k \in 1..Len(read) : f[k] = ReadOne(f[k - 1], read[k])
  BY <1>2, <1>4, Zenon
<1> QED  BY <1>3, <1>5

IngestsTo(f, cs, upserts, n) ==
  f = [k \in 0..n |-> IF k = 0 THEN NothingIngested(upserts) ELSE IngestOne(f[k - 1], cs[k])]

\* So does the ingestion of any number of candidates.
LEMMA IngestionExists ==
  ASSUME NEW cs, NEW upserts, NEW n \in Nat
  PROVE  \E f : IngestsTo(f, cs, upserts, n)
<1> DEFINE Without == {k \in Nat : ~\E f : IngestsTo(f, cs, upserts, k)}
<1> SUFFICES ASSUME Without # {} PROVE FALSE
  OBVIOUS
<1>1. PICK m \in Without : \A k \in Without : m <= k
  BY LeastExists
<1>2. CASE m = 0
  <2>1. IngestsTo([k \in 0..0 |-> NothingIngested(upserts)], cs, upserts, 0)
    BY DEF IngestsTo
  <2> QED  BY <1>2, <2>1
<1>3. CASE m # 0
  <2>1. m - 1 \in Nat /\ m - 1 \notin Without
    BY <1>1, <1>3
  <2>2. PICK f : IngestsTo(f, cs, upserts, m - 1)
    BY <2>1
  <2> DEFINE g == [k \in 0..m |-> IF k = m THEN IngestOne(f[m - 1], cs[m]) ELSE f[k]]
  <2>3. ASSUME NEW k \in 0..m PROVE g[k] = IF k = 0 THEN NothingIngested(upserts) ELSE IngestOne(g[k - 1], cs[k])
    <3>1. CASE k = m
      <4>1. k - 1 \in 0..m /\ k - 1 # m /\ k # 0
        BY <1>3, <3>1
      <4>2. g[k - 1] = f[k - 1]
        BY <4>1
      <4>3. g[k] = IngestOne(f[k - 1], cs[k])
        BY <3>1
      <4> QED  BY <4>1, <4>2, <4>3, Zenon
    <3>2. CASE k # m
      <4>1. k \in 0..(m - 1) /\ g[k] = f[k] /\ (k # 0 => k - 1 \in 0..m /\ k - 1 # m)
        BY <2>1, <3>2
      <4>2. k # 0 => g[k - 1] = f[k - 1]
        BY <4>1
      <4>3. f[k] = IF k = 0 THEN NothingIngested(upserts) ELSE IngestOne(f[k - 1], cs[k])
        BY <2>2, <4>1, Zenon DEF IngestsTo
      <4> QED  BY <4>1, <4>2, <4>3, Zenon
    <3> QED  BY <3>1, <3>2
  <2>4. IngestsTo(g, cs, upserts, m)
    BY <2>3 DEF IngestsTo
  <2> QED  BY <2>4
<1> QED  BY <1>2, <1>3

\* What is ingested is the last of its steps.
LEMMA IngestIsRun ==
  ASSUME NEW cs, NEW upserts, Len(cs) \in Nat
  PROVE  \E f : IngestsTo(f, cs, upserts, Len(cs)) /\ Ingest(cs, upserts) = f[Len(cs)]
<1> DEFINE f == CHOOSE f : f = [n \in 0..Len(cs) |->
                                  IF n = 0 THEN NothingIngested(upserts) ELSE IngestOne(f[n - 1], cs[n])]
<1>1. \E h : h = [n \in 0..Len(cs) |-> IF n = 0 THEN NothingIngested(upserts) ELSE IngestOne(h[n - 1], cs[n])]
  <2>1. \E h : IngestsTo(h, cs, upserts, Len(cs))
    BY IngestionExists
  <2> QED  BY <2>1 DEF IngestsTo
<1>2. f = [n \in 0..Len(cs) |-> IF n = 0 THEN NothingIngested(upserts) ELSE IngestOne(f[n - 1], cs[n])]
  BY <1>1, Zenon
<1>3. Ingest(cs, upserts) = f[Len(cs)]
  BY Zenon DEF Ingest
<1> QED  BY <1>2, <1>3, Zenon DEF IngestsTo

\* Ingestion begins with nothing and takes one candidate after the other.
LEMMA IngestGrows ==
  ASSUME NEW upserts
  PROVE  /\ Ingest(<< >>, upserts) = NothingIngested(upserts)
         /\ \A S : \A cs \in Seq(S), c \in S :
              Ingest(Append(cs, c), upserts) = IngestOne(Ingest(cs, upserts), c)
<1>1. Ingest(<< >>, upserts) = NothingIngested(upserts)
  <2>1. PICK f : IngestsTo(f, << >>, upserts, 0) /\ Ingest(<< >>, upserts) = f[0]
    BY IngestIsRun
  <2> QED  BY <2>1 DEF IngestsTo
<1>2. ASSUME NEW S, NEW cs \in Seq(S), NEW c \in S
      PROVE  Ingest(Append(cs, c), upserts) = IngestOne(Ingest(cs, upserts), c)
  <2> DEFINE n   == Len(cs)
             cs1 == Append(cs, c)
  <2>1. n \in Nat /\ Len(cs1) = n + 1 /\ cs1[n + 1] = c /\ \A k \in 1..n : cs1[k] = cs[k]
    OBVIOUS
  <2> HIDE DEF n, cs1
  <2>2. PICK f : IngestsTo(f, cs, upserts, n) /\ Ingest(cs, upserts) = f[n]
    BY <2>1, IngestIsRun DEF n
  <2>3. PICK g : IngestsTo(g, cs1, upserts, n + 1) /\ Ingest(cs1, upserts) = g[n + 1]
    BY <2>1, IngestIsRun
  <2>4. f[0] = NothingIngested(upserts) /\ \A k \in 0..n : k # 0 => f[k] = IngestOne(f[k - 1], cs[k])
    <3>1. f = [k \in 0..n |-> IF k = 0 THEN NothingIngested(upserts) ELSE IngestOne(f[k - 1], cs[k])]
      BY <2>2 DEF IngestsTo
    <3>2. 0 \in 0..n
      BY <2>1
    <3> QED  BY <3>1, <3>2, Zenon
  <2>5. g[0] = NothingIngested(upserts) /\ \A k \in 0..(n + 1) : k # 0 => g[k] = IngestOne(g[k - 1], cs1[k])
    BY <2>1, <2>3 DEF IngestsTo
  <2> DEFINE Differ == {k \in 0..n : f[k] # g[k]}
  <2>6. Differ = {}
    <3> SUFFICES ASSUME Differ # {} PROVE FALSE
      OBVIOUS
    <3>1. PICK m \in Differ : \A k \in Differ : m <= k
      <4>1. Differ \subseteq Nat
        BY <2>1
      <4> HIDE DEF Differ
      <4> QED  BY <4>1, LeastExists
    <3>2. m \in 0..n /\ f[m] # g[m]
      BY <3>1
    <3>3. m # 0
      BY <2>4, <2>5, <3>2
    <3>4. m - 1 \in 0..n /\ m - 1 \notin Differ /\ m \in 1..n /\ m \in 0..(n + 1)
      BY <2>1, <3>1, <3>2, <3>3
    <3>5. f[m - 1] = g[m - 1] /\ cs1[m] = cs[m]
      BY <2>1, <3>4
    <3> HIDE DEF Differ
    <3> QED  BY <2>4, <2>5, <3>2, <3>3, <3>4, <3>5
  <2>7. n \in 0..n /\ n + 1 \in 0..(n + 1) /\ n + 1 # 0 /\ n + 1 - 1 = n
    BY <2>1
  <2>8. f[n] = g[n]
    BY <2>6, <2>7
  <2> HIDE DEF Differ
  <2>9. g[n + 1] = IngestOne(g[n], c)
    BY <2>1, <2>5, <2>7
  <2> QED  BY <2>2, <2>3, <2>8, <2>9 DEF cs1
<1> QED  BY <1>1, <1>2

\* The voucher that a source leaves when this is all it sends.
Alone(c) == IF Stated(c) /\ Issues(c) = {} THEN {Identity(c)} ELSE {}

IsIngesting(d) ==
  /\ DOMAIN d = {"rows", "new", "updated", "unchanged", "rejected", "left", "broken"}
  /\ d.new \in Nat /\ d.updated \in Nat /\ d.rejected \in Nat /\ d.broken = FALSE

\* One candidate more is rejected, or leaves its row and is counted at most once.
LEMMA IngestedOne ==
  ASSUME NEW d, IsIngesting(d), NEW c
  PROVE  LET e == IngestOne(d, c)
         IN /\ Issues(c) # {} =>
                 /\ IsIngesting(e) /\ e.rows = d.rows /\ e.left = d.left
                 /\ e.rejected = d.rejected + 1 /\ e.new = d.new /\ e.updated = d.updated
            /\ Issues(c) = {} /\ d.left # 0 =>
                 /\ IsIngesting(e) /\ DOMAIN e.rows = DOMAIN d.rows \union {Identity(c)} /\ e.left = d.left - 1
                 /\ e.rejected = d.rejected /\ e.new + e.updated <= d.new + d.updated + 1
<1> DEFINE e == IngestOne(d, c)
<1>1. CASE Issues(c) # {}
  <2>1. e = [d EXCEPT !.rejected = @ + 1]
    BY <1>1 DEF IngestOne, IsIngesting
  <2>2. IsIngesting(e)
    BY <2>1 DEF IsIngesting
  <2> QED  BY <1>1, <2>1, <2>2 DEF IsIngesting
<1>2. CASE Issues(c) = {} /\ d.left # 0
  <2> DEFINE id  == Identity(c)
             row == IF id \in DOMAIN d.rows THEN Upsert(d.rows[id], c) ELSE FromCandidate(c)
             one(outcome) == IF row.outcome = outcome THEN 1 ELSE 0
             rows == [x \in DOMAIN d.rows \union {id} |-> IF x = id THEN row ELSE d.rows[x]]
  <2>1. e = [d EXCEPT !.rows = rows, !.new = d["new"] + one("Created"), !.updated = d["updated"] + one("Updated"),
                      !.unchanged = d["unchanged"] + one("Unchanged"), !.left = d.left - 1]
    BY <1>2 DEF IngestOne, IsIngesting
  <2>2. DOMAIN rows = DOMAIN d.rows \union {id}
    OBVIOUS
  <2>3. one("Created") \in {0, 1} /\ one("Updated") \in {0, 1} /\ one("Created") + one("Updated") <= 1
    OBVIOUS
  <2> HIDE DEF e, id, row, one, rows
  <2>4. /\ e.rows = rows /\ e.new = d.new + one("Created") /\ e.updated = d.updated + one("Updated")
        /\ e.left = d.left - 1 /\ e.rejected = d.rejected /\ e.broken = FALSE /\ DOMAIN e = DOMAIN d
    BY <2>1 DEF IsIngesting
  <2>5. IsIngesting(e) /\ e.new + e.updated <= d.new + d.updated + 1
    BY <2>3, <2>4 DEF IsIngesting
  <2> QED  BY <1>2, <2>2, <2>4, <2>5 DEF e, id
<1> QED  BY <1>1, <1>2

\* Where ingestion begins.
LEMMA NothingIsIngesting ==
  ASSUME NEW upserts
  PROVE  LET d == NothingIngested(upserts)
         IN IsIngesting(d) /\ DOMAIN d.rows = {} /\ d.left = upserts /\ d.rejected = 0 /\ d.new + d.updated = 0
BY DEF NothingIngested, IsIngesting

\* What an item leaves that is all an answer has.
LEMMA ParsedAlone ==
  ASSUME NEW c
  PROVE  DOMAIN RunOnce(Parsed(<<c>>), 1, TRUE).rows = Alone(c)
<1> DEFINE read == <<c>>
           p == Parsed(read)
           d == Ingest(p.candidates, 1)
<1>1. 1 \in Nat /\ Len(read) = 1 /\ read[1] = c
  OBVIOUS
<1> HIDE DEF read
<1>2. PICK f : /\ p = f[Len(read)]
               /\ f[0] = Failure(None, FALSE)
               /\ \A k \in 1..Len(read) : f[k] = ReadOne(f[k - 1], read[k])
  BY <1>1, ParsedIsRead
<1>3. p = ReadOne(Failure(None, FALSE), c)
  <2>1. 1 \in 1..Len(read) /\ 1 - 1 = 0
    BY <1>1
  <2>2. f[1] = ReadOne(f[1 - 1], read[1])
    BY <1>2, <2>1, Zenon
  <2> HIDE DEF p
  <2> QED  BY <1>1, <1>2, <2>1, <2>2
<1> HIDE DEF p
<1>4. ~Stated(p.error) /\ p.candidates = IF Stated(c) THEN <<c>> ELSE << >>
  BY <1>3 DEF ReadOne, Failure, Stated
<1>5. RunOnce(p, 1, TRUE).rows = d.rows
  BY <1>4 DEF RunOnce
<1>6. DOMAIN d.rows = Alone(c)
  <2>1. CASE ~Stated(c)
    <3>1. d = NothingIngested(1)
      BY <1>4, <2>1, IngestGrows
    <3> HIDE DEF d
    <3> QED  BY <2>1, <3>1, NothingIsIngesting DEF Alone
  <2>2. CASE Stated(c)
    <3>1. << >> \in Seq({c}) /\ c \in {c} /\ Append(<< >>, c) = <<c>>
      OBVIOUS
    <3>2. Ingest(<<c>>, 1) = IngestOne(Ingest(<< >>, 1), c)
      BY <3>1, IngestGrows
    <3>3. d = IngestOne(NothingIngested(1), c)
      BY <1>4, <2>2, <3>2, IngestGrows
    <3>4. /\ IsIngesting(NothingIngested(1)) /\ DOMAIN NothingIngested(1).rows = {} /\ NothingIngested(1).left = 1
      BY NothingIsIngesting
    <3> DEFINE none == NothingIngested(1)
    <3> HIDE DEF d, none
    <3>5. IsIngesting(none) /\ DOMAIN none.rows = {} /\ none.left = 1 /\ d = IngestOne(none, c)
      BY <3>3, <3>4 DEF none
    <3>6. /\ Issues(c) # {} => d.rows = none.rows
          /\ Issues(c) = {} => DOMAIN d.rows = DOMAIN none.rows \union {Identity(c)}
      BY <3>5, IngestedOne
    <3> QED  BY <2>2, <3>5, <3>6 DEF Alone
  <2> QED  BY <2>1, <2>2
<1> HIDE DEF d
<1> QED  BY <1>5, <1>6 DEF p, read


\* The first items of an answer that leave no voucher.
Lost(read, k) == {i \in 1..k : Alone(read[i]) = {}}

Left(read, k) == UNION {Alone(read[i]) : i \in 1..k}

\* One more item is lost, or it is not.
LEMMA LostGrows ==
  ASSUME NEW read, NEW k \in Nat, k # 0
  PROVE  /\ Cardinality(Lost(read, k - 1)) \in 0..(k - 1)
         /\ Alone(read[k]) = {} => Cardinality(Lost(read, k)) = Cardinality(Lost(read, k - 1)) + 1
         /\ Alone(read[k]) # {} => Cardinality(Lost(read, k)) = Cardinality(Lost(read, k - 1))
         /\ Left(read, k) = Left(read, k - 1) \union Alone(read[k])
<1>1. 1..k = (1..(k - 1)) \union {k} /\ k \notin 1..(k - 1) /\ k - 1 \in Nat
  OBVIOUS
<1>2. IsFiniteSet(1..(k - 1)) /\ Cardinality(1..(k - 1)) = k - 1
  <2>1. k - 1 \in Int /\ 1 \in Int /\ (1 > k - 1 => k - 1 = 0)
    OBVIOUS
  <2> QED  BY <2>1, <1>1, FS_Interval
<1>3. Lost(read, k - 1) \subseteq 1..(k - 1) /\ k \notin Lost(read, k - 1)
  BY <1>1 DEF Lost
<1>4. IsFiniteSet(Lost(read, k - 1)) /\ Cardinality(Lost(read, k - 1)) <= k - 1
  BY <1>2, <1>3, FS_Subset
<1>5. Cardinality(Lost(read, k - 1)) \in Nat
  BY <1>4, FS_CardinalityType
<1>6. Alone(read[k]) = {} => Lost(read, k) = Lost(read, k - 1) \union {k}
  BY <1>1 DEF Lost
<1>7. Alone(read[k]) # {} => Lost(read, k) = Lost(read, k - 1)
  BY <1>1 DEF Lost
<1>8. Cardinality(Lost(read, k - 1) \union {k}) = Cardinality(Lost(read, k - 1)) + 1
  BY <1>3, <1>4, FS_AddElement
<1>9. Left(read, k) = Left(read, k - 1) \union Alone(read[k])
  BY <1>1 DEF Left
<1>10. Cardinality(Lost(read, k - 1)) \in 0..(k - 1)
  BY <1>4, <1>5
<1> QED  BY <1>6, <1>7, <1>8, <1>9, <1>10

\* What is collected of the first items, and what their ingestion leaves.
CollectedOf(p, read, k, upserts, S) ==
  /\ DOMAIN p = {"error", "echo", "candidates", "failures"}
  /\ p.error = None /\ p.candidates \in Seq(S) /\ p.failures \in Nat
  /\ LET d == Ingest(p.candidates, upserts)
     IN /\ IsIngesting(d)
        /\ DOMAIN d.rows = Left(read, k)
        /\ p.failures + d.rejected = Cardinality(Lost(read, k))
        /\ d.new + d.updated <= k - Cardinality(Lost(read, k))
        /\ d.left = upserts - (k - Cardinality(Lost(read, k)))

\* The arithmetic of one item more: it is lost, or written.
LEMMA CountsKeepUp ==
  ASSUME NEW k \in Int, NEW upserts \in Int, NEW was \in Int, NEW now \in Int,
         NEW wrote \in Int, NEW writes \in Int, NEW lost \in Int, NEW loses \in Int, NEW left \in Int, NEW leaves \in Int,
         lost = was, wrote <= (k - 1) - was, left = upserts - ((k - 1) - was),
         \/ now = was + 1 /\ loses = lost + 1 /\ writes = wrote /\ leaves = left
         \/ now = was /\ loses = lost /\ writes <= wrote + 1 /\ leaves = left - 1
  PROVE  loses = now /\ leaves = upserts - (k - now) /\ writes <= k - now
OBVIOUS

\* One item more keeps what is said of the items before it.
LEMMA OneMoreCollected ==
  ASSUME NEW S, NEW read \in Seq(S), NEW upserts \in Nat, Len(read) <= upserts,
         NEW k \in 1..Len(read), NEW p, CollectedOf(p, read, k - 1, upserts, S)
  PROVE  CollectedOf(ReadOne(p, read[k]), read, k, upserts, S)
<1> DEFINE c == read[k]
           q == ReadOne(p, c)
           d == Ingest(p.candidates, upserts)
           e == Ingest(q.candidates, upserts)
           was == Cardinality(Lost(read, k - 1))
           now == Cardinality(Lost(read, k))
<1>1. c \in S /\ k \in Nat /\ k # 0 /\ k <= upserts
  BY ElementOfSeq
<1>2. /\ was \in 0..(k - 1) /\ (Alone(c) = {} => now = was + 1) /\ (Alone(c) # {} => now = was)
      /\ Left(read, k) = Left(read, k - 1) \union Alone(c)
  BY <1>1, LostGrows
<1>3. /\ DOMAIN p = {"error", "echo", "candidates", "failures"}
      /\ p.error = None /\ p.candidates \in Seq(S) /\ p.failures \in Nat
      /\ IsIngesting(d)
      /\ DOMAIN d.rows = Left(read, k - 1)
      /\ p.failures + d.rejected = was
      /\ d.new + d.updated <= (k - 1) - was
      /\ d.left = upserts - ((k - 1) - was)
  BY DEF CollectedOf
<1>4. SUFFICES /\ DOMAIN q = {"error", "echo", "candidates", "failures"}
               /\ q.error = None /\ q.candidates \in Seq(S) /\ q.failures \in Nat
               /\ IsIngesting(e)
               /\ DOMAIN e.rows = Left(read, k)
               /\ q.failures + e.rejected = now
               /\ e.new + e.updated <= k - now
               /\ e.left = upserts - (k - now)
  BY DEF CollectedOf
<1>5. d.rejected \in Nat /\ d.new \in Nat /\ d.updated \in Nat
  <2> HIDE DEF q, e, d, was, now, c
  <2> QED  BY <1>3 DEF IsIngesting
<1> DEFINE lost == p.failures + d.rejected
           wrote == d.new + d.updated
<1>5a. lost \in Int /\ wrote \in Int /\ was \in Int /\ lost = was /\ wrote <= (k - 1) - was
  <2> HIDE DEF q, d, e, was, now, c
  <2>1. lost \in Int /\ wrote \in Int
    <3>1. p.failures \in Int
      BY <1>3
    <3> QED  BY <1>5, <3>1
  <2>2. was \in Int
    <3>1. was \in 0..(k - 1)
      BY <1>2
    <3> HIDE DEF lost, wrote
    <3> QED  BY <3>1
  <2>3. lost = was /\ wrote <= (k - 1) - was
    BY <1>3
  <2> QED  BY <2>1, <2>2, <2>3
<1>5b. d.left = upserts - ((k - 1) - was) /\ d.left \in Int /\ k \in Int /\ upserts \in Int
  <2> HIDE DEF q, d, e, was, now, c, lost, wrote
  <2>1. k \in Int /\ upserts \in Int
    BY <1>1
  <2>2. d.left = upserts - ((k - 1) - was)
    BY <1>3
  <2> QED  BY <1>5a, <2>1, <2>2
<1>6. CASE ~Stated(c)
  <2>1. /\ DOMAIN q = {"error", "echo", "candidates", "failures"}
        /\ q.error = None /\ q.candidates = p.candidates /\ q.failures = p.failures + 1
    BY <1>3, <1>6 DEF ReadOne
  <2>2. Alone(c) = {} /\ e = d
    BY <1>6, <2>1 DEF Alone
  <2> HIDE DEF q, d, e, was, now, c
  <2>3. q.failures + e.rejected = now /\ e.left = upserts - (k - now) /\ e.new + e.updated <= k - now
    <3> DEFINE loses == q.failures + e.rejected
               writes == e.new + e.updated
    <3>1. now = was + 1 /\ loses = lost + 1 /\ writes = wrote /\ e.left = d.left
      <4>1. now = was + 1
        BY <1>2, <2>2
      <4>2. loses = lost + 1
        <5>1. q.failures = p.failures + 1 /\ e.rejected = d.rejected /\ p.failures \in Nat
          BY <1>3, <2>1, <2>2
        <5> QED  BY <1>5, <5>1
      <4>3. writes = wrote /\ e.left = d.left
        BY <2>2
      <4> QED  BY <4>1, <4>2, <4>3
    <3> HIDE DEF lost, loses, wrote, writes
    <3>2. loses = now /\ e.left = upserts - (k - now) /\ writes <= k - now
      BY <1>5a, <1>5b, <3>1, CountsKeepUp
    <3> QED  BY <3>2 DEF loses, writes
  <2>4. q.candidates \in Seq(S) /\ q.failures \in Nat /\ DOMAIN e.rows = Left(read, k)
    BY <1>2, <1>3, <2>1, <2>2
  <2> QED  BY <1>3, <2>1, <2>2, <2>3, <2>4
<1>7. CASE Stated(c)
  <2>1. /\ DOMAIN q = {"error", "echo", "candidates", "failures"}
        /\ q.error = None /\ q.candidates = Append(p.candidates, c) /\ q.failures = p.failures
    BY <1>3, <1>7 DEF ReadOne
  <2>2. q.candidates \in Seq(S)
    BY <1>1, <1>3, <2>1
  <2>3. e = IngestOne(d, c)
    <3>1. Ingest(Append(p.candidates, c), upserts) = IngestOne(Ingest(p.candidates, upserts), c)
      BY <1>1, <1>3, IngestGrows, Zenon
    <3> HIDE DEF q, c
    <3> QED  BY <2>1, <3>1
  <2> HIDE DEF q, d, e, was, now, c
  <2>4. /\ Issues(c) # {} =>
             /\ IsIngesting(e) /\ e.rows = d.rows /\ e.left = d.left
             /\ e.rejected = d.rejected + 1 /\ e.new = d.new /\ e.updated = d.updated
        /\ Issues(c) = {} /\ d.left # 0 =>
             /\ IsIngesting(e) /\ DOMAIN e.rows = DOMAIN d.rows \union {Identity(c)} /\ e.left = d.left - 1
             /\ e.rejected = d.rejected /\ e.new + e.updated <= d.new + d.updated + 1
    BY <1>3, <2>3, IngestedOne
  <2>5. CASE Issues(c) # {}
    <3>1. Alone(c) = {}
      BY <2>5 DEF Alone
    <3>2. q.failures + e.rejected = now /\ e.left = upserts - (k - now) /\ e.new + e.updated <= k - now
      <4> DEFINE loses == q.failures + e.rejected
                 writes == e.new + e.updated
      <4>1. now = was + 1 /\ loses = lost + 1 /\ writes = wrote /\ e.left = d.left
        <5>1. now = was + 1
          BY <1>2, <3>1
        <5>2. e.rejected = d.rejected + 1 /\ e.new = d.new /\ e.updated = d.updated /\ e.left = d.left
          BY <2>4, <2>5
        <5>3. q.failures = p.failures /\ p.failures \in Int /\ d.rejected \in Int
          BY <1>3, <1>5, <2>1
        <5>4. loses = lost + 1
          BY <5>2, <5>3
        <5> QED  BY <5>1, <5>2, <5>4
      <4> HIDE DEF lost, loses, wrote, writes
      <4>2. loses = now /\ e.left = upserts - (k - now) /\ writes <= k - now
        BY <1>5a, <1>5b, <4>1, CountsKeepUp
      <4> QED  BY <4>2 DEF loses, writes
    <3>3. DOMAIN e.rows = Left(read, k)
      BY <1>2, <1>3, <2>4, <2>5, <3>1
    <3> QED  BY <1>3, <2>1, <2>2, <2>4, <2>5, <3>2, <3>3
  <2>6. CASE Issues(c) = {}
    <3>1. Alone(c) = {Identity(c)}
      BY <1>7, <2>6 DEF Alone
    <3>2. d.left # 0
      <4>1. k \in Nat /\ k <= upserts /\ upserts \in Nat /\ was \in Nat
        BY <1>1, <1>2
      <4> QED  BY <1>5b, <4>1
    <3>3. e.new \in Nat /\ e.updated \in Nat
      BY <2>4, <2>6, <3>2 DEF IsIngesting
    <3>4. q.failures + e.rejected = now /\ e.left = upserts - (k - now) /\ e.new + e.updated <= k - now
      <4> DEFINE loses == q.failures + e.rejected
                 writes == e.new + e.updated
      <4>1. now = was /\ loses = lost /\ writes <= wrote + 1 /\ e.left = d.left - 1 /\ writes \in Int
        <5>1. now = was
          BY <1>2, <3>1
        <5>2. loses = lost
          BY <2>1, <2>4, <2>6, <3>2
        <5>3. writes <= wrote + 1 /\ e.left = d.left - 1 /\ writes \in Int
          BY <2>4, <2>6, <3>2, <3>3
        <5> QED  BY <5>1, <5>2, <5>3
      <4> HIDE DEF lost, loses, wrote, writes
      <4>2. loses = now /\ e.left = upserts - (k - now) /\ writes <= k - now
        BY <1>5a, <1>5b, <4>1, CountsKeepUp
      <4> QED  BY <4>2 DEF loses, writes
    <3>5. DOMAIN e.rows = Left(read, k)
      BY <1>2, <1>3, <2>4, <2>6, <3>1, <3>2
    <3> QED  BY <1>3, <2>1, <2>2, <2>4, <2>6, <3>2, <3>4, <3>5
  <2> QED  BY <2>5, <2>6
<1> QED  BY <1>6, <1>7

\* Every item of an answer is kept or counted as lost, one by one.
LEMMA AllCollected ==
  ASSUME NEW S, NEW read \in Seq(S), NEW upserts \in Nat, Len(read) <= upserts
  PROVE  CollectedOf(Parsed(read), read, Len(read), upserts, S)
<1> DEFINE n == Len(read)
<1>1. n \in Nat
  OBVIOUS
<1>2. PICK f : /\ Parsed(read) = f[Len(read)]
               /\ f[0] = Failure(None, FALSE)
               /\ \A k \in 1..Len(read) : f[k] = ReadOne(f[k - 1], read[k])
  BY <1>1, ParsedIsRead
<1> DEFINE Broken == {k \in 0..n : ~CollectedOf(f[k], read, k, upserts, S)}
<1>3. SUFFICES ASSUME Broken # {} PROVE FALSE
  BY <1>1, <1>2
<1>4. PICK m \in Broken : \A k \in Broken : m <= k
  <2>1. Broken \subseteq Nat
    BY <1>1
  <2> HIDE DEF Broken
  <2> QED  BY <1>3, <2>1, LeastExists
<1>5. m \in 0..n /\ ~CollectedOf(f[m], read, m, upserts, S)
  BY <1>4
<1>6. CASE m = 0
  <2>1. Lost(read, 0) = {} /\ Left(read, 0) = {}
    BY DEF Lost, Left
  <2>2. Cardinality(Lost(read, 0)) = 0
    BY <2>1, FS_EmptySet
  <2> DEFINE none == Failure(None, FALSE)
             d    == Ingest(none.candidates, upserts)
  <2>3. /\ DOMAIN none = {"error", "echo", "candidates", "failures"}
        /\ none.error = None /\ none.candidates = << >> /\ none.failures = 0
    BY DEF Failure
  <2>4. d = NothingIngested(upserts)
    BY <2>3, IngestGrows
  <2>5. IsIngesting(d) /\ DOMAIN d.rows = {} /\ d.left = upserts /\ d.rejected = 0 /\ d.new + d.updated = 0
    BY <2>4, NothingIsIngesting
  <2> HIDE DEF none
  <2>6. CollectedOf(none, read, 0, upserts, S)
    <3>1. << >> \in Seq(S)
      OBVIOUS
    <3> HIDE DEF d
    <3>2. d.left = upserts - (0 - 0) /\ d.new + d.updated <= 0 - 0 /\ none.failures + d.rejected = 0
      BY <2>3, <2>5
    <3>3. none.candidates \in Seq(S) /\ none.failures \in Nat
      BY <2>3, <3>1
    <3>4. /\ DOMAIN none = {"error", "echo", "candidates", "failures"}
          /\ none.error = None /\ none.candidates \in Seq(S) /\ none.failures \in Nat
          /\ IsIngesting(d)
          /\ DOMAIN d.rows = Left(read, 0)
          /\ none.failures + d.rejected = Cardinality(Lost(read, 0))
          /\ d.new + d.updated <= 0 - Cardinality(Lost(read, 0))
          /\ d.left = upserts - (0 - Cardinality(Lost(read, 0)))
      BY <2>1, <2>2, <2>3, <2>5, <3>2, <3>3
    <3> QED  BY <3>4, Zenon DEF CollectedOf, d
  <2> QED  BY <1>2, <1>5, <1>6, <2>6 DEF none
<1>7. CASE m # 0
  <2>1. m \in 1..Len(read) /\ m - 1 \in 0..n /\ m - 1 \notin Broken
    BY <1>1, <1>4, <1>5, <1>7
  <2>2. CollectedOf(f[m - 1], read, m - 1, upserts, S)
    BY <2>1
  <2> HIDE DEF Broken
  <2>3. f[m] = ReadOne(f[m - 1], read[m])
    BY <1>2, <2>1, Zenon
  <2>4. CollectedOf(ReadOne(f[m - 1], read[m]), read, m, upserts, S)
    BY <2>1, <2>2, OneMoreCollected
  <2> QED  BY <1>5, <2>3, <2>4
<1> QED  BY <1>6, <1>7

\* The run that is recorded, and the rows and the health that are left.
LEMMA AllCollectedIsIn ==
  ASSUME NEW S, NEW read \in Seq(S), NEW upserts \in Nat, Len(read) <= upserts, NEW recorded,
         NEW items, DOMAIN items = 1..Len(read), Len(items) = Len(read)
  PROVE  AllIn(items, [i \in DOMAIN items |-> Alone(read[i])], RunOnce(Parsed(read), upserts, recorded))
<1> DEFINE n     == Len(read)
           p     == Parsed(read)
           d     == Ingest(p.candidates, upserts)
           run   == FinishedRun(p, d)
           done  == RunOnce(p, upserts, recorded)
           alone == [i \in DOMAIN items |-> Alone(read[i])]
           lost  == Lost(read, n)
<1>1. n \in Nat
  OBVIOUS
<1>2. CollectedOf(p, read, n, upserts, S)
  BY AllCollected
<1> HIDE DEF p, n
<1>3. /\ p.error = None /\ p.failures \in Nat
      /\ IsIngesting(d)
      /\ DOMAIN d.rows = Left(read, n)
      /\ p.failures + d.rejected = Cardinality(lost)
      /\ d.new + d.updated <= n - Cardinality(lost)
  BY <1>2 DEF CollectedOf
<1>4. /\ done.run = (IF recorded THEN run ELSE None) /\ done.rows = d.rows
      /\ done.health = IF run.outcome = "PARTIAL" THEN "Degraded" ELSE "Healthy"
  <2>1. ~Stated(p.error) /\ ~d.broken
    BY <1>3 DEF Stated, IsIngesting
  <2> HIDE DEF run, d
  <2> QED  BY <2>1 DEF RunOnce, run, d
<1>5. lost = {i \in DOMAIN items : alone[i] = {}}
  BY DEF Lost, n
<1>6. UNION Range(alone) = Left(read, n)
  <2>1. Range(alone) = {Alone(read[i]) : i \in 1..n}
    BY DEF Range, n
  <2> QED  BY <2>1 DEF Left
<1>7. lost = {} <=> Cardinality(lost) = 0
  <2>1. IsFiniteSet(1..n)
    BY <1>1, FS_Interval
  <2>2. lost \subseteq 1..n
    BY DEF Lost
  <2> QED  BY <2>1, <2>2, FS_Subset, FS_EmptySet
<1> HIDE DEF d
<1>8. /\ run.errors = p.failures + d.rejected /\ run.new = d.new /\ run.updated = d.updated
      /\ run.outcome = IF p.failures + d.rejected > 0 THEN "PARTIAL" ELSE "SUCCESS"
  BY DEF FinishedRun
<1>9. Cardinality(lost) \in Nat
  BY <1>3 DEF IsIngesting
<1> HIDE DEF run, lost, done, alone
<1>10. /\ Stated(done.run) => done.run = run
       /\ done.rows = d.rows
       /\ done.health = IF run.outcome = "PARTIAL" THEN "Degraded" ELSE "Healthy"
  BY <1>4 DEF Stated
<1>11. /\ DOMAIN done.rows = UNION Range(alone)
       /\ Stated(done.run) =>
            /\ done.run.errors = Cardinality(lost)
            /\ done.run.new + done.run.updated <= Len(items) - Cardinality(lost)
  BY <1>3, <1>6, <1>8, <1>10 DEF n
<1>12. /\ Stated(done.run) => (done.run.outcome = "SUCCESS" <=> lost = {})
       /\ done.health = "Healthy" <=> lost = {}
  BY <1>3, <1>7, <1>8, <1>9, <1>10
<1>13. AllIn(items, alone, done)
  BY <1>5, <1>11, <1>12 DEF AllIn
<1> QED  BY <1>13 DEF alone, done, p

\* An answer without an error is parsed, whatever is in it.
LEMMA FetchedIsParsed ==
  ASSUME NEW answer, NEW refused \in {"AuthRequired", "Malformed"}, NEW typed \in BOOLEAN, NEW read,
         ~Stated(Fetched(answer, refused, typed, read).error)
  PROVE  typed /\ \A r : Fetched(answer, refused, TRUE, r) = Parsed(r)
<1>1. \A kind \in {"Timeout", "Transient", "RateLimited", "AuthRequired", "Malformed", "Config"} :
        \A echo : Stated(Failure(kind, echo).error)
  BY CollectingAssumption DEF Failure, Stated
<1>2. Stated(Failure(refused, FALSE).error)
  BY <1>1
<1> DEFINE g1 == answer.sent = "timeout"
           g2 == answer.sent = "unreachable"
           g3 == answer.status = 429
           g4 == answer.status \in {401, 403}
           g5 == answer.status >= 500
           g6 == answer.status \notin 200..299
           g7 == answer.body = "cut"
           g8 == answer.body = "garbled"
<1>3. ASSUME NEW r, NEW b
      PROVE  Fetched(answer, refused, b, r) =
               IF g1 THEN Failure("Timeout", FALSE)
               ELSE IF g2 THEN Failure("Transient", answer.echo)
               ELSE IF g3 THEN Failure("RateLimited", TRUE)
               ELSE IF g4 THEN Failure(refused, FALSE)
               ELSE IF g5 THEN Failure("Transient", FALSE)
               ELSE IF g6 THEN Failure("Malformed", FALSE)
               ELSE IF g7 THEN Failure("Transient", answer.echo)
               ELSE IF g8 \/ ~b THEN Failure("Malformed", answer.echo)
               ELSE Parsed(r)
  BY Zenon DEF Fetched
<1> HIDE DEF g1, g2, g3, g4, g5, g6, g7, g8
<1>4. /\ Stated(Failure("Timeout", FALSE).error) /\ Stated(Failure("Transient", answer.echo).error)
      /\ Stated(Failure("RateLimited", TRUE).error) /\ Stated(Failure("Transient", FALSE).error)
      /\ Stated(Failure("Malformed", FALSE).error) /\ Stated(Failure("Malformed", answer.echo).error)
  BY <1>1
<1>5. ~g1 /\ ~g2 /\ ~g3 /\ ~g4 /\ ~g5 /\ ~g6 /\ ~g7 /\ ~g8 /\ typed
  BY <1>2, <1>3, <1>4, Zenon
<1> QED  BY <1>3, <1>5, Zenon

CollectionAsked ==
  question.about = "collection" =>
    \E answer \in Answers, batch \in Batches, token \in Tokens, upserts \in 0..MaxUpserts, recorded \in BOOLEAN :
      question = [about |-> "collection", answer |-> answer, batch |-> batch, token |-> token, upserts |-> upserts,
                  recorded |-> recorded]

\* The items of an answer that was read are kept.
LEMMA ReadItemsAreKept ==
  ASSUME CollectionAsked, AboutCollection, Enough, ~Stated(Collection.error)
  PROVE  LET items == question.batch.items
         IN AllIn(items, [i \in DOMAIN items |-> DOMAIN RunOnce(CollectionOf(<<items[i]>>), 1, TRUE).rows], Done)
<1> DEFINE items == question.batch.items
<1> SUFFICES AllIn(items, [i \in DOMAIN items |-> DOMAIN RunOnce(CollectionOf(<<items[i]>>), 1, TRUE).rows], Done)
  OBVIOUS
<1>1. question.batch \in Batches /\ question.upserts \in 0..MaxUpserts
  BY DEF CollectionAsked, AboutCollection
<1>2. items \in Seq(Range(items)) /\ MaxUpserts \in Nat
  BY <1>1, CollectingAssumption
<1>3. question.upserts \in Nat /\ Len(items) <= question.upserts
  BY <1>1, <1>2 DEF Enough
<1>4. DOMAIN items = 1..Len(items) /\ Len(items) \in Nat
  BY <1>2
<1> HIDE DEF items
<1> DEFINE From(x)  == IF question.batch.from = "coupon" THEN FromCoupon(x) ELSE FromFeed(x)
           refused  == IF question.batch.from = "coupon" THEN "AuthRequired" ELSE "Malformed"
           read     == [i \in DOMAIN items |-> From(items[i])]
<1>5. refused \in {"AuthRequired", "Malformed"}
  OBVIOUS
<1>6. \A xs : CollectionOf(xs) = Fetched(question.answer, refused, Typed(xs), [i \in DOMAIN xs |-> From(xs[i])])
  <2>1. CASE question.batch.from = "coupon"
    <3>1. \A xs : CollectionOf(xs) = CollectCoupons(question.token, question.answer, xs)
      BY <2>1 DEF CollectionOf
    <3>2. Stated(Failure("Config", FALSE).error)
      BY CollectingAssumption DEF Failure, Stated
    <3>3. Stated(question.token)
      BY <3>1, <3>2 DEF Collection, CollectCoupons
    <3> QED  BY <2>1, <3>1, <3>3 DEF CollectCoupons
  <2>2. CASE question.batch.from # "coupon"
    BY <2>2 DEF CollectionOf, CollectFeed
  <2> QED  BY <2>1, <2>2
<1> HIDE DEF From, refused
<1>7. Collection = Fetched(question.answer, refused, Typed(items), read)
  BY <1>6 DEF Collection, items
<1>8. Typed(items) /\ \A r : Fetched(question.answer, refused, TRUE, r) = Parsed(r)
  <2>1. Typed(items) \in BOOLEAN
    BY DEF Typed
  <2> HIDE DEF read
  <2> QED  BY <1>5, <1>7, <2>1, FetchedIsParsed
<1>9. read \in Seq({From(items[i]) : i \in DOMAIN items}) /\ Len(read) = Len(items)
  BY <1>4
<1>10. \A i \in DOMAIN items : read[i] = From(items[i])
  OBVIOUS
<1>11. ASSUME NEW i \in DOMAIN items
      PROVE  DOMAIN RunOnce(CollectionOf(<<items[i]>>), 1, TRUE).rows = Alone(read[i])
  <2> DEFINE one == [j \in DOMAIN <<items[i]>> |-> From(<<items[i]>>[j])]
  <2>1. one = <<From(items[i])>>
    OBVIOUS
  <2>2. Typed(<<items[i]>>) = TRUE
    BY <1>8 DEF Typed, Range
  <2>3. CollectionOf(<<items[i]>>) = Fetched(question.answer, refused, TRUE, one)
    BY <1>6, <2>2
  <2>4. CollectionOf(<<items[i]>>) = Parsed(<<From(items[i])>>)
    BY <1>8, <2>1, <2>3, Zenon
  <2> QED  BY <1>10, <2>4, ParsedAlone
<1>12. [i \in DOMAIN items |-> DOMAIN RunOnce(CollectionOf(<<items[i]>>), 1, TRUE).rows] = [i \in DOMAIN items |-> Alone(read[i])]
  BY <1>11
<1>13. Done = RunOnce(Parsed(read), question.upserts, question.recorded)
  <2>1. Typed(items) = TRUE
    BY <1>8 DEF Typed
  <2> QED  BY <1>7, <1>8, <2>1 DEF Done
<1> HIDE DEF read
<1>14. AllIn(items, [i \in DOMAIN items |-> Alone(read[i])], RunOnce(Parsed(read), question.upserts, question.recorded))
  BY <1>3, <1>4, <1>9, AllCollectedIsIn
<1> QED  BY <1>12, <1>13, <1>14

\* The files are read by name: the listing is a set.
LEMMA ReplayInAnyOrder == ReplayIsDeterministic
<1> SUFFICES ASSUME NEW files, NEW l, NEW m, ToSet(l) = ToSet(m)
             PROVE  LoadDir(files, l) = LoadDir(files, m)
  BY DEF ReplayIsDeterministic
<1> QED  BY DEF LoadDir

-----------------------------------------------------------------------------
(* Rows.                                                                    *)

\* The digits of a moment that its text has room for.
LEMMA MomentsReadBack ==
  ASSUME NEW t \in Int
  PROVE  /\ StrToTs(TsToStr(t)) = t - (t % 10)
         /\ Cut(t) = t - (t % 10)
<1> DEFINE text == TsToStr(t)
<1>1. /\ Len(text) = 5 /\ text[1] = t \div 1000 /\ text[3] = (t \div 100) % 10 /\ text[4] = (t \div 10) % 10
  BY DEF TsToStr
<1> HIDE DEF text
<1>2. StrToTs(text) = 1000 * text[1] + 100 * text[3] + 10 * text[4]
  BY <1>1 DEF StrToTs
<1>3. 1000 * (t \div 1000) + 100 * ((t \div 100) % 10) + 10 * ((t \div 10) % 10) = t - (t % 10)
  OBVIOUS
<1>4. Cut(t) = t - (t % 10)
  BY NoneAssumption DEF Cut, Stated
<1> QED  BY <1>1, <1>2, <1>3, <1>4 DEF text

\* The words of the enumerations are read as what they were written for.
LEMMA BasesReadBack ==
  \A x \in DOMAIN IdentityBasisAsStr :
    IdentityBasisAsStr[x] \in DOMAIN IdentityBasisParse /\ IdentityBasisParse[IdentityBasisAsStr[x]] = x
BY DEF IdentityBasisAsStr, IdentityBasisParse

LEMMA StatusesReadBack ==
  \A x \in DOMAIN VoucherStatusAsStr :
    VoucherStatusAsStr[x] \in DOMAIN VoucherStatusParse /\ VoucherStatusParse[VoucherStatusAsStr[x]] = x
BY DEF VoucherStatusAsStr, VoucherStatusParse

\* The type that is unknown has no word of its own.
LEMMA TypesReadBack ==
  \A x \in DOMAIN VoucherTypeAsStr :
    LET text == VoucherTypeAsStr[x]
    IN x = IF text \in DOMAIN VoucherTypeParse THEN VoucherTypeParse[text] ELSE "Unknown"
BY DEF VoucherTypeAsStr, VoucherTypeParse

LEMMA ActionsReadBack ==
  \A x \in DOMAIN ActionAsStr : ActionAsStr[x] \in DOMAIN ActionParse /\ ActionParse[ActionAsStr[x]] = x
BY DEF ActionAsStr, ActionParse

LEMMA JobStatusesReadBack ==
  \A x \in DOMAIN JobStatusAsStr :
    JobStatusAsStr[x] \in DOMAIN JobStatusParse /\ JobStatusParse[JobStatusAsStr[x]] = x
BY DEF JobStatusAsStr, JobStatusParse

LEMMA ClassesReadBack ==
  \A x \in DOMAIN ResultClassAsStr :
    ResultClassAsStr[x] \in DOMAIN ResultClassParse /\ ResultClassParse[ResultClassAsStr[x]] = x
BY DEF ResultClassAsStr, ResultClassParse

\* Texts of moments are in the order of the moments.
LEMMA TextsAreOrdered ==
  ASSUME NEW s \in Int, NEW t \in Int
  PROVE  TextBefore(TsToStr(s), TsToStr(t)) <=> Cut(s) < Cut(t)
<1> DEFINE a == TsToStr(s)
           b == TsToStr(t)
<1>1. /\ Len(a) = 5 /\ a[1] = s \div 1000 /\ a[2] = -1 /\ a[3] = (s \div 100) % 10 /\ a[4] = (s \div 10) % 10 /\ a[5] = 10
      /\ Len(b) = 5 /\ b[1] = t \div 1000 /\ b[2] = -1 /\ b[3] = (t \div 100) % 10 /\ b[4] = (t \div 10) % 10 /\ b[5] = 10
  BY DEF TsToStr, Dot, Zulu
<1>2. /\ StrToTs(a) = Cut(s) /\ StrToTs(b) = Cut(t)
  BY MomentsReadBack
<1> HIDE DEF a, b
<1> DEFINE x  == s \div 1000
           x1 == (s \div 100) % 10
           x2 == (s \div 10) % 10
           y  == t \div 1000
           y1 == (t \div 100) % 10
           y2 == (t \div 10) % 10
<1>3. /\ x \in Int /\ x1 \in 0..9 /\ x2 \in 0..9 /\ y \in Int /\ y1 \in 0..9 /\ y2 \in 0..9
      /\ a[1] = x /\ a[3] = x1 /\ a[4] = x2 /\ b[1] = y /\ b[3] = y1 /\ b[4] = y2
  BY <1>1
<1> HIDE DEF x, x1, x2, y, y1, y2
<1>3a. Cut(s) = 1000 * x + 100 * x1 + 10 * x2 /\ Cut(t) = 1000 * y + 100 * y1 + 10 * y2
  <2>1. StrToTs(a) = 1000 * a[1] + 100 * a[3] + 10 * a[4] /\ StrToTs(b) = 1000 * b[1] + 100 * b[3] + 10 * b[4]
    BY <1>1 DEF StrToTs
  <2> QED  BY <1>2, <1>3, <2>1
<1>4. Min2(Len(a), Len(b)) = 5
  BY <1>1 DEF Min2
<1>5. TextBefore(a, b) <=> \E i \in 1..6 : (\A j \in 1..(i - 1) : a[j] = b[j]) /\ i <= 5 /\ (i <= 5 => a[i] < b[i])
  BY <1>1, <1>4 DEF TextBefore
<1>6. TextBefore(a, b) <=> \E i \in 1..5 : (\A j \in 1..(i - 1) : a[j] = b[j]) /\ a[i] < b[i]
  BY <1>5
<1> DEFINE At(i) == (\A j \in 1..(i - 1) : a[j] = b[j]) /\ a[i] < b[i]
<1>7. /\ At(1) <=> a[1] < b[1]
      /\ At(3) <=> a[1] = b[1] /\ a[3] < b[3]
      /\ At(4) <=> a[1] = b[1] /\ a[3] = b[3] /\ a[4] < b[4]
      /\ ~At(2) /\ ~At(5)
  <2>1. At(1) <=> a[1] < b[1]
    OBVIOUS
  <2>2. At(3) <=> a[1] = b[1] /\ a[3] < b[3]
    <3>1. 1..(3 - 1) = {1, 2}
      OBVIOUS
    <3> QED  BY <1>1, <3>1
  <2>3. At(4) <=> a[1] = b[1] /\ a[3] = b[3] /\ a[4] < b[4]
    <3>1. 1..(4 - 1) = {1, 2, 3}
      OBVIOUS
    <3> QED  BY <1>1, <3>1
  <2>4. ~At(2) /\ ~At(5)
    BY <1>1
  <2> QED  BY <2>1, <2>2, <2>3, <2>4
<1>8. TextBefore(a, b) <=> At(1) \/ At(2) \/ At(3) \/ At(4) \/ At(5)
  <2>1. 1..5 = {1, 2, 3, 4, 5}
    OBVIOUS
  <2>2. TextBefore(a, b) <=> \E i \in 1..5 : At(i)
    BY <1>6
  <2> HIDE DEF At, a, b
  <2>3. TextBefore(a, b) <=> \E i \in {1, 2, 3, 4, 5} : At(i)
    BY <2>1, <2>2, Zenon
  <2> QED  BY <2>3, Zenon
<1> HIDE DEF At
<1>9. TextBefore(a, b) <=> \/ a[1] < b[1]
                           \/ a[1] = b[1] /\ a[3] < b[3]
                           \/ a[1] = b[1] /\ a[3] = b[3] /\ a[4] < b[4]
  BY <1>7, <1>8
<1> HIDE DEF a, b
<1>10. TextBefore(a, b) <=> Cut(s) < Cut(t)
  <2> DEFINE m == 1000 * x + 100 * x1 + 10 * x2
             n == 1000 * y + 100 * y1 + 10 * y2
             Less == \/ x < y
                     \/ x = y /\ x1 < y1
                     \/ x = y /\ x1 = y1 /\ x2 < y2
  <2>1. m < n <=> Less
    <3>1. x \in Int /\ y \in Int /\ x1 \in 0..9 /\ y1 \in 0..9 /\ x2 \in 0..9 /\ y2 \in 0..9
      BY <1>3
    <3> QED  BY <3>1
  <2>2. Cut(s) = m /\ Cut(t) = n
    BY <1>3a
  <2> HIDE DEF m, n
  <2>3. TextBefore(a, b) <=> m < n
    <3>1. a[1] = x /\ a[3] = x1 /\ a[4] = x2 /\ b[1] = y /\ b[3] = y1 /\ b[4] = y2
      BY <1>3
    <3>2. TextBefore(a, b) <=> Less
      BY <1>9, <3>1, Zenon
    <3> QED  BY <2>1, <3>2
  <2> QED  BY <2>2, <2>3
<1> QED  BY <1>10 DEF a, b

VoucherRowAsked ==
  question.about = "voucherRow" =>
    \E b \in DOMAIN IdentityBasisAsStr, t \in DOMAIN VoucherTypeAsStr, s \in DOMAIN VoucherStatusAsStr,
       d \in {None, "FixedAmount", "Percentage", "Coins", "FreeShipping"}, m \in WrittenTimes \union {None} :
      question = [about |-> "voucherRow",
                  record |-> [basis |-> b, type |-> t, discount |-> d, status |-> s, start |-> m, seen |-> 0]]

AttemptRowAsked ==
  question.about = "attemptRow" =>
    \E c \in DOMAIN ResultClassAsStr \union {None}, m \in WrittenTimes :
      question = [about |-> "attemptRow",
                  record |-> [class |-> c, started |-> m, completed |-> IF Stated(c) THEN m ELSE None]]

JobTableAsked ==
  question.about = "jobs" =>
    \E jobs \in JobTables, at \in WrittenTimes : question = [about |-> "jobs", jobs |-> jobs, at |-> at]

\* EveryRowReadsBack, row by row.
LEMMA RowsReadBack ==
  ASSUME VoucherRowAsked, AttemptRowAsked, JobTableAsked
  PROVE  EveryRowReadsBack
<1>1. ASSUME NEW m \in WrittenTimes \union {None}
      PROVE  OptStrToTs(OptTsToStr(m)) = Cut(m)
  <2>1. CASE m = None
    BY <2>1 DEF OptStrToTs, OptTsToStr, Cut, Stated
  <2>2. CASE m # None
    <3>1. m \in Int /\ Stated(TsToStr(m)) /\ StrToTs(TsToStr(m)) = Cut(m)
      BY <1>1, <2>2, RecordsAssumption, MomentsReadBack
    <3> QED  BY <2>2, <3>1 DEF OptStrToTs, OptTsToStr, Stated
  <2> QED  BY <2>1, <2>2
<1>2. ASSUME NEW t \in Int PROVE StrToTs(TsToStr(t)) = Cut(t)
  BY MomentsReadBack
<1>3. ASSUME question.about = "voucherRow"
      PROVE  RowToVoucher(VoucherRow(question.record)) = [question.record EXCEPT !.start = Cut(@), !.seen = Cut(@)]
  <2>1. PICK b \in DOMAIN IdentityBasisAsStr, t \in DOMAIN VoucherTypeAsStr, s \in DOMAIN VoucherStatusAsStr,
             d \in {None, "FixedAmount", "Percentage", "Coins", "FreeShipping"}, m \in WrittenTimes \union {None} :
          question = [about |-> "voucherRow",
                      record |-> [basis |-> b, type |-> t, discount |-> d, status |-> s, start |-> m, seen |-> 0]]
    BY <1>3, Zenon DEF VoucherRowAsked
  <2> DEFINE record == [basis |-> b, type |-> t, discount |-> d, status |-> s, start |-> m, seen |-> 0]
  <2>6. question.record = record
    BY <2>1
  <2>2. VoucherRow(question.record) =
          [basis |-> IdentityBasisAsStr[b], type |-> VoucherTypeAsStr[t], discount |-> d,
           status |-> VoucherStatusAsStr[s], start |-> OptTsToStr(m), seen |-> TsToStr(0)]
    BY <2>6 DEF VoucherRow
  <2>3. (IF Stated(d) THEN ParseDiscountType(d) ELSE None) = d
    BY DEF ParseDiscountType, Stated
  <2>4. StrToTs(TsToStr(0)) = Cut(0) /\ OptStrToTs(OptTsToStr(m)) = Cut(m)
    BY <1>1, <1>2
  <2>5. RowToVoucher(VoucherRow(question.record)) =
          [basis |-> b, type |-> t, discount |-> d, status |-> s, start |-> Cut(m), seen |-> Cut(0)]
    <3> HIDE DEF IdentityBasisAsStr, IdentityBasisParse
    <3> QED  BY <2>2, <2>3, <2>4, BasesReadBack, StatusesReadBack, TypesReadBack DEF RowToVoucher
  <2>7. [record EXCEPT !.start = Cut(@), !.seen = Cut(@)] =
          [basis |-> b, type |-> t, discount |-> d, status |-> s, start |-> Cut(m), seen |-> Cut(0)]
    <3>1. ASSUME NEW x, NEW y
          PROVE  [record EXCEPT !.start = x, !.seen = y] =
                   [basis |-> b, type |-> t, discount |-> d, status |-> s, start |-> x, seen |-> y]
      <4> HIDE DEF record
      <4>1. [record EXCEPT !.start = x, !.seen = y] =
              [f \in DOMAIN record |-> IF f = "seen" THEN y ELSE IF f = "start" THEN x ELSE record[f]]
        OBVIOUS
      <4> QED  BY <4>1 DEF record
    <3>2. record.start = m /\ record.seen = 0
      OBVIOUS
    <3> HIDE DEF record
    <3> QED  BY <3>1, <3>2
  <2> HIDE DEF record
  <2> QED  BY <2>5, <2>6, <2>7
<1>4. ASSUME question.about = "attemptRow"
      PROVE  RowToAttempt(AttemptRow(question.record)) = [question.record EXCEPT !.started = Cut(@), !.completed = Cut(@)]
  <2>1. PICK c \in DOMAIN ResultClassAsStr \union {None}, m \in WrittenTimes :
          question = [about |-> "attemptRow",
                      record |-> [class |-> c, started |-> m, completed |-> IF Stated(c) THEN m ELSE None]]
    BY <1>4, Zenon DEF AttemptRowAsked
  <2> DEFINE text == IF Stated(c) THEN ResultClassAsStr[c] ELSE None
             end  == IF Stated(c) THEN m ELSE None
             record == [class |-> c, started |-> m, completed |-> end]
  <2>6. question.record = record
    BY <2>1
  <2>2. AttemptRow(question.record) = [class |-> text, started |-> TsToStr(m), completed |-> OptTsToStr(end)]
    BY <2>6 DEF AttemptRow
  <2>3. (IF Stated(text) /\ text \in DOMAIN ResultClassParse THEN ResultClassParse[text] ELSE None) = c
    <3>1. CASE Stated(c)
      BY <3>1, RecordsAssumption, ClassesReadBack DEF Stated
    <3>2. CASE ~Stated(c)
      BY <3>2 DEF Stated
    <3> QED  BY <3>1, <3>2
  <2>4. m \in Int /\ StrToTs(TsToStr(m)) = Cut(m) /\ OptStrToTs(OptTsToStr(end)) = Cut(end)
    BY <1>1, <1>2, RecordsAssumption
  <2>5. RowToAttempt(AttemptRow(question.record)) = [class |-> c, started |-> Cut(m), completed |-> Cut(end)]
    <3> HIDE DEF text, end
    <3> QED  BY <2>2, <2>3, <2>4 DEF RowToAttempt
  <2>7. [record EXCEPT !.started = Cut(@), !.completed = Cut(@)] =
          [class |-> c, started |-> Cut(m), completed |-> Cut(end)]
    <3>1. ASSUME NEW x, NEW y
          PROVE  [record EXCEPT !.started = x, !.completed = y] = [class |-> c, started |-> x, completed |-> y]
      <4> HIDE DEF record
      <4>1. [record EXCEPT !.started = x, !.completed = y] =
              [f \in DOMAIN record |-> IF f = "completed" THEN y ELSE IF f = "started" THEN x ELSE record[f]]
        OBVIOUS
      <4> QED  BY <4>1 DEF record
    <3>2. record.started = m /\ record.completed = end
      OBVIOUS
    <3> HIDE DEF record, end
    <3> QED  BY <3>1, <3>2
  <2> HIDE DEF record
  <2> QED  BY <2>5, <2>6, <2>7
<1>5. ASSUME question.about = "jobs"
      PROVE  ListOf([i \in DOMAIN question.jobs |-> RowToJob(JobRow(question.jobs[i]))]) =
               [i \in DOMAIN question.jobs |-> [question.jobs[i] EXCEPT !.execute = Cut(@), !.preflight = Cut(@)]]
  <2> DEFINE jobs == question.jobs
             cut(j) == [j EXCEPT !.execute = Cut(@), !.preflight = Cut(@)]
  <2>1. jobs \in JobTables
    BY <1>5 DEF JobTableAsked
  <2>2. /\ jobs \in Seq([action : DOMAIN ActionAsStr, status : DOMAIN JobStatusAsStr, execute : Int, preflight : Int])
        /\ \A i \in DOMAIN jobs : cut(jobs[i]) # Undecodable
    BY <2>1, RecordsAssumption
  <2> HIDE DEF jobs
  <2>3. ASSUME NEW i \in DOMAIN jobs PROVE RowToJob(JobRow(jobs[i])) = cut(jobs[i])
    <3>1. jobs[i] \in [action : DOMAIN ActionAsStr, status : DOMAIN JobStatusAsStr, execute : Int, preflight : Int]
      <4> DEFINE Jobs == [action : DOMAIN ActionAsStr, status : DOMAIN JobStatusAsStr, execute : Int, preflight : Int]
      <4>1. jobs \in Seq(Jobs)
        BY <2>2
      <4> HIDE DEF Jobs
      <4>2. jobs[i] \in Jobs
        BY <4>1, ElementOfSeq
      <4> QED  BY <4>2 DEF Jobs
    <3>2. PICK j : j = jobs[i]
      OBVIOUS
    <3>3. /\ j = [action |-> j.action, status |-> j.status, execute |-> j.execute, preflight |-> j.preflight]
          /\ j.action \in DOMAIN ActionAsStr /\ j.status \in DOMAIN JobStatusAsStr
          /\ StrToTs(TsToStr(j.execute)) = Cut(j.execute) /\ StrToTs(TsToStr(j.preflight)) = Cut(j.preflight)
      BY <1>2, <3>1, <3>2
    <3>4. JobRow(j) = [action |-> ActionAsStr[j.action], status |-> JobStatusAsStr[j.status],
                       execute |-> TsToStr(j.execute), preflight |-> TsToStr(j.preflight)]
      BY DEF JobRow
    <3>5. RowToJob(JobRow(j)) = [action |-> j.action, status |-> j.status, execute |-> Cut(j.execute),
                                 preflight |-> Cut(j.preflight)]
      BY <3>3, <3>4, ActionsReadBack, JobStatusesReadBack DEF RowToJob
    <3>6. cut(j) = [action |-> j.action, status |-> j.status, execute |-> Cut(j.execute), preflight |-> Cut(j.preflight)]
      <4>1. ASSUME NEW x, NEW y
            PROVE  [j EXCEPT !.execute = x, !.preflight = y] =
                     [action |-> j.action, status |-> j.status, execute |-> x, preflight |-> y]
        <5>1. [j EXCEPT !.execute = x, !.preflight = y] =
                [f \in DOMAIN j |-> IF f = "preflight" THEN y ELSE IF f = "execute" THEN x ELSE j[f]]
          OBVIOUS
        <5>2. DOMAIN j = {"action", "status", "execute", "preflight"}
          BY <3>1, <3>2
        <5> QED  BY <5>1, <5>2
      <4> QED  BY <4>1
    <3> QED  BY <3>2, <3>5, <3>6
  <2> DEFINE decoded == [i \in DOMAIN jobs |-> RowToJob(JobRow(jobs[i]))]
  <2>4. decoded = [i \in DOMAIN jobs |-> cut(jobs[i])] /\ \A i \in DOMAIN decoded : decoded[i] # Undecodable
    BY <2>2, <2>3
  <2> HIDE DEF decoded
  <2>5. ListOf(decoded) = decoded
    BY <2>4 DEF ListOf
  <2> QED  BY <2>4, <2>5 DEF decoded, jobs
<1> QED  BY <1>3, <1>4, <1>5 DEF EveryRowReadsBack

\* A job of a table that is asked about, and how it is stored.
LEMMA JobsOfTables ==
  ASSUME NEW jobs \in JobTables, NEW i \in DOMAIN jobs
  PROVE  /\ jobs[i].status \in DOMAIN JobStatusAsStr /\ jobs[i].execute \in Int /\ jobs[i].preflight \in Int
         /\ RowsOf(jobs)[i].status = JobStatusAsStr[jobs[i].status]
         /\ RowsOf(jobs)[i].execute = TsToStr(jobs[i].execute)
         /\ RowsOf(jobs)[i].preflight = TsToStr(jobs[i].preflight)
         /\ DOMAIN RowsOf(jobs) = DOMAIN jobs
<1> DEFINE Jobs == [action : DOMAIN ActionAsStr, status : DOMAIN JobStatusAsStr, execute : Int, preflight : Int]
<1>1. jobs \in Seq(Jobs)
  BY RecordsAssumption
<1>2. jobs[i] \in Jobs
  <2> HIDE DEF Jobs
  <2> QED  BY <1>1, ElementOfSeq
<1>3. RowsOf(jobs)[i] = JobRow(jobs[i]) /\ DOMAIN RowsOf(jobs) = DOMAIN jobs
  BY DEF RowsOf
<1> QED  BY <1>2, <1>3 DEF JobRow

\* The queries of the scheduler, over texts, are those over moments.
LEMMA QueriesAreInOrder ==
  ASSUME JobTableAsked
  PROVE  TextOrderIsTimeOrder
<1> DEFINE jobs == question.jobs
           at   == question.at
           rows == RowsOf(jobs)
           due  == DueForPreflight(rows, at)
           Due  == {i \in DOMAIN jobs : jobs[i].status = "Pending" /\ Cut(jobs[i].preflight) <= Cut(at)}
<1> SUFFICES ASSUME question.about = "jobs"
             PROVE  /\ due = Due
                    /\ \A list \in ByExecute(rows, due) : \A i, j \in DOMAIN list :
                         i < j => Cut(jobs[list[i]].execute) <= Cut(jobs[list[j]].execute)
  BY DEF TextOrderIsTimeOrder
<1>1. jobs \in JobTables /\ at \in WrittenTimes
  BY DEF JobTableAsked
<1>2. at \in Int
  BY <1>1, RecordsAssumption
<1> HIDE DEF jobs, at
<1>3. ASSUME NEW t \in Int PROVE Cut(t) \in Int
  BY MomentsReadBack
<1>4. ASSUME NEW i \in DOMAIN jobs PROVE i \in due <=> i \in Due
  <2>1. /\ jobs[i].status \in DOMAIN JobStatusAsStr /\ jobs[i].preflight \in Int
        /\ rows[i].status = JobStatusAsStr[jobs[i].status]
        /\ rows[i].preflight = TsToStr(jobs[i].preflight)
        /\ DOMAIN rows = DOMAIN jobs
    BY <1>1, JobsOfTables
  <2>2. rows[i].status = "PENDING" <=> jobs[i].status = "Pending"
    BY <2>1 DEF JobStatusAsStr
  <2>3. TextBefore(TsToStr(at), rows[i].preflight) <=> Cut(at) < Cut(jobs[i].preflight)
    <3> HIDE DEF rows
    <3>1. TextBefore(TsToStr(at), TsToStr(jobs[i].preflight)) <=> Cut(at) < Cut(jobs[i].preflight)
      BY <1>2, <2>1, TextsAreOrdered
    <3> QED  BY <2>1, <3>1
  <2>4. Cut(at) \in Int /\ Cut(jobs[i].preflight) \in Int
    BY <1>2, <1>3, <2>1
  <2> HIDE DEF rows
  <2> QED  BY <2>1, <2>2, <2>3, <2>4 DEF DueForPreflight
<1>5. DOMAIN rows = DOMAIN jobs
  BY DEF RowsOf
<1>6. due = Due
  BY <1>4, <1>5 DEF DueForPreflight
<1>7. ASSUME NEW list \in ByExecute(rows, due), NEW i \in DOMAIN list, NEW j \in DOMAIN list, i < j
      PROVE  Cut(jobs[list[i]].execute) <= Cut(jobs[list[j]].execute)
  <2>1. list[i] \in DOMAIN jobs /\ list[j] \in DOMAIN jobs
    <3>1. list[i] \in due /\ list[j] \in due
      <4> HIDE DEF due
      <4> QED  BY <1>7 DEF ByExecute, Returned, Bijection, Injection
    <3> QED  BY <1>6, <3>1
  <2>2. ~TextBefore(rows[list[j]].execute, rows[list[i]].execute)
    <3> HIDE DEF due, rows
    <3> QED  BY <1>7 DEF ByExecute, Returned
  <2>3. /\ rows[list[i]].execute = TsToStr(jobs[list[i]].execute) /\ jobs[list[i]].execute \in Int
        /\ rows[list[j]].execute = TsToStr(jobs[list[j]].execute) /\ jobs[list[j]].execute \in Int
    BY <1>1, <2>1, JobsOfTables
  <2> HIDE DEF rows, due
  <2>4. ~(Cut(jobs[list[j]].execute) < Cut(jobs[list[i]].execute))
    BY <2>2, <2>3, TextsAreOrdered
  <2>5. Cut(jobs[list[i]].execute) \in Int /\ Cut(jobs[list[j]].execute) \in Int
    BY <1>3, <2>3
  <2> QED  BY <2>4, <2>5
<1> QED  BY <1>6, <1>7

\* The words of the queries are those of the enumerations.
LEMMA QueriesAreUnderstood ==
  ASSUME AttemptRowAsked, JobTableAsked
  PROVE  QueriesSpeakTheProgramsWords
<1>1. ASSUME question.about = "jobs"
      PROVE  OpenJobs(RowsOf(question.jobs)) = {i \in DOMAIN question.jobs : IsOpen(question.jobs[i].status)}
  <2> DEFINE jobs == question.jobs
             rows == RowsOf(jobs)
  <2>1. jobs \in JobTables
    BY <1>1 DEF JobTableAsked
  <2> HIDE DEF jobs
  <2>2. DOMAIN rows = DOMAIN jobs
    BY DEF RowsOf
  <2>3. ASSUME NEW i \in DOMAIN jobs
        PROVE  rows[i].status \in {"PENDING", "READY", "RUNNING"} <=> IsOpen(jobs[i].status)
    <3>1. jobs[i].status \in DOMAIN JobStatusAsStr /\ rows[i].status = JobStatusAsStr[jobs[i].status]
      BY <2>1, JobsOfTables
    <3> HIDE DEF rows
    <3> QED  BY <3>1 DEF JobStatusAsStr, IsOpen
  <2> QED  BY <2>2, <2>3 DEF OpenJobs, jobs
<1>2. ASSUME question.about = "attemptRow"
      PROVE  HasSuccessfulAttempt(<<AttemptRow(question.record)>>) <=>
               Stated(question.record.class) /\ IsSuccessEquivalent(question.record.class)
  <2> DEFINE a == question.record
             row == AttemptRow(a)
  <2>1. a.class \in DOMAIN ResultClassAsStr \union {None}
    BY <1>2 DEF AttemptRowAsked
  <2> HIDE DEF a
  <2>2. row.class = IF Stated(a.class) THEN ResultClassAsStr[a.class] ELSE None
    BY DEF AttemptRow
  <2>3. HasSuccessfulAttempt(<<row>>) <=> row.class \in {"SUCCESS", "ALREADY_SAVED"}
    <3> HIDE DEF row
    <3> QED  BY DEF HasSuccessfulAttempt
  <2>4. CASE Stated(a.class)
    <3>1. a.class \in DOMAIN ResultClassAsStr /\ row.class = ResultClassAsStr[a.class]
      BY <2>1, <2>2, <2>4 DEF Stated
    <3>2. row.class \in {"SUCCESS", "ALREADY_SAVED"} <=> IsSuccessEquivalent(a.class)
      BY <3>1 DEF ResultClassAsStr, IsSuccessEquivalent
    <3> QED  BY <2>3, <2>4, <3>2 DEF a
  <2>5. CASE ~Stated(a.class)
    <3>1. row.class = None
      BY <2>2, <2>5
    <3>2. None \notin {"SUCCESS", "ALREADY_SAVED"}
      BY RecordsAssumption DEF ResultClassAsStr, Stated
    <3> QED  BY <2>3, <2>5, <3>1, <3>2 DEF a
  <2> QED  BY <2>4, <2>5
<1> QED  BY <1>1, <1>2 DEF QueriesSpeakTheProgramsWords

\* A question about a table of runs.
RunTableAsked == question.about = "runs" => question.runs \in RunTables

LEMMA RunsOfTables ==
  ASSUME NEW runs \in RunTables
  PROVE  /\ Len(runs) \in Nat /\ DOMAIN runs = 1..Len(runs)
         /\ DOMAIN Stored(runs) = DOMAIN runs
         /\ \A i \in DOMAIN runs :
              /\ Stored(runs)[i].source = runs[i].source
              /\ Stored(runs)[i].started = TsToStr(runs[i].started) /\ runs[i].started \in Int
<1>1. runs \in Seq(Range(runs))
      /\ \A i \in DOMAIN runs : {"source", "started"} \subseteq DOMAIN runs[i] /\ runs[i].started \in Int
  BY RecordsAssumption, Zenon
<1>2. Len(runs) \in Nat /\ DOMAIN runs = 1..Len(runs)
  BY <1>1
<1>3. Stored(runs) = [i \in DOMAIN runs |-> [runs[i] EXCEPT !.started = TsToStr(runs[i].started)]]
  BY DEF Stored
<1>4. ASSUME NEW i \in DOMAIN runs
      PROVE  /\ Stored(runs)[i].source = runs[i].source
             /\ Stored(runs)[i].started = TsToStr(runs[i].started) /\ runs[i].started \in Int
  <2> DEFINE r == runs[i]
             t == TsToStr(runs[i].started)
  <2>1. Stored(runs)[i] = [r EXCEPT !.started = t]
    BY <1>3
  <2>2. "source" \in DOMAIN r /\ "started" \in DOMAIN r /\ runs[i].started \in Int
    BY <1>1
  <2> HIDE DEF r, t
  <2>3. [r EXCEPT !.started = t].source = r.source /\ [r EXCEPT !.started = t].started = t
    BY <2>2
  <2> QED  BY <2>1, <2>2, <2>3 DEF r, t
<1> QED  BY <1>2, <1>3, <1>4

\* The latest run of every source is shown if all runs are looked at.
LEMMA LatestOfEverySource ==
  ASSUME NEW runs \in RunTables, Len(runs) <= RecentRuns, NEW recent \in Recent(Stored(runs), RecentRuns)
  PROVE  LET shown == LastPerSource(Stored(runs), recent)
         IN /\ \A x \in DOMAIN runs : \E r \in shown : runs[r].source = runs[x].source
            /\ \A r, x \in shown : runs[r].source = runs[x].source => r = x
            /\ \A r \in shown, x \in DOMAIN runs :
                 runs[x].source = runs[r].source => Cut(runs[x].started) <= Cut(runs[r].started)
<1>1. PICK n, stored : n = Len(runs) /\ stored = Stored(runs)
  OBVIOUS
<1>2. /\ n \in Nat /\ DOMAIN runs = 1..n /\ DOMAIN stored = 1..n
      /\ \A i \in 1..n : /\ stored[i].source = runs[i].source
                         /\ stored[i].started = TsToStr(runs[i].started) /\ runs[i].started \in Int
  BY <1>1, RunsOfTables
<1>3. Cardinality(1..n) = n
  <2>1. 1 \in Int /\ n \in Int
    BY <1>2
  <2>2. Cardinality(1..n) = IF 1 > n THEN 0 ELSE n - 1 + 1
    BY <2>1, FS_Interval
  <2> QED  BY <1>2, <2>2
<1>4. PICK list \in Bijection(1..Cardinality(1..n), 1..n) :
         /\ recent = SubSeq(list, 1, Min2(RecentRuns, Len(list)))
         /\ \A i, j \in DOMAIN list : i < j => ~TextBefore(stored[list[i]].started, stored[list[j]].started)
  BY <1>1, <1>2 DEF Recent, Returned
<1>5. /\ list \in [1..n -> 1..n] /\ \A x \in 1..n : \E k \in 1..n : list[k] = x
      /\ \A i, j \in 1..n : list[i] = list[j] => i = j
      /\ \A i, j \in 1..n : i < j => ~TextBefore(stored[list[i]].started, stored[list[j]].started)
  <2>1. list \in Bijection(1..n, 1..n)
    BY <1>3, <1>4
  <2>2. DOMAIN list = 1..n
    BY <2>1 DEF Bijection, Injection
  <2> QED  BY <1>4, <2>1, <2>2 DEF Bijection, Injection, Surjection, IsInjective
<1>6. DOMAIN recent = 1..n /\ \A k \in 1..n : recent[k] = list[k]
  <2>1. Len(list) = n
    BY <1>2, <1>5
  <2>2. Min2(RecentRuns, n) = n
    <3>1. RecentRuns \in Nat
      BY RecordsAssumption
    <3>2. n <= RecentRuns
      BY <1>1
    <3> QED  BY <1>2, <3>1, <3>2 DEF Min2
  <2>3. recent = SubSeq(list, 1, n)
    BY <1>4, <2>1, <2>2
  <2> QED  BY <1>2, <1>5, <2>3
<1> DEFINE Foremost(k) == \A l \in 1..n : runs[list[l]].source = runs[list[k]].source => k <= l
           shown == LastPerSource(stored, recent)
<1>7. \A k \in 1..n : list[k] \in 1..n
  BY <1>5
<1>8. shown = {list[k] : k \in {i \in 1..n : Foremost(i)}}
  <2>1. \A k \in 1..n : stored[recent[k]].source = runs[list[k]].source
    BY <1>2, <1>6, <1>7
  <2>2. {k \in DOMAIN recent : \A l \in DOMAIN recent : stored[recent[l]].source = stored[recent[k]].source => k <= l}
          = {i \in 1..n : Foremost(i)}
    BY <1>6, <2>1
  <2>3. shown = {recent[i] : i \in {k \in DOMAIN recent :
                    \A l \in DOMAIN recent : stored[recent[l]].source = stored[recent[k]].source => k <= l}}
    BY DEF LastPerSource
  <2> HIDE DEF Foremost, shown
  <2>4. shown = {recent[i] : i \in {k \in 1..n : Foremost(k)}}
    BY <2>2, <2>3
  <2> QED  BY <1>6, <2>4
<1> HIDE DEF Foremost, shown
<1>9. ASSUME NEW x \in 1..n PROVE \E r \in shown : runs[r].source = runs[x].source
  <2> DEFINE K == {k \in 1..n : runs[list[k]].source = runs[x].source}
  <2>1. K # {} /\ K \subseteq Nat
    <3>1. PICK l \in 1..n : list[l] = x
      BY <1>5, Zenon
    <3>2. l \in K
      BY <3>1
    <3>3. 1..n \subseteq Nat
      BY <1>2
    <3> QED  BY <3>2, <3>3
  <2>2. PICK k \in K : \A l \in K : k <= l
    <3> HIDE DEF K
    <3> QED  BY <2>1, LeastExists
  <2>3. Foremost(k)
    BY <2>2 DEF Foremost
  <2> QED  BY <1>8, <2>2, <2>3
<1>10. ASSUME NEW r \in shown, NEW x \in shown, runs[r].source = runs[x].source PROVE r = x
  <2>1. PICK i \in 1..n : Foremost(i) /\ r = list[i]
    BY <1>8
  <2>2. PICK j \in 1..n : Foremost(j) /\ x = list[j]
    BY <1>8
  <2>3. i <= j /\ j <= i
    BY <1>10, <2>1, <2>2 DEF Foremost
  <2>4. i = j
    BY <2>3
  <2> QED  BY <2>1, <2>2, <2>4
<1>11. ASSUME NEW r \in shown, NEW x \in 1..n, runs[x].source = runs[r].source
       PROVE  Cut(runs[x].started) <= Cut(runs[r].started)
  <2>1. PICK i \in 1..n : Foremost(i) /\ r = list[i]
    BY <1>8
  <2>2. PICK j \in 1..n : list[j] = x
    BY <1>5
  <2>3. i <= j
    BY <1>11, <2>1, <2>2 DEF Foremost
  <2>4. r \in 1..n /\ runs[r].started \in Int /\ runs[x].started \in Int
    BY <1>2, <1>7, <2>1
  <2>5. Cut(runs[r].started) \in Int /\ Cut(runs[x].started) \in Int
    <3>1. ASSUME NEW t \in Int PROVE Cut(t) \in Int
      BY MomentsReadBack
    <3> QED  BY <2>4, <3>1
  <2>6. CASE i = j
    <3>1. r = x
      BY <2>1, <2>2, <2>6
    <3>2. \A t \in Int : t <= t
      OBVIOUS
    <3> QED  BY <2>5, <3>1, <3>2, Zenon
  <2>7. CASE i # j
    <3>1. ~TextBefore(stored[r].started, stored[x].started)
      <4>1. i < j
        BY <2>3, <2>7
      <4>2. ~TextBefore(stored[list[i]].started, stored[list[j]].started)
        BY <1>5, <4>1, Zenon
      <4> QED  BY <2>1, <2>2, <4>2, Zenon
    <3>2. ~TextBefore(TsToStr(runs[r].started), TsToStr(runs[x].started))
      BY <1>2, <2>4, <3>1
    <3>3. ~(Cut(runs[r].started) < Cut(runs[x].started))
      BY <2>4, <3>2, TextsAreOrdered
    <3> QED  BY <2>5, <3>3
  <2> QED  BY <2>6, <2>7
<1> QED  BY <1>1, <1>2, <1>9, <1>10, <1>11 DEF shown

LEMMA LatestIsShown ==
  ASSUME RunTableAsked
  PROVE  ShownRunIsTheLatest
BY LatestOfEverySource DEF RunTableAsked, ShownRunIsTheLatest

\* What can go wrong with a collection.
Kinds == {"Timeout", "Transient", "RateLimited", "AuthRequired", "Malformed", "Config"}

FailsFor(collection, answer) ==
  \E kind \in Kinds : \E echo :
    /\ collection = Failure(kind, echo)
    /\ kind = "RateLimited" => echo = TRUE /\ answer.status = 429

\* An answer is a failure or it is parsed, and only a status of 429 is a rate limit.
LEMMA FetchedOrFailed ==
  ASSUME NEW answer, NEW refused \in {"AuthRequired", "Malformed"}, NEW typed, NEW read
  PROVE  Fetched(answer, refused, typed, read) = Parsed(read)
           \/ FailsFor(Fetched(answer, refused, typed, read), answer)
<1> DEFINE g1 == answer.sent = "timeout"
           g2 == answer.sent = "unreachable"
           g3 == answer.status = 429
           g4 == answer.status \in {401, 403}
           g5 == answer.status >= 500
           g6 == answer.status \notin 200..299
           g7 == answer.body = "cut"
           g8 == answer.body = "garbled" \/ ~typed
           it == Fetched(answer, refused, typed, read)
<1>1. it = IF g1 THEN Failure("Timeout", FALSE)
           ELSE IF g2 THEN Failure("Transient", answer.echo)
           ELSE IF g3 THEN Failure("RateLimited", TRUE)
           ELSE IF g4 THEN Failure(refused, FALSE)
           ELSE IF g5 THEN Failure("Transient", FALSE)
           ELSE IF g6 THEN Failure("Malformed", FALSE)
           ELSE IF g7 THEN Failure("Transient", answer.echo)
           ELSE IF g8 THEN Failure("Malformed", answer.echo)
           ELSE Parsed(read)
  BY Zenon DEF Fetched
<1>2. \A kind \in {"Timeout", "Transient", "AuthRequired", "Malformed"} : \A echo :
        it = Failure(kind, echo) => FailsFor(it, answer)
  <2> HIDE DEF it
  <2> QED  BY DEF FailsFor, Kinds
<1>3. g3 /\ it = Failure("RateLimited", TRUE) => FailsFor(it, answer)
  <2> HIDE DEF it
  <2> QED  BY DEF FailsFor, Kinds
<1> HIDE DEF g1, g2, g3, g4, g5, g6, g7, g8, it
<1>4. \/ \E kind \in {"Timeout", "Transient", "AuthRequired", "Malformed"} : \E echo : it = Failure(kind, echo)
      \/ g3 /\ it = Failure("RateLimited", TRUE)
      \/ it = Parsed(read)
  BY <1>1
<1>5. it = Parsed(read) \/ FailsFor(it, answer)
  BY <1>2, <1>3, <1>4
<1> QED  BY <1>5 DEF it

\* So is what is collected: a failure, or the items parsed.
LEMMA CollectedOrFailed ==
  ASSUME CollectionAsked, AboutCollection
  PROVE  \/ FailsFor(Collection, question.answer)
         \/ \E S : \E read \in Seq(S) : Collection = Parsed(read) /\ Len(read) = Len(question.batch.items)
<1> DEFINE items == question.batch.items
<1>1. question.batch \in Batches
  BY DEF CollectionAsked, AboutCollection
<1>2. items \in Seq(Range(items))
  BY <1>1, CollectingAssumption
<1>3. DOMAIN items = 1..Len(items) /\ Len(items) \in Nat
  BY <1>2
<1> HIDE DEF items
<1> DEFINE From(x) == IF question.batch.from = "coupon" THEN FromCoupon(x) ELSE FromFeed(x)
           read    == [i \in DOMAIN items |-> From(items[i])]
<1>4. read \in Seq({From(items[i]) : i \in DOMAIN items}) /\ Len(read) = Len(items)
  BY <1>3
<1>5. CASE question.batch.from = "coupon" /\ ~Stated(question.token)
  <2>1. Collection = Failure("Config", FALSE)
    BY <1>5 DEF Collection, CollectionOf, CollectCoupons
  <2>2. FailsFor(Collection, question.answer)
    BY <2>1 DEF FailsFor, Kinds
  <2> QED  BY <2>2
<1>6. CASE question.batch.from = "coupon" /\ Stated(question.token)
  <2>1. Collection = Fetched(question.answer, "AuthRequired", Typed(items), read)
    BY <1>6 DEF Collection, CollectionOf, CollectCoupons, items
  <2>2. Collection = Parsed(read) \/ FailsFor(Collection, question.answer)
    <3> DEFINE typed == Typed(items)
    <3> HIDE DEF read, typed
    <3> QED  BY <2>1, FetchedOrFailed DEF typed
  <2> HIDE DEF read, From
  <2> QED  BY <1>4, <2>2 DEF items
<1>7. CASE question.batch.from # "coupon"
  <2>1. Collection = Fetched(question.answer, "Malformed", Typed(items), read)
    BY <1>7 DEF Collection, CollectionOf, CollectFeed, items
  <2>2. Collection = Parsed(read) \/ FailsFor(Collection, question.answer)
    <3> DEFINE typed == Typed(items)
    <3> HIDE DEF read, typed
    <3> QED  BY <2>1, FetchedOrFailed DEF typed
  <2> HIDE DEF read, From
  <2> QED  BY <1>4, <2>2 DEF items
<1> QED  BY <1>5, <1>6, <1>7

\* What has been ingested, broken off or not.
IsDone(d) ==
  /\ DOMAIN d = {"rows", "new", "updated", "unchanged", "rejected", "left", "broken"}
  /\ d.rejected \in Nat /\ d.broken \in BOOLEAN

\* Of one candidate more a trace is left.
LEMMA OneMoreShows ==
  ASSUME NEW d, IsDone(d), NEW c
  PROVE  LET e == IngestOne(d, c)
         IN IsDone(e) /\ (DOMAIN e.rows # {} \/ e.broken \/ e.rejected > 0)
<1> DEFINE e == IngestOne(d, c)
           id == Identity(c)
           row == IF id \in DOMAIN d.rows THEN Upsert(d.rows[id], c) ELSE FromCandidate(c)
           rows == [x \in DOMAIN d.rows \union {id} |-> IF x = id THEN row ELSE d.rows[x]]
           one(outcome) == IF row.outcome = outcome THEN 1 ELSE 0
<1>1. CASE d.broken
  BY <1>1 DEF IngestOne
<1>2. CASE ~d.broken /\ Issues(c) # {}
  <2>1. e = [d EXCEPT !.rejected = d.rejected + 1]
    BY <1>2 DEF IngestOne
  <2> HIDE DEF e
  <2>2. e.rejected = d.rejected + 1 /\ e.broken = d.broken /\ DOMAIN e = DOMAIN d
    BY <2>1 DEF IsDone
  <2>3. IsDone(e) /\ e.rejected > 0
    BY <2>2 DEF IsDone
  <2> QED  BY <2>3 DEF e
<1>3. CASE ~d.broken /\ Issues(c) = {} /\ d.left = 0
  <2>1. e = [d EXCEPT !.broken = TRUE]
    BY <1>3 DEF IngestOne
  <2> HIDE DEF e
  <2>2. e.rejected = d.rejected /\ e.broken = TRUE /\ DOMAIN e = DOMAIN d
    BY <2>1 DEF IsDone
  <2>3. IsDone(e) /\ e.broken
    BY <2>2 DEF IsDone
  <2> QED  BY <2>3 DEF e
<1>4. CASE ~d.broken /\ Issues(c) = {} /\ d.left # 0
  <2>1. e = [d EXCEPT !.rows = rows, !.new = d["new"] + one("Created"), !.updated = d["updated"] + one("Updated"),
                      !.unchanged = d["unchanged"] + one("Unchanged"), !.left = d.left - 1]
    BY <1>4 DEF IngestOne
  <2>2. DOMAIN rows # {}
    OBVIOUS
  <2> HIDE DEF e, id, row, one, rows
  <2>3. e.rows = rows /\ e.rejected = d.rejected /\ e.broken = d.broken /\ DOMAIN e = DOMAIN d
    BY <2>1 DEF IsDone
  <2>4. IsDone(e) /\ DOMAIN e.rows # {}
    BY <2>2, <2>3 DEF IsDone
  <2> QED  BY <2>4 DEF e
<1> QED  BY <1>1, <1>2, <1>3, <1>4

\* Items that were parsed and ingested leave a row, a failure or a rejection,
\* or the database broke; no items leave nothing.
LEMMA ItemsLeaveATrace ==
  ASSUME NEW S, NEW read \in Seq(S), NEW upserts
  PROVE  LET p == Parsed(read)
             d == Ingest(p.candidates, upserts)
         IN /\ p.error = None
            /\ read # << >> => DOMAIN d.rows # {} \/ d.broken \/ p.failures + d.rejected > 0
            /\ read = << >> => p = Failure(None, FALSE) /\ d = NothingIngested(upserts)
<1>1. Len(read) \in Nat /\ (read # << >> => Len(read) # 0)
  OBVIOUS
<1>2. PICK f : /\ Parsed(read) = f[Len(read)]
               /\ f[0] = Failure(None, FALSE)
               /\ \A k \in 1..Len(read) : f[k] = ReadOne(f[k - 1], read[k])
  BY <1>1, ParsedIsRead
<1> DEFINE D(k) == Ingest(f[k].candidates, upserts)
           Traced(k) == /\ DOMAIN f[k] = {"error", "echo", "candidates", "failures"}
                        /\ f[k].error = None /\ f[k].candidates \in Seq(S) /\ f[k].failures \in Nat
                        /\ IsDone(D(k))
                        /\ k # 0 => DOMAIN D(k).rows # {} \/ D(k).broken \/ f[k].failures + D(k).rejected > 0
           Untraced == {k \in 0..Len(read) : ~Traced(k)}
<1>3. f[0] = Failure(None, FALSE) /\ D(0) = NothingIngested(upserts) /\ Traced(0)
  <2>1. f[0].candidates = << >> /\ f[0].error = None /\ f[0].failures = 0
        /\ DOMAIN f[0] = {"error", "echo", "candidates", "failures"}
    BY <1>2 DEF Failure
  <2>2. D(0) = NothingIngested(upserts)
    BY <2>1, IngestGrows
  <2>3. IsDone(NothingIngested(upserts))
    BY DEF IsDone, NothingIngested
  <2>4. << >> \in Seq(S)
    OBVIOUS
  <2> HIDE DEF D
  <2>5. IsDone(D(0)) /\ f[0].candidates \in Seq(S) /\ f[0].failures \in Nat
    <3>1. 0 \in Nat
      OBVIOUS
    <3> QED  BY <2>1, <2>2, <2>3, <2>4, <3>1, Zenon
  <2>6. Traced(0)
    BY <2>1, <2>5
  <2> QED  BY <1>2, <2>2, <2>6, Zenon
<1>4. ASSUME NEW k \in 1..Len(read), Traced(k - 1) PROVE Traced(k)
  <2> DEFINE p == f[k - 1]
             c == read[k]
             q == ReadOne(p, c)
             d == Ingest(p.candidates, upserts)
             e == Ingest(q.candidates, upserts)
  <2>1. f[k] = q /\ D(k - 1) = d /\ D(k) = e
    BY <1>2
  <2>2. /\ DOMAIN p = {"error", "echo", "candidates", "failures"}
        /\ p.error = None /\ p.candidates \in Seq(S) /\ p.failures \in Nat /\ IsDone(d) /\ c \in S
    BY <1>1, <1>4
  <2>3. d.rejected \in Nat
    BY <2>2 DEF IsDone
  <2>4. CASE Stated(c)
    <3>1. q = [p EXCEPT !.candidates = Append(p.candidates, c)]
      BY <2>4 DEF ReadOne
    <3> HIDE DEF p, q, c, d
    <3>2. /\ q.candidates = Append(p.candidates, c) /\ q.error = None /\ q.failures = p.failures
          /\ DOMAIN q = {"error", "echo", "candidates", "failures"}
      BY <2>2, <3>1
    <3>3. q.candidates \in Seq(S)
      BY <2>2, <3>2
    <3>4. e = IngestOne(d, c)
      BY <2>2, <3>2, IngestGrows DEF d
    <3> HIDE DEF e
    <3>5. IsDone(e) /\ (DOMAIN e.rows # {} \/ e.broken \/ e.rejected > 0)
      BY <2>2, <3>4, OneMoreShows
    <3>6. e.rejected \in Nat /\ p.failures \in Nat
      BY <2>2, <3>5 DEF IsDone
    <3>7. DOMAIN e.rows # {} \/ e.broken \/ q.failures + e.rejected > 0
      BY <3>2, <3>5, <3>6
    <3> HIDE DEF D
    <3> QED  BY <2>1, <2>2, <3>2, <3>3, <3>5, <3>7
  <2>5. CASE ~Stated(c)
    <3>1. q = [p EXCEPT !.failures = p.failures + 1]
      BY <2>5 DEF ReadOne
    <3> HIDE DEF p, q, c, d
    <3>2. /\ q.candidates = p.candidates /\ q.error = None /\ q.failures = p.failures + 1
          /\ DOMAIN q = {"error", "echo", "candidates", "failures"}
      BY <2>2, <3>1
    <3>3. e = d
      BY <3>2 DEF d
    <3> HIDE DEF e
    <3>4. q.failures \in Nat /\ q.failures + e.rejected > 0
      BY <2>2, <2>3, <3>2, <3>3
    <3> HIDE DEF D
    <3> QED  BY <2>1, <2>2, <3>2, <3>3, <3>4
  <2> QED  BY <2>4, <2>5
<1> HIDE DEF Traced
<1>5. Untraced = {}
  <2> SUFFICES ASSUME Untraced # {} PROVE FALSE
    OBVIOUS
  <2>1. Untraced \subseteq Nat
    BY <1>1
  <2>2. PICK m \in Untraced : \A k \in Untraced : m <= k
    <3> HIDE DEF Untraced
    <3> QED  BY <2>1, LeastExists
  <2>3. m # 0
    BY <1>3, <2>2
  <2>4. m \in 1..Len(read) /\ m - 1 \in 0..Len(read) /\ ~(m <= m - 1)
    BY <1>1, <2>2, <2>3
  <2>5. Traced(m - 1)
    BY <2>2, <2>4
  <2> QED  BY <1>4, <2>2, <2>4, <2>5
<1>6. Traced(Len(read))
  <2>1. Len(read) \in 0..Len(read)
    BY <1>1
  <2> HIDE DEF D
  <2> QED  BY <1>5, <2>1
<1>7. Parsed(read) = f[Len(read)] /\ Ingest(Parsed(read).candidates, upserts) = D(Len(read))
  BY <1>2
<1>8. read = << >> => Len(read) = 0
  OBVIOUS
<1> HIDE DEF D
<1> QED  BY <1>1, <1>3, <1>6, <1>7, <1>8 DEF Traced

\* The counters of a source all of whose runs are the same.
LEMMA SameRunsCounted ==
  ASSUME NEW run, NEW n \in Nat
  PROVE  LET log == [r \in {run} |-> n]
         IN /\ HowMany(log, {}) = 0 /\ HowMany(log, {run}) = n
            /\ \A field : run[field] = 0 => Total(log, field) = 0
<1> DEFINE log == [r \in {run} |-> n]
<1>1. ASSUME NEW f, f[run] \in Int
      PROVE  SumFunctionOnSet(f, {}) = 0 /\ SumFunctionOnSet(f, {run}) = f[run]
  <2>1. IsFiniteSet({run}) /\ {run} # {} /\ \A x \in {run} : {run} \ {x} = {}
    BY FS_Singleton
  <2>2. SumFunctionOnSet(f, {}) = 0
    BY <2>1, SumUnfolds
  <2>3. PICK x \in {run} : SumFunctionOnSet(f, {run}) = f[x] + SumFunctionOnSet(f, {run} \ {x})
    BY <2>1, SumUnfolds
  <2>4. SumFunctionOnSet(f, {run}) = f[run] + 0
    BY <2>1, <2>2, <2>3
  <2> QED  BY <1>1, <2>2, <2>4
<1>2. log[run] = n /\ DOMAIN log = {run}
  OBVIOUS
<1> HIDE DEF log
<1>3. HowMany(log, {}) = 0 /\ HowMany(log, {run}) = n
  <2>1. log[run] \in Int
    BY <1>2
  <2> QED  BY <1>1, <1>2, <2>1 DEF HowMany
<1>4. ASSUME NEW field, run[field] = 0 PROVE Total(log, field) = 0
  <2> DEFINE f == [r \in DOMAIN log |-> log[r] * r[field]]
  <2>1. f[run] = 0 /\ DOMAIN f = {run}
    BY <1>2, <1>4
  <2> HIDE DEF f
  <2>2. SumFunctionOnSet(f, {run}) = 0
    <3>1. f[run] \in Int
      BY <2>1
    <3> QED  BY <1>1, <2>1, <3>1
  <2> QED  BY <2>1, <2>2 DEF Total, SumFunction, f
<1> QED  BY <1>3, <1>4 DEF log

\* A rate limit is told by the health of the source and by the detail of its run.
LEMMA LimitReachesTheStatistics ==
  ASSUME CollectionAsked
  PROVE  LimitIsSeen
<1> SUFFICES ASSUME AboutCollection, Collection.error = "RateLimited"
             PROVE  /\ Done.health = "RateLimited"
                    /\ Stated(Done.run) => RateLimitIncidents(SetToBag({Done.run})) = 1
                    /\ question.answer.status = 429
  BY DEF LimitIsSeen
<1>1. \A x \in Kinds : Stated(x)
  BY CollectingAssumption DEF Kinds, Stated
<1>2. FailsFor(Collection, question.answer)
  <2>1. ASSUME NEW S, NEW read \in Seq(S), Collection = Parsed(read) PROVE FALSE
    <3>1. Parsed(read).error = None
      BY ItemsLeaveATrace
    <3>2. "RateLimited" \in Kinds
      BY DEF Kinds
    <3> QED  BY <1>1, <2>1, <3>1, <3>2 DEF Stated
  <2> QED  BY <2>1, CollectedOrFailed
<1>3. Collection = Failure("RateLimited", TRUE) /\ question.answer.status = 429
  <2>1. PICK kind \in Kinds : \E echo :
          /\ Collection = Failure(kind, echo)
          /\ kind = "RateLimited" => echo = TRUE /\ question.answer.status = 429
    BY <1>2, Zenon DEF FailsFor
  <2>2. PICK echo : /\ Collection = Failure(kind, echo)
                    /\ kind = "RateLimited" => echo = TRUE /\ question.answer.status = 429
    BY <2>1, Zenon
  <2>3. kind = "RateLimited"
    BY <2>2 DEF Failure
  <2> QED  BY <2>2, <2>3, Zenon
<1> DEFINE run == Done.run
<1>4. Done.health = "RateLimited" /\ (Stated(run) => run.limited = TRUE)
  <2> DEFINE c == Failure("RateLimited", TRUE)
  <2>1. c.error = "RateLimited" /\ Stated(c.error)
    BY <1>1 DEF Failure, Kinds
  <2>2. Done = RunOnce(c, question.upserts, question.recorded)
    BY <1>3 DEF Done
  <2> HIDE DEF c
  <2>3. (Stated(Done.run) => Done.run = FailedRunOf(c)) /\ Done.health = HealthAfter(c.error)
    BY <2>1, <2>2 DEF RunOnce, Stated
  <2>4. HealthAfter("RateLimited") = "RateLimited"
    BY DEF HealthAfter
  <2>5. FailedRunOf(c).limited = TRUE
    BY <2>1 DEF FailedRunOf, FailedRun
  <2> QED  BY <2>1, <2>3, <2>4, <2>5
<1> HIDE DEF run
<1>5. ASSUME Stated(run) PROVE RateLimitIncidents(SetToBag({run})) = 1
  <2>1. SetToBag({run}) = [r \in {run} |-> 1]
    BY DEF SetToBag
  <2>2. {r \in DOMAIN [r \in {run} |-> 1] : r.limited} = {run}
    BY <1>4, <1>5
  <2>3. HowMany([r \in {run} |-> 1], {run}) = 1
    BY SameRunsCounted
  <2> QED  BY <2>1, <2>2, <2>3 DEF RateLimitIncidents
<1> QED  BY <1>3, <1>4, <1>5 DEF run

\* Ten runs like one in which a source was of no use.
LEMMA UselessIsToldOff ==
  ASSUME CollectionAsked
  PROVE  UselessSourceIsDisabled
<1> DEFINE run  == Done.run
           log  == [r \in {run} |-> MinRunsForJudgement]
           s    == SourceStats(log, EmptyBag, 0)
           items == question.batch.items
<1> SUFFICES ASSUME AboutCollection, Stated(run), Done.rows = Nothing
             PROVE  ShouldDegrade(s)
                      = IF ~Stated(Collection.error) /\ items = << >> THEN "ReducePolling" ELSE "Disable"
  BY DEF UselessSourceIsDisabled
<1>1. \A x \in Kinds : Stated(x)
  BY CollectingAssumption DEF Kinds, Stated
<1>2. /\ log[run] = 10 /\ DOMAIN log = {run}
      /\ HowMany(log, {}) = 0 /\ HowMany(log, {run}) = 10
      /\ \A field : run[field] = 0 => Total(log, field) = 0
  <2>1. MinRunsForJudgement \in Nat /\ MinRunsForJudgement = 10
    BY DEF MinRunsForJudgement
  <2> HIDE DEF run
  <2>2. log[run] = MinRunsForJudgement /\ DOMAIN log = {run}
    OBVIOUS
  <2>3. PICK n \in Nat : n = MinRunsForJudgement
    BY <2>1
  <2>4. LET same == [r \in {run} |-> n]
        IN /\ HowMany(same, {}) = 0 /\ HowMany(same, {run}) = n
           /\ \A field : run[field] = 0 => Total(same, field) = 0
    BY SameRunsCounted
  <2>5. /\ HowMany(log, {}) = 0 /\ HowMany(log, {run}) = MinRunsForJudgement
        /\ \A field : run[field] = 0 => Total(log, field) = 0
    BY <2>3, <2>4
  <2> HIDE DEF log
  <2> QED  BY <2>1, <2>2, <2>5
<1> HIDE DEF log
<1>3. s.counters = RunCounters(log) /\ s.counters.runs = 10
      /\ s.counters.successful = HowMany(log, {r \in {run} : r.outcome = "SUCCESS"})
  BY <1>2 DEF SourceStats, RunCounters
<1>4. ASSUME run.outcome # "SUCCESS" PROVE ShouldDegrade(s) = "Disable"
  <2>1. {r \in {run} : r.outcome = "SUCCESS"} = {}
    BY <1>4
  <2>2. s.counters.successful = 0
    BY <1>2, <1>3, <2>1
  <2> HIDE DEF s
  <2>3. ~EverSucceeded(s)
    BY <2>2 DEF EverSucceeded
  <2> QED  BY <1>3, <2>3 DEF ShouldDegrade, MinRunsForJudgement
<1>5. CASE FailsFor(Collection, question.answer)
  <2>1. PICK kind \in Kinds : \E echo : Collection = Failure(kind, echo)
    BY <1>5, Zenon DEF FailsFor
  <2>2. Stated(Collection.error)
    BY <1>1, <2>1 DEF Failure
  <2>3. run = FailedRunOf(Collection)
    BY <2>2 DEF Done, RunOnce, Stated
  <2>4. run.outcome = "FAILED"
    BY <2>3 DEF FailedRunOf, FailedRun
  <2> QED  BY <1>4, <2>2, <2>4
<1>6. ASSUME NEW S, NEW read \in Seq(S), Collection = Parsed(read), Len(read) = Len(items)
      PROVE  ShouldDegrade(s)
               = IF ~Stated(Collection.error) /\ items = << >> THEN "ReducePolling" ELSE "Disable"
  <2> DEFINE p == Parsed(read)
             d == Ingest(p.candidates, question.upserts)
  <2>1. /\ p.error = None
        /\ read # << >> => DOMAIN d.rows # {} \/ d.broken \/ p.failures + d.rejected > 0
        /\ read = << >> => p = Failure(None, FALSE) /\ d = NothingIngested(question.upserts)
    BY ItemsLeaveATrace
  <2>2. read = << >> <=> items = << >>
    <3>1. items \in Seq(Range(items))
      <4>1. question.batch \in Batches
        BY DEF CollectionAsked, AboutCollection
      <4> QED  BY <4>1, CollectingAssumption
    <3> HIDE DEF items
    <3> QED  BY <1>6, <3>1
  <2> HIDE DEF p, d
  <2>3. ~Stated(Collection.error)
    BY <1>6, <2>1 DEF Stated, p
  <2>4. run = (IF question.recorded /\ ~d.broken THEN FinishedRun(p, d) ELSE None) /\ Done.rows = d.rows
    BY <1>6, <2>3 DEF Done, RunOnce, p, d
  <2>5. ~d.broken
    BY <2>4 DEF Stated
  <2>6. run = FinishedRun(p, d) /\ DOMAIN d.rows = {}
    BY <2>4, <2>5 DEF Stated, Nothing
  <2>7. CASE items # << >>
    <3>1. p.failures + d.rejected > 0
      BY <2>1, <2>2, <2>5, <2>6, <2>7
    <3>2. run.outcome = "PARTIAL"
      BY <2>6, <3>1 DEF FinishedRun
    <3> QED  BY <1>4, <2>7, <3>2
  <2>8. CASE items = << >>
    <3>1. p = Failure(None, FALSE) /\ d = NothingIngested(question.upserts)
      BY <2>1, <2>2, <2>8
    <3>2. /\ run.outcome = "SUCCESS" /\ run.limited = FALSE
          /\ run["candidates"] = 0 /\ run["new"] = 0 /\ run["updated"] = 0 /\ run["errors"] = 0
      <4>1. Len(p.candidates) = 0 /\ p.failures = 0 /\ d.new = 0 /\ d.updated = 0 /\ d.rejected = 0
        BY <3>1 DEF Failure, NothingIngested
      <4> QED  BY <2>6, <4>1 DEF FinishedRun
    <3> DEFINE c == RunCounters(log)
    <3>3. /\ Total(log, "candidates") = 0 /\ Total(log, "new") = 0 /\ Total(log, "updated") = 0
          /\ Total(log, "errors") = 0
      BY <1>2, <3>2
    <3>4. /\ HowMany(log, {r \in DOMAIN log : r.outcome = "SUCCESS"}) = 10
          /\ HowMany(log, {r \in DOMAIN log : r.outcome = "FAILED"}) = 0
      <4> HIDE DEF run
      <4>1. {r \in DOMAIN log : r.outcome = "SUCCESS"} = {run} /\ {r \in DOMAIN log : r.outcome = "FAILED"} = {}
        BY <1>2, <3>2
      <4> QED  BY <1>2, <4>1
    <3>5. /\ c.runs = 10 /\ c.successful = 10 /\ c.failed = 0
          /\ c.candidates = 0 /\ c.new = 0 /\ c.updated = 0 /\ c.errors = 0
      BY <1>2, <3>3, <3>4 DEF RunCounters
    <3>6. RateLimitIncidents(log (+) EmptyBag) = 0
      <4> DEFINE all == log (+) EmptyBag
      <4>1. DOMAIN all = DOMAIN log
        BY DEF (+), EmptyBag, SetToBag
      <4> HIDE DEF all, run
      <4>2. {r \in DOMAIN all : r.limited} = {}
        BY <1>2, <3>2, <4>1
      <4>3. SumFunctionOnSet(all, {}) = 0
        BY FS_EmptySet, SumUnfolds
      <4>4. RateLimitIncidents(all) = 0
        BY <4>2, <4>3 DEF RateLimitIncidents, HowMany
      <4> QED  BY <4>4 DEF all
    <3>7. /\ s.counters = c /\ s.unique = 0
          /\ s.parse = FromRatio(c.errors, c.candidates + c.errors)
          /\ s.failure = FromRatio(c.failed, c.runs)
          /\ s.limited = FromRatio(RateLimitIncidents(log (+) EmptyBag), c.runs)
      BY DEF SourceStats, ParseFailureRate
    <3> HIDE DEF s, c, run
    <3>8. s.parse = None /\ s.failure = 0 /\ s.limited = 0
      <4>1. FromRatio(0, 0 + 0) = None /\ FromRatio(0, 10) = 0
        BY DEF FromRatio, Whole
      <4> QED  BY <3>5, <3>6, <3>7, <4>1
    <3>9. \A level \in {2000, 5000, 8000} : ~AtLeast(s.parse, level) /\ ~AtLeast(s.failure, level) /\ ~AtLeast(s.limited, level)
      BY <3>8 DEF AtLeast, Stated
    <3>10. EverSucceeded(s) /\ ~ProducedAnything(s)
      BY <3>5, <3>7 DEF EverSucceeded, ProducedAnything
    <3>11. ShouldDegrade(s) = "ReducePolling"
      BY <3>5, <3>7, <3>9, <3>10 DEF ShouldDegrade, MinRunsForJudgement
    <3> QED  BY <2>3, <2>8, <3>11
  <2> QED  BY <2>7, <2>8
<1> QED  BY <1>5, <1>6, CollectedOrFailed

\* What failed is given up in sight.
LEMMA FailedIsGivenUp ==
  ASSUME CollectionAsked, AboutCollection, Stated(Collection.error)
  PROVE  GivenUp(Done)
<1>1. FailsFor(Collection, question.answer)
  <2>1. ASSUME NEW S, NEW read \in Seq(S), Collection = Parsed(read) PROVE FALSE
    <3>1. Parsed(read).error = None
      BY ItemsLeaveATrace
    <3> QED  BY <2>1, <3>1 DEF Stated
  <2> QED  BY <2>1, CollectedOrFailed
<1>2. PICK kind \in Kinds : \E echo : Collection = Failure(kind, echo)
  BY <1>1, Zenon DEF FailsFor
<1>3. Collection.error = kind /\ Collection.candidates = << >>
  BY <1>2 DEF Failure
<1>4. Done.rows = Nothing
  <2>1. Ingest(Collection.candidates, question.upserts) = NothingIngested(question.upserts)
    BY <1>3, IngestGrows
  <2>2. Done.rows = Ingest(Collection.candidates, question.upserts).rows
    BY DEF Done, RunOnce
  <2>3. NothingIngested(question.upserts).rows = Nothing
    BY DEF NothingIngested, Nothing
  <2> QED  BY <2>1, <2>2, <2>3
<1>5. Done.health # "Healthy"
  <2>1. Done.health = HealthAfter(kind)
    BY <1>3 DEF Done, RunOnce
  <2>2. HealthAfter(kind) # "Healthy"
    BY DEF HealthAfter, Kinds
  <2> QED  BY <2>1, <2>2
<1>6. Stated(Done.run) => Done.run.outcome = "FAILED"
  <2>1. Stated(Done.run) => Done.run = FailedRunOf(Collection)
    BY DEF Done, RunOnce, Stated
  <2> QED  BY <2>1 DEF FailedRunOf, FailedRun
<1> QED  BY <1>4, <1>5, <1>6 DEF GivenUp

\* An answer that arrives whole is given up exactly for an item of a wrong type.
LEMMA ArrivedIsRead ==
  ASSUME CollectionAsked, AboutCollection, Arrived
  PROVE  Stated(Collection.error) <=> ~Typed(question.batch.items)
<1> DEFINE answer == question.answer
           items  == question.batch.items
<1>1. ASSUME NEW refused, NEW typed, NEW read
      PROVE  Fetched(answer, refused, typed, read) =
               IF typed THEN Parsed(read) ELSE Failure("Malformed", answer.echo)
  <2>1. answer.sent = "answered" /\ answer.status = 200 /\ answer.body = "whole"
    BY DEF Arrived
  <2>2. 200 # 429 /\ 200 \notin {401, 403} /\ ~(200 >= 500) /\ 200 \in 200..299
    OBVIOUS
  <2> HIDE DEF answer
  <2>3. answer.sent # "timeout" /\ answer.sent # "unreachable" /\ answer.body # "cut" /\ answer.body # "garbled"
    BY <2>1
  <2>4. /\ answer.status # 429 /\ answer.status \notin {401, 403} /\ ~(answer.status >= 500)
        /\ answer.status \in 200..299
    BY <2>1, <2>2
  <2> QED  BY <2>3, <2>4, Zenon DEF Fetched
<1>2. PICK refused, S : \E read \in Seq(S) : Collection = Fetched(answer, refused, Typed(items), read)
  <2>1. items \in Seq(Range(items))
    <3>1. question.batch \in Batches
      BY DEF CollectionAsked, AboutCollection
    <3> QED  BY <3>1, CollectingAssumption
  <2>2. DOMAIN items = 1..Len(items) /\ Len(items) \in Nat
    BY <2>1
  <2> HIDE DEF items
  <2> DEFINE From(x) == IF question.batch.from = "coupon" THEN FromCoupon(x) ELSE FromFeed(x)
             read    == [i \in DOMAIN items |-> From(items[i])]
  <2>3. read \in Seq({From(items[i]) : i \in DOMAIN items})
    BY <2>2
  <2>4. CASE question.batch.from = "coupon"
    <3>1. Collection = Fetched(answer, "AuthRequired", Typed(items), read)
      BY <2>4 DEF Collection, CollectionOf, CollectCoupons, Arrived, items
    <3> HIDE DEF read, From, answer
    <3> QED  BY <2>3, <3>1
  <2>5. CASE question.batch.from # "coupon"
    <3>1. Collection = Fetched(answer, "Malformed", Typed(items), read)
      BY <2>5 DEF Collection, CollectionOf, CollectFeed, items
    <3> HIDE DEF read, From, answer
    <3> QED  BY <2>3, <3>1
  <2> QED  BY <2>4, <2>5 DEF items
<1>2a. PICK read \in Seq(S) : Collection = Fetched(answer, refused, Typed(items), read)
  BY <1>2
<1>3. CASE ~Typed(items)
  <2>1. Collection = Failure("Malformed", answer.echo)
    BY <1>1, <1>2a, <1>3
  <2> QED  BY <1>3, <2>1, CollectingAssumption DEF Failure, Stated
<1>4. CASE Typed(items)
  <2>1. Collection = Parsed(read)
    BY <1>1, <1>2a, <1>4
  <2>2. Parsed(read).error = None
    BY <1>2a, ItemsLeaveATrace
  <2> QED  BY <1>4, <2>1, <2>2 DEF Stated
<1> QED  BY <1>3, <1>4

\* NoItemIsLost, for the questions the program can be asked.
LEMMA CollectionKeepsItems ==
  ASSUME CollectionAsked
  PROVE  NoItemIsLost
BY ReadItemsAreKept, FailedIsGivenUp, ArrivedIsRead DEF NoItemIsLost

-----------------------------------------------------------------------------
(* What is asked about answers and rows.                                    *)

RowsAsked == CollectionAsked /\ VoucherRowAsked /\ AttemptRowAsked /\ JobTableAsked

RowTopics == {"collection", "voucherRow", "attemptRow", "jobs"}

\* The other steps ask about something else.
LEMMA OtherThanRows ==
  ASSUME \/ AskScore \/ AskRelevance \/ AskPlan
         \/ AskCampaign \/ AskPace \/ AskBudget \/ AskIngest \/ AskCollected \/ AskFed \/ AskStage
         \/ AskReplay \/ AskResponse
         \/ AskSource \/ AskDiscovery \/ AskTimings
         \/ AskSend \/ AskMessage \/ AskAlerts \/ AskStart \/ AskDelay \/ AskControl \/ AskCommand
         \/ AskRunTable
         \/ EvaluateAlerts \/ CallControl \/ TryConsume \/ Observe
  PROVE  question'.about \notin RowTopics
BY TopicOf DEF RowTopics

LEMMA RowsAskedFirst == Init => RowsAsked
BY DEF Init, RowsAsked, CollectionAsked, VoucherRowAsked, AttemptRowAsked, JobTableAsked

LEMMA RowsAskedNext == RowsAsked /\ [Next]_question => RowsAsked'
<1> SUFFICES ASSUME RowsAsked, [Next]_question
             PROVE  RowsAsked'
  OBVIOUS
<1>1. ASSUME question'.about \notin RowTopics PROVE RowsAsked'
  BY <1>1 DEF RowTopics, RowsAsked, CollectionAsked, VoucherRowAsked, AttemptRowAsked, JobTableAsked
<1>2. /\ question'.about # "collection" => CollectionAsked'
      /\ question'.about # "voucherRow" => VoucherRowAsked'
      /\ question'.about # "attemptRow" => AttemptRowAsked'
      /\ question'.about # "jobs" => JobTableAsked'
  BY DEF CollectionAsked, VoucherRowAsked, AttemptRowAsked, JobTableAsked
<1>3. CASE AskCollection
  <2>1. question'.about = "collection"
    BY <1>3 DEF AskCollection
  <2>2. CollectionAsked'
    BY <1>3, Zenon DEF AskCollection, CollectionAsked
  <2> QED  BY <1>2, <2>1, <2>2 DEF RowsAsked
<1>4. CASE AskVoucherRow
  <2>1. question'.about = "voucherRow"
    BY <1>4 DEF AskVoucherRow
  <2>2. VoucherRowAsked'
    BY <1>4, Zenon DEF AskVoucherRow, VoucherRowAsked
  <2> QED  BY <1>2, <2>1, <2>2 DEF RowsAsked
<1>5. CASE AskAttemptRow
  <2>1. question'.about = "attemptRow"
    BY <1>5 DEF AskAttemptRow
  <2>2. AttemptRowAsked'
    BY <1>5, Zenon DEF AskAttemptRow, AttemptRowAsked
  <2> QED  BY <1>2, <2>1, <2>2 DEF RowsAsked
<1>6. CASE AskJobTable
  <2>1. question'.about = "jobs"
    BY <1>6 DEF AskJobTable
  <2>2. JobTableAsked'
    BY <1>6, Zenon DEF AskJobTable, JobTableAsked
  <2> QED  BY <1>2, <2>1, <2>2 DEF RowsAsked
<1>7. CASE UNCHANGED question
  BY <1>7 DEF RowsAsked, CollectionAsked, VoucherRowAsked, AttemptRowAsked, JobTableAsked
<1> QED
  BY <1>1, <1>3, <1>4, <1>5, <1>6, <1>7, OtherThanRows DEF Next, Ask

\* What is collected is kept, once and as it was last seen: every item of an
\* answer that is read and would be stored alone is stored among the others and
\* counted once, an answer with a field of a wrong type is, as any that is not
\* read, given up whole and in sight, fixtures leave the same in every order, observations are kept as
\* above, and what is written to the rows of the store is read back, found and
\* ordered as it was meant (accesstrade.rs, external_feed.rs, replay.rs,
\* supervisor.rs, identity.rs, provenance.rs, storage's convert.rs).
THEOREM CollectedIsAlwaysKept == Spec => []CollectedIsKept
<1>1. Spec => []RowsAsked
  BY RowsAskedFirst, RowsAskedNext, PTL DEF Spec
<1>2. RowsAsked => /\ NoItemIsLost /\ EveryRowReadsBack
                   /\ TextOrderIsTimeOrder /\ QueriesSpeakTheProgramsWords
  BY CollectionKeepsItems, RowsReadBack, QueriesAreInOrder, QueriesAreUnderstood DEF RowsAsked
<1>3. /\ CouponsAreClaimable /\ WritingDoesNotMatter /\ RespellingIsQuiet
      /\ StoredTermsAreTheLatest /\ MergeIsLosslessAndStable /\ StageMovesForward
      /\ RowsAsked
      => CollectedIsKept
  BY <1>2, ReplayInAnyOrder DEF CollectedIsKept
<1> QED  BY <1>1, <1>3, ObservationsAreKept, PTL

-----------------------------------------------------------------------------
(* What is asked about sources.                                             *)

SourceAsked ==
  question.about = "source" =>
    \E log \in RunLogs, unique \in UniqueCounts, r \in UNION {DOMAIN x : x \in RunLogs}, n \in 0..1 :
      question = [about |-> "source", log |-> log, unique |-> unique, later |-> SetToBag({r : i \in 1..n})]

DiscoveryAsked == question.about = "discovery" => question.rows \in ObservationLogs

TimingsAsked ==
  question.about = "timings" => \E n \in 0..MaxTimings : question.deltas \in [1..n -> Deltas]

SourcesAsked == SourceAsked /\ DiscoveryAsked /\ TimingsAsked /\ RunTableAsked

SourceTopics == {"source", "discovery", "timings", "runs"}

\* The logs that are asked about, and what their statistics are.
LEMMA LogsAsked ==
  ASSUME SourceAsked, AboutSource
  PROVE  /\ IsLog(question.log) /\ question.unique \in Nat /\ AreStats(Stats)
         /\ question.later = EmptyBag => IsShare(Stats.limited)
<1>1. PICK log \in RunLogs, unique \in UniqueCounts, r \in UNION {DOMAIN x : x \in RunLogs}, n \in 0..1 :
        question = [about |-> "source", log |-> log, unique |-> unique, later |-> SetToBag({r : i \in 1..n})]
  BY Zenon DEF SourceAsked, AboutSource
<1>2. question.log = log /\ question.unique = unique /\ question.later = SetToBag({r : i \in 1..n})
  BY <1>1
<1>3. \A x \in RunLogs : IsLog(x)
  BY AnalyticsAssumption DEF IsLog
<1>4. unique \in Nat
  BY AnalyticsAssumption
<1>5. r \in Runs
  BY <1>3 DEF IsLog
<1> DEFINE S == {r : i \in 1..n}
<1>6. S \in SUBSET Runs /\ IsFiniteSet(S)
  <2>1. S \in SUBSET {r} /\ IsFiniteSet({r})
    BY FS_Singleton
  <2> HIDE DEF S
  <2> QED  BY <1>5, <2>1, FS_Subset
<1> HIDE DEF S
<1>7. IsLog(log) /\ IsLog(log (+) SetToBag(S))
  BY <1>3, <1>6, LogsAdd
<1>8. /\ AreStats(SourceStats(log, SetToBag(S), unique))
      /\ SetToBag(S) = EmptyBag => IsShare(SourceStats(log, SetToBag(S), unique).limited)
  BY <1>4, <1>7, StatsAreSane
<1>9. Stats = SourceStats(log, SetToBag(S), unique) /\ question.later = SetToBag(S)
  BY <1>2 DEF Stats, S
<1> QED  BY <1>2, <1>4, <1>7, <1>8, <1>9

\* The numbers of a source, and the advice about it.
LEMMA SourcesAreTold ==
  ASSUME SourceAsked
  PROVE  AdviceShowsInTheScore /\ RatesAreShares /\ FailingNeverHelps
<1>1. AdviceShowsInTheScore
  BY LogsAsked, AdviceShows DEF AdviceShowsInTheScore
<1>2. RatesAreShares
  <2> SUFFICES ASSUME AboutSource
               PROVE  /\ \A rate \in {Stats.stale, Stats.parse, Stats.failure} : Stated(rate) => rate \in 0..Whole
                      /\ Stated(Stats.limited) /\ question.later = EmptyBag => Stats.limited \in 0..Whole
    BY DEF RatesAreShares
  <2>1. AreStats(Stats) /\ (question.later = EmptyBag => IsShare(Stats.limited))
    BY LogsAsked
  <2> QED  BY <2>1 DEF AreStats, IsShare, Stated
<1>3. FailingNeverHelps
  <2> DEFINE Severity == [None |-> 0, ReducePolling |-> 1, ManualReview |-> 1, Disable |-> 2]
             Worse(r, limited) == SourceStats(Replaced(question.log, r, FailedRun(limited)), EmptyBag, question.unique)
  <2> SUFFICES ASSUME AboutSource, question.later = EmptyBag,
                      NEW r \in DOMAIN question.log, NEW limited \in BOOLEAN,
                      r.candidates = 0, r.errors = 0, r.limited => limited
               PROVE  /\ QualityScore(Worse(r, limited)) <= QualityScore(Stats)
                      /\ Severity[ShouldDegrade(Worse(r, limited))] >= Severity[ShouldDegrade(Stats)]
    BY DEF FailingNeverHelps
  <2>1. IsLog(question.log) /\ question.unique \in Nat
    BY LogsAsked
  <2>2. Stats = SourceStats(question.log, EmptyBag, question.unique)
    BY DEF Stats
  <2> QED  BY <2>1, <2>2, FailureIsToldWorse
<1> QED  BY <1>1, <1>2, <1>3

LEMMA DiscoveriesAreWon ==
  ASSUME DiscoveryAsked
  PROVE  EveryVoucherIsWonOnce
<1> SUFFICES ASSUME question.about = "discovery"
             PROVE  LET rows == question.rows
                        sums == Summary(rows)
                    IN /\ SumFunction([s \in DOMAIN sums |-> sums[s].wins]) = Cardinality({r.voucher : r \in Rows(rows)})
                       /\ \A s \in DOMAIN sums : sums[s].lead >= 0 /\ sums[s].sized <= sums[s].wins
                       /\ Summary(Reverse(rows)) = sums
  BY DEF EveryVoucherIsWonOnce
<1>1. question.rows \in ObservationLogs
  BY DEF DiscoveryAsked
<1>2. \A rows \in ObservationLogs : rows \in Seq([voucher : {r.voucher : r \in Range(rows)}, source : Int, at : Int])
  BY AnalyticsAssumption, Zenon
<1>3. question.rows \in Seq([voucher : {r.voucher : r \in Range(question.rows)}, source : Int, at : Int])
  BY <1>1, <1>2, Zenon
<1> QED  BY <1>3, SummaryIsSound

LEMMA LateIsAlwaysSeen ==
  ASSUME TimingsAsked
  PROVE  LateIsVisible
<1> SUFFICES ASSUME question.about = "timings"
             PROVE  LET stats == PrecisionStats(question.deltas)
                    IN /\ stats.late > 0 <=> IsLateBeyond(stats.max)
                       /\ stats.sum <= stats.count * stats.max
  BY DEF LateIsVisible
<1>1. PICK n \in 0..MaxTimings : question.deltas \in [1..n -> Deltas]
  BY DEF TimingsAsked
<1>2. n \in Nat
  OBVIOUS
<1>3. Fires(PrecisionStats(question.deltas))
  BY <1>1, <1>2, LatenessShows
<1> QED  BY <1>3 DEF Fires, IsLateBeyond

\* The other steps ask about something else.
LEMMA OtherThanSources ==
  ASSUME \/ AskScore \/ AskRelevance \/ AskPlan
         \/ AskCampaign \/ AskPace \/ AskBudget \/ AskIngest \/ AskCollected \/ AskFed \/ AskStage
         \/ AskCollection \/ AskReplay \/ AskResponse
         \/ AskSend \/ AskMessage \/ AskAlerts \/ AskStart \/ AskDelay \/ AskControl \/ AskCommand
         \/ AskVoucherRow \/ AskAttemptRow \/ AskJobTable
         \/ EvaluateAlerts \/ CallControl \/ TryConsume \/ Observe
  PROVE  question'.about \notin SourceTopics
BY TopicOf DEF SourceTopics

LEMMA SourcesAskedFirst == Init => SourcesAsked
BY DEF Init, SourcesAsked, SourceAsked, DiscoveryAsked, TimingsAsked, RunTableAsked

LEMMA SourcesAskedNext == SourcesAsked /\ [Next]_question => SourcesAsked'
<1> SUFFICES ASSUME SourcesAsked, [Next]_question
             PROVE  SourcesAsked'
  OBVIOUS
<1>1. ASSUME question'.about \notin SourceTopics PROVE SourcesAsked'
  BY <1>1 DEF SourceTopics, SourcesAsked, SourceAsked, DiscoveryAsked, TimingsAsked, RunTableAsked
<1>2. /\ question'.about # "source" => SourceAsked'
      /\ question'.about # "discovery" => DiscoveryAsked'
      /\ question'.about # "timings" => TimingsAsked'
      /\ question'.about # "runs" => RunTableAsked'
  BY DEF SourceAsked, DiscoveryAsked, TimingsAsked, RunTableAsked
<1>3. CASE AskSource
  <2>1. question'.about = "source"
    BY <1>3 DEF AskSource
  <2>2. SourceAsked'
    BY <1>3, Zenon DEF AskSource, SourceAsked
  <2> QED  BY <1>2, <2>1, <2>2 DEF SourcesAsked
<1>4. CASE AskDiscovery
  <2>1. question'.about = "discovery" /\ question'.rows \in ObservationLogs
    BY <1>4 DEF AskDiscovery
  <2>2. DiscoveryAsked'
    BY <2>1 DEF DiscoveryAsked
  <2> QED  BY <1>2, <2>1, <2>2 DEF SourcesAsked
<1>5. CASE AskTimings
  <2>1. PICK n \in 0..MaxTimings, deltas \in UNION {[1..k -> Deltas] : k \in 0..MaxTimings} :
          deltas \in [1..n -> Deltas] /\ question' = [about |-> "timings", deltas |-> deltas]
    BY <1>5 DEF AskTimings
  <2>2. question'.about = "timings" /\ question'.deltas \in [1..n -> Deltas]
    BY <2>1
  <2>3. TimingsAsked'
    BY <2>2, Zenon DEF TimingsAsked
  <2> QED  BY <1>2, <2>2, <2>3 DEF SourcesAsked
<1>6. CASE AskRunTable
  <2>1. question'.about = "runs" /\ question'.runs \in RunTables
    BY <1>6 DEF AskRunTable
  <2>2. RunTableAsked'
    BY <2>1 DEF RunTableAsked
  <2> QED  BY <1>2, <2>1, <2>2 DEF SourcesAsked
<1>7. CASE UNCHANGED question
  BY <1>7 DEF SourcesAsked, SourceAsked, DiscoveryAsked, TimingsAsked, RunTableAsked
<1> QED
  BY <1>1, <1>3, <1>4, <1>5, <1>6, <1>7, OtherThanSources DEF Next, Ask

\* Sources are judged by what they did: the advice shows in the score, failing
\* makes no source look better, every voucher is won by one source, no late job
\* hides, a rate limit and a useless source are told, and the latest run is the
\* one that is shown (analytics, scheduler/report.rs, supervisor.rs,
\* storage/repositories/collector.rs).
THEOREM SourcesAreAlwaysJudged == Spec => []SourcesAreJudged
<1>1. Spec => []RowsAsked
  BY RowsAskedFirst, RowsAskedNext, PTL DEF Spec
<1>2. Spec => []SourcesAsked
  BY SourcesAskedFirst, SourcesAskedNext, PTL DEF Spec
<1>3. RowsAsked /\ SourcesAsked => SourcesAreJudged
  BY SourcesAreTold, DiscoveriesAreWon, LateIsAlwaysSeen, LimitReachesTheStatistics, UselessIsToldOff, LatestIsShown
     DEF RowsAsked, SourcesAsked, SourcesAreJudged
<1> QED  BY <1>1, <1>2, <1>3, PTL

=============================================================================
