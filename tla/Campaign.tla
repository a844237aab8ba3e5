------------------------------ MODULE Campaign ------------------------------
(***************************************************************************)
(* The campaign calendar: which profile is in force at a moment, and how   *)
(* often a source is polled then.  Time is in minutes, intervals are in    *)
(* milliseconds.  A calendar is [campaigns, postures]: a sequence in file  *)
(* order, and the postures the owner configured, by profile.               *)
(***************************************************************************)
EXTENDS Basics, Sequences, SequencesExt, FiniteSets, Functions, Question

CONSTANTS
  MaxOffset,  \* MAX_OFFSET_MINUTES
  Horizon,    \* bound: the last moment that can be represented
  Calendars,
  Moments,
  Bases       \* base intervals of sources

Priority == [Normal |-> 0, Recovery |-> 1, PreCampaign |-> 2, CampaignActive |-> 3]

DefaultPosture ==
  [Normal         |-> [percent |-> 100, min |-> 30, max |-> 3600],
   PreCampaign    |-> [percent |-> 50,  min |-> 20, max |-> 900],
   CampaignActive |-> [percent |-> 25,  min |-> 10, max |-> 300],
   Recovery       |-> [percent |-> 200, min |-> 60, max |-> 7200]]

Profiles == DOMAIN Priority

Windows == [start : 0..Horizon, end : 0..Horizon, profile : Profiles \union {None}]

IsCampaign(c) ==
  /\ c # None
  /\ c.id \in Nat /\ {c.start, c.end} \subseteq 0..Horizon /\ c.enabled \in BOOLEAN
  /\ {c.lead, c.recovery} \subseteq Int
  /\ c.windows \in Seq(Windows)
  /\ c.profile \in Profiles \union {None}
  /\ \A s \in DOMAIN c.overrides : c.overrides[s].percent \in Nat \union {None}

\* Every moment can be represented, no count is negative, and a field that is
\* not stated is told from what states it.
ASSUME CampaignAssumption ==
  /\ Horizon \in Nat /\ Moments \subseteq 0..Horizon /\ Bases \subseteq Nat
  /\ None \notin Profiles \union Windows
  /\ \A cal \in Calendars :
       /\ DOMAIN cal = {"campaigns", "postures"}
       /\ cal.campaigns \in Seq(Range(cal.campaigns)) /\ \A c \in Range(cal.campaigns) : IsCampaign(c)
       /\ \A profile \in DOMAIN cal.postures :
            cal.postures[profile] \in [percent : Nat, min : Nat, max : Nat]

-----------------------------------------------------------------------------
(* calendar.rs.  A campaign is [id, start, end, enabled, lead, recovery,    *)
(* windows, overrides, profile, notification]; a window is [start, end,     *)
(* profile]; overrides map a source to [enabled, percent].  Ids are numbers  *)
(* in their order; the blank one is 0.                                      *)

Within(span, now) == span.start <= now /\ now < span.end

\* Mutant: an offset that cannot be represented is cut off.
OffsetSaturating(base, minutes) == Min2(Max2(base + minutes, 0), Horizon)

Offset(base, minutes) == IF base + minutes \in 0..Horizon THEN base + minutes ELSE None

WarmupStart(c) == Otherwise(Offset(c.start, -c.lead), c.start)
RecoveryEnd(c) == Otherwise(Offset(c.end, c.recovery), c.end)

\* The profile a campaign asks for, or None.
Phase(c, now) ==
  IF ~c.enabled THEN None
  ELSE IF Within(c, now) THEN Otherwise(c.profile, "CampaignActive")
  ELSE IF WarmupStart(c) <= now /\ now < c.start THEN "PreCampaign"
  ELSE IF c.end <= now /\ now < RecoveryEnd(c) THEN "Recovery"
  ELSE None

\* The first window declared that is open.
OpenWindow(c, now) ==
  LET i == SelectInSeq(c.windows, LAMBDA w : Within(w, now))
  IN IF c.enabled /\ i # 0 THEN c.windows[i] ELSE None

WindowIssues(c, w) ==
  IF w.start >= w.end THEN {"InvalidHighInterestWindow"}
  ELSE IF w.start < c.start \/ w.end > c.end THEN {"WindowOutsideCampaign"} ELSE {}

\* Mutant: a window may lie anywhere.
CampaignIssuesLoose(c) ==
  (IF c.id = 0 THEN {"BlankField"} ELSE {})
    \union (IF c.start >= c.end THEN {"InvalidCampaignWindow"} ELSE {})
    \union (IF {c.lead, c.recovery} \subseteq 0..MaxOffset THEN {} ELSE {"OffsetOutOfRange"})

CampaignIssues(c) ==
  (IF c.id = 0 THEN {"BlankField"} ELSE {})
    \union (IF c.start >= c.end THEN {"InvalidCampaignWindow"} ELSE {})
    \union (IF {c.lead, c.recovery} \subseteq 0..MaxOffset THEN {} ELSE {"OffsetOutOfRange"})
    \union (UNION {WindowIssues(c, w) : w \in ToSet(c.windows)})
    \union (IF \E o \in Range(c.overrides) : o.percent = 0 THEN {"ZeroIntervalPercent"} ELSE {})

PostureIssues(p) ==
  (IF p.percent = 0 THEN {"ZeroIntervalPercent"} ELSE {})
    \union (IF p.min = 0 \/ p.min > p.max THEN {"InvalidPostureBounds"} ELSE {})

CalendarIssues(cal) ==
  (UNION {CampaignIssues(c) : c \in ToSet(cal.campaigns)})
    \union (IF \E i, j \in DOMAIN cal.campaigns : i # j /\ cal.campaigns[i].id = cal.campaigns[j].id
            THEN {"DuplicateCampaign"} ELSE {})
    \union (UNION {PostureIssues(p) : p \in Range(cal.postures)})

\* An owner's posture replaces the built-in one.
PostureFor(cal, profile) ==
  IF profile \in DOMAIN cal.postures THEN cal.postures[profile] ELSE DefaultPosture[profile]

-----------------------------------------------------------------------------
(* resolve.rs *)

\* Mutant: the id does not break ties, so the earlier in the file wins.
GovernsLoosely(c, d, now) ==
  \/ Priority[Phase(c, now)] > Priority[Phase(d, now)]
  \/ Phase(c, now) = Phase(d, now) /\ c.start <= d.start

\* The comparison of two campaigns that ask for a profile; ids are ordered.
Governs(c, d, now) ==
  LET p == Priority[Phase(c, now)]
      q == Priority[Phase(d, now)]
  IN \/ p > q
     \/ p = q /\ c.start < d.start
     \/ p = q /\ c.start = d.start /\ c.id <= d.id

\* sort_by is stable: of equals the first in the file remains first.
Governing(cal, now) ==
  LET asking == {i \in DOMAIN cal.campaigns : Stated(Phase(cal.campaigns[i], now))}
      first  == {i \in asking : \A j \in asking : Governs(cal.campaigns[i], cal.campaigns[j], now)}
  IN IF asking = {} THEN None
     ELSE cal.campaigns[CHOOSE i \in first : \A j \in first : i <= j]

\* resolve, given the campaign that governs, if any, and its open window.
Resolved(cal, now, c, w) ==
  LET profile == IF ~Stated(c) THEN "Normal"
                 ELSE IF Stated(w) /\ Stated(w.profile) THEN w.profile ELSE Phase(c, now)
  IN [profile      |-> profile,
      posture      |-> PostureFor(cal, profile),
      campaign     |-> IF Stated(c) THEN c.id ELSE None,
      highInterest |-> Stated(c) /\ Stated(w),
      notification |-> IF Stated(c) THEN Otherwise(c.notification, "default") ELSE "default"]

ResolvedFor(cal, now, c) == Resolved(cal, now, c, IF Stated(c) THEN OpenWindow(c, now) ELSE None)

Resolve(cal, now) == ResolvedFor(cal, now, Governing(cal, now))

\* is_high_interest asks every campaign.
HighInterest(cal, now) == \E c \in ToSet(cal.campaigns) : Stated(OpenWindow(c, now))

\* A campaign's override of the posture; None: the source is skipped.
Overridden(c, source, posture) ==
  IF ~Stated(c) \/ source \notin DOMAIN c.overrides THEN posture
  ELSE LET o == c.overrides[source]
       IN IF o.enabled = FALSE THEN None
          ELSE IF Stated(o.percent) /\ o.percent > 0
            THEN [posture EXCEPT !.percent = o.percent] ELSE posture

SourcePosture(cal, source, now) ==
  Overridden(Governing(cal, now), source, Resolve(cal, now).posture)

\* Mutant: the floor is forgotten.
ApplyUnclamped(p, base) == Min2((base * p.percent) \div 100, 1000 * Max2(p.max, p.min))

\* PollPosture::apply.
Apply(p, base) ==
  Max2(1000 * p.min, Min2((base * p.percent) \div 100, 1000 * Max2(p.max, p.min)))

-----------------------------------------------------------------------------
AskCampaign ==
  \E cal \in Calendars, now \in Moments :
    question' = [about |-> "campaign", calendar |-> cal, now |-> now]

AboutCampaign == question.about = "campaign"

Accepted == CalendarIssues(question.calendar) = {}

Sources == (UNION {DOMAIN c.overrides : c \in ToSet(question.calendar.campaigns)}) \union {"other"}

\* In a calendar that loads, the decision does not depend on the order of the
\* campaigns in the file (resolve.rs:8).
FileOrderIsIrrelevant ==
  AboutCampaign /\ Accepted =>
    LET reversed == [question.calendar EXCEPT !.campaigns = Reverse(@)]
    IN /\ Resolve(reversed, question.now) = Resolve(question.calendar, question.now)
       /\ \A s \in Sources : SourcePosture(reversed, s, question.now)
                               = SourcePosture(question.calendar, s, question.now)

KeepsItsFloor(p, base) ==
  Stated(p) => Apply(p, base) >= 1000 /\ Apply(p, base) \in (1000 * p.min)..(1000 * p.max)

\* Whatever the owner configured and the calendar accepted, a source that is
\* polled is polled with the delay of its profile's floor at least, which is a
\* second or more (profile.rs:10).
NoPollWithoutDelay ==
  AboutCampaign /\ Accepted =>
    \A s \in Sources, base \in Bases :
      KeepsItsFloor(SourcePosture(question.calendar, s, question.now), base)

\* A high-interest window that is open in an accepted calendar finds its
\* campaign running: some campaign governs, and slower polling than that of a
\* running campaign is the owner's explicit wish.
WindowFindsCampaignRunning ==
  AboutCampaign /\ Accepted /\ HighInterest(question.calendar, question.now) =>
    LET answer == Resolve(question.calendar, question.now)
    IN /\ Stated(answer.campaign)
       /\ answer.profile # "CampaignActive" =>
            \E c \in ToSet(question.calendar.campaigns) :
              Stated(c.profile) \/ \E w \in ToSet(c.windows) : Stated(w.profile)

\* A broken offset never widens a campaign (calendar.rs:188): even in a
\* calendar that would be rejected, a campaign that ends after it starts and
\* whose offset is negative or cannot be represented asks for nothing on that
\* side.
BrokenOffsetNeverWidens ==
  AboutCampaign =>
    \A c \in ToSet(question.calendar.campaigns) :
      c.start < c.end /\ Stated(Phase(c, question.now)) =>
        /\ c.lead < 0 \/ c.start - c.lead < 0 => question.now >= c.start
        /\ c.recovery < 0 \/ c.end + c.recovery > Horizon => question.now < c.end

\* resolve.rs:27: high_interest says whether a window is open right now.
OpenWindowIsReported ==
  AboutCampaign /\ Accepted =>
    (HighInterest(question.calendar, question.now)
       => Resolve(question.calendar, question.now).highInterest)

=============================================================================
