----------------------------- MODULE Responses -----------------------------
(***************************************************************************)
(* What the client makes of an answer of the platform: the class of a      *)
(* claim response and the verdict of a session probe (classify.rs, dto.rs, *)
(* client.rs), and what the claim service records of an error.  A text is  *)
(* the set of the needles it contains: whoever writes "not exist" also     *)
(* writes "exist".  The status of a request without a readable answer is   *)
(* None.  A body is                                                        *)
(*   [html, json, error, code, errorMsg, msg, data, user]                  *)
(* where data is the text outside the messages and user tells whether it   *)
(* names an account; a message is None or a text.                          *)
(***************************************************************************)
EXTENDS Basics, Sequences, SequencesExt, FiniteSets, Question

CONSTANTS
  Statuses,      \* HTTP statuses
  Bodies

\* A status is a number.
ASSUME ResponsesAssumption == Statuses \subseteq Nat

\* The text that the given needles spell out, with those inside them.
Spelled(needles) ==
  needles
    \union (IF needles \intersect {"not exist", "already exist"} # {} THEN {"exist"} ELSE {})
    \union (IF needles \intersect {"het han", "het luot"} # {} THEN {"het"} ELSE {})
    \union (IF "chua bat dau" \in needles THEN {"chua"} ELSE {})
    \union (IF "not claimed" \in needles THEN {"claimed"} ELSE {})

SaveCodeRules == [code \in {5, 7} |-> IF code = 5 THEN "AlreadySaved" ELSE "Exhausted"]

\* Mutant: the classes in the order of the claim flow, each once.
SaveKeywordRulesSorted ==
  << <<"RateLimited", {"rate limit"}>>, <<"Ineligible", {"not eligible"}>>,
     <<"NotActive", {"chua"}>>, <<"AlreadySaved", {"exist", "claimed"}>>,
     <<"Exhausted", {"het"}>>, <<"Expired", {"has ended", "het han"}>>,
     <<"InvalidVoucher", {"not exist", "invalid"}>> >>

\* In order, the first match wins.
SaveKeywordRules ==
  << <<"RateLimited", {"rate limit"}>>, <<"Expired", {"has ended", "het han"}>>,
     <<"InvalidVoucher", {"not exist"}>>, <<"Ineligible", {"not eligible"}>>,
     <<"NotActive", {"chua"}>>, <<"AlreadySaved", {"exist", "claimed"}>>,
     <<"Exhausted", {"het"}>>, <<"InvalidVoucher", {"invalid"}>> >>

VerificationMarkers == {"captcha", "verify"}
LoginMarkers        == {"login", "unauthorized"}

EffectiveCode(b) == Otherwise(b.error, b.code)

\* The first message that is there, unless it is blank.
Message(b) ==
  LET text == Otherwise(b.errorMsg, b.msg)
  IN IF text = {} THEN None ELSE text

Haystack(b) == IF b.json /\ Stated(Message(b)) THEN Message(b)
               ELSE b.data \union UNION ({b.errorMsg, b.msg} \ {None})

Matches(b, needles) == Haystack(b) \intersect needles # {}

FirstKeywordRule(b) == SelectInSeq(SaveKeywordRules, LAMBDA rule : Matches(b, rule[2]))

\* classify_save_response.
ClassifySave(status, b) ==
  IF status = 429 THEN "RateLimited"
  ELSE IF status >= 500 THEN "TransientFailure"
  ELSE IF Matches(b, VerificationMarkers) THEN "VerificationRequired"
  ELSE IF status \in {401, 403} THEN "SessionExpired"
  ELSE IF b.html \/ Matches(b, LoginMarkers) THEN "SessionExpired"
  ELSE IF ~b.json THEN "UnknownResponse"
  ELSE IF status = 200 /\ EffectiveCode(b) = 0 THEN "Success"
  ELSE IF EffectiveCode(b) \in DOMAIN SaveCodeRules THEN SaveCodeRules[EffectiveCode(b)]
  ELSE IF FirstKeywordRule(b) # 0 THEN SaveKeywordRules[FirstKeywordRule(b)][1]
  ELSE "UnknownResponse"

\* Mutant: the success code is proof enough.
VerdictByCode(status, b) == IF EffectiveCode(b) = 0 THEN "Healthy" ELSE "Unknown"

\* The envelope's verdict on the session, once no wall is in the way.
Verdict(status, b) ==
  IF ~b.json \/ status # 200 \/ ~Stated(EffectiveCode(b)) THEN "Unknown"
  ELSE IF EffectiveCode(b) # 0 THEN "Expired"
  ELSE IF b.user THEN "Healthy" ELSE "Unknown"

\* Mutant: the status is looked at before the challenge.
ClassifyProbeByStatus(status, b) ==
  IF status = 429 \/ status >= 500 THEN "Transient"
  ELSE IF status \in {401, 403} THEN "Expired"
  ELSE IF Matches(b, VerificationMarkers) THEN "VerificationRequired"
  ELSE IF b.html \/ Matches(b, LoginMarkers) THEN "LoginRequired" ELSE Verdict(status, b)

\* classify_probe_response.
ClassifyProbe(status, b) ==
  IF status = 429 \/ status >= 500 THEN "Transient"
  ELSE IF Matches(b, VerificationMarkers) THEN "VerificationRequired"
  ELSE IF status \in {401, 403} THEN "Expired"
  ELSE IF b.html \/ Matches(b, LoginMarkers) THEN "LoginRequired" ELSE Verdict(status, b)

\* SessionProbe::to_session_state.
SessionStateOf(probe) ==
  IF probe = "Transient" THEN "Degraded" ELSE probe

-----------------------------------------------------------------------------
(* client.rs: no answer, one that cannot be read, and a rate limit are      *)
(* errors, whatever the body.                                               *)

SendAndReadFails(status) == status \in {None, 429}

\* ShopeeClient::execute_claim and ClaimService::attempt_claim, which records
\* whatever error ends the execution as one class. A rate limit is an error.
ExecuteClaim(status, b) ==
  IF SendAndReadFails(status) THEN "TransientFailure" ELSE ClassifySave(status, b)

\* ShopeeClient::probe_session and ClientProber::probe.
ProbeSession(status, b) ==
  IF SendAndReadFails(status) THEN "Degraded" ELSE SessionStateOf(ClassifyProbe(status, b))

AskResponse ==
  \E status \in Statuses \union {None}, b \in Bodies :
    question' = [about |-> "response", status |-> status, body |-> b]

-----------------------------------------------------------------------------
AboutResponse == question.about = "response"

Claimed == ExecuteClaim(question.status, question.body)
Probed  == ProbeSession(question.status, question.body)

\* One and the same answer is a wall on both paths or on neither: the claim
\* and the probe agree on challenges, and on the login page (classify.rs:339).
WallsLookTheSame ==
  AboutResponse =>
    /\ Claimed = "VerificationRequired" <=> Probed = "VerificationRequired"
    /\ Claimed = "SessionExpired" => Probed \in {"Expired", "LoginRequired"}
    /\ Probed = "LoginRequired" => Claimed = "SessionExpired"

\* What is written of a voucher that is over or never was.
RefusalMarkers == {"het han", "has ended", "not exist"}

\* A message that says a voucher is over or does not exist is not read as the
\* part of it that says it is saved or used up (classify.rs:85). Only an explicit
\* code that says so wins over it, and a success only with HTTP 200.
RefusalIsNotSaved ==
  AboutResponse /\ Matches(question.body, RefusalMarkers) =>
    LET code == EffectiveCode(question.body)
    IN /\ Claimed = "Success" => code = 0 /\ question.status = 200
       /\ Claimed = "AlreadySaved" => code = 5
       /\ Claimed = "Exhausted" => code = 7

\* Claiming opens only on a proven account, and then the same answer to a
\* claim would have been a success: nothing else is proof.
HealthyIsProven ==
  AboutResponse /\ Probed = "Healthy" => question.body.user /\ Claimed = "Success"

-----------------------------------------------------------------------------
(* What the repository says and the program does not do *)

\* shopee-client/classify.rs:16: success is never inferred from anything but an
\* explicit success code.
SuccessIsExplicit ==
  AboutResponse /\ Claimed \in {"Success", "AlreadySaved"} =>
    EffectiveCode(question.body) \in {0, 5}

\* shopee-client/error.rs:82: a rate limit is not reported as transient. The
\* claim service records it so.
RateLimitIsNotTransient ==
  AboutResponse /\ question.status = 429 => Claimed = "RateLimited"

=============================================================================
