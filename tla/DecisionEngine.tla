--------------------------- MODULE DecisionEngine ---------------------------
(***************************************************************************)
(* The AI decision engine (ai_decision/engine.py, parsing.py,              *)
(* validation.py, record.py): decide() asks the models of a fallback chain *)
(* one after the other, retries some failures, and turns the first answer  *)
(* into a record, fails closed, or raises.  What a model says is one of    *)
(* Answers; the provider may answer or fail at any call.                   *)
(***************************************************************************)
EXTENDS Integers, Sequences

CONSTANTS MaxAttempts,  \* max_attempts: calls per level
          TimeoutS,     \* timeout_s, in seconds; it bounds each wait for the server
          RetrySleepS,  \* retry_429_sleep_s, in seconds
          Latencies,    \* how long a call that is not timed out takes
          StartAges,    \* age of the market snapshot when decide() is called
          Statuses,     \* how a call may fail
          Answers,      \* what a model may say
          NoAnswer, NoRecord

Levels == 0..2   \* primary, secondary, fallback

AllStatuses == {"TIMEOUT", "TRANSPORT_ERROR", "HTTP429", "HTTP500", "HTTP503",
                "HTTP400", "HTTP401"}

\* A confidence is a percentage.  Outside 0..100 it stands for whatever is
\* rejected: missing, not a number, not finite, out of range.  A reason that is
\* "absent" is missing, no string, or too long; a "phrase" is a forbidden one.
\* "prose" is what the parser rejects, "misshapen" what it stumbles over: a choice
\* that is no object, an SSE chunk or delta that is none, a number beyond a float.
NoConfidence == -1

AllAnswers ==
  [form : {"object", "prose", "misshapen"}, word : {"buy", "sell", "hold", "long"},
   confidence : {NoConfidence} \cup 0..100,
   reason : {"plain", "phrase", "absent"}, forbidden : BOOLEAN]

Records ==
  [validation_ok : BOOLEAN, direction : {"BUY", "SELL", "NO-TRADE"},
   confidence : 0..100, attempts : 0..MaxAttempts, retried : BOOLEAN,
   error_class : {"NONE", "INVALID_CONTEXT", "PARSE_ERROR", "SCHEMA_ERROR",
                  "AUTHORITY_VIOLATION", "PROVIDER_FAILURE"},
   fallback_level : 0..3]

ASSUME DecisionAssumption ==
  /\ MaxAttempts \in Nat \ {0}
  /\ {TimeoutS, RetrySleepS} \cup Latencies \subseteq Nat /\ StartAges \subseteq Int
  /\ Statuses \subseteq AllStatuses
  /\ Answers \subseteq AllAnswers /\ NoAnswer \notin Answers
  /\ NoRecord \notin Records

VARIABLES pc,       \* "off", "context", "calling", "decided", "gated", "raised"
          level, attempt,
          calls,    \* the calls made so far and how each ended
          said,     \* the answer the record was made of, once there is one
          age,      \* seconds since the market snapshot's timestamp
          record    \* the DecisionRecord, once there is one

decisionVars == <<pc, level, attempt, calls, said, age, record>>

-----------------------------------------------------------------------------
(* Parsing and schema validation *)

Parses(a) == a.form = "object"

\* parse_and_normalize() has no answer for it, and decide() does not guard the call.
ParserRaises(a) == a.form = "misshapen"

\* DIRECTION_MAP: aliases, and whatever is unknown, are NO-TRADE.
Direction(a) == CASE a.word = "buy" -> "BUY"
                  [] a.word = "sell" -> "SELL"
                  [] OTHER -> "NO-TRADE"

OversteppedAuthority(a) == a.forbidden \/ a.reason = "phrase"

(* Mutated form: the reason's phrases are not looked at. *)
MutSchemaError(a) ==
  CASE a.forbidden -> "AUTHORITY_VIOLATION"
    [] a.confidence = NoConfidence \/ a.reason = "absent" -> "SCHEMA_ERROR"
    [] OTHER -> "NONE"

SchemaError(a) ==
  CASE OversteppedAuthority(a) -> "AUTHORITY_VIOLATION"
    [] a.confidence = NoConfidence \/ a.reason = "absent" -> "SCHEMA_ERROR"
    [] OTHER -> "NONE"

Record(ok, direction, confidence, error, lv, at, re) ==
  [validation_ok |-> ok, direction |-> direction, confidence |-> confidence,
   error_class |-> error, fallback_level |-> lv, attempts |-> at, retried |-> re]

FailClosed(error, lv, at, re) ==
  Record(FALSE, "NO-TRADE", 0, error, lv, at, re)

RecordOf(a) ==
  LET error == IF Parses(a) THEN SchemaError(a) ELSE "PARSE_ERROR"
  IN  IF error = "NONE"
      THEN Record(TRUE, Direction(a), a.confidence, "NONE",
                  level, attempt + 1, attempt > 0)
      ELSE FailClosed(error, level, attempt + 1, attempt > 0)

-----------------------------------------------------------------------------
(* The chain *)

\* The HTTP codes 500 to 599 are one class.
ClassifyHttp(status) ==
  IF status \in {"HTTP500", "HTTP503"} THEN "HTTP5XX" ELSE status

(* Mutated form: refused requests are retried too. *)
MutRetryable(status) == status # "HTTP401"

Retryable(status) ==
  ClassifyHttp(status) \in {"TIMEOUT", "TRANSPORT_ERROR", "HTTP429", "HTTP5XX"}

(* Mutated form: one attempt too many. *)
MutRetriesLeft == attempt < MaxAttempts

RetriesLeft == attempt + 1 < MaxAttempts

\* Only a wait for the answer is a TIMEOUT: a connection that cannot be established
\* in time is a TRANSPORT_ERROR.
Takes(status) ==
  CASE status = "TIMEOUT" -> {TimeoutS}
    [] status = "TRANSPORT_ERROR" -> Latencies \cup {TimeoutS}
    [] OTHER -> Latencies

Called(status) == calls' = Append(calls, [level |-> level, status |-> status])

DecisionInit ==
  /\ level = 0 /\ attempt = 0 /\ calls = <<>> /\ said = NoAnswer
  /\ record = NoRecord /\ age \in StartAges

\* validate_context finds the context unusable: no inference.
RejectContext ==
  /\ pc = "context" /\ pc' = "decided"
  /\ record' = FailClosed("INVALID_CONTEXT", 0, 0, FALSE)
  /\ UNCHANGED <<level, attempt, calls, said, age>>

Infer ==
  /\ pc = "context" /\ pc' = "calling"
  /\ UNCHANGED <<level, attempt, calls, said, age, record>>

Answered(a, seconds) ==
  /\ pc = "calling" /\ pc' = "decided"
  /\ ~ParserRaises(a)
  /\ Called("OK") /\ said' = a /\ age' = age + seconds
  /\ record' = RecordOf(a)
  /\ UNCHANGED <<level, attempt>>

Failed(status, seconds) ==
  /\ pc = "calling"
  /\ Called(status)
  /\ \/ /\ Retryable(status) /\ RetriesLeft
        /\ attempt' = attempt + 1
        /\ age' = age + seconds + (IF status = "HTTP429" THEN RetrySleepS ELSE 0)
        /\ UNCHANGED <<pc, level, record>>
     \/ /\ ~(Retryable(status) /\ RetriesLeft) /\ level < 2
        /\ level' = level + 1 /\ attempt' = 0 /\ age' = age + seconds
        /\ UNCHANGED <<pc, record>>
     \/ /\ ~(Retryable(status) /\ RetriesLeft) /\ level = 2
        /\ pc' = "decided" /\ age' = age + seconds
        /\ record' = FailClosed("PROVIDER_FAILURE", 3, MaxAttempts, TRUE)
        /\ UNCHANGED <<level, attempt>>
  /\ UNCHANGED said

\* decide() ends in an exception: no record, no retry, no other level.
Raised(status, seconds) ==
  /\ pc = "calling" /\ pc' = "raised"
  /\ Called(status) /\ age' = age + seconds
  /\ UNCHANGED <<level, attempt, said, record>>

\* The handler of an HTTP error reads its body, and what that raises no other
\* handler of the same try catches.
ErrorBodies == {"HTTP429", "HTTP500", "HTTP503", "HTTP400", "HTTP401"}

\* The parser stumbles over the answer, or the body of an error cannot be read.
DecisionRaises ==
  \/ \E a \in Answers, s \in Latencies : ParserRaises(a) /\ Raised("OK", s)
  \/ \E st \in Statuses \cap ErrorBodies, s \in Latencies \cup {TimeoutS} : Raised(st, s)

DecisionStep ==
  \/ RejectContext
  \/ Infer
  \/ \E a \in Answers, s \in Latencies : Answered(a, s)
  \/ DecisionRaises
  \/ \E st \in Statuses : \E s \in Takes(st) : Failed(st, s)
=============================================================================
