--------------------------- MODULE DecisionProofs ----------------------------
(***************************************************************************)
(* The calls of a decision follow the bounded fallback chain, for every    *)
(* number of attempts, every way the calls end and every set of answers;   *)
(* and the approved plan and the paper trade made of it, for every         *)
(* account, market, symbol specification, configuration and run of prices: *)
(* the lot is the largest within the budget, the account keeps its limits, *)
(* only vetted answers trade, and the evidence of a trade is its history.  *)
(***************************************************************************)
EXTENDS DecisionProperties, WellFoundedInduction, TLAPS

Calls == [level : Levels, status : AllStatuses \cup {"OK"}]

\* Before the verdict no call was answered.
Asking == pc \in {"off", "context", "calling"}

\* decide() returned.
Recorded == pc \in {"decided", "gated"}

ChainInv ==
  /\ pc \in {"off", "context", "calling", "decided", "gated", "raised"}
  /\ level \in Levels /\ attempt \in 0..(MaxAttempts - 1) /\ age \in Int
  /\ calls \in Seq(Calls)
  /\ said \in Answers \cup {NoAnswer} /\ record \in Records \cup {NoRecord}
  /\ record # NoRecord <=> Recorded
  /\ pc \in {"off", "context"} => calls = <<>> /\ level = 0 /\ attempt = 0
  /\ ~Recorded => said = NoAnswer

\* The call that is due would continue the calls made so far: its level is that of
\* the last attempt calls and of no other.
DueInv ==
  /\ attempt <= Len(calls)
  /\ \A i \in 1..Len(calls) :
       /\ calls[i].status # "OK" /\ Level(i) <= level
       /\ Level(i) = level <=> i > Len(calls) - attempt
  /\ Len(calls) > 0 =>
       IF attempt > 0 THEN RetryIsSafe(calls[Len(calls)].status)
       ELSE /\ level = Level(Len(calls)) + 1
            /\ \/ ~RetryIsSafe(calls[Len(calls)].status)
               \/ /\ Len(calls) >= MaxAttempts
                  /\ Level(Len(calls) + 1 - MaxAttempts) = Level(Len(calls))

FollowInv ==
  /\ CallsFollowTheChain
  /\ Asking => DueInv

\* Every record is one a decision can yield.
LEMMA RecordIsTyped ==
  /\ \A error \in {"INVALID_CONTEXT", "PROVIDER_FAILURE", "PARSE_ERROR", "SCHEMA_ERROR",
                   "AUTHORITY_VIOLATION"}, lv \in 0..3, at \in 0..MaxAttempts, re \in BOOLEAN :
       FailClosed(error, lv, at, re) \in Records
  /\ \A a \in Answers : level \in Levels /\ attempt \in 0..(MaxAttempts - 1)
                        => RecordOf(a) \in Records
<1>1. \A error \in {"INVALID_CONTEXT", "PROVIDER_FAILURE", "PARSE_ERROR", "SCHEMA_ERROR",
                   "AUTHORITY_VIOLATION"}, lv \in 0..3, at \in 0..MaxAttempts, re \in BOOLEAN :
       FailClosed(error, lv, at, re) \in Records
  BY DEF FailClosed, Record, Records
<1>2. ASSUME NEW a \in Answers, level \in Levels, attempt \in 0..(MaxAttempts - 1)
      PROVE  RecordOf(a) \in Records
  <2>1. a \in AllAnswers
    BY DecisionAssumption
  <2>2. level \in 0..3 /\ attempt + 1 \in 0..MaxAttempts /\ (attempt > 0) \in BOOLEAN
    BY <1>2, DecisionAssumption DEF Levels
  <2>3. SchemaError(a) \in {"AUTHORITY_VIOLATION", "SCHEMA_ERROR", "NONE"}
    BY DEF SchemaError
  <2>4. SchemaError(a) = "NONE" => a.confidence \in 0..100
    BY <2>1 DEF SchemaError, AllAnswers, NoConfidence
  <2>5. Direction(a) \in {"BUY", "SELL", "NO-TRADE"}
    BY DEF Direction
  <2>6. CASE Parses(a) /\ SchemaError(a) = "NONE"
    BY <2>2, <2>4, <2>5, <2>6 DEF RecordOf, Record, Records
  <2>7. CASE ~(Parses(a) /\ SchemaError(a) = "NONE")
    BY <1>1, <2>2, <2>3, <2>7 DEF RecordOf
  <2> QED BY <2>6, <2>7
<1> QED BY <1>1, <1>2

LEMMA StatusesAreTyped ==
  /\ \A status \in Statuses : \A seconds \in Takes(status) :
       seconds \in Nat /\ status \in AllStatuses /\ status # "OK"
  /\ \A status \in AllStatuses : Retryable(status) <=> RetryIsSafe(status)
  /\ Latencies \subseteq Nat /\ RetrySleepS \in Nat
BY DecisionAssumption DEF Takes, AllStatuses, Retryable, ClassifyHttp, RetryIsSafe

\* The call that is due is made, and ends somehow.
LEMMA CallContinues ==
  ASSUME ChainInv, FollowInv, Asking, NEW status \in AllStatuses \cup {"OK"}, Called(status)
  PROVE  /\ calls' \in Seq(Calls) /\ Len(calls') = Len(calls) + 1 /\ Len(calls) \in Nat
         /\ \A i \in 1..Len(calls) : calls'[i] = calls[i]
         /\ calls'[Len(calls) + 1] = [level |-> level, status |-> status]
         /\ BoundedCalls' /\ NoLevelGivenUpEarly' /\ AnswerIsLast'
         /\ \A i \in 1..Len(calls') :
              Level(i)' <= level /\ (Level(i)' = level <=> i > Len(calls) - attempt)
<1> DEFINE n == Len(calls)
<1>1. /\ calls' \in Seq(Calls) /\ Len(calls') = n + 1 /\ n \in Nat
      /\ \A i \in 1..n : calls'[i] = calls[i]
      /\ calls'[n + 1] = [level |-> level, status |-> status]
      /\ DOMAIN calls' = 1..(n + 1)
  BY DEF Called, ChainInv, Calls
<1>2. /\ \A i \in 1..n : calls[i].level \in Levels /\ calls[i].status \in AllStatuses \cup {"OK"}
      /\ level \in Levels /\ attempt \in 0..(MaxAttempts - 1) /\ MaxAttempts \in Nat \ {0}
      /\ Levels \subseteq Nat
  <2>1. \A i \in 1..n : calls[i] \in Calls
    BY <1>1 DEF ChainInv
  <2> QED BY <2>1, DecisionAssumption DEF Calls, ChainInv, Levels
<1>3. /\ attempt <= n
      /\ \A i \in 1..n : /\ calls[i].status # "OK" /\ calls[i].level <= level
                         /\ calls[i].level = level <=> i > n - attempt
  BY DEF FollowInv, DueInv, Level
<1>4. \A i \in 1..(n + 1) :
        Level(i)' <= level /\ (Level(i)' = level <=> i > n - attempt)
  BY <1>1, <1>2, <1>3 DEF Level
<1>5. BoundedCalls'
  <2>1. ASSUME NEW i \in 1..(Len(calls') - 1) PROVE Level(i)' <= Level(i + 1)'
    <3>1. CASE i < n
      BY <1>1, <2>1, <3>1 DEF FollowInv, CallsFollowTheChain, BoundedCalls, Level
    <3>2. CASE i = n
      BY <1>1, <1>3, <2>1, <3>2 DEF Level
    <3> QED BY <1>1, <2>1, <3>1, <3>2
  <2>2. ASSUME NEW i \in 1..(Len(calls') - MaxAttempts) PROVE Level(i)' < Level(i + MaxAttempts)'
    <3>0. i \in Nat /\ 1 <= i /\ i + MaxAttempts <= n + 1 /\ i \in 1..n
      BY <1>1, <1>2, <2>2
    <3>1. CASE i + MaxAttempts <= n
      <4>1. i \in 1..(n - MaxAttempts) /\ i + MaxAttempts \in 1..n
        BY <1>1, <1>2, <3>0, <3>1
      <4> QED BY <1>1, <3>0, <4>1 DEF FollowInv, CallsFollowTheChain, BoundedCalls, Level
    <3>2. CASE i + MaxAttempts = n + 1
      <4>1. ~(i > n - attempt)
        BY <1>1, <1>2, <3>0, <3>2
      <4>2. calls[i].level < level
        <5>1. calls[i].level \in Int /\ level \in Int
          BY <1>2, <3>0 DEF Levels
        <5>2. calls[i].level <= level /\ calls[i].level # level
          BY <1>3, <3>0, <4>1
        <5> QED BY <5>1, <5>2
      <4>3. calls'[i + MaxAttempts] = calls'[n + 1] /\ calls'[i] = calls[i]
        BY <1>1, <3>0, <3>2
      <4>4. calls'[i + MaxAttempts].level = level
        BY <1>1, <4>3
      <4> QED BY <4>2, <4>3, <4>4 DEF Level
    <3> QED BY <1>1, <1>2, <3>0, <3>1, <3>2
  <2> QED BY <2>1, <2>2 DEF BoundedCalls
<1>6. NoLevelGivenUpEarly'
  <2> SUFFICES ASSUME NEW i \in 1..n
               PROVE  IF Level(i + 1)' = Level(i)' THEN RetryIsSafe(calls'[i].status)
                      ELSE /\ Level(i + 1)' = Level(i)' + 1
                           /\ \/ ~RetryIsSafe(calls'[i].status)
                              \/ i >= MaxAttempts /\ Level(i + 1 - MaxAttempts)' = Level(i)'
    BY <1>1 DEF NoLevelGivenUpEarly, RetryIsSafe
  <2>0. i >= MaxAttempts => i + 1 - MaxAttempts \in 1..n
    BY <1>1, <1>2
  <2>1. CASE i < n
    <3>1. i \in 1..(n - 1) /\ i + 1 \in 1..n
      BY <1>1, <2>1
    <3> QED
      BY <1>1, <2>0, <3>1 DEF FollowInv, CallsFollowTheChain, NoLevelGivenUpEarly, Level
  <2>2. CASE i = n
    <3>1. calls'[i] = calls[i] /\ calls'[i + 1].level = level
      BY <1>1, <2>2
    <3>2. Len(calls) > 0
      BY <1>1, <2>2
    <3>3. CASE attempt > 0
      <4>1. calls[i].level = level
        BY <1>1, <1>2, <1>3, <2>2, <3>3
      <4> QED BY <2>2, <3>1, <3>2, <3>3, <4>1 DEF FollowInv, DueInv, Level
    <3>4. CASE ~(attempt > 0)
      <4>1. /\ level = calls[i].level + 1
            /\ \/ ~RetryIsSafe(calls[i].status)
               \/ i >= MaxAttempts /\ calls[i + 1 - MaxAttempts].level = calls[i].level
        BY <2>2, <3>2, <3>4 DEF FollowInv, DueInv, Level
      <4>2. level # calls[i].level
        BY <1>2, <4>1
      <4> QED BY <1>1, <2>0, <3>1, <4>1, <4>2 DEF Level
    <3> QED BY <3>3, <3>4
  <2> QED BY <1>1, <2>1, <2>2
<1>7. AnswerIsLast'
  BY <1>1, <1>3 DEF AnswerIsLast
<1> QED BY <1>1, <1>4, <1>5, <1>6, <1>7

\* A call that failed is retried, or is followed by the next level's first.
LEMMA FailureContinues ==
  ASSUME ChainInv, FollowInv, Asking, NEW status \in Statuses, Called(status),
         \/ /\ Retryable(status) /\ RetriesLeft
            /\ attempt' = attempt + 1 /\ level' = level
         \/ /\ ~(Retryable(status) /\ RetriesLeft)
            /\ level' = level + 1 /\ attempt' = 0
  PROVE  DueInv'
<1> DEFINE n == Len(calls)
<1>1. status \in AllStatuses /\ status # "OK"
  BY DecisionAssumption DEF AllStatuses
<1>2. /\ calls' \in Seq(Calls) /\ Len(calls') = n + 1 /\ n \in Nat
      /\ \A i \in 1..n : calls'[i] = calls[i]
      /\ calls'[n + 1] = [level |-> level, status |-> status]
      /\ \A i \in 1..(n + 1) : Level(i)' <= level /\ (Level(i)' = level <=> i > n - attempt)
  BY <1>1, CallContinues
<1>3. level \in Int /\ attempt \in 0..(MaxAttempts - 1) /\ MaxAttempts \in Nat \ {0}
  BY DecisionAssumption DEF ChainInv, Levels
<1>4. \A i \in 1..(n + 1) : Level(i)' \in Int /\ calls'[i].status # "OK"
  <2>1. \A i \in 1..(n + 1) : calls'[i] \in Calls
    BY <1>2
  <2>2. \A i \in 1..n : calls[i].status # "OK"
    BY DEF FollowInv, DueInv
  <2> QED BY <1>1, <1>2, <2>1, <2>2 DEF Calls, Level, Levels
<1>5. attempt <= n
  BY DEF FollowInv, DueInv
<1>6. Retryable(status) <=> RetryIsSafe(status)
  BY <1>1, StatusesAreTyped
<1>7. calls'[Len(calls')].status = status /\ calls'[Len(calls')].level = level
  <2>1. calls'[Len(calls')] = calls'[n + 1]
    BY <1>2
  <2> QED BY <1>2, <2>1
<1>8. CASE Retryable(status) /\ RetriesLeft /\ attempt' = attempt + 1 /\ level' = level
  <2>1. /\ attempt' <= Len(calls') /\ attempt' > 0
        /\ Len(calls') - attempt' = n - attempt
    BY <1>2, <1>3, <1>5, <1>8
  <2> QED BY <1>2, <1>4, <1>6, <1>7, <1>8, <2>1 DEF DueInv, Level, RetryIsSafe
<1>9. CASE /\ ~(Retryable(status) /\ RetriesLeft)
           /\ level' = level + 1 /\ attempt' = 0
  <2>1. \A i \in 1..(n + 1) : Level(i)' <= level' /\ Level(i)' # level'
    BY <1>2, <1>3, <1>4, <1>9
  <2>2. ~(attempt' > 0) /\ attempt' <= n + 1 /\ \A i \in 1..(n + 1) : ~(i > n + 1 - attempt')
    BY <1>2, <1>9
  <2>3. \/ ~RetryIsSafe(status)
        \/ n + 1 >= MaxAttempts /\ calls'[n + 1 + 1 - MaxAttempts].level = level
    <3> SUFFICES ASSUME ~RetriesLeft
                 PROVE  n + 1 >= MaxAttempts /\ calls'[n + 1 + 1 - MaxAttempts].level = level
      BY <1>6, <1>9
    <3>1. attempt = MaxAttempts - 1
      BY <1>3 DEF RetriesLeft
    <3>2. n + 1 >= MaxAttempts /\ n + 1 + 1 - MaxAttempts \in 1..(n + 1)
      BY <1>2, <1>3, <1>5, <3>1
    <3>3. n + 1 + 1 - MaxAttempts > n - attempt
      BY <1>2, <1>3, <3>1
    <3> QED BY <1>2, <3>2, <3>3 DEF Level
  <2>4. level' = calls'[Len(calls')].level + 1
    BY <1>7, <1>9
  <2>5. /\ attempt' <= Len(calls')
        /\ \A i \in 1..Len(calls') :
             /\ calls'[i].status # "OK" /\ Level(i)' <= level'
             /\ Level(i)' = level' <=> i > Len(calls') - attempt'
    <3>1. Len(calls') = n + 1
      BY <1>2
    <3>2. \A i \in 1..(n + 1) : calls'[i].status # "OK"
      BY <1>4
    <3>3. attempt' <= Len(calls')
      BY <1>2, <1>9
    <3>4. ASSUME NEW i \in 1..(n + 1)
          PROVE  Level(i)' <= level' /\ (Level(i)' = level' <=> i > n + 1 - attempt')
      BY <2>1, <2>2 DEF Level
    <3>5. n \in Nat /\ attempt' = 0
      BY <1>2, <1>9
    <3>6. ASSUME NEW i \in 1..Len(calls')
          PROVE  /\ calls'[i].status # "OK" /\ Level(i)' <= level'
                 /\ Level(i)' = level' <=> i > Len(calls') - attempt'
      BY <3>1, <3>2, <3>4, <3>5
    <3> QED BY <3>3, <3>6
  <2>6. \/ ~RetryIsSafe(calls'[Len(calls')].status)
        \/ /\ Len(calls') >= MaxAttempts
           /\ calls'[Len(calls') + 1 - MaxAttempts].level = calls'[Len(calls')].level
    <3>1. Len(calls') = n + 1
      BY <1>2
    <3> QED BY <1>7, <2>3, <3>1, Zenon DEF RetryIsSafe
  <2> QED BY <2>2, <2>4, <2>5, <2>6 DEF DueInv, Level, RetryIsSafe
<1> QED BY <1>8, <1>9

LEMMA ChainStarts ==
  ASSUME Init
  PROVE  ChainInv /\ FollowInv
<1>1. ChainInv
  BY DecisionAssumption DEF Init, DecisionInit, ChainInv, Asking, Recorded, Levels
<1>2. calls = <<>> /\ Len(calls) = 0 /\ attempt = 0 /\ said = NoAnswer /\ MaxAttempts \in Nat
  BY DecisionAssumption DEF Init, DecisionInit
<1>3. CallsFollowTheChain
  BY <1>2 DEF CallsFollowTheChain, BoundedCalls, AnswerIsLast, NoLevelGivenUpEarly,
              RecordTellsTheCalls
<1> QED BY <1>1, <1>2, <1>3 DEF FollowInv, DueInv

LEMMA ChainFrame ==
  ASSUME ChainInv, FollowInv, UNCHANGED <<level, attempt, calls, said, record>>,
         pc' = pc \/ (pc = "context" /\ pc' = "calling") \/ (pc = "decided" /\ pc' = "gated"),
         age' = age
  PROVE  ChainInv' /\ FollowInv'
<1>1. (Asking' <=> Asking) /\ (Recorded' <=> Recorded)
  BY DEF Asking, Recorded
<1>2. ChainInv'
  BY <1>1 DEF ChainInv
<1>3. FollowInv'
  BY <1>1 DEF FollowInv, DueInv, CallsFollowTheChain, BoundedCalls, AnswerIsLast,
              NoLevelGivenUpEarly, RecordTellsTheCalls, Level
<1> QED BY <1>2, <1>3

LEMMA AnswerKeepsChain ==
  ASSUME ChainInv, FollowInv, NEW a \in Answers, NEW seconds \in Latencies,
         Answered(a, seconds)
  PROVE  ChainInv' /\ FollowInv'
<1>1. Asking /\ ~Asking' /\ Called("OK") /\ said' = a /\ record' = RecordOf(a)
      /\ age' = age + seconds /\ level' = level /\ attempt' = attempt
  BY DEF Answered, Asking
<1>2. /\ calls' \in Seq(Calls) /\ Len(calls') = Len(calls) + 1 /\ Len(calls) \in Nat
      /\ BoundedCalls' /\ NoLevelGivenUpEarly' /\ AnswerIsLast'
      /\ \A i \in 1..Len(calls') : Level(i)' = level <=> i > Len(calls) - attempt
  BY <1>1, CallContinues
<1>3. level \in Levels /\ attempt \in 0..(MaxAttempts - 1) /\ MaxAttempts \in Nat
  BY DecisionAssumption DEF ChainInv
<1>4. record' \in Records
  BY <1>1, <1>3, RecordIsTyped
<1>5. ChainInv'
  <2>1. age' \in Int
    BY <1>1, StatusesAreTyped DEF ChainInv
  <2>2. record' # NoRecord
    BY <1>4, DecisionAssumption
  <2> QED BY <1>1, <1>2, <1>3, <1>4, <2>1, <2>2 DEF ChainInv, Answered, Asking, Recorded
<1>6. RecordTellsTheCalls'
  <2>1. /\ record'.fallback_level = level /\ record'.attempts = attempt + 1
        /\ record'.retried = (attempt > 0)
    BY <1>1 DEF RecordOf, FailClosed, Record
  <2>2. (attempt > 0) <=> (attempt + 1 > 1)
    BY <1>3
  <2>3. \A i \in 1..Len(calls') :
          Level(i)' = record'.fallback_level <=> i > Len(calls') - record'.attempts
    BY <1>2, <1>3, <2>1
  <2>4. record'.retried = (record'.attempts > 1)
    BY <2>1, <2>2
  <2>5. DOMAIN calls' = 1..Len(calls')
    BY <1>2
  <2> QED BY <2>3, <2>4, <2>5 DEF RecordTellsTheCalls
<1>7. FollowInv'
  BY <1>1, <1>2, <1>6 DEF FollowInv, CallsFollowTheChain
<1> QED BY <1>5, <1>7

LEMMA FailureKeepsChain ==
  ASSUME ChainInv, FollowInv, NEW status \in Statuses, NEW seconds \in Takes(status),
         Failed(status, seconds)
  PROVE  ChainInv' /\ FollowInv'
<1>1. Asking /\ Called(status) /\ said' = said /\ said = NoAnswer /\ record = NoRecord
      /\ pc = "calling"
  BY DEF Failed, Asking, Recorded, ChainInv
<1>2. status \in AllStatuses /\ seconds \in Nat /\ RetrySleepS \in Nat
  BY StatusesAreTyped
<1>3. /\ calls' \in Seq(Calls) /\ BoundedCalls' /\ NoLevelGivenUpEarly' /\ AnswerIsLast'
  BY <1>1, <1>2, CallContinues
<1>4. CallsFollowTheChain'
  BY <1>1, <1>3 DEF CallsFollowTheChain, RecordTellsTheCalls
<1>5. age' \in Int
  <2>1. \/ age' = age + seconds
        \/ age' = age + seconds + (IF status = "HTTP429" THEN RetrySleepS ELSE 0)
    BY DEF Failed
  <2>2. age \in Int
    BY DEF ChainInv
  <2> QED BY <1>2, <2>1, <2>2
<1>6. level \in Levels /\ attempt \in 0..(MaxAttempts - 1) /\ MaxAttempts \in Nat \ {0}
  BY DecisionAssumption DEF ChainInv
<1>7. CASE /\ Retryable(status) /\ RetriesLeft
           /\ attempt' = attempt + 1 /\ UNCHANGED <<pc, level, record>>
  <2>1. attempt' \in 0..(MaxAttempts - 1)
    BY <1>6, <1>7 DEF RetriesLeft
  <2>2. DueInv'
    BY <1>1, <1>7, FailureContinues
  <2> QED BY <1>1, <1>3, <1>4, <1>5, <1>6, <1>7, <2>1, <2>2 DEF ChainInv, FollowInv, Asking, Recorded
<1>8. CASE /\ ~(Retryable(status) /\ RetriesLeft) /\ level < 2
           /\ level' = level + 1 /\ attempt' = 0 /\ UNCHANGED <<pc, record>>
  <2>1. attempt' \in 0..(MaxAttempts - 1) /\ level' \in Levels
    BY <1>6, <1>8 DEF Levels
  <2>2. DueInv'
    BY <1>1, <1>8, FailureContinues
  <2> QED BY <1>1, <1>3, <1>4, <1>5, <1>6, <1>8, <2>1, <2>2 DEF ChainInv, FollowInv, Asking, Recorded
<1>9. CASE /\ pc' = "decided" /\ UNCHANGED <<level, attempt>>
           /\ record' = FailClosed("PROVIDER_FAILURE", 3, MaxAttempts, TRUE)
  <2>1. record' \in Records
    BY <1>6, <1>9 DEF FailClosed, Record, Records
  <2>2. record' # NoRecord
    BY <2>1, DecisionAssumption
  <2> QED BY <1>1, <1>3, <1>4, <1>5, <1>6, <1>9, <2>1, <2>2 DEF ChainInv, FollowInv, Asking, Recorded
<1> QED BY <1>7, <1>8, <1>9 DEF Failed

\* An exception comes out of a call: not of one that timed out.
LEMMA RaiseIsACall ==
  ASSUME DecisionRaises
  PROVE  \E status \in AllStatuses \cup {"OK"}, seconds \in Nat :
           Raised(status, seconds) /\ status # "TIMEOUT"
<1>1. Latencies \cup {TimeoutS} \subseteq Nat /\ ErrorBodies \subseteq AllStatuses
  BY DecisionAssumption DEF ErrorBodies, AllStatuses
<1>2. CASE \E a \in Answers, s \in Latencies : ParserRaises(a) /\ Raised("OK", s)
  BY <1>1, <1>2
<1>3. CASE \E st \in Statuses \cap ErrorBodies, s \in Latencies \cup {TimeoutS} : Raised(st, s)
  BY <1>1, <1>3 DEF ErrorBodies
<1> QED BY <1>2, <1>3 DEF DecisionRaises

LEMMA RaiseKeepsChain ==
  ASSUME ChainInv, FollowInv, NEW status \in AllStatuses \cup {"OK"}, NEW seconds \in Nat,
         Raised(status, seconds)
  PROVE  ChainInv' /\ FollowInv'
<1>1. /\ Asking /\ ~Recorded /\ ~Asking' /\ ~Recorded' /\ pc' = "raised" /\ Called(status)
      /\ UNCHANGED <<level, attempt, said, record>> /\ age' = age + seconds
  BY DEF Raised, Asking, Recorded
<1>2. /\ calls' \in Seq(Calls)
      /\ BoundedCalls' /\ NoLevelGivenUpEarly' /\ AnswerIsLast'
  BY <1>1, CallContinues
<1>3. ChainInv'
  BY <1>1, <1>2 DEF ChainInv
<1>4. RecordTellsTheCalls'
  BY <1>1 DEF ChainInv, RecordTellsTheCalls
<1> QED BY <1>1, <1>2, <1>3, <1>4 DEF FollowInv, CallsFollowTheChain

LEMMA NextKeepsChain ==
  ASSUME ChainInv, FollowInv, [Next]_vars
  PROVE  ChainInv' /\ FollowInv'
<1>1. CASE RejectContext
  <2>1. record' \in Records
    BY <1>1, DecisionAssumption DEF RejectContext, FailClosed, Record, Records
  <2>2. record' # NoRecord
    BY <2>1, DecisionAssumption
  <2>3. ChainInv'
    BY <1>1, <2>1, <2>2 DEF RejectContext, ChainInv, Asking, Recorded
  <2>4. CallsFollowTheChain'
    BY <1>1 DEF RejectContext, ChainInv, Asking, Recorded, FollowInv, CallsFollowTheChain, BoundedCalls,
                AnswerIsLast, NoLevelGivenUpEarly, RecordTellsTheCalls, Level
  <2> QED BY <1>1, <2>3, <2>4 DEF RejectContext, FollowInv, Asking
<1>2. CASE Infer
  BY <1>2, ChainFrame DEF Infer
<1>3. ASSUME NEW a \in Answers, NEW s \in Latencies, Answered(a, s)
      PROVE  ChainInv' /\ FollowInv'
  BY <1>3, AnswerKeepsChain
<1>4. ASSUME NEW st \in Statuses, NEW s \in Takes(st), Failed(st, s)
      PROVE  ChainInv' /\ FollowInv'
  BY <1>4, FailureKeepsChain
<1>5. ASSUME NEW case \in Cases, Gate(case)
      PROVE  ChainInv' /\ FollowInv'
  BY <1>5, ChainFrame DEF Gate
<1>6. CASE UNCHANGED decisionVars
  BY <1>6, ChainFrame DEF decisionVars
<1>7. CASE DecisionRaises
  BY <1>7, RaiseIsACall, RaiseKeepsChain
<1> QED BY <1>1, <1>2, <1>3, <1>4, <1>5, <1>6, <1>7 DEF Next, DecisionStep, vars

LEMMA ChainIsInvariant == Spec => [](ChainInv /\ FollowInv)
<1>1. Init => ChainInv /\ FollowInv
  BY ChainStarts
<1>2. (ChainInv /\ FollowInv) /\ [Next]_vars => (ChainInv /\ FollowInv)'
  BY NextKeepsChain
<1> QED BY <1>1, <1>2, PTL DEF Spec

\* The calls of every decision are those of the bounded fallback chain, and its
\* record tells them truly (ai_decision/engine.py, decide): for every number of
\* attempts, every set of failures and answers, and however long each call takes.
THEOREM CallsFollowTheChainHolds == Spec => []CallsFollowTheChain
<1>1. FollowInv => CallsFollowTheChain
  BY DEF FollowInv
<1> QED BY <1>1, ChainIsInvariant, PTL

-----------------------------------------------------------------------------
(* Arithmetic *)

\* A set of naturals has a least element, which Min chooses.
LEMMA MinIsLeast ==
  ASSUME NEW T, T \subseteq Nat, T # {}
  PROVE  Min(T) \in T /\ \A y \in T : Min(T) <= y
<1>1. PICK x \in T : \A y \in T : ~(<<y, x>> \in OpToRel(<, Nat))
  BY WFMin, NatLessThanWellFounded, Zenon
<1>2. \A y \in T : ~(y < x)
  BY <1>1 DEF OpToRel
<1>3. \A y \in T : x <= y
  BY <1>2
<1> QED BY <1>3 DEF Min

\* Rounding down to the grid.
LEMMA RoundedDown ==
  ASSUME NEW n \in Nat, NEW step \in Nat \ {0}
  PROVE  /\ RoundDownStep(n, step) \in Nat
         /\ RoundDownStep(n, step) <= n /\ n < RoundDownStep(n, step) + step
         /\ RoundDownStep(n, step) % step = 0
<1> DEFINE k == n \div step
<1>1. k \in Nat /\ k * step <= n /\ n < k * step + step /\ k * step \in Nat
  OBVIOUS
<1> HIDE DEF k
<1>2. (k * step) % step = 0
  BY <1>1
<1> QED BY <1>1, <1>2 DEF RoundDownStep, k

LEMMA ProductsKeepOrder ==
  ASSUME NEW m \in Nat, NEW n \in Nat, NEW d \in Nat
  PROVE  /\ m * d \in Nat
         /\ m <= n => m * d <= n * d
         /\ m > 0 /\ d > 0 => m * d > 0
OBVIOUS

\* Cents are rounded to the nearest.
LEMMA CentsAreNear ==
  ASSUME NEW x \in Int
  PROVE  Cents(x) \in Int /\ Cents(x) >= x - 49 /\ Cents(x) <= x + 50
BY DEF Cents

-----------------------------------------------------------------------------
(* The checks *)

LEMMA FirstFailureIsOne ==
  ASSUME NEW checks, DOMAIN checks \subseteq Nat
  PROVE  \/ /\ FirstFailure(checks) = "APPROVED"
            /\ \A i \in DOMAIN checks : ~checks[i].applies
         \/ \E i \in DOMAIN checks :
              checks[i].applies /\ FirstFailure(checks) = checks[i].code
<1> DEFINE failing == {i \in DOMAIN checks : checks[i].applies}
<1>1. CASE failing = {}
  BY <1>1 DEF FirstFailure
<1>2. CASE failing # {}
  <2>1. Min(failing) \in failing
    BY <1>2, MinIsLeast
  <2> QED BY <1>2, <2>1 DEF FirstFailure
<1> QED BY <1>1, <1>2

\* What an approved proposal has passed.
Passed(p, a, m, s, seconds) ==
  /\ p.validation_ok /\ p.direction \in {"BUY", "SELL"} /\ ~(p.confidence < MinConfidence)
  /\ AccountValid(a) /\ MarketValid(m) /\ SpecValid(s) /\ ConfigValid /\ ~Stale(m, seconds)
  /\ ~(m.spread > MaxSpread) /\ ~(a.drawdown >= MaxDrawdown) /\ ~(a.positions >= MaxPositions)
  /\ ~(Capital(a) <= 0) /\ ~(SlDistance(s) <= ObservedSpread)
  /\ ~(CandidateLot(a, s) < s.volumeMin)
  /\ ~(a.exposure + Cents(Exposure(p.direction, a, m, s))
         > (Capital(a) \div 100) * ExposureRatio)
  /\ ~(a.freeMargin - RequiredMargin(p.direction, a, m, s) < RequiredFreeMargin(a))

LEMMA ApprovedHasPassed ==
  ASSUME NEW p, NEW a, NEW m, NEW s, NEW seconds, Verdict(p, a, m, s, seconds) = "APPROVED"
  PROVE  Passed(p, a, m, s, seconds)
<1> DEFINE input == InputChecks(p, a, m, s, seconds)
           plan == PlanChecks(p, a, m, s)
           limit == LimitChecks(p, a, m, s)
<1>1. /\ DOMAIN input = 1..12 /\ \A i \in 1..12 : input[i].code # "APPROVED"
      /\ DOMAIN plan = 1..4 /\ \A i \in 1..4 : plan[i].code # "APPROVED"
      /\ DOMAIN limit = 1..3 /\ \A i \in 1..3 : limit[i].code # "APPROVED"
  BY DEF InputChecks, PlanChecks, LimitChecks, Check
<1>2. /\ FirstFailure(input) = "APPROVED" /\ FirstFailure(plan) = "APPROVED"
      /\ FirstFailure(limit) = "APPROVED"
  BY DEF Verdict
<1> HIDE DEF input, plan, limit
<1>3. /\ \A i \in 1..12 : ~input[i].applies
      /\ \A i \in 1..4 : ~plan[i].applies
      /\ \A i \in 1..3 : ~limit[i].applies
  BY <1>1, <1>2, FirstFailureIsOne
<1>4. /\ p.validation_ok /\ p.direction \in {"BUY", "SELL"}
      /\ ~(p.confidence < MinConfidence)
      /\ AccountValid(a) /\ MarketValid(m) /\ SpecValid(s) /\ ConfigValid /\ ~Stale(m, seconds)
      /\ ~(m.spread > MaxSpread) /\ ~(a.drawdown >= MaxDrawdown)
      /\ ~(a.positions >= MaxPositions)
  <2>1. /\ ~input[1].applies /\ ~input[2].applies /\ ~input[3].applies
        /\ ~input[4].applies /\ ~input[5].applies /\ ~input[6].applies
        /\ ~input[7].applies /\ ~input[8].applies /\ ~input[9].applies
        /\ ~input[10].applies /\ ~input[11].applies /\ ~input[12].applies
    BY <1>3
  <2> QED BY <2>1 DEF input, InputChecks, Check
<1>5. /\ ~(Capital(a) <= 0) /\ ~(SlDistance(s) <= ObservedSpread)
      /\ ~(CandidateLot(a, s) < s.volumeMin)
  <2>1. ~plan[1].applies /\ ~plan[3].applies /\ ~plan[4].applies
    BY <1>3
  <2> QED BY <2>1 DEF plan, PlanChecks, Check
<1>6. /\ ~(a.exposure + Cents(Exposure(p.direction, a, m, s))
             > (Capital(a) \div 100) * ExposureRatio)
      /\ ~(a.freeMargin - RequiredMargin(p.direction, a, m, s) < RequiredFreeMargin(a))
  <2> DEFINE exposed == a.exposure + Cents(Exposure(p.direction, a, m, s))
                          > (Capital(a) \div 100) * ExposureRatio
             short == a.freeMargin - RequiredMargin(p.direction, a, m, s)
                        < RequiredFreeMargin(a)
             risky == FinalLot(a, s) * LossPerHundredth(s) > Budget(a) + Budget(a) \div 10000
  <2>1. ~limit[1].applies /\ ~limit[2].applies
    BY <1>3
  <2>2. limit = <<Check("EXPOSURE_LIMIT", exposed), Check("INSUFFICIENT_MARGIN", short),
                  Check("RISK_LIMIT", risky)>>
    BY DEF limit, LimitChecks
  <2> HIDE DEF exposed, short, risky
  <2>3. ~exposed /\ ~short
    BY <2>1, <2>2 DEF Check
  <2> QED BY <2>3 DEF exposed, short
<1> QED BY <1>4, <1>5, <1>6 DEF Passed

LEMMA FirstFailureIsReason ==
  ASSUME NEW checks, NEW n \in Nat, DOMAIN checks = 1..n,
         \A i \in 1..n : checks[i].code \in ReasonCodes
  PROVE  FirstFailure(checks) \in ReasonCodes
<1>1. CASE FirstFailure(checks) = "APPROVED"
  BY <1>1 DEF ReasonCodes
<1>2. ASSUME NEW i \in DOMAIN checks, FirstFailure(checks) = checks[i].code
      PROVE  FirstFailure(checks) \in ReasonCodes
  BY <1>2
<1> QED BY <1>1, <1>2, FirstFailureIsOne

LEMMA VerdictIsReason ==
  ASSUME NEW p, NEW a, NEW m, NEW s, NEW seconds
  PROVE  Verdict(p, a, m, s, seconds) \in ReasonCodes
<1> DEFINE input == InputChecks(p, a, m, s, seconds)
           plan == PlanChecks(p, a, m, s)
           limit == LimitChecks(p, a, m, s)
<1>1. \A i \in 1..12 : input[i].code \in
        {"AUTHORITY_VIOLATION", "AI_NO_TRADE", "INVALID_ACCOUNT_STATE",
         "INVALID_MARKET_CONTEXT", "BROKER_CONSTRAINT", "UNKNOWN_RISK_INPUT",
         "STALE_CONTEXT", "SPREAD_TOO_HIGH", "DRAWDOWN_LIMIT", "EXPOSURE_LIMIT"}
  BY DEF InputChecks, Check
<1>2. \A i \in 1..4 : plan[i].code \in {"BROKER_CONSTRAINT", "INVALID_SL", "LOT_OUT_OF_RANGE"}
  BY DEF PlanChecks, Check
<1>3. \A i \in 1..3 : limit[i].code \in {"EXPOSURE_LIMIT", "INSUFFICIENT_MARGIN", "RISK_LIMIT"}
  BY DEF LimitChecks, Check
<1>4. DOMAIN input = 1..12 /\ DOMAIN plan = 1..4 /\ DOMAIN limit = 1..3
  BY DEF InputChecks, PlanChecks, LimitChecks
<1> HIDE DEF input, plan, limit
<1>5. /\ \A i \in 1..12 : input[i].code \in ReasonCodes
      /\ \A i \in 1..4 : plan[i].code \in ReasonCodes
      /\ \A i \in 1..3 : limit[i].code \in ReasonCodes
      /\ "APPROVED" \in ReasonCodes
  BY <1>1, <1>2, <1>3 DEF ReasonCodes
<1>6. /\ FirstFailure(input) \in ReasonCodes /\ FirstFailure(plan) \in ReasonCodes
      /\ FirstFailure(limit) \in ReasonCodes
  <2>1. FirstFailure(input) \in ReasonCodes
    BY <1>4, <1>5, FirstFailureIsReason
  <2>2. FirstFailure(plan) \in ReasonCodes
    BY <1>4, <1>5, FirstFailureIsReason
  <2>3. FirstFailure(limit) \in ReasonCodes
    BY <1>4, <1>5, FirstFailureIsReason
  <2> QED BY <2>1, <2>2, <2>3
<1> QED BY <1>6 DEF Verdict, input, plan, limit

-----------------------------------------------------------------------------
(* The plan *)

\* The lot of an approved plan is the largest on the grid that the budget bears at
\* the stop loss, or the symbol's maximum.
LEMMA PlanIsSound ==
  ASSUME NEW p, NEW a \in Accounts, NEW m \in Markets, NEW s \in SymbolSpecs, NEW seconds,
         Verdict(p, a, m, s, seconds) = "APPROVED"
  PROVE  /\ SlDistance(s) \in Nat \ {0} /\ LossPerHundredth(s) \in Nat
         /\ Budget(a) \in Nat
         /\ FinalLot(a, s) \in s.volumeMin..s.volumeMax /\ FinalLot(a, s) \in Nat \ {0}
         /\ FinalLot(a, s) * LossPerHundredth(s) \in Nat
         /\ FinalLot(a, s) * LossPerHundredth(s) <= Budget(a)
         /\ \/ FinalLot(a, s) = s.volumeMax
            \/ /\ FinalLot(a, s) % s.volumeStep = 0
               /\ (FinalLot(a, s) + s.volumeStep) * LossPerHundredth(s) > Budget(a)
<1> DEFINE lot == FinalLot(a, s)
           loss == LossPerHundredth(s)
           budget == Budget(a)
           afford == budget \div loss
           step == s.volumeStep
<1>1. Passed(p, a, m, s, seconds)
  BY ApprovedHasPassed
<1>2. /\ s.contract \in Nat \ {0} /\ s.pointRisk \in Nat \ {0} /\ s.volumeMin \in Nat \ {0}
      /\ s.volumeMax \in Nat /\ s.volumeMin <= s.volumeMax /\ step \in Nat \ {0}
      /\ s.stopsLevel \in Int
  BY <1>1 DEF Passed, SpecValid, SymbolSpecs
<1>3. SlDistance(s) \in Nat \ {0}
  BY <1>1, <1>2, RiskAssumption DEF Passed, SlDistance
<1>4. loss \in Nat \ {0}
  BY <1>2, <1>3, ProductsKeepOrder DEF LossPerHundredth
<1>5. budget \in Nat
  <2>1. Capital(a) \in Nat
    BY <1>1 DEF Passed, Capital, Accounts
  <2>2. Capital(a) \div 1000 \in Nat /\ RiskPermille \in Nat
    BY <2>1, RiskAssumption
  <2> QED BY <2>2, ProductsKeepOrder DEF Budget
<1> HIDE DEF loss, budget
<1>6. afford \in Nat /\ afford * loss <= budget /\ budget < afford * loss + loss
  BY <1>4, <1>5
<1> HIDE DEF afford
<1>7. /\ CandidateLot(a, s) \in Nat /\ CandidateLot(a, s) <= afford
      /\ afford < CandidateLot(a, s) + step /\ CandidateLot(a, s) % step = 0
  BY <1>2, <1>6, RoundedDown DEF CandidateLot, afford, loss, budget
<1>8. CandidateLot(a, s) >= s.volumeMin
  BY <1>1, <1>2, <1>7 DEF Passed
<1>9. lot \in s.volumeMin..s.volumeMax /\ lot \in Nat \ {0} /\ lot <= CandidateLot(a, s)
  BY <1>2, <1>7, <1>8 DEF FinalLot
<1>10. lot * loss \in Nat /\ lot * loss <= budget
  <2>1. lot <= afford
    BY <1>6, <1>7, <1>9
  <2>2. lot * loss \in Nat /\ lot * loss <= afford * loss /\ afford * loss \in Nat
    BY <1>4, <1>6, <1>9, <2>1, ProductsKeepOrder
  <2> QED BY <1>5, <1>6, <2>2
<1>11. lot = s.volumeMax \/ (lot % step = 0 /\ (lot + step) * loss > budget)
  <2> SUFFICES ASSUME lot # s.volumeMax
               PROVE  lot % step = 0 /\ (lot + step) * loss > budget
    OBVIOUS
  <2>1. lot = CandidateLot(a, s)
    BY <1>7 DEF FinalLot
  <2>2. afford + 1 <= lot + step /\ afford + 1 \in Nat /\ lot + step \in Nat
    BY <1>2, <1>6, <1>7, <1>9, <2>1
  <2>3. /\ (afford + 1) * loss <= (lot + step) * loss
        /\ (lot + step) * loss \in Nat /\ afford * loss \in Nat
    BY <1>4, <1>6, <2>2, ProductsKeepOrder
  <2>4. (afford + 1) * loss = afford * loss + loss
    BY <1>4, <1>6
  <2>5. budget < (lot + step) * loss
    BY <1>4, <1>5, <1>6, <2>3, <2>4
  <2>6. (lot + step) * loss > budget
    BY <1>5, <2>3, <2>5
  <2>7. lot % step = 0
    BY <1>7, <2>1
  <2> QED BY <2>6, <2>7
<1> QED BY <1>3, <1>4, <1>5, <1>9, <1>10, <1>11 DEF loss, budget

\* A proposal that the engine may be asked about.
IsProposal(p) ==
  p.validation_ok \in BOOLEAN /\ p.direction \in Directions /\ p.confidence \in Int

LEMMA EvaluateIsTyped ==
  ASSUME NEW p, IsProposal(p), NEW a \in Accounts, NEW m \in Markets,
         NEW s \in SymbolSpecs, NEW seconds
  PROVE  Evaluate(p, a, m, s, seconds) \in Evaluations
<1> DEFINE code == Verdict(p, a, m, s, seconds)
<1>1. code \in ReasonCodes
  BY VerdictIsReason
<1>2. CASE code = "APPROVED"
  <2>1. p.direction \in {"BUY", "SELL"} /\ p.direction \in Directions
    BY <1>2, ApprovedHasPassed DEF Passed, IsProposal
  <2>2. /\ FinalLot(a, s) \in Nat /\ FinalLot(a, s) * LossPerHundredth(s) \in Nat
        /\ SlDistance(s) \in Nat
    BY <1>2, PlanIsSound
  <2>3. SlPrice(p.direction, m, s) \in Int
    BY <2>1, <2>2 DEF SlPrice, Markets
  <2> QED BY <1>1, <1>2, <2>1, <2>2, <2>3 DEF Evaluate, Evaluations
<1>3. CASE code # "APPROVED"
  BY <1>1, <1>3 DEF Evaluate, Evaluations, IsProposal
<1> QED BY <1>2, <1>3

-----------------------------------------------------------------------------
(* What was judged *)

\* Where a plan comes from: the decision's record about one of the gate's cases, or a
\* scenario's proposal at one of its first ticks; and it is never judged again.
ByGate ==
  /\ pc = "gated" /\ stage = "off" /\ scenario = NoScenario
  /\ account \in Accounts /\ market \in Markets /\ spec \in SymbolSpecs
  /\ evaluation = Evaluate(record, account, market, spec, age)

ByScenario ==
  /\ pc = "off" /\ stage \in {"holding", "closed"} /\ scenario \in Scenarios
  /\ account = AccountOf(scenario) /\ spec = PaperSpec
  /\ \E t \in FirstTicks : market = MarketOf(t)
  /\ evaluation = Evaluate(Proposal(scenario), account, market, spec, 0)

NotJudged ==
  /\ evaluation = NoEvaluation /\ scenario = NoScenario
  /\ \/ pc \in {"context", "calling", "decided", "raised"} /\ stage = "off"
     \/ pc = "off" /\ stage = "ready"

JudgedInv == NotJudged \/ ByGate \/ ByScenario

\* A record that is ok is that of an answer without fault.
SaidInv ==
  Recorded /\ record.validation_ok =>
    /\ said \in Answers /\ Parses(said) /\ SchemaError(said) = "NONE"
    /\ record.direction = Direction(said) /\ record.confidence = said.confidence

\* Time passes with the calls: a call that timed out took that long.
AgeInv ==
  pc # "off" =>
    \E start \in StartAges :
      /\ age >= start
      /\ \A i \in DOMAIN calls : calls[i].status = "TIMEOUT" => age >= start + TimeoutS

-----------------------------------------------------------------------------
(* The paper position *)

\* The position is the approved plan, filled at the tick it was judged at.
FilledInv ==
  /\ ByScenario /\ Approved
  /\ position \in Positions /\ position.opened \in FirstTicks
  /\ market = MarketOf(position.opened)
  /\ position.direction = evaluation.direction /\ position.lot = evaluation.lot
  /\ position.sl = evaluation.sl /\ position.costs = scenario.costs
  /\ position.entry = Entry(position.direction, market)
  /\ position.mae <= 0 /\ 0 <= position.mfe
  /\ position.steps = Len(seen)

Ends(t) == BeyondStop(t) \/ ResultAt(t) > 0

HeldInv ==
  /\ seen \in Seq(LaterTicks) /\ Len(seen) <= Window
  /\ stage \in {"off", "ready"} => seen = <<>>
  /\ stage # "closed" => evidence = NoEvidence
  /\ stage = "holding" => FilledInv /\ \A i \in 1..Len(seen) : ~Ends(seen[i])
  /\ EvidenceMatchesHistory

LEMMA ProposalsAreTyped ==
  /\ \A r \in Records : IsProposal(r)
  /\ \A sc \in Scenarios : IsProposal(Proposal(sc)) /\ AccountOf(sc) \in Accounts
  /\ \A t \in FirstTicks : MarketOf(t) \in Markets
<1>1. ASSUME NEW r \in Records
      PROVE  IsProposal(r)
  <2>1. r.validation_ok \in BOOLEAN
    BY Zenon DEF Records
  <2>2. r.direction \in {"BUY", "SELL", "NO-TRADE"} /\ r.confidence \in 0..100
    BY DEF Records
  <2> QED BY <2>1, <2>2 DEF IsProposal, Directions
<1>2. ASSUME NEW sc \in Scenarios
      PROVE  IsProposal(Proposal(sc)) /\ AccountOf(sc) \in Accounts
  <2>1. sc \in ScenarioConfigs
    BY PaperAssumption
  <2>2. FreeMargin(sc) \in Int
    BY <2>1 DEF FreeMargin, ScenarioConfigs
  <2> QED BY <2>1, <2>2 DEF ScenarioConfigs, Proposal, IsProposal, AccountOf, Accounts
<1>3. ASSUME NEW t \in FirstTicks
      PROVE  MarketOf(t) \in Markets
  <2>1. t \in Ticks
    BY PaperAssumption
  <2> QED BY <2>1 DEF MarketOf, Ticks, Markets
<1> QED BY <1>1, <1>2, <1>3

\* However it came about, a plan answers a proposal about typed inputs.
LEMMA JudgementIsTyped ==
  ASSUME ChainInv, JudgedInv, evaluation # NoEvaluation
  PROVE  /\ \E p, a : IsProposal(p) /\ evaluation = Evaluate(p, account, market, spec, a)
         /\ account \in Accounts /\ market \in Markets /\ spec \in SymbolSpecs
         /\ evaluation \in Evaluations /\ (ByGate \/ ByScenario)
<1>1. CASE ByGate
  <2>1. IsProposal(record)
    BY <1>1, ProposalsAreTyped DEF ByGate, ChainInv, Recorded
  <2>2. /\ account \in Accounts /\ market \in Markets /\ spec \in SymbolSpecs
        /\ evaluation = Evaluate(record, account, market, spec, age)
    BY <1>1 DEF ByGate
  <2>3. evaluation \in Evaluations
    BY <2>1, <2>2, EvaluateIsTyped
  <2> QED BY <1>1, <2>1, <2>2, <2>3
<1>2. CASE ByScenario
  <2>1. /\ IsProposal(Proposal(scenario)) /\ account \in Accounts /\ market \in Markets
        /\ spec \in SymbolSpecs
    BY <1>2, ProposalsAreTyped, PaperAssumption DEF ByScenario
  <2>2. evaluation = Evaluate(Proposal(scenario), account, market, spec, 0)
    BY <1>2 DEF ByScenario
  <2>3. evaluation \in Evaluations
    BY <2>1, <2>2, EvaluateIsTyped
  <2> QED BY <1>2, <2>1, <2>2, <2>3
<1> QED BY <1>1, <1>2 DEF JudgedInv, NotJudged

LEMMA NothingJudgedFirst ==
  ASSUME Init
  PROVE  JudgedInv /\ SaidInv /\ AgeInv
<1>1. JudgedInv
  BY DEF Init, PaperInit, NotAsked, JudgedInv, NotJudged
<1>2. SaidInv
  BY DEF Init, SaidInv, Recorded
<1>3. AgeInv
  <2>1. age \in StartAges /\ age \in Int /\ DOMAIN calls = {}
    BY DecisionAssumption DEF Init, DecisionInit
  <2> QED BY <2>1 DEF AgeInv
<1> QED BY <1>1, <1>2, <1>3

\* A verdict is passed once, by the gate or by the runner.
LEMMA NextKeepsJudged ==
  ASSUME ChainInv, JudgedInv, [Next]_vars
  PROVE  JudgedInv'
<1>1. CASE UNCHANGED <<riskVars, paperVars>> /\ DecisionStep
  <2>1. /\ pc \in {"context", "calling"} /\ pc' \in {"calling", "decided", "raised"}
        /\ UNCHANGED <<account, market, spec, evaluation, stage, scenario>>
    BY <1>1 DEF DecisionStep, RejectContext, Infer, Answered, Failed, DecisionRaises, Raised,
                riskVars, paperVars
  <2> QED BY <2>1 DEF JudgedInv, NotJudged, ByGate, ByScenario
<1>2. ASSUME NEW case \in Cases, Gate(case)
      PROVE  JudgedInv'
  <2>1. /\ case.account \in Accounts /\ case.market \in Markets /\ case.spec \in SymbolSpecs
    BY CasesAssumption
  <2>2. NotJudged /\ stage = "off" /\ scenario = NoScenario
    BY <1>2 DEF JudgedInv, NotJudged, ByGate, ByScenario, Gate
  <2> QED BY <1>2, <2>1, <2>2 DEF Gate, Evaluated, paperVars, JudgedInv, ByGate
<1>3. ASSUME NEW sc \in Scenarios, NEW t \in FirstTicks, RunScenario(sc, t),
             UNCHANGED decisionVars
      PROVE  JudgedInv'
  <2>1. NotJudged /\ pc = "off"
    BY <1>3 DEF JudgedInv, NotJudged, ByGate, ByScenario, RunScenario
  <2> QED BY <1>3, <2>1 DEF RunScenario, Evaluated, decisionVars, JudgedInv, ByScenario
<1>4. ASSUME UNCHANGED <<decisionVars, riskVars, scenario>>, stage = "holding",
             stage' \in {"holding", "closed"}
      PROVE  JudgedInv'
  <2>1. ByScenario
    BY <1>4 DEF JudgedInv, NotJudged, ByGate
  <2> QED BY <1>4, <2>1 DEF decisionVars, riskVars, JudgedInv, ByScenario
<1>5. CASE UNCHANGED vars
  BY <1>5 DEF vars, decisionVars, riskVars, paperVars, JudgedInv, NotJudged, ByGate, ByScenario
<1> QED BY <1>1, <1>2, <1>3, <1>4, <1>5 DEF Next, PaperStep, Tick, SessionEnd

LEMMA NextKeepsSaid ==
  ASSUME ChainInv, SaidInv, [Next]_vars
  PROVE  SaidInv'
<1>1. ASSUME NEW a \in Answers, NEW s \in Latencies, Answered(a, s)
      PROVE  SaidInv'
  <2>1. said' = a /\ record' = RecordOf(a)
    BY <1>1 DEF Answered
  <2> QED BY <2>1 DEF SaidInv, RecordOf, FailClosed, Record
<1>2. CASE RejectContext
  BY <1>2 DEF RejectContext, SaidInv, FailClosed, Record
<1>3. ASSUME NEW st \in Statuses, NEW s \in Takes(st), Failed(st, s)
      PROVE  SaidInv'
  <2>1. CASE pc' = "decided"
    BY <1>3, <2>1 DEF Failed, SaidInv, FailClosed, Record
  <2>2. CASE pc' # "decided"
    BY <1>3, <2>2 DEF Failed, SaidInv, Recorded
  <2> QED BY <2>1, <2>2
<1>4. CASE Infer
  BY <1>4 DEF Infer, SaidInv, Recorded
<1>5. ASSUME NEW case \in Cases, Gate(case)
      PROVE  SaidInv'
  BY <1>5 DEF Gate, SaidInv, Recorded
<1>6. CASE UNCHANGED decisionVars
  BY <1>6 DEF decisionVars, SaidInv, Recorded
<1>7. CASE DecisionRaises
  BY <1>7 DEF DecisionRaises, Raised, SaidInv, Recorded
<1> QED BY <1>1, <1>2, <1>3, <1>4, <1>5, <1>6, <1>7 DEF Next, DecisionStep, vars

LEMMA NextKeepsAge ==
  ASSUME ChainInv, AgeInv, [Next]_vars
  PROVE  AgeInv'
<1>1. ASSUME NEW status, NEW seconds \in Nat, pc = "calling", Called(status),
             age' \in Int, age' >= age + seconds, status = "TIMEOUT" => seconds = TimeoutS
      PROVE  AgeInv'
  <2>1. PICK start \in StartAges :
          /\ age >= start
          /\ \A i \in DOMAIN calls : calls[i].status = "TIMEOUT" => age >= start + TimeoutS
    BY <1>1 DEF AgeInv
  <2>2. start \in Int /\ TimeoutS \in Nat /\ age \in Int
    BY DecisionAssumption DEF ChainInv
  <2>3. age' >= age /\ age' >= start
    BY <1>1, <2>1, <2>2
  <2>4. ASSUME NEW i \in DOMAIN calls', calls'[i].status = "TIMEOUT"
        PROVE  age' >= start + TimeoutS
    <3>1. calls \in Seq(Calls) /\ calls' = Append(calls, [level |-> level, status |-> status])
      BY <1>1 DEF ChainInv, Called
    <3>2. CASE i \in DOMAIN calls /\ calls'[i] = calls[i]
      BY <2>1, <2>2, <2>3, <2>4, <3>2, <1>1
    <3>3. CASE calls'[i].status = status
      BY <1>1, <2>1, <2>2, <2>4, <3>3
    <3> QED BY <3>1, <3>2, <3>3
  <2> QED BY <2>3, <2>4 DEF AgeInv
<1>2. ASSUME NEW a \in Answers, NEW s \in Latencies, Answered(a, s)
      PROVE  AgeInv'
  <2>1. s \in Nat /\ age \in Int /\ age' = age + s /\ pc = "calling" /\ Called("OK")
    BY <1>2, StatusesAreTyped DEF Answered, ChainInv
  <2>2. age' \in Int /\ age' >= age + s
    BY <2>1
  <2> QED BY <1>1, <2>1, <2>2
<1>3. ASSUME NEW st \in Statuses, NEW s \in Takes(st), Failed(st, s)
      PROVE  AgeInv'
  <2>1. s \in Nat /\ age \in Int /\ RetrySleepS \in Nat /\ pc = "calling" /\ Called(st)
    BY <1>3, StatusesAreTyped DEF Failed, ChainInv
  <2>2. \/ age' = age + s + (IF st = "HTTP429" THEN RetrySleepS ELSE 0)
        \/ age' = age + s
    BY <1>3 DEF Failed
  <2>3. age' \in Int /\ age' >= age + s
    BY <2>1, <2>2
  <2>4. st = "TIMEOUT" => s = TimeoutS
    BY DEF Takes
  <2> QED BY <1>1, <2>1, <2>3, <2>4
<1>4. CASE UNCHANGED <<calls, age>> /\ (pc = "off" => pc' = "off")
  BY <1>4 DEF AgeInv
<1>5. CASE RejectContext \/ Infer
  BY <1>4, <1>5 DEF RejectContext, Infer
<1>6. ASSUME NEW case \in Cases, Gate(case)
      PROVE  AgeInv'
  BY <1>4, <1>6 DEF Gate
<1>7. CASE UNCHANGED decisionVars
  BY <1>4, <1>7 DEF decisionVars
<1>8. CASE DecisionRaises
  <2>1. PICK status \in AllStatuses \cup {"OK"}, seconds \in Nat :
          Raised(status, seconds) /\ status # "TIMEOUT"
    BY <1>8, RaiseIsACall
  <2>2. pc = "calling" /\ Called(status) /\ age' = age + seconds /\ age \in Int
    BY <2>1 DEF Raised, ChainInv
  <2>3. age' \in Int /\ age' >= age + seconds
    BY <2>2
  <2> QED BY <1>1, <2>1, <2>2, <2>3
<1> QED BY <1>2, <1>3, <1>5, <1>6, <1>7, <1>8 DEF Next, DecisionStep, vars

LEMMA JudgedIsInvariant == Spec => [](ChainInv /\ JudgedInv /\ SaidInv /\ AgeInv)
<1>1. Init => JudgedInv /\ SaidInv /\ AgeInv
  BY NothingJudgedFirst
<1>2. ChainInv /\ (JudgedInv /\ SaidInv /\ AgeInv) /\ [Next]_vars
        => (JudgedInv /\ SaidInv /\ AgeInv)'
  BY NextKeepsJudged, NextKeepsSaid, NextKeepsAge
<1> QED BY <1>1, <1>2, ChainIsInvariant, PTL DEF Spec

-----------------------------------------------------------------------------
(* The plans that are approved *)

LEMMA ApprovedIsPassed ==
  ASSUME NEW p, NEW a, Approved, evaluation = Evaluate(p, account, market, spec, a)
  PROVE  /\ Verdict(p, account, market, spec, a) = "APPROVED"
         /\ Passed(p, account, market, spec, a)
         /\ evaluation.direction = p.direction /\ p.direction \in {"BUY", "SELL"}
         /\ evaluation.lot = FinalLot(account, spec)
         /\ evaluation.sl = SlPrice(evaluation.direction, market, spec)
         /\ evaluation.risk_amount = FinalLot(account, spec) * LossPerHundredth(spec)
<1>1. Verdict(p, account, market, spec, a) = "APPROVED"
  BY DEF Approved, Evaluate
<1>2. Passed(p, account, market, spec, a)
  BY <1>1, ApprovedHasPassed
<1> QED BY <1>1, <1>2 DEF Evaluate, Passed

\* The approved lot is the largest whose loss at the approved stop loss the budget
\* bears (calculators.py, calculate_lot): for every account, market and symbol, every
\* limit of the configuration, and both ways a plan comes about.
THEOREM ApprovedLotIsLargestHolds == Spec => []ApprovedLotIsLargest
<1>1. ChainInv /\ JudgedInv => ApprovedLotIsLargest
  <2> SUFFICES ASSUME ChainInv, JudgedInv, Approved
               PROVE  ApprovedLotIsLargest
    BY DEF ApprovedLotIsLargest
  <2> DEFINE lot == FinalLot(account, spec)
             loss == LossPerHundredth(spec)
             d == SlDistance(spec)
  <2>1. PICK p, a : IsProposal(p) /\ evaluation = Evaluate(p, account, market, spec, a)
    BY JudgementIsTyped DEF Approved
  <2>2. account \in Accounts /\ market \in Markets /\ spec \in SymbolSpecs
    BY JudgementIsTyped DEF Approved
  <2>3. /\ Verdict(p, account, market, spec, a) = "APPROVED"
        /\ evaluation.direction \in {"BUY", "SELL"} /\ evaluation.lot = lot
        /\ evaluation.sl = SlPrice(evaluation.direction, market, spec)
        /\ evaluation.risk_amount = lot * loss
    BY <2>1, ApprovedIsPassed
  <2>4. /\ d \in Nat \ {0} /\ lot \in spec.volumeMin..spec.volumeMax /\ lot \in Nat \ {0}
        /\ lot * loss <= Budget(account)
        /\ \/ lot = spec.volumeMax
           \/ /\ lot % spec.volumeStep = 0
              /\ (lot + spec.volumeStep) * loss > Budget(account)
    BY <2>2, <2>3, PlanIsSound
  <2>5. market.ask \in Int /\ market.bid \in Int /\ spec.pointRisk \in Int
        /\ spec.volumeStep \in Int
    BY <2>2 DEF Markets, SymbolSpecs
  <2>6. Distance = d
    BY <2>3, <2>4, <2>5 DEF Distance, SlPrice
  <2>7. \A n \in Int : n * Distance * spec.pointRisk = n * loss
    BY <2>4, <2>5, <2>6 DEF LossPerHundredth
  <2>8. Distance > 0
    BY <2>4, <2>6
  <2> HIDE DEF lot, loss, d
  <2>9. /\ evaluation.lot * Distance * spec.pointRisk = evaluation.risk_amount
        /\ (evaluation.lot + spec.volumeStep) * Distance * spec.pointRisk
             = (lot + spec.volumeStep) * loss
    <3>1. lot \in Int /\ lot + spec.volumeStep \in Int
      BY <2>4, <2>5
    <3>2. /\ lot * Distance * spec.pointRisk = lot * loss
          /\ (lot + spec.volumeStep) * Distance * spec.pointRisk
               = (lot + spec.volumeStep) * loss
      BY <2>7, <3>1
    <3> QED BY <2>3, <3>2
  <2> QED BY <2>3, <2>4, <2>8, <2>9 DEF ApprovedLotIsLargest
<1> QED BY <1>1, JudgedIsInvariant, PTL

\* With the approved trade open the account keeps its limits (validators.py,
\* check_exposure and check_margin): up to half a cent that the checks round away, and
\* but for the override of zero, for every account, market, symbol and limit.
THEOREM ApprovalFitsTheAccountHolds == Spec => []ApprovalFitsTheAccount
<1>1. ChainInv /\ JudgedInv => ApprovalFitsTheAccount
  <2> SUFFICES ASSUME ChainInv, JudgedInv, Approved
               PROVE  ApprovalFitsTheAccount
    BY DEF ApprovalFitsTheAccount
  <2> DEFINE lot == FinalLot(account, spec)
             value == evaluation.lot * spec.contract * Entry(evaluation.direction, market)
             margin == IF spec.marginInitial > 0 THEN evaluation.lot * spec.marginInitial
                       ELSE value \div Leverage
             cap == (Capital(account) \div 100) * ExposureRatio
             required == RequiredFreeMargin(account)
  <2>1. PICK p, a : IsProposal(p) /\ evaluation = Evaluate(p, account, market, spec, a)
    BY JudgementIsTyped DEF Approved
  <2>2. account \in Accounts /\ market \in Markets /\ spec \in SymbolSpecs
    BY JudgementIsTyped DEF Approved
  <2>3. /\ Verdict(p, account, market, spec, a) = "APPROVED"
        /\ Passed(p, account, market, spec, a)
        /\ evaluation.direction = p.direction /\ evaluation.lot = lot
    BY <2>1, ApprovedIsPassed
  <2>4. /\ ~(account.drawdown >= MaxDrawdown) /\ ~(account.positions >= MaxPositions)
        /\ ~(account.exposure + Cents(value) > cap)
        /\ ~(account.freeMargin - Cents(margin) < required)
    BY <2>3 DEF Passed, Exposure, RequiredMargin
  <2>5. /\ account.drawdown \in Int /\ account.positions \in Int /\ account.exposure \in Int
        /\ account.freeMargin \in Int /\ MaxDrawdown \in Int /\ MaxPositions \in Int
        /\ Capital(account) \in Int
    BY <2>2, RiskAssumption DEF Accounts, Capital
  <2>6. value \in Int /\ margin \in Int
    <3>1. /\ evaluation.lot \in Int /\ spec.contract \in Int /\ spec.marginInitial \in Int
          /\ Entry(evaluation.direction, market) \in Int /\ Leverage \in Nat \ {0}
      BY <2>2, <2>3, PlanIsSound, RiskAssumption DEF SymbolSpecs, Markets, Entry
    <3>2. value \in Int
      BY <3>1
    <3> HIDE DEF value
    <3> QED BY <3>1, <3>2
  <2>7. cap \in Int /\ required \in Int
    <3>1. /\ Capital(account) \div 100 \in Int /\ Capital(account) \div 1000 \in Int
          /\ ExposureRatio \in Int /\ MarginRatio \in Int /\ RiskPermille \in Int
          /\ BudgetMultiplier \in Int
      BY <2>5, RiskAssumption
    <3> QED BY <3>1 DEF RequiredFreeMargin, Budget
  <2> HIDE DEF value, margin, cap, required, lot
  <2>8. account.exposure + value <= cap + 50
    BY <2>4, <2>5, <2>6, <2>7, CentsAreNear
  <2>9. account.freeMargin - margin >= required - 50
    BY <2>4, <2>5, <2>6, <2>7, CentsAreNear
  <2>10. (scenario # NoScenario /\ scenario.freeMargin = 0)
           \/ StatedFreeMargin = account.freeMargin
    <3>1. CASE ByGate
      BY <3>1 DEF ByGate, StatedFreeMargin
    <3>2. CASE ByScenario
      <4>1. scenario # NoScenario /\ account.freeMargin = FreeMargin(scenario)
        BY <3>2, PaperAssumption DEF ByScenario, AccountOf
      <4> QED BY <4>1 DEF StatedFreeMargin, FreeMargin
    <3> QED BY <3>1, <3>2, JudgementIsTyped DEF Approved
  <2>11. account.positions + 1 <= MaxPositions /\ account.drawdown < MaxDrawdown
    BY <2>4, <2>5
  <2>12. \/ scenario # NoScenario /\ scenario.freeMargin = 0
         \/ StatedFreeMargin - margin >= required - 50
    BY <2>9, <2>10
  <2> QED BY <2>8, <2>11, <2>12 DEF ApprovalFitsTheAccount, value, margin, cap, required
<1> QED BY <1>1, JudgedIsInvariant, PTL

\* A plan of the live path rests on an answer that said so itself and on a snapshot
\* that no timeout has spoiled (ai_decision/validation.py, risk_engine/validators.py),
\* whatever the models answer and however their calls fail: where one timeout outlasts
\* the limit of staleness, as the configured 60 s do the 10 s.
THEOREM OnlyVettedAnswersTradeHolds ==
  ASSUME \A start \in StartAges : start + TimeoutS > MaxStale
  PROVE  Spec => []OnlyVettedAnswersTrade
<1>1. ChainInv /\ JudgedInv /\ SaidInv /\ AgeInv => OnlyVettedAnswersTrade
  <2> SUFFICES ASSUME ChainInv, JudgedInv, SaidInv, AgeInv, pc = "gated", Approved
               PROVE  OnlyVettedAnswersTrade
    BY DEF OnlyVettedAnswersTrade
  <2>1. evaluation = Evaluate(record, account, market, spec, age)
    BY JudgementIsTyped DEF Approved, ByGate, ByScenario
  <2>2. /\ Passed(record, account, market, spec, age)
        /\ evaluation.direction = record.direction /\ record.direction \in {"BUY", "SELL"}
    BY <2>1, ApprovedIsPassed
  <2>3. /\ said \in Answers /\ Parses(said) /\ SchemaError(said) = "NONE"
        /\ record.direction = Direction(said) /\ record.confidence = said.confidence
    BY <2>2 DEF SaidInv, Recorded, Passed
  <2>4. said # NoAnswer /\ said \in AllAnswers /\ said.form = "object"
    BY <2>3, DecisionAssumption DEF Parses
  <2>5. /\ said.reason = "plain" /\ ~said.forbidden /\ said.confidence # NoConfidence
    BY <2>3, <2>4 DEF SchemaError, OversteppedAuthority, AllAnswers
  <2>6. said.confidence \in MinConfidence..100
    <3>1. said.confidence \in 0..100 /\ MinConfidence \in Int
      BY <2>4, <2>5, RiskAssumption DEF AllAnswers
    <3>2. ~(said.confidence < MinConfidence)
      BY <2>2, <2>3 DEF Passed
    <3> QED BY <3>1, <3>2
  <2>7. <<said.word, evaluation.direction>> \in {<<"buy", "BUY">>, <<"sell", "SELL">>}
    <3>1. Direction(said) \in {"BUY", "SELL"} /\ evaluation.direction = Direction(said)
      BY <2>2, <2>3
    <3>2. \/ said.word = "buy" /\ Direction(said) = "BUY"
          \/ said.word = "sell" /\ Direction(said) = "SELL"
      BY <3>1 DEF Direction
    <3> QED BY <3>1, <3>2
  <2>8. \A i \in DOMAIN calls : calls[i].status # "TIMEOUT"
    <3>1. ~(age > MaxStale) /\ age \in Int /\ MaxStale \in Int /\ TimeoutS \in Int
      BY <2>2, RiskAssumption, DecisionAssumption DEF Passed, Stale, ChainInv
    <3>2. PICK start \in StartAges :
            \A i \in DOMAIN calls : calls[i].status = "TIMEOUT" => age >= start + TimeoutS
      BY DEF AgeInv
    <3>3. start \in Int /\ start + TimeoutS > MaxStale
      BY DecisionAssumption
    <3> QED BY <3>1, <3>2, <3>3
  <2> QED BY <2>4, <2>5, <2>6, <2>7, <2>8 DEF OnlyVettedAnswersTrade
<1> QED BY <1>1, JudgedIsInvariant, PTL

-----------------------------------------------------------------------------
(* The paper trade *)

LEMMA PricesAreTyped ==
  /\ \A t \in FirstTicks \cup LaterTicks : t.bid \in Int /\ t.ask \in Int /\ t \in Ticks
  /\ PaperSpec.contract \in Int
BY PaperAssumption DEF Ticks, SymbolSpecs

LEMMA CostsAreTyped ==
  ASSUME NEW p \in Positions, PaperSpec.contract \in Nat
  PROVE  Costs(p) \in Nat
<1>1. p.lot \in Nat /\ p.costs.commission \in Nat /\ p.costs.slippage \in Nat
  BY DEF Positions, CostModels
<1>2. Commission(p) \in Nat
  BY <1>1, ProductsKeepOrder DEF Commission
<1>3. Slippage(p) \in Nat
  <2>1. p.costs.slippage * p.lot \in Nat
    BY <1>1, ProductsKeepOrder
  <2>2. p.costs.slippage * p.lot * PaperSpec.contract \in Nat
    BY <2>1, ProductsKeepOrder
  <2> QED BY <2>2 DEF Slippage
<1> QED BY <1>2, <1>3 DEF Costs, Swap

\* A move against the position costs, one with it gains.
LEMMA SignOfProduct ==
  ASSUME NEW m \in Int, NEW lot \in Nat \ {0}, NEW contract \in Nat \ {0}
  PROVE  /\ m * lot * contract \in Int
         /\ m < 0 => m * lot * contract < 0
         /\ m <= 0 => m * lot * contract <= 0
<1> DEFINE k == lot * contract
<1>1. k \in Nat \ {0}
  BY ProductsKeepOrder
<1>2. m * lot * contract = m * k
  OBVIOUS
<1> HIDE DEF k
<1>3. m * k \in Int /\ (m < 0 => m * k < 0) /\ (m <= 0 => m * k <= 0)
  BY <1>1
<1> QED BY <1>2, <1>3

\* What is known of a position that is held.
LEMMA HeldIsSound ==
  ASSUME ChainInv, JudgedInv, FilledInv
  PROVE  /\ evaluation.direction \in {"BUY", "SELL"}
         /\ position.lot \in Nat \ {0} /\ PaperSpec.contract \in Nat \ {0}
         /\ position.opened.bid \in Int /\ position.opened.ask \in Int
         /\ position.opened.ask >= position.opened.bid
         /\ \E d \in Nat \ {0} :
              position.sl = IF evaluation.direction = "BUY" THEN position.opened.ask - d
                            ELSE position.opened.bid + d
         /\ position.entry = IF evaluation.direction = "BUY" THEN position.opened.ask
                             ELSE position.opened.bid
         /\ Costs(position) \in Nat
<1>1. /\ account \in Accounts /\ market \in Markets /\ spec \in SymbolSpecs
      /\ spec = PaperSpec /\ market = MarketOf(position.opened)
      /\ evaluation = Evaluate(Proposal(scenario), account, market, spec, 0)
  BY JudgementIsTyped DEF FilledInv, ByScenario, Approved
<1>2. /\ Verdict(Proposal(scenario), account, market, spec, 0) = "APPROVED"
      /\ Passed(Proposal(scenario), account, market, spec, 0)
      /\ evaluation.direction \in {"BUY", "SELL"} /\ evaluation.lot = FinalLot(account, spec)
      /\ evaluation.sl = SlPrice(evaluation.direction, market, spec)
  BY <1>1, ApprovedIsPassed DEF FilledInv
<1>3. FinalLot(account, spec) \in Nat \ {0} /\ SlDistance(spec) \in Nat \ {0}
  BY <1>1, <1>2, PlanIsSound
<1>4. position.opened.bid \in Int /\ position.opened.ask \in Int
  BY PricesAreTyped DEF FilledInv
<1>5. /\ position.opened.ask >= position.opened.bid /\ PaperSpec.contract \in Nat \ {0}
  BY <1>1, <1>2, <1>4, PricesAreTyped DEF Passed, MarketValid, SpecValid, MarketOf
<1>6. position.sl = IF evaluation.direction = "BUY"
                    THEN position.opened.ask - SlDistance(spec)
                    ELSE position.opened.bid + SlDistance(spec)
  BY <1>1, <1>2 DEF FilledInv, SlPrice, MarketOf
<1>7. position.entry = IF evaluation.direction = "BUY" THEN position.opened.ask
                       ELSE position.opened.bid
  BY <1>1 DEF FilledInv, Entry, MarketOf
<1>8. position \in Positions
  BY DEF FilledInv
<1>9. Costs(position) \in Nat
  BY <1>5, <1>8, CostsAreTyped
<1> QED BY <1>2, <1>3, <1>4, <1>5, <1>6, <1>7, <1>9 DEF FilledInv

\* The results of the runner are those the history gives.
LEMMA ResultsAgree ==
  ASSUME ChainInv, JudgedInv, FilledInv, NEW t \in FirstTicks \cup LaterTicks
  PROVE  /\ GrossPnl(position, t) \in Int /\ NetPnl(position, t) \in Int
         /\ NetPnl(position, t) = GrossPnl(position, t) - Costs(position)
         /\ NetPnl(position, t) = ResultAt(t)
         /\ StopHit(position, t) <=> BeyondStop(t)
         /\ BeyondStop(t) => NetPnl(position, t) < 0
         /\ t = position.opened => NetPnl(position, t) <= 0
<1> DEFINE buy == evaluation.direction = "BUY"
           opened == position.opened
           move == IF buy THEN t.bid - opened.ask ELSE opened.bid - t.ask
<1>1. t.bid \in Int /\ t.ask \in Int
  BY PricesAreTyped
<1>2. /\ evaluation.direction \in {"BUY", "SELL"}
      /\ position.lot \in Nat \ {0} /\ PaperSpec.contract \in Nat \ {0}
      /\ opened.bid \in Int /\ opened.ask \in Int /\ opened.ask >= opened.bid
      /\ position.entry = IF buy THEN opened.ask ELSE opened.bid
      /\ Costs(position) \in Nat
      /\ position.direction = evaluation.direction /\ position.lot = evaluation.lot
      /\ position.sl = evaluation.sl
  BY HeldIsSound DEF FilledInv
<1>3. PICK d \in Nat \ {0} : position.sl = IF buy THEN opened.ask - d ELSE opened.bid + d
  BY HeldIsSound
<1>4. move \in Int
  BY <1>1, <1>2
<1>5. GrossPnl(position, t) = move * position.lot * PaperSpec.contract
  BY <1>2 DEF GrossPnl, ExitPrice
<1>6. ResultAt(t) = move * position.lot * PaperSpec.contract - Costs(position)
  BY <1>2 DEF ResultAt
<1>7. StopHit(position, t) <=> BeyondStop(t)
  BY <1>2 DEF StopHit, BeyondStop
<1>8. BeyondStop(t) => move < 0
  BY <1>1, <1>2, <1>3 DEF BeyondStop
<1>9. t = opened => move <= 0
  BY <1>2
<1> HIDE DEF move
<1>10. /\ GrossPnl(position, t) \in Int
       /\ move < 0 => GrossPnl(position, t) < 0
       /\ move <= 0 => GrossPnl(position, t) <= 0
  BY <1>2, <1>4, <1>5, SignOfProduct
<1> QED BY <1>2, <1>5, <1>6, <1>7, <1>8, <1>9, <1>10 DEF NetPnl

\* Following a tick changes the excursions and the steps alone.
LEMMA TrackedIsFilled ==
  ASSUME ChainInv, JudgedInv, FilledInv, Len(seen) \in Nat, NEW t \in LaterTicks,
         position' = Tracked(position, t), Len(seen') = Len(seen) + 1,
         UNCHANGED <<riskVars, scenario, pc>>, stage' \in {"holding", "closed"}
  PROVE  /\ FilledInv'
         /\ Costs(position') = Costs(position) /\ position'.opened = position.opened
         /\ GrossPnl(position', t) = GrossPnl(position, t)
         /\ position'.mae <= GrossPnl(position, t) /\ GrossPnl(position, t) <= position'.mfe
<1> DEFINE g == GrossPnl(position, t)
<1>1. g \in Int
  BY ResultsAgree
<1> HIDE DEF g
<1>2. /\ position \in Positions /\ position.mae \in Int /\ position.mfe \in Int
      /\ position.steps \in Nat /\ position.mae <= 0 /\ 0 <= position.mfe
      /\ position.steps = Len(seen)
  BY DEF FilledInv, Positions
<1>3. position' = [position EXCEPT !.steps = position.steps + 1,
                     !.mae = IF g < position.mae THEN g ELSE position.mae,
                     !.mfe = IF g > position.mfe THEN g ELSE position.mfe]
  BY <1>2 DEF Tracked, g, Positions
<1>4. /\ position' \in Positions
      /\ position'.mae = (IF g < position.mae THEN g ELSE position.mae)
      /\ position'.mfe = (IF g > position.mfe THEN g ELSE position.mfe)
      /\ position'.steps = position.steps + 1
      /\ position'.direction = position.direction /\ position'.lot = position.lot
      /\ position'.sl = position.sl /\ position'.costs = position.costs
      /\ position'.entry = position.entry /\ position'.opened = position.opened
  <2> DEFINE mae == IF g < position.mae THEN g ELSE position.mae
             mfe == IF g > position.mfe THEN g ELSE position.mfe
             steps == position.steps + 1
  <2>1. mae \in Int /\ mfe \in Int /\ steps \in Nat
    BY <1>1, <1>2
  <2>2. position' = [position EXCEPT !.steps = steps, !.mae = mae, !.mfe = mfe]
    BY <1>3
  <2> HIDE DEF mae, mfe, steps
  <2>3. /\ position' \in Positions
        /\ position'.mae = mae /\ position'.mfe = mfe /\ position'.steps = steps
        /\ position'.direction = position.direction /\ position'.lot = position.lot
        /\ position'.sl = position.sl /\ position'.costs = position.costs
        /\ position'.entry = position.entry /\ position'.opened = position.opened
    BY <1>2, <2>1, <2>2 DEF Positions
  <2> QED BY <2>3 DEF mae, mfe, steps
<1>5. FilledInv'
  <2>1. ByScenario' /\ Approved'
    BY DEF FilledInv, ByScenario, Approved, riskVars
  <2>2. position'.mae <= 0 /\ 0 <= position'.mfe
    BY <1>1, <1>2, <1>4
  <2>3. position'.steps = Len(seen')
    BY <1>2, <1>4
  <2>4. /\ position'.opened \in FirstTicks /\ market' = MarketOf(position'.opened)
        /\ position'.direction = evaluation'.direction /\ position'.lot = evaluation'.lot
        /\ position'.sl = evaluation'.sl /\ position'.costs = scenario'.costs
        /\ position'.entry = Entry(position'.direction, market')
    BY <1>4 DEF FilledInv, riskVars
  <2> QED BY <1>4, <2>1, <2>2, <2>3, <2>4 DEF FilledInv
<1>6. Costs(position') = Costs(position)
  BY <1>4 DEF Costs, Commission, Slippage, Swap
<1>7. GrossPnl(position', t) = g
  BY <1>4 DEF g, GrossPnl, ExitPrice
<1>8. position'.mae <= g /\ g <= position'.mfe
  BY <1>1, <1>2, <1>4
<1> QED BY <1>4, <1>5, <1>6, <1>7, <1>8 DEF g

\* The ticks that were seen keep their meaning while the position is followed.
LEMMA HistoryIsKept ==
  ASSUME evaluation' = evaluation, position'.opened = position.opened,
         Costs(position') = Costs(position), NEW u
  PROVE  /\ ResultAt(u)' = ResultAt(u) /\ (BeyondStop(u)' <=> BeyondStop(u))
         /\ (Ends(u)' <=> Ends(u))
<1>1. ResultAt(u)' = ResultAt(u)
  BY DEF ResultAt
<1>2. BeyondStop(u)' <=> BeyondStop(u)
  BY DEF BeyondStop
<1> QED BY <1>1, <1>2 DEF Ends

\* What the evidence must say, once there is one.
History ==
  /\ \A i \in 1..(Len(seen) - 1) : ~Ends(seen[i])
  /\ IF evidence.reason = "PAPER_SESSION_END"
     THEN (Len(seen) > 0 => ~Ends(seen[Len(seen)])) /\ evidence.net <= 0
     ELSE /\ Len(seen) > 0 /\ evidence.net = ResultAt(seen[Len(seen)])
          /\ IF evidence.reason = "SL_STOP"
             THEN BeyondStop(seen[Len(seen)]) /\ evidence.net < 0
             ELSE ~BeyondStop(seen[Len(seen)]) /\ evidence.net > 0
  /\ ExcursionsEncloseResult /\ evidence.steps = Len(seen)

LEMMA HistoryIsMatched == (evidence # NoEvidence => History) => EvidenceMatchesHistory
BY DEF History, Ends, EvidenceMatchesHistory, ExitMatchesHistory

\* An approved plan is filled at the tick it was judged at.
LEMMA FillIsFilled ==
  ASSUME ChainInv, JudgedInv, JudgedInv', HeldInv, NEW sc \in Scenarios,
         NEW t \in FirstTicks, RunScenario(sc, t), stage' = "holding", UNCHANGED pc
  PROVE  FilledInv'
<1> DEFINE e == Evaluate(Proposal(sc), AccountOf(sc), MarketOf(t), PaperSpec, 0)
<1>1. /\ evaluation' = e /\ account' = AccountOf(sc) /\ market' = MarketOf(t)
      /\ spec' = PaperSpec /\ scenario' = sc /\ seen' = seen /\ seen = <<>>
      /\ e.decision = "APPROVE" /\ position' = Fill(sc, e, t)
  BY DEF RunScenario, Evaluated, HeldInv
<1>2. /\ IsProposal(Proposal(sc)) /\ AccountOf(sc) \in Accounts /\ MarketOf(t) \in Markets
      /\ PaperSpec \in SymbolSpecs /\ sc.costs \in CostModels /\ t \in Ticks
  BY ProposalsAreTyped, PricesAreTyped, PaperAssumption DEF ScenarioConfigs
<1>3. Verdict(Proposal(sc), AccountOf(sc), MarketOf(t), PaperSpec, 0) = "APPROVED"
  BY <1>1 DEF Evaluate
<1>4. e \in Evaluations /\ e.direction \in {"BUY", "SELL"}
  BY <1>2, <1>3, EvaluateIsTyped, ApprovedHasPassed DEF Evaluate, Passed
<1> HIDE DEF e
<1>5. /\ e.direction \in {"BUY", "SELL"} /\ e.lot \in Nat /\ e.sl \in Int
      /\ e.risk_amount \in Nat /\ t.ask \in Int /\ t.bid \in Int
  BY <1>4, PricesAreTyped DEF Evaluations
<1>6. position' \in Positions
  BY <1>1, <1>2, <1>5 DEF Fill, Positions
<1>7. /\ position'.opened = t /\ position'.direction = e.direction /\ position'.lot = e.lot
      /\ position'.sl = e.sl /\ position'.costs = sc.costs
      /\ position'.entry = Entry(e.direction, MarketOf(t))
      /\ position'.mae = 0 /\ position'.mfe = 0 /\ position'.steps = 0
  BY <1>1 DEF Fill, Entry, MarketOf
<1>8. Approved'
  BY <1>1, <1>4, RiskAssumption DEF Approved
<1>9. ByScenario'
  BY <1>8 DEF JudgedInv, NotJudged, ByGate, RunScenario, Approved
<1>10. position'.steps = Len(seen')
  BY <1>1, <1>7
<1> QED BY <1>1, <1>6, <1>7, <1>8, <1>9, <1>10 DEF FilledInv

LEMMA RunKeepsHeld ==
  ASSUME ChainInv, JudgedInv, JudgedInv', HeldInv, NEW sc \in Scenarios,
         NEW t \in FirstTicks, RunScenario(sc, t), UNCHANGED decisionVars
  PROVE  HeldInv'
<1>1. /\ seen' = <<>> /\ evidence' = NoEvidence /\ stage' \in {"holding", "closed"}
      /\ pc' = pc
  BY DEF RunScenario, HeldInv, decisionVars
<1>2. seen' \in Seq(LaterTicks) /\ Len(seen') = 0 /\ Window \in Nat
  BY <1>1, PaperAssumption
<1>3. stage' = "holding" => FilledInv'
  BY <1>1, FillIsFilled
<1>4. EvidenceMatchesHistory'
  BY <1>1 DEF EvidenceMatchesHistory
<1> QED BY <1>1, <1>2, <1>3, <1>4 DEF HeldInv

LEMMA TickKeepsHeld ==
  ASSUME ChainInv, JudgedInv, HeldInv, NEW t \in LaterTicks, Tick(t), UNCHANGED decisionVars
  PROVE  HeldInv'
<1> DEFINE n == Len(seen)
           net == NetPnl(position, t)
           gross == GrossPnl(position, t)
<1>1. /\ stage = "holding" /\ n < Window /\ seen' = Append(seen, t)
      /\ position' = Tracked(position, t) /\ pc' = pc
      /\ UNCHANGED <<scenario, riskVars, evaluation>>
      /\ FilledInv /\ evidence = NoEvidence
      /\ seen \in Seq(LaterTicks) /\ \A i \in 1..n : ~Ends(seen[i])
  BY DEF Tick, HeldInv, decisionVars, riskVars
<1>2. /\ seen' \in Seq(LaterTicks) /\ Len(seen') = n + 1 /\ n \in Nat /\ n + 1 <= Window
      /\ \A i \in 1..n : seen'[i] = seen[i]
      /\ seen'[n + 1] = t
  BY <1>1, PaperAssumption
<1>3. PICK hist \in Seq(LaterTicks) : hist = seen'
  BY <1>2
<1>4. stage' \in {"holding", "closed"}
  BY <1>1 DEF Tick
<1>5. /\ FilledInv' /\ Costs(position') = Costs(position)
      /\ position'.opened = position.opened /\ GrossPnl(position', t) = gross
      /\ position'.mae <= gross /\ gross <= position'.mfe
  BY <1>1, <1>2, <1>4, TrackedIsFilled
<1>6. \A u : /\ ResultAt(u)' = ResultAt(u) /\ (BeyondStop(u)' <=> BeyondStop(u))
             /\ (Ends(u)' <=> Ends(u))
  BY <1>1, <1>5, HistoryIsKept
<1>7. \A i \in 1..n : ~Ends(hist[i])'
  BY <1>1, <1>2, <1>3, <1>6
<1>8. /\ gross \in Int /\ net \in Int /\ net = gross - Costs(position)
      /\ net = ResultAt(t) /\ (StopHit(position, t) <=> BeyondStop(t))
      /\ BeyondStop(t) => net < 0
  BY <1>1, ResultsAgree
<1>9. NetPnl(position', t) = net
  BY <1>5, <1>8 DEF NetPnl
<1>10. CASE ExitReason(position, t) = "NONE"
  <2>1. UNCHANGED <<stage, evidence>>
    BY <1>10 DEF Tick
  <2>2. ~Ends(t)
    BY <1>8, <1>10 DEF ExitReason, Ends
  <2>3. \A i \in 1..(n + 1) : ~Ends(hist[i])'
    BY <1>2, <1>3, <1>6, <1>7, <2>2
  <2>4. \A i \in 1..Len(seen') : ~Ends(hist[i])'
    BY <1>2, <2>3
  <2>5. (\A i \in 1..Len(seen) : ~Ends(seen[i]))'
    BY <1>3, <2>4 DEF Ends, BeyondStop, ResultAt
  <2>6. EvidenceMatchesHistory'
    BY <1>1, <2>1 DEF EvidenceMatchesHistory
  <2> QED BY <1>1, <1>2, <1>5, <2>1, <2>5, <2>6 DEF HeldInv
<1>11. CASE ExitReason(position, t) # "NONE"
  <2> DEFINE reason == ExitReason(position, t)
  <2>1. stage' = "closed" /\ evidence' = Evidence(position', t, reason)
    BY <1>11 DEF Tick
  <2>2. /\ reason \in {"SL_STOP", "ABC_PROFIT_CLOSE"}
        /\ reason = "SL_STOP" => BeyondStop(t)
        /\ reason = "ABC_PROFIT_CLOSE" => ~BeyondStop(t) /\ net > 0
    BY <1>8, <1>11 DEF ExitReason
  <2> HIDE DEF reason
  <2>3. /\ evidence'.reason = reason /\ evidence'.net = net /\ evidence'.gross = gross
        /\ evidence'.mae = position'.mae /\ evidence'.mfe = position'.mfe
        /\ evidence'.steps = position'.steps
    BY <1>5, <1>9, <2>1 DEF Evidence
  <2>4. /\ position'.mae <= 0 /\ 0 <= position'.mfe /\ position'.steps = Len(seen')
    BY <1>5 DEF FilledInv
  <2>5. ExcursionsEncloseResult'
    BY <1>5, <2>3, <2>4 DEF ExcursionsEncloseResult
  <2>6. /\ evidence'.net = ResultAt(t)'
        /\ IF reason = "SL_STOP" THEN BeyondStop(t)' /\ net < 0
           ELSE ~BeyondStop(t)' /\ net > 0
    BY <1>6, <1>8, <2>2, <2>3
  <2>7. History'
    <3>1. (\A i \in 1..(Len(seen) - 1) : ~Ends(seen[i]))'
      <4>1. \A i \in 1..(Len(seen') - 1) : ~Ends(hist[i])'
        BY <1>2, <1>7
      <4> QED BY <1>3, <4>1 DEF Ends, BeyondStop, ResultAt
    <3>2. seen'[Len(seen')] = t /\ Len(seen') > 0
      BY <1>2
    <3>3. /\ (evidence.net = ResultAt(seen[Len(seen)]))'
          /\ IF reason = "SL_STOP" THEN BeyondStop(seen[Len(seen)])' /\ net < 0
             ELSE ~BeyondStop(seen[Len(seen)])' /\ net > 0
      BY <2>6, <3>2 DEF BeyondStop, ResultAt
    <3> QED BY <2>2, <2>3, <2>4, <2>5, <3>1, <3>2, <3>3 DEF History
  <2>8. EvidenceMatchesHistory'
    BY <2>7, HistoryIsMatched, PTL
  <2> QED BY <1>2, <2>1, <2>8 DEF HeldInv
<1> QED BY <1>10, <1>11

LEMMA EndKeepsHeld ==
  ASSUME ChainInv, JudgedInv, HeldInv, SessionEnd, UNCHANGED decisionVars
  PROVE  HeldInv'
<1> DEFINE opened == position.opened
<1>1. /\ stage = "holding" /\ stage' = "closed"
      /\ UNCHANGED <<seen, position, riskVars, evaluation>>
      /\ evidence' = Evidence(position, opened, "PAPER_SESSION_END")
      /\ FilledInv /\ seen \in Seq(LaterTicks) /\ Len(seen) <= Window
      /\ \A i \in 1..Len(seen) : ~Ends(seen[i])
  BY DEF SessionEnd, HeldInv, riskVars
<1>2. NetPnl(position, opened) <= 0
  BY <1>1, ResultsAgree DEF FilledInv
<1>3. /\ evidence'.reason = "PAPER_SESSION_END" /\ evidence'.net = NetPnl(position, opened)
      /\ evidence'.mae = position.mae /\ evidence'.mfe = position.mfe
      /\ evidence'.steps = position.steps
  BY <1>1 DEF Evidence
<1>4. position.mae <= 0 /\ 0 <= position.mfe /\ position.steps = Len(seen)
  BY <1>1 DEF FilledInv
<1>5. ExcursionsEncloseResult'
  BY <1>3, <1>4 DEF ExcursionsEncloseResult
<1>6. (\A i \in 1..Len(seen) : ~Ends(seen[i]))'
  BY <1>1 DEF Ends, BeyondStop, ResultAt
<1>7. Len(seen') \in Nat
  BY <1>1
<1>8. History'
  BY <1>1, <1>2, <1>3, <1>4, <1>5, <1>6, <1>7 DEF History
<1>9. EvidenceMatchesHistory'
  BY <1>8, HistoryIsMatched, PTL
<1> QED BY <1>1, <1>9 DEF HeldInv

LEMMA NextKeepsHeld ==
  ASSUME ChainInv, JudgedInv, JudgedInv', HeldInv, [Next]_vars
  PROVE  HeldInv'
<1>1. ASSUME UNCHANGED paperVars,
             \/ UNCHANGED <<pc, riskVars>>
             \/ stage # "holding" /\ evidence = NoEvidence
      PROVE  HeldInv'
  <2>1. CASE UNCHANGED <<pc, riskVars>>
    BY <1>1, <2>1 DEF HeldInv, FilledInv, ByScenario, Approved, EvidenceMatchesHistory,
                      ExitMatchesHistory, ExcursionsEncloseResult, Ends, BeyondStop, ResultAt,
                      paperVars, riskVars
  <2>2. CASE stage # "holding" /\ evidence = NoEvidence
    BY <1>1, <2>2 DEF HeldInv, EvidenceMatchesHistory, paperVars
  <2> QED BY <1>1, <2>1, <2>2
<1>2. CASE DecisionStep /\ UNCHANGED <<riskVars, paperVars>>
  <2>1. stage = "off"
    BY <1>2 DEF DecisionStep, RejectContext, Infer, Answered, Failed, DecisionRaises, Raised,
                JudgedInv, NotJudged, ByGate, ByScenario
  <2> QED BY <1>1, <1>2, <2>1 DEF HeldInv
<1>3. ASSUME NEW case \in Cases, Gate(case)
      PROVE  HeldInv'
  <2>1. stage = "off"
    BY <1>3 DEF Gate, JudgedInv, NotJudged, ByGate, ByScenario
  <2> QED BY <1>1, <1>3, <2>1 DEF HeldInv, Gate
<1>4. CASE PaperStep /\ UNCHANGED decisionVars
  BY <1>4, RunKeepsHeld, TickKeepsHeld, EndKeepsHeld DEF PaperStep
<1>5. CASE UNCHANGED vars
  BY <1>1, <1>5 DEF vars, decisionVars, riskVars
<1> QED BY <1>2, <1>3, <1>4, <1>5 DEF Next

LEMMA HeldIsInvariant == Spec => [](ChainInv /\ JudgedInv /\ HeldInv)
<1>1. Init => HeldInv
  BY PaperAssumption DEF Init, PaperInit, HeldInv, EvidenceMatchesHistory
<1>2. ChainInv /\ JudgedInv /\ JudgedInv' /\ HeldInv /\ [Next]_vars => HeldInv'
  BY NextKeepsHeld
<1> QED BY <1>1, <1>2, JudgedIsInvariant, PTL DEF Spec

\* The evidence of a paper trade is the history of its ticks: the exit is the first
\* tick that had to end it, with the result of that tick, the excursions enclose it,
\* and a session that ends leaves a loss (execution_simulator.py, check_exit and close;
\* scenario_runner.py, run), for every run of prices, every cost model and every plan.
THEOREM EvidenceMatchesHistoryHolds == Spec => []EvidenceMatchesHistory
<1>1. HeldInv => EvidenceMatchesHistory
  BY DEF HeldInv
<1> QED BY <1>1, HeldIsInvariant, PTL

\* Every decision, verdict and paper trade has its shape, and they fit together
\* (ai_decision/engine.py, risk_engine/engine.py, paper_validation/scenario_runner.py).
THEOREM TypeOKHolds == Spec => []TypeOK
<1>1. ChainInv /\ JudgedInv /\ HeldInv => TypeOK
  <2> SUFFICES ASSUME ChainInv, JudgedInv, HeldInv
               PROVE  TypeOK
    OBVIOUS
  <2>1. /\ pc \in {"off", "context", "calling", "decided", "gated", "raised"}
        /\ level \in Levels /\ attempt \in 0..(MaxAttempts - 1) /\ age \in Int
        /\ said \in Answers \cup {NoAnswer} /\ record \in Records \cup {NoRecord}
        /\ record = NoRecord <=> pc \in {"off", "context", "calling", "raised"}
    BY DEF ChainInv, Recorded
  <2>2. \A i \in DOMAIN calls : calls[i].level \in Levels
    <3>1. calls \in Seq(Calls)
      BY DEF ChainInv
    <3>2. \A i \in DOMAIN calls : calls[i] \in Calls
      BY <3>1
    <3> QED BY <3>2 DEF Calls
  <2>3. evaluation # NoEvaluation =>
          /\ evaluation.decision \in {"APPROVE", "REJECT"} /\ evaluation.lot \in Nat
          /\ evaluation.reason_code \in ReasonCodes
    BY JudgementIsTyped DEF Evaluations
  <2>4. /\ stage \in {"off", "ready", "holding", "closed"}
        /\ evaluation = NoEvaluation
             <=> (pc # "gated" /\ stage \in {"off", "ready"})
    <3>1. CASE NotJudged
      BY <3>1 DEF NotJudged
    <3>2. CASE evaluation # NoEvaluation
      BY <3>2, JudgementIsTyped DEF ByGate, ByScenario
    <3>3. CASE evaluation = NoEvaluation /\ (ByGate \/ ByScenario)
      <4>1. evaluation \in Evaluations
        <5>1. CASE ByGate
          <6>1. IsProposal(record)
            BY <5>1, ProposalsAreTyped DEF ByGate, ChainInv, Recorded
          <6> QED BY <5>1, <6>1, EvaluateIsTyped DEF ByGate
        <5>2. CASE ByScenario
          BY <5>2, ProposalsAreTyped, PaperAssumption, EvaluateIsTyped DEF ByScenario
        <5> QED BY <3>3, <5>1, <5>2
      <4> QED BY <3>3, <4>1, RiskAssumption
    <3> QED BY <3>1, <3>2, <3>3 DEF JudgedInv
  <2>5. stage = "holding" => position # NoPosition /\ evidence = NoEvidence
    BY PaperAssumption DEF HeldInv, FilledInv
  <2>6. Len(seen) \in 0..Window
    BY PaperAssumption DEF HeldInv
  <2> QED BY <2>1, <2>2, <2>3, <2>4, <2>5, <2>6 DEF TypeOK
<1> QED BY <1>1, HeldIsInvariant, PTL

-----------------------------------------------------------------------------
(* Every path runs down *)

\* The most steps a decision still takes: a verdict, and before it each call that is left.
AskingLeft ==
  CASE pc = "context" -> 3 * MaxAttempts + 2
    [] pc = "calling" -> (3 - level) * MaxAttempts - attempt + 1
    [] pc = "decided" -> 1
    [] OTHER          -> 0

\* The most steps a scenario still takes: a tick after the other, and the end of session.
TradingLeft ==
  CASE stage = "ready"   -> Window + 2
    [] stage = "holding" -> Window - Len(seen) + 1
    [] OTHER             -> 0

\* What EveryPathEnds needs of every single step: it brings the path nearer to its end.
EveryPathRunsDown ==
  [][AskingLeft' + TradingLeft' \in 0..(AskingLeft + TradingLeft - 1)]_vars

LEMMA AskingIsTyped ==
  ASSUME ChainInv
  PROVE  AskingLeft \in Nat
<1>1. MaxAttempts \in Nat \ {0} /\ attempt \in 0..(MaxAttempts - 1) /\ level \in {0, 1, 2}
  BY DecisionAssumption DEF ChainInv, Levels
<1>2. (3 - level) * MaxAttempts - attempt + 1 \in Nat
  <2>1. CASE level = 0
    BY <1>1, <2>1
  <2>2. CASE level = 1
    BY <1>1, <2>2
  <2>3. CASE level = 2
    BY <1>1, <2>3
  <2> QED BY <1>1, <2>1, <2>2, <2>3
<1>3. 3 * MaxAttempts + 2 \in Nat
  BY <1>1
<1> QED BY <1>2, <1>3 DEF AskingLeft

LEMMA TradingIsTyped ==
  ASSUME HeldInv
  PROVE  TradingLeft \in Nat
<1>1. Window \in Nat /\ Len(seen) \in Nat /\ Len(seen) <= Window
  BY PaperAssumption DEF HeldInv
<1> QED BY <1>1 DEF TradingLeft

\* A step of the decision is a call, of which each level has MaxAttempts, or the verdict.
LEMMA DecisionRunsDown ==
  ASSUME ChainInv, DecisionStep
  PROVE  AskingLeft' < AskingLeft
<1>1. MaxAttempts \in Nat \ {0} /\ attempt \in 0..(MaxAttempts - 1) /\ level \in {0, 1, 2}
  BY DecisionAssumption DEF ChainInv, Levels
<1>2. pc = "calling" => AskingLeft >= 2
  <2>1. (3 - level) * MaxAttempts - attempt + 1 >= 2
    <3>1. CASE level = 0
      BY <1>1, <3>1
    <3>2. CASE level = 1
      BY <1>1, <3>2
    <3>3. CASE level = 2
      BY <1>1, <3>3
    <3> QED BY <1>1, <3>1, <3>2, <3>3
  <2> QED BY <2>1 DEF AskingLeft
<1>3. CASE RejectContext
  <2>1. AskingLeft = 3 * MaxAttempts + 2 /\ AskingLeft' = 1
    BY <1>3 DEF RejectContext, AskingLeft
  <2> QED BY <1>1, <2>1
<1>4. CASE Infer
  <2>1. AskingLeft = 3 * MaxAttempts + 2 /\ AskingLeft' = 3 * MaxAttempts + 1
    <3>1. level = 0 /\ attempt = 0 /\ level' = level /\ attempt' = attempt
      BY <1>4 DEF Infer, ChainInv
    <3>2. pc = "context" /\ pc' = "calling"
      BY <1>4 DEF Infer
    <3>3. (3 - 0) * MaxAttempts - 0 + 1 = 3 * MaxAttempts + 1
      BY <1>1
    <3> QED BY <3>1, <3>2, <3>3 DEF AskingLeft
  <2> QED BY <1>1, <2>1
<1>5. ASSUME NEW a \in Answers, NEW s \in Latencies, Answered(a, s)
      PROVE  AskingLeft' < AskingLeft
  <2>1. pc = "calling" /\ AskingLeft' = 1
    BY <1>5 DEF Answered, AskingLeft
  <2> QED BY <1>2, <2>1, AskingIsTyped
<1>6. ASSUME NEW st \in Statuses, NEW s \in Takes(st), Failed(st, s)
      PROVE  AskingLeft' < AskingLeft
  <2>1. pc = "calling" /\ AskingLeft = (3 - level) * MaxAttempts - attempt + 1
    BY <1>6 DEF Failed, AskingLeft
  <2>2. CASE pc' = "calling" /\ level' = level /\ attempt' = attempt + 1
    <3>1. AskingLeft' = (3 - level) * MaxAttempts - (attempt + 1) + 1
      BY <2>2 DEF AskingLeft
    <3>2. (3 - level) * MaxAttempts \in Int
      BY <1>1
    <3> QED BY <1>1, <2>1, <3>1, <3>2
  <2>3. CASE pc' = "calling" /\ level < 2 /\ level' = level + 1 /\ attempt' = 0
    <3>1. AskingLeft' = (3 - (level + 1)) * MaxAttempts - 0 + 1
      BY <2>3 DEF AskingLeft
    <3>2. CASE level = 0
      BY <1>1, <2>1, <3>1, <3>2
    <3>3. CASE level = 1
      BY <1>1, <2>1, <3>1, <3>3
    <3> QED BY <1>1, <2>3, <3>2, <3>3
  <2>4. CASE pc' = "decided"
    <3>1. AskingLeft' = 1
      BY <2>4 DEF AskingLeft
    <3> QED BY <1>2, <2>1, <3>1, AskingIsTyped
  <2> QED BY <1>6, <2>1, <2>2, <2>3, <2>4 DEF Failed
<1>7. CASE DecisionRaises
  <2>1. pc = "calling" /\ pc' = "raised"
    BY <1>7 DEF DecisionRaises, Raised
  <2>2. AskingLeft' = 0
    BY <2>1 DEF AskingLeft
  <2> QED BY <1>2, <2>1, <2>2, AskingIsTyped
<1> QED BY <1>3, <1>4, <1>5, <1>6, <1>7 DEF DecisionStep

\* A step of a scenario is its judgement, a tick of the window, or the end of session.
LEMMA ScenarioRunsDown ==
  ASSUME HeldInv, PaperStep
  PROVE  TradingLeft' < TradingLeft
<1>1. Window \in Nat /\ Len(seen) \in Nat /\ Len(seen) <= Window
  BY PaperAssumption DEF HeldInv
<1>2. ASSUME NEW sc \in Scenarios, NEW t \in FirstTicks, RunScenario(sc, t)
      PROVE  TradingLeft' < TradingLeft
  <2>1. stage = "ready" /\ seen' = seen /\ seen = <<>> /\ stage' \in {"closed", "holding"}
    BY <1>2 DEF RunScenario, HeldInv
  <2>2. TradingLeft = Window + 2 /\ TradingLeft' \in {0, Window - Len(seen) + 1}
    BY <2>1 DEF TradingLeft
  <2> QED BY <1>1, <2>1, <2>2
<1>3. ASSUME NEW t \in LaterTicks, Tick(t)
      PROVE  TradingLeft' < TradingLeft
  <2>1. stage = "holding" /\ stage' \in {"holding", "closed"} /\ Len(seen') = Len(seen) + 1
    <3>1. seen \in Seq(LaterTicks) /\ seen' = Append(seen, t)
      BY <1>3 DEF Tick, HeldInv
    <3>2. Len(seen') = Len(seen) + 1
      BY <3>1
    <3>3. stage = "holding" /\ stage' \in {"holding", "closed"}
      BY <1>3 DEF Tick
    <3> QED BY <3>2, <3>3
  <2>2. TradingLeft = Window - Len(seen) + 1
        /\ TradingLeft' \in {0, Window - (Len(seen) + 1) + 1}
    BY <2>1 DEF TradingLeft
  <2> QED BY <1>1, <2>2
<1>4. CASE SessionEnd
  <2>1. TradingLeft = Window - Len(seen) + 1 /\ TradingLeft' = 0
    BY <1>4 DEF SessionEnd, TradingLeft
  <2> QED BY <1>1, <2>1
<1> QED BY <1>2, <1>3, <1>4 DEF PaperStep

\* Whatever the models answer and however often they fail, and whatever prices come, every
\* step of a decision and of a scenario brings it nearer to its verdict or its end: no
\* attempt, level or tick is taken twice (ai_decision/engine.py, decide; scenario_runner.py,
\* run).
THEOREM EveryPathRunsDownHolds == Spec => EveryPathRunsDown
<1> DEFINE Typed == AskingLeft \in Nat /\ TradingLeft \in Nat
<1>0. \A a, b, c, d \in Nat :
        (c < a /\ d = b) \/ (d < b /\ c = a) => c + d \in 0..(a + b - 1)
  OBVIOUS
<1>1. ChainInv /\ HeldInv => Typed
  BY AskingIsTyped, TradingIsTyped
<1>2. ASSUME ChainInv, HeldInv, Typed, Typed', Next
      PROVE  AskingLeft' + TradingLeft' \in 0..(AskingLeft + TradingLeft - 1)
  <2>0. /\ AskingLeft \in Nat /\ TradingLeft \in Nat
        /\ AskingLeft' \in Nat /\ TradingLeft' \in Nat
    BY <1>2
  <2>1. CASE DecisionStep /\ UNCHANGED <<riskVars, paperVars>>
    <3>1. AskingLeft' < AskingLeft
      BY <1>2, <2>1, DecisionRunsDown
    <3>2. TradingLeft' = TradingLeft
      BY <2>1 DEF paperVars, TradingLeft
    <3> QED BY <1>0, <2>0, <3>1, <3>2
  <2>2. ASSUME NEW case \in Cases, Gate(case)
        PROVE  AskingLeft' + TradingLeft' \in 0..(AskingLeft + TradingLeft - 1)
    <3>1. AskingLeft = 1 /\ AskingLeft' = 0
      BY <2>2 DEF Gate, AskingLeft
    <3>2. TradingLeft' = TradingLeft
      BY <2>2 DEF Gate, paperVars, TradingLeft
    <3> QED BY <1>0, <2>0, <3>1, <3>2
  <2>3. CASE PaperStep /\ UNCHANGED decisionVars
    <3>1. TradingLeft' < TradingLeft
      BY <1>2, <2>3, ScenarioRunsDown
    <3>2. AskingLeft' = AskingLeft
      BY <2>3 DEF decisionVars, AskingLeft
    <3> QED BY <1>0, <2>0, <3>1, <3>2
  <2> QED BY <1>2, <2>1, <2>2, <2>3 DEF Next
<1>3. ChainInv /\ HeldInv /\ Typed /\ Typed' /\ [Next]_vars
        => [AskingLeft' + TradingLeft' \in 0..(AskingLeft + TradingLeft - 1)]_vars
  BY <1>2
<1> QED BY <1>1, <1>3, HeldIsInvariant, PTL DEF Spec, EveryPathRunsDown
=============================================================================
