------------------------- MODULE DecisionProperties -------------------------
(* What must hold of a decision, of the plan made of it, and of the paper  *)
(* trade that follows.                                                     *)
EXTENDS DecisionChain

TypeOK ==
  /\ pc \in {"off", "context", "calling", "decided", "gated", "raised"}
  /\ level \in Levels /\ attempt \in 0..(MaxAttempts - 1) /\ age \in Int
  /\ \A i \in DOMAIN calls : calls[i].level \in Levels
  /\ said \in Answers \cup {NoAnswer} /\ record \in Records \cup {NoRecord}
  /\ record = NoRecord <=> pc \in {"off", "context", "calling", "raised"}
  /\ evaluation = NoEvaluation
       <=> (pc # "gated" /\ stage \in {"off", "ready"})
  /\ evaluation # NoEvaluation =>
       /\ evaluation.decision \in {"APPROVE", "REJECT"} /\ evaluation.lot \in Nat
       /\ evaluation.reason_code \in ReasonCodes
  /\ stage \in {"off", "ready", "holding", "closed"}
  /\ stage = "holding" => position # NoPosition /\ evidence = NoEvidence
  /\ Len(seen) \in 0..Window

Approved == evaluation # NoEvaluation /\ evaluation.decision = "APPROVE"

-----------------------------------------------------------------------------
(* The fallback chain *)

Level(i) == calls[i].level

\* Levels are called one after the other, and none more than max_attempts times.
BoundedCalls ==
  /\ \A i \in 1..(Len(calls) - 1) : Level(i) <= Level(i + 1)
  /\ \A i \in 1..(Len(calls) - MaxAttempts) : Level(i) < Level(i + MaxAttempts)

\* An answer, good or bad, is the last call: bad output is never asked for again.
AnswerIsLast == \A i \in DOMAIN calls : calls[i].status = "OK" => i = Len(calls)

\* Timeouts, broken connections, rate limits and server errors; the requests a
\* server refuses are refused again.
RetryIsSafe(status) == status \notin {"OK", "HTTP400", "HTTP401"}

\* A level is given up after a failure that is not worth a retry, or after
\* max_attempts calls; no level is skipped.
NoLevelGivenUpEarly ==
  \A i \in 1..(Len(calls) - 1) :
    IF Level(i + 1) = Level(i) THEN RetryIsSafe(calls[i].status)
    ELSE /\ Level(i + 1) = Level(i) + 1
         /\ \/ ~RetryIsSafe(calls[i].status)
            \/ i >= MaxAttempts /\ Level(i + 1 - MaxAttempts) = Level(i)

\* The record of an answer tells at which level, at which attempt and after how
\* many calls of that level it was given.
RecordTellsTheCalls ==
  said # NoAnswer =>
    /\ \A i \in DOMAIN calls : Level(i) = record.fallback_level
                                <=> i > Len(calls) - record.attempts
    /\ record.retried = (record.attempts > 1)

\* The calls decide() makes are those of the bounded fallback chain, whatever
\* fails when: at most max_attempts per level, retries only where they are safe,
\* no call after an answer, and the record tells them truly.
CallsFollowTheChain ==
  /\ BoundedCalls /\ AnswerIsLast /\ NoLevelGivenUpEarly /\ RecordTellsTheCalls

-----------------------------------------------------------------------------
(* From the answer to the plan *)

\* A plan of the live path rests on an answer that said so itself (an object with
\* a plain buy or sell, a confidence in range and above the minimum, a reason, and
\* nothing the models have no authority over) and on fresh prices: a call that
\* timed out spoils the snapshot, however the retries and the fallbacks went on.
OnlyVettedAnswersTrade ==
  pc = "gated" /\ Approved =>
    /\ said # NoAnswer /\ said.form = "object"
    /\ <<said.word, evaluation.direction>> \in {<<"buy", "BUY">>, <<"sell", "SELL">>}
    /\ said.confidence \in MinConfidence..100
    /\ said.reason = "plain" /\ ~said.forbidden
    /\ \A i \in DOMAIN calls : calls[i].status # "TIMEOUT"

Distance ==
  IF evaluation.direction = "BUY" THEN market.ask - evaluation.sl
  ELSE evaluation.sl - market.bid

\* The approved lot is the largest on the volume grid whose loss at the approved
\* stop loss is within the budget, or the symbol's maximum.
ApprovedLotIsLargest ==
  Approved =>
    LET loss(lot) == lot * Distance * spec.pointRisk IN
    /\ Distance > 0
    /\ loss(evaluation.lot) = evaluation.risk_amount
    /\ evaluation.risk_amount <= Budget(account)
    /\ evaluation.lot \in spec.volumeMin..spec.volumeMax
    /\ \/ evaluation.lot = spec.volumeMax
       \/ /\ evaluation.lot % spec.volumeStep = 0
          /\ loss(evaluation.lot + spec.volumeStep) > Budget(account)

\* What the scenario, or the caller of the gate, says the free margin is.
StatedFreeMargin ==
  IF scenario # NoScenario /\ scenario.freeMargin # NoOverride
  THEN scenario.freeMargin ELSE account.freeMargin

\* With the approved trade open, the account keeps its limits: one position, the
\* exposure within the cap, and a free margin with room for the next budget.  An
\* override of zero is the exception: it is taken for none.
ApprovalFitsTheAccount ==
  Approved =>
    LET value == evaluation.lot * spec.contract * Entry(evaluation.direction, market)
        margin == IF spec.marginInitial > 0 THEN evaluation.lot * spec.marginInitial
                  ELSE value \div Leverage
    IN  /\ account.positions + 1 <= MaxPositions
        /\ account.drawdown < MaxDrawdown
        /\ account.exposure + value
             <= (Capital(account) \div 100) * ExposureRatio + 50
        /\ \/ scenario # NoScenario /\ scenario.freeMargin = 0
           \/ StatedFreeMargin - margin >= RequiredFreeMargin(account) - 50

-----------------------------------------------------------------------------
(* The paper trade *)

\* The result a tick would have given, from the approved plan and the prices.
ResultAt(t) ==
  LET open == position.opened IN
  (IF evaluation.direction = "BUY" THEN t.bid - open.ask ELSE open.bid - t.ask)
    * evaluation.lot * PaperSpec.contract - Costs(position)

BeyondStop(t) ==
  IF evaluation.direction = "BUY" THEN t.bid <= evaluation.sl
  ELSE t.ask >= evaluation.sl

\* A trade ends at the first tick that reaches the stop loss or shows a net
\* profit, with the reason and the result of that tick; at the end of the session
\* there was no such tick, and the result is a loss.
ExitMatchesHistory(n, ends(_)) ==
  /\ \A i \in 1..(n - 1) : ~ends(seen[i])
  /\ IF evidence.reason = "PAPER_SESSION_END"
     THEN (n > 0 => ~ends(seen[n])) /\ evidence.net <= 0
     ELSE /\ n > 0 /\ evidence.net = ResultAt(seen[n])
          /\ IF evidence.reason = "SL_STOP"
             THEN BeyondStop(seen[n]) /\ evidence.net < 0
             ELSE ~BeyondStop(seen[n]) /\ evidence.net > 0

\* The excursions enclose the gross result, and are those of the ticks that were
\* seen.  A session end is the exception: it is closed at the first tick, which no
\* excursion has followed.
ExcursionsEncloseResult ==
  /\ evidence.mae <= 0 /\ 0 <= evidence.mfe
  /\ evidence.reason # "PAPER_SESSION_END" =>
       evidence.mae <= evidence.gross /\ evidence.gross <= evidence.mfe

\* The evidence of a scenario is the history of its ticks: the exit is where it had
\* to be, the result is that tick's, the excursions and steps are those seen.
EvidenceMatchesHistory ==
  evidence # NoEvidence =>
    /\ ExitMatchesHistory(Len(seen), LAMBDA t : BeyondStop(t) \/ ResultAt(t) > 0)
    /\ ExcursionsEncloseResult /\ evidence.steps = Len(seen)

-----------------------------------------------------------------------------
(* Liveness *)

\* A server that says nothing runs into the timeout and an answer is finite, so
\* that every call ends; a scenario has finitely many ticks.
FairSpec == Spec /\ WF_vars(Next)

\* Every decision reaches its verdict or the caller's exception handler, and every
\* scenario its end.  decide() raises on an answer its parser stumbles over and on an
\* HTTP error whose body cannot be read, although parse_and_normalize is said to
\* return in every case; whatever else fails, the retries and the fallbacks lead to
\* a record and from there to the gate.
EveryPathEnds ==
  <>(pc \in {"gated", "raised"} \/ stage = "closed")
=============================================================================
