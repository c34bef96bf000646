--------------------------- MODULE ExposureProofs ----------------------------
(***************************************************************************)
(* The properties of the execution engine that hold when no request        *)
(* arrives after its caller gave up on it (LateLanding = FALSE): for every *)
(* set of commands and trades, every retry budget, every number of crashes *)
(* and every broker scenario.                                              *)
(***************************************************************************)
EXTENDS ExecutionProofs

-----------------------------------------------------------------------------
(* The broker *)

\* Nothing of the broker's book about command c changes.
BookOf(c) == <<order[c], position[c], protected[c]>>

\* submit() for a command without evidence at the broker: no other command's
\* book changes, and an answer that denies the order tells the truth.
LEMMA SubmitIsPrompt ==
  ASSUME LateLanding = FALSE, BrokerTypeOK, delayed = {}, NEW c \in Commands, NEW a,
         order[c] = "NONE", SubmitOrder(c, a)
  PROVE  /\ delayed' = {}
         /\ \A d \in Commands \ {c} : UNCHANGED BookOf(d)
         /\ a \in {"REJECTED", "EXPIRED"} => order'[c] = "NONE"
         /\ a = "PARTIALLY_FILLED" => order'[c] = "CANCELED"
<1>1. CASE NoFill /\ UNCHANGED <<order, delayed>>
             /\ a \in {"REJECTED", "EXPIRED"}
  BY <1>1 DEF NoFill, BookOf
<1>2. ASSUME NEW mode \in Modes, Play(c, mode, a)
      PROVE  /\ delayed' = {}
             /\ \A d \in Commands \ {c} : UNCHANGED BookOf(d)
             /\ a \in {"REJECTED", "EXPIRED"} => order'[c] = "NONE"
             /\ a = "PARTIALLY_FILLED" => order'[c] = "CANCELED"
  <2>1. delayed' = {}
    BY <1>2 DEF Play
  <2>2. ASSUME NEW d \in Commands \ {c} PROVE UNCHANGED BookOf(d)
    BY <1>2 DEF Play, Fill, NoFill, BookOf, BrokerTypeOK
  <2>3. a \in {"REJECTED", "EXPIRED"} => order'[c] = "NONE"
    BY <1>2 DEF Play
  <2>4. a = "PARTIALLY_FILLED" => order'[c] = "CANCELED"
    BY <1>2 DEF Play, Fill, BrokerTypeOK
  <2>5. QED
    BY <2>1, <2>2, <2>3, <2>4
<1>3. QED
  BY <1>1, <1>2 DEF SubmitOrder

\* The truth about a command depends on its own rows only.
LEMMA CurrentFrame ==
  ASSUME NEW c, IsCurrent(c), UNCHANGED <<BookOf(c), state[c], result[c]>>
  PROVE  IsCurrent(c)'
BY DEF IsCurrent, BookOf, FilledInPart, RecoveryAction

\* A query that denies or rejects the order tells the truth.
LEMMA QueryIsPrompt ==
  ASSUME Inductive, NEW c \in Commands, NEW q \in QueryAnswers(c)
  PROVE  /\ q = "NONE" => order[c] = "NONE"
         /\ q = "REJECTED" => order[c] = "CANCELED"
BY DEF Inductive, TypeOK, BrokerTypeOK, OrderStates, QueryAnswers, BrokerTruth

-----------------------------------------------------------------------------
(* The pieces of a call *)

\* Journaling state t leaves the exposure known, and the other commands as they
\* were, if the book of the command in progress warrants t.
LEMMA RecordIsPrompt ==
  ASSUME PromptInductive, cmd \in Commands, UNCHANGED brokerVars,
         NEW t, Record(cmd, t), Active(cmd), t \in States,
         order[cmd] = "PLACED" => t \in {"SUBMITTED", "UNKNOWN"},
         order[cmd] = "FILLED" /\ position[cmd] = "OPEN" => t \notin TerminalStates,
         t = "PARTIALLY_FILLED" => order[cmd] = "CANCELED"
  PROVE  /\ ExposureInv'
         /\ \A c \in Commands \ {cmd} : IsCurrent(c) => IsCurrent(c)'
         /\ state'[cmd] = t
<1>1. /\ state' = [state EXCEPT ![cmd] = t] /\ result' = result
      /\ state \in [Commands -> States \cup {"ABSENT"}]
      /\ UNCHANGED <<order, position, protected, delayed>>
  BY DEF Record, PromptInductive, Inductive, TypeOK, JournalTypeOK, brokerVars
<1>2. \A c \in Commands \ {cmd} : IsCurrent(c) => IsCurrent(c)'
  BY <1>1, CurrentFrame DEF BookOf
<1>3. state'[cmd] = t /\ \A c \in Commands \ {cmd} : state'[c] = state[c]
  BY <1>1
<1>4. \A c \in Commands : Active(c)' => Active(c)
  BY <1>3 DEF Active
<1>5. ExposureInv'
  BY <1>1, <1>3, <1>4 DEF PromptInductive, Prompt, ExposureInv
<1>6. QED
  BY <1>2, <1>3, <1>5

\* The next effect of the call after a record.
LEMMA GotoIsPrompt ==
  ASSUME PromptInductive, cmd \in Commands, NEW label, NEW n, NEW a, Goto(label, n, a),
         ExposureInv', Knows(label, a)',
         \A c \in Commands \ {cmd} : IsCurrent(c) => IsCurrent(c)',
         crashes = 0 /\ label \in {"validate", "gate", "close"} => IsCurrent(cmd)',
         crashes = 0 /\ label = "settle" => IsCurrent(cmd)' \/ state'[cmd] = "MODIFYING"
  PROVE  Prompt'
BY DEF PromptInductive, Prompt, CurrentInv, Goto

\* A call that ends leaves its own command current too.
LEMMA ReturnIsPrompt ==
  ASSUME PromptInductive, cmd \in Commands, pc' = "idle", cmd' = NoCommand,
         ExposureInv', crashes' = 0 => crashes = 0,
         \A c \in Commands : crashes = 0 /\ (c = cmd \/ IsCurrent(c)) => IsCurrent(c)'
  PROVE  Prompt'
BY EngineAssumption DEF PromptInductive, Prompt, CurrentInv, Knows

\* Nothing but the call changes.
LEMMA OnlyCallIsPrompt ==
  ASSUME PromptInductive, UNCHANGED <<brokerVars, journalVars>>
  PROVE  /\ ExposureInv'
         /\ \A c \in Commands : IsCurrent(c) => IsCurrent(c)'
<1>1. UNCHANGED <<order, position, protected, delayed, state, result>>
  BY DEF brokerVars, journalVars
<1>2. ExposureInv'
  BY <1>1 DEF PromptInductive, Prompt, ExposureInv, Active
<1>3. QED
  BY <1>1, <1>2, CurrentFrame DEF BookOf

\* _record_transition(): the event is illegal and the call raises, or its target
\* is warranted by the book and the call goes on.
LEMMA TransitionIsPrompt ==
  ASSUME PromptInductive, cmd \in Commands, UNCHANGED brokerVars, NEW e, NEW t,
         NEW label, NEW a, RecordTransition(e, t, Goto(label, 0, a)),
         ~LeadsTo(state[cmd], e, t) /\ crashes = 0 => IsCurrent(cmd),
         LeadsTo(state[cmd], e, t) =>
           /\ order[cmd] = "PLACED" => t \in {"SUBMITTED", "UNKNOWN"}
           /\ order[cmd] = "FILLED" /\ position[cmd] = "OPEN" => t \notin TerminalStates
           /\ t = "PARTIALLY_FILLED" => order[cmd] = "CANCELED",
         state'[cmd] = t /\ cmd' = cmd => Knows(label, a)',
         label = "gate" /\ LeadsTo(state[cmd], e, t) /\ state'[cmd] = t /\ cmd' = cmd =>
           IsCurrent(cmd)',
         label \notin {"validate", "close", "settle"}
  PROVE  Prompt'
<1>1. CASE ~LeadsTo(state[cmd], e, t) /\ UNCHANGED journalVars /\ Return
  BY <1>1, OnlyCallIsPrompt, ReturnIsPrompt DEF Return
<1>2. CASE LeadsTo(state[cmd], e, t) /\ Record(cmd, t) /\ Goto(label, 0, a)
  <2>1. Active(cmd) /\ t \in States
    BY <1>2, LegalTargets DEF Active
  <2>2. /\ ExposureInv'
        /\ \A c \in Commands \ {cmd} : IsCurrent(c) => IsCurrent(c)'
        /\ state'[cmd] = t
    BY <1>2, <2>1, RecordIsPrompt
  <2>3. cmd' = cmd
    BY <1>2 DEF Goto
  <2>4. QED
    BY <1>2, <2>2, <2>3, GotoIsPrompt
<1>3. QED
  BY <1>1, <1>2 DEF RecordTransition

-----------------------------------------------------------------------------
(* The steps of a call *)

LEMMA ValidateIsPrompt == PromptInductive /\ Validate => Prompt'
<1> SUFFICES ASSUME PromptInductive, Validate PROVE Prompt'
  OBVIOUS
<1>1. /\ cmd \in Commands /\ state[cmd] \notin {"SUBMITTED", "UNKNOWN"}
      /\ crashes = 0 => IsCurrent(cmd)
      /\ state[cmd] \in {"CREATED", "VALIDATED"} => order[cmd] = "NONE"
  BY CallHasCommand DEF Validate, PromptInductive, Prompt, Knows, CurrentInv, Inductive,
                        JournalInv, WriteAhead
<1>2. CASE RecordTransition("VALIDATE_FAIL", "FAILED", Goto("store", 0, "FAILED"))
  <2>1. LeadsTo(state[cmd], "VALIDATE_FAIL", "FAILED") => order[cmd] = "NONE"
    BY <1>1 DEF LeadsTo, Transitions
  <2>2. state'[cmd] = "FAILED" /\ cmd' = cmd => Knows("store", "FAILED")'
    BY DEF Knows
  <2>3. QED
    BY <1>1, <1>2, <2>1, <2>2, TransitionIsPrompt DEF Validate
<1>3. CASE RecordTransition("VALIDATE_OK", "VALIDATED", Goto("gate", 0, "NONE"))
  <2>1. LeadsTo(state[cmd], "VALIDATE_OK", "VALIDATED") => order[cmd] = "NONE"
    BY <1>1 DEF LeadsTo, Transitions
  <2>2. state'[cmd] = "VALIDATED" /\ cmd' = cmd => Knows("gate", "NONE")'
    BY DEF Knows
  <2>3. LeadsTo(state[cmd], "VALIDATE_OK", "VALIDATED") /\ state'[cmd] = "VALIDATED"
          /\ cmd' = cmd => IsCurrent(cmd)'
    BY <1>1, <2>1 DEF Validate, IsCurrent, brokerVars, PromptInductive, Inductive, BookInv,
                      TerminalStates
  <2>4. QED
    BY <1>1, <1>3, <2>1, <2>2, <2>3, TransitionIsPrompt DEF Validate
<1>4. CASE UNCHANGED journalVars /\ Goto("gate", 0, "NONE")
  <2>1. Knows("gate", "NONE")'
    BY <1>1, <1>4 DEF Knows, Goto, journalVars
  <2>2. QED
    BY <1>1, <1>4, <2>1, OnlyCallIsPrompt, GotoIsPrompt DEF Validate, Goto
<1>5. QED
  BY <1>2, <1>3, <1>4 DEF Validate

LEMMA GateIsPrompt == PromptInductive /\ Gate => Prompt'
<1> SUFFICES ASSUME PromptInductive, Gate PROVE Prompt'
  OBVIOUS
<1>1. /\ cmd \in Commands /\ state[cmd] \notin {"SUBMITTED", "UNKNOWN"}
      /\ crashes = 0 => IsCurrent(cmd)
      /\ state[cmd] \in {"CREATED", "VALIDATED"} => order[cmd] = "NONE"
  BY CallHasCommand DEF Gate, PromptInductive, Prompt, Knows, CurrentInv, Inductive,
                        JournalInv, WriteAhead
<1>2. CASE RecordTransition("EXPIRE", "EXPIRED", Goto("store", 0, "EXPIRED"))
  <2>1. LeadsTo(state[cmd], "EXPIRE", "EXPIRED") => order[cmd] = "NONE"
    BY <1>1 DEF LeadsTo, Transitions
  <2>2. state'[cmd] = "EXPIRED" /\ cmd' = cmd => Knows("store", "EXPIRED")'
    BY DEF Knows
  <2>3. QED
    BY <1>1, <1>2, <2>1, <2>2, TransitionIsPrompt DEF Gate
<1>3. CASE RecordTransition("SUBMIT", "SUBMITTED", Goto("send", 0, "NONE"))
  <2>1. LeadsTo(state[cmd], "SUBMIT", "SUBMITTED") => order[cmd] = "NONE"
    BY <1>1 DEF LeadsTo, Transitions
  <2>2. CASE LeadsTo(state[cmd], "SUBMIT", "SUBMITTED")
    <3>1. state'[cmd] = "SUBMITTED" /\ cmd' = cmd => Knows("send", "NONE")'
      BY <2>1, <2>2 DEF Gate, Knows, brokerVars
    <3>2. QED
      BY <1>1, <1>3, <2>1, <3>1, TransitionIsPrompt DEF Gate, TerminalStates
  <2>3. CASE ~LeadsTo(state[cmd], "SUBMIT", "SUBMITTED")
    BY <1>1, <1>3, <2>3, OnlyCallIsPrompt, ReturnIsPrompt
       DEF Gate, RecordTransition, Return
  <2>4. QED
    BY <2>2, <2>3
<1>4. QED
  BY <1>2, <1>3 DEF Gate

LEMMA SendIsPrompt == LateLanding = FALSE /\ PromptInductive /\ Send => Prompt'
<1> SUFFICES ASSUME LateLanding = FALSE, PromptInductive, Send PROVE Prompt'
  OBVIOUS
<1>1. /\ cmd \in Commands /\ state[cmd] = "SUBMITTED" /\ order[cmd] = "NONE"
      /\ delayed = {}
  BY CallHasCommand DEF Send, PromptInductive, Prompt, Knows, ExposureInv, Inductive,
                        CallInv, Carries
<1>2. PICK a \in Answers : SubmitOrder(cmd, a) /\ Goto("classify", tries, a)
  BY DEF Send
<1>3. /\ delayed' = {}
      /\ \A d \in Commands \ {cmd} : UNCHANGED BookOf(d)
      /\ a \in {"REJECTED", "EXPIRED"} => order'[cmd] = "NONE"
      /\ a = "PARTIALLY_FILLED" => order'[cmd] = "CANCELED"
  BY <1>1, <1>2, SubmitIsPrompt DEF PromptInductive, Inductive, TypeOK
<1>4. state' = state /\ result' = result /\ cmd' = cmd
  BY <1>2 DEF Send, Goto, journalVars
<1>5. ExposureInv'
  BY <1>1, <1>3, <1>4 DEF PromptInductive, Prompt, ExposureInv, BookOf, Active,
                          TerminalStates
<1>6. Knows("classify", a)'
  BY <1>3, <1>4 DEF Knows
<1>7. \A c \in Commands \ {cmd} : IsCurrent(c) => IsCurrent(c)'
  BY <1>3, <1>4, CurrentFrame
<1>8. QED
  BY <1>1, <1>2, <1>5, <1>6, <1>7, GotoIsPrompt

LEMMA AskBeforeRetryIsPrompt ==
  ASSUME PromptInductive, cmd \in Commands, state[cmd] = "SUBMITTED",
         UNCHANGED brokerVars, AskBeforeRetry
  PROVE  Prompt'
<1>1. PICK q \in QueryAnswers(cmd) :
        \/ /\ q = "NONE"
           /\ UNCHANGED journalVars
           /\ Goto("send", tries + 1, "NONE")
        \/ /\ q = "AMBIGUOUS"
           /\ RecordTransition("UNKNOWN", "UNKNOWN", Goto("store", 0, "UNKNOWN"))
        \/ /\ q \notin {"NONE", "AMBIGUOUS"}
           /\ RecordTransition("UNKNOWN", "UNKNOWN", Goto("adopt", 0, q))
  BY DEF AskBeforeRetry
<1>2. /\ q = "NONE" => order[cmd] = "NONE"
      /\ q = "REJECTED" => order[cmd] = "CANCELED"
  BY QueryIsPrompt DEF PromptInductive
<1>3. LeadsTo(state[cmd], "UNKNOWN", "UNKNOWN")
  BY DEF LeadsTo, Transitions
<1>4. CASE q = "NONE" /\ UNCHANGED journalVars /\ Goto("send", tries + 1, "NONE")
  <2>1. Knows("send", "NONE")'
    BY <1>2, <1>4 DEF Knows, Goto, brokerVars
  <2>2. QED
    BY <1>4, <2>1, OnlyCallIsPrompt, GotoIsPrompt
<1>5. CASE RecordTransition("UNKNOWN", "UNKNOWN", Goto("store", 0, "UNKNOWN"))
  <2>1. state'[cmd] = "UNKNOWN" /\ cmd' = cmd => Knows("store", "UNKNOWN")'
    BY DEF Knows
  <2>2. QED
    BY <1>3, <1>5, <2>1, TransitionIsPrompt DEF TerminalStates
<1>6. CASE RecordTransition("UNKNOWN", "UNKNOWN", Goto("adopt", 0, q))
  <2>1. state'[cmd] = "UNKNOWN" /\ cmd' = cmd => Knows("adopt", q)'
    BY <1>2 DEF Knows, brokerVars
  <2>2. QED
    BY <1>3, <1>6, <2>1, TransitionIsPrompt DEF TerminalStates
<1>7. QED
  BY <1>1, <1>4, <1>5, <1>6

LEMMA ClassifyIsPrompt == PromptInductive /\ Classify => Prompt'
<1> SUFFICES ASSUME PromptInductive, Classify PROVE Prompt'
  OBVIOUS
<1>1. /\ cmd \in Commands /\ state[cmd] = "SUBMITTED"
      /\ answer \in {"FILLED", "PARTIALLY_FILLED", "REJECTED", "EXPIRED",
                     "NETWORK_TIMEOUT", "AMBIGUOUS_RESPONSE"}
      /\ answer = "FILLED" => order[cmd] \notin {"NONE", "PLACED"}
      /\ answer = "PARTIALLY_FILLED" => order[cmd] = "CANCELED"
      /\ answer \in {"REJECTED", "EXPIRED"} => order[cmd] = "NONE"
  BY CallHasCommand DEF Classify, PromptInductive, Prompt, Knows, Inductive, CallInv, Carries,
                        BookInv
<1>2. CASE /\ answer = "FILLED"
           /\ RecordTransition("FULL_FILL", "FILLED", Goto("protect", 0, "NONE"))
  <2>1. LeadsTo(state[cmd], "FULL_FILL", "FILLED")
    BY <1>1 DEF LeadsTo, Transitions
  <2>2. QED
    BY <1>1, <1>2, <2>1, TransitionIsPrompt DEF Classify, Knows, TerminalStates
<1>3. CASE /\ answer = "PARTIALLY_FILLED"
           /\ RecordTransition("PARTIAL_FILL", "PARTIALLY_FILLED",
                               Goto("protect", 0, "NONE"))
  <2>1. LeadsTo(state[cmd], "PARTIAL_FILL", "PARTIALLY_FILLED")
    BY <1>1 DEF LeadsTo, Transitions
  <2>2. QED
    BY <1>1, <1>3, <2>1, TransitionIsPrompt DEF Classify, Knows, TerminalStates
<1>4. CASE /\ answer = "REJECTED"
           /\ RecordTransition("REJECTED", "REJECTED", Goto("store", 0, "REJECTED"))
  <2>1. LeadsTo(state[cmd], "REJECTED", "REJECTED")
    BY <1>1 DEF LeadsTo, Transitions
  <2>2. state'[cmd] = "REJECTED" /\ cmd' = cmd => Knows("store", "REJECTED")'
    BY DEF Knows
  <2>3. QED
    BY <1>1, <1>4, <2>1, <2>2, TransitionIsPrompt DEF Classify
<1>5. CASE /\ answer = "EXPIRED"
           /\ RecordTransition("EXPIRE", "EXPIRED", Goto("store", 0, "EXPIRED"))
  <2>1. LeadsTo(state[cmd], "EXPIRE", "EXPIRED")
    BY <1>1 DEF LeadsTo, Transitions
  <2>2. state'[cmd] = "EXPIRED" /\ cmd' = cmd => Knows("store", "EXPIRED")'
    BY DEF Knows
  <2>3. QED
    BY <1>1, <1>5, <2>1, <2>2, TransitionIsPrompt DEF Classify
<1>6. CASE AskBeforeRetry
  BY <1>1, <1>6, AskBeforeRetryIsPrompt DEF Classify
<1>7. CASE RecordTransition("UNKNOWN", "UNKNOWN", Goto("store", 0, "UNKNOWN"))
  <2>1. LeadsTo(state[cmd], "UNKNOWN", "UNKNOWN")
    BY <1>1 DEF LeadsTo, Transitions
  <2>2. state'[cmd] = "UNKNOWN" /\ cmd' = cmd => Knows("store", "UNKNOWN")'
    BY DEF Knows
  <2>3. QED
    BY <1>1, <1>7, <2>1, <2>2, TransitionIsPrompt DEF Classify, TerminalStates
<1>8. QED
  BY <1>1, <1>2, <1>3, <1>4, <1>5, <1>6, <1>7 DEF Classify

LEMMA ProtectIsPrompt == PromptInductive /\ Protect => Prompt'
<1> SUFFICES ASSUME PromptInductive, Protect PROVE Prompt'
  OBVIOUS
<1>1. /\ cmd \in Commands /\ state[cmd] \in {"FILLED", "PARTIALLY_FILLED"}
      /\ position[cmd] # "NONE" /\ order[cmd] \notin {"NONE", "PLACED"}
      /\ state[cmd] = "PARTIALLY_FILLED" => order[cmd] = "CANCELED"
  BY CallHasCommand DEF Protect, PromptInductive, Prompt, ExposureInv, Inductive, CallInv,
                        Carries, JournalInv, BookInv
<1>2. CASE Record(cmd, "FILLED") /\ Goto("store", 0, "FILLED")
  <2>1. /\ ExposureInv' /\ state'[cmd] = "FILLED"
        /\ \A c \in Commands \ {cmd} : IsCurrent(c) => IsCurrent(c)'
    BY <1>1, <1>2, RecordIsPrompt DEF Protect, Active, ActiveStates, TerminalStates, States
  <2>2. Knows("store", "FILLED")'
    BY <1>2, <2>1 DEF Knows, Goto
  <2>3. QED
    BY <1>1, <1>2, <2>1, <2>2, GotoIsPrompt
<1>3. CASE RecordTransition("SL_ATTACHING", "MODIFYING", Goto("attach", 0, "NONE"))
  <2>1. state[cmd] = "FILLED" => LeadsTo(state[cmd], "SL_ATTACHING", "MODIFYING")
    BY DEF LeadsTo, Transitions
  <2>2. state[cmd] # "FILLED" => IsCurrent(cmd)
    BY <1>1 DEF IsCurrent, FilledInPart, TerminalStates
  <2>3. state'[cmd] = "MODIFYING" /\ cmd' = cmd => Knows("attach", "NONE")'
    BY DEF Knows
  <2>4. QED
    BY <1>1, <1>3, <2>1, <2>2, <2>3, TransitionIsPrompt DEF Protect, TerminalStates
<1>4. QED
  BY <1>1, <1>2, <1>3 DEF Protect

\* A request about the position of the command in progress protects it, closes it
\* or changes nothing.
LEMMA RequestIsPrompt ==
  ASSUME PromptInductive, cmd \in Commands, UNCHANGED journalVars,
         UNCHANGED <<order, delayed>>,
         \/ UNCHANGED <<position, protected>>
         \/ protected' = [protected EXCEPT ![cmd] = TRUE] /\ UNCHANGED position
         \/ position' = [position EXCEPT ![cmd] = "CLOSED"] /\ UNCHANGED protected
  PROVE  ExposureInv' /\ \A c \in Commands : IsCurrent(c) => IsCurrent(c)'
<1>1. state' = state /\ result' = result
  BY DEF journalVars
<1>2. \A c \in Commands : /\ position'[c] \in {position[c], "CLOSED"}
                          /\ protected[c] => protected'[c]
  BY DEF PromptInductive, Inductive, TypeOK, BrokerTypeOK
<1>3. ExposureInv'
  BY <1>1, <1>2 DEF PromptInductive, Prompt, ExposureInv, Active
<1>4. ASSUME NEW c \in Commands, IsCurrent(c) PROVE IsCurrent(c)'
  BY <1>1, <1>2, <1>4 DEF IsCurrent, FilledInPart, RecoveryAction
<1>5. QED
  BY <1>3, <1>4

LEMMA AttachIsPrompt == PromptInductive /\ Attach => Prompt'
<1> SUFFICES ASSUME PromptInductive, Attach PROVE Prompt'
  OBVIOUS
<1>1. cmd \in Commands /\ state[cmd] = "MODIFYING"
  BY CallHasCommand DEF Attach, PromptInductive, Prompt, Knows
<1>2. PICK ok \in BOOLEAN :
        /\ AttachSl(cmd, ok)
        /\ IF ok THEN Goto("attached", 0, "NONE")
           ELSE IF tries < SlAttachRetries THEN Goto("attach", tries + 1, "NONE")
           ELSE Goto("emergency", 0, "NONE")
  BY DEF Attach
<1>3. ExposureInv' /\ \A c \in Commands : IsCurrent(c) => IsCurrent(c)'
  BY <1>1, <1>2, RequestIsPrompt DEF Attach, AttachSl
<1>4. \A label \in {"attach", "attached", "emergency"} :
        cmd' = cmd => Knows(label, "NONE")'
  BY <1>1 DEF Attach, Knows, journalVars
<1>5. QED
  BY <1>1, <1>2, <1>3, <1>4, GotoIsPrompt DEF Goto

LEMMA AttachedIsPrompt == PromptInductive /\ Attached => Prompt'
<1> SUFFICES ASSUME PromptInductive, Attached PROVE Prompt'
  OBVIOUS
<1>1. /\ cmd \in Commands /\ state[cmd] = "MODIFYING" /\ position[cmd] # "NONE"
      /\ order[cmd] # "PLACED"
  BY CallHasCommand DEF Attached, PromptInductive, Prompt, Knows, Inductive, CallInv,
                        Carries, BookInv
<1>2. LeadsTo(state[cmd], "SL_ATTACHED", "FILLED")
  BY <1>1 DEF LeadsTo, Transitions
<1>3. state'[cmd] = "FILLED" /\ cmd' = cmd => Knows("store", "FILLED")'
  BY DEF Knows
<1>4. QED
  BY <1>1, <1>2, <1>3, TransitionIsPrompt DEF Attached, TerminalStates

LEMMA EmergencyIsPrompt == PromptInductive /\ Emergency => Prompt'
<1> SUFFICES ASSUME PromptInductive, Emergency PROVE Prompt'
  OBVIOUS
<1>1. cmd \in Commands /\ state[cmd] = "MODIFYING"
  BY CallHasCommand DEF Emergency, PromptInductive, Prompt, Knows
<1>2. PICK ok \in BOOLEAN :
        /\ ClosePosition(cmd, ok)
        /\ Goto("settle", 0, IF ok THEN "CLOSED" ELSE "UNKNOWN")
  BY DEF Emergency
<1>3. ExposureInv' /\ \A c \in Commands : IsCurrent(c) => IsCurrent(c)'
  BY <1>1, <1>2, RequestIsPrompt DEF Emergency, ClosePosition
<1>4. state'[cmd] = "MODIFYING"
  BY <1>1 DEF Emergency, journalVars
<1>5. \A a : Knows("settle", a)'
  BY DEF Knows
<1>6. QED
  BY <1>1, <1>2, <1>3, <1>4, <1>5, GotoIsPrompt

LEMMA CloseIsPrompt == PromptInductive /\ Close => Prompt'
<1> SUFFICES ASSUME PromptInductive, Close PROVE Prompt'
  OBVIOUS
<1>1. cmd \in Commands /\ (crashes = 0 => IsCurrent(cmd))
  BY CallHasCommand DEF Close, PromptInductive, Prompt, CurrentInv
<1>2. PICK ok \in BOOLEAN :
        /\ ClosePosition(cmd, ok)
        /\ IF ok THEN Goto("settle", 0, "CLOSED")
           ELSE IF tries < CloseRetries THEN Goto("close", tries + 1, "NONE")
           ELSE Goto("settle", 0, "UNKNOWN")
  BY DEF Close
<1>3. ExposureInv' /\ \A c \in Commands : IsCurrent(c) => IsCurrent(c)'
  BY <1>1, <1>2, RequestIsPrompt DEF Close, ClosePosition
<1>4. \A a : Knows("settle", a)' /\ Knows("close", a)'
  BY DEF Knows
<1>5. cmd' = cmd
  BY <1>2 DEF Goto
<1>6. crashes = 0 => IsCurrent(cmd)'
  BY <1>1, <1>3, <1>5
<1>7. QED
  BY <1>1, <1>2, <1>3, <1>4, <1>6, GotoIsPrompt

LEMMA SettleIsPrompt == PromptInductive /\ Settle => Prompt'
<1> SUFFICES ASSUME PromptInductive, Settle PROVE Prompt'
  OBVIOUS
<1>1. /\ cmd \in Commands /\ answer \in {"CLOSED", "UNKNOWN"}
      /\ answer = "CLOSED" => position[cmd] = "CLOSED" /\ order[cmd] # "PLACED"
      /\ crashes = 0 => IsCurrent(cmd) \/ state[cmd] = "MODIFYING"
  BY CallHasCommand DEF Settle, PromptInductive, Prompt, CurrentInv, Inductive, CallInv,
                        Carries, BookInv
<1>2. state[cmd] = "MODIFYING" => LeadsTo(state[cmd], answer, answer)
  BY <1>1 DEF LeadsTo, Transitions
<1>3. state'[cmd] = answer /\ cmd' = cmd => \A a : a = answer => Knows("store", a)'
  BY DEF Knows
\* The answer as it is now, for the value the next effect carries.
<1>4. PICK a : a = answer
  OBVIOUS
<1>5. QED
  BY <1>1, <1>2, <1>3, <1>4, TransitionIsPrompt DEF Settle, TerminalStates

LEMMA AdoptIsPrompt == PromptInductive /\ Adopt => Prompt'
<1> SUFFICES ASSUME PromptInductive, Adopt PROVE Prompt'
  OBVIOUS
<1>1. /\ cmd \in Commands /\ state[cmd] = "UNKNOWN"
      /\ answer \in {"FILLED", "SUBMITTED", "CLOSED", "REJECTED"}
      /\ answer = "FILLED" => position[cmd] # "NONE"
      /\ answer = "CLOSED" => position[cmd] = "CLOSED"
      /\ answer = "REJECTED" => order[cmd] = "CANCELED"
      /\ order[cmd] = "PLACED" => position[cmd] = "NONE"
  BY CallHasCommand DEF Adopt, PromptInductive, Prompt, Knows, Inductive, CallInv, Carries,
                        BookInv
<1>2. LeadsTo(state[cmd], "RECONCILED", answer)
  BY <1>1 DEF LeadsTo, Transitions, ReconcilableStates
<1>3. CASE answer = "FILLED"
  <2>1. RecordTransition("RECONCILED", "FILLED", Goto("protect", 0, "NONE"))
    BY <1>3 DEF Adopt, RecordTransition
  <2>2. Knows("protect", "NONE")'
    BY DEF Knows
  <2>3. QED
    BY <1>1, <1>2, <1>3, <2>1, <2>2, TransitionIsPrompt DEF Adopt, TerminalStates
<1>4. CASE answer = "SUBMITTED"
  <2>1. Record(cmd, "SUBMITTED") /\ Return
    BY <1>2, <1>4 DEF Adopt, RecordTransition
  <2>2. /\ ExposureInv' /\ state'[cmd] = "SUBMITTED"
        /\ \A c \in Commands \ {cmd} : IsCurrent(c) => IsCurrent(c)'
    BY <1>1, <2>1, RecordIsPrompt DEF Adopt, Active, ActiveStates, TerminalStates, States
  <2>3. \A c \in Commands : c = cmd => IsCurrent(c)'
    BY <2>2 DEF IsCurrent, RecoveryAction, TerminalStates
  <2>4. QED
    BY <1>1, <2>1, <2>2, <2>3, ReturnIsPrompt DEF Return
<1>5. CASE answer \in {"CLOSED", "REJECTED"}
  <2>1. RecordTransition("RECONCILED", answer, Goto("store", 0, answer))
    BY <1>5 DEF Adopt, RecordTransition
  <2>2. state'[cmd] = answer /\ cmd' = cmd => \A a : a = answer => Knows("store", a)'
    BY DEF Knows
  <2>3. PICK a : a = answer
    OBVIOUS
  <2>4. QED
    BY <1>1, <1>2, <1>5, <2>1, <2>2, <2>3, TransitionIsPrompt DEF Adopt
<1>6. QED
  BY <1>1, <1>3, <1>4, <1>5

LEMMA StoreIsPrompt == PromptInductive /\ Store => Prompt'
<1> SUFFICES ASSUME PromptInductive, Store PROVE Prompt'
  OBVIOUS
<1>1. /\ cmd \in Commands /\ state[cmd] = answer
      /\ answer = "FILLED" => protected[cmd]
      /\ answer = "CLOSED" => position[cmd] = "CLOSED"
      /\ answer \in {"FILLED", "CLOSED", "REJECTED", "FAILED", "EXPIRED", "UNKNOWN"}
  BY CallHasCommand DEF Store, PromptInductive, Prompt, Knows, Inductive, CallInv, Carries,
                        Results
<1>2. /\ state' = state /\ result' = [result EXCEPT ![cmd] = answer]
      /\ UNCHANGED <<order, position, protected, delayed>>
  BY DEF Store, StoreResult, brokerVars
<1>3. ExposureInv'
  BY <1>2 DEF PromptInductive, Prompt, ExposureInv, Active
<1>4. \A c \in Commands \ {cmd} : IsCurrent(c) => IsCurrent(c)'
  BY <1>2, CurrentFrame DEF BookOf
<1>5. position[cmd] = "OPEN" /\ ~FilledInPart(cmd) => order[cmd] = "FILLED"
  BY <1>1 DEF FilledInPart, PromptInductive, Inductive, BookInv, TypeOK, BrokerTypeOK,
              OrderStates
<1>6. \A c \in Commands : c = cmd => IsCurrent(c)'
  <2>1. result'[cmd] = state'[cmd]
    BY <1>1, <1>2 DEF PromptInductive, Inductive, TypeOK, JournalTypeOK
  <2>2. position[cmd] = "OPEN" /\ ~protected[cmd] /\ ~FilledInPart(cmd) =>
          state[cmd] = "UNKNOWN"
    BY <1>1, <1>5 DEF PromptInductive, Prompt, ExposureInv, TerminalStates
  <2>3. QED
    BY <1>2, <2>1, <2>2 DEF IsCurrent, FilledInPart, RecoveryAction
<1>7. QED
  BY <1>1, <1>3, <1>4, <1>6, ReturnIsPrompt DEF Store, Return

LEMMA EngineStepIsPrompt ==
  LateLanding = FALSE /\ PromptInductive /\ EngineStep => Prompt'
BY ValidateIsPrompt, GateIsPrompt, SendIsPrompt, ClassifyIsPrompt, ProtectIsPrompt,
   AttachIsPrompt, AttachedIsPrompt, EmergencyIsPrompt, CloseIsPrompt, SettleIsPrompt,
   AdoptIsPrompt, StoreIsPrompt
   DEF EngineStep

-----------------------------------------------------------------------------
(* The steps of the callers, the crash and the market *)

LEMMA BeginIsPrompt ==
  ASSUME PromptInductive, NEW c \in Commands, NEW label, NEW a, Begin(c, label, a),
         UNCHANGED <<brokerVars, journalVars>>, Knows(label, a)', label # "settle"
  PROVE  Prompt'
<1>1. cmd = NoCommand /\ NoCommand \notin Commands
  BY EngineAssumption DEF Begin, PromptInductive, Inductive, CallInv
<1>2. crashes = 0 => \A d \in Commands : IsCurrent(d)
  BY <1>1 DEF PromptInductive, Prompt, CurrentInv
<1>3. ExposureInv' /\ \A d \in Commands : IsCurrent(d) => IsCurrent(d)'
  BY OnlyCallIsPrompt
<1>4. QED
  BY <1>2, <1>3 DEF Begin, Prompt, CurrentInv

LEMMA CallerStepIsPrompt == PromptInductive /\ CallerStep => Prompt'
<1> SUFFICES ASSUME PromptInductive, NEW c \in Commands,
                    CreateCommand(c) \/ SubmitCall(c) \/ CloseCall(c) \/ ReconcileCall(c)
             PROVE  Prompt'
  BY DEF CallerStep
<1>1. CASE CreateCommand(c)
  <2>1. /\ state' = [state EXCEPT ![c] = "CREATED"] /\ result' = result
        /\ state[c] = "ABSENT" /\ UNCHANGED <<brokerVars, callVars, crashes>>
        /\ \A d \in Commands : Active(d) => TradeOf[d] # TradeOf[c]
    BY <1>1 DEF CreateCommand, InsertCommand
  <2>2. order[c] = "NONE" /\ position[c] = "NONE"
    BY <2>1 DEF PromptInductive, Inductive, JournalInv, WriteAhead, BookInv
  <2>3. /\ state'[c] = "CREATED" /\ \A d \in Commands \ {c} : state'[d] = state[d]
        /\ UNCHANGED <<order, position, protected, delayed>>
    BY <2>1 DEF PromptInductive, Inductive, TypeOK, JournalTypeOK, brokerVars
  <2>4. ExposureInv'
    <3>1. delayed' = {} /\ \A d \in Commands :
            /\ order'[d] = "PLACED" => state'[d] \in {"SUBMITTED", "UNKNOWN"}
            /\ order'[d] = "FILLED" /\ position'[d] = "OPEN" => state'[d] \notin TerminalStates
            /\ state'[d] = "PARTIALLY_FILLED" => order'[d] = "CANCELED"
      BY <2>2, <2>3 DEF PromptInductive, Prompt, ExposureInv
    <3>2. ASSUME NEW d \in Commands, NEW e \in Commands, Active(d)', Active(e)',
                 TradeOf[d] = TradeOf[e]
          PROVE  d = e
      BY <2>1, <2>3, <3>2 DEF Active, PromptInductive, Prompt, ExposureInv
    <3>3. QED
      BY <3>1, <3>2 DEF ExposureInv
  <2>5. \A d \in Commands : IsCurrent(d) => IsCurrent(d)'
    <3>1. IsCurrent(c)'
      BY <2>2, <2>3 DEF IsCurrent, TerminalStates
    <3>2. \A d \in Commands \ {c} : IsCurrent(d) => IsCurrent(d)'
      BY <2>1, <2>3, CurrentFrame DEF BookOf
    <3>3. QED
      BY <3>1, <3>2
  <2>6. pc = "idle" /\ cmd = NoCommand
    BY <1>1 DEF CreateCommand, Idle, PromptInductive, Inductive, CallInv
  <2>7. QED
    BY <2>1, <2>4, <2>5, <2>6, EngineAssumption DEF callVars, Prompt, CurrentInv, Knows,
       PromptInductive
<1>2. CASE SubmitCall(c)
  <2>1. Knows("validate", "NONE")'
    BY <1>2 DEF SubmitCall, Begin, Knows, journalVars
  <2>2. QED
    BY <1>2, <2>1, BeginIsPrompt DEF SubmitCall, brokerVars, journalVars
<1>3. CASE CloseCall(c)
  <2>1. Knows("close", "NONE")'
    BY DEF Knows
  <2>2. QED
    BY <1>3, <2>1, BeginIsPrompt DEF CloseCall, brokerVars, journalVars
<1>4. CASE ReconcileCall(c)
  <2>1. PICK q \in QueryAnswers(c) :
          IF q \in {"NONE", "AMBIGUOUS"} THEN Begin(c, "store", "UNKNOWN")
                                         ELSE Begin(c, "adopt", q)
    BY <1>4 DEF ReconcileCall
  <2>2. q = "REJECTED" => order[c] = "CANCELED"
    BY QueryIsPrompt DEF PromptInductive
  <2>3. state[c] = "UNKNOWN" /\ UNCHANGED <<brokerVars, journalVars>>
        /\ UNCHANGED <<order, state>>
    BY <1>4 DEF ReconcileCall, brokerVars, journalVars
  <2>4. CASE Begin(c, "store", "UNKNOWN")
    <3>1. Knows("store", "UNKNOWN")'
      BY <2>3, <2>4 DEF Begin, Knows
    <3>2. QED
      BY <2>3, <2>4, <3>1, BeginIsPrompt
  <2>5. CASE Begin(c, "adopt", q)
    <3>1. Knows("adopt", q)'
      BY <2>2, <2>3, <2>5 DEF Begin, Knows
    <3>2. QED
      BY <2>3, <2>5, <3>1, BeginIsPrompt
  <2>6. QED
    BY <2>1, <2>4, <2>5
<1>5. QED
  BY <1>1, <1>2, <1>3, <1>4

\* Whatever a crash cuts short, it is no longer promised that the journal is current.
LEMMA CrashIsPrompt == PromptInductive /\ Crash => Prompt'
<1> SUFFICES ASSUME PromptInductive, Crash PROVE Prompt'
  OBVIOUS
<1>1. crashes' # 0
  BY DEF Crash, PromptInductive, Inductive, TypeOK, CallTypeOK
<1>2. ExposureInv'
  BY OnlyCallIsPrompt DEF Crash
<1>3. QED
  BY <1>1, <1>2 DEF Crash, Prompt, Knows

LEMMA MarketStepIsPrompt == PromptInductive /\ MarketStep => Prompt'
<1> SUFFICES ASSUME PromptInductive, MarketStep, NEW c \in Commands,
                    MarketFills(c) \/ MarketCloses(c) \/ RequestLands(c)
                      \/ ClockPassesExpiry(c)
             PROVE  Prompt'
  BY DEF MarketStep, BrokerActs
<1>1. UNCHANGED <<state, result, pc, cmd, answer, crashes>>
  BY DEF MarketStep, journalVars, callVars
<1>2. ~RequestLands(c)
  BY DEF RequestLands, PromptInductive, Prompt, ExposureInv
<1>3. /\ delayed' = delayed
      /\ \A d \in Commands :
           \/ UNCHANGED BookOf(d)
           \/ order[d] = "PLACED" /\ order'[d] = "FILLED" /\ position'[d] = "OPEN"
           \/ order'[d] = order[d] /\ position'[d] = "CLOSED" /\ protected'[d] = protected[d]
  BY <1>2 DEF MarketFills, MarketCloses, ClockPassesExpiry, Fill, BookOf, PromptInductive,
              Inductive, TypeOK, BrokerTypeOK
<1>4. ExposureInv'
  BY <1>1, <1>3 DEF PromptInductive, Prompt, ExposureInv, BookOf, Active, TerminalStates
<1>5. Knows(pc, answer)'
  <2>1. CASE cmd \in Commands
    BY <1>1, <1>3, <2>1 DEF PromptInductive, Prompt, Knows, BookOf
  <2>2. CASE cmd \notin Commands
    BY <1>1, <2>2, CallHasCommand DEF PromptInductive, Knows
  <2>3. QED
    BY <2>1, <2>2
<1>6. ASSUME NEW d \in Commands, IsCurrent(d) PROVE IsCurrent(d)'
  <2>1. CASE UNCHANGED BookOf(d)
    BY <1>1, <1>6, <2>1, CurrentFrame
  <2>2. CASE order[d] = "PLACED" /\ order'[d] = "FILLED" /\ position'[d] = "OPEN"
    <3>1. state[d] \in {"SUBMITTED", "UNKNOWN"}
      BY <2>2 DEF PromptInductive, Prompt, ExposureInv
    <3>2. QED
      BY <1>1, <1>6, <3>1 DEF IsCurrent, RecoveryAction
  <2>3. CASE order'[d] = order[d] /\ position'[d] = "CLOSED"
    BY <1>1, <1>6, <2>3 DEF IsCurrent
  <2>4. QED
    BY <1>3, <2>1, <2>2, <2>3
<1>7. crashes = 0 => CurrentInv(pc)'
  <2>1. CASE cmd \in Commands
    BY <1>1, <1>6, <2>1 DEF PromptInductive, Prompt, CurrentInv
  <2>2. CASE cmd \notin Commands
    BY <1>1, <1>6, <2>2, CallHasCommand DEF PromptInductive, Prompt, CurrentInv
  <2>3. QED
    BY <2>1, <2>2
<1>8. QED
  BY <1>1, <1>4, <1>5, <1>7 DEF Prompt

LEMMA StutterIsPrompt == PromptInductive /\ UNCHANGED vars => Prompt'
<1> SUFFICES ASSUME PromptInductive, UNCHANGED vars PROVE Prompt'
  OBVIOUS
<1>1. ExposureInv' /\ \A c \in Commands : IsCurrent(c) => IsCurrent(c)'
  BY OnlyCallIsPrompt DEF vars
<1>2. UNCHANGED <<state, order, pc, cmd, answer, crashes>>
  BY DEF vars, brokerVars, journalVars, callVars
<1>3. Knows(pc, answer)'
  BY <1>2 DEF PromptInductive, Prompt, Knows
<1>4. crashes = 0 => CurrentInv(pc)'
  <2>1. CASE cmd \in Commands
    BY <1>1, <1>2, <2>1 DEF PromptInductive, Prompt, CurrentInv
  <2>2. CASE cmd \notin Commands
    BY <1>1, <1>2, <2>2, CallHasCommand DEF PromptInductive, Prompt, CurrentInv
  <2>3. QED
    BY <2>1, <2>2
<1>5. QED
  BY <1>1, <1>2, <1>3, <1>4 DEF Prompt

LEMMA InitIsPrompt == Init => Prompt
BY DEF Init, BrokerInit, JournalInit, Prompt, ExposureInv, Knows, CurrentInv, IsCurrent,
       Active, ActiveStates, TerminalStates

-----------------------------------------------------------------------------
(* The theorems *)

\* The strengthened invariant holds in every reachable state, as long as no request
\* arrives after its caller gave up on it.
THEOREM PromptHolds ==
  ASSUME LateLanding = FALSE
  PROVE  Spec => []PromptInductive
<1>1. Init => PromptInductive
  BY InitInductive, InitIsPrompt DEF PromptInductive
<1>2. PromptInductive /\ [Next]_vars => PromptInductive'
  <2> SUFFICES ASSUME PromptInductive, [Next]_vars PROVE PromptInductive'
    OBVIOUS
  <2>1. Inductive'
    BY EngineStepKeeps, CallerStepKeeps, CrashStep, MarketStepKeeps, StutterKeeps
       DEF Next, PromptInductive
  <2>2. Prompt'
    BY EngineStepIsPrompt, CallerStepIsPrompt, CrashIsPrompt, MarketStepIsPrompt,
       StutterIsPrompt DEF Next
  <2>3. QED
    BY <2>1, <2>2 DEF PromptInductive
<1>3. QED
  BY <1>1, <1>2, PTL DEF Spec

\* Reconciliation comes before every resend: the engine never calls executor.submit
\* for a command the broker holds an order for.
THEOREM NoResendOverEvidenceHolds ==
  ASSUME LateLanding = FALSE
  PROVE  Spec => []NoResendOverEvidence
<1>1. PromptInductive => NoResendOverEvidence
  BY DEF PromptInductive, Prompt, Knows, NoResendOverEvidence
<1>2. QED
  BY <1>1, PromptHolds, PTL

\* A command the journal considers finished has no open position, and a trade never
\* holds two, but for what was filled in part.
THEOREM NoPositionEscapesHolds ==
  ASSUME LateLanding = FALSE
  PROVE  Spec => []NoPositionEscapes
<1>1. ASSUME PromptInductive, NEW c \in Commands, ~FilledInPart(c), position[c] = "OPEN"
      PROVE  Active(c)
  <2>1. order[c] = "FILLED"
    BY <1>1 DEF FilledInPart, PromptInductive, Inductive, BookInv, TypeOK, BrokerTypeOK,
                OrderStates
  <2>2. state[c] \in States \ TerminalStates
    BY <1>1, <2>1 DEF PromptInductive, Prompt, ExposureInv, Inductive, TypeOK, JournalTypeOK,
                      JournalInv, WriteAhead
  <2>3. QED
    BY <2>2 DEF States, Active
<1>2. PromptInductive => NoPositionEscapes
  <2> SUFFICES ASSUME PromptInductive, NEW c \in Commands, ~FilledInPart(c),
                      position[c] = "OPEN"
               PROVE  /\ state[c] \notin TerminalStates
                      /\ \A d \in Commands \ {c} :
                           TradeOf[d] = TradeOf[c] /\ ~FilledInPart(d) => position[d] # "OPEN"
    BY DEF NoPositionEscapes
  <2>1. state[c] \notin TerminalStates
    BY <1>1 DEF Active, ActiveStates, TerminalStates
  <2>2. ASSUME NEW d \in Commands \ {c}, TradeOf[d] = TradeOf[c], ~FilledInPart(d),
               position[d] = "OPEN"
        PROVE  FALSE
    <3>1. Active(c) /\ Active(d)
      BY <1>1, <2>2
    <3>2. QED
      BY <2>2, <3>1 DEF PromptInductive, Prompt, ExposureInv
  <2>3. QED
    BY <2>1, <2>2
<1>3. QED
  BY <1>2, PromptHolds, PTL

\* As long as no call was cut short, the journal is the truth between calls.
THEOREM JournalIsCurrentHolds ==
  ASSUME LateLanding = FALSE
  PROVE  Spec => []JournalIsCurrent
<1>1. PromptInductive => JournalIsCurrent
  <2> SUFFICES ASSUME PromptInductive, Idle, crashes = 0, NEW c \in Commands
               PROVE  IsCurrent(c)
    BY DEF JournalIsCurrent
  <2>1. cmd = NoCommand
    BY DEF PromptInductive, Inductive, CallInv
  <2>2. QED
    BY <2>1, EngineAssumption DEF PromptInductive, Prompt, CurrentInv
<1>2. QED
  BY <1>1, PromptHolds, PTL

-----------------------------------------------------------------------------
(* The abstract promise *)

\* What the promise sees of the journal and of the broker.
Intents == [c \in Commands |-> Intent(state[c])]
Orders == [c \in Commands |-> IF order[c] = "NONE" THEN 0 ELSE 1]

\* An event of the state machine keeps the intent, commits it or finishes it.
LEMMA EventsKeepIntents ==
  ASSUME NEW s, NEW e, NEW t, LeadsTo(s, e, t)
  PROVE  \/ Intent(t) = Intent(s)
         \/ Intent(s) = "accepted" /\ Intent(t) = "sent"
         \/ Intent(s) \in {"accepted", "sent"} /\ Intent(t) = "done"
<1>1. CASE s \in {"CREATED", "VALIDATED"}
  <2>1. Intent(s) = "accepted"
    BY <1>1 DEF Intent, TerminalStates
  <2>2. t \in {"VALIDATED", "SUBMITTED"} \cup TerminalStates
    BY <1>1 DEF LeadsTo, Transitions, TerminalStates
  <2>3. QED
    BY <2>1, <2>2 DEF Intent, TerminalStates
<1>2. CASE s \in ActiveStates \ {"CREATED", "VALIDATED"}
  <2>1. Intent(s) = "sent"
    BY <1>2 DEF Intent, ActiveStates, TerminalStates
  <2>2. t \in States \ {"CREATED", "VALIDATED"}
    BY <1>2, LegalTargets DEF LeadsTo
  <2>3. QED
    BY <2>1, <2>2 DEF Intent, States, ActiveStates, TerminalStates
<1>3. QED
  BY <1>1, <1>2, LegalTargets

\* A change of one command's journaled state along an event is a step of the promise.
LEMMA JournalKeepsPromise ==
  ASSUME Inductive, cmd \in Commands, Orders' = Orders, NEW t,
         state' = [state EXCEPT ![cmd] = t],
         \/ \E e : LeadsTo(state[cmd], e, t)
         \/ state[cmd] \in {"FILLED", "PARTIALLY_FILLED"} /\ t = "FILLED"
  PROVE  [Promise!Next]_(Promise!orderVars)
<1>1. Intents' = [Intents EXCEPT ![cmd] = Intent(t)]
  BY DEF Intents, Inductive, TypeOK, JournalTypeOK
<1>2. \/ Intent(t) = Intent(state[cmd])
      \/ Intent(state[cmd]) = "accepted" /\ Intent(t) = "sent"
      \/ Intent(state[cmd]) \in {"accepted", "sent"} /\ Intent(t) = "done"
  <2>1. CASE \E e : LeadsTo(state[cmd], e, t)
    BY <2>1, EventsKeepIntents
  <2>2. CASE state[cmd] \in {"FILLED", "PARTIALLY_FILLED"} /\ t = "FILLED"
    BY <2>2 DEF Intent, TerminalStates
  <2>3. QED
    BY <2>1, <2>2
<1>3. Intents[cmd] = Intent(state[cmd])
  BY DEF Intents
<1>4. CASE Intent(t) = Intent(state[cmd])
  <2>1. Intents' = Intents
    BY <1>1, <1>3, <1>4 DEF Intents
  <2>2. QED
    BY <2>1 DEF Intents, Orders, Promise!orderVars
<1>5. CASE Intent(state[cmd]) = "accepted" /\ Intent(t) = "sent"
  <2>1. Promise!Commit(cmd)
    BY <1>1, <1>3, <1>5 DEF Promise!Commit, Intents, Orders
  <2>2. QED
    BY <2>1 DEF Promise!Next
<1>6. CASE Intent(state[cmd]) \in {"accepted", "sent"} /\ Intent(t) = "done"
  <2>1. Promise!Finish(cmd)
    BY <1>1, <1>3, <1>6 DEF Promise!Finish, Promise!Unfinished, Intents, Orders
  <2>2. QED
    BY <2>1 DEF Promise!Next
<1>7. QED
  BY <1>2, <1>4, <1>5, <1>6

\* A submission places at most one order, for a command whose intent is sent.
LEMMA SendKeepsPromise ==
  ASSUME LateLanding = FALSE, PromptInductive, Send
  PROVE  [Promise!Next]_(Promise!orderVars)
<1>1. cmd \in Commands /\ state[cmd] = "SUBMITTED" /\ order[cmd] = "NONE" /\ delayed = {}
  BY CallHasCommand DEF Send, PromptInductive, Prompt, Knows, ExposureInv, Inductive,
                        CallInv, Carries
<1>2. PICK a : SubmitOrder(cmd, a)
  BY DEF Send
<1>3. \A d \in Commands \ {cmd} : order'[d] = order[d]
  BY <1>1, <1>2, SubmitIsPrompt DEF PromptInductive, Inductive, TypeOK, BookOf
<1>4. Intents' = Intents
  BY DEF Send, Intents, journalVars
<1>5. CASE order'[cmd] = "NONE"
  <2>1. Orders' = Orders
    BY <1>1, <1>3, <1>5 DEF Orders
  <2>2. QED
    BY <1>4, <2>1 DEF Intents, Orders, Promise!orderVars
<1>6. CASE order'[cmd] # "NONE"
  <2>1. Orders' = [Orders EXCEPT ![cmd] = 1] /\ Orders[cmd] = 0
    BY <1>1, <1>3, <1>6 DEF Orders
  <2>2. Intents[cmd] = "sent"
    BY <1>1 DEF Intents, Intent, TerminalStates
  <2>3. PICK c \in Commands : c = cmd
    BY <1>1
  <2>4. Promise!Place(c)
    BY <1>4, <2>1, <2>2, <2>3 DEF Promise!Place, Intents, Orders
  <2>5. QED
    BY <2>4 DEF Promise!Next
<1>7. QED
  BY <1>5, <1>6

\* Every step of the engine, its callers, the broker and a crash is a step of the
\* promise or none: the broker gets at most one order for a command, after its
\* intent was journaled, and a trade has one unfinished command.
LEMMA StepKeepsPromise ==
  ASSUME LateLanding = FALSE, PromptInductive, [Next]_vars
  PROVE  [Promise!Next]_(Promise!orderVars)
<1>1. CASE EngineStep
  <2>1. CASE Send
    BY <2>1, SendKeepsPromise
  <2>2. CASE ~Send
    <3>1. cmd \in Commands /\ order' = order
      BY <1>1, <2>2, CallHasCommand
         DEF PromptInductive, EngineStep, Validate, Gate, Classify, Protect, Attach,
             Attached, Emergency, Close, Settle, Adopt, Store, brokerVars, AttachSl,
             ClosePosition
    <3>2. Orders' = Orders
      BY <3>1 DEF Orders
    <3>3. CASE state' = state
      BY <3>2, <3>3 DEF Orders, Promise!orderVars
    <3>4. CASE state' # state
      BY <1>1, <3>1, <3>2, <3>4, EngineJournalsEvents, JournalKeepsPromise
         DEF PromptInductive, JournalsAnEvent
    <3>5. QED
      BY <3>3, <3>4
  <2>3. QED
    BY <2>1, <2>2
<1>2. ASSUME NEW c \in Commands, CreateCommand(c)
      PROVE  [Promise!Next]_(Promise!orderVars)
  <2>1. /\ state[c] = "ABSENT" /\ state' = [state EXCEPT ![c] = "CREATED"]
        /\ \A d \in Commands : Active(d) => TradeOf[d] # TradeOf[c]
        /\ order' = order
    BY <1>2 DEF CreateCommand, InsertCommand, brokerVars
  <2>2. /\ Intents' = [Intents EXCEPT ![c] = "accepted"] /\ Intents[c] = "none"
        /\ Orders' = Orders
    BY <2>1 DEF Intents, Orders, Intent, TerminalStates, PromptInductive, Inductive, TypeOK,
                JournalTypeOK
  <2>3. \A d \in Commands : Intents[d] \in {"accepted", "sent"} => Active(d)
    BY DEF Intents, Intent, Active, States, PromptInductive, Inductive, TypeOK, JournalTypeOK
  <2>4. Promise!Accept(c)
    BY <2>1, <2>2, <2>3 DEF Promise!Accept, Promise!Unfinished, Intents, Orders
  <2>5. QED
    BY <2>4 DEF Promise!Next
<1>3. CASE \/ \E c \in Commands : SubmitCall(c) \/ CloseCall(c) \/ ReconcileCall(c)
           \/ Crash \/ UNCHANGED vars
  BY <1>3 DEF SubmitCall, CloseCall, ReconcileCall, Crash, vars, brokerVars, journalVars,
              Promise!orderVars
<1>4. CASE MarketStep
  <2>1. state' = state /\ delayed = {}
    BY <1>4 DEF MarketStep, journalVars, PromptInductive, Prompt, ExposureInv
  <2>2. \A c \in Commands : order'[c] = order[c] \/ (order[c] # "NONE" /\ order'[c] # "NONE")
    BY <1>4, <2>1 DEF MarketStep, BrokerActs, MarketFills, MarketCloses, RequestLands,
       ClockPassesExpiry, Fill, PromptInductive, Inductive, TypeOK, BrokerTypeOK
  <2>3. Orders' = Orders
    BY <2>2 DEF Orders
  <2>4. QED
    BY <2>1, <2>3 DEF Orders, Promise!orderVars
<1>5. QED
  BY <1>1, <1>2, <1>3, <1>4 DEF Next, CallerStep

\* The engine, its journal and its broker keep the promise of OrderOnce.
THEOREM KeepsPromiseHolds ==
  ASSUME LateLanding = FALSE
  PROVE  Spec => KeepsPromise
<1>1. Init => Promise!Init
  BY DEF Init, BrokerInit, JournalInit, Promise!Init, Intent, TerminalStates
<1>2. PromptInductive /\ [Next]_vars => [Promise!Next]_(Promise!orderVars)
  BY StepKeepsPromise
<1>3. QED
  BY <1>1, <1>2, PromptHolds, PTL DEF Spec, KeepsPromise, Promise!Spec
=============================================================================
