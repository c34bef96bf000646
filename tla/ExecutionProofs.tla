-------------------------- MODULE ExecutionProofs ---------------------------
(***************************************************************************)
(* The safety properties of the execution engine for every set of commands *)
(* and trades, every retry budget, every number of crashes, every broker   *)
(* scenario and requests that arrive late.                                 *)
(***************************************************************************)
EXTENDS ExecutionProperties, TLAPS

-----------------------------------------------------------------------------
(* The broker *)

\* What no step of the broker undoes: a position stays, protected if it was,
\* and closed if it was.
PositionsPersist ==
  \A c \in Commands :
    /\ position[c] # "NONE" => /\ position'[c] # "NONE"
                               /\ protected[c] => protected'[c]
    /\ position[c] = "CLOSED" => position'[c] = "CLOSED"

\* Evidence of a command appears at the broker only for commands in S.
EvidenceOnlyFor(S) ==
  \A c \in Commands \ S :
    /\ order[c] = "NONE" => order'[c] = "NONE"
    /\ c \in delayed' => c \in delayed

LEMMA FillIsSound ==
  ASSUME BrokerTypeOK, BookInv, NEW c \in Commands, NEW o \in {"FILLED", "CANCELED"},
         position[c] = "NONE", Fill(c, o)
  PROVE  /\ order' \in [Commands -> OrderStates]
         /\ position' \in [Commands -> PositionStates]
         /\ protected' \in [Commands -> BOOLEAN]
         /\ openings' \in [Commands -> Nat]
         /\ BookInv'
         /\ PositionsPersist
         /\ position'[c] # "NONE"
         /\ \A d \in Commands \ {c} : order'[d] = order[d]
BY DEF BrokerTypeOK, BookInv, Fill, PositionsPersist, OrderStates, PositionStates

LEMMA NoFillIsSound ==
  ASSUME BookInv, NoFill, UNCHANGED order
  PROVE  BookInv' /\ PositionsPersist
BY DEF BookInv, NoFill, PositionsPersist

\* submit() leaves a sound book, evidence for its own command only, and a fill
\* answer only with a position.
LEMMA SubmitIsSound ==
  ASSUME BrokerTypeOK, BookInv, NEW c \in Commands, NEW a, SubmitOrder(c, a)
  PROVE  /\ BrokerTypeOK' /\ BookInv' /\ PositionsPersist /\ EvidenceOnlyFor({c})
         /\ a \in {"FILLED", "PARTIALLY_FILLED", "REJECTED", "EXPIRED",
                   "NETWORK_TIMEOUT", "AMBIGUOUS_RESPONSE"}
         /\ a \in {"FILLED", "PARTIALLY_FILLED"} => position'[c] # "NONE"
<1>1. CASE NoFill /\ UNCHANGED <<order, delayed, expired>>
             /\ a \in {"REJECTED", "EXPIRED"}
  BY <1>1, NoFillIsSound DEF BrokerTypeOK, EvidenceOnlyFor, NoFill
<1>2. ASSUME NEW mode \in Modes, Play(c, mode, a), order[c] = "NONE",
             UNCHANGED expired
      PROVE  /\ BrokerTypeOK' /\ BookInv' /\ PositionsPersist /\ EvidenceOnlyFor({c})
             /\ a \in {"FILLED", "PARTIALLY_FILLED", "REJECTED", "EXPIRED",
                       "NETWORK_TIMEOUT", "AMBIGUOUS_RESPONSE"}
             /\ a \in {"FILLED", "PARTIALLY_FILLED"} => position'[c] # "NONE"
  <2>1. position[c] = "NONE"
    BY <1>2 DEF BookInv
  <2>2. CASE \E o \in {"FILLED", "CANCELED"} : Fill(c, o) /\ UNCHANGED delayed
    <3>1. /\ a \in {"FILLED", "PARTIALLY_FILLED", "REJECTED", "EXPIRED",
                    "NETWORK_TIMEOUT", "AMBIGUOUS_RESPONSE"}
      BY <1>2 DEF Play
    <3>2. QED
      BY <1>2, <2>1, <2>2, <3>1, FillIsSound DEF BrokerTypeOK, EvidenceOnlyFor
  <2>3. CASE /\ NoFill /\ UNCHANGED order
             /\ delayed' \in {delayed, delayed \cup {c}}
             /\ a \in {"NETWORK_TIMEOUT", "REJECTED", "EXPIRED"}
    BY <1>2, <2>3, NoFillIsSound DEF BrokerTypeOK, EvidenceOnlyFor, NoFill
  <2>4. CASE /\ NoFill /\ UNCHANGED delayed
             /\ order' = [order EXCEPT ![c] = "PLACED"]
             /\ a = "AMBIGUOUS_RESPONSE"
    BY <1>2, <2>1, <2>4
       DEF BrokerTypeOK, EvidenceOnlyFor, NoFill, BookInv, PositionsPersist,
           OrderStates
  <2>5. QED
    BY <1>2, <2>2, <2>3, <2>4 DEF Play
<1>3. QED
  BY <1>1, <1>2 DEF SubmitOrder

LEMMA AttachIsSound ==
  ASSUME BrokerTypeOK, BookInv, NEW c \in Commands, NEW ok \in BOOLEAN, AttachSl(c, ok)
  PROVE  /\ BrokerTypeOK' /\ BookInv' /\ PositionsPersist /\ EvidenceOnlyFor({})
         /\ ok => protected'[c]
BY DEF BrokerTypeOK, BookInv, AttachSl, PositionsPersist, EvidenceOnlyFor

LEMMA CloseIsSound ==
  ASSUME BrokerTypeOK, BookInv, NEW c \in Commands, NEW ok \in BOOLEAN, ClosePosition(c, ok)
  PROVE  /\ BrokerTypeOK' /\ BookInv' /\ PositionsPersist /\ EvidenceOnlyFor({})
         /\ ok => position'[c] = "CLOSED"
BY DEF BrokerTypeOK, BookInv, ClosePosition, PositionsPersist, EvidenceOnlyFor,
       PositionStates

\* What the broker does on its own: evidence appears only for commands it
\* already had on the wire or in its book.
LEMMA MarketIsSound ==
  ASSUME BrokerTypeOK, BookInv, BrokerActs
  PROVE  /\ BrokerTypeOK' /\ BookInv' /\ PositionsPersist
         /\ \A c \in Commands : order'[c] # "NONE" \/ c \in delayed' =>
                                  order[c] # "NONE" \/ c \in delayed
<1> SUFFICES ASSUME NEW c \in Commands,
                    MarketFills(c) \/ MarketCloses(c) \/ RequestLands(c)
                      \/ ClockPassesExpiry(c)
             PROVE  /\ BrokerTypeOK' /\ BookInv' /\ PositionsPersist
                    /\ \A d \in Commands : order'[d] # "NONE" \/ d \in delayed' =>
                                             order[d] # "NONE" \/ d \in delayed
  BY DEF BrokerActs
<1>1. CASE MarketFills(c)
  <2>1. position[c] = "NONE"
    BY <1>1 DEF MarketFills, BookInv
  <2>2. QED
    BY <1>1, <2>1, FillIsSound DEF MarketFills, BrokerTypeOK
<1>2. CASE MarketCloses(c)
  BY <1>2 DEF MarketCloses, BrokerTypeOK, BookInv, PositionsPersist, PositionStates
<1>3. CASE RequestLands(c)
  <2>1. CASE order[c] = "NONE" /\ c \notin expired
    <3>1. position[c] = "NONE"
      BY <2>1 DEF BookInv
    <3>2. QED
      BY <1>3, <2>1, <3>1, FillIsSound DEF RequestLands, BrokerTypeOK
  <2>2. CASE ~(order[c] = "NONE" /\ c \notin expired)
    BY <1>3, <2>2 DEF RequestLands, BrokerTypeOK, BookInv, PositionsPersist
  <2>3. QED
    BY <2>1, <2>2
<1>4. CASE ClockPassesExpiry(c)
  BY <1>4 DEF ClockPassesExpiry, BrokerTypeOK, BookInv, PositionsPersist
<1>5. QED
  BY <1>1, <1>2, <1>3, <1>4

-----------------------------------------------------------------------------
(* The engine *)

\* The facts about the lifecycle the steps below rest on.
LEMMA LegalTargets ==
  ASSUME NEW s, NEW e, NEW t, LeadsTo(s, e, t)
  PROVE  /\ s \in ActiveStates /\ t \in States
         /\ t # "CREATED"
         /\ t = "VALIDATED" => s = "CREATED"
         /\ t = "SUBMITTED" => s \in {"VALIDATED", "UNKNOWN"}
         /\ t = "UNKNOWN" => s \in {"SUBMITTED", "PARTIALLY_FILLED", "FILLED",
                                   "MODIFYING"}
BY DEF LeadsTo, Transitions, States, ActiveStates, TerminalStates, ReconcilableStates

LEMMA InitInductive == Init => Inductive
BY EngineAssumption
   DEF Init, BrokerInit, JournalInit, Inductive, TypeOK, BrokerTypeOK, JournalTypeOK,
       CallTypeOK, BookInv, JournalInv, CallInv, Carries, WriteAhead, ClosedIsClosed,
       FilledIsProtected, OneEntryInDoubt, EntryInDoubt, Idle, OrderStates,
       PositionStates, Labels, Answers, States, ActiveStates, TerminalStates

\* An effect of the broker leaves a true journal true: positions persist and
\* new evidence is only for a command journaled as SUBMITTED.
LEMMA BrokerKeepsJournal ==
  ASSUME Inductive, PositionsPersist, UNCHANGED journalVars,
         \A c \in Commands : order'[c] # "NONE" \/ c \in delayed' =>
                              \/ order[c] # "NONE" \/ c \in delayed
                              \/ state[c] = "SUBMITTED"
  PROVE  JournalTypeOK' /\ JournalInv' /\ OneEntryInDoubt'
BY DEF Inductive, TypeOK, JournalTypeOK, journalVars, JournalInv, WriteAhead,
       ClosedIsClosed, FilledIsProtected, OneEntryInDoubt, EntryInDoubt,
       PositionsPersist

\* What must be so of the command in progress before state t is journaled.
Warranted(t) ==
  /\ state[cmd] \in ActiveStates
  /\ t \in States \ {"CREATED"}
  /\ t = "VALIDATED" => state[cmd] = "CREATED"
  /\ t = "SUBMITTED" => \/ state[cmd] = "VALIDATED"
                        \/ \A d \in Commands : EntryInDoubt(d) => d = cmd
  /\ t = "UNKNOWN" => EntryInDoubt(cmd) \/ position[cmd] # "NONE"
  /\ t = "CLOSED" => position[cmd] = "CLOSED"
  /\ t \in {"FILLED", "PARTIALLY_FILLED", "MODIFYING"} => position[cmd] # "NONE"

LEMMA RecordKeepsJournal ==
  ASSUME Inductive, cmd \in Commands, UNCHANGED brokerVars, NEW t, Warranted(t),
         Record(cmd, t)
  PROVE  /\ BrokerTypeOK' /\ BookInv' /\ JournalTypeOK' /\ JournalInv'
         /\ OneEntryInDoubt'
         /\ state'[cmd] = t
<1>1. /\ BrokerTypeOK' /\ BookInv' /\ JournalTypeOK'
      /\ state' = [state EXCEPT ![cmd] = t] /\ result' = result
  <2>1. BrokerTypeOK' /\ BookInv'
    BY DEF Inductive, TypeOK, BrokerTypeOK, BookInv, brokerVars
  <2>2. state' = [state EXCEPT ![cmd] = t] /\ result' = result
    BY DEF Record
  <2>3. t \in States
    BY DEF Warranted, EntryInDoubt
  <2>4. JournalTypeOK'
    BY <2>2, <2>3 DEF Inductive, TypeOK, JournalTypeOK
  <2>5. QED
    BY <2>1, <2>2, <2>4
<1>2. JournalInv'
  <2>1. /\ state' = [state EXCEPT ![cmd] = t] /\ result' = result
        /\ state \in [Commands -> States \cup {"ABSENT"}]
        /\ UNCHANGED <<order, position, protected, delayed>>
    BY <1>1 DEF Inductive, TypeOK, JournalTypeOK, brokerVars
  <2>2. WriteAhead'
    BY <2>1 DEF Inductive, JournalInv, WriteAhead, Warranted, EntryInDoubt, States,
                ActiveStates, TerminalStates
  <2>3. ClosedIsClosed'
    BY <2>1 DEF Inductive, JournalInv, ClosedIsClosed, Warranted, EntryInDoubt
  <2>4. FilledIsProtected'
    BY <2>1 DEF Inductive, JournalInv, FilledIsProtected
  <2>5. (\A c \in Commands :
           state[c] \in {"FILLED", "PARTIALLY_FILLED", "MODIFYING"} =>
             position[c] # "NONE")'
    BY <2>1 DEF Inductive, JournalInv, Warranted, EntryInDoubt
  <2>6. QED
    BY <2>2, <2>3, <2>4, <2>5 DEF JournalInv
<1>3. OneEntryInDoubt'
  <2> SUFFICES ASSUME NEW c \in Commands, NEW d \in Commands,
                      EntryInDoubt(c)', EntryInDoubt(d)'
               PROVE  c = d
    BY DEF OneEntryInDoubt
  <2>1. \A b \in Commands \ {cmd} : state'[b] = state[b]
    BY <1>1 DEF Inductive, TypeOK, JournalTypeOK
  <2>2. state'[cmd] = t
    BY <1>1 DEF Inductive, TypeOK, JournalTypeOK
  <2>3. CASE t \notin {"VALIDATED", "SUBMITTED", "UNKNOWN"}
    BY <2>1, <2>2, <2>3 DEF Warranted, Inductive, OneEntryInDoubt, EntryInDoubt, brokerVars
  <2>4. CASE t = "VALIDATED"
    BY <2>1, <2>2, <2>4 DEF Warranted, Inductive, OneEntryInDoubt, EntryInDoubt, brokerVars
  <2>5. CASE t = "SUBMITTED"
    BY <2>1, <2>2, <2>5 DEF Warranted, Inductive, OneEntryInDoubt, EntryInDoubt, brokerVars
  <2>6. CASE t = "UNKNOWN"
    BY <2>1, <2>2, <2>6 DEF Warranted, Inductive, OneEntryInDoubt, EntryInDoubt, brokerVars
  <2>7. QED
    BY <2>3, <2>4, <2>5, <2>6
<1>4. QED
  BY <1>1, <1>2, <1>3 DEF Inductive, TypeOK, JournalTypeOK

\* A call has a command exactly while it is in progress.
LEMMA CallHasCommand ==
  ASSUME Inductive, pc # "idle"
  PROVE  cmd \in Commands
BY DEF Inductive, TypeOK, CallTypeOK, CallInv, Idle

LEMMA GotoKeepsCall ==
  ASSUME Inductive, cmd \in Commands, NEW label \in Labels \ {"idle"}, NEW n \in Nat,
         NEW a \in Answers, Goto(label, n, a),
         BrokerTypeOK', BookInv', JournalTypeOK', JournalInv', OneEntryInDoubt',
         Carries(label, a)'
  PROVE  Inductive'
BY EngineAssumption DEF Inductive, TypeOK, CallTypeOK, CallInv, Idle, Goto, Carries

LEMMA ReturnKeepsCall ==
  ASSUME Inductive, pc' = "idle", cmd' = NoCommand, tries' = 0, answer' = "NONE",
         crashes' \in 0..MaxCrashes,
         BrokerTypeOK', BookInv', JournalTypeOK', JournalInv', OneEntryInDoubt'
  PROVE  Inductive'
BY DEF Inductive, TypeOK, CallTypeOK, CallInv, Carries, Idle, Labels, Answers

\* Nothing but the call changes.
LEMMA OnlyCallChanges ==
  ASSUME Inductive, UNCHANGED <<brokerVars, journalVars>>
  PROVE  BrokerTypeOK' /\ BookInv' /\ JournalTypeOK' /\ JournalInv' /\ OneEntryInDoubt'
BY DEF Inductive, TypeOK, BrokerTypeOK, BookInv, JournalTypeOK, JournalInv, WriteAhead,
       ClosedIsClosed, FilledIsProtected, OneEntryInDoubt, EntryInDoubt, brokerVars,
       journalVars

\* An illegal event raises and leaves everything as it was.
LEMMA RaiseKeeps ==
  ASSUME Inductive, UNCHANGED <<brokerVars, journalVars>>, Return
  PROVE  Inductive'
<1>1. crashes' \in 0..MaxCrashes
  BY DEF Return, Inductive, TypeOK, CallTypeOK
<1>2. QED
  BY <1>1, OnlyCallChanges, ReturnKeepsCall DEF Return

\* A warranted record followed by the next effect of the call.
LEMMA RecordAndGoto ==
  ASSUME Inductive, cmd \in Commands, UNCHANGED brokerVars, NEW t, Warranted(t),
         Record(cmd, t), NEW label \in Labels \ {"idle"}, NEW a \in Answers,
         Goto(label, 0, a), Carries(label, a)'
  PROVE  Inductive'
BY RecordKeepsJournal, GotoKeepsCall

\* What the broker answers to a query is true of its book.
LEMMA QueryIsTrue ==
  ASSUME Inductive, NEW c \in Commands, NEW q \in QueryAnswers(c)
  PROVE  /\ q \in {"NONE", "AMBIGUOUS", "FILLED", "SUBMITTED", "CLOSED", "REJECTED"}
         /\ q = "FILLED" => position[c] # "NONE"
         /\ q = "CLOSED" => position[c] = "CLOSED"
         /\ q = "SUBMITTED" => position[c] = "NONE"
BY DEF Inductive, TypeOK, BrokerTypeOK, OrderStates, BookInv, QueryAnswers, BrokerTruth

\* A legal event whose target is true of the broker is warranted.
LEMMA EventIsWarranted ==
  ASSUME Inductive, cmd \in Commands, NEW e, NEW t, LeadsTo(state[cmd], e, t),
         t = "SUBMITTED" => \/ state[cmd] = "VALIDATED"
                            \/ \A d \in Commands : EntryInDoubt(d) => d = cmd,
         t = "CLOSED" => position[cmd] = "CLOSED",
         t \in {"FILLED", "PARTIALLY_FILLED", "MODIFYING"} => position[cmd] # "NONE"
  PROVE  Warranted(t)
<1>1. /\ state[cmd] \in ActiveStates /\ t \in States \ {"CREATED"}
      /\ t = "VALIDATED" => state[cmd] = "CREATED"
  BY LegalTargets
<1>2. t = "UNKNOWN" => EntryInDoubt(cmd) \/ position[cmd] # "NONE"
  BY LegalTargets DEF EntryInDoubt, Inductive, JournalInv
<1>3. QED
  BY <1>1, <1>2 DEF Warranted

\* _record_transition() and the next effect of the call: either the event is
\* illegal and the call raises, or its target is journaled.
LEMMA TransitionKeeps ==
  ASSUME Inductive, cmd \in Commands, UNCHANGED brokerVars, NEW e, NEW t,
         LeadsTo(state[cmd], e, t) /\ t = "SUBMITTED" =>
           \/ state[cmd] = "VALIDATED"
           \/ \A d \in Commands : EntryInDoubt(d) => d = cmd,
         t = "CLOSED" => position[cmd] = "CLOSED",
         LeadsTo(state[cmd], e, t) =>
           (t \in {"FILLED", "PARTIALLY_FILLED", "MODIFYING"} => position[cmd] # "NONE"),
         NEW label \in Labels \ {"idle"}, NEW a \in Answers,
         RecordTransition(e, t, Goto(label, 0, a)),
         OneEntryInDoubt' /\ state'[cmd] = t /\ cmd' = cmd => Carries(label, a)'
  PROVE  Inductive'
<1>1. CASE /\ ~LeadsTo(state[cmd], e, t)
           /\ UNCHANGED journalVars /\ Return
  BY <1>1, RaiseKeeps
<1>2. CASE /\ LeadsTo(state[cmd], e, t)
           /\ Record(cmd, t) /\ Goto(label, 0, a)
  <2>1. Warranted(t)
    BY <1>2, EventIsWarranted
  <2>2. OneEntryInDoubt' /\ state'[cmd] = t
    BY <1>2, <2>1, RecordKeepsJournal
  <2>3. cmd' = cmd
    BY <1>2 DEF Goto
  <2>4. QED
    BY <1>2, <2>1, <2>2, <2>3, RecordAndGoto
<1>3. QED
  BY <1>1, <1>2 DEF RecordTransition

-----------------------------------------------------------------------------
(* The steps of a call *)

LEMMA ValidateStep == Inductive /\ Validate => Inductive'
<1> SUFFICES ASSUME Inductive, Validate PROVE Inductive'
  OBVIOUS
<1>1. cmd \in Commands
  BY CallHasCommand DEF Validate
<1>2. CASE RecordTransition("VALIDATE_FAIL", "FAILED", Goto("store", 0, "FAILED"))
  BY <1>1, <1>2, TransitionKeeps DEF Validate, Carries, Labels, Answers, Results
<1>3. CASE RecordTransition("VALIDATE_OK", "VALIDATED", Goto("gate", 0, "NONE"))
  BY <1>1, <1>3, TransitionKeeps DEF Validate, Carries, Labels, Answers
<1>4. CASE UNCHANGED journalVars /\ Goto("gate", 0, "NONE")
  BY <1>1, <1>4, OnlyCallChanges, GotoKeepsCall DEF Validate, Carries, Labels, Answers
<1>5. QED
  BY <1>2, <1>3, <1>4 DEF Validate

LEMMA GateStep == Inductive /\ Gate => Inductive'
<1> SUFFICES ASSUME Inductive, Gate PROVE Inductive'
  OBVIOUS
<1>1. cmd \in Commands
  BY CallHasCommand DEF Gate
<1>2. CASE RecordTransition("EXPIRE", "EXPIRED", Goto("store", 0, "EXPIRED"))
  BY <1>1, <1>2, TransitionKeeps DEF Gate, Carries, Labels, Answers, Results
<1>3. CASE RecordTransition("SUBMIT", "SUBMITTED", Goto("send", 0, "NONE"))
  <2>1. LeadsTo(state[cmd], "SUBMIT", "SUBMITTED") => state[cmd] = "VALIDATED"
    BY DEF LeadsTo, Transitions
  <2>2. state'[cmd] = "SUBMITTED" /\ cmd' = cmd => Carries("send", "NONE")'
    BY DEF Carries
  <2>3. QED
    BY <1>1, <1>3, <2>1, <2>2, TransitionKeeps DEF Gate, Labels, Answers
<1>4. QED
  BY <1>2, <1>3 DEF Gate

LEMMA SendStep == Inductive /\ Send => Inductive'
<1> SUFFICES ASSUME Inductive, Send PROVE Inductive'
  OBVIOUS
<1>1. cmd \in Commands /\ state[cmd] = "SUBMITTED" /\ tries \in Nat
  BY CallHasCommand DEF Send, Inductive, CallInv, Carries, TypeOK, CallTypeOK
<1>2. PICK a \in Answers : SubmitOrder(cmd, a) /\ Goto("classify", tries, a)
  BY DEF Send
<1>3. /\ BrokerTypeOK' /\ BookInv' /\ PositionsPersist /\ EvidenceOnlyFor({cmd})
      /\ a \in {"FILLED", "PARTIALLY_FILLED", "REJECTED", "EXPIRED",
                "NETWORK_TIMEOUT", "AMBIGUOUS_RESPONSE"}
      /\ a \in {"FILLED", "PARTIALLY_FILLED"} => position'[cmd] # "NONE"
  BY <1>1, <1>2, SubmitIsSound DEF Inductive, TypeOK
<1>4. JournalTypeOK' /\ JournalInv' /\ OneEntryInDoubt'
  BY <1>1, <1>3, BrokerKeepsJournal DEF Send, EvidenceOnlyFor
<1>5. Carries("classify", a)'
  BY <1>1, <1>2, <1>3 DEF Carries, Goto, Send, journalVars
<1>6. QED
  BY <1>1, <1>2, <1>3, <1>4, <1>5, GotoKeepsCall DEF Labels

LEMMA AskBeforeRetryKeeps ==
  ASSUME Inductive, cmd \in Commands, state[cmd] = "SUBMITTED", UNCHANGED brokerVars,
         AskBeforeRetry
  PROVE  Inductive'
<1>1. PICK q \in QueryAnswers(cmd) :
        \/ /\ q = "NONE"
           /\ UNCHANGED journalVars
           /\ Goto("send", tries + 1, "NONE")
        \/ /\ q = "AMBIGUOUS"
           /\ RecordTransition("UNKNOWN", "UNKNOWN", Goto("store", 0, "UNKNOWN"))
        \/ /\ q \notin {"NONE", "AMBIGUOUS"}
           /\ RecordTransition("UNKNOWN", "UNKNOWN", Goto("adopt", 0, q))
  BY DEF AskBeforeRetry
<1>2. CASE UNCHANGED journalVars /\ Goto("send", tries + 1, "NONE")
  <2>1. tries + 1 \in Nat
    BY DEF Inductive, TypeOK, CallTypeOK
  <2>2. Carries("send", "NONE")'
    BY <1>2 DEF Carries, Goto, journalVars
  <2>3. QED
    BY <1>2, <2>1, <2>2, OnlyCallChanges, GotoKeepsCall DEF Labels, Answers
<1>3. CASE RecordTransition("UNKNOWN", "UNKNOWN", Goto("store", 0, "UNKNOWN"))
  BY <1>3, TransitionKeeps DEF Carries, Labels, Answers, Results
<1>4. CASE /\ q \notin {"NONE", "AMBIGUOUS"}
           /\ RecordTransition("UNKNOWN", "UNKNOWN", Goto("adopt", 0, q))
  <2>1. /\ q \in {"FILLED", "SUBMITTED", "CLOSED", "REJECTED"}
        /\ q = "FILLED" => position[cmd] # "NONE"
        /\ q = "CLOSED" => position[cmd] = "CLOSED"
        /\ q = "SUBMITTED" => position[cmd] = "NONE"
    BY <1>4, QueryIsTrue
  <2>2. ASSUME OneEntryInDoubt', state'[cmd] = "UNKNOWN", cmd' = cmd
        PROVE  Carries("adopt", q)'
    <3>1. q = "SUBMITTED" => \A d \in Commands : EntryInDoubt(d)' => d = cmd
      BY <2>1, <2>2 DEF OneEntryInDoubt, EntryInDoubt, brokerVars
    <3>2. QED
      BY <2>1, <2>2, <3>1 DEF Carries, brokerVars
  <2>3. QED
    BY <1>4, <2>1, <2>2, TransitionKeeps DEF Labels, Answers
<1>5. QED
  BY <1>1, <1>2, <1>3, <1>4

LEMMA ClassifyStep == Inductive /\ Classify => Inductive'
<1> SUFFICES ASSUME Inductive, Classify PROVE Inductive'
  OBVIOUS
<1>1. /\ cmd \in Commands /\ state[cmd] = "SUBMITTED"
      /\ answer \in {"FILLED", "PARTIALLY_FILLED"} => position[cmd] # "NONE"
  BY CallHasCommand DEF Classify, Inductive, CallInv, Carries
<1>2. CASE /\ answer = "FILLED"
           /\ RecordTransition("FULL_FILL", "FILLED", Goto("protect", 0, "NONE"))
  <2>1. state'[cmd] = "FILLED" /\ cmd' = cmd => Carries("protect", "NONE")'
    BY DEF Carries
  <2>2. QED
    BY <1>1, <1>2, <2>1, TransitionKeeps DEF Classify, Labels, Answers
<1>3. CASE /\ answer = "PARTIALLY_FILLED"
           /\ RecordTransition("PARTIAL_FILL", "PARTIALLY_FILLED",
                               Goto("protect", 0, "NONE"))
  <2>1. state'[cmd] = "PARTIALLY_FILLED" /\ cmd' = cmd => Carries("protect", "NONE")'
    BY DEF Carries
  <2>2. QED
    BY <1>1, <1>3, <2>1, TransitionKeeps DEF Classify, Labels, Answers
<1>4. CASE /\ answer \in {"REJECTED", "FAILED"}
           /\ RecordTransition(answer, answer, Goto("store", 0, answer))
  BY <1>1, <1>4, TransitionKeeps DEF Classify, Carries, Labels, Answers, Results
<1>5. CASE RecordTransition("EXPIRE", "EXPIRED", Goto("store", 0, "EXPIRED"))
  BY <1>1, <1>5, TransitionKeeps DEF Classify, Carries, Labels, Answers, Results
<1>6. CASE AskBeforeRetry
  BY <1>1, <1>6, AskBeforeRetryKeeps DEF Classify
<1>7. CASE RecordTransition("UNKNOWN", "UNKNOWN", Goto("store", 0, "UNKNOWN"))
  BY <1>1, <1>7, TransitionKeeps DEF Classify, Carries, Labels, Answers, Results
<1>8. QED
  BY <1>2, <1>3, <1>4, <1>5, <1>6, <1>7 DEF Classify

LEMMA ProtectStep == Inductive /\ Protect => Inductive'
<1> SUFFICES ASSUME Inductive, Protect PROVE Inductive'
  OBVIOUS
<1>1. cmd \in Commands /\ state[cmd] \in {"FILLED", "PARTIALLY_FILLED"}
  BY CallHasCommand DEF Protect, Inductive, CallInv, Carries
<1>2. position[cmd] # "NONE"
  BY <1>1 DEF Inductive, JournalInv
<1>3. CASE protected[cmd] /\ Record(cmd, "FILLED") /\ Goto("store", 0, "FILLED")
  <2>1. Warranted("FILLED")
    BY <1>1, <1>2 DEF Warranted, EntryInDoubt, States, ActiveStates
  <2>2. Carries("store", "FILLED")'
    BY <1>2, <1>3 DEF Carries, Goto, Protect, brokerVars, Results
  <2>3. QED
    BY <1>1, <1>3, <2>1, <2>2, RecordAndGoto DEF Protect, Labels, Answers
<1>4. CASE RecordTransition("SL_ATTACHING", "MODIFYING", Goto("attach", 0, "NONE"))
  BY <1>1, <1>2, <1>4, TransitionKeeps DEF Protect, Carries, Labels, Answers
<1>5. QED
  BY <1>2, <1>3, <1>4 DEF Protect

LEMMA AttachStep == Inductive /\ Attach => Inductive'
<1> SUFFICES ASSUME Inductive, Attach PROVE Inductive'
  OBVIOUS
<1>1. cmd \in Commands /\ tries \in Nat
  BY CallHasCommand DEF Attach, Inductive, TypeOK, CallTypeOK
<1>2. PICK ok \in BOOLEAN :
        /\ AttachSl(cmd, ok)
        /\ IF ok THEN Goto("attached", 0, "NONE")
           ELSE IF tries < SlAttachRetries THEN Goto("attach", tries + 1, "NONE")
           ELSE Goto("emergency", 0, "NONE")
  BY DEF Attach
<1>3. /\ BrokerTypeOK' /\ BookInv' /\ PositionsPersist /\ EvidenceOnlyFor({})
      /\ ok => protected'[cmd]
  BY <1>1, <1>2, AttachIsSound DEF Inductive, TypeOK
<1>4. JournalTypeOK' /\ JournalInv' /\ OneEntryInDoubt'
  BY <1>3, BrokerKeepsJournal DEF Attach, EvidenceOnlyFor
<1>5. CASE ok
  <2>1. protected'[cmd] /\ position'[cmd] # "NONE"
    BY <1>1, <1>3, <1>5 DEF BookInv
  <2>2. Carries("attached", "NONE")'
    BY <1>2, <1>5, <2>1 DEF Carries, Goto
  <2>3. QED
    BY <1>1, <1>2, <1>3, <1>4, <1>5, <2>2, GotoKeepsCall DEF Labels, Answers
<1>6. CASE ~ok
  <2>1. Carries("attach", "NONE")' /\ Carries("emergency", "NONE")'
    BY DEF Carries
  <2>2. tries + 1 \in Nat
    BY <1>1
  <2>3. QED
    BY <1>1, <1>2, <1>3, <1>4, <1>6, <2>1, <2>2, GotoKeepsCall DEF Labels, Answers
<1>7. QED
  BY <1>5, <1>6

LEMMA AttachedStep == Inductive /\ Attached => Inductive'
<1> SUFFICES ASSUME Inductive, Attached PROVE Inductive'
  OBVIOUS
<1>1. cmd \in Commands /\ protected[cmd] /\ position[cmd] # "NONE"
  BY CallHasCommand DEF Attached, Inductive, CallInv, Carries
<1>2. cmd' = cmd => Carries("store", "FILLED")'
  BY <1>1 DEF Attached, Carries, brokerVars, Results
<1>3. QED
  BY <1>1, <1>2, TransitionKeeps DEF Attached, Labels, Answers

\* The engine asked for a close; whatever came of it is settled or asked again.
LEMMA CloseRequestKeeps ==
  ASSUME Inductive, cmd \in Commands, UNCHANGED journalVars, NEW ok \in BOOLEAN,
         ClosePosition(cmd, ok), NEW label \in {"close", "settle"}, NEW n \in Nat,
         NEW a \in {"NONE", "CLOSED", "UNKNOWN"}, Goto(label, n, a),
         label = "settle" => a = IF ok THEN "CLOSED" ELSE "UNKNOWN",
         label = "close" => a = "NONE"
  PROVE  Inductive'
<1>1. /\ BrokerTypeOK' /\ BookInv' /\ PositionsPersist /\ EvidenceOnlyFor({})
      /\ ok => position'[cmd] = "CLOSED"
  BY CloseIsSound DEF Inductive, TypeOK
<1>2. JournalTypeOK' /\ JournalInv' /\ OneEntryInDoubt'
  BY <1>1, BrokerKeepsJournal DEF EvidenceOnlyFor
<1>3. Carries(label, a)'
  BY <1>1 DEF Carries, Goto
<1>4. label \in Labels \ {"idle"} /\ a \in Answers
  BY DEF Labels, Answers
<1>5. QED
  BY <1>1, <1>2, <1>3, <1>4, GotoKeepsCall

LEMMA EmergencyStep == Inductive /\ Emergency => Inductive'
<1> SUFFICES ASSUME Inductive, Emergency PROVE Inductive'
  OBVIOUS
<1>1. cmd \in Commands
  BY CallHasCommand DEF Emergency
<1>2. QED
  BY <1>1, CloseRequestKeeps DEF Emergency

LEMMA CloseStep == Inductive /\ Close => Inductive'
<1> SUFFICES ASSUME Inductive, Close PROVE Inductive'
  OBVIOUS
<1>1. cmd \in Commands /\ tries + 1 \in Nat
  BY CallHasCommand DEF Close, Inductive, TypeOK, CallTypeOK
<1>2. PICK ok \in BOOLEAN :
        /\ ClosePosition(cmd, ok)
        /\ IF ok THEN Goto("settle", 0, "CLOSED")
           ELSE IF tries < CloseRetries THEN Goto("close", tries + 1, "NONE")
           ELSE Goto("settle", 0, "UNKNOWN")
  BY DEF Close
<1>3. QED
  BY <1>1, <1>2, CloseRequestKeeps DEF Close

LEMMA SettleStep == Inductive /\ Settle => Inductive'
<1> SUFFICES ASSUME Inductive, Settle PROVE Inductive'
  OBVIOUS
<1>1. /\ cmd \in Commands /\ answer \in {"CLOSED", "UNKNOWN"}
      /\ answer = "CLOSED" => position[cmd] = "CLOSED"
  BY CallHasCommand DEF Settle, Inductive, CallInv, Carries
<1>2. cmd' = cmd => (answer = "CLOSED" => position'[cmd'] = "CLOSED")
  BY <1>1 DEF Settle, brokerVars
<1>3. \A a \in {"CLOSED", "UNKNOWN"} :
        (a = "CLOSED" => position'[cmd'] = "CLOSED") => Carries("store", a)'
  BY DEF Carries, Results
<1>4. QED
  BY <1>1, <1>2, <1>3, TransitionKeeps DEF Settle, Labels, Answers

LEMMA AdoptStep == Inductive /\ Adopt => Inductive'
<1> SUFFICES ASSUME Inductive, Adopt PROVE Inductive'
  OBVIOUS
<1>1. /\ cmd \in Commands
      /\ answer \in {"FILLED", "SUBMITTED", "CLOSED", "REJECTED"}
      /\ answer = "FILLED" => position[cmd] # "NONE"
      /\ answer = "CLOSED" => position[cmd] = "CLOSED"
      /\ answer = "SUBMITTED" => \A d \in Commands : EntryInDoubt(d) => d = cmd
  BY CallHasCommand DEF Adopt, Inductive, CallInv, Carries
<1>2. CASE answer = "FILLED"
  <2>1. RecordTransition("RECONCILED", "FILLED", Goto("protect", 0, "NONE"))
    BY <1>2 DEF Adopt, RecordTransition
  <2>2. state'[cmd] = "FILLED" /\ cmd' = cmd => Carries("protect", "NONE")'
    BY DEF Carries
  <2>3. QED
    BY <1>1, <1>2, <2>1, <2>2, TransitionKeeps DEF Adopt, Labels, Answers
<1>3. CASE answer = "SUBMITTED"
  <2>1. \/ LeadsTo(state[cmd], "RECONCILED", "SUBMITTED") /\ Record(cmd, "SUBMITTED")
        \/ UNCHANGED journalVars
    BY <1>3 DEF Adopt, RecordTransition
  <2>2. Return /\ UNCHANGED brokerVars
    BY <1>3 DEF Adopt, RecordTransition
  <2>3. CASE LeadsTo(state[cmd], "RECONCILED", "SUBMITTED") /\ Record(cmd, "SUBMITTED")
    <3>1. Warranted("SUBMITTED")
      BY <1>1, <1>3, <2>3, EventIsWarranted
    <3>2. crashes' \in 0..MaxCrashes
      BY <2>2 DEF Return, Inductive, TypeOK, CallTypeOK
    <3>3. QED
      BY <1>1, <2>2, <2>3, <3>1, <3>2, RecordKeepsJournal, ReturnKeepsCall DEF Return
  <2>4. CASE UNCHANGED journalVars
    BY <2>2, <2>4, RaiseKeeps
  <2>5. QED
    BY <2>1, <2>3, <2>4
<1>4. CASE answer \in {"CLOSED", "REJECTED"}
  <2>1. RecordTransition("RECONCILED", answer, Goto("store", 0, answer))
    BY <1>4 DEF Adopt, RecordTransition
  <2>2. cmd' = cmd => Carries("store", "CLOSED")' \/ answer # "CLOSED"
    BY <1>1 DEF Adopt, Carries, brokerVars, Results
  <2>3. Carries("store", "REJECTED")'
    BY DEF Carries, Results
  <2>4. CASE answer = "CLOSED"
    BY <1>1, <2>1, <2>2, <2>4, TransitionKeeps DEF Adopt, Labels, Answers
  <2>5. CASE answer = "REJECTED"
    BY <1>1, <2>1, <2>3, <2>5, TransitionKeeps DEF Adopt, Labels, Answers
  <2>6. QED
    BY <1>4, <2>4, <2>5
<1>5. QED
  BY <1>1, <1>2, <1>3, <1>4

LEMMA StoreStep == Inductive /\ Store => Inductive'
<1> SUFFICES ASSUME Inductive, Store PROVE Inductive'
  OBVIOUS
<1>1. /\ cmd \in Commands /\ answer \in Results
      /\ answer = "FILLED" => protected[cmd] /\ position[cmd] # "NONE"
      /\ answer = "CLOSED" => position[cmd] = "CLOSED"
  BY CallHasCommand DEF Store, Inductive, CallInv, Carries
<1>2. /\ result' = [result EXCEPT ![cmd] = answer] /\ state' = state
      /\ UNCHANGED <<order, position, protected, openings, delayed, expired>>
  BY DEF Store, StoreResult, brokerVars
<1>3. JournalTypeOK'
  BY <1>1, <1>2 DEF Inductive, TypeOK, JournalTypeOK
<1>4. JournalInv'
  <2>1. ClosedIsClosed' /\ FilledIsProtected'
    BY <1>1, <1>2
       DEF Inductive, TypeOK, JournalTypeOK, JournalInv, ClosedIsClosed, FilledIsProtected
  <2>2. QED
    BY <1>2, <2>1 DEF Inductive, JournalInv, WriteAhead
<1>5. BrokerTypeOK' /\ BookInv' /\ OneEntryInDoubt'
  BY <1>2 DEF Inductive, TypeOK, BrokerTypeOK, BookInv, OneEntryInDoubt, EntryInDoubt
<1>6. crashes' \in 0..MaxCrashes
  BY DEF Store, Return, Inductive, TypeOK, CallTypeOK
<1>7. QED
  BY <1>3, <1>4, <1>5, <1>6, ReturnKeepsCall DEF Store, Return

LEMMA EngineStepKeeps == Inductive /\ EngineStep => Inductive'
BY ValidateStep, GateStep, SendStep, ClassifyStep, ProtectStep, AttachStep,
   AttachedStep, EmergencyStep, CloseStep, SettleStep, AdoptStep, StoreStep
   DEF EngineStep

-----------------------------------------------------------------------------
(* The steps of the callers, the crash and the market *)

LEMMA BeginKeepsCall ==
  ASSUME Inductive, NEW c \in Commands, NEW label \in Labels \ {"idle"},
         NEW a \in Answers, Begin(c, label, a),
         UNCHANGED <<brokerVars, journalVars>>, Carries(label, a)'
  PROVE  Inductive'
<1>1. BrokerTypeOK' /\ BookInv' /\ JournalTypeOK' /\ JournalInv' /\ OneEntryInDoubt'
  BY OnlyCallChanges
<1>2. CallTypeOK'
  BY DEF Begin, Inductive, TypeOK, CallTypeOK
<1>3. CallInv'
  BY EngineAssumption DEF Begin, CallInv, Idle
<1>4. QED
  BY <1>1, <1>2, <1>3 DEF Inductive, TypeOK

\* The gate: a new command is created only when no entry is in doubt.
LEMMA CreateStep == ASSUME Inductive, NEW c \in Commands, CreateCommand(c) PROVE Inductive'
<1>1. /\ state' = [state EXCEPT ![c] = "CREATED"] /\ result' = result
      /\ state[c] = "ABSENT"
      /\ UNCHANGED <<brokerVars, callVars, crashes>>
  BY DEF CreateCommand, InsertCommand
<1>2. UNCHANGED <<order, position, protected, openings, delayed, expired>>
  BY <1>1 DEF brokerVars
<1>3. \A d \in Commands : ~EntryInDoubt(d)
  BY DEF CreateCommand, EntriesBlocked, RecoveryAction, EntryInDoubt
<1>4. JournalTypeOK'
  BY <1>1 DEF Inductive, TypeOK, JournalTypeOK, States, ActiveStates
<1>5. JournalInv'
  <2>1. WriteAhead'
    BY <1>1, <1>2 DEF Inductive, TypeOK, JournalTypeOK, JournalInv, WriteAhead
  <2>2. ClosedIsClosed' /\ FilledIsProtected'
    BY <1>1, <1>2 DEF Inductive, TypeOK, JournalTypeOK, JournalInv, ClosedIsClosed,
                      FilledIsProtected
  <2>3. QED
    BY <1>1, <1>2, <2>1, <2>2 DEF Inductive, TypeOK, JournalTypeOK, JournalInv
<1>6. OneEntryInDoubt'
  <2>1. \A d \in Commands : EntryInDoubt(d)' => d = c
    BY <1>1, <1>2, <1>3 DEF Inductive, TypeOK, JournalTypeOK, EntryInDoubt
  <2>2. QED
    BY <2>1 DEF OneEntryInDoubt
<1>7. BrokerTypeOK' /\ BookInv' /\ CallTypeOK'
  BY <1>1, <1>2 DEF Inductive, TypeOK, BrokerTypeOK, BookInv, CallTypeOK, callVars
<1>8. CallInv'
  BY <1>1 DEF CreateCommand, Inductive, CallInv, Carries, Idle, callVars
<1>9. QED
  BY <1>4, <1>5, <1>6, <1>7, <1>8 DEF Inductive, TypeOK

LEMMA ReconcileCallStep ==
  ASSUME Inductive, NEW c \in Commands, ReconcileCall(c) PROVE Inductive'
<1>1. PICK q \in QueryAnswers(c) :
        IF q \in {"NONE", "AMBIGUOUS"} THEN Begin(c, "store", "UNKNOWN")
                                       ELSE Begin(c, "adopt", q)
  BY DEF ReconcileCall
<1>2. /\ q \in {"NONE", "AMBIGUOUS", "FILLED", "SUBMITTED", "CLOSED", "REJECTED"}
      /\ q = "FILLED" => position[c] # "NONE"
      /\ q = "CLOSED" => position[c] = "CLOSED"
      /\ q = "SUBMITTED" => position[c] = "NONE"
  BY QueryIsTrue
<1>3. CASE q \in {"NONE", "AMBIGUOUS"}
  <2>1. Carries("store", "UNKNOWN")'
    BY DEF Carries, Results
  <2>2. QED
    BY <1>1, <1>3, <2>1, BeginKeepsCall DEF ReconcileCall, Labels, Answers
<1>4. CASE q \in {"FILLED", "SUBMITTED", "CLOSED", "REJECTED"}
  <2>1. Begin(c, "adopt", q) /\ cmd' = c
    BY <1>1, <1>4 DEF Begin
  <2>2. q = "SUBMITTED" => \A d \in Commands : EntryInDoubt(d)' => d = c
    BY <1>2 DEF ReconcileCall, Inductive, OneEntryInDoubt, EntryInDoubt, brokerVars,
                journalVars
  <2>3. Carries("adopt", q)'
    BY <1>2, <1>4, <2>1, <2>2 DEF ReconcileCall, Carries, brokerVars
  <2>4. QED
    BY <1>4, <2>1, <2>3, BeginKeepsCall DEF ReconcileCall, Labels, Answers
<1>5. QED
  BY <1>2, <1>3, <1>4

LEMMA CallerStepKeeps == Inductive /\ CallerStep => Inductive'
<1> SUFFICES ASSUME Inductive, NEW c \in Commands,
                    CreateCommand(c) \/ SubmitCall(c) \/ CloseCall(c) \/ ReconcileCall(c)
             PROVE  Inductive'
  BY DEF CallerStep
<1>1. CASE SubmitCall(c)
  <2>1. Carries("validate", "NONE")'
    BY DEF Carries
  <2>2. QED
    BY <1>1, <2>1, BeginKeepsCall DEF SubmitCall, Labels, Answers, brokerVars, journalVars
<1>2. CASE CloseCall(c)
  <2>1. Carries("close", "NONE")'
    BY DEF Carries
  <2>2. QED
    BY <1>2, <2>1, BeginKeepsCall DEF CloseCall, Labels, Answers, brokerVars, journalVars
<1>3. QED
  BY <1>1, <1>2, CreateStep, ReconcileCallStep

LEMMA CrashStep == Inductive /\ Crash => Inductive'
<1> SUFFICES ASSUME Inductive, Crash PROVE Inductive'
  OBVIOUS
<1>1. crashes' \in 0..MaxCrashes
  BY EngineAssumption DEF Crash, Inductive, TypeOK, CallTypeOK
<1>2. QED
  BY <1>1, OnlyCallChanges, ReturnKeepsCall DEF Crash

LEMMA MarketStepKeeps == Inductive /\ MarketStep => Inductive'
<1> SUFFICES ASSUME Inductive, MarketStep PROVE Inductive'
  OBVIOUS
<1>1. /\ BrokerTypeOK' /\ BookInv' /\ PositionsPersist
      /\ \A c \in Commands : order'[c] # "NONE" \/ c \in delayed' =>
                               order[c] # "NONE" \/ c \in delayed
  BY MarketIsSound DEF MarketStep, Inductive, TypeOK
<1>2. JournalTypeOK' /\ JournalInv' /\ OneEntryInDoubt'
  BY <1>1, BrokerKeepsJournal DEF MarketStep
<1>3. CallTypeOK'
  BY DEF MarketStep, Inductive, TypeOK, CallTypeOK, callVars
<1>4. CallInv'
  <2>1. CASE Idle
    BY <2>1 DEF MarketStep, Inductive, CallInv, Carries, Idle, callVars
  <2>2. CASE ~Idle
    <3>1. /\ cmd \in Commands /\ cmd' = cmd /\ pc' = pc /\ answer' = answer
          /\ state' = state
      BY <2>2, CallHasCommand DEF MarketStep, Idle, callVars, journalVars
    <3>2. \A d \in Commands : EntryInDoubt(d)' => EntryInDoubt(d)
      BY <1>1, <3>1 DEF EntryInDoubt, PositionsPersist
    <3>3. Carries(pc, answer)'
      BY <1>1, <3>1, <3>2 DEF Inductive, CallInv, Carries, PositionsPersist
    <3>4. QED
      BY <2>2, <3>1, <3>3 DEF Inductive, CallInv, Idle
  <2>3. QED
    BY <2>1, <2>2
<1>5. QED
  BY <1>1, <1>2, <1>3, <1>4 DEF Inductive, TypeOK

LEMMA StutterKeeps == Inductive /\ UNCHANGED vars => Inductive'
<1> SUFFICES ASSUME Inductive, UNCHANGED vars PROVE Inductive'
  OBVIOUS
<1>1. BrokerTypeOK' /\ BookInv' /\ JournalTypeOK' /\ JournalInv' /\ OneEntryInDoubt'
  BY OnlyCallChanges DEF vars
<1>2. CallTypeOK' /\ CallInv'
  BY DEF vars, brokerVars, journalVars, callVars, Inductive, TypeOK, CallTypeOK,
         CallInv, Carries, Idle, EntryInDoubt
<1>3. QED
  BY <1>1, <1>2 DEF Inductive, TypeOK

-----------------------------------------------------------------------------
(* The theorems *)

\* Every reachable state satisfies the inductive invariant, whatever the broker
\* plays, wherever the process dies and whatever arrives late.
THEOREM InductiveHolds == Spec => []Inductive
<1>1. Inductive /\ [Next]_vars => Inductive'
  BY EngineStepKeeps, CallerStepKeeps, CrashStep, MarketStepKeeps, StutterKeeps DEF Next
<1>2. QED
  BY <1>1, InitInductive, PTL DEF Spec

\* The journal, the book and the call in progress stay well typed: in
\* particular an answer is always one the engine has a branch for.
THEOREM TypeCorrect == Spec => []TypeOK
BY InductiveHolds, PTL DEF Inductive

\* submit() writes SUBMITTED ahead of the request, so no crash point leaves an
\* order behind for a command that recover() calls SUBMIT_SAFE.
THEOREM WriteAheadHolds == Spec => []WriteAhead
<1>1. Inductive => WriteAhead
  BY DEF Inductive, JournalInv
<1>2. QED
  BY <1>1, InductiveHolds, PTL

\* One command never opens two positions.
THEOREM AtMostOnePositionHolds == Spec => []AtMostOnePosition
<1>1. ASSUME Inductive, NEW c \in Commands
      PROVE  openings[c] <= 1
  <2>1. openings[c] \in {0, 1}
    BY <1>1 DEF Inductive, BookInv
  <2>2. QED
    BY <2>1
<1>2. QED
  <2>1. Inductive => AtMostOnePosition
    BY <1>1 DEF AtMostOnePosition
  <2>2. QED
    BY <2>1, InductiveHolds, PTL

\* CLOSED in the journal means closed at the broker.
THEOREM ClosedIsClosedHolds == Spec => []ClosedIsClosed
<1>1. Inductive => ClosedIsClosed
  BY DEF Inductive, JournalInv
<1>2. QED
  BY <1>1, InductiveHolds, PTL

\* A stored FILLED result is never returned for an unprotected position.
THEOREM FilledIsProtectedHolds == Spec => []FilledIsProtected
<1>1. Inductive => FilledIsProtected
  BY DEF Inductive, JournalInv
<1>2. QED
  BY <1>1, InductiveHolds, PTL

\* The gate of create_command leaves at most one entry undecided.
THEOREM OneEntryInDoubtHolds == Spec => []OneEntryInDoubt
BY InductiveHolds, PTL DEF Inductive

-----------------------------------------------------------------------------
(* The lifecycle *)

\* A step leaves the projected states alone or journals the target of an event.
JournalsAnEvent ==
  \/ state' = state
  \/ \E e, t : LeadsTo(state[cmd], e, t) /\ state' = [state EXCEPT ![cmd] = t]

LEMMA EngineJournalsEvents ==
  ASSUME Inductive, EngineStep
  PROVE  \/ JournalsAnEvent
         \/ /\ state[cmd] \in {"FILLED", "PARTIALLY_FILLED"}
            /\ state' = [state EXCEPT ![cmd] = "FILLED"]
<1>1. CASE Send \/ Attach \/ Emergency \/ Close \/ Store
  BY <1>1 DEF Send, Attach, Emergency, Close, Store, StoreResult, JournalsAnEvent,
              journalVars
<1>2. CASE Validate \/ Gate \/ Attached \/ Settle \/ Adopt
  BY <1>2 DEF Validate, Gate, Attached, Settle, Adopt, RecordTransition, Record,
              JournalsAnEvent, journalVars
<1>3. CASE Classify
  BY <1>3 DEF Classify, AskBeforeRetry, RecordTransition, Record, JournalsAnEvent,
              journalVars
<1>4. CASE Protect
  <2>1. state[cmd] \in {"FILLED", "PARTIALLY_FILLED"}
    BY <1>4 DEF Protect, Inductive, CallInv, Carries
  <2>2. QED
    BY <1>4, <2>1 DEF Protect, RecordTransition, Record, JournalsAnEvent, journalVars
<1>5. QED
  BY <1>1, <1>2, <1>3, <1>4 DEF EngineStep

LEMMA StateMovesAlongEdges ==
  ASSUME Inductive, EngineStep, NEW c \in Commands, state'[c] # state[c]
  PROVE  Edge(state[c], state'[c])
<1>1. c = cmd /\ cmd \in Commands
  BY CallHasCommand, EngineJournalsEvents
     DEF EngineStep, Inductive, TypeOK, JournalTypeOK, JournalsAnEvent, Validate, Gate,
         Send, Classify, Protect, Attach, Attached, Emergency, Close, Settle, Adopt, Store
<1>2. CASE JournalsAnEvent
  <2>1. PICK e, t : LeadsTo(state[cmd], e, t) /\ state' = [state EXCEPT ![cmd] = t]
    BY <1>1, <1>2 DEF JournalsAnEvent
  <2>2. <<state[cmd], e, t>> \in Transitions /\ state'[cmd] = t
    BY <1>1, <2>1 DEF LeadsTo, Inductive, TypeOK, JournalTypeOK
  <2>3. QED
    BY <1>1, <2>2 DEF Edge
<1>3. CASE /\ state[cmd] \in {"FILLED", "PARTIALLY_FILLED"}
           /\ state' = [state EXCEPT ![cmd] = "FILLED"]
  <2>1. state[cmd] = "PARTIALLY_FILLED" /\ state'[cmd] = "FILLED"
    BY <1>1, <1>3 DEF Inductive, TypeOK, JournalTypeOK
  <2>2. <<"PARTIALLY_FILLED", "FULL_FILL", "FILLED">> \in Transitions
    BY DEF Transitions
  <2>3. QED
    BY <1>1, <2>1, <2>2 DEF Edge
<1>4. QED
  BY <1>2, <1>3, EngineJournalsEvents

\* The journal only ever moves along the table of the state machine, although
\* SL_CONFIRMED does not consult it.
THEOREM LegalLifecycleHolds == Spec => LegalLifecycle
<1>1. ASSUME Inductive, [Next]_vars, NEW c \in Commands, state'[c] # state[c]
      PROVE  \/ state[c] = "ABSENT" /\ state'[c] = "CREATED"
             \/ Edge(state[c], state'[c])
  <2>1. CASE EngineStep
    BY <1>1, <2>1, StateMovesAlongEdges
  <2>2. CASE \E d \in Commands : CreateCommand(d)
    BY <1>1, <2>2 DEF CreateCommand, InsertCommand, Inductive, TypeOK, JournalTypeOK
  <2>3. CASE \E d \in Commands : SubmitCall(d) \/ CloseCall(d) \/ ReconcileCall(d)
    BY <1>1, <2>3 DEF SubmitCall, CloseCall, ReconcileCall, journalVars
  <2>4. CASE Crash \/ MarketStep \/ UNCHANGED vars
    BY <1>1, <2>4 DEF Crash, MarketStep, vars, journalVars
  <2>5. QED
    BY <1>1, <2>1, <2>2, <2>3, <2>4 DEF Next, CallerStep
<1>2. Inductive /\ [Next]_vars =>
        [\A c \in Commands : state'[c] # state[c] =>
           \/ state[c] = "ABSENT" /\ state'[c] = "CREATED"
           \/ Edge(state[c], state'[c])]_vars
  BY <1>1
<1>3. QED
  BY <1>2, InductiveHolds, PTL DEF Spec, LegalLifecycle

-----------------------------------------------------------------------------
(* Calls run down *)

\* No loop counter exceeds the budget of its loop.
WithinBudget(label, n) ==
  /\ n \in Nat
  /\ label \in {"send", "classify"} => n <= SubmitRetries
  /\ label = "attach" => n <= SlAttachRetries
  /\ label = "close" => n <= CloseRetries

\* The next effect of a call comes from a smaller number of effects.
Closer ==
  /\ WithinBudget(pc', tries')
  /\ EffectsLeft(pc', tries') \in 0..(EffectsLeft(pc, tries) - 1)

\* Returning ends whatever was left.
LEMMA ReturnIsCloser ==
  ASSUME Return, EffectsLeft(pc, tries) \in Nat \ {0}
  PROVE  Closer
<1>1. pc' = "idle" /\ tries' = 0 /\ EffectsLeft(pc', tries') = 0
  BY DEF Return, EffectsLeft
<1> QED BY <1>1 DEF Closer, WithinBudget

\* A step to an effect that has fewer after it.
LEMMA GotoIsCloser ==
  ASSUME NEW label, NEW n, NEW a, Goto(label, n, a), WithinBudget(label, n),
         EffectsLeft(label, n) \in 0..(EffectsLeft(pc, tries) - 1)
  PROVE  Closer
BY DEF Goto, Closer

\* What a journal record leads to, or the call raises.
LEMMA TransitionIsCloser ==
  ASSUME NEW event, NEW target, NEW label, NEW n, NEW a,
         RecordTransition(event, target, Goto(label, n, a)), WithinBudget(label, n),
         EffectsLeft(pc, tries) \in Nat \ {0},
         EffectsLeft(label, n) \in 0..(EffectsLeft(pc, tries) - 1)
  PROVE  Closer
<1>1. Goto(label, n, a) \/ Return
  BY DEF RecordTransition
<1> QED BY <1>1, GotoIsCloser, ReturnIsCloser

\* How many effects are left at each point of a call that keeps to its budgets.
LEMMA EffectsAreCounted ==
  ASSUME NEW label, NEW n, WithinBudget(label, n)
  PROVE  /\ EffectsLeft("idle", n) = 0
         /\ EffectsLeft("store", n) = 1
         /\ EffectsLeft("settle", n) = 2 /\ EffectsLeft("attached", n) = 2
         /\ EffectsLeft("emergency", n) = 3
         /\ EffectsLeft("attach", n) = 4 + SlAttachRetries - n
         /\ EffectsLeft("close", n) = 3 + CloseRetries - n
         /\ EffectsLeft("protect", n) = 5 + SlAttachRetries
         /\ EffectsLeft("adopt", n) = 6 + SlAttachRetries
         /\ EffectsLeft("classify", n) = 7 + SlAttachRetries + 2 * SubmitRetries - 2 * n
         /\ EffectsLeft("send", n) = 8 + SlAttachRetries + 2 * SubmitRetries - 2 * n
         /\ EffectsLeft("gate", n) = 9 + SlAttachRetries + 2 * SubmitRetries
         /\ EffectsLeft("validate", n) = 10 + SlAttachRetries + 2 * SubmitRetries
BY EngineAssumption DEF EffectsLeft, WithinBudget

\* The retries are counted: a loop ends when its budget does.
LEMMA LoopsRunDown ==
  ASSUME WithinBudget(pc, tries), Send \/ Classify \/ Attach \/ Close
  PROVE  Closer
<1> USE EngineAssumption
<1>1. CASE Send
  <2>1. PICK a \in Answers : Goto("classify", tries, a) /\ pc = "send"
    BY <1>1 DEF Send
  <2>2. WithinBudget("classify", tries) /\ tries \in Nat /\ tries <= SubmitRetries
    BY <2>1 DEF WithinBudget
  <2>3. EffectsLeft("classify", tries) \in 0..(EffectsLeft(pc, tries) - 1)
    BY <2>1, <2>2, EffectsAreCounted
  <2> QED BY <2>1, <2>2, <2>3, GotoIsCloser
<1>2. CASE Classify
  <2>1. pc = "classify" /\ tries \in Nat /\ tries <= SubmitRetries
    BY <1>2 DEF Classify, WithinBudget
  <2>2. /\ WithinBudget("store", 0) /\ WithinBudget("protect", 0) /\ WithinBudget("adopt", 0)
    BY DEF WithinBudget
  <2>3. /\ EffectsLeft("store", 0) \in 0..(EffectsLeft(pc, tries) - 1)
        /\ EffectsLeft("protect", 0) \in 0..(EffectsLeft(pc, tries) - 1)
        /\ EffectsLeft("adopt", 0) \in 0..(EffectsLeft(pc, tries) - 1)
        /\ EffectsLeft(pc, tries) \in Nat \ {0}
    BY <2>1, <2>2, EffectsAreCounted
  <2>4. CASE Retriable /\ Goto("send", tries + 1, "NONE")
    <3>1. tries + 1 <= SubmitRetries /\ tries + 1 \in Nat
      BY <2>1, <2>4 DEF Retriable
    <3>2. WithinBudget("send", tries + 1) /\ WithinBudget("classify", tries)
      BY <2>1, <3>1 DEF WithinBudget
    <3>3. EffectsLeft("send", tries + 1) \in 0..(EffectsLeft(pc, tries) - 1)
      BY <2>1, <3>1, <3>2, EffectsAreCounted
    <3> QED BY <2>4, <3>2, <3>3, GotoIsCloser
  <2>5. CASE \E event, target, a : \/ RecordTransition(event, target, Goto("store", 0, a))
                                  \/ RecordTransition(event, target, Goto("protect", 0, a))
                                  \/ RecordTransition(event, target, Goto("adopt", 0, a))
    BY <2>2, <2>3, <2>5, TransitionIsCloser
  <2>6. Retriable /\ AskBeforeRetry => \/ Goto("send", tries + 1, "NONE")
                                       \/ \E a : \/ RecordTransition("UNKNOWN", "UNKNOWN", Goto("store", 0, a))
                                                 \/ RecordTransition("UNKNOWN", "UNKNOWN", Goto("adopt", 0, a))
    BY DEF AskBeforeRetry
  <2> QED BY <1>2, <2>4, <2>5, <2>6 DEF Classify
<1>3. CASE Attach
  <2>1. pc = "attach" /\ tries \in Nat /\ tries <= SlAttachRetries
    BY <1>3 DEF Attach, WithinBudget
  <2>2. \/ Goto("attached", 0, "NONE")
        \/ tries < SlAttachRetries /\ Goto("attach", tries + 1, "NONE")
        \/ Goto("emergency", 0, "NONE")
    BY <1>3 DEF Attach
  <2>3. /\ WithinBudget("attached", 0) /\ WithinBudget("emergency", 0)
        /\ tries < SlAttachRetries => WithinBudget("attach", tries + 1)
    BY <2>1 DEF WithinBudget
  <2>4. /\ EffectsLeft("attached", 0) \in 0..(EffectsLeft(pc, tries) - 1)
        /\ EffectsLeft("emergency", 0) \in 0..(EffectsLeft(pc, tries) - 1)
        /\ tries < SlAttachRetries =>
             EffectsLeft("attach", tries + 1) \in 0..(EffectsLeft(pc, tries) - 1)
    BY <2>1, <2>3, EffectsAreCounted
  <2> QED BY <2>2, <2>3, <2>4, GotoIsCloser
<1>4. CASE Close
  <2>1. pc = "close" /\ tries \in Nat /\ tries <= CloseRetries
    BY <1>4 DEF Close, WithinBudget
  <2>2. \/ \E a : Goto("settle", 0, a)
        \/ tries < CloseRetries /\ Goto("close", tries + 1, "NONE")
    BY <1>4 DEF Close
  <2>3. /\ WithinBudget("settle", 0)
        /\ tries < CloseRetries => WithinBudget("close", tries + 1)
    BY <2>1 DEF WithinBudget
  <2>4. /\ EffectsLeft("settle", 0) \in 0..(EffectsLeft(pc, tries) - 1)
        /\ tries < CloseRetries =>
             EffectsLeft("close", tries + 1) \in 0..(EffectsLeft(pc, tries) - 1)
    BY <2>1, <2>3, EffectsAreCounted
  <2> QED BY <2>2, <2>3, <2>4, GotoIsCloser
<1> QED BY <1>1, <1>2, <1>3, <1>4

\* Everything else goes straight on.
LEMMA StraightStepsRunDown ==
  ASSUME WithinBudget(pc, tries),
         Validate \/ Gate \/ Protect \/ Attached \/ Emergency \/ Settle \/ Adopt \/ Store
  PROVE  Closer
<1> USE EngineAssumption
<1>1. \A label \in {"store", "gate", "send", "protect", "attach", "settle"} : WithinBudget(label, 0)
  BY DEF WithinBudget
<1>2. tries \in Nat
  BY DEF WithinBudget
<1>3. /\ EffectsLeft("store", 0) = 1 /\ EffectsLeft("settle", 0) = 2
      /\ EffectsLeft("attach", 0) = 4 + SlAttachRetries
      /\ EffectsLeft("protect", 0) = 5 + SlAttachRetries
      /\ EffectsLeft("send", 0) = 8 + SlAttachRetries + 2 * SubmitRetries
      /\ EffectsLeft("gate", 0) = 9 + SlAttachRetries + 2 * SubmitRetries
  BY <1>1, EffectsAreCounted
<1>4. /\ EffectsLeft("store", tries) = 1 /\ EffectsLeft("settle", tries) = 2
      /\ EffectsLeft("attached", tries) = 2 /\ EffectsLeft("emergency", tries) = 3
      /\ EffectsLeft("protect", tries) = 5 + SlAttachRetries
      /\ EffectsLeft("adopt", tries) = 6 + SlAttachRetries
      /\ EffectsLeft("gate", tries) = 9 + SlAttachRetries + 2 * SubmitRetries
      /\ EffectsLeft("validate", tries) = 10 + SlAttachRetries + 2 * SubmitRetries
  BY EffectsAreCounted
<1>5. CASE Validate
  <2>1. pc = "validate" /\ EffectsLeft(pc, tries) \in Nat \ {0}
    BY <1>4, <1>5 DEF Validate
  <2>2. \/ RecordTransition("VALIDATE_FAIL", "FAILED", Goto("store", 0, "FAILED"))
        \/ RecordTransition("VALIDATE_OK", "VALIDATED", Goto("gate", 0, "NONE"))
        \/ Goto("gate", 0, "NONE")
    BY <1>5 DEF Validate
  <2>3. /\ EffectsLeft("store", 0) \in 0..(EffectsLeft(pc, tries) - 1)
        /\ EffectsLeft("gate", 0) \in 0..(EffectsLeft(pc, tries) - 1)
    BY <1>3, <1>4, <2>1
  <2> QED BY <1>1, <2>1, <2>2, <2>3, GotoIsCloser, TransitionIsCloser
<1>6. CASE Gate
  <2>1. pc = "gate" /\ EffectsLeft(pc, tries) \in Nat \ {0}
    BY <1>4, <1>6 DEF Gate
  <2>2. \/ RecordTransition("EXPIRE", "EXPIRED", Goto("store", 0, "EXPIRED"))
        \/ RecordTransition("SUBMIT", "SUBMITTED", Goto("send", 0, "NONE"))
    BY <1>6 DEF Gate
  <2>3. /\ EffectsLeft("store", 0) \in 0..(EffectsLeft(pc, tries) - 1)
        /\ EffectsLeft("send", 0) \in 0..(EffectsLeft(pc, tries) - 1)
    BY <1>3, <1>4, <2>1
  <2> QED BY <1>1, <2>1, <2>2, <2>3, TransitionIsCloser
<1>7. CASE Protect
  <2>1. pc = "protect" /\ EffectsLeft(pc, tries) \in Nat \ {0}
    BY <1>4, <1>7 DEF Protect
  <2>2. \/ RecordTransition("UNKNOWN", "UNKNOWN", Goto("store", 0, "UNKNOWN"))
        \/ Goto("store", 0, "FILLED")
        \/ RecordTransition("SL_ATTACHING", "MODIFYING", Goto("attach", 0, "NONE"))
    BY <1>7 DEF Protect
  <2>3. /\ EffectsLeft("store", 0) \in 0..(EffectsLeft(pc, tries) - 1)
        /\ EffectsLeft("attach", 0) \in 0..(EffectsLeft(pc, tries) - 1)
    BY <1>3, <1>4, <2>1
  <2> QED BY <1>1, <2>1, <2>2, <2>3, GotoIsCloser, TransitionIsCloser
<1>8. CASE Attached \/ Settle
  <2>1. pc \in {"attached", "settle"} /\ EffectsLeft(pc, tries) = 2
    BY <1>4, <1>8 DEF Attached, Settle
  <2>2. \E event, target, a : RecordTransition(event, target, Goto("store", 0, a))
    BY <1>8 DEF Attached, Settle
  <2>3. EffectsLeft("store", 0) \in 0..(EffectsLeft(pc, tries) - 1)
    BY <1>3, <2>1
  <2> QED BY <1>1, <2>1, <2>2, <2>3, TransitionIsCloser
<1>9. CASE Emergency
  <2>1. pc = "emergency" /\ \E a : Goto("settle", 0, a)
    BY <1>9 DEF Emergency
  <2>2. EffectsLeft("settle", 0) \in 0..(EffectsLeft(pc, tries) - 1)
    BY <1>3, <1>4, <2>1
  <2> QED BY <1>1, <2>1, <2>2, GotoIsCloser
<1>10. CASE Adopt
  <2>1. pc = "adopt" /\ EffectsLeft(pc, tries) \in Nat \ {0}
    BY <1>4, <1>10 DEF Adopt
  <2>2. Goto("protect", 0, "NONE") \/ Return \/ Goto("store", 0, answer)
    BY <1>10 DEF Adopt, RecordTransition
  <2>3. /\ EffectsLeft("store", 0) \in 0..(EffectsLeft(pc, tries) - 1)
        /\ EffectsLeft("protect", 0) \in 0..(EffectsLeft(pc, tries) - 1)
    BY <1>3, <1>4, <2>1
  <2> QED BY <1>1, <2>1, <2>2, <2>3, GotoIsCloser, ReturnIsCloser
<1>11. CASE Store
  <2>1. pc = "store" /\ EffectsLeft(pc, tries) \in Nat \ {0} /\ Return
    BY <1>4, <1>11 DEF Store
  <2> QED BY <2>1, ReturnIsCloser
<1> QED BY <1>5, <1>6, <1>7, <1>8, <1>9, <1>10, <1>11

\* A call ends after a number of effects that its budgets bound, whatever the broker
\* answers, wherever the market moves and whatever was left of the call before: the
\* safety half of CallsEnd (RetryPolicy, the loops of submit(), close() and
\* _ensure_sl_protection()).
THEOREM CallsRunDownHolds == Spec => CallsRunDown
<1>1. Init => WithinBudget(pc, tries)
  BY DEF Init, WithinBudget
<1>2. WithinBudget(pc, tries) /\ EngineStep => Closer
  BY LoopsRunDown, StraightStepsRunDown DEF EngineStep
<1>3. WithinBudget(pc, tries) /\ [Next]_vars => WithinBudget(pc, tries)'
  <2> SUFFICES ASSUME WithinBudget(pc, tries), [Next]_vars PROVE WithinBudget(pc', tries')
    OBVIOUS
  <2>1. CASE EngineStep
    BY <1>2, <2>1 DEF Closer
  <2>2. CASE CallerStep
    BY <2>2, EngineAssumption
       DEF CallerStep, CreateCommand, SubmitCall, CloseCall, ReconcileCall, Begin, callVars,
           WithinBudget
  <2>3. CASE Crash
    BY <2>3 DEF Crash, WithinBudget
  <2>4. CASE MarketStep \/ UNCHANGED vars
    BY <2>4 DEF MarketStep, vars, callVars
  <2> QED BY <2>1, <2>2, <2>3, <2>4 DEF Next
<1>4. WithinBudget(pc, tries) /\ [Next]_vars =>
        [EngineStep => EffectsLeft(pc', tries') \in 0..(EffectsLeft(pc, tries) - 1)]_vars
  BY <1>2 DEF Closer
<1> QED BY <1>1, <1>3, <1>4, PTL DEF Spec, CallsRunDown
=============================================================================
