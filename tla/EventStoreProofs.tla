-------------------------- MODULE EventStoreProofs ---------------------------
(***************************************************************************)
(* The schema is whole in every reachable state, for every number of       *)
(* openers, versions, failures and crashes; and the validator of streams   *)
(* implements the abstract path of a trade, for every set of trades.       *)
(***************************************************************************)
EXTENDS EventStoreProperties, TLAPS

-----------------------------------------------------------------------------
(* The schema *)

InOrder(versions) == \A v \in versions : \A w \in Versions : w < v => w \in versions

\* What an opener has seen is applied and in order; exactly the one inside a
\* transaction has the lock, and it has executed what it is about to record.
OpenerInv(p) ==
  /\ seen[p] \subseteq applied /\ InOrder(seen[p])
  /\ step[p] \in {"statements", "record"} <=> lock = p
  /\ step[p] = "statements" => executed = {}
  /\ step[p] = "record" => \A v \in Versions : IsNext(p, v) => executed = {v}
  /\ step[p] = "open" => seen[p] = Versions

SchemaInv ==
  /\ SchemaTypeOK
  /\ tables = applied /\ InOrder(applied)
  /\ lock = NoOpener => executed = {}
  /\ \A p \in Openers : OpenerInv(p)

\* Only one version is the next one.
LEMMA NextIsUnique ==
  ASSUME NEW p, NEW v \in Versions, NEW w \in Versions, IsNext(p, v), IsNext(p, w)
  PROVE  v = w
BY MigrationsAssumption DEF IsNext, Versions

\* An opener that gives up, or dies, keeps the invariant.
LEMMA GiveUpKeeps ==
  ASSUME SchemaInv, NEW p \in Openers,
         step' = [step EXCEPT ![p] = "closed"], seen' = [seen EXCEPT ![p] = {}],
         lock' = IF lock = p THEN NoOpener ELSE lock,
         executed' = IF lock = p THEN {} ELSE executed,
         UNCHANGED <<tables, applied>>,
         failures' \in 0..MaxFailures, crashes' \in 0..MaxCrashes
  PROVE  SchemaInv'
<1>1. SchemaTypeOK'
  BY DEF SchemaInv, SchemaTypeOK
<1>2. tables' = applied' /\ InOrder(applied)' /\ (lock' = NoOpener => executed' = {})
  BY DEF SchemaInv, InOrder, Versions
<1>3. ASSUME NEW q \in Openers PROVE OpenerInv(q)'
  <2>1. CASE q = p
    <3>1. step'[q] = "closed" /\ seen'[q] = {} /\ lock' # q
      BY <2>1, MigrationsAssumption DEF SchemaInv, SchemaTypeOK
    <3> QED BY <3>1 DEF OpenerInv, InOrder
  <2>2. CASE q # p
    <3>1. step'[q] = step[q] /\ seen'[q] = seen[q] /\ (lock' = q <=> lock = q)
      BY <2>2, MigrationsAssumption DEF SchemaInv, SchemaTypeOK
    <3>2. lock = q => executed' = executed
      BY <2>2
    <3>3. OpenerInv(q)
      BY DEF SchemaInv
    <3> QED BY <3>1, <3>2, <3>3 DEF OpenerInv, InOrder, IsNext, Pending, Versions
  <2> QED BY <2>1, <2>2
<1> QED BY <1>1, <1>2, <1>3 DEF SchemaInv

\* A step of opener p alone, that leaves the database and the lock as they are.
LEMMA MoveKeeps ==
  ASSUME SchemaInv, NEW p \in Openers, SchemaTypeOK',
         \A q \in Openers \ {p} : step'[q] = step[q] /\ seen'[q] = seen[q],
         step[p] \notin {"statements", "record"},
         step'[p] \notin {"statements", "record"},
         seen'[p] \subseteq applied, InOrder(seen'[p]),
         step'[p] = "open" => seen'[p] = Versions,
         UNCHANGED <<tables, applied, lock, executed>>
  PROVE  SchemaInv'
<1>1. tables' = applied' /\ InOrder(applied)' /\ (lock' = NoOpener => executed' = {})
  BY DEF SchemaInv, InOrder, Versions
<1>2. ASSUME NEW q \in Openers PROVE OpenerInv(q)'
  <2>0. OpenerInv(q) /\ OpenerInv(p)
    BY DEF SchemaInv
  <2>1. CASE q = p
    BY <2>0, <2>1 DEF OpenerInv, InOrder, Versions
  <2>2. CASE q # p
    BY <2>0, <2>2 DEF OpenerInv, InOrder, IsNext, Pending, Versions
  <2> QED BY <2>1, <2>2
<1> QED BY <1>1, <1>2 DEF SchemaInv

LEMMA RecordKeeps ==
  ASSUME SchemaInv, NEW p \in Openers, Record(p)
  PROVE  SchemaInv'
<1>0. OpenerInv(p) /\ SchemaTypeOK /\ step[p] = "record" /\ lock = p
  BY DEF SchemaInv, OpenerInv, Record
<1>1. PICK v \in Versions :
        /\ IsNext(p, v)
        /\ IF v \in applied THEN GiveUp(p)
           ELSE /\ applied' = applied \cup {v} /\ tables' = tables \cup executed
                /\ lock' = NoOpener /\ executed' = {}
                /\ seen' = [seen EXCEPT ![p] = @ \cup {v}]
                /\ Goto(p, "pending")
  BY DEF Record
<1>2. UNCHANGED <<failures, crashes>> /\ failures' \in 0..MaxFailures /\ crashes' \in 0..MaxCrashes
  BY <1>0 DEF Record, SchemaTypeOK
<1>3. CASE v \in applied
  BY <1>1, <1>2, <1>3, GiveUpKeeps DEF GiveUp, Goto
<1>4. CASE v \notin applied
  <2>1. /\ applied' = applied \cup {v} /\ tables' = tables \cup {v}
        /\ lock' = NoOpener /\ executed' = {}
        /\ seen' = [seen EXCEPT ![p] = seen[p] \cup {v}]
        /\ step' = [step EXCEPT ![p] = "pending"]
    BY <1>0, <1>1, <1>4 DEF OpenerInv, Goto
  <2>2. \A w \in Versions : w < v => w \in seen[p]
    BY <1>1, MigrationsAssumption DEF IsNext, Pending, Versions
  <2>3. SchemaTypeOK'
    BY <1>0, <1>2, <2>1 DEF SchemaTypeOK
  <2>4. tables' = applied' /\ InOrder(applied)'
    BY <1>0, <2>1, <2>2 DEF SchemaInv, OpenerInv, InOrder, Versions
  <2>5. ASSUME NEW q \in Openers PROVE OpenerInv(q)'
    <3>0. OpenerInv(q)
      BY DEF SchemaInv
    <3>1. CASE q = p
      <4>1. step'[q] = "pending" /\ seen'[q] = seen[p] \cup {v} /\ lock' # q
        BY <3>1, <2>1, <1>0, MigrationsAssumption DEF SchemaTypeOK
      <4> QED BY <4>1, <2>1, <2>2, <1>0 DEF OpenerInv, InOrder, Versions
    <3>2. CASE q # p
      <4>1. /\ step'[q] = step[q] /\ seen'[q] = seen[q] /\ lock' # q
            /\ step[q] \notin {"statements", "record"}
        BY <3>2, <2>1, <1>0, <3>0, MigrationsAssumption DEF SchemaTypeOK, OpenerInv
      <4> QED BY <4>1, <2>1, <3>0 DEF OpenerInv, InOrder, Versions
    <3> QED BY <3>1, <3>2
  <2> QED BY <2>1, <2>3, <2>4, <2>5 DEF SchemaInv
<1> QED BY <1>3, <1>4

LEMMA OpenStepKeeps ==
  ASSUME SchemaInv, NEW p \in Openers, OpenStep(p)
  PROVE  SchemaInv'
<1>0. OpenerInv(p) /\ SchemaTypeOK
  BY DEF SchemaInv
<1>1. CASE Connect(p)
  <2>1. SchemaTypeOK' /\ step'[p] = "connected" /\ seen'[p] = seen[p]
    BY <1>0, <1>1 DEF Connect, Goto, SchemaTypeOK
  <2> QED BY <1>0, <1>1, <2>1, MoveKeeps DEF Connect, Goto, OpenerInv
<1>2. CASE ReadVersions(p)
  <2>1. SchemaTypeOK' /\ step'[p] = "pending" /\ seen'[p] = applied
    BY <1>0, <1>2 DEF ReadVersions, Goto, SchemaTypeOK
  <2> QED BY <1>2, <2>1, MoveKeeps DEF ReadVersions, Goto, SchemaInv
<1>3. CASE Begin(p)
  <2>1. CASE lock = NoOpener
    <3>1. /\ step[p] = "pending" /\ lock' = p
          /\ step' = [step EXCEPT ![p] = "statements"]
          /\ UNCHANGED <<tables, applied, executed, seen, failures, crashes>>
      BY <1>3, <2>1 DEF Begin, Goto
    <3>2. SchemaTypeOK' /\ tables' = applied' /\ InOrder(applied)' /\ lock' # NoOpener
      BY <3>1, <1>0, MigrationsAssumption DEF SchemaInv, SchemaTypeOK, InOrder, Versions
    <3>3. executed = {}
      BY <2>1 DEF SchemaInv
    <3>4. ASSUME NEW q \in Openers PROVE OpenerInv(q)'
      <4>0. OpenerInv(q) /\ lock # q
        BY <2>1, MigrationsAssumption DEF SchemaInv
      <4>1. CASE q = p
        <5>1. step'[q] = "statements"
          BY <4>1, <3>1, <1>0 DEF SchemaTypeOK
        <5> QED BY <5>1, <4>0, <4>1, <3>1, <3>3 DEF OpenerInv, InOrder, Versions
      <4>2. CASE q # p
        <5>1. step'[q] = step[q] /\ lock' # q
          BY <4>2, <3>1, <1>0 DEF SchemaTypeOK
        <5> QED BY <5>1, <4>0, <3>1 DEF OpenerInv, InOrder, Versions
      <4> QED BY <4>1, <4>2
    <3> QED BY <3>2, <3>4 DEF SchemaInv
  <2>2. CASE lock # NoOpener
    <3>1. failures' \in 0..MaxFailures /\ crashes' \in 0..MaxCrashes
      BY <1>0, <1>3 DEF Begin, SchemaTypeOK
    <3> QED BY <1>3, <2>2, <3>1, GiveUpKeeps DEF Begin, GiveUp, Goto
  <2> QED BY <2>1, <2>2
<1>4. CASE Statements(p)
  <2>1. /\ step[p] = "statements" /\ lock = p /\ executed = {}
        /\ step' = [step EXCEPT ![p] = "record"]
        /\ UNCHANGED <<tables, applied, lock, seen, failures, crashes>>
    BY <1>0, <1>4 DEF Statements, Execute, Goto, OpenerInv
  <2>2. PICK v \in Versions : IsNext(p, v) /\ executed' = {v}
    BY <1>4, <2>1 DEF Statements, Execute
  <2>3. SchemaTypeOK' /\ tables' = applied' /\ InOrder(applied)' /\ lock' # NoOpener
    BY <1>0, <2>1, <2>2, MigrationsAssumption DEF SchemaInv, SchemaTypeOK, InOrder, Versions
  <2>4. ASSUME NEW q \in Openers PROVE OpenerInv(q)'
    <3>0. OpenerInv(q)
      BY DEF SchemaInv
    <3>1. CASE q = p
      <4>1. step'[q] = "record"
        BY <3>1, <2>1, <1>0 DEF SchemaTypeOK
      <4>2. \A w \in Versions : IsNext(p, w)' => w = v
        BY <2>1, <2>2, NextIsUnique DEF IsNext, Pending, Versions
      <4> QED BY <4>1, <4>2, <3>0, <3>1, <2>1, <2>2 DEF OpenerInv, InOrder, Versions
    <3>2. CASE q # p
      <4>1. step'[q] = step[q] /\ lock # q
        BY <3>2, <2>1, <1>0 DEF SchemaTypeOK
      <4> QED BY <4>1, <3>0, <2>1 DEF OpenerInv, InOrder, Versions
    <3> QED BY <3>1, <3>2
  <2> QED BY <2>3, <2>4 DEF SchemaInv
<1>5. CASE Record(p)
  BY <1>5, RecordKeeps
<1>6. CASE Opened(p)
  <2>1. seen[p] = Versions
    BY <1>0, <1>6 DEF Opened, Pending, OpenerInv, SchemaTypeOK
  <2>2. SchemaTypeOK' /\ step'[p] = "open" /\ seen'[p] = seen[p]
    BY <1>0, <1>6 DEF Opened, Goto, SchemaTypeOK
  <2> QED BY <1>0, <1>6, <2>1, <2>2, MoveKeeps DEF Opened, Goto, OpenerInv
<1> QED BY <1>1, <1>2, <1>3, <1>4, <1>5, <1>6 DEF OpenStep

LEMMA SchemaStepKeeps ==
  ASSUME SchemaInv, SchemaStep
  PROVE  SchemaInv'
<1>1. PICK p \in Openers : OpenStep(p) \/ Fail(p) \/ Crash(p) \/ Close(p)
  BY DEF SchemaStep
<1>2. CASE OpenStep(p)
  BY <1>2, OpenStepKeeps
<1>3. CASE Fail(p)
  <2>1. failures' \in 0..MaxFailures /\ crashes' \in 0..MaxCrashes
    BY <1>3, MigrationsAssumption DEF Fail, SchemaInv, SchemaTypeOK
  <2> QED BY <1>3, <2>1, GiveUpKeeps DEF Fail, GiveUp, Goto
<1>4. CASE Crash(p)
  <2>1. failures' \in 0..MaxFailures /\ crashes' \in 0..MaxCrashes
    BY <1>4, MigrationsAssumption DEF Crash, SchemaInv, SchemaTypeOK
  <2> QED BY <1>4, <2>1, GiveUpKeeps DEF Crash
<1>5. CASE Close(p)
  <2>1. SchemaTypeOK' /\ step'[p] = "closed" /\ seen'[p] = {}
    BY <1>5 DEF Close, Goto, SchemaInv, SchemaTypeOK
  <2> QED BY <1>5, <2>1, MoveKeeps DEF Close, Goto, InOrder
<1> QED BY <1>1, <1>2, <1>3, <1>4, <1>5

LEMMA SchemaInvIsInvariant == Spec => []SchemaInv
<1>1. Init => SchemaInv
  BY MigrationsAssumption
  DEF Init, SchemaInit, SchemaInv, SchemaTypeOK, InOrder, OpenerInv, Versions
<1>2. SchemaInv /\ [Next]_vars => SchemaInv'
  <2> SUFFICES ASSUME SchemaInv, [Next]_vars PROVE SchemaInv'
    OBVIOUS
  <2>1. CASE Migrate
    BY <2>1, SchemaStepKeeps DEF Migrate
  <2>2. CASE UNCHANGED schemaVars
    BY <2>2 DEF schemaVars, SchemaInv, SchemaTypeOK, InOrder, OpenerInv, IsNext, Pending,
                Versions
  <2> QED BY <2>1, <2>2 DEF Next, Validate, vars
<1> QED BY <1>1, <1>2, PTL DEF Spec

\* A version is recorded exactly when its tables are committed, versions are applied
\* in order, and an open database has all of them, whoever migrates at once.
THEOREM SchemaIsWholeHolds == Spec => []SchemaIsWhole
<1>1. SchemaInv => SchemaIsWhole
  <2> SUFFICES ASSUME SchemaInv PROVE SchemaIsWhole
    OBVIOUS
  <2>1. ASSUME NEW v \in applied PROVE 1..v \subseteq applied
    BY MigrationsAssumption DEF SchemaInv, SchemaTypeOK, InOrder, Versions
  <2>2. ASSUME NEW p \in Openers, step[p] = "open" PROVE applied = Versions
    BY <2>2 DEF SchemaInv, SchemaTypeOK, OpenerInv
  <2> QED BY <2>1, <2>2 DEF SchemaInv, SchemaIsWhole
<1> QED BY <1>1, SchemaInvIsInvariant, PTL

-----------------------------------------------------------------------------
(* The path of a trade *)

\* A trade that is not over is in one of the states with a way on, or at its start.
UnderWay == TRADE_FLOW_EVENTS \ {"POSITION_CLOSED"}

ContractInv ==
  /\ ContractTypeOK
  /\ \A t \in Trades : reason[t] = NotTerminal => state[t] \in UnderWay \cup {NoState}

\* What apply() leaves of the trade's own record.
LEMMA ApplyEffect ==
  ASSUME ContractInv, NEW t \in Trades, NEW e \in Events, Apply(t, e)
  PROVE  /\ state' \in [Trades -> EventTypes \cup {NoState}]
         /\ reason' \in [Trades -> Reasons]
         /\ rejected' \in [Trades -> BOOLEAN]
         /\ \A u \in Trades \ {t} : state'[u] = state[u] /\ reason'[u] = reason[u]
         /\ reason'[t] = ReasonAfter(t, e)
         /\ state'[t] = IF e.type \notin OUT_OF_BAND_EVENTS \/ e.type \in TERMINAL_EVENTS
                        THEN e.type ELSE state[t]
<1>1. e.type \in EventTypes /\ e.rejects \in BOOLEAN
  BY DEF Events
<1>2. ReasonAfter(t, e) \in Reasons
  BY <1>1 DEF ReasonAfter, Reasons, ContractInv, ContractTypeOK, TERMINAL_EVENTS
<1>3. rejected' \in [Trades -> BOOLEAN]
  <2>1. (e.type = "RISK_GATE" /\ e.rejects) \in BOOLEAN
    OBVIOUS
  <2> QED BY <2>1 DEF Apply, ContractInv, ContractTypeOK
<1> QED BY <1>1, <1>2, <1>3 DEF Apply, ContractInv, ContractTypeOK

\* A trade's phase moves to the one given, or stays, and no other trade's moves.
LEMMA PhaseMoves ==
  ASSUME NEW t \in Trades, NEW next, PhaseOf(t)' = next,
         \A u \in Trades \ {t} : state'[u] = state[u] /\ reason'[u] = reason[u]
  PROVE  /\ Path!Becomes(t, next)
         /\ next = PhaseOf(t) => UNCHANGED Phase
<1>1. \A u \in Trades \ {t} : PhaseOf(u)' = PhaseOf(u)
  BY DEF PhaseOf
<1> QED BY <1>1 DEF Path!Becomes, Phase

\* An event that applies to a trade happens to it on its path.
LEMMA AppliedHappens ==
  ASSUME ContractInv, NEW t \in Trades, NEW e \in Events,
         Applies(t, e.type), Apply(t, e)
  PROVE  Path!Happens(t, e.type, e.rejects)
<1>0. /\ e.type \in EventTypes /\ e.rejects \in BOOLEAN
      /\ e.rejects => e.type = "RISK_GATE"
  BY DEF Events
<1>1. /\ \A u \in Trades \ {t} : state'[u] = state[u] /\ reason'[u] = reason[u]
      /\ reason'[t] = ReasonAfter(t, e)
      /\ state'[t] = IF e.type \notin OUT_OF_BAND_EVENTS \/ e.type \in TERMINAL_EVENTS
                     THEN e.type ELSE state[t]
  BY ApplyEffect
<1>2. /\ reason[t] \in Reasons
      /\ reason[t] = NotTerminal => state[t] \in UnderWay \cup {NoState}
  BY DEF ContractInv, ContractTypeOK
<1>3. CASE e.type \in {"ERROR", "TIMEOUT"}
  <2>1. PhaseOf(t)' = "over"
    BY <1>1, <1>3 DEF PhaseOf, ReasonAfter, TERMINAL_EVENTS, NotTerminal
  <2> QED BY <1>1, <1>3, <2>1, PhaseMoves DEF Path!Happens, Phase
<1>4. CASE e.type = "RECONCILIATION"
  <2>0. state'[t] = state[t]
    BY <1>1, <1>4 DEF OUT_OF_BAND_EVENTS, TERMINAL_EVENTS
  <2>1. CASE PhaseOf(t) = "ordered"
    <3>1. state[t] \in {"ORDER_SUBMITTED", "ORDER_ACKNOWLEDGED"}
      BY <2>1 DEF PhaseOf
    <3>2. PhaseOf(t)' = "over"
      BY <1>1, <1>4, <3>1 DEF PhaseOf, ReasonAfter, NotTerminal
    <3>3. Phase[t] = "ordered"
      BY <2>1 DEF Phase
    <3> QED BY <1>1, <1>4, <3>2, <3>3, PhaseMoves DEF Path!Happens, Phase
  <2>2. CASE PhaseOf(t) # "ordered"
    <3>1. PhaseOf(t)' = PhaseOf(t)
      <4>1. CASE reason[t] # NotTerminal
        <5>1. reason'[t] # NotTerminal
          BY <1>1, <1>4, <4>1 DEF ReasonAfter, NotTerminal, TERMINAL_EVENTS
        <5> QED BY <4>1, <5>1 DEF PhaseOf
      <4>2. CASE reason[t] = NotTerminal
        <5>1. state[t] \notin {"ORDER_SUBMITTED", "ORDER_ACKNOWLEDGED"}
          BY <2>2, <4>2 DEF PhaseOf, NotTerminal, NoState
        <5>2. reason'[t] = reason[t]
          BY <1>1, <1>4, <5>1 DEF ReasonAfter, TERMINAL_EVENTS
        <5> QED BY <2>0, <5>2 DEF PhaseOf
      <4> QED BY <4>1, <4>2
    <3>2. Phase[t] # "ordered"
      BY <2>2 DEF Phase
    <3> QED BY <1>1, <1>4, <3>1, <3>2, PhaseMoves DEF Path!Happens, Phase
  <2> QED BY <2>1, <2>2
<1>5. CASE e.type = "TICK_RECEIVED"
  <2>1. PhaseOf(t)' = PhaseOf(t)
    BY <1>1, <1>5 DEF PhaseOf, ReasonAfter, OUT_OF_BAND_EVENTS, TERMINAL_EVENTS
  <2> QED BY <1>1, <1>5, <2>1, PhaseMoves DEF Path!Happens, Phase
<1>6. CASE e.type \in TRADE_FLOW_EVENTS
  <2>1. /\ reason[t] = NotTerminal /\ state'[t] = e.type
        /\ IF state[t] = NoState THEN e.type = "TRIGGER_DETECTED"
           ELSE e.type \in NEXT_ALLOWED(state[t])
    BY <1>1, <1>6 DEF Applies, LegalTransition, TRADE_FLOW_EVENTS, OUT_OF_BAND_EVENTS
  <2>2. CASE e.type = "RISK_GATE"
    <3>1. PhaseOf(t) = "deciding"
      BY <1>2, <2>1, <2>2
      DEF PhaseOf, NEXT_ALLOWED, UnderWay, TRADE_FLOW_EVENTS, NoState
    <3>2. PhaseOf(t)' = IF e.rejects THEN "over" ELSE "approved"
      BY <1>1, <2>1, <2>2 DEF PhaseOf, ReasonAfter, NotTerminal, TERMINAL_EVENTS, NoState
    <3>3. Phase[t] = "deciding"
      BY <3>1 DEF Phase
    <3> QED BY <1>1, <2>2, <3>2, <3>3, PhaseMoves DEF Path!Happens, Phase
  <2>3. CASE <<PhaseOf(t), e.type, PhaseOf(t)'>> \in Path!Moves
    BY <1>1, <2>3, PhaseMoves DEF Path!Happens, Phase
  <2>4. CASE <<PhaseOf(t), e.type>> \in Path!Belongs /\ PhaseOf(t)' = PhaseOf(t)
    BY <1>1, <2>4, PhaseMoves DEF Path!Happens, Phase
  <2>5. CASE e.type # "RISK_GATE"
    <3>1. reason'[t] = IF e.type = "POSITION_CLOSED" THEN "POSITION_CLOSED" ELSE NotTerminal
      BY <1>1, <1>6, <2>1, <2>5 DEF ReasonAfter, TERMINAL_EVENTS, TRADE_FLOW_EVENTS
    <3>2. \/ <<PhaseOf(t), e.type, PhaseOf(t)'>> \in Path!Moves
          \/ <<PhaseOf(t), e.type>> \in Path!Belongs /\ PhaseOf(t)' = PhaseOf(t)
      BY <1>2, <1>6, <2>1, <2>5, <3>1
      DEF PhaseOf, NEXT_ALLOWED, UnderWay, TRADE_FLOW_EVENTS, NotTerminal, NoState,
          Path!Moves, Path!Belongs
    <3> QED BY <3>2, <2>3, <2>4
  <2> QED BY <2>2, <2>5
<1> QED BY <1>0, <1>3, <1>4, <1>5, <1>6 DEF EventTypes, OUT_OF_BAND_EVENTS

\* A step of the validator keeps its invariant and is a step of the path.
LEMMA ContractStepRefines ==
  ASSUME ContractInv, ContractStep
  PROVE  ContractInv' /\ (Path!PathNext \/ UNCHANGED <<Phase, event>>)
<1>1. CASE StartStream
  <2>1. ContractInv'
    <3>1. ContractTypeOK'
      BY <1>1, ContractAssumption
      DEF StartStream, Fresh, ContractTypeOK, Reasons, NotTerminal, NoState
    <3>2. \A t \in Trades : state'[t] = NoState
      BY <1>1 DEF StartStream, Fresh
    <3> QED BY <3>1, <3>2 DEF ContractInv
  <2>2. \A u \in Trades : PhaseOf(u)' = "new"
    BY <1>1 DEF StartStream, Fresh, PhaseOf, NotTerminal, NoState
  <2> QED BY <1>1, <2>1, <2>2 DEF StartStream, Fresh, Path!PathNext, Path!Restart, Phase
<1>2. ASSUME NEW e \in Events, NextEvent(e)
      PROVE  ContractInv' /\ (Path!PathNext \/ UNCHANGED <<Phase, event>>)
  <2>0. /\ e.type \in EventTypes /\ e.trade \in Trades \cup {NoTrade}
        /\ e.rejects \in BOOLEAN /\ e.time \in 0..LastTime
    BY DEF Events
  <2>1. CASE ~Accepts(e)
    <3>1. verdict' = "invalid" /\ UNCHANGED <<state, reason, rejected, time, event>>
      BY <1>2, <2>1 DEF NextEvent
    <3> QED BY <3>1 DEF ContractInv, ContractTypeOK, Phase, PhaseOf
  <2>2. CASE Accepts(e)
    <3>1. /\ time' = e.time /\ verdict' = verdict
          /\ event' = [type |-> e.type, trade |-> e.trade, rejects |-> e.rejects]
          /\ event'.type = e.type /\ event'.trade = e.trade /\ event'.rejects = e.rejects
      BY <1>2, <2>2 DEF NextEvent
    <3>2. event' # NoEvent
      BY <2>0, <3>1
      DEF NoEvent, EventTypes, OUT_OF_BAND_EVENTS, TRADE_FLOW_EVENTS
    <3>3. CASE e.trade = NoTrade
      <4>1. UNCHANGED <<state, reason, rejected>>
        BY <1>2, <2>2, <3>3 DEF NextEvent
      <4>2. ContractInv'
        BY <2>0, <3>1, <4>1 DEF ContractInv, ContractTypeOK
      <4>3. UNCHANGED Phase
        BY <4>1 DEF Phase, PhaseOf
      <4> QED BY <3>1, <3>2, <3>3, <4>2, <4>3 DEF Path!PathNext
    <3>4. CASE e.trade # NoTrade
      <4>1. e.trade \in Trades /\ Applies(e.trade, e.type) /\ Apply(e.trade, e)
        BY <1>2, <2>0, <2>2, <3>4 DEF NextEvent, Accepts
      <4>2. Path!Happens(e.trade, e.type, e.rejects)
        BY <4>1, AppliedHappens
      <4>3. ContractTypeOK'
        BY <2>0, <3>1, <4>1, ApplyEffect DEF ContractInv, ContractTypeOK
      <4>4. ASSUME NEW u \in Trades, reason'[u] = NotTerminal
            PROVE  state'[u] \in UnderWay \cup {NoState}
        <5>1. CASE u # e.trade
          BY <4>1, <4>4, <5>1, ApplyEffect DEF ContractInv
        <5>2. CASE u = e.trade
          <6>1. ReasonAfter(u, e) = NotTerminal
            BY <4>1, <4>4, <5>2, ApplyEffect
          <6>2. e.type \notin TERMINAL_EVENTS
            BY <6>1, <2>0 DEF ReasonAfter, NotTerminal, TERMINAL_EVENTS
          <6>3. e.type \in TRADE_FLOW_EVENTS => state'[u] = e.type /\ e.type \in UnderWay
            BY <4>1, <5>2, <6>2, ApplyEffect
            DEF UnderWay, TERMINAL_EVENTS, TRADE_FLOW_EVENTS, OUT_OF_BAND_EVENTS
          <6>4. e.type \notin TRADE_FLOW_EVENTS => state'[u] = state[u] /\ reason[u] = NotTerminal
            BY <2>0, <4>1, <5>2, <6>1, <6>2, ApplyEffect
            DEF ReasonAfter, EventTypes, NotTerminal, TRADE_FLOW_EVENTS
          <6> QED BY <6>3, <6>4 DEF ContractInv
        <5> QED BY <5>1, <5>2
      <4> QED BY <3>1, <4>1, <4>2, <4>3, <4>4 DEF ContractInv, Path!PathNext
    <3> QED BY <3>3, <3>4
  <2> QED BY <2>1, <2>2
<1> QED BY <1>1, <1>2 DEF ContractStep

LEMMA StartsOnThePath == Init => ContractInv /\ Path!PathInit
BY ContractAssumption
DEF Init, ContractInit, ContractInv, ContractTypeOK, Reasons, NotTerminal, NoState,
    Path!PathInit, Phase, PhaseOf

LEMMA NextRefines ==
  ContractInv /\ [Next]_vars => ContractInv' /\ [Path!PathNext]_<<Phase, event>>
<1> SUFFICES ASSUME ContractInv, [Next]_vars
             PROVE  ContractInv' /\ [Path!PathNext]_<<Phase, event>>
  OBVIOUS
<1>1. CASE Validate
  BY <1>1, ContractStepRefines DEF Validate
<1>2. CASE UNCHANGED contractVars
  BY <1>2 DEF contractVars, ContractInv, ContractTypeOK, Phase, PhaseOf
<1> QED BY <1>1, <1>2 DEF Next, Migrate, vars

\* The tables of the schema and the variables of the validator keep their types: a
\* trade that the validator ended has one of the reasons it can report.
THEOREM TypeOKHolds == Spec => []TypeOK
<1>1. SchemaInv /\ ContractInv => TypeOK
  BY DEF SchemaInv, ContractInv, TypeOK
<1> QED BY <1>1, SchemaInvIsInvariant, StartsOnThePath, NextRefines, PTL DEF Spec

\* Every stream the validator accepts keeps the promise of TradePath for each of its
\* trades, for every set of trades.
THEOREM ImplementsTradePathHolds == Spec => ImplementsTradePath
BY StartsOnThePath, NextRefines, PTL DEF Spec, ImplementsTradePath, Path!PathSpec
=============================================================================
