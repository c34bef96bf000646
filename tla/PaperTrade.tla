----------------------------- MODULE PaperTrade -----------------------------
(***************************************************************************)
(* A paper scenario (paper_validation/scenario_runner.py,                  *)
(* execution_simulator.py, cost_model.py): the risk engine judges a fixed  *)
(* proposal at the first tick; an approved plan is filled there and held   *)
(* until a later tick hits the stop loss or shows a net profit, or until   *)
(* the ticks end.                                                          *)
(***************************************************************************)
EXTENDS RiskEngine

CONSTANTS Scenarios,   \* what a ScenarioConfig may say
          FirstTicks,  \* the tick the proposal is judged at
          LaterTicks,  \* the ticks a position may see
          Window,      \* bound on the number of later ticks
          PaperSpec,   \* the runner's symbol specification
          NoScenario, NoPosition, NoEvidence,
          NoOverride   \* free_margin_override is None

Ticks == [bid : Int, ask : Int, timestamp : Timestamps]

\* A cost is never a gain.
CostModels ==
  [mode : {"SPREAD_ONLY", "COMMISSION_CONFIGURED", "SLIPPAGE_CONFIGURED",
           "FULL_COST_MODEL"},
   commission : Nat, slippage : Nat]

ScenarioConfigs ==
  [direction : Directions, confidence : Int, equity : Int, freeMargin : Int \cup {NoOverride},
   positions : Int, exposure : Int, drawdown : Int, costs : CostModels]

Positions ==
  [direction : {"BUY", "SELL"}, lot : Nat, sl : Int, entry : Int, opened : Ticks,
   risk : Nat, costs : CostModels, mae : Int, mfe : Int, steps : Nat]

Evidences ==
  [reason : {"SL_STOP", "ABC_PROFIT_CLOSE", "PAPER_SESSION_END"}, price : Int,
   gross : Int, net : Int, realized : Int, mae : Int, mfe : Int, steps : Nat,
   overrun : BOOLEAN]

ASSUME PaperAssumption ==
  /\ Window \in Nat /\ PaperSpec \in SymbolSpecs
  /\ Scenarios \subseteq ScenarioConfigs /\ FirstTicks \cup LaterTicks \subseteq Ticks
  /\ NoScenario \notin ScenarioConfigs /\ NoPosition \notin Positions
  /\ NoEvidence \notin Evidences

VARIABLES stage,     \* "off", "ready", "holding", "closed"
          scenario, position, evidence,
          seen       \* the ticks the position has seen

paperVars == <<stage, scenario, position, evidence, seen>>

PaperInit ==
  /\ scenario = NoScenario /\ position = NoPosition /\ evidence = NoEvidence
  /\ seen = <<>>

-----------------------------------------------------------------------------
(* The scenario's account and proposal *)

(* Mutated form: the override is forgotten. *)
MutFreeMargin(sc) == sc.equity

\* free_margin_override or starting_equity: an override of zero is none.
FreeMargin(sc) ==
  IF sc.freeMargin \in {NoOverride, 0} THEN sc.equity ELSE sc.freeMargin

AccountOf(sc) ==
  [numeric |-> TRUE, balance |-> sc.equity, equity |-> sc.equity,
   freeMargin |-> FreeMargin(sc), positions |-> sc.positions,
   exposure |-> sc.exposure, drawdown |-> sc.drawdown]

MarketOf(tick) ==
  [numeric |-> TRUE, bid |-> tick.bid, ask |-> tick.ask,
   spread |-> tick.ask - tick.bid, timestamp |-> tick.timestamp]

Proposal(sc) ==
  [validation_ok |-> TRUE, direction |-> sc.direction, confidence |-> sc.confidence]

-----------------------------------------------------------------------------
(* Costs and the simulated position *)

Commission(p) ==
  IF p.costs.mode \in {"COMMISSION_CONFIGURED", "FULL_COST_MODEL"}
  THEN p.costs.commission * p.lot ELSE 0

Slippage(p) ==
  IF p.costs.mode \in {"SLIPPAGE_CONFIGURED", "FULL_COST_MODEL"}
  THEN p.costs.slippage * p.lot * PaperSpec.contract ELSE 0

\* holding_nights is never passed, so that the swap is zero in every mode.
Swap(p) == 0

\* The spread is in the fill prices.
Costs(p) == Commission(p) + Slippage(p) + Swap(p)

ExitPrice(p, tick) == IF p.direction = "BUY" THEN tick.bid ELSE tick.ask

GrossPnl(p, tick) ==
  (IF p.direction = "BUY" THEN ExitPrice(p, tick) - p.entry
   ELSE p.entry - ExitPrice(p, tick)) * p.lot * PaperSpec.contract

NetPnl(p, tick) == GrossPnl(p, tick) - Costs(p)

\* simulate_fill at the first tick.
Fill(sc, e, tick) ==
  [direction |-> e.direction, lot |-> e.lot, sl |-> e.sl,
   entry |-> IF e.direction = "BUY" THEN tick.ask ELSE tick.bid,
   opened |-> tick, risk |-> e.risk_amount, costs |-> sc.costs,
   mae |-> 0, mfe |-> 0, steps |-> 0]

(* Mutated form: the closing tick is not followed. *)
MutTracked(p, tick) ==
  LET g == GrossPnl(p, tick)
  IN  IF g - Costs(p) > 0 THEN [p EXCEPT !.steps = @ + 1]
      ELSE [p EXCEPT !.steps = @ + 1,
                     !.mae = IF g < @ THEN g ELSE @,
                     !.mfe = IF g > @ THEN g ELSE @]

\* The first half of check_exit: the excursions follow every tick.
Tracked(p, tick) ==
  LET g == GrossPnl(p, tick)
  IN  [p EXCEPT !.steps = @ + 1,
                !.mae = IF g < @ THEN g ELSE @,
                !.mfe = IF g > @ THEN g ELSE @]

StopHit(p, tick) ==
  \/ p.direction = "BUY" /\ tick.bid <= p.sl
  \/ p.direction = "SELL" /\ tick.ask >= p.sl

(* Mutated form: the profit exit looks at the gross result. *)
MutExitReason(p, tick) ==
  CASE StopHit(p, tick) -> "SL_STOP"
    [] ~StopHit(p, tick) /\ GrossPnl(p, tick) > 0 -> "ABC_PROFIT_CLOSE"
    [] OTHER -> "NONE"

\* The second half of check_exit.
ExitReason(p, tick) ==
  CASE StopHit(p, tick) -> "SL_STOP"
    [] ~StopHit(p, tick) /\ NetPnl(p, tick) > 0 -> "ABC_PROFIT_CLOSE"
    [] OTHER -> "NONE"

\* close, and what the runner makes of its result.
Evidence(p, tick, reason) ==
  LET net      == NetPnl(p, tick)
      realized == IF net < 0 THEN -net ELSE 0
  IN  [reason |-> reason, price |-> ExitPrice(p, tick),
       gross |-> GrossPnl(p, tick), net |-> net, realized |-> realized,
       mae |-> p.mae, mfe |-> p.mfe, steps |-> p.steps,
       overrun |-> realized > p.risk + p.risk \div 10000]

-----------------------------------------------------------------------------
(* ScenarioRunner.run *)

RunScenario(sc, tick) ==
  /\ stage = "ready"
  /\ scenario' = sc
  /\ Evaluated(Proposal(sc), AccountOf(sc), MarketOf(tick), PaperSpec, 0)
  /\ \/ /\ evaluation'.decision = "REJECT"
        /\ stage' = "closed" /\ UNCHANGED position
     \/ /\ evaluation'.decision = "APPROVE"
        /\ stage' = "holding" /\ position' = Fill(sc, evaluation', tick)
  /\ UNCHANGED <<evidence, seen>>

Tick(tick) ==
  /\ stage = "holding" /\ Len(seen) < Window
  /\ seen' = Append(seen, tick)
  /\ position' = Tracked(position, tick)
  /\ LET reason == ExitReason(position, tick)
     IN  \/ reason = "NONE" /\ UNCHANGED <<stage, evidence>>
         \/ /\ reason # "NONE" /\ stage' = "closed"
            /\ evidence' = Evidence(position', tick, reason)
  /\ UNCHANGED <<scenario, riskVars>>

(* Mutated form: a trade that has been in profit is left open. *)
MutSessionEnd ==
  /\ stage = "holding" /\ position.mfe = 0 /\ stage' = "closed"
  /\ evidence' = Evidence(position, position.opened, "PAPER_SESSION_END")
  /\ UNCHANGED <<scenario, position, seen, riskVars>>

\* The ticks end: close_tick is still the first one.
SessionEnd ==
  /\ stage = "holding" /\ stage' = "closed"
  /\ evidence' = Evidence(position, position.opened, "PAPER_SESSION_END")
  /\ UNCHANGED <<scenario, position, seen, riskVars>>

PaperStep ==
  \/ \E sc \in Scenarios, t \in FirstTicks : RunScenario(sc, t)
  \/ \E t \in LaterTicks : Tick(t)
  \/ SessionEnd
=============================================================================
