----------------------------- MODULE DecisionMC -----------------------------
(* Instances of the decision chain for TLC: the PAPER_VALIDATION_V0.1      *)
(* profile and the XAUUSDc specification at 4370.00.                       *)
EXTENDS DecisionProperties

Said(word, confidence, reason, forbidden) ==
  [form |-> "object", word |-> word, confidence |-> confidence,
   reason |-> reason, forbidden |-> forbidden]

MCAnswers ==
  { Said("buy", 85, "plain", FALSE), Said("sell", 50, "plain", FALSE),
    Said("buy", 49, "plain", FALSE), Said("long", 85, "plain", FALSE),
    Said("buy", 85, "phrase", FALSE), Said("sell", 85, "plain", TRUE),
    Said("buy", NoConfidence, "plain", FALSE), Said("sell", 85, "absent", FALSE),
    [Said("buy", 85, "plain", FALSE) EXCEPT !.form = "prose"],
    [Said("buy", 85, "plain", FALSE) EXCEPT !.form = "misshapen"] }

MCStartAges == {-7, 0}

Money(usc) == usc * 10000

Account(equity, freeMargin, positions, exposure, drawdown) ==
  [numeric |-> TRUE, balance |-> equity, equity |-> equity, freeMargin |-> freeMargin,
   positions |-> positions, exposure |-> exposure, drawdown |-> drawdown]

Full == Money(10000)

Usual == Account(Full, Full, 0, 0, 0)
Rich == Account(Money(39000), Full, 0, 0, 4)

MCAccounts ==
  { Usual, Rich,
    Account(Full, Full, 1, 0, 0), Account(Full, Full, 0, Full - 400000, 0),
    Account(Full, Money(1050), 0, 0, 0), Account(Full, Full, 0, 0, 5),
    Account(Money(9990), Full, 0, 0, 0),
    Account(0, Full, 0, 0, 0),
    [Usual EXCEPT !.numeric = FALSE] }

Quote(bid, spread, timestamp) ==
  [bid |-> bid, ask |-> bid + spread, timestamp |-> timestamp]

MCMarkets ==
  { MarketOf(Quote(437000, 36, "iso")), MarketOf(Quote(437000, 46, "iso")),
    MarketOf(Quote(10, 36, "iso")), MarketOf(Quote(437000, -1, "iso")) }

XAUUSDc ==
  [contract |-> 1, pointRisk |-> 10000, volumeMin |-> 1, volumeMax |-> 100000,
   volumeStep |-> 1, stopsLevel |-> 0, marginInitial |-> 0]

MCPaperSpec == XAUUSDc

MCCoarseSpecs ==
  { [XAUUSDc EXCEPT !.volumeStep = 2, !.volumeMin = 2, !.marginInitial = Money(10)],
    [XAUUSDc EXCEPT !.stopsLevel = 60] }

MCSpecs ==
  MCCoarseSpecs \cup
  { [XAUUSDc EXCEPT !.volumeMax = 3, !.stopsLevel = 60, !.pointRisk = 100],
    [XAUUSDc EXCEPT !.volumeStep = 0] }

Scenario(direction, confidence) ==
  [direction |-> direction, confidence |-> confidence, equity |-> Full,
   freeMargin |-> NoOverride, positions |-> 0, exposure |-> 0, drawdown |-> 0,
   costs |-> [mode |-> "SPREAD_ONLY", commission |-> 0, slippage |-> 0]]

Costing(mode, commission, slippage) ==
  [mode |-> mode, commission |-> commission, slippage |-> slippage]

MCMarket == MarketOf(Quote(437000, 36, "iso"))

Case(a, m, s) == [account |-> a, market |-> m, spec |-> s]

\* One input at a time is varied.
MCCases ==
  { Case(a, MCMarket, XAUUSDc) : a \in MCAccounts }
    \cup { Case(Usual, MCMarket, s) : s \in MCSpecs }
    \cup { Case(Rich, MCMarket, s) : s \in MCCoarseSpecs }
    \cup { Case(Usual, m, XAUUSDc) : m \in MCMarkets }

MCScenarios ==
  { Scenario("BUY", 85), Scenario("SELL", 85), Scenario("NO-TRADE", 85),
    Scenario("LONG", 85), Scenario("BUY", 40),
    [Scenario("BUY", 85) EXCEPT !.freeMargin = Money(50)],
    [Scenario("SELL", 85) EXCEPT !.freeMargin = 0],
    [Scenario("BUY", 85) EXCEPT !.positions = 1],
    [Scenario("SELL", 85) EXCEPT !.drawdown = 10],
    [Scenario("BUY", 85) EXCEPT !.equity = Money(20000),
                                !.costs = Costing("SLIPPAGE_CONFIGURED", 0, 50)],
    [Scenario("SELL", 85) EXCEPT
       !.costs = Costing("COMMISSION_CONFIGURED", 40, 0)],
    [Scenario("BUY", 85) EXCEPT
       !.costs = Costing("FULL_COST_MODEL", Money(100), 50)] }

MCFirstTicks ==
  { Quote(437000, 36, "iso"), Quote(437000, 46, "iso"),
    Quote(437000, 36, "empty"), Quote(437000, 36, "garbled") }

MCLaterTicks ==
  { Quote(437000 + move, spread, "iso") :
      move \in {-120, -14, 0, 14, 37, 120}, spread \in {10, 36} }
=============================================================================
