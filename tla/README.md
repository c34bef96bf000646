# Verification of the ABC bot paper trader

This directory holds TLA+ models of the parts of the repository where order, failure and
restart decide whether the program is right, the TLC configurations that check small
instances of them, and proofs that TLAPS checks for every value of the constants.
`PROJECT.json` is the index: which definition models which lines, which run checks which
property, which change of the code each property would notice, and where the code and its
own documents disagree.

    tlc -workers 2 -config ExecutionCrash.cfg ExecutionMC     # one run
    tlapm ExecutionProofs.tla                                 # the proofs of one component

## The system

The bot decides trades on XAUUSD with a language model, limits them with a risk engine, and
executes them against a simulated broker; a bridge in MetaTrader 5 exports market and trade
events to a file, which a collector follows, stores and reconciles with the broker's state.

| Part | State it keeps | Operations |
|---|---|---|
| Execution engine (`execution/engine.py`) | none between calls | `create_command`, `submit`, `close`, `reconcile`, `recover` |
| Execution journal (`execution/journal.py`) | SQLite: a row per command (state, stored result), an audit log | `create_command`, `record`, `store_result`, `active_commands` |
| State machine, retry matrix (`state_machine.py`, `retry.py`) | tables | `transition`, `classify_error` |
| Simulated broker (`execution/simulated.py`) | orders, positions, stop losses per command id | `submit`, `get_position`, `attach_sl`, `close_position`, `query` |
| MQL5 bridge (`mql5-bridge/`) | the file's handle, reopen attempts, writes since the last flush, the timer count, whether an outage is reported, the terminal's `_LastError` | `OnInit`, `OnTick`, `OnTradeTransaction`, `OnTimer`, `OnDeinit`; `AppendLine`, `Flush`, `ReopenAfterFailure` |
| JSONL reader (`adapters/reader.py`) | offset, held partial line, file identity, gap flag | `poll`, `reset` |
| Ingestion pipeline and runner (`adapters/pipeline.py`, `runner.py`) | none of its own; writes event rows and the cursor | `start`, `process_once`, `run` |
| Persistence repository (`persistence/`) | SQLite: events, cursor, derived tables, reconciliation tables | inserts with cursor or derived rows, queries, export, integrity |
| Schema and migrations (`persistence/schema.py`, `migrations.py`) | the tables, a row per applied version | `open`, `apply_migrations` |
| Projector (`persistence/projector.py`) | the derived `orders`, `positions`, `trades` ... | `apply_derived_state` |
| Classifier (`reconciliation/classifier.py`) | none | `classify` |
| Reconciliation service and runner (`reconciliation/`) | the last heartbeat | `start`, `maybe_heartbeat`, on-demand runs, `shadow_state` |
| AI decision engine (`ai_decision/`) | none between calls; the level and the attempt within one | `decide` over a fallback chain |
| Risk engine and gate (`risk_engine/`) | configuration | `evaluate`, lot calculation |
| Paper validation (`paper_validation/`) | simulated position and account | scenario runs |
| Trade lifecycle contract (`shared/contracts/lifecycle.py`, `event_model/lifecycle.py`) | per trade: state, terminal reason, last payload | `apply`, `validate_sequence` |
| Contracts and event model (the rest of `shared/`, `collector/event_model/`) | tables | validation, checksums, serialisation |

How they interact:

- A decision becomes a plan in the risk engine and a command in the execution engine. The
  engine calls the journal and the broker synchronously, one call at a time. The broker acts
  on its own as well: it fills acknowledged orders, hits stop losses, and takes requests
  whose caller has already given up.
- The bridge appends lines to a file; the reader polls the same file without any lock. The
  only things shared are the bytes, the file's identity and its size.
- Two processes, the ingestion and the reconciliation, open the same database and migrate it when
  they find it older than themselves.
  `BridgeToCollector` composes the two over one file.
- The pipeline writes one transaction per line: the event and the cursor together. A restart
  resumes at the cursor.
- The projector turns canonical events into derived rows in the transaction that appends
  them. The reconciliation service takes a snapshot from the broker, then reads the derived
  rows, then records the outcome: three steps, between which the broker and the tables move.

What is hard: a process that dies between a journal write and a broker request; a broker that
answers late, twice or not at all; a retry of something that has been done; a position left
without its stop loss; a file that is torn, rotated or removed while it is read; a transaction
that fails in the middle of a poll; a write that fails halfway, or seems to; two processes that migrate one database; a market snapshot that ages while models are asked again; events that are lost, repeated or overtake one another;
outcomes that come back.

What makes each part correct:

- *Execution*: nothing reaches the broker before it is journaled; no resend over evidence; at
  most one position per command and per trade; no call returns leaving a position unprotected
  without somebody being told; stored answers are true; the journaled state moves along the
  state machine; every call ends; every undecided command is decided in the end.
- *Bridge*: what it counts as written is in the file, a kill loses less than a buffer, each outage
  is reported once and ended once, and the file is the append-only stream the collector expects.
- *Ingestion*: the cursor stands where the reader goes on and never passes an event that is not
  stored; events are stored once and in order; the held partial line is what the file holds;
  no line blocks the stream; rotations lose nothing that stays in the file.
- *Reconciliation*: the shadow state is what the last run reported; it settles on the truth
  when things come to rest; unknown positions are adopted, vanished ones escalated.
- *AI decision*: whatever the models answer and whenever they fail, the record is valid or fails
  closed after a bounded number of calls, and says what was called. *Risk engine*: only a vetted
  answer on fresh prices becomes a plan, whose lot is the largest within the budget and leaves the
  account within its limits. *Paper validation*: a trade ends at the first tick that reaches the
  stop loss or shows a net profit, with the result of that tick.
- *Event store*: a version is recorded exactly when its tables are there, and every process gets the
  database open. *Trade lifecycle*: a valid stream takes each trade through its phases in order, and
  a trade that is over stays over.

## The plan

| Step | Modules | State |
|---|---|---|
| 1 | `CommandLifecycle`, `SimulatedBroker`, `ExecutionJournal`, `ExecutionEngine`, `OrderOnce` and their properties | done |
| 2 | `ExecutionProofs`, `ExposureProofs`: the inductive invariants, the safety properties they give, the refinement of `OrderOnce` | done |
| 3 | `BridgeStream`, `JsonlReader`, `Ingestion`, `IngestionProofs` | done |
| 4 | `TradeStream`, `DerivedState`, `Classifier`, `ReconciliationService`, `ReconciliationProofs` | done |
| 5 | `DecisionEngine`, `RiskEngine`, `PaperTrade`, `DecisionChain`, `DecisionProperties`, `DecisionProofs` | done |
| 6 | `BridgeExporter`, `BridgeProperties`, `BridgeProofs`: the bridge implements the stream of step 3 | done |
| 7 | `SchemaMigrations`, `TradeContract`, `TradePath`, `EventStore`, `EventStoreProofs` | done |
| 8 | `BridgeToCollector`, `BridgeToCollectorProofs`: bridge and collector over one file | done |

Abstract specifications: `OrderOnce` is what the execution layer promises, `BridgeStream` what the
bridge promises its reader, `TradePath` what a valid stream promises of each trade; next is one for
the ingestion (a stream delivered in order, each event at most once, that may skip), which the
model without rotation should implement.

Every safety property that a passing run checks is also a theorem; "What is proved and what is
model-checked" lists them. Of the liveness properties the safety halves are proved where there is
one: `CallsRunDown` for `CallsEnd`, `NoneIsOutOfReach` for `StreamIsIngested`, `EveryPathRunsDown` for
`EveryPathEnds`. The others (`UnknownIsResolved`, `Converges`, `MismatchesAreHandled`,
`EveryOpenerGetsThrough`) rest on fairness throughout.

## The execution layer

`ExecutionEngine` EXTENDS `SimulatedBroker` and `ExecutionJournal`, both over
`CommandLifecycle`. `ExecutionProperties` states what must hold, `ExecutionMC` gives two
commands of one trade or of two, `ExecutionProofs` and `ExposureProofs` prove.

- `CommandLifecycle` is the transition table of `state_machine.py` as a set of
  (state, event, target) triples, and the retry matrix of `retry.py`.
- `ExecutionJournal` keeps the two columns the engine reads: `state` and `result`. The audit
  log is written in the same transactions and never read, so it is not kept.
- `SimulatedBroker` keeps the book of `SimulatedExecutor`: the order, the position, whether its
  stop loss is the command's, how often a position was opened. Volumes and prices are
  abstracted. Every submit scenario is played nondeterministically; `attach_sl`,
  `close_position` and `query` may fail at any call. `MarketFills`, `MarketCloses` and
  `ClockPassesExpiry` are what the broker and the clock do on their own. `RequestLands` exists only
  under `LateLanding`: the in-process simulator never lands a timed-out request later, a real
  broker may. Runs that claim nothing about late requests set it to FALSE.
- `ExecutionEngine` has one action per durable effect of a call: `pc` names the next journal
  transaction or broker request, so a crash (`Crash`, also a journal write that raises) or a
  move of the broker falls between any two of them. `CreateCommand`, `SubmitCall`, `CloseCall`
  and `ReconcileCall` start calls; a call that only returns a stored answer or raises changes
  nothing and is a stutter. `RecordTransition` journals the target if the state machine allows
  the event and otherwise returns, as `ExecutionStateError` leaves the call.

The boundary used for `create_command` is the journal's own list of undecided commands. There
is at most one call in progress: the engine is synchronous and owns one SQLite connection.

| Run | What it shows |
|---|---|
| `ExecutionCrash` | Two commands of one trade, all scenarios, two crashes: `WriteAhead`, `NoResendOverEvidence`, `ClosedIsClosed`, `FilledIsProtected`, `LegalLifecycle`; no position escapes the close path (`NoPositionEscapes`): a finished command is flat and a trade has at most one open position; while no call was cut short, an unprotected fill is reported and the stored result is current (`JournalIsCurrent`); the whole implements `OrderOnce` (`KeepsPromise`). |
| `ExecutionLate` | Two trades, an invalid command, late requests, a crash, a caller that keeps reconciling: at most one position per command, at most one entry in doubt, every effect of a call brings it nearer to its end (`CallsRunDown`), every call ends (`CallsEnd`), every UNKNOWN command with a broker order is resolved. |
| `UnprotectedPartial` (violation) | A partial fill whose stop loss is missing raises before the first attach: an open position without a stop loss that `recover()` calls NONE. |
| `SubmittedRefused` (violation) | `recover()` tells the caller to reconcile a command that a crash left SUBMITTED, and `reconcile()` raises for it (`ReportedIsReconcilable`). |

Where a property makes an exception, the code breaks the property there:

- `NoPositionEscapes` leaves out commands filled in part. Such an order
  is left CANCELED and `_order_to_command_state` (`simulated.py:420`) reports it as REJECTED, so
  after a close that exhausted its retries `reconcile()` makes the command terminal while its
  position is open, although the broker is meant to be the source of truth
  (`execution-final-readiness.md:456`).
- `JournalIsCurrent` speaks of executions without a crash. A process that dies between
  a fill and its stop loss leaves a position that `recover()` calls NONE; the readiness document
  (:272-273) gives RECONCILE for those states.
- `UnknownIsResolved` asks for a broker order. Without one `reconcile()` leaves the command UNKNOWN
  however often it is called, where the document (:337) says it is safe to retry.
- `UnknownIsResolved` does not speak of SUBMITTED. After a crash behind the write-ahead record, or when
  the order is still pending at a reconciliation, `recover()` answers RECONCILE (`engine.py:597`), but `reconcile()` raises
  (`engine.py:472`) and `submit()` answers UNKNOWN without acting. Of the calls only `close()`
  accepts such a command (`engine.py:422` refuses UNKNOWN alone): a close that succeeds is an event the
  table does not know in SUBMITTED, one that exhausts its retries makes the command UNKNOWN, which
  `reconcile()` then takes. Until then it keeps the entry gate shut.
- Nothing says a command keeps the outcome of its first submission. With late requests a resend
  may be refused as DUPLICATE_COMMAND, and `submit()` makes that REJECTED without classifying it,
  where `retry.py:13` means to replay the stored outcome. `NoPositionEscapes` is therefore checked with
  `LateLanding = FALSE`.

Bounds. Two commands are enough for the interactions of the gate, of the trade slot and of the
idempotent answers, which relate pairs. Budgets of two (one in the violation runs) give every loop a first and a last attempt. Two crashes include a crash during the call that follows a crash.
`tries` is bounded by the budgets, `openings` by the broker's refusal of duplicates; neither is
capped by the model.

Fairness. `CallsEnd` assumes that a call in progress runs (`WF(EngineStep)`): the engine is a
plain function. `RecoverySpec` adds a caller that gets to reconcile again and again, as
`recover()` tells it to, and a broker that is not unreachable at every query (strong fairness of
`ReconcileCall` and of its conclusive form). The violations are of invariants and need no fairness.

What is proved (`ExecutionProofs`), for every set of commands and trades, all budgets, every crash
bound, every set of scenarios, with and without late requests:

`InductiveHolds`, and from it `TypeCorrect`, `WriteAheadHolds`, `AtMostOnePositionHolds`,
`ClosedIsClosedHolds`, `FilledIsProtectedHolds`, `OneEntryInDoubtHolds`, `LegalLifecycleHolds`.

`CallsRunDownHolds` needs none of that. `EffectsLeft` bounds the effects a call has left at each place
of the code by what is left of the budget of the loop it is in and the whole budgets of the loops that
may follow; `WithinBudget` says that a loop's count stays within its budget, and every effect then lowers
`EffectsLeft` to a smaller natural number. What remains of `CallsEnd` is the fairness alone: a call
in progress takes its next effect.

The properties are not inductive one by one. `Inductive` joins the type invariant with `BookInv`
(the broker's book is consistent: a position exists exactly when an order was filled, and only
one was ever opened), `JournalInv` (the journal claims no more than the book), `CallInv` (what
the call in progress carries in `answer` to its next effect is still true there) and
`OneEntryInDoubt`. `CallInv` is the heart: a broker's answer is used one or more effects after
it was given, and the market and the clock move in between; the invariant says which part of an
answer cannot become false (a position that was opened stays opened, a closed one stays
closed). Each action of the engine has a lemma of its own; `FillIsSound`, `MarketIsSound` and
the other broker lemmas are stated once. The assumptions used are `BrokerAssumption` and
`EngineAssumption`: the constants are typed and `NoCommand` is not a command.

What is proved in `ExposureProofs` holds where `LateLanding = FALSE`, for the same constants
otherwise: `NoResendOverEvidenceHolds`, `NoPositionEscapesHolds`, `JournalIsCurrentHolds`, and the
refinement `KeepsPromiseHolds`. The hypothesis is the one the runs of these properties have: the
in-process simulator never lands a request its caller gave up on, and with late requests the
properties are false of the code. `PromptInductive` adds to `Inductive`

- `ExposureInv`: an order that may still fill, and a whole fill that is open, belong to a command
  the journal has not given up, and a trade has one such command;
- `Knows`: what the call in progress may conclude about its own order from where it is and from the
  answer it carries, for instance that the broker has no order when it sends;
- `CurrentInv`, while nothing crashed: the journal tells the truth about every command but the
  one in progress, and about that one up to the effect that makes it untrue for a while.

The refinement maps creating a command to `Accept`, journaling SUBMITTED to `Commit`, a request that
reaches the broker to `Place` and a terminal record to `Finish`; every other effect is a stutter.
`PromptInductive` gives the guards of the abstract steps: no second unfinished command of a trade at
`Accept`, a committed intent and no order yet at `Place`.

Only model-checked: the liveness properties `CallsEnd` (but for its safety half, above) and
`UnknownIsResolved`.

## The bridge

`BridgeExporter` is the program that runs in the terminal: its event handlers, the exporter they
write with, and the terminal's calls that may fail. `BridgeProperties` states what must hold,
`BridgeMC` and `Bridge.cfg` give the instance, and `BridgeProofs` proves.

| In the code | In the model |
|---|---|
| `OnInit`, `OnTick`, `OnTradeTransaction`, `OnTimer`, `OnDeinit` | actions of the same names: which lines the handler writes, and whether it flushes, put into `pending` |
| `EmitLine`, `AppendLine` | `AppendLine`, with `CountWrite` or `CountError` |
| `ReopenAfterFailure`, `OpenAppend`, `EnsureDirectory` | `Reopen`, `ReopenAgain`, `OpenAppend`, `OpenAppendFails`, `MoveAway` |
| `Flush`, `Close` | `Flush`, `Close` |
| the file | `disk` (what was written) and `shown` (what of it a reader can see); `Spill` shows one cell more, `Kill` loses the rest |

The terminal runs one handler at a time and no handler is interrupted by another, so a handler
starts only when `pending` is empty. Its lines and flushes are steps of their own, because between
them the operating system may show cells, and the terminal may be killed. What a line says is left
out. `_LastError` is a variable: MQL5 never clears it by itself and the bridge never resets it.

The run `Bridge` checks:

- `ImplementsStream`: what a reader sees of the file is a behaviour of `BridgeStream`, the module the
  ingestion is checked with. So the assumptions of the ingestion about its input are what the bridge
  really does: lines in the order they were emitted, torn only at the end or where a write failed
  or the terminal was killed, nothing overwritten, nothing shortened but by a rotation.
- `WrittenIsReadable`: every line counted as written can be read, but for one after each line that broke
  off, which it is glued to.
- `UnflushedIsBounded`: a killed terminal loses less than `InpFlushLines` lines.
- `EpisodesAreReported`: an outage of a heartbeat period has been reported, and a reported one is not
  over.

What the model shows of the code beside its properties:

- After a write that failed the handle stays open, so `IsOpen()` is true and the bounded reopen is never
  tried, and the heartbeat's exporter status stays good, where `mql5-bridge/docs/architecture.md:145`
  says bounded reopen and degraded status. Reopening happens only if the file could not be opened
  in `OnInit`.
- `AppendLine` asks `GetLastError()` after its write and nobody ever calls `ResetLastError()`. Once any
  call of a handler has failed, every later line is written and counted as an error, and the line count
  that triggers a flush stands still: only heartbeats flush. `UnflushedIsBounded` therefore needs
  `~lastError`, and `WrittenIsReadable` bounds what is counted from one side only.
- After `InpMaxReopenAttempts` failing reopens the exporter gives up until the program is loaded again;
  a corrupt file is renamed once per load.
- Outages that begin and end between two heartbeats are not reported, and a reported one whose
  TIMEOUT line could not be written counts as reported; architecture.md:147 says one per episode.
- An unavailable symbol has no ERROR line (architecture.md:146).

Bounds. Four lines of one cell and a newline: a line before and after a broken one, and a full buffer
of two. Two failing file operations include the failure of the second opening after a rename. The
periods are 2, 1 and 2 timer events, so that heartbeat and snapshot fall together and fall apart
from the updates. The file goes away once, by the rename of the code or by hand while it is closed. There is no
fairness: all properties are about safety.

What is proved (`BridgeProofs`), for every width of a line, every period, limit and number of
lines, faults and rotations: all properties of the run.

- `ImplementsStreamHolds`. The invariant `StreamInv` describes the whole file, the cells no reader
  can see yet included: each line is in one piece and the lines come in the order of their numbers
  (`Pieces`); a newline that is not yet seen is followed by the next number, because only what was
  not seen is lost; a closed file has been shown to its end. Showing one more cell is then a
  `FlushPart`, a `FlushLine` or, where the line goes no further, a `BreakOff` (`CellIsPart`,
  `NewlineIsLine`); appending changes nothing a reader sees.
- `WrittenIsReadableHolds`: `WrittenInv` counts a file that ends inside a line as one line owed, which
  the next one appended pays for.
- `UnflushedIsBoundedHolds`: a flush is on its way, or no more lines are unflushed than `sinceFlush`
  says.
- `EpisodesAreReportedHolds`: an outage that is not reported is not older than the last heartbeat.
- `TypeOKHolds`, whose invariant adds what a handler may have left to do (`Fits`).

They rest on `ExporterAssumption`. `BridgeToCollectorProofs` carries the theorems about the ingestion over
to the file the bridge writes.

## The ingestion

`Ingestion` EXTENDS `JsonlReader`, which EXTENDS `BridgeStream`; `IngestionProperties` states
what must hold, `IngestionMC` gives the instances and `IngestionProofs` proves.

- `BridgeStream` is the file as the collector can see it: cells, a line of `Width` cells and a
  newline cell. A flush may show part of a line (`TornFlushes`), and a line may break off for good
  (`Breaks`). The file may be replaced, or removed and created again with or without the inode
  number of the old one.
- `JsonlReader` is `poll()` in two steps, because the code makes two system calls on the path:
  `Stat` decides about rotation, `Read` opens and reads. `Frames` is the code's framing:
  `split` when the buffer ends in a newline (the k-th line ends at the k-th newline),
  `rsplit(b"\n", 1)` otherwise.
- `Ingestion` is the pipeline and its runner: `Start`, `PollStat`, `PollRead`, `ResetCursor`,
  `HandleLine`, `EndPoll`, `Crash`. A transaction fails in two ways, because the code has two
  exception paths: at BEGIN the runner retries, at a statement or COMMIT the process ends.
  `events` holds line numbers and not ids: each handling of a line makes a fresh `event_id`, so
  the insert never meets a duplicate. `forgotten` and `unseen` are history: they record what the two
  findings excuse and decide nothing.

| Run | What it shows |
|---|---|
| `Ingestion` | Torn and broken lines, two rotations of both kinds, a failed transaction and two restarts. While the file is the same, events are stored once and in order (`InOrderOnce`), the held piece is the file's (`HeldIsFile`), and no event is passed but by the two ways of the findings (`NothingElseSkipped`). Unless a transaction failed, no line in memory lies before the cursor and the cursor is where the reader goes on (`CursorKeepsPace`), across rotations too. Every event line that stays in the file is stored (`StreamIsIngested`). |
| `MergedLines` (violation) | A poll that ends inside a line hands all complete lines before it over as one malformed line; their events are lost. |

Where a property makes an exception, the code breaks the property there:

- `NothingElseSkipped` and `StreamIsIngested` excuse the lines in `forgotten`: those handed over as part
  of another one, and those a failed transaction dropped. A line that broke off takes the next one
  with it, since the exporter appends to it.
- `InOrderOnce` speaks of one file. A file replaced between the stat and the open (`reader.py:139`)
  is read with the old identity and again from its start when the next poll sees the new inode,
  and each reading stores its events under fresh ids.
- `CursorKeepsPace` needs `failures = 0`. When the transaction that resets the cursor after a rotation
  fails, the reader has already adopted the new file and the reset is not tried again
  (`pipeline.py:132`).
- `StreamIsIngested` excludes a rotation together with a restart: the identity of the file is not
  persisted, so a file replaced while the process was down is followed from the old offset unless
  it is shorter. It also excludes a file that was removed and created again between two polls
  (`unseen`): a file system that reuses the inode number defeats every check the reader makes.
- A failing statement or COMMIT is re-raised as `sqlite3.DatabaseError` (`repository.py:199`), which no
  handler of the runner catches, so `run()` ends where `errors.py:14` promises a retry. `Fail` has
  that outcome, and `StreamIsIngested` relies on the process being started again.

Bounds. Lines of two cells have an inside, so a line can be torn at each cell. Three lines, of which
the second carries no event: one on each side of a tear, a rotation or a failure. Two rotations
include the removal of a recreated file.

Fairness. Weak fairness of the collector's steps: the runner polls in an endless loop, and an
operator or supervisor starts it again after it stopped. The bridge has no fairness. Handling a line
is assumed to raise nothing but the errors the pipeline names: a number JSON can write and Python
cannot convert would end the process at the same line each time; the bridge writes none.

What is proved (`IngestionProofs`), for every width of a line, every number of lines, rotations of
either kind, failures and crashes, with and without torn flushes and broken lines: all safety
properties of the run. Each invariant is used by the next:

- `HeldInv` for `HeldIsFileHolds`: as long as the file is the same, the cursor, the lines handed over,
  the offset and the held cells lie in it one after the other (`SameFile`). It needs that appending
  leaves what was there (`SameFileGrows`) and that framing hands the buffer over from end to end.
- `PaceInv` for `CursorKeepsPaceHolds`: unless a transaction failed, the lines still to be handled
  lead without a gap from the cursor to the offset.
- `OrderInv` for `InOrderOnceHolds`: a line number does not come again after a newline that
  follows it (`FileInOrder`), the lines handed over are cells of the file (`LinesOfFile`), and events
  come from lines that end before the cursor.
- `SkipInv` for `NothingElseSkippedHolds`: a whole event line before the cursor is inserted or
  forgotten; one before the offset is inserted, forgotten or still to be handled.
- `NoneIsOutOfReach`, the safety half of `StreamIsIngested`, from the same invariant: in one file an event
  that is neither inserted nor excused is always in memory, or at or after the place where the reader or
  the next start goes on, since that place never lies inside a line (`NotInsideALine`).
- `WholeLines` for `NothingSkippedHolds`: where every flush ends with a line and every transaction
  commits, the reader never holds a piece back, no line is framed with another and none is dropped, so
  the cursor moves past no event that was not inserted. That is what `repository.py` claims of it. The
  hypotheses exclude just the two ways in which the code loses events: `MergedLines` drops the first;
  with `TornFlushes = FALSE` and `MaxFailures = 1` in its cfg TLC finds the second, where the running
  reader does not read the lines of a failed transaction again (`pipeline.py:225`, although
  `pipeline.py:19` counts on the runner to retry them), and a later line moves the cursor past them.
- `TypeOKHolds`.

Framing is the part with the most lemmas: the k-th newline of a buffer exists and grows with k
(`RanksGrow`, `RanksAreTaken`), so the lines of `EveryLine` touch and cover the buffer. They rest on
`StreamAssumption` and `IngestionAssumption`, which type the constants. `StreamIsIngested` is
a liveness property and only model-checked.

## Bridge and collector together

`BridgeToCollector` puts the exporter of `BridgeExporter` in the place of the abstract stream: it EXTENDS
`BridgeProperties` and takes the collector as an INSTANCE of `IngestionProperties` whose `file` is what a
reader sees of the exporter's file. A step is one of the bridge, the terminal or the operating system
(`BridgeMoves`) or one of the collector (`CollectorMoves`); the two share the file and nothing else.

| Run | What it shows |
|---|---|
| `WrittenToStored` | `WrittenIsStored`: what the bridge's health counts as written since it was loaded is in the event table once the collector has caught up. Excused are the lines in `forgotten` and one line after each that was left unfinished. `ImplementsIngestion`: each step is a step of `Ingestion` over the abstract stream, or nothing the collector can see. A write and a transaction fail, the collector crashes, the file is removed, the terminal is killed any number of times. |

The bounds are smaller than those of the parts, for the size of the product: two lines of one cell and
periods of one timer event. Longer streams, torn lines and periods are covered by the runs `Ingestion`
and `Bridge`, and by the proofs, which hold for all bounds.

What is proved (`BridgeToCollectorProofs`), for all constants: `ImplementsIngestionHolds` composes the
refinement of the stream (`NextRefinesStream`) with the steps of the collector. `CollectorHolds` then
carries `HeldIsFile`, `InOrderOnce`, `CursorKeepsPace` and `NothingElseSkipped` over: `IngestionProofs` is
instantiated with the exporter's file (`Proved`), its assumptions follow from those on the bridge
(`ConstantsFit`), and the lemmas `Same...` show that the instance is the collector of the module.
`WrittenIsStoredHolds` needs both programs: a line that is counted can be read (`WrittenIsReadable`,
of the bridge), a line that can be read before the cursor was read past (`ReadableIsReadPast`), and one that
was read past is accounted for (`NothingElseSkipped`, of the collector). The theorem speaks of a file that
was not rotated, as its two parts do.

## The event store

`EventStore` composes `SchemaMigrations`, how processes open and migrate the database, with
`TradeContract`, the lifecycle rules of the events it keeps. `EventStoreProperties` states what must
hold, `EventStoreMC` gives the instance, `EventStoreProofs` proves.

- `SchemaMigrations` is `open()` with `apply_migrations()` per process: the versions are read
  outside any transaction (`ReadVersions`), then each missing one is applied in its own
  BEGIN IMMEDIATE .. COMMIT (`Begin`, `Statements`, `Record`). The lock is SQLite's: a second
  writer waits no longer than `busy_timeout` and then fails. Any statement may fail (`Fail`) and the
  process may die (`Crash`). Of a table only the version that creates it counts.
- `TradeContract` is `TradeLifecycle.apply` with its special rules, and `validate_sequence` event by
  event over streams of any events, of any trade or none (`Accepts`, `NextEvent`).
- `TradePath` is the abstract promise: the phases of a trade, and which event moves it on.

Nothing in the repository but its tests calls `validate_sequence`; the model lets whoever has the
database open do it. The two halves share no state otherwise.

The run `EventStore` checks `SchemaIsWhole` (a version is recorded exactly when its tables are
there, versions come in order, an open database has them all), `EveryOpenerGetsThrough` (a process
whose migration another one has just applied fails once on the primary key, and gets through when it
is started again), and `ImplementsTradePath`: every accepted stream keeps the promise of `TradePath`.

What the model shows of the contract, against `docs/contracts/canonical-event-contract.md`:

- A reconciliation ends a trade whose order is submitted or acknowledged, also one that found
  everything in order (SYNCED): `_apply_special_rules` does not look at the result.
- POSITION_UPDATED cannot be followed by POSITION_CLOSED without an EXIT_SUBMITTED, which the
  document's position lifecycle (:447-451) does not have; so a position closed by its stop loss has no
  valid stream. Nor has an order with two fills.
- An ERROR or TIMEOUT of a trade with an open position ends the trade, and its POSITION_CLOSED is
  rejected. A late one of a closed trade replaces its state and its terminal reason.
- `query_events` orders the audit stream by wall-clock milliseconds and random ids. A stream that was
  valid as it was written need not be valid as it is read.

Bounds. The three migrations of the code, two processes, one failure and one crash: enough for one to
be overtaken at each migration. One trade, since trades share nothing but the clock and the verdict
(the proof is for any set of them), and two values of it.

Fairness. Weak fairness of each process's own steps: SQLite gives every statement an answer, and a
process is started again after an opening that failed.

What is proved (`EventStoreProofs`), for any number of processes, migrations, failures, crashes
and trades:

- `SchemaIsWholeHolds`. The invariant `SchemaInv` adds to the property what each process knows at
  each step (`OpenerInv`): what it has seen as applied is applied, and who holds the lock
  has executed the statements of its next version and nothing else.
- `ImplementsTradePathHolds`, a refinement. Its invariant `ContractInv` says that a trade without a
  terminal reason is in a state with a way on, so that no event can find it after POSITION_CLOSED;
  then each accepted event maps to a step of its trade's phase (`AppliedHappens`), and other trades
  stay where they are (`PhaseMoves`).

- `TypeOKHolds`, from both invariants.

They rest on `MigrationsAssumption` and `ContractAssumption`, which type the constants.
`EveryOpenerGetsThrough` is a liveness property and only model-checked.

## The reconciliation

`ReconciliationService` EXTENDS `DerivedState` (over `TradeStream`) and `Classifier`;
`ReconciliationProperties` states what must hold, `ReconciliationMC` gives the triggers and
`ReconciliationProofs` proves.

- `TradeStream` is not code of the repository: the trades at the broker and the canonical events
  that tell of them. Events may be lost, repeated or overtaken. A partial close and a cancelled order
  send no event the projector handles. `MaxFaults` bounds these faults and those of the service
  together.
- `DerivedState` is the projection of an event into the `orders` and `positions` rows, and the
  two queries the reconciliation makes. A duplicate event is projected again, as in the code. Its
  entry point `insert_event_with_derived` (`repository.py:304`) is called by tests only: the ingestion
  pipeline stores events without projecting them.
- `Classifier` is `classify` as operators on two views. Direction, volume and price are one value,
  the terms; a projected order has none, and agrees with anything.
- `ReconciliationService` is a run in three steps: `Begin` takes the snapshot (`Unavailable` when
  there is none), `Compare` reads the tables and the latest row in one step (the code makes three
  SELECTs, `reconciler.py:119-124`, which a projection could fall between) and skips an unchanged outcome,
  `Save` is the transaction. `Fail` and `Crash` come in between. A row is its signature; the
  reconciliation id is the hash of it. The latest row is the one with the greatest `run_ts`; when
  the wall clock steps back a new row is not the latest (`InsertRun`).

| Run | What it shows |
|---|---|
| `Reconciliation` | One fault of any kind at any point: an event lost, repeated or overtaken, an outage, a failed transaction, a crash, a clock that steps back. The shadow state is the last reported result as long as no outcome came back and the clock moved on (`ShadowIsLatestInOrder`); once every event arrived, tables and broker agree (`SettledIsSynced`); the shadow state converges (`Converges`); unknown positions are adopted, vanished ones escalated (`MismatchesAreHandled`). |
| `ShadowStale` (violation) | An outcome that comes back has the id of its old row, which is not written again: the shadow state stays on the outcome in between. |

Where a property makes an exception, the code breaks the property there:

- `ShadowIsLatestInOrder` and `Converges` need that no outcome was recorded twice and that the clock did
  not step back (`disorder`). The check for an unchanged outcome (`reconciler.py:127`) looks at the
  latest row, whatever its trigger, so two triggers that alternate record the same outcomes again
  and again, each time as a new RECONCILIATION event with an id the contract calls its idempotency
  key (`canonical-event-contract.md:471`). `MismatchesAreHandled` holds in spite of both.
- `SettledIsSynced` needs that there was no fault. No property says that a closed position stays
  closed: POSITION_OPENED sets its row to OPEN whatever it holds (`projector.py:102`), so that one which
  arrives after POSITION_CLOSED, or again, reopens the position, against
  `canonical-event-contract.md:561` and 565; and an ORDER_ACKNOWLEDGED that was overtaken makes a filled
  order pending (`projector.py:55`). `MismatchesAreHandled` is what remains for positions: the next runs
  report it.
- No property says what a vanished local order may be excused by. The comment at
  `classifier.py:263` names a broker position, the code at :268 accepts any broker orphan, a
  pending order of another trade included; `ForcesEscalation` is the code's.

Bounds. One trade goes through all its states, and the order and the position rows of a trade are
independent of those of others; only the classifier looks at several, and about it there are
proofs for all views. One fault, in every place and of every kind: the product with a second one is
beyond TLC in reasonable time, and the safety proofs have no bound.

Fairness. `RunnerGoesOn`: heartbeats come again and again, a run ends, and the collector is started
again after it stopped; some step of the service that moves `pc` is always enabled, so it takes
infinitely many. Weak fairness of the projection: events that are not lost arrive. The broker has no
fairness.

What is proved (`ReconciliationProofs`): `SyncedIsAgreement` (for all views, SYNCED means that
both sides know the same ids with agreeing terms), `LocalPositionIsNeverExcused` (a local position the broker
lacks, or has with other terms, is escalated whatever else is there) and
`ShadowIsLatestInOrderHolds`, for every set of trades and triggers and any number of
faults. Its invariant `ShadowInv` adds what a run carries between its steps: the row to save is
one the table can hold, and so never `NoRun`, which takes the typing of the snapshot.
`TypeOKHolds` gives the types. `SettledIsSyncedHolds` is about the feed and the tables: as long as
there was no fault, the feed holds of every trade exactly the events sent and not yet projected, in
their order (`TradeInv`, over the ranks of the four events), so an empty feed means that the tables
have caught up with the broker. The assumptions are `ServiceAssumption` and
`StreamAssumption`, which type the constants. The liveness properties
`Converges` and `MismatchesAreHandled` are only model-checked.

## The decision chain

`DecisionChain` composes `DecisionEngine` with `PaperTrade`, which EXTENDS `RiskEngine`;
`DecisionProperties` states what must hold, and `DecisionMC` gives the answers, accounts, symbols
and ticks. There are two ways to an approved plan, and a behaviour takes one of them:

- live: `decide()` asks the models of the chain, and the gate evaluates the record on the snapshot
  the models saw, as `tests/integration/test_ai_to_risk_gate.py` composes them. The clock that
  matters is `age`, the seconds since that snapshot: every call and every sleep adds to it.
- paper: `ScenarioRunner.run` evaluates a fixed proposal at the first tick, fills it there and
  follows the later ticks.

| In the code | In the model |
|---|---|
| `decide` | `RejectContext`, `Infer`, then `Answered` or `Failed` once per call; `DecisionRaises` when an exception leaves it |
| parsing, normalisation, schema | `Parses`, `ParserRaises`, `Direction`, `SchemaError` over what an answer can be told apart by |
| `DecisionRecord` | `RecordOf`, `FailClosed` |
| `validate_all_inputs`, `calculate_trade_plan`, the rest of `evaluate` | `InputChecks`, `PlanChecks`, `LimitChecks`, in the order of the code; the first that applies gives the reason |
| `SystemRiskGate` | `Gate`, over `Evaluated` |
| `run`, `check_exit`, `close` | `RunScenario`, `Tick` (`Tracked`, `ExitReason`), `SessionEnd` |

Units. Prices and distances are whole points, lots are hundredths, and money is in 0.0001 USC, the
fourth decimal the code rounds to. Capital is a multiple of 1000 units, so that the shares of it
are exact; floating-point error is outside the model. Properties that compare with amounts the
code rounds to cents allow half a cent.

The run `DecisionChain` checks, under the `PAPER_VALIDATION_V0.1` profile:

- `CallsFollowTheChain`: at most `max_attempts` calls per level, a second one only after a failure
  that is safe to retry, no level given up early or skipped, no call after an answer, and a record
  that tells which call it came from.
- `OnlyVettedAnswersTrade`: an approved plan rests on an answer that itself said buy or sell, with
  confidence and reason, and nothing it had no authority over; and on fresh prices: no plan is
  approved after a call that timed out. That relates three settings of two components: the timeout
  (60 s), the freshness limit (10 s) and the tolerance for clocks (5 s).
- `ApprovedLotIsLargest`, `ApprovalFitsTheAccount`: the lot against the budget and the volume grid
  from the approved stop loss back, and the limits with the approved trade open.
- `EvidenceMatchesHistory`: the evidence of a paper trade against all ticks it has seen: exit, result
  (`ExitMatchesHistory`), excursions (`ExcursionsEncloseResult`) and steps.
- `EveryPathEnds`: every decision reaches its verdict, or the exception `decide()` lets through, and every
  scenario its end.

Bounds. Two attempts at each of the three levels are the code's own. A call fails as one of a
timeout, a server error, a rate limit or a refusal, which are the classes the loop tells apart (a
broken connection is retried like a server error). The snapshot is fresh, or seven seconds in
the future, when `decide` starts. One input of the gate at a time is varied around an approved
case, so that every reason code the profile allows is given, with the confidence and the budget
exactly at their limits. A position sees up to three later ticks (`Window`), enough for a tick that is passed
over, one that moves an excursion, and one that ends the trade. Every path ends, so deadlock is
not checked; `EveryPathEnds` is instead.

Fairness. Weak fairness of the next step: a silent server runs into the timeout, an answer is
finite, and the ticks of a scenario are a list.

Where a property makes an exception, or says less than a reader may expect:

- `EveryPathEnds` admits an exception as the end of a decision (`pc = "raised"`). `parse_and_normalize` is
  meant to return a fail-closed output in every case (`parsing.py:6`, `:194`), but it raises on a choice
  that is no object (`:208`), on an SSE chunk or delta that is none (`:88-94`) and on an integer no
  float can hold (`:137` catches no OverflowError), and `decide()` does not guard the call
  (`engine.py:133`). The body of an HTTP error is read inside its handler (`client.py:56`), where the other
  handlers of that `try` catch nothing, though the comment at `:63` says the transport never crashes
  the engine. `MCAnswers` has such an answer, and every HTTP status may raise. There is then no record, no retry and no fallback;
  what catches the exception is the caller's.
- `MaxAttempts` is at least 1. `ABC_AI_MAX_ATTEMPTS` is not checked (`config.py:84`); with 0 the code would
  ask no model and report an exhausted chain.
- `RecordTellsTheCalls` covers records of answers only. The record of an exhausted chain always
  says `attempts = max_attempts` and `retried = True` (`engine.py:238`), even if every model was
  called once.
- `ApprovalFitsTheAccount` leaves out an override of zero: `free_margin_override or
  starting_equity` (`scenario_runner.py:54`) takes it for none, so that a scenario without free
  margin trades.
- `ExcursionsEncloseResult` leaves out the end of a session: `close_tick` is still the first tick
  (`scenario_runner.py:206`), so the result is that of the entry whatever came after.
- The risk amount is in tick values per point divided by `tick_size` once more
  (`calculators.py:159`, `tick_size` 0.01), about a hundred times what the simulated position can
  lose at its stop loss; the overrun flag of a paper trade compares the two. No property relates
  them.
- `holding_nights` is never passed (`execution_simulator.py:124`), so that no cost model charges a
  swap.
- `RISK_LIMIT`, the check of the stop distance against the observed spread (the configuration is
  rejected first), the runner's own NO-TRADE branch and `loss_per_lot_non_positive` cannot be
  reached; `UNKNOWN_RISK_INPUT` needs another profile.

What is proved (`DecisionProofs`): all safety properties of the run, for every number
of attempts, every set of ways a call may fail, of answers and latencies, with or without
exceptions, and for every account,
market, symbol specification, limit of the configuration and run of prices.

- `CallsFollowTheChainHolds`: `DueInv` says that the call that is due would continue the calls made:
  the level it asks is that of the last `attempt` calls and of no other.
- `ApprovedLotIsLargestHolds` and `ApprovalFitsTheAccountHolds`: `JudgedInv` says that a judgement is
  that of `Evaluate` on the inputs kept with it, by the gate or by a scenario. The rest is arithmetic
  over what an approved proposal has passed (`Passed`, `ApprovedHasPassed`): rounding down to
  the volume grid (`RoundedDown`) and rounding to cents (`CentsAreNear`).
- `OnlyVettedAnswersTradeHolds`: `SaidInv` ties the record to what the model said, `AgeInv` the age of
  the snapshot to the timeouts. Its hypothesis is that one timeout outlasts the staleness limit from
  the freshest start, `start + TimeoutS > MaxStale`: 60 s (`ai_decision/config.py`) against 10 s.
  Without it the property is false; nothing in the code compares the two settings.
- `EvidenceMatchesHistoryHolds`: `FilledInv` says that the position is the approved plan filled at the
  tick it was judged at, `HeldInv` that no tick seen so far had to end it.
- `EveryPathRunsDownHolds`, the safety half of `EveryPathEnds`: the steps a decision (`AskingLeft`) and a
  scenario (`TradingLeft`) still can take are a natural number that every step lowers.
- `TypeOKHolds`.

They rest on `DecisionAssumption`, `RiskAssumption`, `PaperAssumption` and `CasesAssumption`. These
type the constants and say that a cost is never a gain (`CostModels`): the code takes a negative commission or slippage
without a word, but its configurations and tests have none, and with a rebate a session that
ends need not leave a loss. `EveryPathEnds` itself is a liveness property and only model-checked.


## Not modelled

- Payload specifications, the validation of an envelope's fields, checksums and serialisation
  (`payload_specs.py`, `validation.py`, `envelope.py`, ...): tables and pure checks of one value, where a
  model would repeat the table.
- `normalize.py` but for its verdict: a line carries an event to store or it does not.
- Export and integrity checks: they read one query and write a file or a report.
- Replay: the loop of the ingestion pipeline over a recorded file.
- Settings, scripts, fixtures and the benchmark of the models; the metrics and the random tick
  generator of the paper validation.
- The derived tables `trades`, `market_snapshots`, `invalid_trades` and `reconciliation_events`:
  written like the modelled ones and read by nothing that is modelled.

## What is proved and what is model-checked

| Component | Theorems about properties of the runs | Only model-checked |
|---|---|---|
| Execution | `TypeOK`, `WriteAhead`, `AtMostOnePosition`, `ClosedIsClosed`, `FilledIsProtected`, `OneEntryInDoubt`, `LegalLifecycle`, `CallsRunDown`; without late requests `NoResendOverEvidence`, `NoPositionEscapes`, `JournalIsCurrent`, `KeepsPromise` | `CallsEnd`, `UnknownIsResolved` |
| Bridge | `WrittenIsReadable`, `UnflushedIsBounded`, `EpisodesAreReported`, `ImplementsStream` | |
| Ingestion | `TypeOK`, `HeldIsFile`, `CursorKeepsPace`, `InOrderOnce`, `NothingElseSkipped`; with whole lines and no failed transaction `NothingSkipped` | `StreamIsIngested` |
| Bridge and collector | `ImplementsIngestion`, `WrittenIsStored` | |
| Event store | `SchemaIsWhole`, `ImplementsTradePath` | `EveryOpenerGetsThrough` |
| Reconciliation | `TypeOK`, `ShadowIsLatestInOrder`, `SettledIsSynced` | `Converges`, `MismatchesAreHandled` |
| Decision chain | `CallsFollowTheChain`, `ApprovedLotIsLargest`, `ApprovalFitsTheAccount`, `EvidenceMatchesHistory`; with a timeout longer than the staleness limit `OnlyVettedAnswersTrade` | `EveryPathEnds` |

Type correctness is proved of the bridge, the event store and the decision chain as well (`TypeOKHolds`);
their runs leave it out, since the proofs hold for all bounds.

What is only model-checked is liveness under fairness, which is out of the prover's reach. The
invariants and the variants it needs of every single step are proved where there are such:
`CallsRunDown`, `NoneOutOfReach` (`IngestionProofs`), `EveryPathRunsDown` (`DecisionProofs`). The
violations the runs exhibit are counterexamples of TLC and need no proof.
