# Verification of wavequant

TLA+ specifications, model-checking runs and machine-checked proofs for the stateful core
of this repository: the paper trading account and its execution, the trend life cycle and
the simulated account that strategies and backtests rest on, and the workers of the API server.
Paths are relative to the repository root; `core/` stands for
`src/packages/wavequant-core/src/wavequant/` and `api/` for
`src/apps/servers/wavequant-api/src/wavequant_api/`.

## 1. Inventory

| Component | State it keeps | Operations | Talks to | What makes it correct |
|---|---|---|---|---|
| Event store `core/infrastructure/persistence/event_store.py` | an append-only, hash-chained table of events in SQLite | `transaction` (BEGIN IMMEDIATE), `get`, `append`, `events`, `verify`, `backup` | everything durable below | an identity is stored once, with one content; a transaction is all or nothing |
| Order service `core/application/trading/order_service.py` | nothing of its own: cash, positions, lots, orders, quotes, `halted` and `reconciled` are folded from the journal for every call | `quote submit fill cancel reject corporate_action halt monitor reconcile resume snapshot` | event store, security master | money and shares are conserved, reservations are backed, T+1 holds, orders close once, halts are lifted only on a current reconciliation |
| Paper venue `core/application/trading/paper_venue.py` | a second event store, folded into orders and a ledger | `accept match cancel reject corporate_action reports snapshot` | bridge | executions are causal, a tick is never oversold, its books are those of an independent party |
| Paper bridge, same file | nothing: it replays both journals | `dispatch receive reconcile` | order service and venue | each report is booked once and in order; the books meet again; a report that cannot be booked halts the account |
| Security master `core/infrastructure/market_data/security_master.py` | point-in-time facts | `at`, `universe` | order service, intents | no fact is used before it was known |
| Strategy runtime and intents `core/application/trading/stream_runtime.py`, `intent_execution.py` | BAR, SIGNAL_INTENT, STRATEGY_EVALUATED, INTENT_REJECTED, INTENT_ACK events on the account's journal | `on_bar execute acknowledge pending_intents` | order service | an intent becomes one order at most, whatever the crash; an entry has one chance |
| Account report `core/application/trading/account_report.py` | none | a fold over the journal | order service | costs and proceeds add up to the equity |
| Trend life cycle `core/domain/market_structure/trend_lifecycle.py`, `source_bear_exit.py`, `bull_alternation_confirmation.py` | per path: the cycle, what it has consumed, a recovery, the structures it has reported | `advance` once a day, `resume_qualification_search` | geometry (input), trading eligibility (events) | a cycle is gone the day its defence breaks; a flip under recovery starts no second cycle |
| Trading eligibility `core/domain/strategies/trading_intervals.py`, `same_level_recovery.py`, their caller in `market_calculations.py` | windows, a gate per path, its release | `advance`, `advance_recovery`, `permits` | trend life cycle | a closed window does not reopen on what was known before; nothing trades behind a gate |
| Backtest account `core/application/analytics/backtest.py` (`portfolio_days`), `staged_exit.py` | holding with its T+1 lots, one pending exit, one pending entry, what was sold or cleared today | the phases of a day: open, minutes, close, signals | strategies, risk observers | nothing bought today is sold, reductions are cumulative, a full exit stands until it is done |
| Market structure and strategies, rest of `core/domain` | none, or caches of pure functions | numeric analysis of bars | the three above | checked by the repository's fixtures |
| Structure scanner `core/interfaces/screening/structure_scanner.py` | search jobs with a revision, a stop event each | `start`, worker thread, `cancel`, long-polling `get` | structure snapshots, API | results are those of one engine and one data version |
| Structure snapshots `api/application/structure_snapshots.py`, `api/infrastructure/database.py` | a SQLite table of snapshots named by their content | `refresh`, `query` | scanner, resident worker | a snapshot is the content it is named for; the present content is served in the end |
| Operations run `core/application/governance/operations.py`, `core/infrastructure/persistence/operational_store.py` | RUN_STARTED, RUN_STAGE, RUN_FINISHED events, a directory per run, a workspace lock, alerts | `run_operations`, acknowledge | everything offline | a run id is executed once; an interrupted run is recorded as such; a completed run is of one revision; the inbox says what holds |
| Backup bundle, experiment registry | files with manifests; a table of frozen protocols | create, verify, restore; register | operations | pure file and table I/O |
| Backtest jobs `api/backtest_jobs.py` | jobs, active stocks, slots, a bounded recovery window, a history table | `start`, worker threads, `update_*`, `get`, `snapshot`, `outcome` | server, watchlist refresh | one calculation per request id; slots and stocks are released exactly once |
| Watchlist refresh `api/watchlist_refresh.py`, `api/watchlists.py` | the active job, attempts and results per stock | `tick` every five seconds, settings, edits, retry | backtest jobs | every stock of an enabled watchlist is brought up to date or fails after three attempts |
| API server, timeframes, cache | HTTP handlers over SQLite tables and files | requests | web front end | each request is one transaction |
| Async UI `src/packages/async-ui`, web front end, Rust ports, templates | load controllers, queues, caches | | API | the latest request wins |

The behaviours that are hard. Every actor of the paper account (a caller, the market, the
bridge, the intent executor, an operator, a monitor) gives its own time to what it does, while
the journal orders events by arrival; `dispatch`, `receive`, `on_bar` and `execute` are
sequences of separate transactions and may stop between any two and start over; the
order service checks limits when an order is accepted and trusts that they still hold
when it is executed, days and fills later. The life cycle is fed with vertices
confirmed days after their bar, which the geometry may still move or withdraw, and with several
observations in one day whose order decides; windows and gates outlive the cycles they came
from. The simulated account knows one pending exit per stock, for which nine risks compete on
three clocks of a day. In the API server, threads finish, fail, are retried, cancelled and
expire while the same identities, stocks and files are used by others. `PROJECT.json` lists each hazard
at its line, with the property that would catch it.

## 2. Modules

| Module | Models | Composes |
|---|---|---|
| `OrderLifecycle` | the abstract promise about one order: a fixed quantity, executions that only add up to it, one closing | |
| `OrderService` | every mutator of `OrderService` and the projection `project()` | implements `OrderLifecycle` |
| `PaperVenue` | every operation of `PaperVenue` and its two folds `orders()` and `_ledger()` | implements `OrderLifecycle` |
| `PaperBridge` | `PaperBridge` with the order service, the venue and the actors around them | EXTENDS `OrderService`, INSTANCE `PaperVenue` |
| `IntentExecution` | `StrategyRuntime.on_bar` and `PaperIntentExecutor` on the account's journal | EXTENDS `OrderService` |
| `TrendLifecycle` | one path's life cycle and the geometry that feeds it | |
| `TradingEligibility` | windows and gates, driven with the life cycle day by day | EXTENDS `TrendLifecycle` |
| `BacktestAccount` | the day of the simulated account of one stock | |
| `StructureScan` | the scanner, the refresh of its snapshots and the table they are served from | |
| `OperationsRun` | the operations pipeline, its lock, journal and inbox | |
| `BacktestJobs` | the registry of calculations and its worker threads | |
| `WatchlistRefresh` | the thread that works off the watchlists, and the people around it | EXTENDS `BacktestJobs` |
| `OrderServiceProofs` | theorems about `OrderService` and, on top of them, `PaperBridge` and `IntentExecution` | TLAPS, INSTANCE `PaperVenueProofs` |
| `PaperVenueProofs`, `TradingEligibilityProofs`, `StructureScanProofs`, `OperationsRunProofs`, `BacktestAccountProofs` | theorems about the module each is named after | TLAPS |
| `BacktestJobsProofs` | theorems about `BacktestJobs` and, on top of them, `WatchlistRefresh` | TLAPS |
| `SumFacts` | what the sums of the models come to, for any finite set, and loops along sequences; `OrderServiceProofs`, `PaperVenueProofs` and `TradingEligibilityProofs` rest on it | TLAPS |
| `MC...` | constants of the runs | |

### The paper account

`journal` is the event table in `seq` order, less the payload
nobody reads back. The code stores no account: `state()` folds the journal in every call.
The model keeps the running fold (`cash`, `orders`, `positions`, `lots`, `quotes`, `halted`,
`reconciled`) beside the journal, and an operation appends its event and applies the branch
of `project()` for it. That is the same function as long as the fold is left to right,
which it is. A mutator is one BEGIN IMMEDIATE transaction and so one atomic step; a
`ValueError` rolls back and is a stutter. QUOTE events update `quotes` only, HEALTH events
`observed` only: nothing else of them is read back. A repeated identity with the same
content changes nothing and needs no action; with other content it raises. `~Has(...)`
is the guard both share.

`Submit`, `Fill`, `RequestCancel`/`ConfirmCancel` (the two
branches of `cancel`), `Reject`, `CorporateAction`, `Quote`, `Halt`, `Monitor`,
`Reconcile` and `Resume` are the methods of the same names; the guards stand in the order of
the code's `raise` statements where the order matters. `Accept`, `Match`, `Cancel`, `Reject`,
`CorporateAction` of `PaperVenue` likewise; `Match` books all the executions of a tick in
one transaction. The loop of `match` walks a dict, whose order is that of acceptance: the model reads it off the
journal (`Turn` is an order's place, `Allocation` what each order gets, `Executions` the fills in the order the loop appends them). In `PaperBridge`, `Dispatch` and `Receive` are one iteration of the
code's loops that does something. An iteration over an event already delivered or booked
changes nothing, the first one that raises ends the pass, and a pass has no memory of its
own; so the next effect of any pass, wherever an earlier one stopped, is always that of the
first undelivered event or unbooked report, and a crash between two iterations needs no
action of its own. `TakeStatement` and `CompareStatement` are the two halves of
`PaperBridge.reconcile`: `venue.snapshot()` is evaluated before `oms.reconcile` opens its
transaction.

In `IntentExecution`, `StoreBar` and `EvaluateBar` are the two transactions of `on_bar`; a
crash between them is a bar without evaluation, and any later delivery may make up for it.
`Execute` is everything `execute` reads and decides, `SubmitOrder`, `RecordRefusal` and `Acknowledge` the
transactions that follow, `call` what the call in progress has decided, which a `Crash`
forgets. The order service's own steps by others fall in between. `Callable` has the argument checks, of
which the last is skipped when the intent already has its outcome.

### Life cycle and windows

A day of `TradingEligibility` is `MarketDay` (a bar), `Redraw` (what the geometry has confirmed,
extended or withdrawn since: vertices, observations, or the path itself; a vertex carries the clock the
geometry gives it, at the latest today and never before that of the vertex before it, which is how
`trend_lines.py:1994-1999` annotates a path), then `AdvanceLifecycle`
(`TrendLifecycleTracker.advance` for the path, less what section 5 names, `advance_recovery`, and the windows that follow from its events, in
the order `market_calculations.py` calls them) or `ClosePath`. `cycle`, `seen`, `recovery` and
`bearBreaks` are the tracker's `_cycles`, `_seen`, `_bull_recovery`, `_bear_breaks` for one key; `windows`, `barrier` and `released` are `_intervals`, `_blocked` and `_released`.
The steps of `advance` are functions from one book of the day to the next, composed in the code's
order in `Advanced`; where volume, gap or N evidence decides, the result is the set of books either answer gives.

### The simulated account

`BacktestAccount` walks `phase` through the order `portfolio_days` has for one live stock: opening
exits and entry, the minutes, the closing risks, the closing exits, signals, structural exits,
closing entries. `order` is `pending_exit` with its evidence, `pos` the position record. What an
observer sees and what the market answers (free, blocked, at its limit; how much room
liquidity leaves) is any of the possible answers. Quantities are sale lots, money is left out. `goal`
and `free` are history variables: the most that was ever asked for and whether the day's
executions met a free market.

### The workers

In `BacktestJobs`, `jobs`, `symbols`, `active` and `history` are `_jobs`, `_active_symbols`,
`_active` and `_history`, and `stored` is the table that survives the process. `calculations`
holds the `BacktestJob` objects themselves, which a worker keeps hold of after `_jobs`
has dropped their identity. Every method is one section under the lock: `Start` is `start` of
a new job, `Look` every call that only prunes (`get`, `snapshot`, a `start` that finds its
job or raises), `Complete` the locked section that ends `_run`, with a result or an
error, `Restart` the end of the process and the `_load_history` of the next one, after which the
table may have been emptied (another engine version) or be unreadable. `start` is called with
a stock, as `server.py:253` does. Orders among equal instants, which the code
leaves to insertion order or to SQLite, are open.

`WatchlistRefresh` adds the thread: `tick` is its position in `_tick` and what it has read so far. `Settle`
looks at the active job, `Rest` and `Read` read settings, lists and runs, `Choose` looks whether anything is
being calculated, `Submit` starts a job: each is a section of its own, between which people
start calculations, edit, pause, retry, and calculations end. `Fail` is any exception of the
tick, after which `run` goes on; `Reboot` is a new process, which forgets the active job. What a job
returned, `outcome`, is fixed when it ends: the result asked for, a result of another stock or day
(`mismatched`), or none. `Outcome` (`watchlist_refresh.py:70-93`) takes only the first for a completion, `Importable`
(`:137-152`) both, as `result_valid` of the registry is all it looks at.

In `StructureScan` a job carries the position of its thread (`pc`), the versions it froze and
the pair of versions each result was read at: the bars and, read a second time, the theory.
`Freeze` and `Admit` are `start` before and under the lock. The refresh describes the content,
asks the scanner, polls, and saves; `stored` is the table. In `OperationsRun` every
transaction of the command and every stage is a step (`Steps` has their order), `runs` and
`alerts` are the two states the journal is folded into, and `evidence` is what a run's directory
holds: which revision was frozen, and which was tested on the live checkout.

### Abstractions

Instants are the points of a finite axis, and `SessionOf` is their trading date.
Money is an integer number of fen and prices are multiples of it; the fee and slippage rules
of the venue are computed in integers with the code's rounding direction. Facts of the
security master are a constant function of symbol and instant. Reasons and sources are
left out but for who rejects an order. The hash chain, `verify` and `backup` are not modelled.

Definitions marked `Fault:` are not part of any specification. Each is a plausible bug
of the definition that follows it, kept to show that the property named in
`PROJECT.json` under `mutants` fails when the bug is put in.

## 3. Runs

| Run | Question | Bounds |
|---|---|---|
| `ledger` | Do orders, fills, cancellations, rejections and entitlements, in any order and at any time, keep the books sound? | a BUY filled in up to two parts, the SELL of both lots, a BUY on a second symbol competing for cash, a 2:1 entitlement; three instants over two sessions; 7 events and one control event; fees of 1 and 3, so that a sale may cost more than it brings; about 831,000 states |
| `venue` | Does a tick respect causality, capacity and priority? | two competing buyers with different limits and signals, a seller, ticks that cannot be bought or sold, a 3:2 entitlement with fractions; 7 events; about 184,000 states |
| `bridge` | Do two independent ledgers meet again, whatever interleaves? | a round trip in parts over three instants, an entitlement sent to each side separately, cancellations and venue rejections; about 431,000 states |
| `recovery` | Is a halt lifted only on a current match and never over a refused report, and is every report booked or escalated? | one order and its reports, three control events (halts, reconciliations, resumptions) and one HEALTH observation; one polling process; about 117,000 states |
| `intents` | Does an intent become one order at most, whatever crashes? | the bars of two days, delivered and evaluated in any order; an entry, its exit, and the entry another prefix would have given; four sessions; one crash; 5 ledger events; about 184,000 states |
| `trend` | Can a trend's life cycle outlive its defence, or its window open on old news? | seven market days, 9 courses (a flip followed by rests, rises and falls; an undercut rise; a broken and recovered origin), vertices drawn up to two days late, with that day's clock or any earlier one their path admits, and with up to two observations, one revision of the geometry or one day with two vertices; about 371,000 states |
| `backtest` | Does one pending exit serve nine risks on three clocks? | up to three lots, reductions of 35, 65 and 90 percent, days with room for one lot or three, free, blocked and limit markets, any number of days; about 2,416,000 states |
| `scan` | Is anything mixed ever completed or published, and is the present content served in the end? | two stocks, downloaded or not, two writes, one change of code, one foreign start, cancellation or death of the process, two jobs remembered; about 1,175,000 states |
| `operations` | Are identities run once and leftovers closed, whoever dies? | two processes, three identities, two edits of checkout or input, five alerts; deaths anywhere; about 3,170,000 states |
| `jobs` | Is a slot, a stock or an outcome ever lost, whatever fails or expires? | three calculations on three identities, two signatures on one stock and two on others, two slots, one finished job kept for two instants, two summaries for three; writes that fail; one restart; about 2,260,000 states |
| `refresh` | Does every wanted stock come to its end, and are attempts counted right? | one watched stock, which a person also calculates, and a second that an edit adds; calculations that end with the result asked for, with that of another stock or day, or without; one slot, one finished job kept, two attempts with a pause between; one edit, pause, retry, exception or restart; about 838,000 states |
| `outbox` | Does the local journal keep what the code says of it? | two orders on two symbols; it must be refuted, see section 6 |

Why the bounds are enough. What can go wrong in the books needs an order that is filled in
two parts, a second order on the same symbol, a second symbol that competes for the same
cash, and one event of each other kind between any two of these; the bounds admit all of
them in every order. Two sessions are what T+1 needs; a third instant gives two
in one session, so that being backdated differs from being in an earlier session. `MaxEvents` and
`MaxVenueEvents` bound what callers and the market ask for, never what the bridge does with what
is in the journals: deliveries and bookings always finish. In `jobs`, an
identity is used again while its first job runs, is kept, was displaced, has expired or was lost
in a restart, with both slots taken by others or not. In `refresh`, one intervention
meets every step of the tick, and a person takes the only slot or not; two of the three attempts
of the code are enough to fail, wait and fail again. A mixed scan needs a write between
two reads of one stock and another between two stocks. Two processes and three identities let a run
die, another close it, and the same identity be asked for again. In `backtest`, three lots make
partial, cumulative and full sales different sales; `MaxInitial` equal to `MaxLots` still lets a holding
be added to, sold and opened again on one day. In `trend`, flip,
alternation, confirmation, breach, recovery and reopening fit into the seven days of some course; each course
is met with every choice of vertices and days on which they become known that `Lag` admits.

Deadlock is checked where the system cannot stop. `venue`, `operations`, `scan` and `trend` stop when
their bounds are used up (`CHECK_DEADLOCK FALSE`): the venue has no more ticks, every
identity has been run, files and code rest with the content published, the course is over.
Symmetry: fill identities in `ledger`, job identities in `jobs`, processes and run identities in
`operations` are interchangeable; none of these runs checks liveness.

Fairness is assumed only where something must happen in the end:

* `recovery` (`SoleSpec`): weak fairness of `Dispatch`, `Receive` and of the end of a `reconcile()`
  call, all in one process. `platform_contract.md:93` asks the caller to repeat
  `dispatch()` and `receive()`; fairness says that this caller exists. It is weak, so an iteration
  that raises (and is thereby disabled) is owed nothing. `outbox` (`PolledSpec`) assumes the first two only.
* `intents` (`IntentFairness`): a call that is not stopped ends (weak), and the caller goes through
  `pending_intents()` at opening after opening (strong for each intent: between two
  openings there is none to give, so the call is not continuously possible). Bars and crashes are owed nothing.
* `scan`: the search thread runs (it is a thread of a living process), the resident worker refreshes again and again
  (`api/cli.py`), the process manager restarts a worker whose code changed.
* `refresh` (`FairRefreshSpec`): the thread's loop goes on, a calculation ends one way or the other, time passes.

Nothing is assumed of callers, market, operators, people, or of reconciliations.

What the properties say:

* `ReservationsKept`: no step eats into the cash the active BUY orders have reserved, but for a sale that costs more in
  fees than it brings (section 6).
* `PositionsAreLots`, `SellsStayCovered`: the shares are the shares in the lots, and an
  active SELL is covered by lots that were settled when it was accepted, so the sale loop, which
  silently drops what it cannot place, never has to.
* `OrderAccounting`, `LifecycleSpec`, `LedgerInOrder`: orders balance, each implements `OrderLifecycle`,
  and the journal can be replayed by time.
* `TickCapacity`, `FillsAreCausal`, `AcceptancePriority`, `VenueLifecycleSpec`: the venue's side.
* `SettledBooksAgree`: once everything is delivered and booked and both sides have had the same
  entitlements, both ledgers are equal, so the reconciliation matches. The caller sends an entitlement to each side on its own; it is the
  same for both (`SameEntitlements`) when it has the same terms and comes after the same executions and the same other entitlements.
* `BookedInOrder`, `VenueNeverShort`: reports are booked without gaps and only real ones; the venue,
  which does not look at holdings, never sells what the account does not have.
* `ReconciledIsCurrent`, `IncidentsStayHalted`, `ReportsAnswered`: the credential `resume()` needs
  belongs to the present ledger; the account stays halted over a report it refused; every report is booked or escalated.
* `PrefixIsStable`: whenever a bar is delivered again, it is evaluated on the prefix it was first evaluated on.
* `EntryHasOneChance`, `OrdersAreClaimed`: an entry that was refused, filtered or expired never has an
  order; an order whose acknowledgement was lost in a crash is claimed by its intent.
* `DefenceHolds`: no bar of a rising cycle fell below its origin or its counter low, whichever proof
  gave it that defence.
* `RecoveringIsClosed`, `GateStands`: nothing trades while a broken flip may recover or behind a
  gate, and once a gate is opened only what flipped since.
* `ReopensAfresh`: a rise whose window closed trades again only on a confirmation that became known after the close,
  also when the path is drawn anew with vertices known before; with the exception in section 6. A cycle begun
  since the window opened is another rise, and not held to it.
* `SettledBeforeSold`, `SoldWithinTarget`: T+1 over add-ons and three clocks; cumulative reductions
  never sell more than the largest one asked.
* `FullExitStands`, `FreeDayClears`: a pending full exit gives way to nothing smaller; no exit waits for a
  clock that never comes.
* `CompletedIsUnmixed`, `PublishedIsPure`, `FreshSnapshotServed`: a completed search is of one market state, a
  snapshot is the content it is named for, and the present content is served in the end.
* `OnlyOwnRunRuns`, `RunOnce`, `CompletedIsOneRevision`, `ReadinessStands`: one run at a time and each
  identity once; what was tested is what was frozen; the inbox shows what holds now.
* `SlotsAreRunning`: slots and busy stocks are those of the running workers, and an identity in
  use leads to its own worker's job, so a progress report cannot reach another one.
* `OnceWithinWindow`: a retry is not calculated again until its window has passed or enough
  later jobs have finished.
* `HistoryIsLatest`: what is shown for a signature is its last outcome, across restarts too.
* `CompletedIsEarned`, `GivenUpOnFailures`, `RefreshSettles`: a stock is marked completed by a result of
  exactly its signature (after failures of its own attempts, only by a later one of these with the stock and day asked
  for; by a summary, with what `result_valid` is worth), given up after that many failures of its own, and one of both in the end.

Each module also has a type predicate. No run repeats it; the types the other properties rest on are
proved (`BookTypeOK`, and the shapes inside the invariants of section 4).

## 4. Proofs

Seven modules of theorems about the models, and one about sums. Each of the seven proves inductive invariants, `Init => Inv` and
`Inv /\ [Next]_vars => Inv'` with one lemma per operation, and derives the properties from
them. The assumptions are the named ones of the modelled modules (`RequestAssumption` and the like: times,
requests and bounds are naturals, identities are distinct). The bounds are guards of `Next`, so what
is proved holds without bounds too.

**`OrderServiceProofs`**, about `OrderService`:

* `BookTyped`, `OneOrderEach`, `OrdersBalance`, `LedgerOrdered`, `EachAppliedOnce`,
  `CredentialIsCurrent`: `[]BookTypeOK`, `[]OneOrderPerSymbol`, `[]OrderAccounting`, `[]LedgerInOrder`,
  `[]AppliedOnce`, `[]ReconciledIsCurrent`;
* `HaltsLiftOnMatch`: the action property `HaltLiftsOnlyAfterMatch`;
* `ServiceImplementsLifecycle`: `Spec => LifecycleSpec`, the service implements `OrderLifecycle`.

None of these is inductive alone: that an order is not accepted twice
needs the journal to know every order of the projection, order accounting needs the types of
quantities, order and identities need that what is appended is an event. `BookInv` joins
them with two facts no run checks, `OrdersJournalled` (an order in the projection was
accepted in the journal) and `OrdersRequested` (it keeps its requested quantity). `Appending`
and the four lemmas after it say what one more event does to the journal's properties;
`ChangingOrder` and `AddingOrder` what a change of one order does to the orders';
`LedgerEvent` and `ControlEvent` combine them for the two sorts of events, and there is one
lemma per operation on top (`SubmitKeeps`, `FillKeeps`, ...). `BookNext` splits
the next-state relation into them. The refinement follows the same split under `BookInv`:
`ChangingLife` says what a change of one order does to the mapped state, `SubmitLives`,
`FillLives` and `StatusLives` name the abstract step each operation is, and `StepLives` joins
them; order accounting is what makes a fill an abstract trade. Weights and limits of the portfolio play no part, so the
theorems hold under any limits.

The ledger behind the orders is a second layer on `BookInv`:

* `AccountTyped` (`[]TypeOK`), `LotsAddUp` (`PositionsAreLots`), `SellsCovered` (`SellsStayCovered`);
* `ReservationsHold`: the action property `ReservationsKept`.

`LedgerInv` adds `LotsInv` (well-typed lots, positions that are their totals, active SELLs covered by lots settled when they were
accepted) and `MoneyInv` (no debt; finitely many orders and quotes, so that the sums over them are sums). `Selling` is what the sale loop does: if the
settled lots hold the shares asked for, the loop takes exactly these, and from the lots settled at an earlier instant no more than that, whence
what is left of the order stays covered by the lots settled when it was accepted. A purchase only adds a lot (`BuyingLots`); an entitlement
finds no active order of its symbol, and scales lots and position alike since every lot divides evenly (`CorporateActionLots`). For the
money, `ReservedWith` takes the one order an operation changes out of the sum; a fill at or below the limit and within the fee budget
releases at least what it spends. `BooksNext` joins the operations.

A third part is about `PaperBridge`, where the venue gives the executions, with all actors interleaving:

* `BooksInOrder`: `BridgeSpec => []BookedInOrder`, from `BridgeInvariant`;
* `IncidentsHold`: `SoleSpec => []IncidentsStayHalted`, for one process that drives the account.

The bridge keeps nothing of its own, so `BridgeInv` relates the two journals. The venue's half, `VenueBooks`, is the invariant of `PaperVenueProofs`
for any orders that may be handed over (`V`); `SameMatch` and the lemmas beside it say that the bridge's venue is that one. Every execution and closing booked here was reported
there (`PostedIsReported`), the booked reports are the first ones (`BookedFirst`), an order was filled here with what its
booked executions come to (`FilledByBooked`), and it is open here as long as it is active there or a report of it waits (`OrdersShared`,
`UnbookedIsPending`). The sums are what keeps an order from closing early: with a report still to come, the booked executions are fewer than the venue's, which are no
more than the order asks for (`BehindVenue`). So a report that is due finds an order that has not been closed under it, or halts the account and stays the
next (`BookingKeeps`, `HaltBooks`), and nothing overtakes it. `SoleInv` adds the halts: no refused report waits while the credential to resume stands
(`CredentialIsClean`). The credential is earned with a statement of the venue's present state, which agrees with the account only if nothing waits
(`MatchIsComplete`): the order of a waiting report would be open here, and closed or filled further there. With a second process the statement may be older, and the property
fails, as section 6 says.

Above `BridgeInv` is what the two ledgers come to:

* `SettledBooksAgreeHolds`: `BridgeSpec => []SettledBooksAgree`;
* `VenueNeverShortHolds`: `BridgeSpec => []VenueNeverShort`, both from `LedgersAreTold` (`BridgeSpec => [](BridgeInv /\ LedgersInv)`).

The two sides book the same executions at different instants, with other orders and entitlements in between, so the states cannot be
compared step by step: what is compared is the journals. `LedgersInv` says that each ledger is its journal replayed. For the venue, which
computes its ledger from the journal, that is the loop itself (`V!ReplayInv`, theorem `LedgerReplaysJournal`); the account is kept by
increments, so `AccountIsReplay` claims a table of the accounts after each event, in which an execution is worth what the venue reported
(`Posts`) and a SELL was accepted for no more than was held then. The rest is about the order of events: an execution is journalled once and
after its order (`EventsOnce`, `FillsFollow`); what was filled here before an order was accepted was filled there before that order was
(`FillsBefore`, as an order is handed over after the reports before it were booked); an order or an entitlement of a symbol finds the
earlier orders of it closed, with no execution to come (`NothingOutstanding`). The last is why cash and shares do not depend on the delay.

Under `SameEntitlements` the moves of the account are paired with moves of the venue (`MovesPair`). Between two entitlements
moves only add, and sums do not depend on the order; at an entitlement, which scales (with a remainder that is dropped), both sides have the
same moves behind them. `ReplaysAgree` of `SumFacts` says this of any two such replays, one of which may be ahead: it differs by the
total of the moves the other has not had. At rest there are none of these (`AllTaken`). For the venue's sales it is applied to unequal positions: the account when
the SELL was accepted, and the venue after its execution. All that moved that symbol in between is executions of that order
(`SellsAlone`), which come to no more than it asks for (`SharesExecuted`), and this was held (`SellFindsShares`). Without
`SameEntitlements` the venue may sell short, as section 6 says.

The last part is about `IntentExecution`: `RedeliveryRepeats` (`PrefixIsStable`) and `EntryOnce`
(`EntryHasOneChance`), for any stream, strategy and number of crashes, and any other callers of the order
service. The reads of `execute` and its writes are different transactions, so `IntentInv` has to say what
the call in progress knows (`Certain`): an entry about to be submitted was never refused, one
about to be refused or given up has no order, and neither is acknowledged. That stays
true because only the executor submits under an intent's identity (`IntentAssumption`) and there
is one call at a time (`OneCall`). `Streamed` is the same for the bars: a bar is only taken after
all earlier ones, so the prefix of an evaluated bar never changes.

**`PaperVenueProofs`**: `TicksNotOversold` (`TickCapacity`), `ExecutionsAreCausal` (`FillsAreCausal`), `VenueTyped` (`VenueTypeOK`), the action property
`PriorityKept` (`AcceptancePriority`) and `VenueImplementsLifecycle` (`Spec => VenueLifecycleSpec`), for any orders, ticks, rates and slippage. Neither
property of executions is inductive alone. `VenueInv` adds what the loop relies on: each order has one place in the journal (`Queued`), each
execution is one of a tick of its symbol (`Ticked`), an order with a cancellation or a rejection is not active (`Closed`), and an active
one has something left (`Kept`). `Shares` says what an order gets: what it asks for, or what those before it left. `ExecutionsWithin` follows the loop along the journal:
after each place the executions come to what the orders so far ask for or to the volume, whichever is less. Since a tick is later than all
before it of its symbol, these are all the executions it will ever have (`MatchKeeps`). Priority is the same sum read the other way: whoever gets a share found
volume left by all before it, so each of those got all it asked for. The refinement has one lemma per operation (`AcceptLives`, `MatchLives`, `CloseLives`);
a tick moves several lives at once, which `OrderLifecycle` allows. `ReportsAreTheOrders` is for the bridge: reports are
told apart by their identities (`Identified`, `Distinct`), only what is not complete is closed (`ClosedEarly`), and the executions of an order come to what it was filled with (`FilledByExecutions`).
`LedgerReplaysJournal` (`[]ReplayInv`) opens the fold of `_ledger`: there is a table of ledgers, one for each event, that leads from the opening to the present one.

**`SumFacts`**: the sums of the models are `SumFunctionOnSet` of the community modules, which folds over a set with a chosen
order. Induction is first-order here: the family of the subsets of a finite set that have the property is itself a set, and
`SubsetInduction` says that it has all of them. From this follow existence and uniqueness of the table of partial sums
(`TableExists`, `TablesAgree`), hence that the sum is independent of the order in which elements are chosen (`SumWithout`), and the
arithmetic the proofs cite (`SumPart`, `SumSplit`, `SumScaled`, ...). `Drawing` is the loop both ledgers use: to draw `q` from a sequence of stores,
oldest first, takes `q` if the stores hold it. `PrefixInduction` and `PrefixRecursion` do the same for a recursion along a sequence (a table for all
prefixes exists), which is how the models state the loops of `match` and `_ledger`. `ReplaysAgree` compares two balances that
replay the same moves in different orders.

**`StructureScanProofs`**: `ScanIsOneState` (`CompletedIsUnmixed`) and `SnapshotIsItsVersion`
(`PublishedIsPure`), for any catalogue and any number of writes, deaths and callers. What makes a scan
unmixed is that versions only grow: what was frozen is `Past`, what was read lies between the
frozen version and the one on disk (`Read`), so a stock that still has its frozen version at the last
comparison had it at both reads (`Exact`). `Sound` says this of a job at each position of its
thread, with `Covered` for the stocks done, failed and left; `ScanInv` says it of all jobs, of the
versions the callers hold, and of what the refresh is about to save.

**`OperationsRunProofs`**: `OneRunAtATime` (`OnlyOwnRunRuns`), `SealedIsTested`
(`CompletedIsOneRevision`) and `EachRunOnce` (`RunOnce`), for any number of processes, identities and edits. `RunInv` says that who
works holds the lock (`HoldsLock`), what the holder found before it registered is still so (`Alone`), and how the frozen, the tested and the
present revision lie to each other at each step (`Ordered`, by `Traced`): the tested one is
between the other two, and equal to the first once the checkout was compared. `ReadinessIsCurrent` (`ReadinessStands`) rests on `RunInv` and
`InboxInv`: no two active alerts are about one condition of one scope, so resolving what no longer holds and
opening what is new (`SynchronizedStands`) leaves exactly what holds, and the stages up to the worker's touch other scopes only.

**`BacktestJobsProofs`**: `NoSlotLost` (`SlotsAreRunning`) and `LatestIsShown`
(`HistoryIsLatest`), for any limits, stocks and signatures. `JobInv` relates four structures that change in one
section: the registry leads to each running job (`Registered`), the busy stocks are theirs
(`Seated`), and both are counted by `active` (`Counted`); pruning is shown to drop nothing but
finished jobs. `HistoryInv` adds that a running job is the newest of its stock (`LastOfStock`), that
only what has ended is saved, and that table and memory show the last of what they were given
(`Shows`), which a restart turns into one another. `OneCalculationInWindow` (`OnceWithinWindow`) follows what happens to a finished job the registry
no longer leads to: its window is over, or as many jobs as are kept ended after it (`DroppedIsGone`), which stays
true as time passes and jobs end. For `WatchlistRefresh`, `CompletionIsEarned` (`CompletedIsEarned`), `GivingUpIsEarned`
(`GivenUpOnFailures`) and `SharedRegistryShowsLatest`: `RefreshInv` says that the rows of the table, those the thread read some steps ago,
and the number of attempts the thread remembers of its own job are true of the outcomes so far (`TrueRows`, `OwnJob`): a completed row
was earned by a result of its signature, and one with failed attempts by a result no person asked for that is the one asked for
(`Earned`, `EarnedAlone`). Outcomes only accumulate
(`Continued`), so what was true when read stays true while people edit, calculate and restart.

**`BacktestAccountProofs`**: `AccountTyped`, `TodayIsHeld` (`SettledBeforeSold`), `ReductionsAreCumulative`
(`SoldWithinTarget`), `FreeDayEndsClear` (`FreeDayClears`), and the action property `FullExitIsNotWeakened` (`FullExitStands`), for any lots,
percentages, capacities and advice. `AccountInv` has two parts. `Books`: what was sold of a holding is within its goal, and what is still pending of a
reduction stays within the share it was asked for (`Remainder`), so a retry after a limited market cannot sell more
(`WantedWithinShare`, `ExecutedFacts`); today's lots are among those held. `Clocks`: on a free day an order that was there at the open is executed at the clock its
model names, and each clock that has passed leaves none of its own.

**`TradingEligibilityProofs`**, for any market, any number of days, lags and revisions: `GateStandsHolds`, `RecoveringIsClosedHolds`,
`DefenceHoldsAlways` and `ReopensAfreshHolds`, that is `Spec => []` of `GateStands`, `RecoveringIsClosed`, `DefenceHolds` and `ReopensAfresh`. A day
is one step of the model and a dozen stages of the code, two of which are folds: over the new observations, and over the events
of the day. For each stage a lemma says what it may make of a day (`ExpireGapDoes`, `TakeDoes`, `PriceDoes`, ...; `ObserveDoes` and `GateDoes` for a book), and a
property goes along the chain as a set of days that every stage maps into itself. `FactsStay` and `EventsStay` carry such a set through a fold of any length:
the books in between have a table, by induction over finite sets in `SumFacts`. What is true between the days:

* `Base`: types, a path whose vertices alternate and lie in the order of their days and of their confirmations, and a recovery whose
  days are in order. Four ways to redraw the path (`RedrawDoes`) keep it.
* `Facts`: a flip or an alternation is about vertices of the path, its origin held on the path and its attack
  broke what it says; no later bar has passed the high of one that has not been consumed, and at night none is left. That
  holds whatever clocks the vertices carry: what is drawn anew is about vertices no bar has passed.
* `RiseStands`, for `DefenceHolds`: no bar since its start fell below the origin of a rise, nor since its alternation below the counter low. That is not
  inductive: a return to the flip needs the bars before the alternation (`Attacks`, `Recovers`), a later impulse must climb (`Climbs`),
  and the counter low of an alternation lies above the origin only because the path does (`CounterStands`).
* `RecoveringIsClosed` is inductive between days, but not within one: the fall is an event between others, so `Hushed` says that no event after
  the last sign of a recovery opens a window.
* `Loose`: a vertex of a cycle's structure that is no longer drawn came after every observation left of its evidence (`DrawnDays` along
  the day), since only the last one can be withdrawn or moved. So a rise whose evidence is still drawn has its structure drawn too.
* `Reopening`, for `ReopensAfresh`: where a window has closed and the rise it belonged to goes on, its search began no earlier
  (`Fresh`), or the gate keeps it out (`Blocked`). Within a day a gap may be filled (`ReadyDays`), or, once nothing
  more can open, anything may close (`SettlingDays`): the search then begins anew. `ResumeSearch` does so only while today's low is
  not below the origin, which is where `RiseStands` and `GateStands` are needed. A rise that waits confirms by a proof known
  after its search began, so the clocks of its vertices play no part, nor does it matter where the path is redrawn.

Left to TLC: liveness (`ReportsAnswered`, `OrdersAreClaimed`, `FreshSnapshotServed`, `RefreshSettles`), which is out of the prover's reach.
Every invariant and every action property of a passing run has a theorem.

## 5. Not modelled

Components with status `not_modelled` in `PROJECT.json`, each with its reason. The greatest part
of the code by lines is numeric analysis of price bars (`trend_lines.py`, `trend_judgement.py`,
`trend_confirmation.py`, `integrated_strategy.py`, `chart_entry_history.py`, the charts): pure functions from bars to
annotations with no state of their own, whose correctness is a matter of numbers that the
repository's fixtures fix. They enter the models as inputs: the vertices and observations of
`TrendLifecycle` (`Redraw`, marked external in the map though the geometry is code of the repository: any path that obeys what
its annotations guarantee, a withdrawn vertex coming back with its old clock or a new one), the risks of
`BacktestAccount`, the constant `Emits` of `IntentExecution`.

In the modelled components:

* event store: hash chain, `verify` and `backup`; security master: `universe` and the bitemporal selection;
* backtest jobs: what a worker publishes while it runs (progress, pipeline and preview of a job, which only pollers read);
* trend life cycle: the ledger of failed breakouts, suspicions, checkpoints, the copies that
  `combine()` merges, rebounds that only a wick takes above a flip's origin, and a path that ends and comes back under its old name
  (`trend_lifecycle.py:854-863`, which drops what was seen, the gate and its release): a course ends with its path. An alternation always carries
  its impulse, so the code's fallback to the cycle's (`:972`) does not arise. Bars have no open, so the lower edge of a
  body gap is any price from the close to the high of the day before. Trading eligibility: the calculators around it;
* backtest account: prices, fees, cash, several stocks that compete for cash, the observers themselves. Observers that ask for the same order are
  one answer: `Observed` has no separate answers for `BREAKOUT_SHADOW_REDUCE`, `record_high_massive_30`,
  `wave_target_bearish` and `DOUBLE_VOLUME_BEARISH_SHADOW` (`backtest.py:1241-1250`), whose orders differ from others' by their percentage, and
  `Staged` does not combine a recovery with a target of the same day (`staged_exit.py:196-209`);
* structure scanner and snapshots: the sealed-sample and AkShare sources, the filters of a query, the generations of AkShare data. `Admit` always admits, where
  the algorithm version read again under the lock, after an old job was evicted, may raise (`structure_scanner.py:311-334`); `Describe` takes one picture of the files, which the code
  describes one by one from a catalogue some seconds old (`:224-256`);
* operations run: what audit, diagnostics and backup compute;
* watchlists: groups and imports, which are request handlers of one transaction each. `Submit` gives the job the signature the tick has computed;
  `server.py:248` computes the strategy version again, which differs only while the code is being replaced.

The order service refuses to open a journal with another configuration
(`order_service.py:115-126`), so configuration is constant.

## 6. Where code and documents disagree

* `outbox`: the local journal is called a recoverable outbox (`paper_venue.py:196`). A cancel
  request dated before a later partial execution is refused by the venue on every
  pass and the orders behind it are never delivered.

Observations without a run, met while modelling:

* Same-day reopening. `market_calculations.py:280` and `packages/wavequant-core/progress.md:666` say that a closed window
  needs a new confirmation. When a filled gap revokes the proof of a flip, the window closes with
  `confirmation_gap_filled`, and an older pullback may become the proof on the same day and open the next one.
  `ReopensAfresh` has this one exception, and no wider one: on that very day, and never by the filled gap itself; TLC shows the course when
  the exception is dropped, and the program behaves the same when driven with it.
* A result that is not of the stock and day asked for is settled as a failed attempt (`watchlist_refresh.py:74-77`), and
  the same tick may then take its summary over as a completion, since `result_valid` compares neither (`:142-152`,
  `backtest_jobs.py:275-280`). `test_watchlists.py:225` says that a mismatched result is never recorded as current; its fixture
  submits past the registry, whose summaries stay empty. `CompletedIsEarned` says what is left; TLC shows the course when it asks for the stock and day of every completion.
* A breach during a recovery emits `trend_lifecycle_invalidated` (`bull_recovery_pending`) even when the active
  cycle is a falling one. `defense_broken` does not close a window, by design. `lifecycle_interval_days` has no caller in production.
* Orders of the account: a SELL's minimum fee above its proceeds is paid from the cash another order has reserved
  (`order_service.py:240` against `platform_contract.md:78`; TLC shows the course when `cash >= ReservedCash({})` is made an
  invariant of `ledger`, and `ReservationsHold` proves that it is the only one); a HALT dated after an execution makes its report
  unbookable (`platform_contract.md:85` says a halt does not block reports); a reconciliation between processes may match a statement
  older than a report that was refused meanwhile (`paper_venue.py:220`); after an order was closed by hand its outcome at the venue
  is refused on every pass and later reports wait behind it (`paper_venue.py:217`).
* An entitlement sent to the order service and not to the venue lets the venue sell short, after which
  `snapshot()` raises (`paper_venue.py:181`) and `reconcile()` can neither match nor halt;
  `platform_contract.md:86` still says that the venue handles no corporate actions.
* `monitor()` of a halted account appends another HALT, which voids the reconciliation an operator has just made (`order_service.py:347`).
* An exit is acknowledged for good when nothing is held, although the BUY it should undo is accepted and fills
  afterwards (`intent_execution.py:73-76` against `platform_contract.md:82`).
* Simulated account: a close that clears everything after partial reductions clears the whole remainder (`backtest.py:1266`), where
  `strategy_lecture_v3.md:443` speaks of the rest of the ladder; a structural exit that a gap disputed keeps what it had left to sell;
  the ladder of a close is skipped while a T+1 remainder is pending; a staged target counts as used when its order is
  superseded; a stock that volume cleared at the close may be entered again the same day.
* Operations: a crash between the FAILED record and its alert leaves a failure nobody is told of; one between
  the directory and RUN_STARTED uses up the identity; an edit that is undone before the comparison is not seen; the readiness
  alerts are brought up to date before the final comparison, so a failed run may have changed them.
* Snapshots: two refreshers at once (the resident worker and `cli.py`) may save the older content last, which is then served.

## 7. Plan

1. `stock-backtest-tasks.js` of the web front end: the chain of tasks per stock, in which a second click, a cancellation and a late answer meet; then
   the load controller and the priority queue of `async-ui` ("the latest request wins").
2. Several stocks in `BacktestAccount`, competing for one cash balance and one number of positions.
3. `account_report` as a pure function against a reference definition; the chain of the event
   store and the refusal of a conflicting identity as a module of its own under both journals.
4. The failed-breakout ledger and the checkpoints of `TrendLifecycle`.
