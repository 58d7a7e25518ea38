# Pre-trade risk controls: models, checks and proofs

TLA+ models of `pretrade_risk`, a Python library that decides whether an order
may be sent (`PreTradeRiskEngine.evaluate`), keeps the counters the decision
depends on in a key-value store, and lets an operator suspend or tune limits
through that store. Paths below are relative to `src/pretrade_risk/` unless they
say otherwise.

## 1. The system

| Part | State it keeps | Operations |
|---|---|---|
| Engine counters (`engine.py`) | eight counters in memory (trading day, P&L and high water mark of two legs, daily notional, consecutive rejects, executions since re-arm) and their texts in the store | `load`, `persist`, `record_realized_pnl`, `record_notional`, `record_order_rejected`, `record_order_accepted`, `record_execution`, `rearm`; every property that shows a figure of the day rolls it first |
| Decision (`engine.py`, `order.py`, `decision.py`, `limits.py`) | the limit set, its disabled controls; reads the counters, windows and overrides | `evaluate` over the 24 controls of `CONTROL_SEQUENCE`; `disable`, `enable` |
| Message windows (`windows.py`) | a deque of send times, a map from fingerprint to time; never persisted | `count`, `seen_within_window` (both prune), `record`; reported by `record_order_sent` |
| Control plane (`controls.py`) | bypass record and runtime caps in the store only | `bypass_loss_limit`, `clear_loss_limit_bypass`, `reset_daily_loss_limit`, the two cap setters and the readers |
| Overrides cache (`engine.py`) | four values read from the store | `refresh_overrides` |
| Store (`store.py`, `sqlite_store.py`) | text per key | `get`, `get_many`, `set`, `set_many`; one transaction (SQLite), or key by key (`SequentialBatchMixin`) |
| Encoding (`encoding.py`) | none | numbers and flags to text and back, failing safe |
| Clock (`clock.py`) | wall clock | `now_millis`, `trading_day` |

How they interact. The trading process evaluates an order, sends it, and reports
what happened with the `record_*` calls. Each call changes memory synchronously
and then awaits `set_many`; other coroutines of the process run during the await,
and with SQLite each batch has a connection and a thread of its own. The control
plane runs in other processes and shares nothing with the engine but the store.
The engine sees its writes at the next `refresh_overrides`. `evaluate` itself is
synchronous and does no store I/O.

What is hard, in the order of what it can cost:

1. snapshots of overlapping calls commit in any order; a crash may fall anywhere
   between a change in memory, its write and its acknowledgement;
2. evaluation and report of an order are separate calls with the venue between;
3. the wall clock may step back, across a window or across the session roll;
4. a store without transactions shows half a batch to a reader or to a restart;
5. stored fields may be lost or corrupted;
6. operators overlap with each other and with a refreshing engine, and die
   half-way;
7. what a decision reads (position, working orders, counters) is as old as the
   orders in flight, and the kill switch or the roll of the day may come between
   a decision and its order;
8. a float may be nan;
9. 24 controls, each of which may be unset, stood down, overridden or starved
   of market data, must still add up to a decision that fails closed.

`PROJECT.json` lists each hazard at its line, with the properties that would
catch it.

What makes each part correct:

- *counters*: no acknowledged consumption of an allowance is forgotten; a restart
  agrees with the engine it replaces; the high water mark never falls below what
  it is the maximum of; a torn batch loosens no limit (with two exceptions, see
  section 3), nor does a damaged field (not true);
- *windows*: the count is exact, pruning at the two ends of the deque suffices,
  the limit is not overshot by more than the concurrency allows;
- *control plane*: a suspension is always authorised, bounded and ends by itself;
  a change takes hold at the next refresh; a clear re-arms;
- *session*: each limit is overshot by no more than the orders in flight, the kill
  switch stops all but those, the day's figures go exactly at the roll;
- *decision*: fails closed, well-formedness is never stood down, the legs are
  independent, more risk or tighter limits never admit, a position is never
  trapped.

## 2. Modules and how they correspond to the code

| Module | Models | Notes |
|---|---|---|
| `Encoding` | `encoding.py`, `_as_count` | the classes of text readers tell apart: a number, absent, blank, damaged |
| `StateStore` | `store.py`, `sqlite_store.py` | what `set_many` may commit next: everything, or the next key of the batch (`AtomicBatch`) |
| `Counters` | the counters as a value: the roll, `load`'s adoption, `persist`'s snapshot, what each `record_*` does | pure operators; EXTENDS `Encoding` |
| `EngineCounters` | the counters against a store, with crashes and callers; `reset_daily_loss_limit` | EXTENDS `Counters`, `StateStore` |
| `AllowanceLedger` | abstract: a durable ledger of consumed allowances | knows nothing of the engine |
| `EngineLedger` | the refinement mapping from the counters to the ledger | `Ledger!Spec` as a property |
| `MessageWindows` | `windows.py`, the duplicate and rate controls, `record_order_sent` | stands alone |
| `ControlPlane` | `controls.py`, `refresh_overrides`, `_bypass_active` | EXTENDS `StateStore` |
| `Decision` | `evaluate`, all controls with their codes, `OrderRequest`'s derived values, `_floor`, `_breached`, `stood_down_controls`; the types of orders, figures and limits (`OrderRequest`, `FigureType`, `LimitType`) | pure operators |
| `Desk` | a desk trading under `Decision` while limits, switches and figures move; `RiskLimits.disable` and `enable` | EXTENDS `Decision` |
| `TradingDay` | `trading_day` | the shift, and the documented rule |
| `TradingSession` | strategies, order manager and venue around `Decision`, `Counters` and `TradingDay` | EXTENDS all three |
| `EngineCountersProofs`, `EngineLedgerProofs`, `MessageWindowsProofs`, `ControlPlaneProofs`, `DeskProofs`, `TradingSessionProofs`, `TradingDayProofs` | theorems about the module they are named after | checked by TLAPS |
| `TornWriteProofs` | theorems about `EngineCounters` over a store written key by key | EXTENDS `EngineCountersProofs` |
| `MC...` | instances for TLC | values for the constants |

An `await` is a boundary between actions, and nothing else is. So a `record_*`
call is one action up to its await (`RecordNotional`: roll, change, snapshot),
then one or more `StoreWrite`, then `Return`; `load` is `LoadRead` (the batch
read), `LoadApply` (from there to the await in its own `persist`), `StoreWrite`s
and `Return`; `refresh_overrides` is `RefreshOverrides`, `RefreshRead`s and
`RefreshApply`. `evaluate` and `record_order_sent` never await and are one action
each. `Ready` says that callers report only to an engine that has loaded, as
the README's usage section shows.

`EngineCounters` in detail: `mem` is the engine's counters by key, `store` the
texts, `op`/`snap`/`left` the call a writer has in progress, the snapshot it took
and the keys still to write. `Rolled` is `_roll_trading_day`, `Loaded` is the body
of `load`, `Encoded` is `persist`'s dictionary. The history variables `due`,
`spent`, `fills` and `unsaved` are read by no action of the program: they record
what has been acknowledged to callers, per trading day, for the ledger
properties. Consumption counts once the call has returned; an allowance handed
back counts as soon as it is reported. That is the only reading under which a
crash in the middle of a call is not the engine's fault.

`ControlPlane`: `cache` is the engine's four override attributes; `texts`/`left`
an operator's batch, `raw`/`unread` a refresh in progress. `grants`, `asked`,
`current`, `inForce`, `unopposed` and `rearmed` are history.

`MessageWindows`: `events` is the deque itself, popped at both ends by `Pruned` as
the two loops do; `seen` the dictionary. An evaluation may also be refused by a
control of the other 22, which leaves the windows pruned and the order unsent.

`Decision`: a threshold per control or `None`; `Runs` is `_runs`, `Check` the
dispatch of `CONTROL_SEQUENCE`, `Evaluate` the walk with the first objection, whose
control and `RejectCode` are the verdict. A quantity or price is a whole number or
`NaN`. Python's comparisons with nan are false, so each one is written in the
direction the code writes it: `MaxQuantity` accepts if the quantity is at most the
limit, and refuses nan; `Breached` refuses if the P&L is at most the floor, and lets
nan through.

`Desk`: `Trade` lets the desk be filled, in part or in full, on an accepted order.
`FigureMoves` stands for the other modules: a figure may take any of its values.

`TradingSession` is the usage example of the repository's `README.md` with the awaits
spelled out. `Evaluates` is `evaluate` (which rolls the day whatever it answers);
`Send` the order reaching the venue; `Reports` what runs when the strategy
resumes, `record_order_sent` and `record_notional` up to its await. The venue's
answers are calls of `record_order_accepted`, `record_order_rejected` and
`record_execution`, and `HandsBack` is `record_notional` of a negative amount. They
come in any order, also before the report. The order manager is external: it is
taken to count an order as working from its report to its end and to know exactly
the fills it was told of. `book` holds the orders in hand or in flight; one that is
reported and closed leaves it (`Updated`). `Pending` counts the units still out
on one side, as a set of pairs of an order and a unit. `tally` and `sinceKill` are history. The rate and
duplicate windows, the store and a crash are not part of it; they are in
`MessageWindows` and `EngineCounters`, whose actions the counters here share.

### The ledger the counters implement

`AllowanceLedger` says what the engine promises its callers: consumption counts at
once, what was acknowledged is owed, a crash may lose what nobody was told of and
nothing else, a throttle is forgiven only by a call, the daily figures are renewed
by the day. `EngineLedger` maps it: *counted* is what the running engine holds for
today, and while none runs what a restart would make of the store; *owed* is the
history of acknowledged calls. `ImplementsLedger` says every step of
`EngineCounters` is a step of the ledger or a stutter: so the write to the store is
invisible, the crash is a `Stop` that keeps each figure at what is owed or more, and
`load` resumes with what the store already said.

## 3. Runs

| Run | Question | Bounds | Result |
|---|---|---|---|
| `counters_sqlite` | Is acknowledged consumption ever forgotten, does a restart agree, are the counters a durable ledger? | one coroutine, 4 calls, 2 days, both legs, gains, losses, hand-backs, failed writes | holds |
| `counters_torn` | What can a torn or damaged snapshot do to a restart? | one coroutine, 2 calls, 2 days, a P&L that goes through its mark, hand-backs, failed writes, retried loads, clock steps back, one damaged field | holds |
| `counters_reordered` | Is acknowledged consumption ever forgotten, with two coroutines? | no failures but a crash | **violated** |
| `counters_clock_back` | ... when the clock is corrected across the roll? | no crash needed | **violated** |
| `counters_damaged` | Does every lost field tighten? | one field, one day | **violated** |
| `counters_load_retried` | Does a load start a new day fresh? | one coroutine, one call, an atomic store whose write may fail, 2 days | **violated** |
| `windows` | Are the windows exact and bounded, how far is the limit overshot? | 2 strategies, limit 1, windows of 2 and 3 ticks, clock 0..3, 3 sends, one correction | holds |
| `control_plane` | Is every suspension authorised, does every change take hold, does a clear re-arm, does the limit re-arm itself? | 2 operators, 1 refresher, 2 calls, durations on both sides of the maximum, caps positive, zero and non-finite, one corrupted expiry, key-by-key store | holds |
| `control_plane_torn` | Is the stored record attributed? | no damage, key-by-key store | **violated** |
| `decision` | Does the decision fail closed, stay monotone, never trap, report what was suppressed? | fully armed limits, any two departures, position within 3, some 50 orders, missing and nan inputs | holds |
| `decision_nan` | Does the loss limit fail closed? | a live result of nan | **violated** |
| `session` | How far do orders in flight overshoot each limit? | 2 strategies, 4 orders of 2, one working order, limits of one order, 3 clock readings across one roll | holds |

Why the bounds are enough. *Counters*: every action changes at most one figure,
and each property compares one figure before and after a crash, a roll or a torn
write; two overlapping calls and two days show every order of snapshot, commit,
crash and roll, and four calls are enough for consume, hand back, acknowledge and
consume again. A torn batch matters to the loss limit only relative to what the
store held, so two calls (one whose batch is written, torn or lost, and a second
one that is torn), with the loads around them, show whether the P&L may be written
before its mark; the results of `TradesAroundPeak` take the P&L up to the mark,
through it and below. What more calls and coroutines do to a torn store, and a
restart from it, is left to the theorems of section 4: they bound no calls, and
say where they cover one coroutine only. *Windows*: a clock of twice the shorter
window with more sends than the limit reaches each boundary (an entry exactly one
window old, one ahead of the clock) and every order of the deque one correction
can produce. *Control plane*: a bypass, a second call of any kind overlapping it,
a refresh at every point of both, the lapse, and at most one corrupted expiry, the
field a suspension hangs on. One coroutine refreshes; that overlapping refreshes obey
`RefreshTakesHold` as well is the theorem `ChangesTakeHold`, and that a store with
transactions keeps the attribution `StoredBypassAudited` (section 4). *Decision*: the controls share no
state, so what can go wrong is a pair (a switch and an unset limit, a figure and
an override); two departures are all pairs. *Session*: each overshoot is reached
(every bound is tight in this instance) by two strategies evaluating before either
reports, and the hand-back across the roll needs one order of the day before and
three of the day after; four orders are the fewest that show it.

Deadlock is checked in every run: nothing here may stop for good, because the
environment (a restart, a crash, a clock tick) always has a next step.

### Fairness

Only `ControlPlane` states any: `WF_vars(Tick)`, time passes. It is what
`LimitRearmsItself` needs, and nothing more is assumed: no operator, no refresh
and no restart is promised, which is the point of the property ("Turning it
back on requires no action"). The other modules state safety only.

### What the violations show

1. `counters_reordered` — `persist` (`engine.py:233`) does not serialise its
   batches. Two fills reported by two coroutines snapshot 1 and then 2; if the
   second commits first, the store ends at 1, and a crash hands one execution
   back although both calls had returned. `engine.py:136` says a crash-restart
   loop cannot earn a fresh allowance.
2. `counters_clock_back` — `_roll_trading_day` (`engine.py:182`) fires on any
   *change* of day. A correction across the roll zeroes the day's loss, notional
   and rejections for good; `clock.py:17-20` names only a briefly wider rate
   window as the cost.
3. `counters_damaged` — `load` reads a lost P&L, notional or count as zero, and a
   lost trading day as a fresh day. `engine.py:201-204` and `README.md:442` say
   every field degrades toward more protection. That is true of a lost high
   water mark, and proved of it (`PeakAlwaysCovers`).
4. `control_plane_torn` — the flag and the expiry are written before the
   attribution (`controls.py:107`), so over a store without transactions an
   active bypass can carry nobody's name, or that of an overlapping clear.
   `controls.py:23` says every bypass records who authorised it.
5. `counters_load_retried` — `load` (`engine.py:213`) assigns the day's figures only
   if the stored day is today, and clears them nowhere. A first load adopts them, its
   write raises, and the day rolls before `load` is called again on the same engine:
   the figures stay and are stamped with the new day. The trace keeps a loss; with a
   gain the new day starts with P&L nobody made on it. `engine.py:201-202` says
   "Only same-trading-day state is adopted; anything else starts the day fresh".
6. `decision_nan` — `_breached` (`engine.py:395`) asks whether the P&L is at or below
   the floor. Once a nan result was reported the answer is no for the rest of the
   day, and because `encode_float` stores nan as `0` a restart forgets the loss as
   well. `README.md:408` says an armed control that cannot be evaluated rejects.
   Every other float control is written the other way round and does
   (`FailClosed`).

Six more things the models show, for which there is no run of their own. The last
two are cases that a property leaves out on purpose: take the condition away and TLC
finds the property violated, the first of them with a third call (`counters_torn`
with `MaxCalls = 3`), the other within the bounds of `counters_torn`.

- *the rate limit is exact for one strategy only.* `windows.py:39-41` says it admits
  exactly N orders in any one-second span; counting and recording are separate
  calls, and `OvershootBounded`, which is tight, says how far off it is: one order
  for each further strategy. The "limit + 1" of `windows.py:21` is `DequeBounded`
  for two strategies.
- *a late acknowledgement lifts the reject throttle.* `record_order_accepted`
  (`engine.py:314`) zeroes the count whichever order it is about, also when another
  order's rejection has just tripped it, although `limits.py:98` says the strategy
  must be re-armed. `ThrottlesOvershoot` bounds the rejections in between.
- *a runtime cap loosens as well as it tightens.* `controls.py:190` calls it "a tuning
  knob, not a safety-loosening override", but `effective_max_order_notional`
  (`engine.py:453-465`) returns the cap in place of the configured limit whichever is
  larger, and `test_override_loosens_within_the_session` (`tests/test_controls.py:282`)
  asks for that. `OverrideReplacesLimit` says what the engine does: an order gets a
  different verdict exactly where the cap stops it and the limit does not, or the other
  way round, and no other control answers first. It is violated by an engine whose
  cap only tightens (`ThresholdTighter`), the reading of `controls.py:190`.
- *the loss limit does not halt the day.* `limits.py:61-62` describes the drawdown
  "before trading halts for the day"; `_breached` (`engine.py:395`) is asked again for
  each order, so a gain reported after the breach (an open position closing) lifts the
  halt. A property asking for a halt until the roll would be refuted by any gain;
  `docs/ptrm-capability-map.md:101` lists the latch as missing.
- *a torn batch after a lost one loosens the loss limit.* A gain raises the P&L and its
  high water mark in memory, and its batch is lost (`set_many` raises). The next
  batch writes the P&L two keys before the mark (`engine.py:233`), and the process
  dies between the two. The restart reads the gain with the old mark: less of a
  drawdown than the store before the batch showed, and less than the finished batch
  would have. `store.py:57-59` says the outcome of a torn snapshot "is a
  conservative limit rather than a wrong one". `TornLossConservative` says what
  remains of that; its condition `~unsaved` leaves this case out.
- *a torn batch on a new day may loosen the notional.* Orders of the day before are
  cancelled, so a day may end with its notional below zero. The first batch of the
  next day writes the date first; a crash after that key leaves the old notional
  under the new date, and `load` adopts it. Neither the old store nor the finished
  batch allows as much. It is the exception in `TornCountsConservative`.

## 4. Proofs

Every theorem below is checked by TLAPS for all values of the constants, from the
assumptions the modules declare for them and from nothing else, unless it names a
further one. The bounds of the runs (callers, calls, days, orders, the range of the
clock) are constants here as well, and may be any number. A strengthened invariant is
proved inductive, so it holds on the instances of the runs too.

### The counters

`EngineCountersProofs`.

- `TypeCorrect` and `PeakAlwaysCovers` come from one inductive invariant,
  `SoundInv`: `TypeOK` and `Sound(mem)`. The mark alone is not inductive: a load
  takes it from the store, so one needs to know what the texts may be (any, and
  then `LoadedSound` re-derives the mark as the maximum), and a roll needs the
  counters to be typed. Each action has a step of its own; `PersistSound` carries
  what all `record_*` calls share. They hold for any store, torn or damaged, and
  any clock.
- `AgreementInv` (`AgreementNext`) is inductive under `SingleReporter`: one caller, an
  atomic store, a clock that never steps back, a failed load that ends the process.
  While a call is writing, its snapshot agrees with memory; once written, the store
  does. *Agree* has to speak of every day from the counters' own on, not only of
  today, because the day may roll between the write and the restart. The ledger
  below rests on it. Damage is allowed: it strikes a stopped engine, and the load
  that follows writes a fresh snapshot.

`TornWriteProofs` is about the same counters over any store, in particular one that
is written key by key. `OneReporter` (a single reporting coroutine) is what most of
it assumes, and never an atomic batch, a write that succeeds or a load that is not
retried.

- `TornCounts` assumes nothing. A restart takes each count either from the key just
  written or from the text that was there (`RestartedFigures`), so it is that of the
  store before or of the finished batch. Only the trading day, the first key of a
  batch (`NextKey`), decides about other keys: written, it makes the day's figures
  count where there were none, or no longer count, as in the finished batch. A
  figure that appears is zero or more, except for a notional handed back: hence the
  exception.
- `TornLoss` assumes `OneReporter`. A P&L is written before its mark, so between the
  two keys a restart may see a gain without the mark that goes with it. That is
  harmless as long as the mark is raised, if at all, to the P&L that has just been
  written, since `load` takes the larger of the two. `WrittenInStep` is the invariant
  that says so (`StoreInStep`): between calls the stored mark is not behind the
  engine's (`MarkStored`), the next snapshot raises it at most to its own P&L
  (`OneCallBehind`), and what is written of a batch is what its snapshot says. The
  part about the store is lost with a batch, and so is the property
  (section 3).
- `RestartAgrees` assumes `OneReporter` and a clock that does not step back. The
  invariant, `TornAgreement`, is what is left of `AgreementInv` when batches may be
  torn or lost: the snapshot of a call agrees with memory, and between calls the
  store does, unless a failed write is outstanding. It is inductive together with
  `WrittenInStep`: at the last key of a batch the store *is* the snapshot
  (`WrittenToTheEnd`). A load that is retried over a rolled day is no exception: it
  keeps figures it should not, and writes down what it keeps.
- `ExecutionsNeverForgotten` assumes `OneReporter` and no damage; the clock may step
  back. The invariant, `ExecutionsKept`, follows one key through its three places: the
  store counts what has been acknowledged, and memory and the snapshot under way also
  what the call will acknowledge. The executions are not of a day, so no roll and
  no torn date can hide them.

`EngineLedgerProofs` assumes `DurableSetting`: `SingleReporter` and no damage. It excludes
what `counters_reordered`, `counters_clock_back` and `counters_damaged` turn on, retried
loads, and batches written key by key: a date that is written before its figures
puts the gains of one day under the next for a moment, and a crash then makes them
stay. The ledger cannot do without any of it: drop a
condition, and TLC finds `DayLedgerKept` or `NoFreeAllowance` violated.

- `LedgerKept`: what was acknowledged stays counted.
  `LedgerInv` says it of the three places a figure passes through: memory covers
  what is owed and what the call in progress will be owed (`MemoryBacks`); the
  store covers what is owed (`StoreBacks`), and once the call is written, its
  claim too (`StoreBacksClaim`). All three speak of every day to come, for the same
  reason as *Agree*. `HistoryInv` and `DayInv` say that nothing is of a day to come,
  `LoadInv` that a load reads what the next restart would, and `ConsoleInv` that
  nothing is owed of a P&L an operator's reset is about to zero.
- `CountersImplementLedger`: `Spec => ImplementsLedger`, the refinement. One lemma per
  kind of action maps it to a step of `AllowanceLedger` or a stutter: calls
  (`CallerRefines`, from `AccountStep` and `ForgiveStep`), the write, which nobody sees
  (`StoreWriteRefines`), the acknowledgement (`ReturnRefines`), the crash
  (`CrashRefines`), an operator's reset (`WaiveRefines`) and the next day
  (`NewDayRefines`).

### The windows

`MessageWindowsProofs` assumes `WindowsAssumption` only: any number of strategies,
any lengths of the windows, any clock.

- `DequeStaysBounded`. `DequeBounded` counts the entries *and* the orders still to be
  reported, which makes it inductive once the variables have their shape
  (`BoundInv`): an accepted order adds one to the second, but then the deque was below
  the limit and the strategy itself had nothing to report (`RoomForOne`); a report
  moves one from the second to the first; pruning only shrinks (`PrunedShrinks`).
- `WindowsTypeCorrect`, with the deque sorted (`DequeInv`): entries ahead of the clock
  are pruned before a report is appended, so it is the latest (`AppendSorted`).
  On a sorted deque popping at the two ends leaves exactly the entries within the
  window (`PrunedKeeps`).
- `PruningExact`: so the deque after a prune is the list of those entries, each in
  its place. The property says it by their number and by the rank of each, without
  a filter over the sequence, whose recursive definition no prover could use.
- `RateCountHonest`. The entries stand for reports: there is a one-to-one map from the
  deque into `sends` (`Matches`), and while the clock has run forwards no report of
  the window is outside its range. So the count is never too high, and exact without
  a correction.
- `OvershootStaysBounded`: as long as the clock has not been corrected, orders that
  went out in the window and are not in the deque are still to be reported
  (`RecentAccounted`), so the bound on the deque bounds them. The property speaks of
  every window, not only the current one: a send falls only into windows that end now
  or later, and those hold no more than the recent orders (`LaterWindows`).
- `NoQuickResubmission`: as long as the clock has not been corrected, `seen` remembers a
  reported order for its window (`Remembered`), and an accepted order has no identical
  one of its strategy within it (`Clear`). The latter needs that a strategy reports
  one order before it evaluates the next (`SendsInv`).

### The control plane

`ControlPlaneProofs` assumes `ControlPlaneAssumption`, which leaves names and reasons
free: any text but a blank one, which the calls are given as well. Any number of operators and refreshers, key-by-key
stores and damage are covered.

- `SuspensionAuthorised`, `CapsAuthorised`: by `SourceInv`, every expiry and every cap,
  whether stored, about to be written, half read or in the engine's cache, is one
  that was asked for. That is preserved key by key, so tearing does not matter
  (`SourcedTorn`), and a damaged text only takes an expiry or a cap away. `GrantsInv`
  adds what the validation in `bypass_loss_limit` lets through.
- `ChangesTakeHold`: `ReadingInv` relates a refresh in progress, of which some keys
  are read and since whose beginning nothing changed, to the store.
- `ClearTakesHold`: `RearmInv` says that only a bypass in progress can still write a flag
  that suspends, and follows a clear that nothing overlapped through its writes.
- `StoredBypassAudited` assumes `AtomicBatch`, the very thing `control_plane_torn` lacks:
  then a call has written all of its record or nothing (`AttributionInv`).

### The desk

`DeskProofs` assumes `DecisionAssumption` (settings, figures and orders are of their
types) and `FloatAssumption` (`None` and `NaN` are no numbers, switches or
codes). No invariant beyond `TypeOK` is needed: these theorems are about what `Evaluate`
makes of *every* typed input, which the runs only sample.

- `Refused` and `Passed` are the walk: an order is refused exactly if some control that
  runs objects. `AcceptedWellFormed`, `SuppressionReported` and `BlindControlsReject` come
  from it; the last for every control but the loss limit (run `decision_nan`), with one
  case per control (`StarvedObjects`), each in the direction its comparison is written,
  since nan is on no side of one.
- `NeverATrap` and `RiskStaysWithinLimit`, from `PositionLimitIs`: what the projected
  position of an order is, and when the limit takes it for a reduction.
- `LegsStayIndependent`, `OverridesReplaceLimits`: the first control whose outcome two
  decisions disagree on, unless one before it answers, is what tells their verdicts
  apart (`FirstDifference`). The outcomes depend on the figures each control reads
  (`FiguresRead`), and a cap is read by its own size control alone (`SizeAnswers`).
- `RiskIsMonotone`: each control's objection survives a tighter threshold and worse
  figures (`LossMonotone`, `BandMonotone`, `FloatMonotone`, `CountMonotone`, together
  `ControlMonotone`), hence so does a refusal.

### The session

`TradingSessionProofs` assumes what `TradingSession`, `TradingDay` and `Decision` declare.
`Base` holds the types, that the counters are of no later day than today, and
that a strategy has one order in hand at most. `SessionStep` classifies every step by
what it does to the book: `Accepting` appends an order, `Turning` moves one order on
(a report, a send, a rejection, a fill, a cancellation, notional handed back),
`Quiet` leaves it alone. Each bound is then argued over these three and not
over the actions.

- `WorkingOvershootBounded` is inductive with `Base`: a decision counts the working
  orders, so all but the last strategy's are within the limit.
- `ThrottlesOvershootBounded` strengthens the bound by what is still out: every fill
  uses up a unit, every rejection an order (`ThrottlesInv`). Without the second summand
  the bound is not inductive.
- `NotionalOvershootBounded` likewise by the orders not yet reported (`NotionalInv`);
  with `CountersRollAtTheRoll` it becomes a statement about what was traded on the day.
- `PositionOvershootBounded`: a fill moves units from `Pending` to the position, and
  everything else only takes away from what is pending.
- `KillFileStops`: between two sends of a strategy there is a decision, which the file
  refuses (`KillInv`).
- `CountersRollAtTheRoll`: an action that reads or changes a counter rolls first, so the
  counters are those of the documented day, whatever the length of the day.

`TradingDayProofs` assumes `RollAssumption`, the range `RiskLimits` enforces.
`DayMonotone`: a forward clock never returns to an earlier day, which is what lets
`_roll_trading_day` forget a day on any change. `DayAsDocumented`: the shift is
the documented rule at every instant, the roll itself included.

### Only model-checked

- `LimitRearmsItself`: liveness under fairness is out of the prover's reach.
- The six violations are counterexamples, which is TLC's business.

Every other property of the passing runs is a theorem.

## 5. Not modelled, and why

- Binary64: amounts are integers, or nan in `Decision`. Rounding and infinities are
  irrelevant to the orders of events and left out.
- The rendering of the trading day as an ISO date: days are counted.
- The number grammar and the 17-digit round trip of `encoding.py`: a number reads
  back as itself.
- The wording of a reject and the `limit` and `observed` fields of a decision;
  `control_status` and `running_controls`, which list `Runs` in order.
- `RiskLimits.__post_init__`'s refusals of non-positive numbers and of names that
  are not controls: what they let through is `LimitType`, and `DecisionAssumption`
  says that a desk's settings are of it.
- A loss limit that latches: the code has none (section 3).
- SQLite's own locking and files; `get` and `set` of a single key are batches of one.
- The windows' `reset`, which the engine does not call.
- `__init__.py`, `examples/demo.py`, the tests.

## 6. Plan

Done, in this order: `Encoding`, `StateStore`, `EngineCounters` and its first
proofs; `MessageWindows`; `ControlPlane`; `Decision` and `Desk`; `Counters`,
`AllowanceLedger` and the refinement; `TradingDay` and its proofs;
`TradingSession`; the bound of the deque, proved; then the proofs of the ledger
and its refinement, the windows, the control plane, the desk and the session;
then torn batches, with the restart and the executions over any store.

Next:

1. `RestartAgrees` and `LedgerKept` for several callers that take turns.
2. The windows and a crash with orders in flight composed into `TradingSession`.
3. `ControlPlane` under a backwards clock; the loss-limit reset against a running
   engine.
