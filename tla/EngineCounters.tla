---------------------------- MODULE EngineCounters ----------------------------
(***************************************************************************)
(* The counters of PreTradeRiskEngine and their life in the store.         *)
(*                                                                         *)
(* Callers are the coroutines of the trading process.  A record_* call     *)
(* rolls the trading day, changes the counters in memory, takes a snapshot *)
(* of all of them and awaits the store's set_many; other coroutines run    *)
(* while it waits.  The engine may crash at any moment and is then started *)
(* again and loads.  Console is the operator's process, which resets the   *)
(* loss limit in the store of a stopped engine.                            *)
(*                                                                         *)
(* The clock is modelled at the granularity of trading days: nothing here  *)
(* reads it for anything but the day.                                      *)
(***************************************************************************)
EXTENDS Counters, StateStore

CONSTANTS
    Callers,        \* coroutines that report to the engine
    Console,        \* the operator's process
    Trades,         \* <<leg, amount>> pairs record_realized_pnl may be given
    Notionals,      \* amounts record_notional may be given; negative hands back
    WritesMayFail,  \* set_many may raise
    LoadRetried,    \* a load whose write raised is called again on the same
                    \* engine; otherwise the process gives up and restarts
    ClockStepsBack, \* the wall clock may be corrected to an earlier day
    DamageBudget,   \* how many stored fields may be lost or corrupted
    MaxDay,         \* bound: trading days 1 .. MaxDay
    MaxCalls        \* bound: calls made over a behaviour

Day == 1 .. MaxDay
Writer == Callers \cup {Console}

ASSUME CountersAssumption ==
    /\ Console \notin Callers
    /\ Trades \subseteq Legs \X Int
    /\ Notionals \subseteq Int
    /\ {WritesMayFail, LoadRetried, ClockStepsBack} \subseteq BOOLEAN
    /\ DamageBudget \in Nat /\ MaxCalls \in Nat
    /\ MaxDay \in Nat \ {0}

VARIABLES
    today,    \* the trading day the wall clock is in
    up,       \* the engine process: "down", "constructed", "running" or "failed"
    mem,      \* the counters in the engine's memory
    store,    \* the text of each key in the store
    op,       \* the call each writer has in progress
    snap,     \* what that call read from the store or is writing to it
    left,     \* the keys that call has still to write
    calls,    \* bound bookkeeping: calls made so far
    damaged,  \* bound bookkeeping: fields damaged so far
    \* History, read by no action of the program.
    unsaved,  \* a write raised and no later one has completed
    due,      \* what a call in progress will have consumed once it returns
    spent,    \* allowance consumed per day and figure
    fills     \* executions acknowledged since the last re-arm

engine == <<up, mem>>
writers == <<op, snap, left>>
history == <<unsaved, due, spent, fills>>
vars == <<today, engine, store, writers, calls, damaged, history>>

-------------------------------------------------------------------------------
(* Steps every call shares *)

NoSnap == NoRows(Key)
NothingDue == [figure |-> "rejects", use |-> 0, day |-> 1]

Idle(w) == op[w] = "idle"

\* The call may begin: the engine has loaded and this coroutine is free.
Ready(w) == up = "running" /\ Idle(w) /\ calls < MaxCalls

\* Mutant of Persist: the snapshot is of the counters before the call.
PersistBefore(w, name, m) ==
    /\ mem' = m
    /\ op' = [op EXCEPT ![w] = name]
    /\ snap' = [snap EXCEPT ![w] = Encoded(mem)]
    /\ left' = [left EXCEPT ![w] = Key]

\* The synchronous part of a call: the counters become m, and persist takes
\* its snapshot of them before the first await.
Persist(w, name, m) ==
    /\ mem' = m
    /\ op' = [op EXCEPT ![w] = name]
    /\ snap' = [snap EXCEPT ![w] = Encoded(m)]
    /\ left' = [left EXCEPT ![w] = Key]

CallBegins ==
    /\ calls' = calls + 1
    /\ UNCHANGED <<today, up, store, damaged, unsaved>>

\* History: an allowance handed back counts from the moment it is reported,
\* one consumed only once the call has returned to its caller.
Account(w, figure, use) ==
    /\ fills' = fills
    /\ IF use > 0
       THEN /\ due' = [due EXCEPT ![w] = [figure |-> figure, use |-> use, day |-> today]]
            /\ spent' = spent
       ELSE /\ due' = due
            /\ spent' = [spent EXCEPT ![today][figure] = @ + use]

\* History: the consumption of a figure so far no longer counts.
Forgiven(figures) ==
    /\ due' = [w \in Writer |->
                  IF due[w].figure \in figures THEN NothingDue ELSE due[w]]
    /\ spent' = [d \in Day |-> [f \in DayFigures |->
                    IF f \in figures THEN Smaller(0, spent[d][f]) ELSE spent[d][f]]]

-------------------------------------------------------------------------------
(* The engine's calls *)

RecordRealizedPnl(w, leg, amount) ==
    /\ Ready(w)
    /\ Persist(w, "record_realized_pnl", PnlAdded(mem, today, leg, amount))
    /\ Account(w, leg, -amount)
    /\ CallBegins

RecordNotional(w, amount) ==
    /\ Ready(w)
    /\ Persist(w, "record_notional", NotionalAdded(mem, today, amount))
    /\ Account(w, "daily_notional", amount)
    /\ CallBegins

RecordOrderRejected(w) ==
    /\ Ready(w)
    /\ Persist(w, "record_order_rejected", RejectNoted(mem, today))
    /\ Account(w, "rejects", 1)
    /\ CallBegins

RecordOrderAccepted(w) ==
    /\ Ready(w)
    /\ Persist(w, "record_order_accepted", AcceptanceNoted(mem, today))
    /\ Forgiven({"rejects"})
    /\ fills' = fills
    /\ CallBegins

RecordExecution(w) ==
    /\ Ready(w)
    /\ Persist(w, "record_execution", ExecutionNoted(mem, today))
    /\ Account(w, "executions", 1)
    /\ CallBegins

Rearm(w) ==
    /\ Ready(w)
    /\ Persist(w, "rearm", Rearmed(mem, today))
    /\ Forgiven({"rejects", "executions"})
    /\ fills' = 0
    /\ CallBegins

\* evaluate, and the public properties that show a figure of the day, roll the
\* day in memory and write nothing.  (executions_since_rearm does not roll; the
\* roll does not touch it.)
Observe ==
    /\ up = "running"
    /\ mem' = Rolled(mem, today)
    /\ UNCHANGED <<today, up, store, writers, calls, damaged, history>>

-------------------------------------------------------------------------------
(* The engine's life *)

Start ==
    /\ up = "down"
    /\ Idle(Console)
    /\ up' = "constructed"
    /\ mem' = NewMem(today)
    /\ UNCHANGED <<today, store, writers, calls, damaged, history>>

\* load, up to its first await: get_many, as one read of all the keys.  A store
\* without transactions reads key by key, which makes no difference here: no
\* other call is in progress, and none begins before the load has returned.
LoadRead(w) ==
    /\ up = "constructed"
    /\ \A v \in Writer : Idle(v)
    /\ op' = [op EXCEPT ![w] = "load_read"]
    /\ snap' = [snap EXCEPT ![w] = store]
    /\ UNCHANGED <<today, engine, store, left, calls, damaged, history>>

\* load, from there to the await of its own persist.
LoadApply(w) ==
    /\ op[w] = "load_read"
    /\ Persist(w, "load", Loaded(snap[w], mem, today))
    /\ UNCHANGED <<today, up, store, calls, damaged, history>>

\* The process dies: memory and every call in progress are gone.
Crash ==
    /\ up # "down"
    /\ up' = "down"
    /\ mem' = NewMem(1)
    /\ op' = [w \in Writer |-> IF w \in Callers THEN "idle" ELSE op[w]]
    /\ snap' = [w \in Writer |-> IF w \in Callers THEN NoSnap ELSE snap[w]]
    /\ left' = [w \in Writer |-> IF w \in Callers THEN {} ELSE left[w]]
    /\ due' = [w \in Writer |-> NothingDue]
    /\ unsaved' = FALSE
    /\ UNCHANGED <<today, store, calls, damaged, spent, fills>>

-------------------------------------------------------------------------------
(* The store *)

\* Mutant of StoreWrite: the batch drops the old rows before it writes its own.
StoreWriteAfterDelete(w) ==
    /\ left[w] # {}
    /\ \E batch \in Batches(PersistOrder, left[w]) :
        /\ store' = Overwritten(IF left[w] = Key THEN NoRows(Key) ELSE store, batch, snap[w])
        /\ left' = [left EXCEPT ![w] = @ \ batch]
        /\ unsaved' = (unsaved /\ left[w] # batch)
    /\ UNCHANGED <<today, engine, op, snap, calls, damaged, due, spent, fills>>

\* set_many commits the next keys of the call's snapshot.
StoreWrite(w) ==
    /\ left[w] # {}
    /\ \E batch \in Batches(PersistOrder, left[w]) :
        /\ store' = Overwritten(store, batch, snap[w])
        /\ left' = [left EXCEPT ![w] = @ \ batch]
        /\ unsaved' = (unsaved /\ left[w] # batch)
    /\ UNCHANGED <<today, engine, op, snap, calls, damaged, due, spent, fills>>

\* The call returns.  load is what makes the engine ready for the others.
Return(w) ==
    /\ op[w] \notin {"idle", "load_read"}
    /\ left[w] = {}
    /\ op' = [op EXCEPT ![w] = "idle"]
    /\ snap' = [snap EXCEPT ![w] = NoSnap]
    /\ up' = IF op[w] = "load" THEN "running" ELSE up
    /\ IF due[w].figure = "executions"
       THEN fills' = fills + due[w].use /\ spent' = spent
       ELSE /\ spent' = [spent EXCEPT ![due[w].day][due[w].figure] = @ + due[w].use]
            /\ fills' = fills
    /\ due' = [due EXCEPT ![w] = NothingDue]
    /\ UNCHANGED <<today, mem, store, left, calls, damaged, unsaved>>

\* set_many raises with some keys unwritten.  What the call changed in
\* memory stays changed.
WriteFails(w) ==
    /\ WritesMayFail
    /\ left[w] # {}
    /\ op' = [op EXCEPT ![w] = "idle"]
    /\ snap' = [snap EXCEPT ![w] = NoSnap]
    /\ left' = [left EXCEPT ![w] = {}]
    /\ due' = [due EXCEPT ![w] = NothingDue]
    /\ up' = IF op[w] = "load" /\ ~LoadRetried THEN "failed" ELSE up
    /\ unsaved' = (unsaved \/ w \in Callers)
    /\ UNCHANGED <<today, mem, store, calls, damaged, spent, fills>>

-------------------------------------------------------------------------------
(* The operator and the environment *)

\* reset_daily_loss_limit, called as it asks to be: against a stopped engine.
ResetKeys == Legs \cup Peaks

ResetDailyLossLimit ==
    /\ up = "down"
    /\ Idle(Console)
    /\ calls < MaxCalls
    /\ op' = [op EXCEPT ![Console] = "reset_daily_loss_limit"]
    /\ snap' = [snap EXCEPT ![Console] = [k \in Key |-> EncodeFloat(0)]]
    /\ left' = [left EXCEPT ![Console] = ResetKeys]
    /\ Forgiven(Legs)
    /\ calls' = calls + 1
    /\ UNCHANGED <<today, engine, store, damaged, unsaved, fills>>

\* A field of a stopped engine's store is lost or corrupted.
DamageKey ==
    /\ up = "down"
    /\ damaged < DamageBudget
    /\ \E k \in Key, text \in {Absent, Damaged} :
        store' = [store EXCEPT ![k] = text]
    /\ damaged' = damaged + 1
    /\ UNCHANGED <<today, engine, writers, calls, history>>

NewDay ==
    /\ today < MaxDay
    /\ today' = today + 1
    /\ UNCHANGED <<engine, store, writers, calls, damaged, history>>

ClockBack ==
    /\ ClockStepsBack
    /\ today > 1
    /\ today' = today - 1
    /\ UNCHANGED <<engine, store, writers, calls, damaged, history>>

-------------------------------------------------------------------------------
Init ==
    /\ today = 1
    /\ up = "down"
    /\ mem = NewMem(1)
    /\ store = NoSnap
    /\ op = [w \in Writer |-> "idle"]
    /\ snap = [w \in Writer |-> NoSnap]
    /\ left = [w \in Writer |-> {}]
    /\ calls = 0 /\ damaged = 0
    /\ unsaved = FALSE
    /\ due = [w \in Writer |-> NothingDue]
    /\ spent = [d \in Day |-> [f \in DayFigures |-> 0]]
    /\ fills = 0

CallerNext(w) ==
    \/ \E trade \in Trades : RecordRealizedPnl(w, trade[1], trade[2])
    \/ \E amount \in Notionals : RecordNotional(w, amount)
    \/ RecordOrderRejected(w)
    \/ RecordOrderAccepted(w)
    \/ RecordExecution(w)
    \/ Rearm(w)
    \/ LoadRead(w)
    \/ LoadApply(w)

WriterNext(w) == StoreWrite(w) \/ Return(w) \/ WriteFails(w)

EnvironmentNext ==
    Observe \/ Start \/ Crash \/ ResetDailyLossLimit \/ DamageKey \/ NewDay \/ ClockBack

Next ==
    \/ \E w \in Callers : CallerNext(w)
    \/ \E w \in Writer : WriterNext(w)
    \/ EnvironmentNext

Spec == Init /\ [][Next]_vars

-------------------------------------------------------------------------------
(* Properties *)

Figures == [Key -> Int]
Texts == [Key -> WireText]
OpName == {"idle", "load_read", "load", "record_realized_pnl", "record_notional",
           "record_order_rejected", "record_order_accepted", "record_execution",
           "rearm", "reset_daily_loss_limit"}
Due == [figure : DayFigures \cup {"executions"}, use : Nat, day : Day]

\* Every variable has its type: the figures stay numbers, the throttle counts
\* and peaks stay non-negative, whatever the store held.
TypeOK ==
    /\ today \in Day
    /\ up \in {"down", "constructed", "running", "failed"}
    /\ mem \in Figures
    /\ mem["trading_day"] \in Day
    /\ mem["rejects"] >= 0 /\ mem["executions"] >= 0
    /\ store \in Texts
    /\ op \in [Writer -> OpName]
    /\ snap \in [Writer -> Texts]
    /\ left \in [Writer -> SUBSET Key]
    /\ calls \in 0 .. MaxCalls
    /\ damaged \in 0 .. DamageBudget
    /\ unsaved \in BOOLEAN
    /\ due \in [Writer -> Due]
    /\ spent \in [Day -> [DayFigures -> Int]]
    /\ fills \in Nat

\* The loss limit trails the high water mark, so the mark may never fall below
\* the P&L it is the maximum of, nor below zero (_floor, loss_limit_headroom):
\* not through a roll, a restart from a damaged or torn store, or a reset.
PeakCoversPnl ==
    \A leg \in Legs : mem[PeakOf(leg)] >= Larger(0, mem[leg])

\* No call is in progress and the engine is up.
Quiet == up = "running" /\ \A w \in Writer : Idle(w)

\* "A restart cannot reset a breached limit": between calls, and unless a
\* write has raised since the last one that completed, an engine restarted
\* from the store would hold exactly the counters the running one shows.
RestartAgreement ==
    Quiet /\ ~unsaved => Restarted(store, today) = Rolled(mem, today)

\* What makes RestartAgreement inductive for one coroutine over an atomic
\* store: the texts agree with the counters on this day and every later one.
Agree(texts, m) ==
    \A d \in Day : d >= m["trading_day"] => Restarted(texts, d) = Rolled(m, d)

\* While a call has its snapshot to write, the snapshot agrees with memory;
\* once written, the store does.
AgreementInv ==
    /\ mem["trading_day"] <= today
    /\ Idle(Console) \/ (up = "down" /\ op[Console] = "reset_daily_loss_limit")
    /\ Idle(Console) => left[Console] = {}
    /\ \A w \in Callers :
        /\ up = "down" => Idle(w)
        /\ op[w] \in {"load_read", "load"} => up = "constructed"
        /\ Idle(w) => left[w] = {}
        /\ left[w] = {} \/ (left[w] = Key /\ Agree(snap[w], mem))
        /\ (op[w] = "load" \/ up = "running") /\ left[w] = {} /\ ~unsaved =>
               Agree(store, mem)

\* How much of a figure's allowance the counters say is gone.
Consumed(m, figure) == IF figure \in Legs THEN -m[figure] ELSE m[figure]

\* No allowance of the day is ever handed out twice: through crashes, failed
\* writes and operator resets the running engine counts at least every loss,
\* notional and rejection that was acknowledged, less what was handed back.
DayLedgerKept ==
    up = "running" =>
        \A figure \in DayFigures :
            Consumed(mem, figure) >= spent[mem["trading_day"]][figure]

\* "A crash-restart loop cannot earn itself a fresh allowance": executions
\* acknowledged since a human last re-armed the strategy are never forgotten,
\* whichever day it is.
NoFreeAllowance == up = "running" => mem["executions"] >= fills

\* "Only same-trading-day state is adopted; anything else starts the day fresh"
\* (engine.py:201): a load that finds the snapshot of another day leaves the
\* engine without any figure but the executions, also when it is called again
\* on the engine an earlier load has failed on, and whatever day that was.
LoadStartsFresh ==
    [][\A w \in Callers :
        op[w] = "load_read" /\ op'[w] = "load" /\ snap[w]["trading_day"] # today =>
            \A k \in Key \ {"trading_day", "executions"} : mem'[k] = 0]_vars

\* USD a leg stands below its high water mark; loss_limit_headroom is the
\* configured limit less this.
Drawdown(m, leg) == m[PeakOf(leg)] - m[leg]

\* The counters m allow no more than the looser of a and b: no more loss on a
\* leg, no more rejections or executions, no more notional.
LossNoLooser(m, a, b) ==
    \A leg \in Legs : Drawdown(m, leg) >= Smaller(Drawdown(a, leg), Drawdown(b, leg))
CountNoLooser(m, a, b, k) == m[k] >= Smaller(a[k], b[k])
NoLooser(m, a, b) ==
    /\ LossNoLooser(m, a, b)
    /\ \A k \in {"daily_notional", "rejects", "executions"} : CountNoLooser(m, a, b, k)

\* What a restart would make of the store before and after this step, and once
\* the batch of w is written.
Before == Restarted(store, today)
After == Restarted(store', today)
Finished(w) == Restarted(Overwritten(store, left[w], snap[w]), today)
Writes == store' # store /\ damaged' = damaged

\* A store without transactions is written key by key, and a crash may stop it
\* after any key.  "Every reader loads fail-safe from a torn snapshot, so the
\* outcome is a conservative limit rather than a wrong one"
\* (SequentialBatchMixin).  So it is of the throttles and the notional, whatever
\* other batches are being written: every key leaves a store from which a
\* restart allows no more than the store before it or the snapshot being
\* written.  The exception is a day that handed back more than it sent: what is
\* below zero of one day may be read under the date of the next.
TornCountsConservative ==
    [][Writes =>
        \E w \in Writer :
            /\ \A k \in {"rejects", "executions"} : CountNoLooser(After, Before, Finished(w), k)
            /\ DecodeFloatOr(store["daily_notional"], 0) >= 0 =>
                   CountNoLooser(After, Before, Finished(w), "daily_notional")]_vars

\* And it is so of the loss limit while the store is one call behind: one
\* coroutine reports, and no batch of its has been lost since the last that
\* was written to the end.
TornLossConservative ==
    [][Writes /\ ~unsaved => \E w \in Writer : LossNoLooser(After, Before, Finished(w))]_vars

\* What makes TornLossConservative inductive for one coroutine.  The mark the
\* texts hold is not behind the one m shows ...
StoredPnl(texts, leg) == DecodeFloatOr(texts[leg], 0)
StoredPeak(texts, leg) == Larger(0, DecodeFloatOr(texts[PeakOf(leg)], 0))
MarkStored(texts, m) == \A leg \in Legs : StoredPeak(texts, leg) >= m[PeakOf(leg)]

\* ... so that the next snapshot raises it, if at all, to its own P&L, and it
\* does not matter that this is written first.
OneCallBehind(old, new, leg) ==
    StoredPeak(new, leg) <= Larger(StoredPeak(old, leg), StoredPnl(new, leg))

WrittenInStep ==
    /\ Idle(Console) => left[Console] = {}
    /\ ~Idle(Console) => up = "down" /\ snap[Console] = [k \in Key |-> EncodeFloat(0)]
    /\ up = "down" => \A leg \in Legs : mem[PeakOf(leg)] = 0
    /\ \A w \in Callers :
        /\ up = "down" => Idle(w)
        /\ op[w] \in {"idle", "load_read"} => left[w] = {}
        /\ op[w] = "load_read" => snap[w] = store
        /\ op[w] \in {"idle", "load_read"} /\ ~unsaved => MarkStored(store, mem)
        /\ op[w] \notin {"idle", "load_read"} =>
               /\ MarkStored(snap[w], mem)
               /\ \A k \in Key \ left[w] : store[k] = snap[w][k]
    /\ ~unsaved =>
           \A w \in Writer, leg \in Legs :
               {leg, PeakOf(leg)} \subseteq left[w] => OneCallBehind(store, snap[w], leg)

\* "Absent or damaged state always degrades toward more protection": losing a
\* stored field never leaves a restarted engine with more allowance than the
\* intact store would have given it.
DamageNeverLoosens ==
    [][damaged' # damaged =>
        NoLooser(Restarted(store', today), Restarted(store, today),
                 Restarted(store, today))]_vars

===============================================================================
