---------------------------- MODULE TornWriteProofs ----------------------------
(***************************************************************************)
(* What a store written key by key may cost, and what it keeps.  A torn    *)
(* batch never loosens a count, whoever else writes, and does not loosen   *)
(* the loss limit while the store is one call behind the counters; with    *)
(* one reporting coroutine a restart agrees with the engine it replaces,   *)
(* and acknowledged executions are never forgotten.                        *)
(***************************************************************************)
EXTENDS EngineCountersProofs

-------------------------------------------------------------------------------
(* One key written *)

\* set_many writes the rest of the batch, or its first key in the order of
\* persist: the trading day before every figure, a P&L before its mark.
LEMMA NextKey ==
    ASSUME NEW keys \in SUBSET Key, NEW batch \in Batches(PersistOrder, keys)
    PROVE  \/ batch = keys
           \/ \E k \in keys :
                 /\ batch = {k}
                 /\ k # "trading_day" => "trading_day" \notin keys
                 /\ \A leg \in Legs : k = PeakOf(leg) => leg \notin keys
  <1>1. CASE AtomicBatch
    BY <1>1 DEF Batches
  <1>2. CASE ~AtomicBatch
    <2>1. PICK k \in keys : batch = {k} /\ \A i \in keys : Rank(PersistOrder, k) <= Rank(PersistOrder, i)
      BY <1>2 DEF Batches
    <2>2. Rank(PersistOrder, "trading_day") = 1
      BY DEF Rank, PersistOrder
    <2>3. \A j \in Key : j # "trading_day" => Rank(PersistOrder, j) \in 2 .. 8
      <3> SUFFICES ASSUME NEW j \in Key, j # "trading_day"
                   PROVE  Rank(PersistOrder, j) \in 2 .. 8
        OBVIOUS
      <3>1. \E i \in DOMAIN PersistOrder : PersistOrder[i] = j
        BY DEF PersistOrder, Key
      <3>2. Rank(PersistOrder, j) \in 1 .. 8 /\ PersistOrder[Rank(PersistOrder, j)] = j
        BY <3>1 DEF Rank, PersistOrder
      <3>3. QED BY <3>2 DEF PersistOrder
    <2>4. /\ Rank(PersistOrder, "live_pnl") = 2 /\ Rank(PersistOrder, "simulated_pnl") = 3
          /\ Rank(PersistOrder, "live_peak") = 4 /\ Rank(PersistOrder, "simulated_peak") = 5
      BY DEF Rank, PersistOrder
    <2>5. k # "trading_day" => "trading_day" \notin keys
      <3>1. ASSUME k # "trading_day", "trading_day" \in keys PROVE FALSE
        <4>1. Rank(PersistOrder, k) <= 1
          BY <2>1, <2>2, <3>1
        <4>2. Rank(PersistOrder, k) \in 2 .. 8
          BY <2>3, <3>1
        <4>3. QED BY <4>1, <4>2
      <3>2. QED BY <3>1
    <2>6. ASSUME NEW leg \in Legs, k = PeakOf(leg) PROVE leg \notin keys
      BY <2>1, <2>4, <2>6 DEF Legs, PeakOf
    <2>7. QED BY <2>1, <2>5, <2>6
  <1>3. QED BY <1>1, <1>2

\* What a restart makes of a store, figure by figure (load, __init__).
LEMMA RestartedFigures ==
    ASSUME NEW texts \in Texts, NEW day \in Day
    PROVE  LET r == Restarted(texts, day)
               same == texts["trading_day"] = day
           IN  /\ r["executions"] = AsCount(texts["executions"])
               /\ r["rejects"] = IF same THEN AsCount(texts["rejects"]) ELSE 0
               /\ r["daily_notional"] =
                      IF same THEN DecodeFloatOr(texts["daily_notional"], 0) ELSE 0
               /\ \A leg \in Legs :
                     Drawdown(r, leg) =
                         IF same
                         THEN Larger(StoredPnl(texts, leg), StoredPeak(texts, leg))
                                  - StoredPnl(texts, leg)
                         ELSE 0
  <1> DEFINE r == Restarted(texts, day)
             same == texts["trading_day"] = day
  <1>1. /\ r["executions"] = AsCount(texts["executions"])
        /\ r["rejects"] = IF same THEN AsCount(texts["rejects"]) ELSE 0
        /\ r["daily_notional"] = IF same THEN DecodeFloatOr(texts["daily_notional"], 0) ELSE 0
    BY DEF Restarted, Loaded, NewMem, Key, Peaks
  <1>2. ASSUME NEW leg \in Legs
        PROVE  Drawdown(r, leg) =
                   IF same
                   THEN Larger(StoredPnl(texts, leg), StoredPeak(texts, leg))
                            - StoredPnl(texts, leg)
                   ELSE 0
    <2>1. /\ leg \in Key \ Peaks /\ PeakOf(leg) \in Peaks /\ Peaks \subseteq Key
          /\ PnlOf(PeakOf(leg)) = leg
          /\ {leg, PeakOf(leg)} \cap {"trading_day", "executions", "rejects"} = {}
      BY DEF Legs, PeakOf, Peaks, PnlOf, Key
    <2>2. StoredPnl(texts, leg) \in Int /\ DecodeFloatOr(texts[PeakOf(leg)], 0) \in Int
      BY DEF StoredPnl, DecodeFloatOr
    <2>3. CASE same
      <3>1. r[leg] = StoredPnl(texts, leg)
        BY <2>1, <2>3 DEF Restarted, Loaded, StoredPnl
      <3>2. r[PeakOf(leg)] = Larger(Larger(0, StoredPnl(texts, leg)),
                                    DecodeFloatOr(texts[PeakOf(leg)], 0))
        BY <2>1, <2>3 DEF Restarted, Loaded, StoredPnl
      <3>3. QED BY <2>2, <2>3, <3>1, <3>2 DEF Drawdown, StoredPeak, Larger
    <2>4. CASE ~same
      <3>1. r[leg] = 0 /\ r[PeakOf(leg)] = 0
        BY <2>1, <2>4 DEF Restarted, Loaded, NewMem
      <3>2. QED BY <2>4, <3>1 DEF Drawdown
    <2>5. QED BY <2>3, <2>4
  <1>3. QED BY <1>1, <1>2

\* Only set_many and a loss of a field change the store.
LEMMA WritesAreBatches ==
    ASSUME SoundInv, [Next]_vars, Writes
    PROVE  \E w \in Writer : \E batch \in Batches(PersistOrder, left[w]) :
               store' = Overwritten(store, batch, snap[w])
  <1>1. ASSUME NEW w \in Callers, CallerNext(w) PROVE store' = store
    BY <1>1 DEF CallerNext, RecordRealizedPnl, RecordNotional, RecordOrderRejected,
                RecordOrderAccepted, RecordExecution, Rearm, LoadRead, LoadApply, CallBegins
  <1>2. ASSUME NEW w \in Writer, WriterNext(w), store' # store
        PROVE  \E batch \in Batches(PersistOrder, left[w]) :
                   store' = Overwritten(store, batch, snap[w])
    BY <1>2 DEF WriterNext, StoreWrite, Return, WriteFails
  <1>3. ASSUME EnvironmentNext, store' # store PROVE damaged' # damaged
    <2>1. DamageKey
      BY <1>3 DEF EnvironmentNext, Observe, Start, Crash, ResetDailyLossLimit, NewDay, ClockBack
    <2>2. QED BY <2>1, CountersAssumption DEF DamageKey, SoundInv, TypeOK
  <1>4. QED
    BY <1>1, <1>2, <1>3 DEF Next, vars, Writes

-------------------------------------------------------------------------------
(* The counts *)

\* A torn batch leaves a restart at least the smaller of the executions before
\* it and after it, of the rejections too, and of the notional unless the old
\* one was below zero (set_many, load).
LEMMA CountsStep ==
    ASSUME NEW old \in Texts, NEW new \in Texts, NEW day \in Day, NEW keys \in SUBSET Key,
           NEW batch \in Batches(PersistOrder, keys)
    PROVE  LET before == Restarted(old, day)
               finished == Restarted(Overwritten(old, keys, new), day)
               after == Restarted(Overwritten(old, batch, new), day)
           IN  /\ \A k \in {"rejects", "executions"} : CountNoLooser(after, before, finished, k)
               /\ DecodeFloatOr(old["daily_notional"], 0) >= 0 =>
                      CountNoLooser(after, before, finished, "daily_notional")
  <1> DEFINE all == Overwritten(old, keys, new)
             some == Overwritten(old, batch, new)
             before == Restarted(old, day)
             finished == Restarted(all, day)
             after == Restarted(some, day)
  <1>1. all \in Texts /\ some \in Texts
    BY DEF Overwritten, Texts
  <1>2. \A k \in Key :
            /\ all[k] = IF k \in keys THEN new[k] ELSE old[k]
            /\ some[k] = IF k \in batch THEN new[k] ELSE old[k]
    BY DEF Overwritten, Texts
  <1>3. {"trading_day", "daily_notional", "rejects", "executions"} \subseteq Key
    BY DEF Key
  <1>4. \A raw : AsCount(raw) \in Nat /\ DecodeFloatOr(raw, 0) \in Int
    BY DEF AsCount, DecodeFloatOr
  <1>5. CASE batch = keys
    <2>1. after = finished
      BY <1>5
    <2>2. \A k \in {"daily_notional", "rejects", "executions"} :
              before[k] \in Int /\ finished[k] \in Int
      BY <1>1, <1>4, RestartedFigures
    <2>3. QED BY <2>1, <2>2 DEF CountNoLooser, Smaller
  <1>6. ASSUME NEW k \in keys, batch = {k}, k # "trading_day" => "trading_day" \notin keys
        PROVE  /\ \A f \in {"rejects", "executions"} : CountNoLooser(after, before, finished, f)
               /\ DecodeFloatOr(old["daily_notional"], 0) >= 0 =>
                      CountNoLooser(after, before, finished, "daily_notional")
    <2>1. CountNoLooser(after, before, finished, "executions")
      <3>0. some["executions"] = old["executions"] \/ some["executions"] = all["executions"]
        BY <1>2, <1>3, <1>6
      <3>1. after["executions"] = before["executions"] \/ after["executions"] = finished["executions"]
        BY <1>1, <3>0, RestartedFigures
      <3>2. before["executions"] \in Int /\ finished["executions"] \in Int
        BY <1>1, <1>4, RestartedFigures
      <3>3. QED BY <3>1, <3>2 DEF CountNoLooser, Smaller
    <2>2. CASE k = "trading_day"
      \* The figures are the old ones, under the new day.
      <3>1. \A f \in {"daily_notional", "rejects"} : some[f] = old[f]
        BY <1>2, <1>3, <1>6, <2>2
      <3>2. some["trading_day"] = all["trading_day"]
        BY <1>2, <1>3, <1>6, <2>2
      <3>3. CountNoLooser(after, before, finished, "rejects")
        <4>1. /\ after["rejects"] = before["rejects"] \/ before["rejects"] = 0
                 \/ (after["rejects"] = 0 /\ finished["rejects"] = 0)
              /\ after["rejects"] \in Nat /\ before["rejects"] \in Nat /\ finished["rejects"] \in Nat
          BY <1>1, <1>4, <3>1, <3>2, RestartedFigures
        <4>2. QED BY <4>1 DEF CountNoLooser, Smaller
      <3>4. ASSUME DecodeFloatOr(old["daily_notional"], 0) >= 0
            PROVE  CountNoLooser(after, before, finished, "daily_notional")
        <4>1. /\ after["daily_notional"] = before["daily_notional"] \/ before["daily_notional"] = 0
                 \/ (after["daily_notional"] = 0 /\ finished["daily_notional"] = 0)
              /\ after["daily_notional"] \in Nat /\ before["daily_notional"] \in Nat
              /\ finished["daily_notional"] \in Int
          BY <1>1, <1>4, <3>1, <3>2, <3>4, RestartedFigures
        <4>2. QED BY <4>1 DEF CountNoLooser, Smaller
      <3>5. QED BY <2>1, <3>3, <3>4
    <2>3. CASE k # "trading_day"
      \* The day is written, or was the same: each figure is the old or the new.
      <3>1. some["trading_day"] = old["trading_day"] /\ all["trading_day"] = old["trading_day"]
        BY <1>2, <1>3, <1>6, <2>3
      <3>2. \A f \in {"daily_notional", "rejects"} : some[f] = old[f] \/ some[f] = all[f]
        BY <1>2, <1>3, <1>6
      <3>3. ASSUME NEW f \in {"daily_notional", "rejects"}
            PROVE  CountNoLooser(after, before, finished, f)
        <4>1. /\ after[f] = before[f] \/ after[f] = finished[f]
              /\ before[f] \in Int /\ finished[f] \in Int
          BY <1>1, <1>4, <3>1, <3>2, <3>3, RestartedFigures
        <4>2. QED BY <4>1 DEF CountNoLooser, Smaller
      <3>4. QED BY <2>1, <3>3
    <2>4. QED BY <2>2, <2>3
  <1>7. QED BY <1>5, <1>6, NextKey

\* However many coroutines report and whatever the store has lost, a restart
\* from a torn store allows no more rejections and executions, and unless a
\* day ended below zero no more notional, than one before the batch or after
\* it (SequentialBatchMixin, load).
THEOREM TornCounts == Spec => TornCountsConservative
  <1> DEFINE Step ==
        Writes =>
            \E w \in Writer :
                /\ \A k \in {"rejects", "executions"} : CountNoLooser(After, Before, Finished(w), k)
                /\ DecodeFloatOr(store["daily_notional"], 0) >= 0 =>
                       CountNoLooser(After, Before, Finished(w), "daily_notional")
  <1>1. ASSUME SoundInv, [Next]_vars PROVE [Step]_vars
    <2>1. SUFFICES ASSUME Writes PROVE Step
      OBVIOUS
    <2>2. PICK w \in Writer : \E batch \in Batches(PersistOrder, left[w]) :
                                  store' = Overwritten(store, batch, snap[w])
      BY <1>1, <2>1, WritesAreBatches
    <2>3. PICK batch \in Batches(PersistOrder, left[w]) :
                   store' = Overwritten(store, batch, snap[w])
      BY <2>2
    <2>4. /\ store \in Texts /\ snap[w] \in Texts /\ left[w] \in SUBSET Key /\ today \in Day
      BY <1>1, <2>2 DEF SoundInv, TypeOK
    <2>5. /\ \A k \in {"rejects", "executions"} : CountNoLooser(After, Before, Finished(w), k)
          /\ DecodeFloatOr(store["daily_notional"], 0) >= 0 =>
                 CountNoLooser(After, Before, Finished(w), "daily_notional")
      BY <2>3, <2>4, CountsStep DEF After, Before, Finished
    <2>6. QED BY <2>2, <2>5
  <1>2. QED
    BY <1>1, SoundCounters, PTL DEF Spec, TornCountsConservative

-------------------------------------------------------------------------------
(* The loss limit *)

\* A P&L written before its mark, or a mark after it, leaves a restart at least
\* the smaller drawdown, when the batch is one call ahead of the store.
LEMMA LossStep ==
    ASSUME NEW old \in Texts, NEW new \in Texts, NEW day \in Day, NEW keys \in SUBSET Key,
           NEW batch \in Batches(PersistOrder, keys),
           \A leg \in Legs : {leg, PeakOf(leg)} \subseteq keys => OneCallBehind(old, new, leg)
    PROVE  LossNoLooser(Restarted(Overwritten(old, batch, new), day), Restarted(old, day),
                        Restarted(Overwritten(old, keys, new), day))
  <1> DEFINE all == Overwritten(old, keys, new)
             some == Overwritten(old, batch, new)
             before == Restarted(old, day)
             finished == Restarted(all, day)
             after == Restarted(some, day)
             Depth(t, leg) == Larger(StoredPnl(t, leg), StoredPeak(t, leg)) - StoredPnl(t, leg)
  <1>1. all \in Texts /\ some \in Texts
    BY DEF Overwritten, Texts
  <1>2. \A k \in Key :
            /\ all[k] = IF k \in keys THEN new[k] ELSE old[k]
            /\ some[k] = IF k \in batch THEN new[k] ELSE old[k]
    BY DEF Overwritten, Texts
  <1>3. SUFFICES ASSUME NEW leg \in Legs
                 PROVE  Drawdown(after, leg) >= Smaller(Drawdown(before, leg), Drawdown(finished, leg))
    BY DEF LossNoLooser
  <1>4. /\ "trading_day" \in Key /\ leg \in Key /\ PeakOf(leg) \in Key
        /\ leg # "trading_day" /\ PeakOf(leg) # "trading_day" /\ leg # PeakOf(leg)
    BY DEF Legs, PeakOf, Key
  <1>5. \A t : StoredPnl(t, leg) \in Int /\ StoredPeak(t, leg) \in Nat
    BY DEF StoredPnl, StoredPeak, DecodeFloatOr, Larger
  <1>6. /\ Drawdown(before, leg) = IF old["trading_day"] = day THEN Depth(old, leg) ELSE 0
        /\ Drawdown(finished, leg) = IF all["trading_day"] = day THEN Depth(all, leg) ELSE 0
        /\ Drawdown(after, leg) = IF some["trading_day"] = day THEN Depth(some, leg) ELSE 0
    BY <1>1, RestartedFigures
  <1>7. \A t : Depth(t, leg) \in Nat
    BY <1>5 DEF Larger
  <1> HIDE DEF Depth
  <1>8. CASE batch = keys
    BY <1>6, <1>7, <1>8 DEF Smaller
  <1>9. ASSUME NEW k \in keys, batch = {k}, k # "trading_day" => "trading_day" \notin keys,
               k = PeakOf(leg) => leg \notin keys
        PROVE  Drawdown(after, leg) >= Smaller(Drawdown(before, leg), Drawdown(finished, leg))
    <2>1. CASE k = "trading_day"
      <3>1. some["trading_day"] = all["trading_day"]
        BY <1>2, <1>4, <1>9, <2>1
      <3>2. some[leg] = old[leg] /\ some[PeakOf(leg)] = old[PeakOf(leg)]
        BY <1>2, <1>4, <1>9, <2>1
      <3>3. Depth(some, leg) = Depth(old, leg)
        BY <3>2 DEF Depth, StoredPnl, StoredPeak
      <3>4. QED BY <1>6, <1>7, <3>1, <3>3 DEF Smaller
    <2>2. CASE k # "trading_day"
      <3>1. some["trading_day"] = old["trading_day"] /\ all["trading_day"] = old["trading_day"]
        BY <1>2, <1>4, <1>9, <2>2
      <3>2. CASE k \notin {leg, PeakOf(leg)}
        <4>1. some[leg] = old[leg] /\ some[PeakOf(leg)] = old[PeakOf(leg)]
          BY <1>2, <1>4, <1>9, <3>2
        <4>2. Depth(some, leg) = Depth(old, leg)
          BY <4>1 DEF Depth, StoredPnl, StoredPeak
        <4>3. QED BY <1>6, <1>7, <3>1, <4>2 DEF Smaller
      <3>3. CASE k = PeakOf(leg) \/ (k = leg /\ PeakOf(leg) \notin keys)
        <4>1. some[leg] = all[leg] /\ some[PeakOf(leg)] = all[PeakOf(leg)]
          BY <1>2, <1>4, <1>9, <3>3
        <4>2. Depth(some, leg) = Depth(all, leg)
          BY <4>1 DEF Depth, StoredPnl, StoredPeak
        <4>3. QED BY <1>6, <1>7, <3>1, <4>2 DEF Smaller
      <3>4. CASE k = leg /\ PeakOf(leg) \in keys
        \* The new P&L against the old mark.
        <4>1. OneCallBehind(old, new, leg)
          BY <3>4
        <4>2. /\ some[leg] = new[leg] /\ some[PeakOf(leg)] = old[PeakOf(leg)]
              /\ all[leg] = new[leg] /\ all[PeakOf(leg)] = new[PeakOf(leg)]
          BY <1>2, <1>4, <1>9, <3>4
        <4>3. /\ StoredPnl(some, leg) = StoredPnl(new, leg) /\ StoredPeak(some, leg) = StoredPeak(old, leg)
              /\ StoredPnl(all, leg) = StoredPnl(new, leg) /\ StoredPeak(all, leg) = StoredPeak(new, leg)
          BY <4>2 DEF StoredPnl, StoredPeak
        <4>4. Depth(some, leg) >= Depth(old, leg) \/ Depth(some, leg) >= Depth(all, leg)
          BY <1>5, <4>1, <4>3 DEF Depth, OneCallBehind, Larger
        <4>5. QED BY <1>6, <1>7, <3>1, <4>4 DEF Smaller
      <3>5. QED BY <3>2, <3>3, <3>4
    <2>3. QED BY <2>1, <2>2
  <1>10. QED BY <1>3, <1>8, <1>9, NextKey

\* A snapshot holds the mark of the counters it was taken of (persist).
LEMMA EncodedFigures ==
    ASSUME NEW m, Sound(m)
    PROVE  \A leg \in Legs : /\ StoredPnl(Encoded(m), leg) = m[leg]
                             /\ StoredPeak(Encoded(m), leg) = m[PeakOf(leg)]
  <1>1. \A leg \in Legs : /\ m[leg] \in Int /\ m[PeakOf(leg)] \in Int /\ m[PeakOf(leg)] >= 0
                          /\ Encoded(m)[leg] = m[leg] /\ Encoded(m)[PeakOf(leg)] = m[PeakOf(leg)]
    BY EncodingAssumption
    DEF Sound, Figures, Encoded, EncodeFloat, Legs, PeakOf, Key
  <1>2. QED BY <1>1 DEF StoredPnl, StoredPeak, DecodeFloatOr, Larger

\* One call raises a mark no further than to its own P&L.
Raised(m, n) == \A leg \in Legs : n[PeakOf(leg)] <= Larger(m[PeakOf(leg)], n[leg])

\* Rolling the day lowers both marks to zero, or leaves them.
LEMMA RolledMarks ==
    ASSUME NEW m, Sound(m), NEW day \in Day
    PROVE  \A leg \in Legs : Rolled(m, day)[PeakOf(leg)] <= m[PeakOf(leg)]
  BY DEF Sound, Figures, Rolled, NewMem, Legs, PeakOf, Key

\* The setting TornLossConservative is promised in: one coroutine reports.
\* The store, its failures, the clock and the damage are as they may be.
OneReporter == \E w : Callers = {w}

\* It holds of an empty store and a process that has not started.
LEMMA InStepInit == Init => WrittenInStep
  <1> SUFFICES ASSUME Init PROVE WrittenInStep
    OBVIOUS
  <1>1. \A leg \in Legs : mem[PeakOf(leg)] = 0
    BY DEF Init, NewMem, Legs, PeakOf, Key
  <1>2. MarkStored(store, mem)
    BY <1>1 DEF MarkStored, StoredPeak, DecodeFloatOr, Larger
  <1>3. \A w \in Writer : Idle(w) /\ left[w] = {}
    BY DEF Init, Idle
  <1>4. Console \in Writer /\ Callers \subseteq Writer
    BY DEF Writer
  <1>5. QED BY <1>1, <1>2, <1>3, <1>4 DEF WrittenInStep, Idle

\* A call whose snapshot raises no mark above its own P&L keeps the store one
\* call behind (the record_* calls, persist).
LEMMA PersistInStep ==
    ASSUME OneReporter, SoundInv, WrittenInStep, NEW w \in Callers, NEW name \in OpName,
           NEW m, Sound(m), up # "down",
           op[w] \in {"idle", "load_read"}, name \notin {"idle", "load_read"},
           Persist(w, name, m), UNCHANGED <<up, store, unsaved>>,
           ~unsaved => \A leg \in Legs : OneCallBehind(store, Encoded(m), leg)
    PROVE  WrittenInStep'
  <1>1. Callers = {w} /\ Writer = {w, Console} /\ w # Console
    BY CountersAssumption DEF OneReporter, Writer
  <1>2. /\ mem' = m /\ op' = [op EXCEPT ![w] = name] /\ snap' = [snap EXCEPT ![w] = Encoded(m)]
        /\ left' = [left EXCEPT ![w] = Key]
    BY DEF Persist
  <1>3. /\ op'[w] = name /\ snap'[w] = Encoded(m) /\ left'[w] = Key
        /\ op'[Console] = op[Console] /\ left'[Console] = left[Console]
        /\ snap'[Console] = snap[Console]
    BY <1>1, <1>2 DEF SoundInv, TypeOK
  <1>4. Idle(Console) /\ left[Console] = {}
    BY DEF WrittenInStep
  <1>5. MarkStored(Encoded(m), m)
    <2>1. \A leg \in Legs : m[PeakOf(leg)] \in Int
      BY DEF Sound, Figures, Legs, PeakOf, Key
    <2>2. QED BY <2>1, EncodedFigures DEF MarkStored
  <1>6. Idle(Console)' /\ left'[Console] = {}
    BY <1>3, <1>4 DEF Idle
  <1>7. \A v \in Writer, leg \in Legs :
            ~unsaved' /\ {leg, PeakOf(leg)} \subseteq left'[v] => OneCallBehind(store', snap'[v], leg)
    BY <1>1, <1>3, <1>6
  <1>8. QED
    BY <1>1, <1>2, <1>3, <1>5, <1>6, <1>7 DEF WrittenInStep, Idle

\* A snapshot that raises no mark is one call ahead of a store whose mark is
\* not behind.
LEMMA RaisedBehind ==
    ASSUME SoundInv, NEW n, Sound(n), Raised(mem, n), MarkStored(store, mem)
    PROVE  \A leg \in Legs : OneCallBehind(store, Encoded(n), leg)
  <1> SUFFICES ASSUME NEW leg \in Legs PROVE OneCallBehind(store, Encoded(n), leg)
    OBVIOUS
  <1>1. StoredPnl(Encoded(n), leg) = n[leg] /\ StoredPeak(Encoded(n), leg) = n[PeakOf(leg)]
    BY EncodedFigures
  <1>2. n[PeakOf(leg)] <= Larger(mem[PeakOf(leg)], n[leg]) /\ StoredPeak(store, leg) >= mem[PeakOf(leg)]
    BY DEF Raised, MarkStored
  <1>3. mem[PeakOf(leg)] \in Int /\ n[PeakOf(leg)] \in Int /\ n[leg] \in Int
    BY DEF SoundInv, Sound, Figures, Legs, PeakOf, Key
  <1>4. StoredPeak(store, leg) \in Int
    BY DEF StoredPeak, DecodeFloatOr, Larger
  <1>5. QED BY <1>1, <1>2, <1>3, <1>4 DEF OneCallBehind, Larger

\* The six calls and the two halves of load.
LEMMA CallsInStep ==
    ASSUME OneReporter, SoundInv, WrittenInStep, NEW w \in Callers, CallerNext(w)
    PROVE  WrittenInStep'
  <1> DEFINE r == Rolled(mem, today)
  <1>r. Sound(r) /\ \A leg \in Legs : r[PeakOf(leg)] <= mem[PeakOf(leg)]
    BY RolledSound, RolledMarks DEF SoundInv, TypeOK
  <1>i. \A leg \in Legs : /\ leg \in Key /\ PeakOf(leg) \in Key /\ leg \in Key \ Peaks
                          /\ PeakOf(leg) \notin {"rejects", "executions", "daily_notional"}
                          /\ mem[PeakOf(leg)] \in Int
                          /\ r[leg] \in Int /\ r[PeakOf(leg)] \in Int
    BY <1>r DEF SoundInv, Sound, Figures, Legs, PeakOf, Peaks, Key
  <1>w. w \in Writer
    BY DEF Writer
  <1>1. ASSUME NEW n, Sound(n), Raised(mem, n), NEW name \in OpName \ {"idle", "load_read"},
               Ready(w), Persist(w, name, n), CallBegins
        PROVE  WrittenInStep'
    <2>1. up # "down" /\ op[w] = "idle"
      BY <1>1 DEF Ready, Idle
    <2>2. ~unsaved => \A leg \in Legs : OneCallBehind(store, Encoded(n), leg)
      BY <1>1, <2>1, RaisedBehind DEF WrittenInStep
    <2>3. QED BY <1>1, <2>1, <2>2, PersistInStep DEF CallBegins
  <1>2. ASSUME NEW n, Sound(n), NEW name \in OpName \ {"idle", "load_read"},
               \A leg \in Legs : n[PeakOf(leg)] = r[PeakOf(leg)],
               Ready(w), Persist(w, name, n), CallBegins
        PROVE  WrittenInStep'
    <2>1. Raised(mem, n)
      <3> SUFFICES ASSUME NEW leg \in Legs
                   PROVE  n[PeakOf(leg)] <= Larger(mem[PeakOf(leg)], n[leg])
        BY DEF Raised
      <3>1. n[leg] \in Int /\ n[PeakOf(leg)] <= mem[PeakOf(leg)]
        BY <1>r, <1>i, <1>2 DEF Sound, Figures
      <3>2. QED BY <1>i, <1>2, <3>1 DEF Larger
    <2>2. QED BY <1>1, <1>2, <2>1
  <1>3. ASSUME NEW trade \in Trades, RecordRealizedPnl(w, trade[1], trade[2])
        PROVE  WrittenInStep'
    <2> DEFINE on == trade[1]
               pnl == r[on] + trade[2]
               n == [r EXCEPT ![on] = pnl, ![PeakOf(on)] = Larger(r[PeakOf(on)], pnl)]
    <2>1. on \in Legs /\ trade[2] \in Int
      BY CountersAssumption
    <2>2. Sound(n)
      BY <1>r, <2>1 DEF Sound, Figures, Key, Legs, PeakOf, Larger
    <2>3. Raised(mem, n)
      <3> SUFFICES ASSUME NEW leg \in Legs
                   PROVE  n[PeakOf(leg)] <= Larger(mem[PeakOf(leg)], n[leg])
        BY DEF Raised
      <3>1. r[PeakOf(leg)] <= mem[PeakOf(leg)]
        BY <1>r
      <3>2. CASE leg = on
        <4>1. n[leg] = pnl /\ n[PeakOf(leg)] = Larger(r[PeakOf(leg)], pnl)
          BY <1>r, <2>1, <3>2 DEF Sound, Figures, Key, Legs, PeakOf
        <4>2. pnl \in Int
          BY <1>i, <2>1
        <4>3. QED BY <1>i, <3>1, <4>1, <4>2 DEF Larger
      <3>3. CASE leg # on
        <4>1. n[leg] = r[leg] /\ n[PeakOf(leg)] = r[PeakOf(leg)]
          BY <1>r, <2>1, <3>3 DEF Sound, Figures, Key, Legs, PeakOf
        <4>2. QED BY <1>i, <3>1, <4>1 DEF Larger
      <3>4. QED BY <3>2, <3>3
    <2>4. Ready(w) /\ Persist(w, "record_realized_pnl", n) /\ CallBegins
      BY <1>3 DEF RecordRealizedPnl, PnlAdded
    <2>5. QED BY <1>1, <2>2, <2>3, <2>4 DEF OpName
  <1>4. ASSUME NEW amount \in Notionals, RecordNotional(w, amount) PROVE WrittenInStep'
    <2> DEFINE n == [r EXCEPT !["daily_notional"] = @ + amount]
    <2>1. amount \in Int
      BY CountersAssumption
    <2>2. Sound(n) /\ \A leg \in Legs : n[PeakOf(leg)] = r[PeakOf(leg)]
      BY <1>r, <2>1 DEF Sound, Figures, Key, Legs, PeakOf
    <2>3. Ready(w) /\ Persist(w, "record_notional", n) /\ CallBegins
      BY <1>4 DEF RecordNotional, NotionalAdded
    <2>4. QED BY <1>2, <2>2, <2>3 DEF OpName
  <1>5. CASE RecordOrderRejected(w)
    <2> DEFINE n == [r EXCEPT !["rejects"] = @ + 1]
    <2>1. Sound(n) /\ \A leg \in Legs : n[PeakOf(leg)] = r[PeakOf(leg)]
      BY <1>r DEF Sound, Figures, Key, Legs, PeakOf
    <2>2. Ready(w) /\ Persist(w, "record_order_rejected", n) /\ CallBegins
      BY <1>5 DEF RecordOrderRejected, RejectNoted
    <2>3. QED BY <1>2, <2>1, <2>2 DEF OpName
  <1>6. CASE RecordOrderAccepted(w)
    <2> DEFINE n == [r EXCEPT !["rejects"] = 0]
    <2>1. Sound(n) /\ \A leg \in Legs : n[PeakOf(leg)] = r[PeakOf(leg)]
      BY <1>r DEF Sound, Figures, Key, Legs, PeakOf
    <2>2. Ready(w) /\ Persist(w, "record_order_accepted", n) /\ CallBegins
      BY <1>6 DEF RecordOrderAccepted, AcceptanceNoted
    <2>3. QED BY <1>2, <2>1, <2>2 DEF OpName
  <1>7. CASE RecordExecution(w)
    <2> DEFINE n == [r EXCEPT !["executions"] = @ + 1]
    <2>1. Sound(n) /\ \A leg \in Legs : n[PeakOf(leg)] = r[PeakOf(leg)]
      BY <1>r DEF Sound, Figures, Key, Legs, PeakOf
    <2>2. Ready(w) /\ Persist(w, "record_execution", n) /\ CallBegins
      BY <1>7 DEF RecordExecution, ExecutionNoted
    <2>3. QED BY <1>2, <2>1, <2>2 DEF OpName
  <1>8. CASE Rearm(w)
    <2> DEFINE n == [r EXCEPT !["rejects"] = 0, !["executions"] = 0]
    <2>1. Sound(n) /\ \A leg \in Legs : n[PeakOf(leg)] = r[PeakOf(leg)]
      BY <1>r DEF Sound, Figures, Key, Legs, PeakOf
    <2>2. Ready(w) /\ Persist(w, "rearm", n) /\ CallBegins
      BY <1>8 DEF Rearm, Rearmed
    <2>3. QED BY <1>2, <2>1, <2>2 DEF OpName
  <1>9. CASE LoadRead(w)
    <2>1. Callers = {w} /\ Writer = {w, Console} /\ w # Console
      BY CountersAssumption DEF OneReporter, Writer
    <2>2. /\ up = "constructed" /\ Idle(w) /\ Idle(Console)
          /\ op' = [op EXCEPT ![w] = "load_read"] /\ snap' = [snap EXCEPT ![w] = store]
          /\ UNCHANGED <<up, mem, store, left, unsaved>>
      BY <1>9, <2>1 DEF LoadRead, engine, history
    <2>3. /\ op'[w] = "load_read" /\ snap'[w] = store /\ left'[w] = {}
          /\ op'[Console] = op[Console] /\ left'[Console] = {}
      BY <2>1, <2>2 DEF SoundInv, TypeOK, WrittenInStep, Idle
    <2>4. ~unsaved => MarkStored(store, mem)
      BY <2>2 DEF WrittenInStep, Idle
    <2>5. ~unsaved' => MarkStored(store, mem)'
      BY <2>2, <2>4 DEF MarkStored
    <2>6. QED BY <2>1, <2>2, <2>3, <2>5 DEF WrittenInStep, Idle
  <1>10. CASE LoadApply(w)
    \* load adopts the stored mark, raised to the stored P&L, or keeps its own.
    <2> DEFINE n == Loaded(snap[w], mem, today)
    <2>1. /\ op[w] = "load_read" /\ Persist(w, "load", n) /\ UNCHANGED <<up, store, unsaved>>
      BY <1>10 DEF LoadApply, history
    <2>2. snap[w] = store /\ store \in Texts /\ today \in Day
      BY <2>1 DEF WrittenInStep, SoundInv, TypeOK
    <2>3. Sound(n)
      BY <2>2, LoadedSound DEF SoundInv
    <2>4. ASSUME ~unsaved, NEW leg \in Legs PROVE OneCallBehind(store, Encoded(n), leg)
      <3>1. StoredPnl(Encoded(n), leg) = n[leg] /\ StoredPeak(Encoded(n), leg) = n[PeakOf(leg)]
        BY <2>3, EncodedFigures
      <3>2. StoredPeak(store, leg) >= mem[PeakOf(leg)]
        BY <2>1, <2>4 DEF WrittenInStep, MarkStored
      <3>3. StoredPeak(store, leg) \in Nat /\ StoredPnl(store, leg) \in Int
            /\ DecodeFloatOr(store[PeakOf(leg)], 0) \in Int
        BY DEF StoredPeak, StoredPnl, DecodeFloatOr, Larger
      <3>4. /\ PnlOf(PeakOf(leg)) = leg /\ PeakOf(leg) \in Peaks
            /\ {leg, PeakOf(leg)} \cap {"trading_day", "executions", "rejects"} = {}
        BY DEF Legs, PeakOf, Peaks, PnlOf
      <3>5. CASE store["trading_day"] = today
        <4>1. n[leg] = StoredPnl(store, leg)
          BY <1>i, <2>2, <3>4, <3>5 DEF Loaded, StoredPnl
        <4>2. n[PeakOf(leg)] = Larger(Larger(0, StoredPnl(store, leg)),
                                      DecodeFloatOr(store[PeakOf(leg)], 0))
          BY <1>i, <2>2, <3>4, <3>5 DEF Loaded, StoredPnl
        <4>3. QED BY <3>1, <3>3, <4>1, <4>2 DEF OneCallBehind, StoredPeak, Larger
      <3>6. CASE store["trading_day"] # today
        <4>1. n[leg] = mem[leg] /\ n[PeakOf(leg)] = mem[PeakOf(leg)]
          BY <1>i, <2>2, <3>4, <3>6 DEF Loaded
        <4>2. mem[leg] \in Int
          BY <1>i DEF SoundInv, Sound, Figures
        <4>3. QED BY <1>i, <3>1, <3>2, <3>3, <4>1, <4>2 DEF OneCallBehind, Larger
      <3>7. QED BY <3>5, <3>6
    <2>5. up # "down"
      BY <2>1 DEF WrittenInStep, Idle
    <2>6. QED BY <2>1, <2>3, <2>4, <2>5, PersistInStep DEF OpName
  <1>11. QED
    BY <1>3, <1>4, <1>5, <1>6, <1>7, <1>8, <1>9, <1>10 DEF CallerNext

\* The store commits keys, the call returns, or set_many raises.
LEMMA WritersInStep ==
    ASSUME OneReporter, SoundInv, WrittenInStep, NEW w \in Writer, WriterNext(w)
    PROVE  WrittenInStep'
  <1>c. PICK c : Callers = {c}
    BY DEF OneReporter
  <1>d. Writer = {c, Console} /\ c # Console
    BY <1>c, CountersAssumption DEF Writer
  <1>1. CASE StoreWrite(w)
    <2>1. PICK batch \in Batches(PersistOrder, left[w]) :
              /\ store' = Overwritten(store, batch, snap[w])
              /\ left' = [left EXCEPT ![w] = @ \ batch]
              /\ unsaved' = (unsaved /\ left[w] # batch)
      BY <1>1 DEF StoreWrite
    <2>2. left[w] # {} /\ UNCHANGED <<up, mem, op, snap>>
      BY <1>1 DEF StoreWrite, engine
    <2>3. \A k \in Key : store'[k] = IF k \in batch THEN snap[w][k] ELSE store[k]
      BY <2>1 DEF Overwritten, SoundInv, TypeOK, Texts
    <2>4. left'[w] = left[w] \ batch /\ \A v \in Writer \ {w} : left'[v] = left[v]
      BY <2>1 DEF SoundInv, TypeOK
    <2>5. batch \subseteq left[w] /\ left[w] \subseteq Key
      BY <2>1, NextKey DEF SoundInv, TypeOK
    <2>6. CASE w = Console
      <3>1. ~Idle(Console) /\ up = "down" /\ Idle(c) /\ left[c] = {}
        BY <1>c, <2>2, <2>6 DEF WrittenInStep, Idle
      <3>2. /\ op'[Console] # "idle" /\ op'[c] = "idle" /\ left'[c] = {} /\ up' = "down"
            /\ snap'[Console] = [k \in Key |-> EncodeFloat(0)]
            /\ \A leg \in Legs : mem'[PeakOf(leg)] = 0
        BY <1>d, <2>2, <2>4, <2>6, <3>1 DEF WrittenInStep, Idle
      <3>3. MarkStored(store', mem')
        BY <3>2 DEF MarkStored, StoredPeak, DecodeFloatOr, Larger
      <3>4. \A leg \in Legs : OneCallBehind(store', snap'[Console], leg)
        <4>1. \A leg \in Legs : StoredPeak(snap'[Console], leg) = 0
          BY <3>2, EncodingAssumption
          DEF StoredPeak, DecodeFloatOr, Larger, EncodeFloat, Legs, PeakOf, Key
        <4>2. \A leg \in Legs : StoredPeak(store', leg) \in Nat
                                /\ StoredPnl(snap'[Console], leg) \in Int
          BY DEF StoredPeak, StoredPnl, DecodeFloatOr, Larger
        <4>3. QED BY <4>1, <4>2 DEF OneCallBehind, Larger
      <3>5. QED BY <1>c, <1>d, <3>2, <3>3, <3>4 DEF WrittenInStep, Idle, MarkStored
    <2>7. CASE w = c
      <3>1. op[c] \notin {"idle", "load_read"} /\ up # "down" /\ Idle(Console)
            /\ left[Console] = {}
        BY <1>c, <2>2, <2>7 DEF WrittenInStep, Idle
      <3>2. MarkStored(snap'[c], mem')
        BY <1>c, <2>2, <3>1 DEF WrittenInStep
      <3>3. \A k \in Key \ left'[c] : store'[k] = snap'[c][k]
        <4>1. \A k \in Key \ left[c] : store[k] = snap[c][k]
          BY <1>c, <3>1 DEF WrittenInStep
        <4>2. QED BY <2>2, <2>3, <2>4, <2>5, <2>7, <4>1
      <3>4. ASSUME ~unsaved', NEW leg \in Legs, {leg, PeakOf(leg)} \subseteq left'[c]
            PROVE  OneCallBehind(store', snap'[c], leg)
        <4>1. left[w] # batch
          BY <2>4, <2>7, <3>4
        <4>2. OneCallBehind(store, snap[c], leg)
          BY <1>d, <2>1, <2>4, <2>7, <3>4, <4>1 DEF WrittenInStep
        <4>3. store'[leg] = store[leg] /\ store'[PeakOf(leg)] = store[PeakOf(leg)]
          BY <2>3, <2>4, <2>5, <2>7, <3>4
        <4>4. QED BY <2>2, <4>2, <4>3 DEF OneCallBehind, StoredPeak
      <3>5. Idle(Console)' /\ left'[Console] = {} /\ up' # "down" /\ op'[c] \notin {"idle", "load_read"}
        BY <1>d, <2>2, <2>4, <2>7, <3>1 DEF Idle
      <3>6. QED BY <1>c, <1>d, <3>2, <3>3, <3>4, <3>5 DEF WrittenInStep, Idle
    <2>8. QED BY <1>d, <2>6, <2>7
  <1>2. CASE Return(w)
    <2>1. /\ op[w] \notin {"idle", "load_read"} /\ left[w] = {}
          /\ op' = [op EXCEPT ![w] = "idle"] /\ snap' = [snap EXCEPT ![w] = NoSnap]
          /\ up' = IF op[w] = "load" THEN "running" ELSE up
          /\ UNCHANGED <<mem, store, left, unsaved>>
      BY <1>2 DEF Return
    <2>2. op'[w] = "idle" /\ \A v \in Writer \ {w} : op'[v] = op[v] /\ snap'[v] = snap[v]
      BY <2>1 DEF SoundInv, TypeOK
    <2>3. CASE w = Console
      <3>1. up' \in {"down", "running"} /\ up = "down" /\ Idle(c) /\ left[c] = {}
        BY <1>c, <2>1, <2>3 DEF WrittenInStep, Idle
      <3>2. MarkStored(store', mem')
        BY <2>1, <3>1 DEF WrittenInStep, MarkStored, StoredPeak, DecodeFloatOr, Larger
      <3>3. up' = "down" => \A leg \in Legs : mem'[PeakOf(leg)] = 0
        BY <2>1, <3>1 DEF WrittenInStep
      <3>4. op'[c] = "idle" /\ left'[c] = {} /\ left'[Console] = {}
        BY <1>d, <2>1, <2>2, <2>3, <3>1 DEF Idle
      <3>5. QED BY <1>c, <1>d, <2>2, <2>3, <3>2, <3>3, <3>4 DEF WrittenInStep, Idle, MarkStored
    <2>4. CASE w = c
      <3>1. up # "down" /\ Idle(Console) /\ left[Console] = {}
        BY <1>c, <2>1, <2>4 DEF WrittenInStep, Idle
      <3>2. MarkStored(snap[c], mem) /\ \A k \in Key : store[k] = snap[c][k]
        BY <1>c, <2>1, <2>4 DEF WrittenInStep
      <3>3. MarkStored(store', mem')
        <4>1. \A leg \in Legs : store[PeakOf(leg)] = snap[c][PeakOf(leg)]
          BY <3>2 DEF Legs, PeakOf, Key
        <4>2. QED BY <2>1, <3>2, <4>1 DEF MarkStored, StoredPeak
      <3>4. /\ up' # "down" /\ op'[Console] = "idle" /\ left'[Console] = {} /\ left'[c] = {}
            /\ op'[c] = "idle"
        BY <1>d, <2>1, <2>2, <2>4, <3>1 DEF Idle
      <3>5. QED BY <1>c, <1>d, <3>3, <3>4 DEF WrittenInStep, Idle, MarkStored
    <2>5. QED BY <1>d, <2>3, <2>4
  <1>3. CASE WriteFails(w)
    <2>1. /\ left[w] # {}
          /\ op' = [op EXCEPT ![w] = "idle"] /\ snap' = [snap EXCEPT ![w] = NoSnap]
          /\ left' = [left EXCEPT ![w] = {}]
          /\ up' = IF op[w] = "load" /\ ~LoadRetried THEN "failed" ELSE up
          /\ unsaved' = (unsaved \/ w \in Callers)
          /\ UNCHANGED <<mem, store>>
      BY <1>3 DEF WriteFails
    <2>2. /\ op'[w] = "idle" /\ left'[w] = {}
          /\ \A v \in Writer \ {w} : op'[v] = op[v] /\ left'[v] = left[v]
      BY <2>1 DEF SoundInv, TypeOK
    <2>3. CASE w = Console
      <3>1. up = "down" /\ Idle(c) /\ left[c] = {} /\ \A leg \in Legs : mem'[PeakOf(leg)] = 0
        BY <1>c, <2>1, <2>3 DEF WrittenInStep, Idle
      <3>2. MarkStored(store', mem')
        BY <3>1 DEF MarkStored, StoredPeak, DecodeFloatOr, Larger
      <3>3. op'[c] = "idle" /\ left'[c] = {}
        BY <1>d, <2>2, <2>3, <3>1 DEF Idle
      <3>4. QED BY <1>c, <1>d, <2>2, <2>3, <3>1, <3>2, <3>3 DEF WrittenInStep, Idle, MarkStored
    <2>4. CASE w = c
      <3>1. up # "down" /\ Idle(Console) /\ left[Console] = {} /\ unsaved'
        BY <1>c, <2>1, <2>4 DEF WrittenInStep, Idle
      <3>2. up' # "down" /\ op'[Console] = "idle" /\ left'[Console] = {}
        BY <1>d, <2>1, <2>2, <2>4, <3>1 DEF Idle
      <3>3. QED BY <1>c, <1>d, <2>2, <2>4, <3>1, <3>2 DEF WrittenInStep, Idle
    <2>5. QED BY <1>d, <2>3, <2>4
  <1>4. QED BY <1>1, <1>2, <1>3 DEF WriterNext

\* The engine's life, the operator's reset, the damage and the clock.
LEMMA EnvironmentInStep ==
    ASSUME OneReporter, SoundInv, WrittenInStep, EnvironmentNext
    PROVE  WrittenInStep'
  <1>c. PICK c : Callers = {c}
    BY DEF OneReporter
  <1>d. Writer = {c, Console} /\ c # Console
    BY <1>c, CountersAssumption DEF Writer
  <1>n. \A day : \A leg \in Legs : NewMem(day)[PeakOf(leg)] = 0
    BY DEF NewMem, Legs, PeakOf, Key
  <1>1. CASE Observe
    <2>1. up = "running" /\ mem' = Rolled(mem, today) /\ UNCHANGED <<up, store, op, snap, left, unsaved>>
      BY <1>1 DEF Observe, writers, history
    <2>2. ASSUME NEW texts, MarkStored(texts, mem) PROVE MarkStored(texts, mem')
      <3>1. \A leg \in Legs : mem'[PeakOf(leg)] <= mem[PeakOf(leg)]
        BY <2>1, RolledMarks DEF SoundInv, TypeOK
      <3>2. \A leg \in Legs : mem'[PeakOf(leg)] \in Int /\ mem[PeakOf(leg)] \in Int
                              /\ StoredPeak(texts, leg) \in Int
        BY <2>1, RolledSound
        DEF SoundInv, TypeOK, Sound, Figures, Legs, PeakOf, Key, StoredPeak, DecodeFloatOr, Larger
      <3>3. QED BY <2>2, <3>1, <3>2 DEF MarkStored
    <2>3. Idle(Console) /\ left[Console] = {}
      BY <2>1 DEF WrittenInStep
    <2>4. op[c] \in {"idle", "load_read"} /\ ~unsaved => MarkStored(store, mem')
      BY <1>c, <2>2 DEF WrittenInStep
    <2>5. op[c] \notin {"idle", "load_read"} => MarkStored(snap[c], mem')
      BY <1>c, <2>2 DEF WrittenInStep
    <2>6. QED BY <1>c, <1>d, <2>1, <2>3, <2>4, <2>5 DEF WrittenInStep, Idle, MarkStored, OneCallBehind
  <1>2. CASE Start
    <2>1. /\ up = "down" /\ Idle(Console) /\ up' = "constructed" /\ mem' = NewMem(today)
          /\ UNCHANGED <<store, op, snap, left, unsaved>>
      BY <1>2 DEF Start, writers, history
    <2>2. op[c] = "idle" /\ left[c] = {} /\ left[Console] = {}
      BY <1>c, <2>1 DEF WrittenInStep, Idle
    <2>3. MarkStored(store', mem')
      BY <1>n, <2>1 DEF MarkStored, StoredPeak, DecodeFloatOr, Larger
    <2>4. QED BY <1>c, <1>d, <2>1, <2>2, <2>3 DEF WrittenInStep, Idle, MarkStored
  <1>3. CASE Crash
    <2>1. /\ up # "down" /\ up' = "down" /\ mem' = NewMem(1) /\ store' = store
          /\ op' = [w \in Writer |-> IF w \in Callers THEN "idle" ELSE op[w]]
          /\ left' = [w \in Writer |-> IF w \in Callers THEN {} ELSE left[w]]
      BY <1>3 DEF Crash
    <2>2. Idle(Console) /\ left[Console] = {}
      BY <2>1 DEF WrittenInStep
    <2>3. \A w \in Writer : op'[w] = "idle" /\ left'[w] = {}
      BY <1>c, <1>d, <2>1, <2>2 DEF Idle
    <2>4. MarkStored(store', mem')
      BY <1>n, <2>1 DEF MarkStored, StoredPeak, DecodeFloatOr, Larger
    <2>5. QED BY <1>c, <1>d, <1>n, <2>1, <2>3, <2>4 DEF WrittenInStep, Idle, MarkStored
  <1>4. CASE ResetDailyLossLimit
    <2>1. /\ up = "down" /\ UNCHANGED <<up, mem, store, unsaved>>
          /\ op' = [op EXCEPT ![Console] = "reset_daily_loss_limit"]
          /\ snap' = [snap EXCEPT ![Console] = [k \in Key |-> EncodeFloat(0)]]
          /\ left' = [left EXCEPT ![Console] = ResetKeys]
      BY <1>4 DEF ResetDailyLossLimit, engine
    <2>2. /\ op'[Console] # "idle" /\ snap'[Console] = [k \in Key |-> EncodeFloat(0)]
          /\ op'[c] = op[c] /\ left'[c] = left[c]
      BY <1>d, <2>1 DEF SoundInv, TypeOK
    <2>3. op'[c] = "idle" /\ left'[c] = {}
      BY <1>c, <2>1, <2>2 DEF WrittenInStep, Idle
    <2>4. \A leg \in Legs : mem'[PeakOf(leg)] = 0
      BY <2>1 DEF WrittenInStep
    <2>5. MarkStored(store', mem')
      BY <2>4 DEF MarkStored, StoredPeak, DecodeFloatOr, Larger
    <2>6. \A leg \in Legs : OneCallBehind(store', snap'[Console], leg)
      <3>1. \A leg \in Legs : StoredPeak(snap'[Console], leg) = 0
        BY <2>2, EncodingAssumption
        DEF StoredPeak, DecodeFloatOr, Larger, EncodeFloat, Legs, PeakOf, Key
      <3>2. \A leg \in Legs : StoredPeak(store', leg) \in Nat
                              /\ StoredPnl(snap'[Console], leg) \in Int
        BY DEF StoredPeak, StoredPnl, DecodeFloatOr, Larger
      <3>3. QED BY <3>1, <3>2 DEF OneCallBehind, Larger
    <2>7. QED BY <1>c, <1>d, <2>1, <2>2, <2>3, <2>4, <2>5, <2>6 DEF WrittenInStep, Idle, MarkStored
  <1>5. CASE DamageKey
    <2>1. up = "down" /\ UNCHANGED <<up, mem, op, snap, left, unsaved>>
      BY <1>5 DEF DamageKey, engine, writers, history
    <2>2. op[c] = "idle" /\ left[c] = {} /\ \A leg \in Legs : mem'[PeakOf(leg)] = 0
      BY <1>c, <2>1 DEF WrittenInStep, Idle
    <2>3. MarkStored(store', mem')
      BY <2>2 DEF MarkStored, StoredPeak, DecodeFloatOr, Larger
    <2>4. ~Idle(Console) => \A leg \in Legs : OneCallBehind(store', snap[Console], leg)
      <3>1. ~Idle(Console) => \A leg \in Legs : StoredPeak(snap[Console], leg) = 0
        BY EncodingAssumption
        DEF WrittenInStep, StoredPeak, DecodeFloatOr, Larger, EncodeFloat, Legs, PeakOf, Key
      <3>2. \A leg \in Legs : StoredPeak(store', leg) \in Nat
                              /\ StoredPnl(snap[Console], leg) \in Int
        BY DEF StoredPeak, StoredPnl, DecodeFloatOr, Larger
      <3>3. QED BY <3>1, <3>2 DEF OneCallBehind, Larger
    <2>5. QED BY <1>c, <1>d, <2>1, <2>2, <2>3, <2>4 DEF WrittenInStep, Idle, MarkStored
  <1>6. CASE NewDay \/ ClockBack
    BY <1>6 DEF NewDay, ClockBack, engine, writers, history, WrittenInStep, Idle, MarkStored,
                OneCallBehind
  <1>7. QED
    BY <1>1, <1>2, <1>3, <1>4, <1>5, <1>6 DEF EnvironmentNext

\* So the store is never more than one call behind between a crash or a full
\* batch and the next lost one.
LEMMA InStepNext ==
    ASSUME OneReporter
    PROVE  SoundInv /\ WrittenInStep /\ [Next]_vars => WrittenInStep'
  <1> SUFFICES ASSUME SoundInv, WrittenInStep, [Next]_vars PROVE WrittenInStep'
    OBVIOUS
  <1>1. CASE UNCHANGED vars
    BY <1>1 DEF vars, engine, writers, history, WrittenInStep, Idle, MarkStored, OneCallBehind
  <1>2. QED
    BY <1>1, CallsInStep, WritersInStep, EnvironmentInStep DEF Next

\* With one reporting coroutine the mark in the store is behind the engine's
\* by at most the call being written, until a batch is lost (persist, load).
THEOREM StoreInStep == ASSUME OneReporter PROVE Spec => []WrittenInStep
  <1>1. SoundInv /\ WrittenInStep /\ [Next]_vars => WrittenInStep'
    BY InStepNext
  <1>2. QED BY <1>1, InStepInit, SoundCounters, PTL DEF Spec

\* One reporting coroutine whose last batch was not lost never leaves a torn
\* store from which a restart allows more loss than one before the batch or
\* after it: the P&L is written before its mark, and that is safe because a
\* mark is raised only to the P&L (SequentialBatchMixin, persist, load).
THEOREM TornLoss == ASSUME OneReporter PROVE Spec => TornLossConservative
  <1> DEFINE Step == Writes /\ ~unsaved =>
                         \E w \in Writer : LossNoLooser(After, Before, Finished(w))
  <1>1. ASSUME SoundInv, WrittenInStep, [Next]_vars PROVE [Step]_vars
    <2>1. SUFFICES ASSUME Writes, ~unsaved PROVE Step
      OBVIOUS
    <2>2. PICK w \in Writer : \E batch \in Batches(PersistOrder, left[w]) :
                                  store' = Overwritten(store, batch, snap[w])
      BY <1>1, <2>1, WritesAreBatches
    <2>3. PICK batch \in Batches(PersistOrder, left[w]) :
                   store' = Overwritten(store, batch, snap[w])
      BY <2>2
    <2>4. /\ store \in Texts /\ snap[w] \in Texts /\ left[w] \in SUBSET Key /\ today \in Day
      BY <1>1, <2>2 DEF SoundInv, TypeOK
    <2>5. \A leg \in Legs : {leg, PeakOf(leg)} \subseteq left[w] => OneCallBehind(store, snap[w], leg)
      BY <1>1, <2>1, <2>2 DEF WrittenInStep
    <2>6. LossNoLooser(After, Before, Finished(w))
      BY <2>3, <2>4, <2>5, LossStep DEF After, Before, Finished
    <2>7. QED BY <2>2, <2>6
  <1>2. QED
    BY <1>1, SoundCounters, StoreInStep, PTL DEF Spec, TornLossConservative

-------------------------------------------------------------------------------
(* What a restart finds *)

\* What the caller w will have been told of executions once its call returns.
ExecutionsDue(w) == IF due[w].figure = "executions" THEN due[w].use ELSE 0

\* A call other than the read of load rolls the day, changes the counters and
\* takes its snapshot of them (the record_* calls, rearm, load).
Calls(w, name, n) ==
    /\ Sound(n) /\ n["trading_day"] = today
    /\ Persist(w, name, n)
    /\ UNCHANGED <<today, up, store, unsaved>>
    /\ \/ /\ name = "load" /\ LoadApply(w)
          /\ n["executions"] = AsCount(snap[w]["executions"])
          /\ UNCHANGED <<due, fills>>
       \/ /\ name # "load" /\ Ready(w)
          /\ \A v \in Writer : v # w => ExecutionsDue(v)' \in {0, ExecutionsDue(v)}
          /\ fills' \in {0, fills}
          /\ ExecutionsDue(w) = 0 /\ mem["executions"] >= fills =>
                 n["executions"] >= fills' + ExecutionsDue(w)'

\* Forgiving other figures adds nothing to what is due.
LEMMA ForgivenDue ==
    ASSUME SoundInv, NEW figures, Forgiven(figures), NEW w \in Writer
    PROVE  ExecutionsDue(w)' \in {0, ExecutionsDue(w)}
  <1>1. due'[w] = IF due[w].figure \in figures THEN NothingDue ELSE due[w]
    BY DEF Forgiven
  <1>2. NothingDue.figure # "executions"
    BY DEF NothingDue
  <1>3. QED BY <1>1, <1>2 DEF ExecutionsDue

\* Booking a figure other than executions adds nothing to what is due of them.
LEMMA AccountDue ==
    ASSUME SoundInv, NEW w \in Writer, NEW figure, NEW use \in Int, Account(w, figure, use)
    PROVE  /\ fills' = fills
           /\ \A v \in Writer : v # w => ExecutionsDue(v)' = ExecutionsDue(v)
           /\ figure # "executions" => ExecutionsDue(w)' \in {0, ExecutionsDue(w)}
           /\ figure = "executions" /\ use > 0 => ExecutionsDue(w)' = use
  <1>1. fills' = fills /\ \/ use > 0 /\ due' = [due EXCEPT ![w] =
                                          [figure |-> figure, use |-> use, day |-> today]]
                          \/ ~(use > 0) /\ due' = due
    BY DEF Account
  <1>2. CASE use > 0
    <2>1. due'[w] = [figure |-> figure, use |-> use, day |-> today]
          /\ \A v \in Writer : v # w => due'[v] = due[v]
      BY <1>1, <1>2 DEF SoundInv, TypeOK
    <2>2. QED BY <1>1, <2>1 DEF ExecutionsDue
  <1>3. CASE ~(use > 0)
    BY <1>1, <1>3 DEF ExecutionsDue
  <1>4. QED BY <1>2, <1>3

\* Every call is of that form.
LEMMA CallsPersist ==
    ASSUME SoundInv, NEW w \in Callers, CallerNext(w)
    PROVE  LoadRead(w) \/ \E name \in OpName \ {"idle", "load_read"} : \E n : Calls(w, name, n)
  <1> DEFINE r == Rolled(mem, today)
             Goal == \E name \in OpName \ {"idle", "load_read"} : \E n : Calls(w, name, n)
  <1>r. Sound(r) /\ r["trading_day"] = today /\ r["executions"] = mem["executions"]
    BY RolledSound DEF SoundInv, TypeOK, Rolled, Figures, NewMem, Key
  <1>w. w \in Writer /\ fills \in Nat /\ mem["executions"] \in Nat
    BY DEF Writer, SoundInv, TypeOK, Figures, Key
  <1>1. ASSUME NEW n, Sound(n), n["trading_day"] = today,
               NEW name \in OpName \ {"idle", "load_read", "load"},
               Ready(w), Persist(w, name, n), CallBegins,
               \A v \in Writer : v # w => ExecutionsDue(v)' \in {0, ExecutionsDue(v)},
               fills' \in {0, fills},
               ExecutionsDue(w) = 0 /\ mem["executions"] >= fills =>
                   n["executions"] >= fills' + ExecutionsDue(w)'
        PROVE  Goal
    <2>1. Calls(w, name, n)
      BY <1>1 DEF Calls, CallBegins
    <2>2. QED BY <2>1
  <1>2. ASSUME NEW n, Sound(n), n["trading_day"] = today, n["executions"] = mem["executions"],
               NEW name \in OpName \ {"idle", "load_read", "load"},
               Ready(w), Persist(w, name, n), CallBegins, fills' = fills,
               \A v \in Writer : ExecutionsDue(v)' \in {0, ExecutionsDue(v)}
        PROVE  Goal
    <2>1. ExecutionsDue(w) = 0 /\ mem["executions"] >= fills =>
              n["executions"] >= fills' + ExecutionsDue(w)'
      BY <1>w, <1>2
    <2>2. QED BY <1>1, <1>2, <2>1
  <1>3. ASSUME NEW trade \in Trades, RecordRealizedPnl(w, trade[1], trade[2]) PROVE Goal
    <2> DEFINE on == trade[1]
               pnl == r[on] + trade[2]
               n == [r EXCEPT ![on] = pnl, ![PeakOf(on)] = Larger(r[PeakOf(on)], pnl)]
    <2>1. on \in Legs /\ on # "executions" /\ trade[2] \in Int /\ -trade[2] \in Int
      BY CountersAssumption DEF Legs
    <2>2. Sound(n) /\ n["trading_day"] = today /\ n["executions"] = mem["executions"]
      BY <1>r, <2>1 DEF Sound, Figures, Key, Legs, PeakOf, Larger
    <2>3. /\ Ready(w) /\ Persist(w, "record_realized_pnl", n) /\ CallBegins
          /\ Account(w, on, -trade[2])
      BY <1>3 DEF RecordRealizedPnl, PnlAdded
    <2>4. fills' = fills /\ \A v \in Writer : ExecutionsDue(v)' \in {0, ExecutionsDue(v)}
      BY <1>w, <2>1, <2>3, AccountDue
    <2>5. "record_realized_pnl" \in OpName \ {"idle", "load_read", "load"}
      BY DEF OpName
    <2> HIDE DEF n, on
    <2>6. QED BY <1>2, <2>2, <2>3, <2>4, <2>5
  <1>4. ASSUME NEW amount \in Notionals, RecordNotional(w, amount) PROVE Goal
    <2> DEFINE n == [r EXCEPT !["daily_notional"] = @ + amount]
    <2>1. amount \in Int
      BY CountersAssumption
    <2>2. Sound(n) /\ n["trading_day"] = today /\ n["executions"] = mem["executions"]
      BY <1>r, <2>1 DEF Sound, Figures, Key, Legs, PeakOf
    <2>3. /\ Ready(w) /\ Persist(w, "record_notional", n) /\ CallBegins
          /\ Account(w, "daily_notional", amount)
      BY <1>4 DEF RecordNotional, NotionalAdded
    <2>4. fills' = fills /\ \A v \in Writer : ExecutionsDue(v)' \in {0, ExecutionsDue(v)}
      BY <1>w, <2>1, <2>3, AccountDue
    <2>5. QED BY <1>2, <2>2, <2>3, <2>4 DEF OpName
  <1>5. CASE RecordOrderRejected(w)
    <2> DEFINE n == [r EXCEPT !["rejects"] = @ + 1]
    <2>1. Sound(n) /\ n["trading_day"] = today /\ n["executions"] = mem["executions"]
      BY <1>r DEF Sound, Figures, Key, Legs, PeakOf
    <2>2. /\ Ready(w) /\ Persist(w, "record_order_rejected", n) /\ CallBegins
          /\ Account(w, "rejects", 1)
      BY <1>5 DEF RecordOrderRejected, RejectNoted
    <2>3. fills' = fills /\ \A v \in Writer : ExecutionsDue(v)' \in {0, ExecutionsDue(v)}
      BY <1>w, <2>2, AccountDue
    <2>4. QED BY <1>2, <2>1, <2>2, <2>3 DEF OpName
  <1>6. CASE RecordOrderAccepted(w)
    <2> DEFINE n == [r EXCEPT !["rejects"] = 0]
    <2>1. Sound(n) /\ n["trading_day"] = today /\ n["executions"] = mem["executions"]
      BY <1>r DEF Sound, Figures, Key, Legs, PeakOf
    <2>2. /\ Ready(w) /\ Persist(w, "record_order_accepted", n) /\ CallBegins
          /\ Forgiven({"rejects"}) /\ fills' = fills
      BY <1>6 DEF RecordOrderAccepted, AcceptanceNoted
    <2>3. \A v \in Writer : ExecutionsDue(v)' \in {0, ExecutionsDue(v)}
      BY <2>2, ForgivenDue
    <2>4. QED BY <1>2, <2>1, <2>2, <2>3 DEF OpName
  <1>7. CASE RecordExecution(w)
    <2> DEFINE n == [r EXCEPT !["executions"] = @ + 1]
    <2>1. Sound(n) /\ n["trading_day"] = today /\ n["executions"] = mem["executions"] + 1
      BY <1>r DEF Sound, Figures, Key, Legs, PeakOf
    <2>2. /\ Ready(w) /\ Persist(w, "record_execution", n) /\ CallBegins
          /\ Account(w, "executions", 1)
      BY <1>7 DEF RecordExecution, ExecutionNoted
    <2>3. /\ fills' = fills /\ ExecutionsDue(w)' = 1
          /\ \A v \in Writer : v # w => ExecutionsDue(v)' = ExecutionsDue(v)
      BY <1>w, <2>2, AccountDue
    <2>4. mem["executions"] >= fills => n["executions"] >= fills' + ExecutionsDue(w)'
      BY <1>w, <2>1, <2>3
    <2>5. QED BY <1>1, <2>1, <2>2, <2>3, <2>4 DEF OpName
  <1>8. CASE Rearm(w)
    <2> DEFINE n == [r EXCEPT !["rejects"] = 0, !["executions"] = 0]
    <2>1. Sound(n) /\ n["trading_day"] = today /\ n["executions"] = 0
      BY <1>r DEF Sound, Figures, Key, Legs, PeakOf
    <2>2. /\ Ready(w) /\ Persist(w, "rearm", n) /\ CallBegins
          /\ Forgiven({"rejects", "executions"}) /\ fills' = 0
      BY <1>8 DEF Rearm, Rearmed
    <2>3. \A v \in Writer : ExecutionsDue(v)' \in {0, ExecutionsDue(v)}
      BY <2>2, ForgivenDue
    <2>4. ExecutionsDue(w) = 0 => n["executions"] >= fills' + ExecutionsDue(w)'
      BY <1>w, <2>1, <2>2, <2>3
    <2>5. QED BY <1>1, <2>1, <2>2, <2>3, <2>4 DEF OpName
  <1>9. CASE LoadApply(w)
    <2> DEFINE n == Loaded(snap[w], mem, today)
    <2>1. Sound(n) /\ n["trading_day"] = today
      BY <1>w, LoadedSound DEF SoundInv, TypeOK
    <2>2. n["executions"] = AsCount(snap[w]["executions"])
      BY DEF Loaded, Key
    <2>3. Persist(w, "load", n) /\ UNCHANGED <<today, up, store, unsaved, due, fills>>
      BY <1>9 DEF LoadApply, history
    <2>4. Calls(w, "load", n)
      BY <1>9, <2>1, <2>2, <2>3 DEF Calls
    <2>5. QED BY <2>4 DEF OpName
  <1>10. QED
    BY <1>3, <1>4, <1>5, <1>6, <1>7, <1>8, <1>9 DEF CallerNext

\* Two writers in turn: the one reporting coroutine, and the operator's process
\* while it is down.
LEMMA OneAtATime ==
    ASSUME OneReporter, SoundInv, WrittenInStep, NEW c \in Callers
    PROVE  /\ Callers = {c} /\ Writer = {c, Console} /\ c # Console
           /\ op[c] # "idle" => up # "down" /\ op[Console] = "idle" /\ left[Console] = {}
           /\ op[Console] # "idle" => up = "down" /\ op[c] = "idle" /\ left[c] = {}
  <1>1. Callers = {c} /\ Writer = {c, Console} /\ c # Console
    BY CountersAssumption DEF OneReporter, Writer
  <1>2. QED BY <1>1 DEF WrittenInStep, Idle

\* A batch that is written to the end leaves the store equal to it.
LEMMA WrittenToTheEnd ==
    ASSUME SoundInv, WrittenInStep, NEW w \in Callers,
           op[w] \notin {"idle", "load_read"}, left[w] = {}
    PROVE  store = snap[w]
  <1>1. \A k \in Key : store[k] = snap[w][k]
    BY DEF WrittenInStep
  <1>2. store \in [Key -> WireText] /\ snap[w] \in [Key -> WireText]
    BY DEF SoundInv, TypeOK, Texts, Writer
  <1>3. QED BY <1>1, <1>2

\* The snapshot being written, and between calls the store, restore on this day
\* and every later one the counters the engine shows.
TornAgreement ==
    /\ op[Console] \in {"idle", "reset_daily_loss_limit"}
    /\ mem["trading_day"] <= today
    /\ \A w \in Callers :
        /\ op[w] \notin {"idle", "load_read"} => Agree(snap[w], mem)
        /\ up = "running" /\ Idle(w) /\ ~unsaved => Agree(store, mem)

\* With no process there is nothing to disagree with.
LEMMA TornAgreementInit == Init => TornAgreement
  BY DEF Init, TornAgreement, Idle, NewMem, Key, Writer

\* A call leaves a snapshot to write that agrees with what it has made of the
\* counters, and the last key of it makes the store agree.
LEMMA TornAgreementNext ==
    ASSUME OneReporter, ~ClockStepsBack
    PROVE  SoundInv /\ WrittenInStep /\ TornAgreement /\ [Next]_vars => TornAgreement'
  <1> SUFFICES ASSUME SoundInv, WrittenInStep, TornAgreement, [Next]_vars
               PROVE  TornAgreement'
    OBVIOUS
  <1>c. PICK c : Callers = {c}
    BY DEF OneReporter
  <1>d. /\ Writer = {c, Console} /\ c # Console
        /\ op[c] # "idle" => up # "down" /\ op[Console] = "idle" /\ left[Console] = {}
        /\ op[Console] # "idle" => up = "down" /\ op[c] = "idle" /\ left[c] = {}
    BY <1>c, OneAtATime
  <1>t. mem["trading_day"] \in Int /\ today \in Int
    BY DEF SoundInv, TypeOK, Day
  <1>1. CASE CallerNext(c)
    <2>1. CASE LoadRead(c)
      <3>1. /\ up = "constructed" /\ op' = [op EXCEPT ![c] = "load_read"]
            /\ UNCHANGED <<today, up, mem, store, unsaved>>
        BY <2>1 DEF LoadRead, engine, history
      <3>2. op'[c] = "load_read" /\ op'[Console] = op[Console]
        BY <1>d, <3>1 DEF SoundInv, TypeOK
      <3>3. QED BY <1>c, <3>1, <3>2 DEF TornAgreement, Idle
    <2>2. ASSUME NEW name \in OpName \ {"idle", "load_read"}, NEW n, Calls(c, name, n)
          PROVE  TornAgreement'
      <3>1. /\ Sound(n) /\ n["trading_day"] = today /\ mem' = n /\ today' = today
            /\ op' = [op EXCEPT ![c] = name] /\ snap' = [snap EXCEPT ![c] = Encoded(n)]
        BY <2>2 DEF Calls, Persist
      <3>2. op'[c] = name /\ op'[Console] = op[Console] /\ snap'[c] = Encoded(n)
        BY <1>d, <3>1 DEF SoundInv, TypeOK
      <3>4. Agree(Encoded(n), n)
        BY <3>1, EncodedAgrees
      <3>5. Agree(snap[c], mem)'
        BY <3>1, <3>2, <3>4 DEF Agree
      <3>6. QED BY <1>c, <1>t, <3>1, <3>2, <3>5 DEF TornAgreement, Idle
    <2>3. QED BY <1>1, <1>c, <2>1, <2>2, CallsPersist
  <1>2. ASSUME NEW w \in Writer, WriterNext(w) PROVE TornAgreement'
    <2>1. CASE StoreWrite(w)
      <3>1. left[w] # {} /\ UNCHANGED <<today, up, mem, op, snap>>
        BY <2>1 DEF StoreWrite, engine
      <3>2. up = "running" => op[c] # "idle"
        BY <1>c, <1>d, <3>1 DEF WrittenInStep, Idle
      <3>3. Agree(snap[c], mem)' = Agree(snap[c], mem)
        BY <3>1 DEF Agree
      <3>4. QED BY <1>c, <3>1, <3>2, <3>3 DEF TornAgreement, Idle
    <2>2. CASE Return(w)
      <3>1. /\ op[w] \notin {"idle", "load_read"} /\ left[w] = {}
            /\ op' = [op EXCEPT ![w] = "idle"]
            /\ up' = IF op[w] = "load" THEN "running" ELSE up
            /\ UNCHANGED <<today, mem, store, unsaved>>
        BY <2>2 DEF Return
      <3>2. op'[w] = "idle" /\ \A v \in Writer \ {w} : op'[v] = op[v]
        BY <3>1 DEF SoundInv, TypeOK
      <3>3. CASE w = c
        <4>1. store = snap[c] /\ Agree(snap[c], mem)
          BY <1>c, <3>1, <3>3, WrittenToTheEnd DEF TornAgreement
        <4>2. Agree(store, mem)'
          BY <3>1, <4>1 DEF Agree
        <4>3. QED BY <1>c, <1>d, <3>1, <3>2, <3>3, <4>2 DEF TornAgreement, Idle
      <3>4. CASE w = Console
        <4>1. op'[c] = "idle" /\ op'[Console] = "idle" /\ up' = "down"
          BY <1>d, <3>1, <3>2, <3>4 DEF TornAgreement
        <4>2. QED BY <1>c, <3>1, <4>1 DEF TornAgreement, Idle
      <3>5. QED BY <1>d, <3>3, <3>4
    <2>3. CASE WriteFails(w)
      <3>1. /\ left[w] # {} /\ op' = [op EXCEPT ![w] = "idle"]
            /\ up' = IF op[w] = "load" /\ ~LoadRetried THEN "failed" ELSE up
            /\ unsaved' = (unsaved \/ w \in Callers)
            /\ UNCHANGED <<today, mem, store>>
        BY <2>3 DEF WriteFails
      <3>2. op'[w] = "idle" /\ \A v \in Writer \ {w} : op'[v] = op[v]
        BY <3>1 DEF SoundInv, TypeOK
      <3>3. op'[c] = "idle" /\ op'[Console] = "idle"
        BY <1>c, <1>d, <3>1, <3>2 DEF WrittenInStep, Idle
      <3>4. up' = "running" => unsaved'
        BY <1>c, <1>d, <3>1 DEF WrittenInStep, Idle
      <3>5. QED BY <1>c, <3>1, <3>3, <3>4 DEF TornAgreement
    <2>4. QED BY <1>2, <2>1, <2>2, <2>3 DEF WriterNext
  <1>3. CASE EnvironmentNext
    <2>1. CASE Observe
      <3>1. /\ mem' = Rolled(mem, today) /\ UNCHANGED <<today, up, store, op, snap, unsaved>>
        BY <2>1 DEF Observe, writers, history
      <3>2. \A texts : Agree(texts, mem) => Agree(texts, Rolled(mem, today))
        BY RolledAgrees DEF SoundInv, TypeOK, TornAgreement
      <3>3. (Agree(snap[c], mem) => Agree(snap[c], mem)') /\ (Agree(store, mem) => Agree(store, mem)')
        BY <3>1, <3>2 DEF Agree
      <3>4. mem'["trading_day"] = today
        BY <3>1, RolledSound DEF SoundInv, TypeOK
      <3>5. QED BY <1>c, <1>t, <3>1, <3>3, <3>4 DEF TornAgreement, Idle
    <2>2. CASE Start
      <3>1. /\ mem' = NewMem(today) /\ up = "down" /\ up' = "constructed"
            /\ UNCHANGED <<today, store, op, snap, unsaved>>
        BY <2>2 DEF Start, writers, history
      <3>2. mem'["trading_day"] = today /\ op[c] = "idle"
        BY <1>d, <3>1 DEF NewMem, Key
      <3>3. QED BY <1>c, <1>t, <3>1, <3>2 DEF TornAgreement, Idle
    <2>3. CASE Crash
      <3>1. /\ mem' = NewMem(1) /\ up' = "down" /\ today' = today
            /\ op'[c] = "idle" /\ op'[Console] = op[Console]
        BY <1>c, <1>d, <2>3 DEF Crash
      <3>2. mem'["trading_day"] = 1 /\ today >= 1
        BY <3>1 DEF NewMem, Key, SoundInv, TypeOK, Day
      <3>3. QED BY <1>c, <3>1, <3>2 DEF TornAgreement
    <2>4. CASE ResetDailyLossLimit
      <3>1. /\ up = "down" /\ UNCHANGED <<today, up, mem, store, unsaved>>
            /\ op'[c] = op[c] /\ op'[Console] = "reset_daily_loss_limit"
        BY <1>d, <2>4 DEF ResetDailyLossLimit, engine, SoundInv, TypeOK
      <3>2. op[c] = "idle"
        BY <1>d, <3>1
      <3>3. QED BY <1>c, <3>1, <3>2 DEF TornAgreement
    <2>5. CASE DamageKey
      <3>1. up = "down" /\ UNCHANGED <<today, up, mem, op, snap, unsaved>>
        BY <2>5 DEF DamageKey, engine, writers, history
      <3>2. op[c] = "idle"
        BY <1>d, <3>1
      <3>3. QED BY <1>c, <3>1, <3>2 DEF TornAgreement
    <2>6. CASE NewDay
      <3>1. today' = today + 1 /\ UNCHANGED <<up, mem, store, op, snap, unsaved>>
        BY <2>6 DEF NewDay, engine, writers, history
      <3>2. Agree(snap[c], mem)' = Agree(snap[c], mem) /\ Agree(store, mem)' = Agree(store, mem)
        BY <3>1 DEF Agree
      <3>3. QED BY <1>c, <1>t, <3>1, <3>2 DEF TornAgreement, Idle
    <2>7. ~ClockBack
      BY DEF ClockBack
    <2>8. QED
      BY <1>3, <2>1, <2>2, <2>3, <2>4, <2>5, <2>6, <2>7 DEF EnvironmentNext
  <1>4. CASE UNCHANGED vars
    <2>1. UNCHANGED <<today, up, mem, store, op, snap, unsaved>>
      BY <1>4 DEF vars, engine, writers, history
    <2>2. Agree(snap[c], mem)' = Agree(snap[c], mem) /\ Agree(store, mem)' = Agree(store, mem)
      BY <2>1 DEF Agree
    <2>3. QED BY <1>c, <2>1, <2>2 DEF TornAgreement, Idle
  <1>5. QED BY <1>1, <1>2, <1>3, <1>4, <1>c DEF Next

\* "A restart cannot reset a breached limit": between calls, and once no failed
\* write is outstanding, one reporting coroutine's store restores exactly the
\* counters the engine shows, whether it commits a batch at once or key by key,
\* whatever was torn, damaged or retried on the way, as long as the wall clock
\* does not leave its day backwards.
THEOREM RestartAgrees == ASSUME OneReporter, ~ClockStepsBack PROVE Spec => []RestartAgreement
  <1>1. SoundInv /\ TornAgreement => RestartAgreement
    <2> SUFFICES ASSUME SoundInv, TornAgreement, Quiet, ~unsaved
                 PROVE  Restarted(store, today) = Rolled(mem, today)
      BY DEF RestartAgreement
    <2>1. PICK w \in Callers : Idle(w)
      BY DEF Quiet, Writer, OneReporter
    <2>2. Agree(store, mem)
      BY <2>1 DEF TornAgreement, Quiet
    <2>3. QED BY <2>2 DEF Agree, TornAgreement, SoundInv, TypeOK, Day
  <1>2. SoundInv /\ WrittenInStep /\ TornAgreement /\ [Next]_vars => TornAgreement'
    BY TornAgreementNext
  <1>3. Spec => []WrittenInStep
    BY StoreInStep
  <1>4. QED
    BY <1>1, <1>2, <1>3, TornAgreementInit, SoundCounters, PTL DEF Spec

\* The snapshot being written, the store and the engine's memory all count the
\* executions that were acknowledged, and the one whose call has not returned.
ExecutionsKept ==
    /\ op[Console] \in {"idle", "reset_daily_loss_limit"}
    /\ "executions" \notin left[Console] /\ ExecutionsDue(Console) = 0
    /\ AsCount(store["executions"]) >= fills
    /\ \A w \in Callers :
        /\ op[w] = "load_read" => up = "constructed"
        /\ op[w] \in {"idle", "load_read", "load"} => ExecutionsDue(w) = 0
        /\ op[w] \notin {"idle", "load_read"} =>
               /\ AsCount(snap[w]["executions"]) >= fills + ExecutionsDue(w)
               /\ mem["executions"] >= fills + ExecutionsDue(w)
        /\ up = "running" /\ Idle(w) => mem["executions"] >= fills

\* Nothing has been acknowledged yet.
LEMMA ExecutionsInit == Init => ExecutionsKept
  <1> SUFFICES ASSUME Init PROVE ExecutionsKept
    OBVIOUS
  <1>1. Console \in Writer /\ Callers \subseteq Writer
    BY DEF Writer
  <1>2. \A w \in Writer : op[w] = "idle" /\ left[w] = {} /\ ExecutionsDue(w) = 0
    BY DEF Init, ExecutionsDue, NothingDue
  <1>3. up = "down" /\ fills = 0
    BY DEF Init
  <1>4. AsCount(store["executions"]) >= fills
    BY <1>3 DEF AsCount
  <1>5. QED BY <1>1, <1>2, <1>3, <1>4 DEF ExecutionsKept

\* What a call consumes is in its snapshot before it is acknowledged, and only
\* record_execution and rearm touch the count.
LEMMA ExecutionsNext ==
    ASSUME OneReporter, DamageBudget = 0
    PROVE  SoundInv /\ WrittenInStep /\ ExecutionsKept /\ [Next]_vars => ExecutionsKept'
  <1> SUFFICES ASSUME SoundInv, WrittenInStep, ExecutionsKept, [Next]_vars
               PROVE  ExecutionsKept'
    OBVIOUS
  <1>c. PICK c : Callers = {c}
    BY DEF OneReporter
  <1>d. /\ Writer = {c, Console} /\ c # Console
        /\ op[c] # "idle" => up # "down" /\ op[Console] = "idle" /\ left[Console] = {}
        /\ op[Console] # "idle" => up = "down" /\ op[c] = "idle" /\ left[c] = {}
    BY <1>c, OneAtATime
  <1>t. /\ fills \in Nat /\ mem["executions"] \in Nat
        /\ \A w \in Writer : ExecutionsDue(w) \in Nat
    BY DEF SoundInv, TypeOK, Figures, Key, ExecutionsDue, Due
  <1>a. \A raw : AsCount(raw) \in Nat
    BY DEF AsCount
  <1>1. CASE CallerNext(c)
    <2>1. CASE LoadRead(c)
      <3>1. /\ up = "constructed" /\ op' = [op EXCEPT ![c] = "load_read"] /\ op[c] = "idle"
            /\ UNCHANGED <<up, mem, store, left, due, fills>>
        BY <1>d, <2>1 DEF LoadRead, engine, history, Idle
      <3>2. op'[c] = "load_read" /\ op'[Console] = op[Console]
        BY <1>d, <3>1 DEF SoundInv, TypeOK
      <3>3. ExecutionsDue(c)' = 0 /\ ExecutionsDue(Console)' = 0
        BY <1>c, <3>1 DEF ExecutionsKept, ExecutionsDue
      <3>4. QED BY <1>c, <3>1, <3>2, <3>3 DEF ExecutionsKept, Idle
    <2>2. ASSUME NEW name \in OpName \ {"idle", "load_read"}, NEW n, Calls(c, name, n)
          PROVE  ExecutionsKept'
      <3>1. /\ Sound(n) /\ mem' = n /\ UNCHANGED <<up, store>>
            /\ op' = [op EXCEPT ![c] = name] /\ snap' = [snap EXCEPT ![c] = Encoded(n)]
            /\ left' = [left EXCEPT ![c] = Key]
        BY <2>2 DEF Calls, Persist
      <3>2. /\ op'[c] = name /\ op'[Console] = op[Console] /\ snap'[c] = Encoded(n)
            /\ left'[Console] = left[Console]
        BY <1>d, <3>1 DEF SoundInv, TypeOK
      <3>3. n["executions"] \in Nat /\ AsCount(snap'[c]["executions"]) = n["executions"]
        BY <3>1, <3>2, EncodingAssumption
        DEF Sound, Figures, Key, Encoded, EncodeFloat, AsCount
      <3>4. CASE name = "load"
        <4>1. /\ op[c] = "load_read" /\ UNCHANGED <<due, fills>>
              /\ n["executions"] = AsCount(snap[c]["executions"])
          BY <2>2, <3>4 DEF Calls, LoadApply
        <4>2. snap[c] = store /\ ExecutionsDue(c) = 0
          BY <1>c, <4>1 DEF WrittenInStep, ExecutionsKept
        <4>3. n["executions"] >= fills
          BY <4>1, <4>2 DEF ExecutionsKept
        <4>4. ExecutionsDue(c)' = 0 /\ ExecutionsDue(Console)' = 0
          BY <4>1, <4>2 DEF ExecutionsKept, ExecutionsDue
        <4>5. /\ AsCount(snap'[c]["executions"]) >= fills' + ExecutionsDue(c)'
              /\ mem'["executions"] >= fills' + ExecutionsDue(c)'
          BY <1>t, <3>1, <3>3, <4>1, <4>3, <4>4
        <4>6. QED BY <1>c, <3>1, <3>2, <3>4, <4>1, <4>4, <4>5 DEF ExecutionsKept, Idle
      <3>5. CASE name # "load"
        <4>1. /\ Ready(c) /\ fills' \in {0, fills}
              /\ \A v \in Writer : v # c => ExecutionsDue(v)' \in {0, ExecutionsDue(v)}
              /\ ExecutionsDue(c) = 0 /\ mem["executions"] >= fills =>
                     n["executions"] >= fills' + ExecutionsDue(c)'
          BY <2>2, <3>5 DEF Calls, LoadApply
        <4>2. ExecutionsDue(c) = 0 /\ mem["executions"] >= fills
          BY <1>c, <4>1 DEF Ready, ExecutionsKept, Idle
        <4>3. /\ AsCount(snap'[c]["executions"]) >= fills' + ExecutionsDue(c)'
              /\ mem'["executions"] >= fills' + ExecutionsDue(c)'
          BY <3>1, <3>3, <4>1, <4>2
        <4>4. AsCount(store'["executions"]) >= fills'
          BY <1>a, <1>t, <3>1, <4>1 DEF ExecutionsKept
        <4>5. ExecutionsDue(Console)' = 0
          BY <1>d, <4>1 DEF ExecutionsKept
        <4>6. QED BY <1>c, <3>1, <3>2, <3>5, <4>3, <4>4, <4>5 DEF ExecutionsKept, Idle
      <3>6. QED BY <3>4, <3>5
    <2>3. QED BY <1>1, <1>c, <2>1, <2>2, CallsPersist
  <1>2. ASSUME NEW w \in Writer, WriterNext(w) PROVE ExecutionsKept'
    <2>1. CASE StoreWrite(w)
      <3>1. PICK batch \in Batches(PersistOrder, left[w]) :
                /\ store' = Overwritten(store, batch, snap[w])
                /\ left' = [left EXCEPT ![w] = @ \ batch]
        BY <2>1 DEF StoreWrite
      <3>2. left[w] # {} /\ UNCHANGED <<up, mem, op, snap, due, fills>>
        BY <2>1 DEF StoreWrite, engine
      <3>3. batch \subseteq left[w] /\ left'[w] = left[w] \ batch
            /\ \A v \in Writer \ {w} : left'[v] = left[v]
        BY <3>1, NextKey DEF SoundInv, TypeOK
      <3>4. store'["executions"] =
                IF "executions" \in batch THEN snap[w]["executions"] ELSE store["executions"]
        BY <3>1 DEF Overwritten, SoundInv, TypeOK, Texts, Key
      <3>5. AsCount(store'["executions"]) >= fills
        <4>1. CASE "executions" \in batch
          <5>1. w = c
            BY <1>d, <3>3, <4>1 DEF ExecutionsKept
          <5>2. op[c] \notin {"idle", "load_read"}
            BY <1>c, <3>2, <5>1 DEF WrittenInStep
          <5>3. AsCount(snap[c]["executions"]) >= fills + ExecutionsDue(c)
            BY <1>c, <5>2 DEF ExecutionsKept
          <5>4. QED BY <1>a, <1>d, <1>t, <3>4, <4>1, <5>1, <5>3
        <4>2. CASE "executions" \notin batch
          BY <3>4, <4>2 DEF ExecutionsKept
        <4>3. QED BY <4>1, <4>2
      <3>6. \A v \in Writer : ExecutionsDue(v)' = ExecutionsDue(v)
        BY <3>2 DEF ExecutionsDue
      <3>7. "executions" \notin left'[Console]
        BY <1>d, <3>3 DEF ExecutionsKept
      <3>8. QED BY <1>c, <1>d, <3>2, <3>5, <3>6, <3>7 DEF ExecutionsKept, Idle
    <2>2. CASE Return(w)
      <3>1. /\ op[w] \notin {"idle", "load_read"} /\ left[w] = {}
            /\ op' = [op EXCEPT ![w] = "idle"] /\ due' = [due EXCEPT ![w] = NothingDue]
            /\ up' = IF op[w] = "load" THEN "running" ELSE up
            /\ IF due[w].figure = "executions" THEN fills' = fills + due[w].use ELSE fills' = fills
            /\ UNCHANGED <<mem, store, left>>
        BY <2>2 DEF Return
      <3>2. /\ op'[w] = "idle" /\ \A v \in Writer \ {w} : op'[v] = op[v] /\ due'[v] = due[v]
            /\ due'[w] = NothingDue
        BY <3>1 DEF SoundInv, TypeOK
      <3>3. fills' = fills + ExecutionsDue(w) /\ ExecutionsDue(w)' = 0
            /\ \A v \in Writer \ {w} : ExecutionsDue(v)' = ExecutionsDue(v)
        BY <1>t, <3>1, <3>2 DEF ExecutionsDue, NothingDue
      <3>4. CASE w = c
        <4>1. store = snap[c]
          BY <1>c, <3>1, <3>4, WrittenToTheEnd
        <4>2. AsCount(store["executions"]) >= fills' /\ mem["executions"] >= fills'
          BY <1>c, <3>1, <3>3, <3>4, <4>1 DEF ExecutionsKept
        <4>3. QED BY <1>c, <1>d, <3>1, <3>2, <3>3, <3>4, <4>2 DEF ExecutionsKept, Idle
      <3>5. CASE w = Console
        <4>1. /\ op'[c] = "idle" /\ op[c] = "idle" /\ up' = "down" /\ fills' = fills
          BY <1>d, <1>t, <3>1, <3>2, <3>3, <3>5 DEF ExecutionsKept
        <4>2. QED BY <1>c, <1>d, <3>1, <3>2, <3>3, <3>5, <4>1 DEF ExecutionsKept, Idle
      <3>6. QED BY <1>d, <3>4, <3>5
    <2>3. CASE WriteFails(w)
      <3>1. /\ left[w] # {} /\ op' = [op EXCEPT ![w] = "idle"]
            /\ left' = [left EXCEPT ![w] = {}] /\ due' = [due EXCEPT ![w] = NothingDue]
            /\ up' = IF op[w] = "load" /\ ~LoadRetried THEN "failed" ELSE up
            /\ UNCHANGED <<mem, store, fills>>
        BY <2>3 DEF WriteFails
      <3>2. /\ op'[w] = "idle" /\ due'[w] = NothingDue /\ left'[w] = {}
            /\ \A v \in Writer \ {w} : op'[v] = op[v] /\ due'[v] = due[v] /\ left'[v] = left[v]
        BY <3>1 DEF SoundInv, TypeOK
      <3>3. ExecutionsDue(w)' = 0 /\ \A v \in Writer \ {w} : ExecutionsDue(v)' = ExecutionsDue(v)
        BY <3>2 DEF ExecutionsDue, NothingDue
      <3>4. op'[c] = "idle" /\ op'[Console] = "idle" /\ ExecutionsDue(c)' = 0
            /\ ExecutionsDue(Console)' = 0 /\ "executions" \notin left'[Console]
        BY <1>c, <1>d, <3>1, <3>2, <3>3 DEF WrittenInStep, Idle, ExecutionsKept
      <3>5. up' = "running" => mem["executions"] >= fills
        BY <1>c, <1>d, <1>t, <3>1 DEF ExecutionsKept, WrittenInStep, Idle
      <3>6. QED BY <1>c, <3>1, <3>4, <3>5 DEF ExecutionsKept
    <2>4. QED BY <1>2, <2>1, <2>2, <2>3 DEF WriterNext
  <1>3. CASE EnvironmentNext
    <2>1. CASE Observe
      <3>1. /\ mem' = Rolled(mem, today) /\ UNCHANGED <<up, store, op, snap, left, due, fills>>
        BY <2>1 DEF Observe, writers, history
      <3>2. mem'["executions"] = mem["executions"]
        BY <3>1 DEF Rolled, SoundInv, Sound, Figures, NewMem, Key
      <3>3. QED BY <3>1, <3>2 DEF ExecutionsKept, ExecutionsDue, Idle
    <2>2. CASE Start
      <3>1. /\ up = "down" /\ up' = "constructed"
            /\ UNCHANGED <<store, op, snap, left, due, fills>>
        BY <2>2 DEF Start, writers, history
      <3>2. op[c] = "idle"
        BY <1>d, <3>1
      <3>3. QED BY <1>c, <3>1, <3>2 DEF ExecutionsKept, ExecutionsDue, Idle
    <2>3. CASE Crash
      <3>1. /\ up' = "down" /\ UNCHANGED <<store, fills>>
            /\ op'[c] = "idle" /\ op'[Console] = op[Console] /\ left'[Console] = left[Console]
            /\ \A w \in Writer : due'[w] = NothingDue
        BY <1>c, <1>d, <2>3 DEF Crash
      <3>2. \A w \in Writer : ExecutionsDue(w)' = 0
        BY <3>1 DEF ExecutionsDue, NothingDue
      <3>3. QED BY <1>c, <1>d, <3>1, <3>2 DEF ExecutionsKept
    <2>4. CASE ResetDailyLossLimit
      <3>1. /\ up = "down" /\ UNCHANGED <<up, mem, store, fills>> /\ Forgiven(Legs)
            /\ op'[c] = op[c] /\ op'[Console] = "reset_daily_loss_limit"
            /\ left'[Console] = ResetKeys
        BY <1>d, <2>4 DEF ResetDailyLossLimit, engine, SoundInv, TypeOK
      <3>2. op[c] = "idle"
        BY <1>d, <3>1
      <3>3. ExecutionsDue(c) = 0
        BY <1>c, <3>2 DEF ExecutionsKept
      <3>4. ExecutionsDue(c)' = 0 /\ ExecutionsDue(Console)' = 0
        BY <1>d, <3>1, <3>3, ForgivenDue DEF ExecutionsKept
      <3>5. "executions" \notin ResetKeys
        BY DEF ResetKeys, Legs, Peaks
      <3>6. QED BY <1>c, <3>1, <3>2, <3>4, <3>5 DEF ExecutionsKept
    <2>5. ~DamageKey
      BY DEF DamageKey, SoundInv, TypeOK
    <2>6. CASE NewDay \/ ClockBack
      BY <2>6 DEF NewDay, ClockBack, engine, writers, history, ExecutionsKept, ExecutionsDue, Idle
    <2>7. QED
      BY <1>3, <2>1, <2>2, <2>3, <2>4, <2>5, <2>6 DEF EnvironmentNext
  <1>4. CASE UNCHANGED vars
    BY <1>4 DEF vars, engine, writers, history, ExecutionsKept, ExecutionsDue, Idle
  <1>5. QED BY <1>1, <1>2, <1>3, <1>4, <1>c DEF Next

\* "A crash-restart loop cannot earn itself a fresh allowance": with one
\* reporting coroutine and a store that loses nothing, executions acknowledged
\* since a human last re-armed the strategy are never forgotten, however often
\* the process dies, with a batch torn after any key, writes that raise, loads
\* that are retried and a clock that is set back.
THEOREM ExecutionsNeverForgotten ==
    ASSUME OneReporter, DamageBudget = 0 PROVE Spec => []NoFreeAllowance
  <1>1. SoundInv /\ ExecutionsKept => NoFreeAllowance
    <2> SUFFICES ASSUME SoundInv, ExecutionsKept, up = "running"
                 PROVE  mem["executions"] >= fills
      BY DEF NoFreeAllowance
    <2>1. PICK c \in Callers : TRUE
      BY DEF OneReporter
    <2>2. op[c] # "load_read"
      BY DEF ExecutionsKept
    <2>3. fills \in Nat /\ mem["executions"] \in Int /\ ExecutionsDue(c) \in Nat
      BY DEF SoundInv, TypeOK, Figures, Key, ExecutionsDue, Due, Writer
    <2>4. QED BY <2>2, <2>3 DEF ExecutionsKept, Idle
  <1>2. SoundInv /\ WrittenInStep /\ ExecutionsKept /\ [Next]_vars => ExecutionsKept'
    BY ExecutionsNext
  <1>3. Spec => []WrittenInStep
    BY StoreInStep
  <1>4. QED
    BY <1>1, <1>2, <1>3, ExecutionsInit, SoundCounters, PTL DEF Spec

===============================================================================
