------------------------- MODULE EngineCountersProofs -------------------------
(***************************************************************************)
(* Theorems of EngineCounters, for every set of coroutines, every amount,  *)
(* every number of days and calls.                                         *)
(***************************************************************************)
EXTENDS EngineCounters, TLAPS

\* What every set of counters an engine ever holds satisfies.
Sound(m) ==
    /\ m \in Figures
    /\ m["trading_day"] \in Day
    /\ m["rejects"] >= 0 /\ m["executions"] >= 0
    /\ \A leg \in Legs : m[PeakOf(leg)] >= 0 /\ m[PeakOf(leg)] >= m[leg]

\* A new engine's counters are sound (__init__).
LEMMA NewMemSound == ASSUME NEW d \in Day PROVE Sound(NewMem(d))
  BY DEF Sound, NewMem, Figures, Key, Legs, PeakOf, Day

\* Rolling the day keeps the counters sound and stamps them with that day
\* (_roll_trading_day).
LEMMA RolledSound ==
    ASSUME NEW m, Sound(m), NEW d \in Day
    PROVE  Sound(Rolled(m, d)) /\ Rolled(m, d)["trading_day"] = d
  <1>1. CASE m["trading_day"] = d
    BY <1>1 DEF Rolled
  <1>2. CASE m["trading_day"] # d
    <2>1. Rolled(m, d) = [NewMem(d) EXCEPT !["executions"] = m["executions"]]
      BY <1>2 DEF Rolled
    <2>2. QED
      BY <2>1 DEF Sound, NewMem, Figures, Key, Legs, PeakOf, Day
  <1>3. QED BY <1>1, <1>2

\* Whatever the store holds, what load adopts is sound: texts that are not
\* numbers read as zero, counts never negative, peaks never below their leg.
LEMMA LoadedSound ==
    ASSUME NEW raw \in Texts, NEW m, Sound(m), NEW d \in Day
    PROVE  Sound(Loaded(raw, m, d)) /\ Loaded(raw, m, d)["trading_day"] = d
  <1> DEFINE l == Loaded(raw, m, d)
  <1>1. l \in Figures /\ l["trading_day"] = d /\ l["executions"] >= 0 /\ l["rejects"] >= 0
    BY DEF Loaded, Texts, WireText, Figures, Key, Peaks, PnlOf, DecodeFloatOr, AsCount,
           Larger, Sound, Day
  <1>2. \A leg \in Legs : l[PeakOf(leg)] >= 0 /\ l[PeakOf(leg)] >= l[leg]
    BY DEF Loaded, Texts, WireText, Figures, Key, Peaks, PnlOf, DecodeFloatOr, AsCount,
           Larger, Sound, Legs, PeakOf
  <1>3. QED BY <1>1, <1>2 DEF Sound

\* A snapshot is a text for every key (persist).
LEMMA EncodedType == ASSUME NEW m \in Figures PROVE Encoded(m) \in Texts
  BY EncodingAssumption DEF Encoded, Texts, WireText, Figures, Key, EncodeFloat

\* A snapshot nobody has taken yet, and the store of a first start.
LEMMA NoSnapType == NoSnap \in Texts
  BY DEF NoSnap, NoRows, Texts, WireText

-------------------------------------------------------------------------------
(* Type correctness and the high water mark *)

\* The inductive form of TypeOK: sound counters are what each call starts
\* from, and the mark is part of it.
SoundInv == TypeOK /\ Sound(mem)

\* It holds of an empty store and a process that has not started.
LEMMA SoundInit == Init => SoundInv
  <1> SUFFICES ASSUME Init PROVE SoundInv
    OBVIOUS
  <1>1. 1 \in Day
    BY CountersAssumption DEF Day
  <1>2. Sound(mem)
    BY <1>1, NewMemSound DEF Init
  <1>3. NothingDue \in Due
    BY <1>1 DEF NothingDue, Due, DayFigures
  <1>4. due \in [Writer -> Due] /\ spent \in [Day -> [DayFigures -> Int]]
    BY <1>3 DEF Init
  <1>5. store \in Texts /\ snap \in [Writer -> Texts] /\ left \in [Writer -> SUBSET Key]
    BY NoSnapType DEF Init
  <1>6. op \in [Writer -> OpName]
    BY DEF Init, OpName
  <1>7. calls \in 0 .. MaxCalls /\ damaged \in 0 .. DamageBudget /\ fills \in Nat
    BY CountersAssumption DEF Init
  <1>8. TypeOK
    BY <1>1, <1>2, <1>4, <1>5, <1>6, <1>7 DEF Init, TypeOK, Sound
  <1>9. QED BY <1>2, <1>8 DEF SoundInv

\* The synchronous part of a call leaves the variables it changes well typed.
LEMMA PersistSound ==
    ASSUME SoundInv, NEW w \in Writer, NEW m, Sound(m), NEW name \in OpName,
           Persist(w, name, m)
    PROVE  /\ Sound(mem') /\ op' \in [Writer -> OpName]
           /\ snap' \in [Writer -> Texts] /\ left' \in [Writer -> SUBSET Key]
  <1>1. Encoded(m) \in Texts
    BY EncodedType DEF Sound
  <1>2. QED BY <1>1 DEF Persist, SoundInv, TypeOK

\* The ledger keeps its type through a call that consumes or hands back ...
LEMMA AccountType ==
    ASSUME SoundInv, NEW w \in Writer, NEW use \in Int,
           NEW figure \in DayFigures \cup {"executions"},
           figure = "executions" => use > 0,
           Account(w, figure, use)
    PROVE  due' \in [Writer -> Due] /\ spent' \in [Day -> [DayFigures -> Int]] /\ fills' \in Nat
  <1>1. CASE use > 0
    <2>1. [figure |-> figure, use |-> use, day |-> today] \in Due
      BY <1>1 DEF Due, SoundInv, TypeOK
    <2>2. QED BY <1>1, <2>1 DEF Account, SoundInv, TypeOK
  <1>2. CASE ~(use > 0)
    BY <1>2 DEF Account, SoundInv, TypeOK
  <1>3. QED BY <1>1, <1>2

\* ... and through one that forgives.
LEMMA ForgivenType ==
    ASSUME SoundInv, NEW figures, Forgiven(figures)
    PROVE  due' \in [Writer -> Due] /\ spent' \in [Day -> [DayFigures -> Int]]
  <1>1. NothingDue \in Due
    BY CountersAssumption DEF NothingDue, Due, DayFigures, Day
  <1>2. QED BY <1>1 DEF Forgiven, SoundInv, TypeOK, Smaller

\* Every call, every step of the store and every failure preserves it.
LEMMA SoundNext == SoundInv /\ [Next]_vars => SoundInv'
  <1> SUFFICES ASSUME SoundInv, [Next]_vars PROVE SoundInv'
    OBVIOUS
  <1> USE DEF SoundInv
  <1>0. NothingDue \in Due /\ 1 \in Day
    BY CountersAssumption DEF NothingDue, Due, DayFigures, Day
  <1>f. Legs \subseteq DayFigures /\ {"daily_notional", "rejects"} \subseteq DayFigures
    BY DEF DayFigures
  <1>r. Sound(Rolled(mem, today)) /\ Rolled(mem, today)["trading_day"] = today
    BY RolledSound DEF TypeOK
  <1>1. ASSUME NEW w \in Callers, CallerNext(w) PROVE SoundInv'
    <2> w \in Writer
      BY DEF Writer
    <2> DEFINE m == Rolled(mem, today)
    <2>1. ASSUME NEW trade \in Trades, RecordRealizedPnl(w, trade[1], trade[2])
          PROVE  SoundInv'
      <3> DEFINE leg == trade[1]
                 amount == trade[2]
                 pnl == m[leg] + amount
                 n == [m EXCEPT ![leg] = pnl, ![PeakOf(leg)] = Larger(m[PeakOf(leg)], pnl)]
      <3>1. leg \in Legs /\ amount \in Int
        BY CountersAssumption
      <3>2. Sound(n)
        BY <1>r, <3>1 DEF Sound, Figures, Key, Legs, PeakOf, Larger
      <3>3. Persist(w, "record_realized_pnl", n) /\ Account(w, leg, -amount)
        BY <2>1 DEF RecordRealizedPnl, PnlAdded
      <3>4. /\ Sound(mem') /\ op' \in [Writer -> OpName]
            /\ snap' \in [Writer -> Texts] /\ left' \in [Writer -> SUBSET Key]
        BY <3>2, <3>3, PersistSound DEF OpName
      <3>5. -amount \in Int /\ leg \in DayFigures /\ leg # "executions"
        BY <1>f, <3>1 DEF Legs
      <3>6. due' \in [Writer -> Due] /\ spent' \in [Day -> [DayFigures -> Int]] /\ fills' \in Nat
        BY <3>3, <3>5, AccountType
      <3>7. QED
        BY <2>1, <3>4, <3>6, CountersAssumption
        DEF RecordRealizedPnl, Ready, CallBegins, TypeOK, Sound
    <2>2. ASSUME NEW amount \in Notionals, RecordNotional(w, amount) PROVE SoundInv'
      <3> DEFINE n == [m EXCEPT !["daily_notional"] = @ + amount]
      <3>1. amount \in Int
        BY CountersAssumption
      <3>2. Sound(n)
        BY <1>r, <3>1 DEF Sound, Figures, Key, Legs, PeakOf
      <3>3. Persist(w, "record_notional", n) /\ Account(w, "daily_notional", amount)
        BY <2>2 DEF RecordNotional, NotionalAdded
      <3>4. /\ Sound(mem') /\ op' \in [Writer -> OpName]
            /\ snap' \in [Writer -> Texts] /\ left' \in [Writer -> SUBSET Key]
        BY <3>2, <3>3, PersistSound DEF OpName
      <3>5. due' \in [Writer -> Due] /\ spent' \in [Day -> [DayFigures -> Int]] /\ fills' \in Nat
        BY <1>f, <3>1, <3>3, AccountType
      <3>6. QED
        BY <2>2, <3>4, <3>5, CountersAssumption
        DEF RecordNotional, Ready, CallBegins, TypeOK, Sound
    <2>3. CASE RecordOrderRejected(w)
      <3> DEFINE n == [m EXCEPT !["rejects"] = @ + 1]
      <3>1. Sound(n)
        BY <1>r DEF Sound, Figures, Key, Legs, PeakOf
      <3>2. Persist(w, "record_order_rejected", n) /\ Account(w, "rejects", 1)
        BY <2>3 DEF RecordOrderRejected, RejectNoted
      <3>3. /\ Sound(mem') /\ op' \in [Writer -> OpName]
            /\ snap' \in [Writer -> Texts] /\ left' \in [Writer -> SUBSET Key]
        BY <3>1, <3>2, PersistSound DEF OpName
      <3>4. due' \in [Writer -> Due] /\ spent' \in [Day -> [DayFigures -> Int]] /\ fills' \in Nat
        BY <1>f, <3>2, AccountType
      <3>5. QED
        BY <2>3, <3>3, <3>4, CountersAssumption
        DEF RecordOrderRejected, Ready, CallBegins, TypeOK, Sound
    <2>4. CASE RecordOrderAccepted(w)
      <3> DEFINE n == [m EXCEPT !["rejects"] = 0]
      <3>1. Sound(n)
        BY <1>r DEF Sound, Figures, Key, Legs, PeakOf
      <3>2. Persist(w, "record_order_accepted", n) /\ Forgiven({"rejects"})
        BY <2>4 DEF RecordOrderAccepted, AcceptanceNoted
      <3>3. /\ Sound(mem') /\ op' \in [Writer -> OpName]
            /\ snap' \in [Writer -> Texts] /\ left' \in [Writer -> SUBSET Key]
        BY <3>1, <3>2, PersistSound DEF OpName
      <3>4. due' \in [Writer -> Due] /\ spent' \in [Day -> [DayFigures -> Int]]
        BY <3>2, ForgivenType
      <3>5. QED
        BY <2>4, <3>3, <3>4, CountersAssumption
        DEF RecordOrderAccepted, Ready, CallBegins, TypeOK, Sound
    <2>5. CASE RecordExecution(w)
      <3> DEFINE n == [m EXCEPT !["executions"] = @ + 1]
      <3>1. Sound(n)
        BY <1>r DEF Sound, Figures, Key, Legs, PeakOf
      <3>2. Persist(w, "record_execution", n) /\ Account(w, "executions", 1)
        BY <2>5 DEF RecordExecution, ExecutionNoted
      <3>3. /\ Sound(mem') /\ op' \in [Writer -> OpName]
            /\ snap' \in [Writer -> Texts] /\ left' \in [Writer -> SUBSET Key]
        BY <3>1, <3>2, PersistSound DEF OpName
      <3>4. due' \in [Writer -> Due] /\ spent' \in [Day -> [DayFigures -> Int]] /\ fills' \in Nat
        BY <3>2, AccountType
      <3>5. QED
        BY <2>5, <3>3, <3>4, CountersAssumption
        DEF RecordExecution, Ready, CallBegins, TypeOK, Sound
    <2>6. CASE Rearm(w)
      <3> DEFINE n == [m EXCEPT !["rejects"] = 0, !["executions"] = 0]
      <3>1. Sound(n)
        BY <1>r DEF Sound, Figures, Key, Legs, PeakOf
      <3>2. Persist(w, "rearm", n) /\ Forgiven({"rejects", "executions"})
        BY <2>6 DEF Rearm, Rearmed
      <3>3. /\ Sound(mem') /\ op' \in [Writer -> OpName]
            /\ snap' \in [Writer -> Texts] /\ left' \in [Writer -> SUBSET Key]
        BY <3>1, <3>2, PersistSound DEF OpName
      <3>4. due' \in [Writer -> Due] /\ spent' \in [Day -> [DayFigures -> Int]]
        BY <3>2, ForgivenType
      <3>5. QED
        BY <2>6, <3>3, <3>4, CountersAssumption
        DEF Rearm, Ready, CallBegins, TypeOK, Sound
    <2>7. CASE LoadRead(w)
      BY <2>7 DEF LoadRead, TypeOK, Sound, OpName, engine, history
    <2>8. CASE LoadApply(w)
      <3> DEFINE n == Loaded(snap[w], mem, today)
      <3>1. Sound(n)
        BY LoadedSound DEF TypeOK
      <3>2. Persist(w, "load", n)
        BY <2>8 DEF LoadApply
      <3>3. /\ Sound(mem') /\ op' \in [Writer -> OpName]
            /\ snap' \in [Writer -> Texts] /\ left' \in [Writer -> SUBSET Key]
        BY <3>1, <3>2, PersistSound DEF OpName
      <3>4. QED
        BY <2>8, <3>3 DEF LoadApply, TypeOK, Sound, history
    <2>9. QED
      BY <1>1, <2>1, <2>2, <2>3, <2>4, <2>5, <2>6, <2>7, <2>8 DEF CallerNext
  <1>2. ASSUME NEW w \in Writer, WriterNext(w) PROVE SoundInv'
    <2>1. CASE StoreWrite(w)
      <3>1. PICK batch \in Batches(PersistOrder, left[w]) : StoreWrite(w)!2!(batch)
        BY <2>1 DEF StoreWrite
      <3>2. store' \in Texts
        BY <3>1 DEF Overwritten, TypeOK, Texts
      <3>3. left' \in [Writer -> SUBSET Key] /\ unsaved' \in BOOLEAN
        BY <3>1 DEF TypeOK
      <3>4. QED
        BY <2>1, <3>2, <3>3 DEF StoreWrite, TypeOK, Sound, engine
    <2>2. CASE Return(w)
      <3>1. due[w] \in Due /\ due' \in [Writer -> Due]
        BY <1>0, <2>2 DEF Return, TypeOK
      <3>2. CASE due[w].figure = "executions"
        BY <2>2, <3>1, <3>2, NoSnapType DEF Return, TypeOK, Sound, OpName, Due
      <3>3. CASE due[w].figure # "executions"
        <4>1. due[w].figure \in DayFigures /\ due[w].day \in Day /\ due[w].use \in Nat
          BY <3>1, <3>3 DEF Due
        <4>2. spent' \in [Day -> [DayFigures -> Int]] /\ fills' \in Nat
          BY <2>2, <3>3, <4>1 DEF Return, TypeOK
        <4>3. QED
          BY <2>2, <3>1, <4>2, NoSnapType DEF Return, TypeOK, Sound, OpName
      <3>4. QED BY <3>2, <3>3
    <2>3. CASE WriteFails(w)
      BY <1>0, <2>3, NoSnapType DEF WriteFails, TypeOK, Sound, OpName
    <2>4. QED
      BY <1>2, <2>1, <2>2, <2>3 DEF WriterNext
  <1>3. CASE EnvironmentNext
    <2>1. CASE Observe
      BY <1>r, <2>1 DEF Observe, TypeOK, Sound, writers, history
    <2>2. CASE Start
      <3>1. Sound(NewMem(today))
        BY NewMemSound DEF TypeOK
      <3>2. QED
        BY <2>2, <3>1 DEF Start, TypeOK, Sound, writers, history
    <2>3. CASE Crash
      <3>1. Sound(NewMem(1))
        BY <1>0, NewMemSound
      <3>2. QED
        BY <1>0, <2>3, <3>1, NoSnapType DEF Crash, TypeOK, Sound, OpName
    <2>4. CASE ResetDailyLossLimit
      <3>1. due' \in [Writer -> Due] /\ spent' \in [Day -> [DayFigures -> Int]]
        BY <2>4, ForgivenType DEF ResetDailyLossLimit
      <3>2. ResetKeys \in SUBSET Key
        BY DEF ResetKeys, Legs, Peaks, Key
      <3>3. [k \in Key |-> EncodeFloat(0)] \in Texts
        BY EncodingAssumption DEF Texts, WireText, EncodeFloat
      <3>4. Console \in Writer
        BY DEF Writer
      <3>5. /\ op' \in [Writer -> OpName] /\ snap' \in [Writer -> Texts]
            /\ left' \in [Writer -> SUBSET Key]
        BY <2>4, <3>2, <3>3, <3>4 DEF ResetDailyLossLimit, TypeOK, OpName
      <3>6. calls' \in 0 .. MaxCalls
        BY <2>4, CountersAssumption DEF ResetDailyLossLimit, TypeOK
      <3>7. QED
        BY <2>4, <3>1, <3>5, <3>6 DEF ResetDailyLossLimit, TypeOK, Sound, engine
    <2>5. CASE DamageKey
      BY <2>5, CountersAssumption
      DEF DamageKey, TypeOK, Sound, Texts, WireText, engine, writers, history
    <2>6. CASE NewDay \/ ClockBack
      BY <2>6, CountersAssumption
      DEF NewDay, ClockBack, TypeOK, Sound, Day, engine, writers, history
    <2>7. QED
      BY <1>3, <2>1, <2>2, <2>3, <2>4, <2>5, <2>6 DEF EnvironmentNext
  <1>4. CASE UNCHANGED vars
    BY <1>4 DEF vars, TypeOK, Sound, engine, writers, history
  <1>5. QED
    BY <1>1, <1>2, <1>3, <1>4 DEF Next

\* The counters in memory are sound in every state: what TypeCorrect and
\* PeakAlwaysCovers rest on.
THEOREM SoundCounters == Spec => []SoundInv
  BY SoundInit, SoundNext, PTL DEF Spec

\* Every reachable state is well typed, whatever the callers report, the
\* store loses and the clock does.
THEOREM TypeCorrect == Spec => []TypeOK
  <1>1. SoundInv => TypeOK
    BY DEF SoundInv
  <1>2. QED BY <1>1, SoundCounters, PTL

\* The high water mark covers its leg in every state, also after a restart
\* from a torn or damaged store: the loss limit's floor is never measured
\* from a mark below the P&L already banked.
THEOREM PeakAlwaysCovers == Spec => []PeakCoversPnl
  <1>1. SoundInv => PeakCoversPnl
    BY DEF SoundInv, Sound, PeakCoversPnl, Larger, Figures, Legs
  <1>2. QED BY <1>1, SoundCounters, PTL

-------------------------------------------------------------------------------
(* A restart agrees with the engine it replaces *)

\* The setting AgreementInv is kept in: one coroutine reports, the store
\* commits a snapshot at once, the wall clock never leaves its day backwards
\* and a failed load ends the process.  (TornWriteProofs shows RestartAgreement
\* itself without the second and the last.)
SingleReporter ==
    /\ AtomicBatch /\ ~ClockStepsBack /\ ~LoadRetried
    /\ \E w : Callers = {w}

\* A snapshot agrees with the counters it was taken of.
LEMMA EncodedAgrees == ASSUME NEW m, Sound(m) PROVE Agree(Encoded(m), m)
  <1> SUFFICES ASSUME NEW d \in Day, d >= m["trading_day"]
               PROVE  Restarted(Encoded(m), d) = Rolled(m, d)
    BY DEF Agree
  <1> DEFINE e == Encoded(m)
  <1>1. m \in [Key -> Int]
    BY DEF Sound, Figures
  <1>2. \A k \in Key : e[k] = m[k] /\ e[k] \in Int
    BY <1>1, EncodingAssumption DEF Encoded, EncodeFloat
  <1>3. CASE m["trading_day"] = d
    <2>1. \A k \in Key : Restarted(e, d)[k] = m[k]
      <3> HIDE DEF e
      <3> QED
        BY <1>1, <1>2, <1>3 DEF Restarted, Loaded, DecodeFloatOr, AsCount, Key, Peaks,
           PnlOf, Larger, Sound, Legs, PeakOf
    <2>2. Restarted(e, d) = [k \in Key |-> Restarted(e, d)[k]]
      BY DEF Restarted, Loaded
    <2>3. m = [k \in Key |-> m[k]]
      BY <1>1
    <2>4. Restarted(e, d) = m
      BY <2>1, <2>2, <2>3
    <2>5. QED BY <1>3, <2>4 DEF Rolled
  <1>4. CASE m["trading_day"] # d
    <2>1. Rolled(m, d) = [k \in Key |-> IF k = "executions" THEN m[k] ELSE NewMem(d)[k]]
      BY <1>1, <1>4 DEF Rolled, NewMem
    <2>2. e["trading_day"] # d
      BY <1>2, <1>4 DEF Key
    <2>3. AsCount(e["executions"]) = m["executions"]
      BY <1>1, <1>2 DEF AsCount, Key, Sound
    <2>4. Restarted(e, d) = [k \in Key |-> IF k = "executions" THEN m[k] ELSE NewMem(d)[k]]
      <3> HIDE DEF e
      <3> QED BY <2>2, <2>3 DEF Restarted, Loaded, NewMem, Key
    <2>5. QED BY <2>1, <2>4
  <1>5. QED BY <1>3, <1>4

\* Rolling twice is rolling once, as long as the days come in order.
LEMMA RolledTwice ==
    ASSUME NEW m, Sound(m), NEW t \in Day, NEW d \in Day,
           m["trading_day"] <= t, t <= d
    PROVE  Rolled(Rolled(m, t), d) = Rolled(m, d)
  <1>1. m \in [Key -> Int] /\ m["trading_day"] \in Int /\ t \in Int /\ d \in Int
    BY DEF Sound, Figures, Day
  <1>2. CASE m["trading_day"] = t
    BY <1>2 DEF Rolled
  <1>3. CASE m["trading_day"] # t
    <2>1. m["trading_day"] # d
      BY <1>1, <1>3
    <2>2. Rolled(m, t) = [NewMem(t) EXCEPT !["executions"] = m["executions"]]
      BY <1>3 DEF Rolled
    <2>3. /\ Rolled(m, t)["trading_day"] = t
          /\ Rolled(m, t)["executions"] = m["executions"]
      BY <2>2 DEF NewMem, Key
    <2>4. Rolled(m, d) = [NewMem(d) EXCEPT !["executions"] = m["executions"]]
      BY <2>1 DEF Rolled
    <2>5. CASE t = d
      BY <2>2, <2>3, <2>4, <2>5 DEF Rolled
    <2>6. CASE t # d
      BY <2>3, <2>4, <2>6 DEF Rolled
    <2>7. QED BY <2>5, <2>6
  <1>4. QED BY <1>2, <1>3

\* A store that agrees with the counters still does once they have rolled.
LEMMA RolledAgrees ==
    ASSUME NEW m, Sound(m), NEW texts, Agree(texts, m), NEW t \in Day,
           m["trading_day"] <= t
    PROVE  Agree(texts, Rolled(m, t))
  <1> SUFFICES ASSUME NEW d \in Day, d >= Rolled(m, t)["trading_day"]
               PROVE  Restarted(texts, d) = Rolled(Rolled(m, t), d)
    BY DEF Agree
  <1>1. Rolled(m, t)["trading_day"] = t
    BY RolledSound
  <1>2. t <= d /\ m["trading_day"] <= d
    BY <1>1 DEF Day, Sound
  <1>3. Rolled(Rolled(m, t), d) = Rolled(m, d)
    BY <1>2, RolledTwice
  <1>4. QED BY <1>2, <1>3 DEF Agree, Day, Sound

\* With no process and no call there is nothing to disagree with.
LEMMA AgreementInit == Init => AgreementInv
  <1> SUFFICES ASSUME Init PROVE AgreementInv
    OBVIOUS
  <1>1. mem["trading_day"] = 1 /\ today = 1 /\ up = "down"
    BY DEF Init, NewMem, Key
  <1>2. \A w \in Writer : Idle(w) /\ left[w] = {}
    BY DEF Init, Idle
  <1>3. \A w \in Callers : op[w] = "idle"
    BY DEF Init, Writer
  <1>4. QED BY <1>1, <1>2, <1>3 DEF AgreementInv, Writer

\* A call of the one coroutine leaves a snapshot to write that agrees with
\* what it has made of the counters.
LEMMA PersistAgrees ==
    ASSUME SingleReporter, SoundInv, AgreementInv, NEW w \in Callers, NEW name,
           name \notin {"idle", "load_read"}, name = "load" => up = "constructed",
           up # "down", NEW m, Sound(m), m["trading_day"] = today,
           Persist(w, name, m), up' = up, today' = today
    PROVE  AgreementInv'
  <1>1. w \in Writer /\ Console \in Writer /\ w # Console
    BY CountersAssumption DEF Writer
  <1>2. op'[w] = name /\ left'[w] = Key /\ snap'[w] = Encoded(m) /\ mem' = m
    BY <1>1 DEF Persist, SoundInv, TypeOK
  <1>3. op'[Console] = op[Console] /\ left'[Console] = left[Console]
    BY <1>1 DEF Persist, SoundInv, TypeOK
  <1>4. Agree(snap[w], mem)'
    BY <1>2, EncodedAgrees DEF Agree
  <1>5. left'[w] # {}
    BY <1>2 DEF Key
  <1>6. mem'["trading_day"] <= today'
    BY <1>2 DEF Sound, Day
  <1>7. (Idle(Console) \/ (up = "down" /\ op[Console] = "reset_daily_loss_limit"))'
        /\ (Idle(Console) => left[Console] = {})'
    BY <1>3 DEF AgreementInv, Idle
  <1>8. ASSUME NEW v \in Callers
        PROVE  /\ up' = "down" => Idle(v)'
               /\ op'[v] \in {"load_read", "load"} => up' = "constructed"
               /\ Idle(v)' => left'[v] = {}
               /\ left'[v] = {} \/ (left'[v] = Key /\ Agree(snap[v], mem)')
               /\ (op'[v] = "load" \/ up' = "running") /\ left'[v] = {} /\ ~unsaved' =>
                      Agree(store, mem)'
    <2>1. v = w
      BY DEF SingleReporter
    <2>2. QED BY <2>1, <1>2, <1>4, <1>5 DEF Idle
  <1>9. QED BY <1>6, <1>7, <1>8 DEF AgreementInv

\* Every step preserves the agreement: a call moves it to its snapshot, the
\* commit to the store, a failed write waives it, a load restores it.
LEMMA AgreementNext ==
    ASSUME SingleReporter, SoundInv, SoundInv', AgreementInv, [Next]_vars
    PROVE  AgreementInv'
  <1>t. /\ Console \in Writer /\ Console \notin Callers /\ Callers \subseteq Writer
        /\ mem["trading_day"] \in Int /\ today \in Int
        /\ Key # {}
    BY CountersAssumption DEF Writer, SoundInv, TypeOK, Day, Key
  <1>r. Sound(Rolled(mem, today)) /\ Rolled(mem, today)["trading_day"] = today
    BY RolledSound DEF SoundInv, TypeOK
  <1>1. ASSUME NEW w \in Callers, CallerNext(w) PROVE AgreementInv'
    <2> DEFINE m == Rolled(mem, today)
    <2>1. ASSUME NEW trade \in Trades, RecordRealizedPnl(w, trade[1], trade[2])
          PROVE  AgreementInv'
      <3> DEFINE leg == trade[1]
                 pnl == m[leg] + trade[2]
                 n == [m EXCEPT ![leg] = pnl, ![PeakOf(leg)] = Larger(m[PeakOf(leg)], pnl)]
      <3>1. leg \in Legs /\ trade[2] \in Int
        BY CountersAssumption
      <3>2. Sound(n) /\ n["trading_day"] = today
        BY <1>r, <3>1 DEF Sound, Figures, Key, Legs, PeakOf, Larger
      <3>3. Persist(w, "record_realized_pnl", n) /\ up = "running" /\ up' = up /\ today' = today
        BY <2>1 DEF RecordRealizedPnl, PnlAdded, Ready, CallBegins
      <3>4. QED BY <3>2, <3>3, PersistAgrees
    <2>2. ASSUME NEW amount \in Notionals, RecordNotional(w, amount) PROVE AgreementInv'
      <3> DEFINE n == [m EXCEPT !["daily_notional"] = @ + amount]
      <3>1. Sound(n) /\ n["trading_day"] = today
        BY <1>r, CountersAssumption DEF Sound, Figures, Key, Legs, PeakOf
      <3>2. Persist(w, "record_notional", n) /\ up = "running" /\ up' = up /\ today' = today
        BY <2>2 DEF RecordNotional, NotionalAdded, Ready, CallBegins
      <3>3. QED BY <3>1, <3>2, PersistAgrees
    <2>3. CASE RecordOrderRejected(w)
      <3> DEFINE n == [m EXCEPT !["rejects"] = @ + 1]
      <3>1. Sound(n) /\ n["trading_day"] = today
        BY <1>r DEF Sound, Figures, Key, Legs, PeakOf
      <3>2. Persist(w, "record_order_rejected", n) /\ up = "running" /\ up' = up /\ today' = today
        BY <2>3 DEF RecordOrderRejected, RejectNoted, Ready, CallBegins
      <3>3. QED BY <3>1, <3>2, PersistAgrees
    <2>4. CASE RecordOrderAccepted(w)
      <3> DEFINE n == [m EXCEPT !["rejects"] = 0]
      <3>1. Sound(n) /\ n["trading_day"] = today
        BY <1>r DEF Sound, Figures, Key, Legs, PeakOf
      <3>2. Persist(w, "record_order_accepted", n) /\ up = "running" /\ up' = up /\ today' = today
        BY <2>4 DEF RecordOrderAccepted, AcceptanceNoted, Ready, CallBegins
      <3>3. QED BY <3>1, <3>2, PersistAgrees
    <2>5. CASE RecordExecution(w)
      <3> DEFINE n == [m EXCEPT !["executions"] = @ + 1]
      <3>1. Sound(n) /\ n["trading_day"] = today
        BY <1>r DEF Sound, Figures, Key, Legs, PeakOf
      <3>2. Persist(w, "record_execution", n) /\ up = "running" /\ up' = up /\ today' = today
        BY <2>5 DEF RecordExecution, ExecutionNoted, Ready, CallBegins
      <3>3. QED BY <3>1, <3>2, PersistAgrees
    <2>6. CASE Rearm(w)
      <3> DEFINE n == [m EXCEPT !["rejects"] = 0, !["executions"] = 0]
      <3>1. Sound(n) /\ n["trading_day"] = today
        BY <1>r DEF Sound, Figures, Key, Legs, PeakOf
      <3>2. Persist(w, "rearm", n) /\ up = "running" /\ up' = up /\ today' = today
        BY <2>6 DEF Rearm, Rearmed, Ready, CallBegins
      <3>3. QED BY <3>1, <3>2, PersistAgrees
    <2>7. CASE LoadRead(w)
      <3>1. /\ up = "constructed" /\ up' = up /\ mem' = mem /\ left' = left
            /\ today' = today /\ Idle(w) /\ Idle(Console)
        BY <2>7, <1>t DEF LoadRead, engine
      <3>2. op'[w] = "load_read" /\ op'[Console] = op[Console]
        BY <2>7, <1>t DEF LoadRead, SoundInv, TypeOK
      <3>3. left[w] = {}
        BY <3>1 DEF AgreementInv
      <3>4. \A v \in Callers : v = w
        BY DEF SingleReporter
      <3>5. QED BY <3>1, <3>2, <3>3, <3>4 DEF AgreementInv, Idle
    <2>8. CASE LoadApply(w)
      <3> DEFINE n == Loaded(snap[w], mem, today)
      <3>1. Sound(n) /\ n["trading_day"] = today
        BY <1>t, LoadedSound DEF SoundInv, TypeOK
      <3>2. Persist(w, "load", n) /\ up = "constructed" /\ up' = up /\ today' = today
        BY <2>8 DEF LoadApply, AgreementInv
      <3>3. QED BY <3>1, <3>2, PersistAgrees
    <2>9. QED
      BY <1>1, <2>1, <2>2, <2>3, <2>4, <2>5, <2>6, <2>7, <2>8 DEF CallerNext
  <1>2. ASSUME NEW w \in Writer, StoreWrite(w) PROVE AgreementInv'
    <2>1. PICK batch \in Batches(PersistOrder, left[w]) : StoreWrite(w)!2!(batch)
      BY <1>2 DEF StoreWrite
    <2>2. batch = left[w]
      BY DEF Batches, SingleReporter
    <2>3. left[w] # {} /\ left'[w] = {} /\ \A v \in Writer : v # w => left'[v] = left[v]
      BY <1>2, <2>1, <2>2 DEF StoreWrite, SoundInv, TypeOK
    <2>4. UNCHANGED <<today, up, mem, op, snap>>
      BY <1>2 DEF StoreWrite, engine
    <2>5. CASE w \in Callers
      <3>1. left[w] = Key /\ Agree(snap[w], mem)
        BY <2>3, <2>5 DEF AgreementInv
      <3>2. store' = snap[w]
        <4>1. snap[w] \in [Key -> WireText]
          BY DEF SoundInv, TypeOK, Texts
        <4>2. store' = [k \in Key |-> snap[w][k]]
          BY <2>1, <2>2, <3>1 DEF Overwritten, SoundInv, TypeOK, Texts
        <4>3. QED BY <4>1, <4>2
      <3>3. Agree(store, mem)'
        BY <2>4, <3>1, <3>2 DEF Agree
      <3>4. \A v \in Callers : v = w
        BY <2>5 DEF SingleReporter
      <3>5. w # Console /\ left'[Console] = left[Console]
        BY <1>t, <2>3, <2>5
      <3>6. QED BY <2>3, <2>4, <2>5, <3>3, <3>4, <3>5 DEF AgreementInv, Idle
    <2>6. CASE w = Console
      <3>1. up = "down" /\ ~Idle(Console)
        BY <2>3, <2>6 DEF AgreementInv
      <3>2. \A v \in Callers : Idle(v) /\ left'[v] = left[v] /\ left[v] = {}
        BY <1>t, <2>3, <2>6, <3>1 DEF AgreementInv
      <3>3. QED BY <2>4, <3>1, <3>2, <2>3, <2>6 DEF AgreementInv, Idle
    <2>7. QED BY <2>5, <2>6 DEF Writer
  <1>3. ASSUME NEW w \in Writer, Return(w) PROVE AgreementInv'
    <2>1. /\ left[w] = {} /\ ~Idle(w) /\ op'[w] = "idle"
          /\ \A v \in Writer : v # w => op'[v] = op[v]
          /\ UNCHANGED <<today, mem, store, left, unsaved>>
      BY <1>3 DEF Return, SoundInv, TypeOK, Idle
    <2>2. CASE w \in Callers
      <3>1. \A v \in Callers : v = w
        BY <2>2 DEF SingleReporter
      <3>2. op'[Console] = op[Console]
        BY <1>t, <2>1, <2>2
      <3>3. up # "down"
        BY <2>1, <2>2 DEF AgreementInv
      <3>4. Idle(Console) /\ left[Console] = {}
        BY <3>3 DEF AgreementInv
      <3>5. up' = "running" => op[w] = "load" \/ up = "running"
        BY <1>3 DEF Return
      <3>6. up' = "running" /\ ~unsaved => Agree(store, mem)
        BY <2>1, <2>2, <3>5 DEF AgreementInv
      <3>7. Agree(store, mem)' = Agree(store, mem)
        BY <2>1 DEF Agree
      <3>8. QED BY <2>1, <3>1, <3>2, <3>4, <3>6, <3>7 DEF AgreementInv, Idle
    <2>3. CASE w = Console
      <3>1. up = "down" /\ \A v \in Callers : Idle(v) /\ op'[v] = op[v] /\ left[v] = {}
        BY <1>t, <2>1, <2>3 DEF AgreementInv
      <3>2. up' # "running"
        BY <1>3, <3>1, <2>1, <2>3 DEF Return, AgreementInv
      <3>3. QED BY <2>1, <2>3, <3>1, <3>2 DEF AgreementInv, Idle
    <2>4. QED BY <2>2, <2>3 DEF Writer
  <1>4. ASSUME NEW w \in Writer, WriteFails(w) PROVE AgreementInv'
    <2>1. /\ left[w] # {} /\ op'[w] = "idle" /\ left'[w] = {}
          /\ \A v \in Writer : v # w => op'[v] = op[v] /\ left'[v] = left[v]
          /\ UNCHANGED <<today, mem, store>>
      BY <1>4 DEF WriteFails, SoundInv, TypeOK
    <2>2. CASE w \in Callers
      <3>1. \A v \in Callers : v = w
        BY <2>2 DEF SingleReporter
      <3>2. op'[Console] = op[Console] /\ left'[Console] = left[Console]
        BY <1>t, <2>1, <2>2
      <3>3. unsaved' = TRUE
        BY <1>4, <2>2 DEF WriteFails
      <3>4. up # "down"
        BY <2>1, <2>2 DEF AgreementInv
      <3>5. Idle(Console) /\ left[Console] = {}
        BY <3>4 DEF AgreementInv
      <3>6. QED BY <2>1, <3>1, <3>2, <3>3, <3>5 DEF AgreementInv, Idle
    <2>3. CASE w = Console
      <3>1. up = "down" /\ \A v \in Callers : Idle(v) /\ op'[v] = op[v] /\ left'[v] = {}
        BY <1>t, <2>1, <2>3 DEF AgreementInv
      <3>2. up' # "running"
        BY <1>4, <3>1 DEF WriteFails
      <3>3. QED BY <2>1, <2>3, <3>1, <3>2 DEF AgreementInv, Idle
    <2>4. QED BY <2>2, <2>3 DEF Writer
  <1>5. CASE EnvironmentNext
    <2>1. CASE Observe
      <3>1. /\ mem' = Rolled(mem, today) /\ up = "running"
            /\ UNCHANGED <<today, up, store, op, snap, left, unsaved>>
        BY <2>1 DEF Observe, writers, history
      <3>2. \A texts : Agree(texts, mem) => Agree(texts, Rolled(mem, today))
        BY RolledAgrees DEF SoundInv, TypeOK, AgreementInv
      <3>3. \A w \in Callers : Agree(snap[w], mem) => Agree(snap[w], mem)'
        BY <3>1, <3>2 DEF Agree
      <3>4. Agree(store, mem) => Agree(store, mem)'
        BY <3>1, <3>2 DEF Agree
      <3>5. QED BY <1>r, <1>t, <3>1, <3>3, <3>4 DEF AgreementInv, Idle
    <2>2. CASE Start
      <3>1. /\ mem' = NewMem(today) /\ up = "down" /\ up' = "constructed" /\ Idle(Console)
            /\ UNCHANGED <<today, store, op, snap, left, unsaved>>
        BY <2>2 DEF Start, writers, history
      <3>2. mem'["trading_day"] = today
        BY <3>1 DEF NewMem, Key
      <3>3. \A w \in Callers : Idle(w) /\ left[w] = {}
        BY <3>1 DEF AgreementInv
      <3>4. QED BY <1>t, <3>1, <3>2, <3>3 DEF AgreementInv, Idle
    <2>3. CASE Crash
      <3>1. /\ mem' = NewMem(1) /\ up # "down" /\ up' = "down" /\ today' = today
            /\ \A w \in Callers : op'[w] = "idle" /\ left'[w] = {}
            /\ op'[Console] = op[Console] /\ left'[Console] = left[Console]
        BY <1>t, <2>3 DEF Crash
      <3>2. mem'["trading_day"] = 1 /\ today >= 1
        BY <3>1 DEF NewMem, Key, SoundInv, TypeOK, Day
      <3>3. QED BY <3>1, <3>2 DEF AgreementInv, Idle
    <2>4. CASE ResetDailyLossLimit
      <3>1. /\ up = "down" /\ UNCHANGED <<today, up, mem, store, unsaved>>
            /\ \A w \in Callers : op'[w] = op[w] /\ left'[w] = left[w] /\ snap'[w] = snap[w]
            /\ op'[Console] = "reset_daily_loss_limit"
        BY <1>t, <2>4 DEF ResetDailyLossLimit, engine, SoundInv, TypeOK
      <3>2. \A w \in Callers : Idle(w) /\ left[w] = {}
        BY <3>1 DEF AgreementInv
      <3>3. QED BY <3>1, <3>2 DEF AgreementInv, Idle
    <2>5. CASE DamageKey
      <3>1. up = "down" /\ UNCHANGED <<today, up, mem, op, snap, left, unsaved>>
        BY <2>5 DEF DamageKey, engine, writers, history
      <3>2. \A w \in Callers : Idle(w) /\ left[w] = {}
        BY <3>1 DEF AgreementInv
      <3>3. QED BY <3>1, <3>2 DEF AgreementInv, Idle
    <2>6. CASE NewDay
      <3>1. UNCHANGED <<up, mem, store, op, snap, left, unsaved>> /\ today' = today + 1
        BY <2>6 DEF NewDay, engine, writers, history
      <3>2. \A w \in Callers : Agree(snap[w], mem)' = Agree(snap[w], mem)
        BY <3>1 DEF Agree
      <3>3. Agree(store, mem)' = Agree(store, mem)
        BY <3>1 DEF Agree
      <3>4. QED BY <1>t, <3>1, <3>2, <3>3 DEF AgreementInv, Idle
    <2>7. CASE ClockBack
      BY <2>7 DEF ClockBack, SingleReporter
    <2>8. QED
      BY <1>5, <2>1, <2>2, <2>3, <2>4, <2>5, <2>6, <2>7 DEF EnvironmentNext
  <1>6. CASE UNCHANGED vars
    <2>1. UNCHANGED <<today, up, mem, store, op, snap, left, unsaved>>
      BY <1>6 DEF vars, engine, writers, history
    <2>2. \A w \in Callers : Agree(snap[w], mem)' = Agree(snap[w], mem)
      BY <2>1 DEF Agree
    <2>3. Agree(store, mem)' = Agree(store, mem)
      BY <2>1 DEF Agree
    <2>4. QED BY <2>1, <2>2, <2>3 DEF AgreementInv, Idle
  <1>7. QED
    BY <1>1, <1>2, <1>3, <1>4, <1>5, <1>6 DEF Next, WriterNext

===============================================================================
