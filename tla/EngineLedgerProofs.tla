--------------------------- MODULE EngineLedgerProofs ---------------------------
(***************************************************************************)
(* EngineCounters implements AllowanceLedger, for every amount and every   *)
(* number of days and calls: what callers were told is recorded is never   *)
(* forgotten.                                                              *)
(***************************************************************************)
EXTENDS EngineLedger, EngineCountersProofs

\* Two coroutines, a clock corrected across the roll and a damaged field each
\* break the promise (counters_reordered, counters_clock_back,
\* counters_damaged).  So do a store written key by key and a load that is
\* retried: either may put the gains of one day under the date of the next.
DurableSetting == SingleReporter /\ DamageBudget = 0

\* What callers have been told of figure f on day d.
OwedOn(d, f) == IF f = "executions" THEN fills ELSE spent[d][f]

\* What the caller w will have been told once its call has returned.
Claim(w, d, f) ==
    IF due[w].figure = f /\ (f = "executions" \/ due[w].day = d) THEN due[w].use ELSE 0

\* The engine's counters, rolled to any day still to come, account for it all.
MemoryBacks(w) ==
    \A d \in Day, f \in Allowances :
        d >= mem["trading_day"] => OwedOn(d, f) + Claim(w, d, f) <= Consumed(Rolled(mem, d), f)

\* So does what a restart would make of the store, for what callers have been
\* told, and once a call has been written also for that call.
StoreBacks ==
    \A d \in Day, f \in Allowances :
        d >= today => OwedOn(d, f) <= Consumed(Restarted(store, d), f)
StoreBacksClaim(w) ==
    \A d \in Day, f \in Allowances :
        d >= today => OwedOn(d, f) + Claim(w, d, f) <= Consumed(Restarted(store, d), f)

\* The history of days to come is empty, and acknowledged orders leave no
\* negative count of rejections.
HistoryInv ==
    /\ \A d \in Day : d > today => \A f \in DayFigures : spent[d][f] = 0
    /\ \A d \in Day : spent[d]["rejects"] >= 0

\* While an operator's reset is to be written, nothing is owed of the P&L.
ConsoleInv ==
    /\ due[Console] = NothingDue
    /\ ~Idle(Console) => \A d \in Day, leg \in Legs : spent[d][leg] <= 0
    /\ left[Console] \in {{}, ResetKeys}
    /\ left[Console] # {} => \A k \in ResetKeys : snap[Console][k] = 0

\* A load reads the store as it is, and makes of a new engine's counters what
\* a restart makes of that store; no other call runs before it is done.
LoadInv(w) ==
    /\ op[w] \notin {"idle", "load_read", "load"} => up = "running"
    /\ up = "constructed" /\ op[w] \in {"idle", "load_read"} =>
           mem = NewMem(mem["trading_day"])
    /\ op[w] = "load_read" => snap[w] = store /\ left[w] = {}
    /\ op[w] = "load" => Agree(store, mem)

\* No text is of a day to come.
DayInv ==
    /\ store["trading_day"] \in Int => store["trading_day"] <= today
    /\ \A w \in Callers :
        snap[w]["trading_day"] \in Int => snap[w]["trading_day"] <= today

\* Only a call that reports something has anything to claim.
ClaimInv(w) ==
    /\ op[w] \in {"idle", "load_read", "load"} => due[w] = NothingDue
    /\ due[w].use \in CallAmounts \cup {0}
    /\ due[w].day <= today

LedgerInv ==
    /\ HistoryInv /\ ConsoleInv /\ DayInv /\ StoreBacks
    /\ up \in {"down", "constructed"} => ~unsaved
    /\ \A w \in Callers :
        /\ ClaimInv(w) /\ LoadInv(w)
        /\ up = "running" \/ op[w] = "load" => MemoryBacks(w)
        /\ left[w] = {} => StoreBacksClaim(w)

-------------------------------------------------------------------------------
(* What the operators the ledger is read off make of a figure *)

\* A figure of sound counters is consumed by a whole number.
LEMMA ConsumedType ==
    ASSUME NEW m, Sound(m), NEW f \in Allowances
    PROVE  Consumed(m, f) \in Int
  BY DEF Sound, Figures, Consumed, Allowances, DayFigures, Legs, Key

\* The provers know unary minus by its sums only.
LEMMA MinusZero == -0 = 0
  <1>1. -0 \in Int /\ -0 + 0 = 0
    OBVIOUS
  <1>2. \A x \in Int : x + 0 = 0 => x = 0
    OBVIOUS
  <1>3. QED BY <1>1, <1>2, Zenon

\* A new engine has consumed nothing.
LEMMA ConsumedOfNewMem ==
    ASSUME NEW d, NEW f \in Allowances
    PROVE  Consumed(NewMem(d), f) = 0
  <1>1. NewMem(d)[f] = 0
    BY DEF NewMem, Allowances, DayFigures, Legs, Key
  <1>2. QED BY <1>1, MinusZero, Zenon DEF Consumed

\* Of a rolled engine's counters only the executions are left.
LEMMA ConsumedRolled ==
    ASSUME NEW m, m \in Figures, NEW d, m["trading_day"] # d, NEW f \in Allowances
    PROVE  Consumed(Rolled(m, d), f) = IF f = "executions" THEN m["executions"] ELSE 0
  BY DEF Rolled, NewMem, Figures, Consumed, Allowances, DayFigures, Legs, Key

\* A roll never takes the executions.
LEMMA ExecutionsRolled ==
    ASSUME NEW m, m \in Figures, NEW d
    PROVE  Consumed(Rolled(m, d), "executions") = m["executions"]
  BY DEF Rolled, NewMem, Figures, Consumed, DayFigures, Legs, Key

\* A restart takes the executions from the store on any day ...
LEMMA ExecutionsRestarted ==
    ASSUME NEW texts, NEW d
    PROVE  Consumed(Restarted(texts, d), "executions") = AsCount(texts["executions"])
  BY DEF Restarted, Loaded, Consumed, Legs, Key

\* ... and the figures of the day only from a snapshot of that day.
LEMMA RestartedOtherDay ==
    ASSUME NEW texts, NEW d, texts["trading_day"] # d, NEW f \in DayFigures
    PROVE  Consumed(Restarted(texts, d), f) = 0
  <1>1. Restarted(texts, d)[f] = 0
    BY DEF Restarted, Loaded, NewMem, DayFigures, Legs, Key, Peaks
  <1>2. QED BY <1>1, MinusZero, Zenon DEF Consumed

\* A restarted engine's counters are sound.
LEMMA RestartedSound ==
    ASSUME NEW texts \in Texts, NEW d \in Day
    PROVE  Sound(Restarted(texts, d)) /\ Restarted(texts, d)["trading_day"] = d
  BY NewMemSound, LoadedSound DEF Restarted

\* A load makes of a new engine's counters what a restart makes of its store,
\* whichever day the engine was constructed on.
LEMMA LoadedNewMem ==
    ASSUME NEW texts, NEW d, NEW t
    PROVE  Loaded(texts, NewMem(d), t) = Restarted(texts, t)
  BY DEF Loaded, Restarted, NewMem, Key

\* A store of no day to come agrees with the counters a restart takes from it.
LEMMA RestartedAgrees ==
    ASSUME NEW texts \in Texts, NEW t \in Day,
           texts["trading_day"] \in Int => texts["trading_day"] <= t
    PROVE  Agree(texts, Restarted(texts, t))
  <1> DEFINE m == Restarted(texts, t)
  <1>1. Sound(m) /\ m["trading_day"] = t
    BY RestartedSound
  <1> SUFFICES ASSUME NEW d \in Day, d >= t PROVE Restarted(texts, d) = Rolled(m, d)
    BY <1>1 DEF Agree
  <1>2. CASE d = t
    BY <1>1, <1>2 DEF Rolled
  <1>3. CASE d # t
    <2>1. texts["trading_day"] # d
      BY <1>3 DEF Day
    <2>2. Restarted(texts, d) =
              [k \in Key |-> IF k = "executions" THEN AsCount(texts[k]) ELSE NewMem(d)[k]]
      BY <2>1 DEF Restarted, Loaded, NewMem, Key
    <2>3. m["executions"] = AsCount(texts["executions"])
      BY DEF Restarted, Loaded, Key
    <2>4. Rolled(m, d) = [k \in Key |-> IF k = "executions" THEN m[k] ELSE NewMem(d)[k]]
      <3> HIDE DEF m
      <3> QED BY <1>1, <1>3 DEF Rolled, NewMem, Key
    <2>5. QED BY <2>2, <2>3, <2>4
  <1>4. QED BY <1>2, <1>3

\* What is owed and what is claimed are whole numbers, a claim no less than
\* nothing.
LEMMA OwedType ==
    ASSUME SoundInv, NEW d \in Day, NEW f \in Allowances
    PROVE  /\ OwedOn(d, f) \in Int
           /\ \A w \in Writer : Claim(w, d, f) \in Nat
  BY DEF SoundInv, TypeOK, OwedOn, Claim, Allowances, Due

\* A writer with nothing due claims nothing.
LEMMA NoClaim ==
    ASSUME NEW w, due[w] = NothingDue, NEW d, NEW f
    PROVE  Claim(w, d, f) = 0
  BY DEF Claim, NothingDue

-------------------------------------------------------------------------------
(* LedgerInv is inductive *)

\* A fresh store and a fresh engine have recorded nothing.
LEMMA LedgerInit == ASSUME DurableSetting PROVE Init => LedgerInv
  <1> SUFFICES ASSUME Init PROVE LedgerInv
    OBVIOUS
  <1>1. SoundInv
    BY SoundInit
  <1>2. /\ today = 1 /\ up = "down" /\ ~unsaved /\ Console \in Writer /\ 1 \in Day
        /\ Callers \subseteq Writer
    BY CountersAssumption DEF Init, Writer, Day
  <1>3. \A w \in Writer : op[w] = "idle" /\ left[w] = {} /\ due[w] = NothingDue
                          /\ snap[w]["trading_day"] = Absent
    BY DEF Init, NoSnap, NoRows, Key
  <1>4. HistoryInv
    BY DEF Init, HistoryInv, DayFigures
  <1>5. ConsoleInv
    BY <1>2, <1>3 DEF ConsoleInv, Idle
  <1>6. DayInv
    BY <1>2, <1>3, EncodingAssumption DEF Init, DayInv, NoSnap, NoRows, Key
  <1>7. \A d \in Day, f \in Allowances :
            /\ OwedOn(d, f) = 0 /\ 0 <= Consumed(Restarted(store, d), f)
            /\ \A w \in Writer : Claim(w, d, f) = 0
    <2> SUFFICES ASSUME NEW d \in Day, NEW f \in Allowances
                 PROVE  /\ OwedOn(d, f) = 0 /\ 0 <= Consumed(Restarted(store, d), f)
                        /\ \A w \in Writer : Claim(w, d, f) = 0
      OBVIOUS
    <2>1. OwedOn(d, f) = 0
      BY DEF Init, OwedOn, Allowances
    <2>2. \A w \in Writer : Claim(w, d, f) = 0
      BY <1>3, NoClaim
    <2>3. store["trading_day"] = Absent /\ store["executions"] = Absent
      BY DEF Init, NoSnap, NoRows, Key
    <2>4. store["trading_day"] # d /\ AsCount(store["executions"]) = 0
      BY <2>3, EncodingAssumption DEF Day, AsCount
    <2>5. Consumed(Restarted(store, d), f) = 0
      BY <2>4, ExecutionsRestarted, RestartedOtherDay DEF Allowances
    <2>6. QED BY <2>1, <2>2, <2>5
  <1>8. StoreBacks /\ \A w \in Callers : StoreBacksClaim(w)
    <2>1. 0 + 0 = 0
      OBVIOUS
    <2>2. QED BY <1>2, <1>7, <2>1, Zenon DEF StoreBacks, StoreBacksClaim
  <1>9. \A w \in Callers : ClaimInv(w) /\ LoadInv(w)
    BY <1>2, <1>3 DEF ClaimInv, LoadInv, NothingDue
  <1>10. QED BY <1>2, <1>3, <1>4, <1>5, <1>6, <1>8, <1>9 DEF LedgerInv

\* A call that leaves the counters accounting for what is owed and what it
\* will have consumed keeps the ledger: a record_* call or a re-arm, up to its
\* first await.
LEMMA CallBacks ==
    ASSUME DurableSetting, SoundInv, SoundInv', AgreementInv, LedgerInv,
           NEW w \in Callers, Ready(w), NEW name, name \notin {"idle", "load_read", "load"},
           NEW n, Sound(n), n["trading_day"] = today, Persist(w, name, n), CallBegins,
           \A f \in Allowances : OwedOn(today, f)' + Claim(w, today, f)' <= Consumed(n, f),
           \A d \in Day, f \in Allowances : OwedOn(d, f)' <= OwedOn(d, f),
           HistoryInv', due'[Console] = NothingDue,
           due'[w] = NothingDue \/ (due'[w].use \in CallAmounts /\ due'[w].day = today)
    PROVE  LedgerInv'
  <1>1. /\ w \in Writer /\ Console \in Writer /\ w # Console /\ today \in Day /\ today \in Int
        /\ UNCHANGED <<today, up, store, unsaved>> /\ up = "running"
        /\ \A v \in Callers : v = w
    BY CountersAssumption DEF Writer, SoundInv, TypeOK, Day, Ready, CallBegins,
       DurableSetting, SingleReporter
  <1>2. /\ op'[w] = name /\ left'[w] = Key /\ snap'[w] = Encoded(n) /\ mem' = n
        /\ op'[Console] = op[Console] /\ left'[Console] = left[Console]
        /\ snap'[Console] = snap[Console]
    BY <1>1 DEF Persist, SoundInv, TypeOK
  <1>3. Idle(Console) /\ left[Console] = {}
    BY <1>1 DEF AgreementInv
  <1>4. ConsoleInv'
    BY <1>2, <1>3 DEF ConsoleInv, Idle
  <1>5. DayInv'
    <2>1. Encoded(n)["trading_day"] = today
      BY DEF Encoded, Key
    <2>2. QED BY <1>1, <1>2, <2>1 DEF LedgerInv, DayInv
  <1>6. StoreBacks'
    <2> SUFFICES ASSUME NEW d \in Day, NEW f \in Allowances, d >= today
                 PROVE  OwedOn(d, f)' <= Consumed(Restarted(store, d), f)
      BY <1>1 DEF StoreBacks
    <2>1. OwedOn(d, f)' <= OwedOn(d, f) /\ OwedOn(d, f) <= Consumed(Restarted(store, d), f)
      BY DEF LedgerInv, StoreBacks
    <2>2. Consumed(Restarted(store, d), f) \in Int
      BY RestartedSound, ConsumedType DEF SoundInv, TypeOK
    <2>3. OwedOn(d, f) \in Int
      BY OwedType
    <2>4. OwedOn(d, f)' \in Int
      BY DEF SoundInv, TypeOK, OwedOn, Allowances
    <2>5. QED BY <2>1, <2>2, <2>3, <2>4
  <1>7. MemoryBacks(w)'
    <2> SUFFICES ASSUME NEW d \in Day, NEW f \in Allowances, d >= today
                 PROVE  OwedOn(d, f)' + Claim(w, d, f)' <= Consumed(Rolled(n, d), f)
      BY <1>1, <1>2 DEF MemoryBacks
    <2>0. n \in Figures
      BY DEF Sound
    <2>1. CASE d = today
      BY <1>1, <2>1 DEF Rolled
    <2>2. CASE d # today /\ f = "executions"
      <3>1. /\ OwedOn(d, f)' = OwedOn(today, f)' /\ Claim(w, d, f)' = Claim(w, today, f)'
        BY <2>2 DEF OwedOn, Claim
      <3>2. Consumed(Rolled(n, d), f) = n["executions"] /\ Consumed(n, f) = n["executions"]
        BY <2>0, <2>2, ExecutionsRolled DEF Consumed, Legs
      <3>3. QED BY <3>1, <3>2
    <2>3. CASE d # today /\ f # "executions"
      <3>1. f \in DayFigures /\ d > today
        BY <1>1, <2>3 DEF Allowances, Day
      <3>2. OwedOn(d, f)' = 0
        BY <1>1, <2>3, <3>1 DEF HistoryInv, OwedOn
      <3>3. Claim(w, d, f)' = 0
        BY <2>3 DEF Claim, NothingDue
      <3>4. Consumed(Rolled(n, d), f) = 0
        BY <2>0, <2>3, ConsumedRolled
      <3>5. QED BY <3>2, <3>3, <3>4
    <2>4. QED BY <2>1, <2>2, <2>3
  <1>8. ClaimInv(w)' /\ LoadInv(w)'
    BY <1>1, <1>2 DEF ClaimInv, LoadInv, NothingDue, Day
  <1>9. left'[w] # {}
    BY <1>2 DEF Key
  <1>10. QED BY <1>1, <1>4, <1>5, <1>6, <1>7, <1>8, <1>9 DEF LedgerInv

\* Before a call of the one caller nothing is due, and the rolled counters
\* account for what is owed today.
LEMMA BeforeCall ==
    ASSUME DurableSetting, SoundInv, AgreementInv, LedgerInv, NEW w \in Callers, Ready(w)
    PROVE  /\ w \in Writer /\ w # Console /\ today \in Day
           /\ due[w] = NothingDue
           /\ Sound(Rolled(mem, today)) /\ Rolled(mem, today)["trading_day"] = today
           /\ \A f \in Allowances : OwedOn(today, f) <= Consumed(Rolled(mem, today), f)
  <1>1. /\ w \in Writer /\ w # Console /\ today \in Day /\ up = "running" /\ op[w] = "idle"
    BY CountersAssumption DEF Writer, SoundInv, TypeOK, Ready, Idle
  <1>2. due[w] = NothingDue /\ MemoryBacks(w)
    BY <1>1 DEF LedgerInv, ClaimInv
  <1>3. Sound(Rolled(mem, today)) /\ Rolled(mem, today)["trading_day"] = today
    BY RolledSound DEF SoundInv, TypeOK
  <1>4. ASSUME NEW f \in Allowances
        PROVE  OwedOn(today, f) <= Consumed(Rolled(mem, today), f)
    <2>1. OwedOn(today, f) + Claim(w, today, f) <= Consumed(Rolled(mem, today), f)
      BY <1>1, <1>2 DEF MemoryBacks, AgreementInv
    <2>2. Claim(w, today, f) = 0 /\ OwedOn(today, f) \in Int
      BY <1>1, <1>2, NoClaim, OwedType
    <2>3. QED BY <2>1, <2>2
  <1>5. QED BY <1>1, <1>2, <1>3, <1>4

\* A call that consumes, or hands back, as much as it accounts for.
LEMMA AccountBacks ==
    ASSUME DurableSetting, SoundInv, SoundInv', AgreementInv, LedgerInv,
           NEW w \in Callers, Ready(w), NEW name, name \notin {"idle", "load_read", "load"},
           NEW n, Sound(n), n["trading_day"] = today, Persist(w, name, n), CallBegins,
           NEW figure \in Allowances, NEW use \in Int, Account(w, figure, use),
           \A f \in Allowances :
               Consumed(n, f) = Consumed(Rolled(mem, today), f) + (IF f = figure THEN use ELSE 0),
           figure \in {"rejects", "executions"} => use > 0,
           use > 0 => use \in CallAmounts
    PROVE  LedgerInv'
  <1>0. /\ w \in Writer /\ w # Console /\ today \in Day /\ today' = today
        /\ due[w] = NothingDue /\ due[Console] = NothingDue /\ Sound(Rolled(mem, today))
        /\ \A f \in Allowances : OwedOn(today, f) <= Consumed(Rolled(mem, today), f)
    BY BeforeCall DEF CallBegins, LedgerInv, ConsoleInv
  <1>t. \A f \in Allowances : OwedOn(today, f) \in Int /\ Consumed(Rolled(mem, today), f) \in Int
    BY <1>0, OwedType, ConsumedType
  <1>1. CASE use > 0
    <2>1. /\ due' = [due EXCEPT ![w] = [figure |-> figure, use |-> use, day |-> today]]
          /\ spent' = spent /\ fills' = fills
      BY <1>1 DEF Account
    <2>2. due'[w] = [figure |-> figure, use |-> use, day |-> today] /\ due'[Console] = due[Console]
      BY <1>0, <2>1 DEF SoundInv, TypeOK
    <2>3. \A d \in Day, f \in Allowances : OwedOn(d, f)' = OwedOn(d, f)
      BY <2>1 DEF OwedOn
    <2>4. \A d \in Day, f \in Allowances : OwedOn(d, f)' <= OwedOn(d, f)
      BY <2>3, OwedType
    <2>5. \A f \in Allowances : Claim(w, today, f)' = IF f = figure THEN use ELSE 0
      BY <1>0, <2>2 DEF Claim
    <2>6. \A f \in Allowances : OwedOn(today, f)' + Claim(w, today, f)' <= Consumed(n, f)
      BY <1>0, <1>t, <2>3, <2>5
    <2>7. HistoryInv'
      BY <1>0, <2>1 DEF LedgerInv, HistoryInv
    <2>8. due'[w].use \in CallAmounts /\ due'[w].day = today
      BY <1>1, <2>2
    <2>9. QED BY <1>0, <2>2, <2>4, <2>6, <2>7, <2>8, CallBacks
  <1>2. CASE ~(use > 0)
    <2>1. figure \in DayFigures /\ figure # "rejects" /\ figure # "executions"
      BY <1>2 DEF Allowances
    <2>2. /\ due' = due /\ fills' = fills
          /\ spent' = [spent EXCEPT ![today][figure] = @ + use]
      BY <1>2 DEF Account
    <2>3. \A d \in Day, f \in DayFigures :
              spent'[d][f] = IF d = today /\ f = figure THEN spent[d][f] + use ELSE spent[d][f]
      BY <1>0, <2>1, <2>2 DEF SoundInv, TypeOK
    <2>4. \A d \in Day, f \in Allowances :
              OwedOn(d, f)' = IF d = today /\ f = figure THEN OwedOn(d, f) + use ELSE OwedOn(d, f)
      BY <2>1, <2>2, <2>3 DEF OwedOn, Allowances
    <2>5. \A d \in Day, f \in Allowances : OwedOn(d, f)' <= OwedOn(d, f)
      BY <1>2, <2>4, OwedType
    <2>6. due'[w] = NothingDue /\ due'[Console] = NothingDue
      BY <1>0, <2>2
    <2>7. \A f \in Allowances : Claim(w, today, f)' = 0
      BY <2>6 DEF Claim, NothingDue
    <2>8. \A f \in Allowances : OwedOn(today, f)' + Claim(w, today, f)' <= Consumed(n, f)
      BY <1>0, <1>t, <2>4, <2>7
    <2>9. HistoryInv'
      BY <1>0, <2>1, <2>3 DEF LedgerInv, HistoryInv, DayFigures, Day
    <2>10. QED BY <1>0, <2>5, <2>6, <2>8, <2>9, CallBacks
  <1>3. QED BY <1>1, <1>2

\* A call that forgives figures makes the counters count them from zero.
LEMMA ForgivenBacks ==
    ASSUME DurableSetting, SoundInv, SoundInv', AgreementInv, LedgerInv,
           NEW w \in Callers, Ready(w), NEW name, name \notin {"idle", "load_read", "load"},
           NEW n, Sound(n), n["trading_day"] = today, Persist(w, name, n), CallBegins,
           NEW figures \in SUBSET {"rejects", "executions"}, Forgiven(figures),
           fills' = IF "executions" \in figures THEN 0 ELSE fills,
           \A f \in Allowances :
               Consumed(n, f) = IF f \in figures THEN 0 ELSE Consumed(Rolled(mem, today), f)
    PROVE  LedgerInv'
  <1>0. /\ w \in Writer /\ w # Console /\ Console \in Writer /\ today \in Day /\ today' = today
        /\ due[w] = NothingDue /\ due[Console] = NothingDue /\ Sound(Rolled(mem, today))
        /\ \A f \in Allowances : OwedOn(today, f) <= Consumed(Rolled(mem, today), f)
    BY BeforeCall DEF CallBegins, LedgerInv, ConsoleInv, Writer
  <1>t. \A f \in Allowances : OwedOn(today, f) \in Int /\ Consumed(Rolled(mem, today), f) \in Int
    BY <1>0, OwedType, ConsumedType
  <1>1. due'[w] = NothingDue /\ due'[Console] = NothingDue
    BY <1>0 DEF Forgiven
  <1>2. \A d \in Day, f \in DayFigures :
            spent'[d][f] = IF f \in figures THEN Smaller(0, spent[d][f]) ELSE spent[d][f]
    BY DEF Forgiven
  <1>3. HistoryInv'
    BY <1>0, <1>2 DEF LedgerInv, HistoryInv, DayFigures, Smaller
  <1>4. \A d \in Day, f \in Allowances :
            /\ OwedOn(d, f)' <= OwedOn(d, f)
            /\ f \in figures => OwedOn(d, f)' <= 0
            /\ f \notin figures => OwedOn(d, f)' = OwedOn(d, f)
    BY <1>2 DEF OwedOn, Allowances, Smaller, SoundInv, TypeOK
  <1>5. \A f \in Allowances : Claim(w, today, f)' = 0
    BY <1>1 DEF Claim, NothingDue
  <1>6. \A f \in Allowances : OwedOn(today, f)' \in Int
    BY <1>0 DEF OwedOn, Allowances, SoundInv, TypeOK
  <1>7. \A f \in Allowances : OwedOn(today, f)' + Claim(w, today, f)' <= Consumed(n, f)
    BY <1>0, <1>t, <1>4, <1>5, <1>6
  <1>8. QED BY <1>1, <1>3, <1>4, <1>7, CallBacks

\* What each call makes of the rolled counters, as consumption.
LEMMA PnlConsumed ==
    ASSUME NEW m, Sound(m), NEW d \in Day, NEW leg \in Legs, NEW amount \in Int, NEW f \in Allowances
    PROVE  Consumed(PnlAdded(m, d, leg, amount), f) =
               Consumed(Rolled(m, d), f) + (IF f = leg THEN -amount ELSE 0)
  <1>1. Rolled(m, d) \in Figures
    BY RolledSound DEF Sound
  <1> DEFINE r == Rolled(m, d)
  <1>2. PnlAdded(m, d, leg, amount)[f] = IF f = leg THEN r[f] + amount ELSE r[f]
    BY <1>1 DEF PnlAdded, Figures, Allowances, DayFigures, Legs, PeakOf, Key
  <1>3. r[f] \in Int
    BY <1>1 DEF Figures, Allowances, DayFigures, Legs, Key
  <1> HIDE DEF r
  <1>4. f = leg => f \in Legs
    OBVIOUS
  <1>5. Consumed(r, f) = IF f \in Legs THEN -r[f] ELSE r[f]
    BY DEF Consumed
  <1>6. Consumed(PnlAdded(m, d, leg, amount), f) =
            IF f = leg THEN -(r[f] + amount) ELSE IF f \in Legs THEN -r[f] ELSE r[f]
    BY <1>2, <1>4 DEF Consumed
  <1>7. QED BY <1>3, <1>4, <1>5, <1>6 DEF r

\* record_notional, as the ledger sees it.
LEMMA NotionalConsumed ==
    ASSUME NEW m, Sound(m), NEW d \in Day, NEW amount \in Int, NEW f \in Allowances
    PROVE  Consumed(NotionalAdded(m, d, amount), f) =
               Consumed(Rolled(m, d), f) + (IF f = "daily_notional" THEN amount ELSE 0)
  BY RolledSound DEF Sound, NotionalAdded, Consumed, Figures, Allowances, DayFigures, Legs, Key

\* record_order_rejected, as the ledger sees it.
LEMMA RejectConsumed ==
    ASSUME NEW m, Sound(m), NEW d \in Day, NEW f \in Allowances
    PROVE  Consumed(RejectNoted(m, d), f) =
               Consumed(Rolled(m, d), f) + (IF f = "rejects" THEN 1 ELSE 0)
  BY RolledSound DEF Sound, RejectNoted, Consumed, Figures, Allowances, DayFigures, Legs, Key

\* record_execution, as the ledger sees it.
LEMMA ExecutionConsumed ==
    ASSUME NEW m, Sound(m), NEW d \in Day, NEW f \in Allowances
    PROVE  Consumed(ExecutionNoted(m, d), f) =
               Consumed(Rolled(m, d), f) + (IF f = "executions" THEN 1 ELSE 0)
  BY RolledSound DEF Sound, ExecutionNoted, Consumed, Figures, Allowances, DayFigures, Legs, Key

\* record_order_accepted, as the ledger sees it.
LEMMA AcceptanceConsumed ==
    ASSUME NEW m, Sound(m), NEW d \in Day, NEW f \in Allowances
    PROVE  Consumed(AcceptanceNoted(m, d), f) =
               IF f \in {"rejects"} THEN 0 ELSE Consumed(Rolled(m, d), f)
  BY RolledSound DEF Sound, AcceptanceNoted, Consumed, Figures, Allowances, DayFigures, Legs, Key

\* The re-arm, as the ledger sees it.
LEMMA RearmConsumed ==
    ASSUME NEW m, Sound(m), NEW d \in Day, NEW f \in Allowances
    PROVE  Consumed(Rearmed(m, d), f) =
               IF f \in {"rejects", "executions"} THEN 0 ELSE Consumed(Rolled(m, d), f)
  BY RolledSound DEF Sound, Rearmed, Consumed, Figures, Allowances, DayFigures, Legs, Key

\* Every record_* call keeps the counters sound and stamps them with today.
LEMMA CallsSound ==
    ASSUME NEW m, Sound(m), NEW d \in Day
    PROVE  /\ \A leg \in Legs, amount \in Int :
                  Sound(PnlAdded(m, d, leg, amount)) /\ PnlAdded(m, d, leg, amount)["trading_day"] = d
           /\ \A amount \in Int :
                  Sound(NotionalAdded(m, d, amount)) /\ NotionalAdded(m, d, amount)["trading_day"] = d
           /\ Sound(RejectNoted(m, d)) /\ RejectNoted(m, d)["trading_day"] = d
           /\ Sound(AcceptanceNoted(m, d)) /\ AcceptanceNoted(m, d)["trading_day"] = d
           /\ Sound(ExecutionNoted(m, d)) /\ ExecutionNoted(m, d)["trading_day"] = d
           /\ Sound(Rearmed(m, d)) /\ Rearmed(m, d)["trading_day"] = d
  <1> DEFINE r == Rolled(m, d)
  <1>0. Sound(r) /\ r["trading_day"] = d
    BY RolledSound
  <1> HIDE DEF r
  <1>1. ASSUME NEW leg \in Legs, NEW amount \in Int
        PROVE  Sound(PnlAdded(m, d, leg, amount)) /\ PnlAdded(m, d, leg, amount)["trading_day"] = d
    <2> DEFINE pnl == r[leg] + amount
               n == [r EXCEPT ![leg] = pnl, ![PeakOf(leg)] = Larger(r[PeakOf(leg)], pnl)]
    <2>1. Sound(n) /\ n["trading_day"] = d
      BY <1>0 DEF Sound, Figures, Key, Legs, PeakOf, Larger
    <2>2. PnlAdded(m, d, leg, amount) = n
      BY DEF PnlAdded, r
    <2>3. QED BY <2>1, <2>2
  <1>2. ASSUME NEW amount \in Int
        PROVE  Sound(NotionalAdded(m, d, amount)) /\ NotionalAdded(m, d, amount)["trading_day"] = d
    <2>1. NotionalAdded(m, d, amount) = [r EXCEPT !["daily_notional"] = @ + amount]
      BY DEF NotionalAdded, r
    <2>2. QED BY <1>0, <2>1 DEF Sound, Figures, Key, Legs, PeakOf
  <1>3. Sound(RejectNoted(m, d)) /\ RejectNoted(m, d)["trading_day"] = d
    <2>1. RejectNoted(m, d) = [r EXCEPT !["rejects"] = @ + 1]
      BY DEF RejectNoted, r
    <2>2. QED BY <1>0, <2>1 DEF Sound, Figures, Key, Legs, PeakOf
  <1>4. Sound(AcceptanceNoted(m, d)) /\ AcceptanceNoted(m, d)["trading_day"] = d
    <2>1. AcceptanceNoted(m, d) = [r EXCEPT !["rejects"] = 0]
      BY DEF AcceptanceNoted, r
    <2>2. QED BY <1>0, <2>1 DEF Sound, Figures, Key, Legs, PeakOf
  <1>5. Sound(ExecutionNoted(m, d)) /\ ExecutionNoted(m, d)["trading_day"] = d
    <2>1. ExecutionNoted(m, d) = [r EXCEPT !["executions"] = @ + 1]
      BY DEF ExecutionNoted, r
    <2>2. QED BY <1>0, <2>1 DEF Sound, Figures, Key, Legs, PeakOf
  <1>6. Sound(Rearmed(m, d)) /\ Rearmed(m, d)["trading_day"] = d
    <2>1. Rearmed(m, d) = [r EXCEPT !["rejects"] = 0, !["executions"] = 0]
      BY DEF Rearmed, r
    <2>2. QED BY <1>0, <2>1 DEF Sound, Figures, Key, Legs, PeakOf
  <1>7. QED BY <1>1, <1>2, <1>3, <1>4, <1>5, <1>6

\* The calls of the trading process.
LEMMA CallerLedger ==
    ASSUME DurableSetting, SoundInv, SoundInv', AgreementInv, LedgerInv,
           NEW w \in Callers, CallerNext(w)
    PROVE  LedgerInv'
  <1>0. /\ w \in Writer /\ Console \in Writer /\ w # Console /\ today \in Day
        /\ Sound(mem) /\ \A v \in Callers : v = w
    BY CountersAssumption DEF Writer, SoundInv, TypeOK, DurableSetting, SingleReporter
  <1>1. ASSUME NEW trade \in Trades, RecordRealizedPnl(w, trade[1], trade[2])
        PROVE  LedgerInv'
    <2> DEFINE leg == trade[1]
               amount == trade[2]
               n == PnlAdded(mem, today, leg, amount)
    <2>1. leg \in Legs /\ amount \in Int /\ -amount \in Int
      BY CountersAssumption
    <2>2. leg \in Allowances /\ leg \notin {"rejects", "executions"}
      BY <2>1 DEF Allowances, DayFigures, Legs
    <2>3. -amount > 0 => -amount \in CallAmounts
      BY <2>1 DEF CallAmounts
    <2>4. Sound(n) /\ n["trading_day"] = today
      BY <1>0, <2>1, CallsSound
    <2>5. \A f \in Allowances :
              Consumed(n, f) = Consumed(Rolled(mem, today), f) + (IF f = leg THEN -amount ELSE 0)
      BY <1>0, <2>1, PnlConsumed
    <2>6. /\ Ready(w) /\ Persist(w, "record_realized_pnl", n) /\ Account(w, leg, -amount)
          /\ CallBegins
      BY <1>1 DEF RecordRealizedPnl
    <2> HIDE DEF n, leg, amount
    <2>7. QED BY <1>0, <2>1, <2>2, <2>3, <2>4, <2>5, <2>6, AccountBacks
  <1>2. ASSUME NEW amount \in Notionals, RecordNotional(w, amount) PROVE LedgerInv'
    <2> DEFINE n == NotionalAdded(mem, today, amount)
    <2>1. amount \in Int /\ "daily_notional" \in Allowances
      BY CountersAssumption DEF Allowances, DayFigures
    <2>2. amount > 0 => amount \in CallAmounts
      BY DEF CallAmounts
    <2>3. Sound(n) /\ n["trading_day"] = today
      BY <1>0, <2>1, CallsSound
    <2>4. \A f \in Allowances :
              Consumed(n, f) =
                  Consumed(Rolled(mem, today), f) + (IF f = "daily_notional" THEN amount ELSE 0)
      BY <1>0, <2>1, NotionalConsumed
    <2>5. /\ Ready(w) /\ Persist(w, "record_notional", n) /\ Account(w, "daily_notional", amount)
          /\ CallBegins
      BY <1>2 DEF RecordNotional
    <2> HIDE DEF n
    <2>6. QED BY <1>0, <2>1, <2>2, <2>3, <2>4, <2>5, AccountBacks
  <1>3. CASE RecordOrderRejected(w)
    <2> DEFINE n == RejectNoted(mem, today)
    <2>1. 1 \in CallAmounts /\ "rejects" \in Allowances
      BY DEF CallAmounts, Allowances, DayFigures
    <2>2. Sound(n) /\ n["trading_day"] = today
      BY <1>0, CallsSound
    <2>3. \A f \in Allowances :
              Consumed(n, f) =
                  Consumed(Rolled(mem, today), f) + (IF f = "rejects" THEN 1 ELSE 0)
      BY <1>0, RejectConsumed
    <2>4. /\ Ready(w) /\ Persist(w, "record_order_rejected", n) /\ Account(w, "rejects", 1)
          /\ CallBegins
      BY <1>3 DEF RecordOrderRejected
    <2> HIDE DEF n
    <2>5. QED BY <1>0, <2>1, <2>2, <2>3, <2>4, AccountBacks
  <1>4. CASE RecordOrderAccepted(w)
    <2> DEFINE n == AcceptanceNoted(mem, today)
    <2>1. Sound(n) /\ n["trading_day"] = today
      BY <1>0, CallsSound
    <2>2. \A f \in Allowances :
              Consumed(n, f) = IF f \in {"rejects"} THEN 0 ELSE Consumed(Rolled(mem, today), f)
      BY <1>0, AcceptanceConsumed
    <2>3. /\ Ready(w) /\ Persist(w, "record_order_accepted", n) /\ Forgiven({"rejects"})
          /\ CallBegins /\ fills' = IF "executions" \in {"rejects"} THEN 0 ELSE fills
      BY <1>4 DEF RecordOrderAccepted
    <2> HIDE DEF n
    <2>4. {"rejects"} \in SUBSET {"rejects", "executions"}
      OBVIOUS
    <2>5. QED BY <1>0, <2>1, <2>2, <2>3, <2>4, ForgivenBacks
  <1>5. CASE RecordExecution(w)
    <2> DEFINE n == ExecutionNoted(mem, today)
    <2>1. 1 \in CallAmounts /\ "executions" \in Allowances
      BY DEF CallAmounts, Allowances
    <2>2. Sound(n) /\ n["trading_day"] = today
      BY <1>0, CallsSound
    <2>3. \A f \in Allowances :
              Consumed(n, f) =
                  Consumed(Rolled(mem, today), f) + (IF f = "executions" THEN 1 ELSE 0)
      BY <1>0, ExecutionConsumed
    <2>4. /\ Ready(w) /\ Persist(w, "record_execution", n) /\ Account(w, "executions", 1)
          /\ CallBegins
      BY <1>5 DEF RecordExecution
    <2> HIDE DEF n
    <2>5. QED BY <1>0, <2>1, <2>2, <2>3, <2>4, AccountBacks
  <1>6. CASE Rearm(w)
    <2> DEFINE n == Rearmed(mem, today)
    <2>1. Sound(n) /\ n["trading_day"] = today
      BY <1>0, CallsSound
    <2>2. \A f \in Allowances :
              Consumed(n, f) =
                  IF f \in {"rejects", "executions"} THEN 0 ELSE Consumed(Rolled(mem, today), f)
      BY <1>0, RearmConsumed
    <2>3. /\ Ready(w) /\ Persist(w, "rearm", n) /\ Forgiven({"rejects", "executions"})
          /\ CallBegins /\ fills' = IF "executions" \in {"rejects", "executions"} THEN 0 ELSE fills
      BY <1>6 DEF Rearm
    <2> HIDE DEF n
    <2>4. {"rejects", "executions"} \in SUBSET {"rejects", "executions"}
      OBVIOUS
    <2>5. QED BY <1>0, <2>1, <2>2, <2>3, <2>4, ForgivenBacks
  <1>7. CASE LoadRead(w)
    <2>1. /\ up = "constructed" /\ op[w] = "idle" /\ Idle(Console)
          /\ UNCHANGED <<today, up, mem, store, left, due, spent, fills, unsaved>>
          /\ op' = [op EXCEPT ![w] = "load_read"] /\ snap' = [snap EXCEPT ![w] = store]
      BY <1>0, <1>7 DEF LoadRead, Idle, engine, history
    <2>2. /\ op'[w] = "load_read" /\ snap'[w] = store
          /\ op'[Console] = op[Console] /\ snap'[Console] = snap[Console]
      BY <1>0, <2>1 DEF SoundInv, TypeOK
    <2>3. \A d, f : OwedOn(d, f)' = OwedOn(d, f) /\ Claim(w, d, f)' = Claim(w, d, f)
      BY <2>1 DEF OwedOn, Claim
    <2>4. StoreBacks' /\ (left'[w] = {} => StoreBacksClaim(w)')
      BY <1>0, <2>1, <2>3 DEF LedgerInv, StoreBacks, StoreBacksClaim
    <2>5. HistoryInv' /\ ConsoleInv' /\ DayInv'
      BY <1>0, <2>1, <2>2 DEF LedgerInv, HistoryInv, ConsoleInv, DayInv, Idle
    <2>6. ClaimInv(w)' /\ LoadInv(w)'
      BY <1>0, <2>1, <2>2 DEF LedgerInv, ClaimInv, LoadInv, AgreementInv, Idle
    <2>7. QED BY <1>0, <2>1, <2>2, <2>4, <2>5, <2>6 DEF LedgerInv
  <1>8. CASE LoadApply(w)
    <2> DEFINE n == Loaded(snap[w], mem, today)
    <2>1. /\ op[w] = "load_read" /\ up = "constructed"
          /\ Persist(w, "load", n)
          /\ UNCHANGED <<today, up, store, calls, damaged, due, spent, fills, unsaved>>
      BY <1>0, <1>8 DEF LoadApply, AgreementInv, history
    <2>2. snap[w] = store /\ mem = NewMem(mem["trading_day"])
      BY <1>0, <2>1 DEF LedgerInv, LoadInv
    <2>3. n = Restarted(store, today)
      BY <2>2, LoadedNewMem
    <2>4. Sound(n) /\ n["trading_day"] = today
      BY <1>0, <2>3, RestartedSound DEF SoundInv, TypeOK
    <2>5. Agree(store, n)
      BY <1>0, <2>3, RestartedAgrees DEF LedgerInv, DayInv, SoundInv, TypeOK
    <2>6. /\ op'[w] = "load" /\ left'[w] = Key /\ snap'[w] = Encoded(n) /\ mem' = n
          /\ op'[Console] = op[Console] /\ left'[Console] = left[Console]
          /\ snap'[Console] = snap[Console]
      BY <1>0, <2>1 DEF Persist, SoundInv, TypeOK
    <2> HIDE DEF n
    <2>7. ClaimInv(w)' /\ LoadInv(w)'
      BY <1>0, <2>1, <2>5, <2>6 DEF LedgerInv, ClaimInv, LoadInv, Agree
    <2>8. \A d, f : OwedOn(d, f)' = OwedOn(d, f) /\ Claim(w, d, f)' = Claim(w, d, f)
      BY <2>1 DEF OwedOn, Claim
    <2>9. StoreBacks'
      BY <2>1, <2>8 DEF LedgerInv, StoreBacks
    <2>10. MemoryBacks(w)'
      <3> SUFFICES ASSUME NEW d \in Day, NEW f \in Allowances, d >= today
                   PROVE  OwedOn(d, f)' + Claim(w, d, f)' <= Consumed(Rolled(n, d), f)
        BY <2>4, <2>6 DEF MemoryBacks
      <3>1. OwedOn(d, f) <= Consumed(Restarted(store, d), f)
        BY DEF LedgerInv, StoreBacks
      <3>2. Restarted(store, d) = Rolled(n, d)
        BY <2>4, <2>5 DEF Agree
      <3>3. Claim(w, d, f) = 0
        BY <2>1, NoClaim DEF LedgerInv, ClaimInv
      <3>4. OwedOn(d, f) \in Int
        BY OwedType
      <3>5. QED BY <2>8, <3>1, <3>2, <3>3, <3>4
    <2>11. HistoryInv' /\ ConsoleInv'
      BY <1>0, <2>1, <2>6 DEF LedgerInv, HistoryInv, ConsoleInv, Idle
    <2>12. DayInv'
      <3>1. Encoded(n)["trading_day"] = today
        BY <2>4 DEF Encoded, Key
      <3>2. today <= today
        BY <1>0 DEF Day
      <3>3. QED BY <1>0, <2>1, <2>6, <3>1, <3>2 DEF LedgerInv, DayInv
    <2>13. left'[w] # {}
      BY <2>6 DEF Key
    <2>14. QED BY <1>0, <2>1, <2>7, <2>9, <2>10, <2>11, <2>12, <2>13 DEF LedgerInv
  <1>9. QED
    BY <1>1, <1>2, <1>3, <1>4, <1>5, <1>6, <1>7, <1>8 DEF CallerNext

\* A reset takes effect on the P&L of both legs and on nothing else a restart
\* makes of the store.
LEMMA ResetRestarted ==
    ASSUME NEW texts \in Texts, NEW by, \A k \in ResetKeys : by[k] = 0,
           NEW d, NEW f \in Allowances
    PROVE  LET reset == Overwritten(texts, ResetKeys, by)
           IN /\ reset["trading_day"] = texts["trading_day"]
              /\ Consumed(Restarted(reset, d), f) =
                     IF f \in Legs THEN 0 ELSE Consumed(Restarted(texts, d), f)
  <1> DEFINE reset == Overwritten(texts, ResetKeys, by)
  <1>1. \A k \in Key : reset[k] = IF k \in ResetKeys THEN 0 ELSE texts[k]
    BY DEF Overwritten, Texts
  <1>2. reset["trading_day"] = texts["trading_day"]
    BY <1>1 DEF ResetKeys, Legs, Peaks, Key
  <1> HIDE DEF reset
  <1>3. CASE f \in Legs
    <2>1. f \in Key /\ reset[f] = 0 /\ f \notin Peaks /\ f \notin {"rejects", "executions", "trading_day"}
      BY <1>1, <1>3 DEF ResetKeys, Legs, Peaks, Key
    <2>2. Restarted(reset, d)[f] = 0
      BY <2>1 DEF Restarted, Loaded, NewMem, DecodeFloatOr
    <2>3. QED BY <1>2, <1>3, <2>2, MinusZero, Zenon DEF Consumed, reset
  <1>4. CASE f \notin Legs
    <2>1. f \in Key /\ reset[f] = texts[f] /\ f \notin Peaks /\ f # "trading_day"
      BY <1>1, <1>4 DEF ResetKeys, Legs, Peaks, Key, Allowances, DayFigures
    <2>2. Restarted(reset, d)[f] = Restarted(texts, d)[f]
      BY <1>2, <2>1 DEF Restarted, Loaded
    <2>3. QED BY <1>2, <1>4, <2>2, Zenon DEF Consumed, reset
  <1>5. QED BY <1>3, <1>4

\* The commit of a snapshot of a caller, or of an operator's reset.
LEMMA StoreWriteLedger ==
    ASSUME DurableSetting, SoundInv, SoundInv', AgreementInv, LedgerInv,
           NEW w \in Writer, StoreWrite(w)
    PROVE  LedgerInv'
  <1>0. /\ Console \in Writer /\ Console \notin Callers /\ Callers \subseteq Writer
        /\ today \in Day
    BY CountersAssumption DEF Writer, SoundInv, TypeOK
  <1>1. PICK batch \in Batches(PersistOrder, left[w]) : StoreWrite(w)!2!(batch)
    BY DEF StoreWrite
  <1>2. batch = left[w]
    BY DEF Batches, DurableSetting, SingleReporter
  <1>3. /\ left[w] # {} /\ left' = [left EXCEPT ![w] = @ \ batch]
        /\ store' = Overwritten(store, left[w], snap[w])
        /\ UNCHANGED <<today, up, mem, op, snap, due, spent, fills>> /\ unsaved' = FALSE
    BY <1>1, <1>2 DEF StoreWrite, engine, SoundInv, TypeOK
  <1>4. left'[w] = {} /\ \A v \in Writer : v # w => left'[v] = left[v]
    BY <1>2, <1>3 DEF SoundInv, TypeOK
  <1>5. \A d, f : OwedOn(d, f)' = OwedOn(d, f) /\ \A v : Claim(v, d, f)' = Claim(v, d, f)
    BY <1>3 DEF OwedOn, Claim
  <1>6. HistoryInv'
    BY <1>3 DEF LedgerInv, HistoryInv
  <1>7. CASE w \in Callers
    <2>1. \A v \in Callers : v = w
      BY <1>7 DEF DurableSetting, SingleReporter
    <2>2. left[w] = Key /\ Agree(snap[w], mem)
      BY <1>3, <1>7 DEF AgreementInv
    <2>3. store' = snap[w]
      <3>1. snap[w] \in [Key -> WireText] /\ store \in [Key -> WireText]
        BY DEF SoundInv, TypeOK, Texts
      <3>2. store' = [k \in Key |-> snap[w][k]]
        BY <1>3, <2>2, <3>1 DEF Overwritten
      <3>3. QED BY <3>1, <3>2
    <2>4. op[w] # "load_read" /\ (op[w] = "load" \/ up = "running")
      BY <1>3, <1>7 DEF LedgerInv, LoadInv, AgreementInv, Idle
    <2>5. MemoryBacks(w) /\ mem["trading_day"] <= today
      BY <1>7, <2>4 DEF LedgerInv, AgreementInv
    <2>6. ASSUME NEW d \in Day, NEW f \in Allowances, d >= today
          PROVE  /\ OwedOn(d, f) + Claim(w, d, f) <= Consumed(Restarted(store', d), f)
                 /\ OwedOn(d, f) <= Consumed(Restarted(store', d), f)
      <3>1. d >= mem["trading_day"]
        BY <1>0, <2>5, <2>6 DEF Day, SoundInv, TypeOK
      <3>2. Restarted(store', d) = Rolled(mem, d)
        BY <2>2, <2>3, <3>1 DEF Agree
      <3>3. OwedOn(d, f) + Claim(w, d, f) <= Consumed(Rolled(mem, d), f)
        BY <2>5, <3>1 DEF MemoryBacks
      <3>4. OwedOn(d, f) \in Int /\ Claim(w, d, f) \in Nat
        BY OwedType
      <3>5. Consumed(Rolled(mem, d), f) \in Int
        BY RolledSound, ConsumedType DEF SoundInv
      <3>6. QED BY <3>2, <3>3, <3>4, <3>5
    <2>7. StoreBacks' /\ StoreBacksClaim(w)'
      BY <1>3, <1>5, <2>6 DEF StoreBacks, StoreBacksClaim
    <2>8. MemoryBacks(w)'
      BY <1>3, <1>5, <2>5 DEF MemoryBacks
    <2>9. DayInv'
      BY <1>3, <1>7, <2>3 DEF LedgerInv, DayInv
    <2>10. ConsoleInv'
      BY <1>0, <1>3, <1>4, <1>7 DEF LedgerInv, ConsoleInv, Idle
    <2>11. ClaimInv(w)' /\ LoadInv(w)'
      BY <1>3, <1>7, <2>2, <2>3, <2>4 DEF LedgerInv, ClaimInv, LoadInv, Agree
    <2>12. QED BY <1>3, <1>6, <2>1, <2>7, <2>8, <2>9, <2>10, <2>11 DEF LedgerInv
  <1>8. CASE w = Console
    <2>1. left[w] = ResetKeys /\ \A k \in ResetKeys : snap[w][k] = 0
      BY <1>3, <1>8 DEF LedgerInv, ConsoleInv
    <2>2. up = "down" /\ ~Idle(Console) /\ \A v \in Callers : op[v] = "idle"
      BY <1>3, <1>8 DEF AgreementInv, Idle
    <2>3. \A leg \in Legs, d \in Day : spent[d][leg] <= 0
      BY <2>2 DEF LedgerInv, ConsoleInv
    <2>4. ASSUME NEW d \in Day, NEW f \in Allowances, d >= today
          PROVE  OwedOn(d, f) <= Consumed(Restarted(store', d), f)
      <3>1. Consumed(Restarted(store', d), f) =
                IF f \in Legs THEN 0 ELSE Consumed(Restarted(store, d), f)
        BY <1>3, <2>1, ResetRestarted DEF SoundInv, TypeOK
      <3>2. f \in Legs => OwedOn(d, f) <= 0
        BY <2>3 DEF OwedOn, Legs
      <3>3. QED BY <2>4, <3>1, <3>2 DEF LedgerInv, StoreBacks
    <2>5. StoreBacks'
      BY <1>3, <1>5, <2>4 DEF StoreBacks
    <2>6. ASSUME NEW v \in Callers
          PROVE  StoreBacksClaim(v)'
      <3> SUFFICES ASSUME NEW d \in Day, NEW f \in Allowances, d >= today
                   PROVE  OwedOn(d, f) + Claim(v, d, f) <= Consumed(Restarted(store', d), f)
        BY <1>3, <1>5 DEF StoreBacksClaim
      <3>1. Claim(v, d, f) = 0
        BY <2>2, NoClaim DEF LedgerInv, ClaimInv
      <3>2. OwedOn(d, f) \in Int
        BY OwedType
      <3>3. QED BY <2>4, <3>1, <3>2
    <2>7. DayInv'
      <3>1. "executions" \in Allowances
        BY DEF Allowances
      <3>2. store'["trading_day"] = store["trading_day"]
        BY <1>3, <2>1, <3>1, ResetRestarted DEF SoundInv, TypeOK
      <3>3. QED BY <1>3, <3>2 DEF LedgerInv, DayInv
    <2>8. ConsoleInv'
      BY <1>3, <1>4, <1>8, <2>3 DEF LedgerInv, ConsoleInv, Idle
    <2>9. \A v \in Callers : ClaimInv(v)' /\ LoadInv(v)'
      BY <1>3, <2>2 DEF LedgerInv, ClaimInv, LoadInv
    <2>10. QED BY <1>3, <1>6, <2>2, <2>5, <2>6, <2>7, <2>8, <2>9 DEF LedgerInv
  <1>9. QED BY <1>7, <1>8 DEF Writer

\* The return of a call turns what it claimed into what is owed.
LEMMA ReturnOwed ==
    ASSUME SoundInv, NEW w \in Writer, Return(w)
    PROVE  /\ due'[w] = NothingDue /\ \A v \in Writer : v # w => due'[v] = due[v]
           /\ \A d \in Day, f \in Allowances : OwedOn(d, f)' = OwedOn(d, f) + Claim(w, d, f)
  <1>1. due[w] \in Due /\ due' = [due EXCEPT ![w] = NothingDue]
    BY DEF SoundInv, TypeOK, Return
  <1>2. due'[w] = NothingDue /\ \A v \in Writer : v # w => due'[v] = due[v]
    BY <1>1 DEF SoundInv, TypeOK
  <1>3. CASE due[w].figure = "executions"
    <2>1. fills' = fills + due[w].use /\ spent' = spent
      BY <1>3 DEF Return
    <2>2. ASSUME NEW d \in Day, NEW f \in Allowances
          PROVE  OwedOn(d, f)' = OwedOn(d, f) + Claim(w, d, f)
      <3>1. CASE f = "executions"
        BY <1>3, <2>1, <3>1 DEF OwedOn, Claim
      <3>2. CASE f # "executions"
        BY <1>3, <2>1, <3>2, OwedType DEF OwedOn, Claim
      <3>3. QED BY <3>1, <3>2
    <2>3. QED BY <1>2, <2>2
  <1>4. CASE due[w].figure # "executions"
    <2>1. due[w].day \in Day /\ due[w].figure \in DayFigures /\ due[w].use \in Nat
      BY <1>1, <1>4 DEF Due
    <2>2. spent' = [spent EXCEPT ![due[w].day][due[w].figure] = @ + due[w].use] /\ fills' = fills
      BY <1>4 DEF Return
    <2>3. ASSUME NEW d \in Day, NEW f \in Allowances
          PROVE  OwedOn(d, f)' = OwedOn(d, f) + Claim(w, d, f)
      <3>0. OwedOn(d, f) \in Int
        BY OwedType
      <3>1. CASE f = "executions"
        BY <1>4, <2>2, <3>0, <3>1 DEF OwedOn, Claim
      <3>2. CASE f # "executions"
        <4>1. f \in DayFigures
          BY <3>2 DEF Allowances
        <4>2. spent'[d][f] = IF due[w].day = d /\ due[w].figure = f
                             THEN spent[d][f] + due[w].use ELSE spent[d][f]
          BY <2>1, <2>2, <4>1 DEF SoundInv, TypeOK
        <4>3. QED BY <2>1, <3>0, <3>2, <4>2 DEF OwedOn, Claim
      <3>3. QED BY <3>1, <3>2
    <2>4. QED BY <1>2, <2>3
  <1>5. QED BY <1>3, <1>4

\* The return of a caller's call, of a load or of an operator's reset.
LEMMA ReturnLedger ==
    ASSUME DurableSetting, SoundInv, SoundInv', AgreementInv, LedgerInv,
           NEW w \in Writer, Return(w)
    PROVE  LedgerInv'
  <1>0. /\ Console \in Writer /\ Console \notin Callers /\ Callers \subseteq Writer
        /\ today \in Day
    BY CountersAssumption DEF Writer, SoundInv, TypeOK
  <1>1. /\ op[w] \notin {"idle", "load_read"} /\ left[w] = {}
        /\ up' = IF op[w] = "load" THEN "running" ELSE up
        /\ UNCHANGED <<today, mem, store, left, unsaved>>
    BY DEF Return
  <1>2. /\ op'[w] = "idle" /\ snap'[w] = NoSnap
        /\ \A v \in Writer : v # w => op'[v] = op[v] /\ snap'[v] = snap[v]
    BY DEF Return, SoundInv, TypeOK
  <1>3. /\ due'[w] = NothingDue /\ \A v \in Writer : v # w => due'[v] = due[v]
        /\ \A d \in Day, f \in Allowances : OwedOn(d, f)' = OwedOn(d, f) + Claim(w, d, f)
    BY ReturnOwed
  <1>4. NoSnap["trading_day"] \notin Int
    BY EncodingAssumption DEF NoSnap, NoRows, Key
  <1>5. DayInv'
    BY <1>0, <1>1, <1>2, <1>4 DEF LedgerInv, DayInv
  <1>6. \A d \in Day, f \in DayFigures : spent'[d][f] = OwedOn(d, f)' /\ spent[d][f] = OwedOn(d, f)
    BY DEF OwedOn, DayFigures, Legs
  <1>7. CASE w \in Callers
    <2>1. w # Console /\ \A v \in Callers : v = w
      BY <1>0, <1>7 DEF DurableSetting, SingleReporter
    <2>2. op[w] = "load" \/ up = "running"
      BY <1>1, <1>7 DEF LedgerInv, LoadInv
    <2>3. up # "down" /\ Idle(Console) /\ left[Console] = {}
      BY <1>1, <1>7 DEF AgreementInv, Idle
    <2>4. up' = "running"
      BY <1>1, <2>2
    <2>5. HistoryInv'
      <3>1. due[w].day <= today /\ due[w].use \in Nat /\ due[w].day \in Day
        BY <1>7 DEF LedgerInv, ClaimInv, SoundInv, TypeOK, Due
      <3>2. ASSUME NEW d \in Day, d > today, NEW f \in DayFigures PROVE spent'[d][f] = 0
        <4>1. f \in Allowances /\ Claim(w, d, f) = 0
          BY <1>0, <3>1, <3>2 DEF Claim, DayFigures, Allowances, Legs, Day
        <4>2. spent[d][f] = 0
          BY <3>2 DEF LedgerInv, HistoryInv
        <4>3. QED BY <1>3, <1>6, <4>1, <4>2
      <3>3. ASSUME NEW d \in Day PROVE spent'[d]["rejects"] >= 0
        <4>1. "rejects" \in DayFigures /\ "rejects" \in Allowances
          BY DEF Allowances, DayFigures
        <4>2. Claim(w, d, "rejects") \in Nat /\ spent[d]["rejects"] >= 0
                /\ spent[d]["rejects"] \in Int
          BY <1>0, <4>1, OwedType DEF LedgerInv, HistoryInv, SoundInv, TypeOK
        <4>3. spent'[d]["rejects"] = spent[d]["rejects"] + Claim(w, d, "rejects")
          BY <1>3, <1>6, <4>1
        <4>4. QED BY <4>2, <4>3
      <3>4. QED BY <1>1, <3>2, <3>3 DEF HistoryInv
    <2>6. ConsoleInv'
      BY <1>0, <1>1, <1>2, <1>3, <2>1, <2>3 DEF LedgerInv, ConsoleInv, Idle
    <2>7. \A d, f : Claim(w, d, f)' = 0
      BY <1>3, <1>7 DEF Claim, NothingDue
    <2>8. ASSUME NEW d \in Day, NEW f \in Allowances
          PROVE  OwedOn(d, f)' = OwedOn(d, f) + Claim(w, d, f)
                 /\ OwedOn(d, f)' + Claim(w, d, f)' = OwedOn(d, f) + Claim(w, d, f)
      <3>1. OwedOn(d, f) \in Int /\ Claim(w, d, f) \in Nat
        BY OwedType
      <3>2. QED BY <1>3, <2>7, <3>1
    <2>9. MemoryBacks(w) /\ StoreBacksClaim(w)
      BY <1>1, <1>7, <2>2 DEF LedgerInv
    <2>10. MemoryBacks(w)'
      BY <1>1, <2>8, <2>9 DEF MemoryBacks
    <2>11. StoreBacks' /\ StoreBacksClaim(w)'
      BY <1>1, <2>8, <2>9 DEF StoreBacks, StoreBacksClaim
    <2>12. ClaimInv(w)' /\ LoadInv(w)'
      BY <1>0, <1>1, <1>2, <1>3, <2>4 DEF ClaimInv, LoadInv, NothingDue, Day
    <2>13. QED BY <1>5, <2>1, <2>4, <2>5, <2>6, <2>10, <2>11, <2>12 DEF LedgerInv
  <1>8. CASE w = Console
    <2>1. up = "down" /\ due[w] = NothingDue /\ op[w] = "reset_daily_loss_limit"
      BY <1>1, <1>8 DEF AgreementInv, Idle, LedgerInv, ConsoleInv
    <2>2. \A v \in Writer : due'[v] = due[v]
      BY <1>3, <2>1
    <2>3. up' = up /\ \A v \in Callers : op'[v] = op[v] /\ snap'[v] = snap[v]
      BY <1>0, <1>1, <1>2, <1>8, <2>1
    <2>4. \A d \in Day, f \in Allowances : OwedOn(d, f)' = OwedOn(d, f)
      <3> SUFFICES ASSUME NEW d \in Day, NEW f \in Allowances
                   PROVE  OwedOn(d, f)' = OwedOn(d, f)
        OBVIOUS
      <3>1. Claim(w, d, f) = 0
        BY <2>1, NoClaim
      <3>2. QED BY <1>3, <3>1, OwedType
    <2>5. \A v \in Callers : \A d, f : Claim(v, d, f)' = Claim(v, d, f)
      BY <1>0, <2>2 DEF Claim
    <2>6. \A d \in Day, f \in DayFigures : spent'[d][f] = spent[d][f]
      BY <1>6, <2>4 DEF Allowances
    <2>7. HistoryInv'
      BY <1>1, <2>6 DEF LedgerInv, HistoryInv, DayFigures
    <2>8. ConsoleInv'
      <3>1. due'[Console] = NothingDue /\ Idle(Console)' /\ left'[Console] = {}
        BY <1>0, <1>1, <1>2, <1>3, <1>8 DEF Idle
      <3>2. QED BY <3>1 DEF ConsoleInv
    <2>9. StoreBacks' /\ \A v \in Callers : (left'[v] = {} => StoreBacksClaim(v)')
      BY <1>1, <2>4, <2>5 DEF LedgerInv, StoreBacks, StoreBacksClaim
    <2>10. \A v \in Callers : (up' = "running" \/ op'[v] = "load" => MemoryBacks(v)')
      BY <1>1, <2>3, <2>4, <2>5 DEF LedgerInv, MemoryBacks
    <2>11. \A v \in Callers : ClaimInv(v)' /\ LoadInv(v)'
      BY <1>0, <1>1, <2>2, <2>3 DEF LedgerInv, ClaimInv, LoadInv, Agree
    <2>12. QED BY <1>1, <1>5, <2>3, <2>7, <2>8, <2>9, <2>10, <2>11 DEF LedgerInv
  <1>9. QED BY <1>7, <1>8 DEF Writer

\* A write that raises: what the call would have been owed is never owed.
LEMMA WriteFailsLedger ==
    ASSUME DurableSetting, SoundInv, SoundInv', AgreementInv, LedgerInv,
           NEW w \in Writer, WriteFails(w)
    PROVE  LedgerInv'
  <1>0. /\ Console \in Writer /\ Console \notin Callers /\ Callers \subseteq Writer
        /\ today \in Day
    BY CountersAssumption DEF Writer, SoundInv, TypeOK
  <1>1. /\ left[w] # {} /\ ~LoadRetried
        /\ up' = IF op[w] = "load" THEN "failed" ELSE up
        /\ UNCHANGED <<today, mem, store, spent, fills>>
        /\ unsaved' = (unsaved \/ w \in Callers)
    BY DEF WriteFails, DurableSetting, SingleReporter
  <1>2. /\ op'[w] = "idle" /\ snap'[w] = NoSnap /\ left'[w] = {} /\ due'[w] = NothingDue
        /\ \A v \in Writer : v # w => /\ op'[v] = op[v] /\ snap'[v] = snap[v]
                                      /\ left'[v] = left[v] /\ due'[v] = due[v]
    BY DEF WriteFails, SoundInv, TypeOK
  <1>3. NoSnap["trading_day"] \notin Int
    BY EncodingAssumption DEF NoSnap, NoRows, Key
  <1>4. DayInv' /\ HistoryInv'
    BY <1>0, <1>1, <1>2, <1>3 DEF LedgerInv, DayInv, HistoryInv
  <1>5. \A d, f : OwedOn(d, f)' = OwedOn(d, f)
    BY <1>1 DEF OwedOn
  <1>6. StoreBacks'
    BY <1>1, <1>5 DEF LedgerInv, StoreBacks
  <1>7. CASE w \in Callers
    <2>1. w # Console /\ \A v \in Callers : v = w
      BY <1>0, <1>7 DEF DurableSetting, SingleReporter
    <2>2. op[w] \notin {"idle", "load_read"} /\ (op[w] = "load" \/ up = "running")
      BY <1>1, <1>7 DEF AgreementInv, LedgerInv, LoadInv, Idle
    <2>3. Idle(Console) /\ left[Console] = {} /\ up' \in {"running", "failed"}
      BY <1>1, <1>7, <2>2 DEF AgreementInv, Idle
    <2>4. ConsoleInv'
      BY <1>0, <1>1, <1>2, <2>1, <2>3 DEF LedgerInv, ConsoleInv, Idle
    <2>5. ASSUME NEW d \in Day, NEW f \in Allowances
          PROVE  /\ OwedOn(d, f)' + Claim(w, d, f)' <= OwedOn(d, f) + Claim(w, d, f)
                 /\ OwedOn(d, f)' + Claim(w, d, f)' = OwedOn(d, f)
                 /\ OwedOn(d, f) \in Int /\ Claim(w, d, f) \in Nat
      <3>1. OwedOn(d, f) \in Int /\ Claim(w, d, f) \in Nat
        BY OwedType
      <3>2. Claim(w, d, f)' = 0
        BY <1>2 DEF Claim, NothingDue
      <3>3. QED BY <1>5, <3>1, <3>2
    <2>6. MemoryBacks(w)'
      <3> SUFFICES ASSUME NEW d \in Day, NEW f \in Allowances, d >= mem["trading_day"]
                   PROVE  OwedOn(d, f)' + Claim(w, d, f)' <= Consumed(Rolled(mem, d), f)
        BY <1>1 DEF MemoryBacks
      <3>1. OwedOn(d, f) + Claim(w, d, f) <= Consumed(Rolled(mem, d), f)
        BY <1>7, <2>2 DEF LedgerInv, MemoryBacks
      <3>2. Consumed(Rolled(mem, d), f) \in Int
        BY RolledSound, ConsumedType DEF SoundInv
      <3>3. OwedOn(d, f)' + Claim(w, d, f)' \in Int
        BY <2>5
      <3>4. QED BY <2>5, <3>1, <3>2, <3>3
    <2>7. StoreBacksClaim(w)'
      BY <1>1, <2>5 DEF LedgerInv, StoreBacks, StoreBacksClaim
    <2>8. ClaimInv(w)' /\ LoadInv(w)'
      BY <1>0, <1>1, <1>2, <2>3 DEF ClaimInv, LoadInv, NothingDue, Day
    <2>9. QED BY <1>4, <1>6, <2>1, <2>3, <2>4, <2>6, <2>7, <2>8 DEF LedgerInv
  <1>8. CASE w = Console
    <2>1. up = "down" /\ op[w] = "reset_daily_loss_limit" /\ due[w] = NothingDue
      BY <1>1, <1>8 DEF AgreementInv, Idle, LedgerInv, ConsoleInv
    <2>2. /\ up' = up /\ unsaved' = unsaved
          /\ \A v \in Callers : /\ op'[v] = op[v] /\ snap'[v] = snap[v]
                                /\ left'[v] = left[v] /\ due'[v] = due[v]
      BY <1>0, <1>1, <1>2, <1>8, <2>1 DEF SoundInv, TypeOK
    <2>3. \A v \in Callers : \A d, f : Claim(v, d, f)' = Claim(v, d, f)
      BY <2>2 DEF Claim
    <2>4. ConsoleInv'
      BY <1>0, <1>1, <1>2, <1>8 DEF LedgerInv, ConsoleInv, Idle
    <2>5. \A v \in Callers : (left'[v] = {} => StoreBacksClaim(v)')
      BY <1>1, <1>5, <2>2, <2>3 DEF LedgerInv, StoreBacksClaim
    <2>6. \A v \in Callers : (up' = "running" \/ op'[v] = "load" => MemoryBacks(v)')
      BY <1>1, <1>5, <2>2, <2>3 DEF LedgerInv, MemoryBacks
    <2>7. \A v \in Callers : ClaimInv(v)' /\ LoadInv(v)'
      BY <1>0, <1>1, <2>2 DEF LedgerInv, ClaimInv, LoadInv, Agree
    <2>8. QED BY <1>1, <1>4, <1>6, <2>2, <2>4, <2>5, <2>6, <2>7 DEF LedgerInv
  <1>9. QED BY <1>7, <1>8 DEF Writer

\* A query of the running engine rolls its counters, and a roll forgets
\* nothing of the day it rolls to.
LEMMA ObserveLedger ==
    ASSUME DurableSetting, SoundInv, AgreementInv, LedgerInv, Observe
    PROVE  LedgerInv'
  <1>0. today \in Day /\ Sound(mem) /\ mem["trading_day"] <= today
    BY DEF SoundInv, TypeOK, AgreementInv
  <1>1. /\ up = "running" /\ mem' = Rolled(mem, today)
        /\ UNCHANGED <<today, up, store, op, snap, left, due, spent, fills, unsaved>>
    BY DEF Observe, writers, history
  <1>2. \A w, d, f : OwedOn(d, f)' = OwedOn(d, f) /\ Claim(w, d, f)' = Claim(w, d, f)
    BY <1>1 DEF OwedOn, Claim
  <1>3. HistoryInv' /\ ConsoleInv' /\ DayInv'
    BY <1>1 DEF LedgerInv, HistoryInv, ConsoleInv, DayInv, Idle
  <1>4. StoreBacks'
    BY <1>1, <1>2 DEF LedgerInv, StoreBacks
  <1>5. ASSUME NEW w \in Callers
        PROVE  /\ ClaimInv(w)' /\ LoadInv(w)' /\ MemoryBacks(w)'
               /\ left'[w] = {} => StoreBacksClaim(w)'
    <2>1. op[w] \notin {"load_read", "load"}
      BY <1>1 DEF AgreementInv
    <2>2. ClaimInv(w)' /\ LoadInv(w)'
      BY <1>1, <2>1 DEF LedgerInv, ClaimInv, LoadInv
    <2>3. MemoryBacks(w)'
      <3> SUFFICES ASSUME NEW d \in Day, NEW f \in Allowances, d >= today
                   PROVE  OwedOn(d, f) + Claim(w, d, f) <= Consumed(Rolled(Rolled(mem, today), d), f)
        BY <1>0, <1>1, <1>2, RolledSound DEF MemoryBacks
      <3>1. d >= mem["trading_day"]
        BY <1>0 DEF Day, Sound
      <3>2. Rolled(Rolled(mem, today), d) = Rolled(mem, d)
        BY <1>0, RolledTwice
      <3>3. QED BY <1>1, <3>1, <3>2 DEF LedgerInv, MemoryBacks
    <2>4. left'[w] = {} => StoreBacksClaim(w)'
      BY <1>1, <1>2 DEF LedgerInv, StoreBacksClaim
    <2>5. QED BY <2>2, <2>3, <2>4
  <1>6. QED BY <1>1, <1>3, <1>4, <1>5 DEF LedgerInv

\* With no process, what the store backs is what it backs for every caller.
LEMMA StoreBacksAll ==
    ASSUME SoundInv, StoreBacks, NEW w \in Callers, due[w] = NothingDue
    PROVE  StoreBacksClaim(w)
  <1> SUFFICES ASSUME NEW d \in Day, NEW f \in Allowances, d >= today
               PROVE  OwedOn(d, f) + Claim(w, d, f) <= Consumed(Restarted(store, d), f)
    BY DEF StoreBacksClaim
  <1>1. OwedOn(d, f) + Claim(w, d, f) = OwedOn(d, f)
    BY NoClaim, OwedType
  <1>2. QED BY <1>1 DEF StoreBacks

\* The start, the crash and the operator's call leave the store alone.
LEMMA LifeLedger ==
    ASSUME DurableSetting, SoundInv, SoundInv', AgreementInv, AgreementInv', LedgerInv,
           Start \/ Crash \/ ResetDailyLossLimit
    PROVE  LedgerInv'
  <1>0. /\ Console \in Writer /\ Console \notin Callers /\ Callers \subseteq Writer
        /\ today \in Day
    BY CountersAssumption DEF Writer, SoundInv, TypeOK
  <1>1. CASE Start
    <2>1. /\ up = "down" /\ up' = "constructed" /\ mem' = NewMem(today) /\ Idle(Console)
          /\ UNCHANGED <<today, store, op, snap, left, due, spent, fills, unsaved>>
      BY <1>1 DEF Start, writers, history
    <2>2. \A w \in Callers : op[w] = "idle" /\ left[w] = {}
      BY <2>1 DEF AgreementInv, Idle
    <2>3. \A w, d, f : OwedOn(d, f)' = OwedOn(d, f) /\ Claim(w, d, f)' = Claim(w, d, f)
      BY <2>1 DEF OwedOn, Claim
    <2>4. HistoryInv' /\ ConsoleInv' /\ DayInv' /\ StoreBacks'
      BY <2>1, <2>3 DEF LedgerInv, HistoryInv, ConsoleInv, DayInv, Idle, StoreBacks
    <2>5. mem'["trading_day"] = today
      BY <2>1 DEF NewMem, Key
    <2>6. \A w \in Callers : ClaimInv(w)' /\ LoadInv(w)'
      BY <2>1, <2>2, <2>5 DEF LedgerInv, ClaimInv, LoadInv
    <2>7. \A w \in Callers : StoreBacksClaim(w)'
      BY <2>1, <2>2, <2>3 DEF LedgerInv, StoreBacksClaim
    <2>8. QED BY <2>1, <2>2, <2>4, <2>6, <2>7 DEF LedgerInv
  <1>2. CASE Crash
    <2>1. /\ up' = "down" /\ UNCHANGED <<today, store, spent, fills>> /\ unsaved' = FALSE
          /\ \A w \in Callers : op'[w] = "idle" /\ snap'[w] = NoSnap /\ left'[w] = {}
          /\ \A w \in Writer : due'[w] = NothingDue
          /\ op'[Console] = op[Console] /\ snap'[Console] = snap[Console]
          /\ left'[Console] = left[Console]
      BY <1>0, <1>2 DEF Crash
    <2>2. \A d, f : OwedOn(d, f)' = OwedOn(d, f)
      BY <2>1 DEF OwedOn
    <2>3. NoSnap["trading_day"] \notin Int
      BY EncodingAssumption DEF NoSnap, NoRows, Key
    <2>4. HistoryInv' /\ ConsoleInv' /\ DayInv' /\ StoreBacks'
      BY <1>0, <2>1, <2>2, <2>3
      DEF LedgerInv, HistoryInv, ConsoleInv, DayInv, Idle, StoreBacks
    <2>5. \A w \in Callers : ClaimInv(w)' /\ LoadInv(w)'
      BY <1>0, <2>1 DEF ClaimInv, LoadInv, NothingDue, Day
    <2>6. ASSUME NEW w \in Callers PROVE StoreBacksClaim(w)'
      <3> SUFFICES ASSUME NEW d \in Day, NEW f \in Allowances, d >= today
                   PROVE  OwedOn(d, f)' + Claim(w, d, f)' <= Consumed(Restarted(store, d), f)
        BY <2>1 DEF StoreBacksClaim
      <3>1. Claim(w, d, f)' = 0
        BY <1>0, <2>1 DEF Claim, NothingDue
      <3>2. OwedOn(d, f)' + Claim(w, d, f)' = OwedOn(d, f)
        BY <2>2, <3>1, OwedType
      <3>3. QED BY <3>2 DEF LedgerInv, StoreBacks
    <2>7. QED BY <2>1, <2>4, <2>5, <2>6 DEF LedgerInv
  <1>3. CASE ResetDailyLossLimit
    <2>1. /\ up = "down" /\ Forgiven(Legs) /\ UNCHANGED <<today, up, mem, store, fills, unsaved>>
          /\ op' = [op EXCEPT ![Console] = "reset_daily_loss_limit"]
          /\ snap' = [snap EXCEPT ![Console] = [k \in Key |-> EncodeFloat(0)]]
          /\ left' = [left EXCEPT ![Console] = ResetKeys]
      BY <1>3 DEF ResetDailyLossLimit, engine
    <2>2. /\ \A w \in Callers : op'[w] = op[w] /\ snap'[w] = snap[w] /\ left'[w] = left[w]
          /\ op'[Console] = "reset_daily_loss_limit" /\ left'[Console] = ResetKeys
          /\ snap'[Console] = [k \in Key |-> EncodeFloat(0)]
      BY <1>0, <2>1 DEF SoundInv, TypeOK
    <2>3. \A w \in Callers : op[w] = "idle" /\ left[w] = {} /\ due[w] = NothingDue
      BY <2>1 DEF AgreementInv, Idle, LedgerInv, ClaimInv
    <2>4. \A w \in Writer : due'[w] = NothingDue
      BY <2>1, <2>3 DEF Forgiven, Writer, LedgerInv, ConsoleInv
    <2>5. \A d \in Day, f \in DayFigures :
              spent'[d][f] = IF f \in Legs THEN Smaller(0, spent[d][f]) ELSE spent[d][f]
      BY <2>1 DEF Forgiven
    <2>6. \A d \in Day, f \in DayFigures : spent[d][f] \in Int
      BY DEF SoundInv, TypeOK
    <2>7. \A d \in Day, leg \in Legs : spent'[d][leg] <= 0
      BY <2>5, <2>6 DEF Smaller, DayFigures
    <2>8. HistoryInv'
      <3>1. "rejects" \in DayFigures /\ "rejects" \notin Legs
        BY DEF DayFigures, Legs
      <3>2. QED BY <2>1, <2>5, <3>1 DEF LedgerInv, HistoryInv, Smaller
    <2>9. \A k \in ResetKeys : snap'[Console][k] = 0
      <3>1. EncodeFloat(0) = 0
        BY DEF EncodeFloat
      <3>2. QED BY <2>2, <3>1 DEF ResetKeys, Legs, Peaks, Key
    <2>10. ConsoleInv'
      BY <1>0, <2>2, <2>4, <2>7, <2>9 DEF ConsoleInv
    <2>11. DayInv'
      BY <2>1, <2>2 DEF LedgerInv, DayInv
    <2>12. \A d \in Day, f \in Allowances : OwedOn(d, f)' <= OwedOn(d, f)
      BY <2>1, <2>5, <2>6, OwedType DEF OwedOn, Allowances, Smaller
    <2>13. StoreBacks'
      <3> SUFFICES ASSUME NEW d \in Day, NEW f \in Allowances, d >= today
                   PROVE  OwedOn(d, f)' <= Consumed(Restarted(store, d), f)
        BY <2>1 DEF StoreBacks
      <3>1. OwedOn(d, f)' <= OwedOn(d, f) /\ OwedOn(d, f) <= Consumed(Restarted(store, d), f)
        BY <2>12 DEF LedgerInv, StoreBacks
      <3>2. Consumed(Restarted(store, d), f) \in Int
        BY RestartedSound, ConsumedType DEF SoundInv, TypeOK
      <3>3. OwedOn(d, f) \in Int /\ OwedOn(d, f)' \in Int
        BY OwedType DEF SoundInv, TypeOK, OwedOn, Allowances
      <3>4. QED BY <3>1, <3>2, <3>3
    <2>14. \A w \in Callers : ClaimInv(w)' /\ LoadInv(w)'
      BY <1>0, <2>1, <2>2, <2>3, <2>4 DEF ClaimInv, LoadInv, NothingDue, Day
    <2>15. ASSUME NEW w \in Callers PROVE StoreBacksClaim(w)'
      <3> SUFFICES ASSUME NEW d \in Day, NEW f \in Allowances, d >= today
                   PROVE  OwedOn(d, f)' + Claim(w, d, f)' <= Consumed(Restarted(store, d), f)
        BY <2>1 DEF StoreBacksClaim
      <3>1. Claim(w, d, f)' = 0
        BY <1>0, <2>4 DEF Claim, NothingDue
      <3>2. OwedOn(d, f)' \in Int
        BY DEF SoundInv, TypeOK, OwedOn, Allowances
      <3>3. QED BY <2>1, <2>13, <3>1, <3>2 DEF StoreBacks
    <2>16. QED BY <2>1, <2>2, <2>3, <2>8, <2>10, <2>11, <2>13, <2>14, <2>15 DEF LedgerInv
  <1>4. QED BY <1>1, <1>2, <1>3

\* Midnight, and steps in which nothing happens.
LEMMA DayLedger ==
    ASSUME DurableSetting, SoundInv, AgreementInv, LedgerInv, NewDay \/ UNCHANGED vars
    PROVE  LedgerInv'
  <1>1. /\ today \in Int /\ today' \in Int /\ today' >= today
        /\ UNCHANGED <<up, mem, store, op, snap, left, due, spent, fills, unsaved>>
    BY DEF NewDay, vars, engine, writers, history, SoundInv, TypeOK, Day
  <1>2. \A w, d, f : OwedOn(d, f)' = OwedOn(d, f) /\ Claim(w, d, f)' = Claim(w, d, f)
    BY <1>1 DEF OwedOn, Claim
  <1>3. \A d \in Day : d >= today' => d >= today
    BY <1>1 DEF Day
  <1>4. HistoryInv' /\ ConsoleInv' /\ DayInv'
    <2>1. HistoryInv'
      BY <1>1 DEF LedgerInv, HistoryInv, Day
    <2>2. ConsoleInv'
      BY <1>1 DEF LedgerInv, ConsoleInv, Idle
    <2>3. DayInv'
      BY <1>1 DEF LedgerInv, DayInv
    <2>4. QED BY <2>1, <2>2, <2>3
  <1>5. StoreBacks' /\ \A w \in Callers : (left'[w] = {} => StoreBacksClaim(w)')
    BY <1>1, <1>2, <1>3 DEF LedgerInv, StoreBacks, StoreBacksClaim
  <1>6. \A w \in Callers : (up' = "running" \/ op'[w] = "load" => MemoryBacks(w)')
    BY <1>1, <1>2 DEF LedgerInv, MemoryBacks
  <1>7. \A w \in Callers : ClaimInv(w)' /\ LoadInv(w)'
    <2> SUFFICES ASSUME NEW w \in Callers PROVE ClaimInv(w)' /\ LoadInv(w)'
      OBVIOUS
    <2>1. w \in Writer
      BY DEF Writer
    <2>2. due[w].day \in Int
      BY <2>1 DEF SoundInv, TypeOK, Due, Day
    <2>3. ClaimInv(w)'
      BY <1>1, <2>2 DEF LedgerInv, ClaimInv
    <2>4. LoadInv(w)'
      BY <1>1 DEF LedgerInv, LoadInv, Agree
    <2>5. QED BY <2>3, <2>4
  <1>8. QED BY <1>1, <1>4, <1>5, <1>6, <1>7 DEF LedgerInv

\* Every step keeps the ledger.
LEMMA LedgerNext ==
    ASSUME DurableSetting, SoundInv, SoundInv', AgreementInv, AgreementInv', LedgerInv,
           [Next]_vars
    PROVE  LedgerInv'
  <1>1. ASSUME NEW w \in Callers, CallerNext(w) PROVE LedgerInv'
    BY <1>1, CallerLedger
  <1>2. ASSUME NEW w \in Writer, WriterNext(w) PROVE LedgerInv'
    BY <1>2, StoreWriteLedger, ReturnLedger, WriteFailsLedger DEF WriterNext
  <1>3. CASE EnvironmentNext
    <2>1. ~DamageKey
      BY DEF DamageKey, DurableSetting, SoundInv, TypeOK
    <2>2. ~ClockBack
      BY DEF ClockBack, DurableSetting, SingleReporter
    <2>3. QED BY <1>3, <2>1, <2>2, ObserveLedger, LifeLedger, DayLedger DEF EnvironmentNext
  <1>4. CASE UNCHANGED vars
    BY <1>4, DayLedger
  <1>5. QED BY <1>1, <1>2, <1>3, <1>4 DEF Next

\* The three invariants together hold of every behaviour of the setting.
LEMMA LedgerHolds ==
    ASSUME DurableSetting PROVE Spec => [](SoundInv /\ AgreementInv /\ LedgerInv)
  <1>1. SingleReporter
    BY DEF DurableSetting
  <1>2. Init => SoundInv /\ AgreementInv /\ LedgerInv
    BY SoundInit, AgreementInit, LedgerInit
  <1>3. SoundInv /\ AgreementInv /\ LedgerInv /\ [Next]_vars =>
            SoundInv' /\ AgreementInv' /\ LedgerInv'
    BY <1>1, SoundNext, AgreementNext, LedgerNext
  <1>4. QED BY <1>2, <1>3, PTL DEF Spec

-------------------------------------------------------------------------------
(* What callers were told is never forgotten *)

\* The counters of a running engine account for what its callers were told,
\* figure by figure.
LEMMA RunningBacks ==
    ASSUME DurableSetting, SoundInv, AgreementInv, LedgerInv, up = "running",
           NEW f \in Allowances
    PROVE  OwedOn(mem["trading_day"], f) <= Consumed(mem, f)
  <1> DEFINE d == mem["trading_day"]
  <1>1. PICK w \in Callers : TRUE
    BY DEF DurableSetting, SingleReporter
  <1>2. w \in Writer /\ d \in Day /\ d >= d /\ Rolled(mem, d) = mem
    BY <1>1 DEF Writer, SoundInv, TypeOK, Rolled, Day
  <1>3. OwedOn(d, f) + Claim(w, d, f) <= Consumed(mem, f)
    BY <1>1, <1>2 DEF LedgerInv, MemoryBacks
  <1>4. OwedOn(d, f) \in Int /\ Claim(w, d, f) \in Nat /\ Consumed(mem, f) \in Int
    BY <1>2, OwedType, ConsumedType DEF SoundInv
  <1>5. QED BY <1>3, <1>4

\* No allowance of the day is ever handed out twice: whatever crashes, write
\* failures and operator resets happen in between, a running engine counts at
\* least every loss, notional and rejection it acknowledged, less what was
\* handed back.
THEOREM LedgerKept == ASSUME DurableSetting PROVE Spec => []DayLedgerKept
  <1>1. SoundInv /\ AgreementInv /\ LedgerInv => DayLedgerKept
    <2> SUFFICES ASSUME SoundInv, AgreementInv, LedgerInv, up = "running",
                        NEW figure \in DayFigures
                 PROVE  Consumed(mem, figure) >= spent[mem["trading_day"]][figure]
      BY DEF DayLedgerKept
    <2>1. figure \in Allowances /\ figure # "executions"
      BY DEF Allowances, DayFigures, Legs
    <2>2. spent[mem["trading_day"]][figure] <= Consumed(mem, figure)
      BY <2>1, RunningBacks DEF OwedOn
    <2>3. QED BY <2>2
  <1>2. QED BY <1>1, LedgerHolds, PTL

-------------------------------------------------------------------------------
(* EngineCounters implements AllowanceLedger *)

\* The abstract figures, read off the state.
LEMMA FiguresNow ==
    ASSUME SoundInv
    PROVE  /\ CountedNow \in [Allowances -> Int] /\ OwedNow \in [Allowances -> Int]
           /\ \A f \in Allowances : OwedNow[f] = OwedOn(today, f)
           /\ up = "running" =>
                  \A f \in Allowances : CountedNow[f] = Consumed(Rolled(mem, today), f)
           /\ up # "running" =>
                  \A f \in Allowances : CountedNow[f] = Consumed(Restarted(store, today), f)
  <1>1. today \in Day /\ Sound(InService)
    BY RolledSound, RestartedSound DEF SoundInv, TypeOK, InService
  <1>2. CountedNow \in [Allowances -> Int]
    BY <1>1, ConsumedType DEF CountedNow
  <1>3. \A f \in Allowances : OwedNow[f] = OwedOn(today, f)
    BY DEF OwedNow, OwedOn
  <1>4. OwedNow \in [Allowances -> Int]
    BY <1>1, <1>3, OwedType DEF OwedNow
  <1>5. QED BY <1>2, <1>3, <1>4 DEF CountedNow, InService

\* A step that changes neither the counters a decision would see nor what is
\* owed is no step of the ledger.
LEMMA Unseen ==
    ASSUME (up = "running") <=> (up' = "running"), InService' = InService,
           UNCHANGED <<today, spent, fills>>
    PROVE  UNCHANGED Ledger!ledger
  <1>1. CountedNow' = CountedNow
    BY DEF CountedNow
  <1>2. OwedNow' = OwedNow
    BY DEF OwedNow
  <1>3. (up = "running")' = (up = "running")
    OBVIOUS
  <1>4. QED BY <1>1, <1>2, <1>3 DEF Ledger!ledger

\* The initial states are initial states of the ledger.
LEMMA LedgerStarts == Init => Ledger!Init
  <1> SUFFICES ASSUME Init PROVE Ledger!Init
    OBVIOUS
  <1>1. SoundInv /\ up = "down" /\ today = 1 /\ store = NoSnap /\ fills = 0
    BY SoundInit DEF Init
  <1>2. \A f \in DayFigures : spent[1][f] = 0
    BY CountersAssumption DEF Init, Day
  <1>3. store["trading_day"] # 1 /\ AsCount(store["executions"]) = 0
    BY <1>1, EncodingAssumption DEF NoSnap, NoRows, Key, AsCount
  <1>4. \A f \in Allowances : Consumed(Restarted(store, 1), f) = 0
    BY <1>3, ExecutionsRestarted, RestartedOtherDay DEF Allowances
  <1>5. CountedNow = [f \in Allowances |-> 0]
    BY <1>1, <1>4 DEF CountedNow, InService
  <1>6. OwedNow = [f \in Allowances |-> 0]
    BY <1>1, <1>2 DEF OwedNow, Allowances
  <1>7. QED BY <1>1, <1>5, <1>6 DEF Ledger!Init

\* The counters a call of a running engine leaves are those in service.
LEMMA CallFigures ==
    ASSUME SoundInv, SoundInv', NEW w, Ready(w), NEW name, NEW n, n["trading_day"] = today,
           Persist(w, name, n), CallBegins
    PROVE  /\ up = "running" /\ up' = "running" /\ today' = today
           /\ \A f \in Allowances :
                  /\ CountedNow[f] = Consumed(Rolled(mem, today), f)
                  /\ CountedNow'[f] = Consumed(n, f)
                  /\ OwedNow[f] = OwedOn(today, f) /\ OwedNow'[f] = OwedOn(today, f)'
  <1>1. up = "running" /\ up' = "running" /\ today' = today /\ mem' = n
    BY DEF Ready, CallBegins, Persist
  <1>2. Rolled(n, today) = n
    BY DEF Rolled
  <1>3. \A f \in Allowances : CountedNow'[f] = Consumed(n, f)
    BY <1>1, <1>2 DEF CountedNow, InService
  <1>4. \A f \in Allowances : OwedNow'[f] = OwedOn(today, f)'
    BY DEF OwedNow, OwedOn
  <1>5. QED BY <1>1, <1>3, <1>4, FiguresNow

\* A call that consumes is a Consume, one that hands back a HandBack.
LEMMA AccountStep ==
    ASSUME SoundInv, SoundInv', NEW w \in Callers, Ready(w), NEW name,
           NEW n, Sound(n), n["trading_day"] = today, Persist(w, name, n), CallBegins,
           NEW figure \in Allowances, NEW use \in Int, Account(w, figure, use),
           \A f \in Allowances :
               Consumed(n, f) = Consumed(Rolled(mem, today), f) + (IF f = figure THEN use ELSE 0),
           figure = "executions" => use > 0,
           use > 0 => use \in CallAmounts, use < 0 => -use \in CallAmounts
    PROVE  [Ledger!Next]_(Ledger!ledger)
  <1>1. /\ up = "running" /\ up' = "running" /\ today' = today /\ today \in Day
        /\ CountedNow \in [Allowances -> Int] /\ OwedNow \in [Allowances -> Int]
        /\ \A f \in Allowances :
               CountedNow'[f] = CountedNow[f] + (IF f = figure THEN use ELSE 0)
    BY CallFigures, FiguresNow DEF SoundInv, TypeOK
  <1>2. CountedNow' = [f \in Allowances |-> CountedNow'[f]] /\ OwedNow' = [f \in Allowances |-> OwedNow'[f]]
    BY DEF CountedNow, OwedNow
  <1>3. (up = "running")' = (up = "running")
    BY <1>1
  <1>4. CASE use > 0
    <2>1. OwedNow' = OwedNow
      BY <1>1, <1>4 DEF Account, OwedNow
    <2>2. CountedNow' = [CountedNow EXCEPT ![figure] = @ + use]
      BY <1>1, <1>2
    <2>3. Ledger!Consume(figure, use)
      BY <1>1, <1>3, <2>1, <2>2 DEF Ledger!Consume
    <2>4. QED BY <1>4, <2>3 DEF Ledger!Next
  <1>5. CASE use < 0
    <2>1. figure \in DayFigures /\ figure # "executions" /\ -use \in Int
      BY <1>5 DEF Allowances
    <2>2. /\ fills' = fills /\ spent' = [spent EXCEPT ![today][figure] = @ + use]
      BY <1>5 DEF Account
    <2>3. \A f \in Allowances : OwedNow'[f] = IF f = figure THEN OwedNow[f] + use ELSE OwedNow[f]
      BY <1>1, <2>1, <2>2 DEF OwedNow, Allowances, SoundInv, TypeOK
    <2>4. \A x \in Int : x - (-use) = x + use
      BY <2>1
    <2>5. OwedNow' = [OwedNow EXCEPT ![figure] = @ - (-use)]
      BY <1>1, <1>2, <2>3, <2>4
    <2>6. CountedNow' = [CountedNow EXCEPT ![figure] = @ - (-use)]
      BY <1>1, <1>2, <2>4
    <2>7. Ledger!HandBack(figure, -use)
      BY <1>1, <1>3, <2>5, <2>6 DEF Ledger!HandBack
    <2>8. QED BY <1>5, <2>7 DEF Ledger!Next
  <1>6. CASE use = 0
    <2>1. CountedNow' = CountedNow
      BY <1>1, <1>2, <1>6
    <2>2. figure \in DayFigures /\ fills' = fills /\ spent' = [spent EXCEPT ![today][figure] = @ + use]
      BY <1>6 DEF Account, Allowances
    <2>3. \A f \in Allowances : OwedNow'[f] = OwedNow[f]
      BY <1>1, <1>6, <2>2 DEF OwedNow, Allowances, SoundInv, TypeOK
    <2>4. OwedNow' = OwedNow
      BY <1>1, <1>2, <2>3
    <2>5. QED BY <1>3, <2>1, <2>4 DEF Ledger!ledger
  <1>7. QED BY <1>4, <1>5, <1>6

\* A call that clears throttles is a Forgive.
LEMMA ForgiveStep ==
    ASSUME SoundInv, SoundInv', HistoryInv, NEW w \in Callers, Ready(w), NEW name,
           NEW n, Sound(n), n["trading_day"] = today, Persist(w, name, n), CallBegins,
           NEW figures \in {{"rejects"}, {"rejects", "executions"}}, Forgiven(figures),
           fills' = IF "executions" \in figures THEN 0 ELSE fills,
           \A f \in Allowances :
               Consumed(n, f) = IF f \in figures THEN 0 ELSE Consumed(Rolled(mem, today), f)
    PROVE  [Ledger!Next]_(Ledger!ledger)
  <1>1. /\ up = "running" /\ up' = "running" /\ today' = today /\ today \in Day
        /\ \A f \in Allowances : CountedNow'[f] = IF f \in figures THEN 0 ELSE CountedNow[f]
    BY CallFigures DEF SoundInv, TypeOK
  <1>2. \A f \in Allowances : OwedNow'[f] = IF f \in figures THEN 0 ELSE OwedNow[f]
    <2>1. \A f \in DayFigures :
              spent'[today][f] = IF f \in figures THEN Smaller(0, spent[today][f]) ELSE spent[today][f]
      BY <1>1 DEF Forgiven
    <2>2. spent[today]["rejects"] \in Int /\ spent[today]["rejects"] >= 0
      BY <1>1 DEF HistoryInv, SoundInv, TypeOK, DayFigures
    <2>3. Smaller(0, spent[today]["rejects"]) = 0
      BY <2>2 DEF Smaller
    <2>4. \A f \in DayFigures : f \in figures => f = "rejects"
      BY DEF DayFigures, Legs
    <2>5. QED BY <1>1, <2>1, <2>3, <2>4 DEF OwedNow, Allowances
  <1>3. CountedNow' = Ledger!Renewed(CountedNow, figures)
    BY <1>1 DEF Ledger!Renewed, CountedNow
  <1>4. OwedNow' = Ledger!Renewed(OwedNow, figures)
    BY <1>2 DEF Ledger!Renewed, OwedNow
  <1>5. Ledger!Forgive(figures)
    BY <1>1, <1>3, <1>4 DEF Ledger!Forgive
  <1>6. QED BY <1>5 DEF Ledger!Next

\* The calls of the trading process, step by step.
LEMMA CallerRefines ==
    ASSUME DurableSetting, SoundInv, SoundInv', AgreementInv, LedgerInv,
           NEW w \in Callers, CallerNext(w)
    PROVE  [Ledger!Next]_(Ledger!ledger)
  <1>0. today \in Day /\ Sound(mem) /\ HistoryInv
    BY DEF SoundInv, TypeOK, LedgerInv
  <1>1. ASSUME NEW trade \in Trades, RecordRealizedPnl(w, trade[1], trade[2])
        PROVE  [Ledger!Next]_(Ledger!ledger)
    <2> DEFINE leg == trade[1]
               amount == trade[2]
               n == PnlAdded(mem, today, leg, amount)
    <2>1. leg \in Legs /\ amount \in Int /\ -amount \in Int
      BY CountersAssumption
    <2>2. leg \in Allowances /\ leg # "executions"
      BY <2>1 DEF Allowances, DayFigures, Legs
    <2>3. -amount > 0 => -amount \in CallAmounts
      BY <2>1 DEF CallAmounts
    <2>4. -amount < 0 => -(-amount) \in CallAmounts
      <3>1. -(-amount) = amount
        BY <2>1
      <3>2. -amount < 0 => amount > 0
        BY <2>1
      <3>3. QED BY <3>1, <3>2 DEF CallAmounts
    <2>5. Sound(n) /\ n["trading_day"] = today
      BY <1>0, <2>1, CallsSound
    <2>6. \A f \in Allowances :
              Consumed(n, f) = Consumed(Rolled(mem, today), f) + (IF f = leg THEN -amount ELSE 0)
      BY <1>0, <2>1, PnlConsumed
    <2>7. /\ Ready(w) /\ Persist(w, "record_realized_pnl", n) /\ Account(w, leg, -amount)
          /\ CallBegins
      BY <1>1 DEF RecordRealizedPnl
    <2> HIDE DEF n, leg, amount
    <2>8. QED BY <2>1, <2>2, <2>3, <2>4, <2>5, <2>6, <2>7, AccountStep
  <1>2. ASSUME NEW amount \in Notionals, RecordNotional(w, amount)
        PROVE  [Ledger!Next]_(Ledger!ledger)
    <2> DEFINE n == NotionalAdded(mem, today, amount)
    <2>1. amount \in Int /\ -amount \in Int /\ "daily_notional" \in Allowances
      BY CountersAssumption DEF Allowances, DayFigures
    <2>2. (amount > 0 => amount \in CallAmounts) /\ (amount < 0 => -amount \in CallAmounts)
      BY <2>1 DEF CallAmounts
    <2>3. Sound(n) /\ n["trading_day"] = today
      BY <1>0, <2>1, CallsSound
    <2>4. \A f \in Allowances :
              Consumed(n, f) =
                  Consumed(Rolled(mem, today), f) + (IF f = "daily_notional" THEN amount ELSE 0)
      BY <1>0, <2>1, NotionalConsumed
    <2>5. /\ Ready(w) /\ Persist(w, "record_notional", n) /\ Account(w, "daily_notional", amount)
          /\ CallBegins
      BY <1>2 DEF RecordNotional
    <2> HIDE DEF n
    <2>6. QED BY <2>1, <2>2, <2>3, <2>4, <2>5, AccountStep
  <1>3. CASE RecordOrderRejected(w)
    <2> DEFINE n == RejectNoted(mem, today)
    <2>1. 1 \in CallAmounts /\ "rejects" \in Allowances
      BY DEF CallAmounts, Allowances, DayFigures
    <2>2. Sound(n) /\ n["trading_day"] = today
      BY <1>0, CallsSound
    <2>3. \A f \in Allowances :
              Consumed(n, f) =
                  Consumed(Rolled(mem, today), f) + (IF f = "rejects" THEN 1 ELSE 0)
      BY <1>0, RejectConsumed
    <2>4. /\ Ready(w) /\ Persist(w, "record_order_rejected", n) /\ Account(w, "rejects", 1)
          /\ CallBegins
      BY <1>3 DEF RecordOrderRejected
    <2> HIDE DEF n
    <2>5. QED BY <2>1, <2>2, <2>3, <2>4, AccountStep
  <1>4. CASE RecordOrderAccepted(w)
    <2> DEFINE n == AcceptanceNoted(mem, today)
    <2>1. Sound(n) /\ n["trading_day"] = today
      BY <1>0, CallsSound
    <2>2. \A f \in Allowances :
              Consumed(n, f) = IF f \in {"rejects"} THEN 0 ELSE Consumed(Rolled(mem, today), f)
      BY <1>0, AcceptanceConsumed
    <2>3. /\ Ready(w) /\ Persist(w, "record_order_accepted", n) /\ Forgiven({"rejects"})
          /\ CallBegins /\ fills' = IF "executions" \in {"rejects"} THEN 0 ELSE fills
      BY <1>4 DEF RecordOrderAccepted
    <2> HIDE DEF n
    <2>4. {"rejects"} \in {{"rejects"}, {"rejects", "executions"}}
      OBVIOUS
    <2>5. QED BY <1>0, <2>1, <2>2, <2>3, <2>4, ForgiveStep
  <1>5. CASE RecordExecution(w)
    <2> DEFINE n == ExecutionNoted(mem, today)
    <2>1. 1 \in CallAmounts /\ "executions" \in Allowances
      BY DEF CallAmounts, Allowances
    <2>2. Sound(n) /\ n["trading_day"] = today
      BY <1>0, CallsSound
    <2>3. \A f \in Allowances :
              Consumed(n, f) =
                  Consumed(Rolled(mem, today), f) + (IF f = "executions" THEN 1 ELSE 0)
      BY <1>0, ExecutionConsumed
    <2>4. /\ Ready(w) /\ Persist(w, "record_execution", n) /\ Account(w, "executions", 1)
          /\ CallBegins
      BY <1>5 DEF RecordExecution
    <2> HIDE DEF n
    <2>5. QED BY <2>1, <2>2, <2>3, <2>4, AccountStep
  <1>6. CASE Rearm(w)
    <2> DEFINE n == Rearmed(mem, today)
    <2>1. Sound(n) /\ n["trading_day"] = today
      BY <1>0, CallsSound
    <2>2. \A f \in Allowances :
              Consumed(n, f) =
                  IF f \in {"rejects", "executions"} THEN 0 ELSE Consumed(Rolled(mem, today), f)
      BY <1>0, RearmConsumed
    <2>3. /\ Ready(w) /\ Persist(w, "rearm", n) /\ Forgiven({"rejects", "executions"})
          /\ CallBegins /\ fills' = IF "executions" \in {"rejects", "executions"} THEN 0 ELSE fills
      BY <1>6 DEF Rearm
    <2> HIDE DEF n
    <2>4. {"rejects", "executions"} \in {{"rejects"}, {"rejects", "executions"}}
      OBVIOUS
    <2>5. QED BY <1>0, <2>1, <2>2, <2>3, <2>4, ForgiveStep
  <1>7. CASE LoadRead(w)
    <2>1. UNCHANGED <<today, up, mem, store, spent, fills>>
      BY <1>7 DEF LoadRead, engine, history
    <2>2. QED BY <2>1, Unseen DEF InService
  <1>8. CASE LoadApply(w)
    <2>1. up = "constructed" /\ UNCHANGED <<today, up, store, spent, fills>>
      BY <1>8 DEF LoadApply, AgreementInv, history
    <2>2. QED BY <2>1, Unseen DEF InService
  <1>9. QED
    BY <1>1, <1>2, <1>3, <1>4, <1>5, <1>6, <1>7, <1>8 DEF CallerNext

\* Before a load is written, and after, a restart would make of the store what
\* the load made of it.
LEMMA LoadingFigures ==
    ASSUME SoundInv, AgreementInv, LedgerInv, NEW w \in Callers, op[w] = "load"
    PROVE  /\ up = "constructed"
           /\ Restarted(store, today) = Rolled(mem, today)
           /\ left[w] # {} => Restarted(snap[w], today) = Rolled(mem, today)
  <1>1. today \in Day /\ today >= mem["trading_day"]
    BY DEF SoundInv, TypeOK, AgreementInv, Day
  <1>2. up = "constructed" /\ Agree(store, mem) /\ (left[w] # {} => Agree(snap[w], mem))
    BY DEF AgreementInv, LedgerInv, LoadInv
  <1>3. QED BY <1>1, <1>2 DEF Agree

\* A commit is seen by the ledger only if it is an operator's reset.
LEMMA StoreWriteRefines ==
    ASSUME DurableSetting, SoundInv, SoundInv', AgreementInv, LedgerInv,
           NEW w \in Writer, StoreWrite(w)
    PROVE  [Ledger!Next]_(Ledger!ledger)
  <1>1. PICK batch \in Batches(PersistOrder, left[w]) : StoreWrite(w)!2!(batch)
    BY DEF StoreWrite
  <1>2. batch = left[w]
    BY DEF Batches, DurableSetting, SingleReporter
  <1>3. /\ left[w] # {} /\ store' = Overwritten(store, left[w], snap[w])
        /\ UNCHANGED <<today, up, mem, spent, fills>>
    BY <1>1, <1>2 DEF StoreWrite, engine
  <1>4. CASE w \in Callers
    <2>1. op[w] = "load" \/ up = "running"
      BY <1>3, <1>4 DEF LedgerInv, LoadInv, AgreementInv, Idle
    <2>2. CASE up = "running"
      BY <1>3, <2>2, Unseen DEF InService
    <2>3. CASE op[w] = "load"
      <3>1. left[w] = Key
        BY <1>3, <1>4 DEF AgreementInv
      <3>2. store' = snap[w]
        <4>1. snap[w] \in [Key -> WireText] /\ store \in [Key -> WireText]
          BY DEF SoundInv, TypeOK, Texts
        <4>2. store' = [k \in Key |-> snap[w][k]]
          BY <1>3, <3>1, <4>1 DEF Overwritten
        <4>3. QED BY <4>1, <4>2
      <3>3. up = "constructed" /\ Restarted(snap[w], today) = Restarted(store, today)
        BY <1>3, <1>4, <2>3, LoadingFigures
      <3>4. InService' = InService
        BY <1>3, <3>2, <3>3 DEF InService
      <3>5. QED BY <1>3, <3>4, Unseen
    <2>4. QED BY <2>1, <2>2, <2>3
  <1>5. CASE w = Console
    <2>1. /\ up = "down" /\ ~Idle(Console) /\ left[w] = ResetKeys
          /\ \A k \in ResetKeys : snap[w][k] = 0
      BY <1>3, <1>5 DEF AgreementInv, LedgerInv, ConsoleInv
    <2>2. \A f \in Legs : OwedNow[f] <= 0
      BY <2>1 DEF LedgerInv, ConsoleInv, OwedNow, Allowances, DayFigures, Legs, SoundInv, TypeOK
    <2>3. \A f \in Allowances : CountedNow'[f] = IF f \in Legs THEN 0 ELSE CountedNow[f]
      BY <1>3, <2>1, ResetRestarted DEF CountedNow, InService, SoundInv, TypeOK
    <2>4. CountedNow' = Ledger!Renewed(CountedNow, Legs)
      BY <2>3 DEF Ledger!Renewed, CountedNow
    <2>5. OwedNow' = OwedNow
      BY <1>3 DEF OwedNow
    <2>6. Ledger!Reset
      BY <1>3, <2>1, <2>2, <2>4, <2>5 DEF Ledger!Reset
    <2>7. QED BY <2>6 DEF Ledger!Next
  <1>6. QED BY <1>4, <1>5 DEF Writer

\* The return of a report acknowledges it, that of a load resumes service.
LEMMA ReturnRefines ==
    ASSUME DurableSetting, SoundInv, SoundInv', AgreementInv, LedgerInv,
           NEW w \in Writer, Return(w)
    PROVE  [Ledger!Next]_(Ledger!ledger)
  <1>0. today \in Day /\ today \in Int /\ w \in Writer
    BY DEF SoundInv, TypeOK, Day
  <1>1. /\ op[w] \notin {"idle", "load_read"} /\ UNCHANGED <<today, mem, store>>
        /\ up' = IF op[w] = "load" THEN "running" ELSE up
    BY DEF Return
  <1>2. \A f \in Allowances : OwedNow'[f] = OwedNow[f] + Claim(w, today, f)
    <2>1. \A f \in Allowances :
              IF f = "executions" THEN OwedNow'[f] = fills' ELSE OwedNow'[f] = spent'[today][f]
      BY <1>1 DEF OwedNow
    <2>2. \A f \in Allowances : OwedNow[f] = OwedOn(today, f)
      BY DEF OwedNow, OwedOn
    <2>3. \A d \in Day, f \in Allowances :
              (IF f = "executions" THEN fills' ELSE spent'[d][f]) = OwedOn(d, f) + Claim(w, d, f)
      BY ReturnOwed DEF OwedOn
    <2>4. QED BY <1>0, <2>1, <2>2, <2>3
  <1>3. /\ OwedNow \in [Allowances -> Int] /\ CountedNow \in [Allowances -> Int]
        /\ OwedNow' = [f \in Allowances |-> OwedNow'[f]]
    BY FiguresNow DEF OwedNow
  <1>4. (\A f \in Allowances : Claim(w, today, f) = 0) => OwedNow' = OwedNow
    BY <1>2, <1>3
  <1>5. due[w] = NothingDue => OwedNow' = OwedNow
    BY <1>4, NoClaim
  <1>6. CASE w \in Callers /\ op[w] = "load"
    <2>1. up = "constructed" /\ up' = "running" /\ Restarted(store, today) = Rolled(mem, today)
      BY <1>1, <1>6, LoadingFigures
    <2>2. CountedNow' = CountedNow
      BY <1>1, <2>1 DEF CountedNow, InService
    <2>3. OwedNow' = OwedNow
      BY <1>5, <1>6 DEF LedgerInv, ClaimInv
    <2>4. Ledger!Resume
      BY <2>1, <2>2, <2>3 DEF Ledger!Resume
    <2>5. QED BY <2>4 DEF Ledger!Next
  <1>7. CASE w \in Callers /\ op[w] # "load"
    <2>1. up = "running" /\ up' = "running"
      BY <1>1, <1>7 DEF LedgerInv, LoadInv
    <2>2. CountedNow' = CountedNow
      BY <1>1, <2>1 DEF CountedNow, InService
    <2>3. (up = "running")' = (up = "running")
      BY <2>1
    <2>4. CASE \A f \in Allowances : Claim(w, today, f) = 0
      BY <1>4, <2>2, <2>3, <2>4 DEF Ledger!ledger
    <2>5. ASSUME NEW figure \in Allowances, Claim(w, today, figure) # 0
          PROVE  [Ledger!Next]_(Ledger!ledger)
      <3> DEFINE use == due[w].use
      <3>1. /\ \A f \in Allowances : Claim(w, today, f) = IF f = figure THEN use ELSE 0
            /\ use # 0
        BY <2>5 DEF Claim
      <3>2. use \in CallAmounts /\ use \in Nat
        BY <1>7, <3>1 DEF LedgerInv, ClaimInv, SoundInv, TypeOK, Due
      <3>3. OwedNow' = [OwedNow EXCEPT ![figure] = @ + use]
        BY <1>2, <1>3, <3>1, <3>2
      <3>4. OwedNow[figure] + use <= CountedNow[figure]
        <4>1. MemoryBacks(w) /\ today >= mem["trading_day"]
          BY <1>0, <1>7, <2>1 DEF LedgerInv, AgreementInv, SoundInv, TypeOK, Day
        <4>2. OwedOn(today, figure) + Claim(w, today, figure) <= Consumed(Rolled(mem, today), figure)
          BY <1>0, <4>1 DEF MemoryBacks
        <4>3. QED BY <2>1, <3>1, <4>2, FiguresNow
      <3>5. Ledger!Acknowledge(figure, use)
        BY <2>1, <2>2, <3>3, <3>4 DEF Ledger!Acknowledge
      <3>6. QED BY <3>2, <3>5 DEF Ledger!Next
    <2>6. QED BY <2>4, <2>5
  <1>8. CASE w = Console
    <2>1. up = "down" /\ op[w] = "reset_daily_loss_limit" /\ due[w] = NothingDue
      BY <1>1, <1>8 DEF AgreementInv, Idle, LedgerInv, ConsoleInv
    <2>2. up' = up /\ (up = "running")' = (up = "running")
      BY <1>1, <2>1
    <2>3. CountedNow' = CountedNow
      BY <1>1, <2>2 DEF CountedNow, InService
    <2>4. QED BY <1>5, <2>1, <2>2, <2>3 DEF Ledger!ledger
  <1>9. QED BY <1>6, <1>7, <1>8 DEF Writer

\* A crash of a running engine is a Stop: what a restart makes of the store
\* still covers what is owed.
LEMMA CrashRefines ==
    ASSUME SoundInv, SoundInv', LedgerInv, Crash
    PROVE  [Ledger!Next]_(Ledger!ledger)
  <1>1. up # "down" /\ up' = "down" /\ UNCHANGED <<today, store, spent, fills>>
    BY DEF Crash
  <1>2. CASE up = "running"
    <2>1. today \in Day /\ today >= today
      BY DEF SoundInv, TypeOK, Day
    <2>2. \A f \in Allowances : OwedNow[f] <= Consumed(Restarted(store, today), f)
      BY <2>1, FiguresNow DEF LedgerInv, StoreBacks
    <2>3. \A f \in Allowances : CountedNow'[f] = Consumed(Restarted(store, today), f)
      BY <1>1 DEF CountedNow, InService
    <2>4. \A f \in Allowances : OwedNow[f] \in Int /\ CountedNow'[f] \in Int
      BY <2>1, <2>3, FiguresNow, RestartedSound, ConsumedType DEF SoundInv, TypeOK
    <2>5. \A f \in Allowances : CountedNow'[f] >= OwedNow[f]
      BY <2>2, <2>3, <2>4
    <2>6. OwedNow' = OwedNow
      BY <1>1 DEF OwedNow
    <2>7. Ledger!Stop
      BY <1>1, <1>2, <2>5, <2>6 DEF Ledger!Stop
    <2>8. QED BY <2>7 DEF Ledger!Next
  <1>3. CASE up # "running"
    BY <1>1, <1>3, Unseen DEF InService
  <1>4. QED BY <1>2, <1>3

\* The operator's call waives the P&L that is owed.
LEMMA WaiveRefines ==
    ASSUME SoundInv, SoundInv', ResetDailyLossLimit
    PROVE  [Ledger!Next]_(Ledger!ledger)
  <1>1. up = "down" /\ Forgiven(Legs) /\ UNCHANGED <<today, up, mem, store, fills>>
    BY DEF ResetDailyLossLimit, engine
  <1>2. \A f \in DayFigures :
            spent'[today][f] = IF f \in Legs THEN Smaller(0, spent[today][f]) ELSE spent[today][f]
    BY <1>1 DEF Forgiven, SoundInv, TypeOK
  <1>3. \A f \in Allowances :
            OwedNow'[f] = IF f \in Legs THEN Ledger!AtMost(0, OwedNow[f]) ELSE OwedNow[f]
    BY <1>1, <1>2 DEF OwedNow, Allowances, Legs, Smaller, Ledger!AtMost
  <1>4. OwedNow' = [f \in Allowances |-> IF f \in Legs THEN Ledger!AtMost(0, OwedNow[f])
                                                        ELSE OwedNow[f]]
    BY <1>3 DEF OwedNow
  <1>5. CountedNow' = CountedNow
    BY <1>1 DEF CountedNow, InService
  <1>6. Ledger!Waive
    BY <1>1, <1>4, <1>5 DEF Ledger!Waive
  <1>7. QED BY <1>6 DEF Ledger!Next

\* At midnight the figures of the day are counted from zero, and nothing of
\* the new day is owed.
LEMMA NewDayRefines ==
    ASSUME SoundInv, SoundInv', AgreementInv, LedgerInv, NewDay
    PROVE  [Ledger!Next]_(Ledger!ledger)
  <1>1. /\ today' = today + 1 /\ today' \in Day /\ today \in Day /\ Sound(mem)
        /\ UNCHANGED <<up, mem, store, spent, fills>>
    BY DEF NewDay, engine, history, SoundInv, TypeOK
  <1>2. today' > today /\ mem["trading_day"] # today' /\ store["trading_day"] # today'
    BY <1>1 DEF AgreementInv, LedgerInv, DayInv, Day, Sound
  <1>3. \A f \in Allowances : OwedNow'[f] = IF f \in DayFigures THEN 0 ELSE OwedNow[f]
    <2>1. \A f \in DayFigures : spent[today'][f] = 0
      BY <1>1, <1>2 DEF LedgerInv, HistoryInv
    <2>2. "executions" \notin DayFigures
      BY DEF DayFigures, Legs
    <2>3. QED BY <1>1, <2>1, <2>2 DEF OwedNow, Allowances
  <1>4. \A f \in Allowances : CountedNow'[f] = IF f \in DayFigures THEN 0 ELSE CountedNow[f]
    <2>1. \A f \in DayFigures : f # "executions" /\ f \in Allowances
      BY DEF DayFigures, Legs, Allowances
    <2>2. CASE up = "running"
      <3>1. \A f \in Allowances : CountedNow'[f] = Consumed(Rolled(mem, today'), f)
        BY <1>1, <2>2 DEF CountedNow, InService
      <3>2. \A f \in DayFigures : Consumed(Rolled(mem, today'), f) = 0
        BY <1>1, <1>2, <2>1, ConsumedRolled DEF Sound
      <3>3. Consumed(Rolled(mem, today'), "executions") = Consumed(Rolled(mem, today), "executions")
        BY <1>1, ExecutionsRolled DEF Sound
      <3>4. QED BY <2>1, <2>2, <3>1, <3>2, <3>3, FiguresNow DEF Allowances
    <2>3. CASE up # "running"
      <3>1. \A f \in Allowances : CountedNow'[f] = Consumed(Restarted(store, today'), f)
        BY <1>1, <2>3 DEF CountedNow, InService
      <3>2. \A f \in DayFigures : Consumed(Restarted(store, today'), f) = 0
        BY <1>2, RestartedOtherDay
      <3>3. Consumed(Restarted(store, today'), "executions")
                = Consumed(Restarted(store, today), "executions")
        BY ExecutionsRestarted
      <3>4. QED BY <2>1, <2>3, <3>1, <3>2, <3>3, FiguresNow DEF Allowances
    <2>4. QED BY <2>2, <2>3
  <1>5. CountedNow' = Ledger!Renewed(CountedNow, DayFigures)
    BY <1>4 DEF Ledger!Renewed, CountedNow
  <1>6. OwedNow' = Ledger!Renewed(OwedNow, DayFigures)
    BY <1>3 DEF Ledger!Renewed, OwedNow
  <1>7. (up = "running")' = (up = "running")
    BY <1>1
  <1>8. Ledger!NewDay
    BY <1>5, <1>6, <1>7 DEF Ledger!NewDay
  <1>9. QED BY <1>8 DEF Ledger!Next

\* Every step of the counters is a step of the ledger or none.
LEMMA LedgerSteps ==
    ASSUME DurableSetting, SoundInv, SoundInv', AgreementInv, LedgerInv, [Next]_vars
    PROVE  [Ledger!Next]_(Ledger!ledger)
  <1>1. ASSUME NEW w \in Callers, CallerNext(w) PROVE [Ledger!Next]_(Ledger!ledger)
    BY <1>1, CallerRefines
  <1>2. ASSUME NEW w \in Writer, WriteFails(w) PROVE [Ledger!Next]_(Ledger!ledger)
    <2>1. /\ UNCHANGED <<today, mem, store, spent, fills>>
          /\ up' = up \/ (op[w] = "load" /\ up' = "failed")
      BY <1>2 DEF WriteFails
    <2>2. op[w] = "load" => up # "running"
      BY DEF AgreementInv, Writer, Idle
    <2>3. QED BY <2>1, <2>2, Unseen DEF InService
  <1>3. ASSUME NEW w \in Writer, WriterNext(w) PROVE [Ledger!Next]_(Ledger!ledger)
    BY <1>2, <1>3, StoreWriteRefines, ReturnRefines DEF WriterNext
  <1>4. CASE EnvironmentNext
    <2>1. CASE Observe
      <3>1. up = "running" /\ mem' = Rolled(mem, today) /\ UNCHANGED <<today, up, spent, fills>>
        BY <2>1 DEF Observe, history
      <3>2. Rolled(Rolled(mem, today), today) = Rolled(mem, today)
        BY RolledSound DEF SoundInv, TypeOK, Rolled
      <3>3. QED BY <3>1, <3>2, Unseen DEF InService
    <2>2. CASE Start
      <3>1. up = "down" /\ up' = "constructed" /\ UNCHANGED <<today, store, spent, fills>>
        BY <2>2 DEF Start, history
      <3>2. QED BY <3>1, Unseen DEF InService
    <2>3. ~DamageKey /\ ~ClockBack
      BY DEF DamageKey, ClockBack, DurableSetting, SingleReporter, SoundInv, TypeOK
    <2>4. QED
      BY <1>4, <2>1, <2>2, <2>3, CrashRefines, WaiveRefines, NewDayRefines DEF EnvironmentNext
  <1>5. CASE UNCHANGED vars
    BY <1>5, Unseen DEF vars, engine, history, InService
  <1>6. QED BY <1>1, <1>3, <1>4, <1>5 DEF Next

\* EngineCounters implements AllowanceLedger: a running engine counts a report
\* at once and never less later, a crash loses at most reports that have not
\* returned, and what a restart serves with is what the store held.
THEOREM CountersImplementLedger == ASSUME DurableSetting PROVE Spec => ImplementsLedger
  <1>1. SoundInv /\ AgreementInv /\ LedgerInv /\ SoundInv' /\ [Next]_vars =>
            [Ledger!Next]_(Ledger!ledger)
    BY LedgerSteps
  <1>2. QED
    BY <1>1, LedgerStarts, LedgerHolds, PTL DEF Spec, ImplementsLedger, Ledger!Spec

===============================================================================
