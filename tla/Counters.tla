------------------------------- MODULE Counters -------------------------------
(***************************************************************************)
(* The eight counters of PreTradeRiskEngine as a value: what a roll of the *)
(* trading day, a load, a snapshot and each record_* call make of them.    *)
(* EngineCounters runs them against a store; TradingSession runs them      *)
(* under the decision.                                                     *)
(***************************************************************************)
EXTENDS Encoding

Legs == {"live_pnl", "simulated_pnl"}
PeakOf(leg) == IF leg = "live_pnl" THEN "live_peak" ELSE "simulated_peak"
Peaks == {"live_peak", "simulated_peak"}
PnlOf(peak) == IF peak = "live_peak" THEN "live_pnl" ELSE "simulated_pnl"

\* The keys of a snapshot, in the order persist writes them.
PersistOrder ==
    <<"trading_day", "live_pnl", "simulated_pnl", "live_peak", "simulated_peak",
      "daily_notional", "rejects", "executions">>
Key == {"trading_day", "live_pnl", "simulated_pnl", "live_peak", "simulated_peak",
        "daily_notional", "rejects", "executions"}

\* The figures the day's ledger follows; executions outlive the day.
DayFigures == Legs \cup {"daily_notional", "rejects"}

Larger(a, b) == IF a >= b THEN a ELSE b
Smaller(a, b) == IF a <= b THEN a ELSE b

\* The counters of an engine that has just been constructed.
NewMem(day) == [k \in Key |-> IF k = "trading_day" THEN day ELSE 0]

\* Mutant of Rolled: the executions go with the day.
RolledAfresh(m, day) == IF m["trading_day"] = day THEN m ELSE NewMem(day)

\* _roll_trading_day: any change of day, forwards or back, drops the figures
\* of the day; the executions since the last re-arm survive.
Rolled(m, day) ==
    IF m["trading_day"] = day
    THEN m
    ELSE [NewMem(day) EXCEPT !["executions"] = m["executions"]]

\* Mutant of Loaded: the stored peak is trusted as it is.
LoadedTrustingPeak(raw, m, day) ==
    [k \in Key |->
        IF k = "trading_day" THEN day
        ELSE IF k = "executions" THEN AsCount(raw[k])
        ELSE IF raw["trading_day"] # day THEN m[k]
        ELSE IF k = "rejects" THEN AsCount(raw[k])
        ELSE DecodeFloatOr(raw[k], 0)]

\* load: the counters m adopt what raw holds.  The figures of the day are
\* taken only from a snapshot of this day; a peak never lies below zero or
\* below its own leg.
Loaded(raw, m, day) ==
    LET sameDay == raw["trading_day"] = day
        Pnl(leg) == DecodeFloatOr(raw[leg], 0)
        Peak(peak) == Larger(Larger(0, Pnl(PnlOf(peak))), DecodeFloatOr(raw[peak], 0))
        Adopted(k) ==
            IF k \in Peaks THEN Peak(k)
            ELSE IF k = "rejects" THEN AsCount(raw[k])
            ELSE DecodeFloatOr(raw[k], 0)
    IN [k \in Key |->
            IF k = "trading_day" THEN day
            ELSE IF k = "executions" THEN AsCount(raw[k])
            ELSE IF sameDay THEN Adopted(k) ELSE m[k]]

\* Mutant of Encoded: the peaks are not part of the snapshot.
EncodedWithoutPeaks(m) ==
    [k \in Key |-> IF k \in Peaks THEN Absent ELSE m[k]]

\* The snapshot persist writes.  The trading day is written as it is.
Encoded(m) ==
    [k \in Key |-> IF k = "trading_day" THEN m[k] ELSE EncodeFloat(m[k])]

\* What a restart on that day makes of a store.
Restarted(texts, day) == Loaded(texts, NewMem(day), day)

-------------------------------------------------------------------------------
(* What each call makes of the counters before its first await.  Every one *)
(* rolls the day first.                                                    *)

\* Mutant of PnlAdded: the peak does not follow a gain.
PnlAddedBelowPeak(m, day, leg, amount) == [Rolled(m, day) EXCEPT ![leg] = @ + amount]

PnlAdded(m, day, leg, amount) ==
    LET rolled == Rolled(m, day)
        pnl == rolled[leg] + amount
    IN [rolled EXCEPT ![leg] = pnl, ![PeakOf(leg)] = Larger(rolled[PeakOf(leg)], pnl)]

\* Mutant of NotionalAdded: the day is not rolled first.
NotionalAddedUnrolled(m, day, amount) == [m EXCEPT !["daily_notional"] = @ + amount]

NotionalAdded(m, day, amount) == [Rolled(m, day) EXCEPT !["daily_notional"] = @ + amount]

RejectNoted(m, day) == [Rolled(m, day) EXCEPT !["rejects"] = @ + 1]

\* Mutant of AcceptanceNoted: one acknowledgement makes up for one rejection.
AcceptanceForgivesOne(m, day) == [Rolled(m, day) EXCEPT !["rejects"] = @ - 1]

AcceptanceNoted(m, day) == [Rolled(m, day) EXCEPT !["rejects"] = 0]
ExecutionNoted(m, day) == [Rolled(m, day) EXCEPT !["executions"] = @ + 1]

\* Both throttles are cleared, which nothing the strategy calls does.
Rearmed(m, day) == [Rolled(m, day) EXCEPT !["rejects"] = 0, !["executions"] = 0]

===============================================================================
