----------------------------- MODULE EngineLedger -----------------------------
(***************************************************************************)
(* EngineCounters implements AllowanceLedger.  The ledger is in service    *)
(* while an engine that has loaded is running; it counts what that engine  *)
(* holds for today and, at any other time, what a restart would make of    *)
(* the store.  What is owed is the history EngineCounters keeps of         *)
(* acknowledged calls.                                                     *)
(***************************************************************************)
EXTENDS EngineCounters

Allowances == DayFigures \cup {"executions"}

\* The counters the next decision will be taken on.
InService == IF up = "running" THEN Rolled(mem, today) ELSE Restarted(store, today)

CountedNow == [f \in Allowances |-> Consumed(InService, f)]
OwedNow == [f \in Allowances |-> IF f = "executions" THEN fills ELSE spent[today][f]]

\* What one call may move a figure by, either way.
CallAmounts ==
    {1} \cup {amount \in UNION {{t[2], -t[2]} : t \in Trades} : amount > 0}
        \cup {amount \in UNION {{n, -n} : n \in Notionals} : amount > 0}

Ledger == INSTANCE AllowanceLedger WITH
    Figures <- Allowances,
    Daily <- DayFigures,
    Resettable <- Legs,
    Clearings <- {{"rejects"}, {"rejects", "executions"}},
    Amounts <- CallAmounts,
    serving <- up = "running",
    counted <- CountedNow,
    owed <- OwedNow

\* The counters of one reporting coroutine over an atomic store are a durable
\* ledger (engine.py's load and persist): a running engine counts a call at
\* once and never less later, a crash loses at most calls that have not
\* returned, and the counters a restart serves with are those in the store.
ImplementsLedger == Ledger!Spec

===============================================================================
