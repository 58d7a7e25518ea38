---------------------------- MODULE AllowanceLedger ----------------------------
(***************************************************************************)
(* What the counters of the engine promise their callers, without saying   *)
(* how: a ledger of consumed allowances that outlives the process.  For    *)
(* each figure the ledger counts what a decision sees as consumed, and     *)
(* remembers what callers have been told is recorded (owed).  A crash may  *)
(* lose a consumption nobody was told of, and nothing else; what stands    *)
(* after the crash is what service resumes with.                           *)
(***************************************************************************)
EXTENDS Integers

CONSTANTS
    Figures,     \* what allowances are counted for
    Daily,       \* those whose allowance is renewed each trading day
    Resettable,  \* those an operator may renew while the engine is stopped
    Clearings,   \* the sets of figures one call renews in service
    Amounts      \* what one call may consume or hand back, all positive

VARIABLES
    serving,  \* decisions are being taken and reports accepted
    counted,  \* consumption as a decision sees it, or would after a restart
    owed      \* consumption acknowledged to callers, less what was handed back

ledger == <<serving, counted, owed>>

AtMost(a, b) == IF a <= b THEN a ELSE b

\* The figures fs are counted from zero again, and no longer owed.
Renewed(amounts, fs) == [f \in Figures |-> IF f \in fs THEN 0 ELSE amounts[f]]

\* Consumption is counted at once ...
Consume(f, amount) ==
    /\ serving
    /\ counted' = [counted EXCEPT ![f] = @ + amount]
    /\ UNCHANGED <<serving, owed>>

\* ... and owed from when the caller is told, which never happens to a
\* consumption that is no longer counted.
Acknowledge(f, amount) ==
    /\ serving
    /\ owed[f] + amount <= counted[f]
    /\ owed' = [owed EXCEPT ![f] = @ + amount]
    /\ UNCHANGED <<serving, counted>>

HandBack(f, amount) ==
    /\ serving
    /\ counted' = [counted EXCEPT ![f] = @ - amount]
    /\ owed' = [owed EXCEPT ![f] = @ - amount]
    /\ UNCHANGED serving

\* A throttle is cleared: an acknowledged order, or a human who re-arms.
Forgive(fs) ==
    /\ serving
    /\ counted' = Renewed(counted, fs)
    /\ owed' = Renewed(owed, fs)
    /\ UNCHANGED serving

NewDay ==
    /\ counted' = Renewed(counted, Daily)
    /\ owed' = Renewed(owed, Daily)
    /\ UNCHANGED serving

\* The process dies: each figure survives at what is owed of it or more.
Stop ==
    /\ serving
    /\ serving' = FALSE
    /\ \A f \in Figures : counted'[f] >= owed[f]
    /\ UNCHANGED owed

Resume ==
    /\ ~serving
    /\ serving' = TRUE
    /\ UNCHANGED <<counted, owed>>

\* The operator asks for a reset of a stopped engine, and it takes effect.
Waive ==
    /\ ~serving
    /\ owed' = [f \in Figures |-> IF f \in Resettable THEN AtMost(0, owed[f]) ELSE owed[f]]
    /\ UNCHANGED <<serving, counted>>

Reset ==
    /\ ~serving
    /\ \A f \in Resettable : owed[f] <= 0
    /\ counted' = Renewed(counted, Resettable)
    /\ UNCHANGED <<serving, owed>>

Init ==
    /\ serving = FALSE
    /\ counted = [f \in Figures |-> 0]
    /\ owed = [f \in Figures |-> 0]

Next ==
    \/ \E f \in Figures, amount \in Amounts :
           Consume(f, amount) \/ Acknowledge(f, amount) \/ HandBack(f, amount)
    \/ \E fs \in Clearings : Forgive(fs)
    \/ NewDay \/ Stop \/ Resume \/ Waive \/ Reset

Spec == Init /\ [][Next]_ledger

\* The promise in one line: what callers were told is never forgotten.
NothingForgotten == \A f \in Figures : owed[f] <= counted[f]

===============================================================================
