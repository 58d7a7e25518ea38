------------------------------ MODULE TradingDay ------------------------------
(***************************************************************************)
(* The trading day of a wall-clock reading (clock.py): a count of days     *)
(* since the epoch that turns over at SessionRoll after UTC midnight.  The *)
(* ISO date the code renders it as is in one-to-one, order-preserving      *)
(* correspondence with that count.                                         *)
(***************************************************************************)
EXTENDS Integers

CONSTANTS
    MillisPerDay,  \* 86 400 000 in the code
    SessionRoll    \* session_roll_millis

\* trading_day and RiskLimits refuse a roll outside the day.
ASSUME RollAssumption ==
    /\ MillisPerDay \in Nat \ {0}
    /\ SessionRoll \in 0 .. MillisPerDay - 1

\* Mutant of Shift: moves midnight away from the roll instead of onto it.
ShiftForwards == SessionRoll

\* What moves the roll instant onto UTC midnight; nothing for a roll of 0.
Shift == (MillisPerDay - SessionRoll) % MillisPerDay

TradingDayOf(now) == (now + Shift) \div MillisPerDay

-------------------------------------------------------------------------------
(* The same, as the documentation of trading_day puts it *)

CalendarDay(now) == now \div MillisPerDay

DocumentedDay(now) ==
    IF SessionRoll # 0 /\ now % MillisPerDay >= SessionRoll
    THEN CalendarDay(now) + 1
    ELSE CalendarDay(now)

===============================================================================
