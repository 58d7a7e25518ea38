--------------------------- MODULE TradingDayProofs ---------------------------
(***************************************************************************)
(* Theorems about the trading day, for every length of the day, every roll *)
(* and every reading of the clock.                                         *)
(***************************************************************************)
EXTENDS TradingDay, TLAPS

\* The shift is less than a day (trading_day takes it modulo the day).
LEMMA ShiftInDay == Shift \in 0 .. MillisPerDay - 1
  BY RollAssumption DEF Shift

\* What the shift is, with the modulo resolved.
LEMMA ShiftIs == Shift = IF SessionRoll = 0 THEN 0 ELSE MillisPerDay - SessionRoll
  <1>1. CASE SessionRoll = 0
    <2>1. MillisPerDay % MillisPerDay = 0
      BY RollAssumption
    <2>2. QED BY <1>1, <2>1, RollAssumption DEF Shift
  <1>2. CASE SessionRoll # 0
    <2>1. MillisPerDay - SessionRoll \in 0 .. MillisPerDay - 1
      BY <1>2, RollAssumption
    <2>2. QED BY <1>2, <2>1, RollAssumption DEF Shift
  <1>3. QED BY <1>1, <1>2

\* What division yields, in terms of multiplication ...
LEMMA Quotient ==
    ASSUME NEW a \in Int, NEW n \in Nat \ {0}
    PROVE  /\ a \div n \in Int /\ n * (a \div n) <= a /\ a < n * (a \div n) + n
           /\ a % n = a - n * (a \div n)
  OBVIOUS

\* ... and that nothing else does.
LEMMA QuotientUnique ==
    ASSUME NEW a \in Int, NEW n \in Nat \ {0}, NEW q \in Int, n * q <= a, a < n * q + n
    PROVE  a \div n = q
  OBVIOUS

\* A later reading of the clock is never of an earlier trading day, so a
\* forward clock never brings back a day whose counters were dropped
\* (_roll_trading_day drops them on any change of day).
THEOREM DayMonotone ==
    ASSUME NEW t \in Int, NEW u \in Int, t <= u
    PROVE  TradingDayOf(t) <= TradingDayOf(u)
  <1> DEFINE a == t + Shift
             b == u + Shift
             n == MillisPerDay
  <1>1. a \in Int /\ b \in Int /\ a <= b /\ n \in Nat \ {0}
    BY ShiftInDay, RollAssumption
  <1>2. /\ a \div n \in Int /\ n * (a \div n) <= a
        /\ b \div n \in Int /\ b < n * (b \div n) + n
    BY <1>1, Quotient
  <1>3. a \div n <= b \div n
    <2> HIDE DEF a, b, n
    <2> DEFINE p == a \div n
               q == b \div n
    <2>1. p \in Int /\ q \in Int /\ n * p < n * q + n
      BY <1>1, <1>2
    <2>2. ASSUME p >= q + 1 PROVE FALSE
      <3> HIDE DEF p, q
      <3>1. n * p >= n * (q + 1)
        BY <1>1, <2>1, <2>2
      <3>2. n * (q + 1) = n * q + n
        BY <1>1, <2>1
      <3>3. QED BY <1>1, <2>1, <3>1, <3>2
    <2>3. QED BY <2>1, <2>2
  <1>4. QED BY <1>3 DEF TradingDayOf

\* "Timestamps at or after that instant belong to the NEXT calendar date's
\* trading day", and a roll of zero is the UTC calendar day: the arithmetic of
\* trading_day is that rule, for every reading.
THEOREM DayAsDocumented ==
    ASSUME NEW t \in Int
    PROVE  TradingDayOf(t) = DocumentedDay(t)
  <1> DEFINE n == MillisPerDay
             d == t \div n
             r == t % n
  <1>1. n \in Nat \ {0} /\ SessionRoll \in 0 .. n - 1
    BY RollAssumption
  <1>2. d \in Int /\ r \in 0 .. n - 1 /\ t = n * d + r
    BY <1>1, Quotient
  <1>3. CASE SessionRoll = 0
    BY <1>1, <1>2, <1>3, ShiftIs DEF TradingDayOf, DocumentedDay, CalendarDay
  <1>4. CASE SessionRoll # 0
    <2>1. t + Shift = n * d + r + n - SessionRoll
      BY <1>1, <1>2, <1>4, ShiftIs
    <2>2. CASE r >= SessionRoll
      <3> HIDE DEF d, r, n
      <3>1. n * (d + 1) = n * d + n
        BY <1>1, <1>2
      <3>2. (t + Shift) \div n = d + 1
        <4>1. t + Shift \in Int /\ d + 1 \in Int
          BY <1>2, <1>1, <2>1
        <4>2. n * (d + 1) <= t + Shift /\ t + Shift < n * (d + 1) + n
          BY <1>1, <1>2, <1>4, <2>1, <2>2, <3>1
        <4>3. QED BY <1>1, <4>1, <4>2, QuotientUnique
      <3>3. QED BY <1>4, <2>2, <3>2 DEF TradingDayOf, DocumentedDay, CalendarDay, n, d, r
    <2>3. CASE r < SessionRoll
      <3> HIDE DEF d, r, n
      <3>1. (t + Shift) \div n = d
        <4>1. t + Shift \in Int
          BY <1>1, <1>2, <2>1
        <4>2. n * d <= t + Shift /\ t + Shift < n * d + n
          BY <1>1, <1>2, <2>1, <2>3
        <4>3. QED BY <1>1, <1>2, <4>1, <4>2, QuotientUnique
      <3>2. ~(r >= SessionRoll)
        BY <1>1, <1>2, <2>3
      <3>3. QED BY <3>1, <3>2 DEF TradingDayOf, DocumentedDay, CalendarDay, n, d, r
    <2>4. QED BY <1>1, <1>2, <2>2, <2>3
  <1>5. QED BY <1>3, <1>4

===============================================================================
