-------------------------- MODULE TradingSessionProofs --------------------------
(***************************************************************************)
(* Theorems about a session: for any number of strategies and orders, any  *)
(* limits, any length of the day and any roll, and any order in which      *)
(* decisions, reports and the venue's answers come.                        *)
(***************************************************************************)
EXTENDS TradingSession, TradingDayProofs, FiniteSetTheorems

-------------------------------------------------------------------------------
(* The counters, one call at a time *)

\* What the roll of the day makes of the counters.
LEMMA RolledCounters ==
    ASSUME NEW m \in [Key -> Int], NEW day \in Int
    PROVE  /\ Rolled(m, day) \in [Key -> Int]
           /\ Rolled(m, day)["trading_day"] = day
           /\ Rolled(m, day)["executions"] = m["executions"]
           /\ Rolled(m, day)["rejects"] = IF m["trading_day"] = day THEN m["rejects"] ELSE 0
           /\ Rolled(m, day)["daily_notional"]
                = IF m["trading_day"] = day THEN m["daily_notional"] ELSE 0
           /\ m["trading_day"] = day => Rolled(m, day) = m
  <1>1. {"trading_day", "executions", "rejects", "daily_notional"} \subseteq Key
    BY DEF Key
  <1>2. NewMem(day) \in [Key -> Int] /\ NewMem(day)["trading_day"] = day
        /\ NewMem(day)["rejects"] = 0 /\ NewMem(day)["daily_notional"] = 0
    BY <1>1 DEF NewMem
  <1>3. QED BY <1>1, <1>2 DEF Rolled

\* What each call makes of them.
LEMMA NotionalCalled ==
    ASSUME NEW m \in [Key -> Int], NEW day \in Int, NEW a \in Int
    PROVE  /\ NotionalAdded(m, day, a) \in [Key -> Int]
           /\ NotionalAdded(m, day, a)["trading_day"] = day
           /\ NotionalAdded(m, day, a)["executions"] = Rolled(m, day)["executions"]
           /\ NotionalAdded(m, day, a)["rejects"] = Rolled(m, day)["rejects"]
           /\ NotionalAdded(m, day, a)["daily_notional"] = Rolled(m, day)["daily_notional"] + a
  <1> DEFINE c == Rolled(m, day)
  <1>1. {"trading_day", "executions", "rejects", "daily_notional"} \subseteq Key
    BY DEF Key
  <1>2. c \in [Key -> Int] /\ c["trading_day"] = day
    BY RolledCounters
  <1> HIDE DEF c
  <1>3. /\ [c EXCEPT !["daily_notional"] = @ + a] \in [Key -> Int]
        /\ [c EXCEPT !["daily_notional"] = @ + a]["trading_day"] = day
        /\ [c EXCEPT !["daily_notional"] = @ + a]["executions"] = c["executions"]
        /\ [c EXCEPT !["daily_notional"] = @ + a]["rejects"] = c["rejects"]
        /\ [c EXCEPT !["daily_notional"] = @ + a]["daily_notional"] = c["daily_notional"] + a
    BY <1>1, <1>2
  <1>4. QED BY <1>3 DEF c, NotionalAdded

\* The same of the calls that carry no amount.
LEMMA CountersCalled ==
    ASSUME NEW m \in [Key -> Int], NEW day \in Int
    PROVE  /\ RejectNoted(m, day) \in [Key -> Int]
           /\ RejectNoted(m, day)["trading_day"] = day
           /\ RejectNoted(m, day)["executions"] = Rolled(m, day)["executions"]
           /\ RejectNoted(m, day)["rejects"] = Rolled(m, day)["rejects"] + 1
           /\ RejectNoted(m, day)["daily_notional"] = Rolled(m, day)["daily_notional"]
           /\ AcceptanceNoted(m, day) \in [Key -> Int]
           /\ AcceptanceNoted(m, day)["trading_day"] = day
           /\ AcceptanceNoted(m, day)["executions"] = Rolled(m, day)["executions"]
           /\ AcceptanceNoted(m, day)["rejects"] = 0
           /\ AcceptanceNoted(m, day)["daily_notional"] = Rolled(m, day)["daily_notional"]
           /\ ExecutionNoted(m, day) \in [Key -> Int]
           /\ ExecutionNoted(m, day)["trading_day"] = day
           /\ ExecutionNoted(m, day)["executions"] = Rolled(m, day)["executions"] + 1
           /\ ExecutionNoted(m, day)["rejects"] = Rolled(m, day)["rejects"]
           /\ ExecutionNoted(m, day)["daily_notional"] = Rolled(m, day)["daily_notional"]
           /\ Rearmed(m, day) \in [Key -> Int]
           /\ Rearmed(m, day)["trading_day"] = day
           /\ Rearmed(m, day)["executions"] = 0
           /\ Rearmed(m, day)["rejects"] = 0
           /\ Rearmed(m, day)["daily_notional"] = Rolled(m, day)["daily_notional"]
  <1> DEFINE c == Rolled(m, day)
  <1>1. {"trading_day", "executions", "rejects", "daily_notional"} \subseteq Key
    BY DEF Key
  <1>2. c \in [Key -> Int] /\ c["trading_day"] = day
    BY RolledCounters
  <1> HIDE DEF c
  <1>3. /\ [c EXCEPT !["rejects"] = @ + 1] \in [Key -> Int]
        /\ [c EXCEPT !["rejects"] = @ + 1]["trading_day"] = day
        /\ [c EXCEPT !["rejects"] = @ + 1]["executions"] = c["executions"]
        /\ [c EXCEPT !["rejects"] = @ + 1]["rejects"] = c["rejects"] + 1
        /\ [c EXCEPT !["rejects"] = @ + 1]["daily_notional"] = c["daily_notional"]
    BY <1>1, <1>2
  <1>4. /\ [c EXCEPT !["rejects"] = 0] \in [Key -> Int]
        /\ [c EXCEPT !["rejects"] = 0]["trading_day"] = day
        /\ [c EXCEPT !["rejects"] = 0]["executions"] = c["executions"]
        /\ [c EXCEPT !["rejects"] = 0]["rejects"] = 0
        /\ [c EXCEPT !["rejects"] = 0]["daily_notional"] = c["daily_notional"]
    BY <1>1, <1>2
  <1>5. /\ [c EXCEPT !["executions"] = @ + 1] \in [Key -> Int]
        /\ [c EXCEPT !["executions"] = @ + 1]["trading_day"] = day
        /\ [c EXCEPT !["executions"] = @ + 1]["executions"] = c["executions"] + 1
        /\ [c EXCEPT !["executions"] = @ + 1]["rejects"] = c["rejects"]
        /\ [c EXCEPT !["executions"] = @ + 1]["daily_notional"] = c["daily_notional"]
    BY <1>1, <1>2
  <1>6. /\ [c EXCEPT !["rejects"] = 0, !["executions"] = 0] \in [Key -> Int]
        /\ [c EXCEPT !["rejects"] = 0, !["executions"] = 0]["trading_day"] = day
        /\ [c EXCEPT !["rejects"] = 0, !["executions"] = 0]["executions"] = 0
        /\ [c EXCEPT !["rejects"] = 0, !["executions"] = 0]["rejects"] = 0
        /\ [c EXCEPT !["rejects"] = 0, !["executions"] = 0]["daily_notional"] = c["daily_notional"]
    BY <1>1, <1>2
  <1>7. QED BY <1>3, <1>4, <1>5, <1>6
        DEF c, RejectNoted, AcceptanceNoted, ExecutionNoted, Rearmed

-------------------------------------------------------------------------------
(* The book *)

BookOrder ==
    [by : Strategies, side : {"BUY", "SELL"}, venue : {"unsent", "pending", "open", "closed"},
     left : 0 .. Quantity, reported : Days \cup {Never}]

\* The book r is q with what has become of its order i, which may have left it;
\* the order at j was at g[j].
Moves(q, r, g, i, o) ==
    /\ g \in [DOMAIN r -> DOMAIN q]
    /\ \A j, k \in DOMAIN r : g[j] = g[k] => j = k
    /\ \A j \in DOMAIN r : r[j] = IF g[j] = i THEN o ELSE q[g[j]]

\* What can become of an order in one step.
Progress(a, o) ==
    /\ o.by = a.by /\ o.side = a.side /\ o.left <= a.left
    /\ o.venue # "closed" => a.venue # "closed"
    /\ o.venue = "unsent" => a.venue = "unsent" /\ o.reported = a.reported
    /\ o.reported = Never => a.reported = Never

\* A book without one of its orders.
LEMMA Removed ==
    ASSUME NEW R, NEW q \in Seq(R), NEW i \in DOMAIN q
    PROVE  /\ RemoveAt(q, i) \in Seq(R) /\ Len(q) \in Nat /\ DOMAIN q = 1 .. Len(q)
           /\ DOMAIN RemoveAt(q, i) = 1 .. Len(q) - 1
           /\ \A j \in 1 .. Len(q) - 1 : RemoveAt(q, i)[j] = q[IF j < i THEN j ELSE j + 1]
  <1>1. Len(q) \in Nat /\ DOMAIN q = 1 .. Len(q) /\ i \in 1 .. Len(q)
    OBVIOUS
  <1> DEFINE a == SubSeq(q, 1, i - 1)
             b == SubSeq(q, i + 1, Len(q))
  <1>2. a \in Seq(R) /\ Len(a) = i - 1 /\ \A j \in 1 .. i - 1 : a[j] = q[j]
    BY <1>1
  <1>3. b \in Seq(R) /\ Len(b) = Len(q) - i /\ \A j \in 1 .. Len(q) - i : b[j] = q[i + j]
    BY <1>1
  <1>4. RemoveAt(q, i) = a \o b
    BY DEF RemoveAt
  <1> HIDE DEF a, b
  <1>5. a \o b \in Seq(R) /\ Len(a \o b) = Len(a) + Len(b)
    <2>1. a \in Seq(R) /\ b \in Seq(R)
      BY <1>2, <1>3
    <2>2. QED BY <2>1
  <1>6. DOMAIN (a \o b) = 1 .. Len(q) - 1
    <2>1. DOMAIN (a \o b) = 1 .. Len(a) + Len(b)
      BY <1>5
    <2>2. Len(a) + Len(b) = Len(q) - 1
      BY <1>1, <1>2, <1>3
    <2>3. QED BY <2>1, <2>2
  <1>7. ASSUME NEW j \in 1 .. Len(q) - 1 PROVE (a \o b)[j] = q[IF j < i THEN j ELSE j + 1]
    <2>1. CASE j < i
      BY <1>1, <1>2, <1>3, <2>1
    <2>2. CASE ~(j < i)
      <3>1. (a \o b)[j] = b[j - (i - 1)] /\ j - (i - 1) \in 1 .. Len(q) - i
        <4>1. j - (i - 1) \in 1 .. Len(q) - i /\ j \in 1 .. Len(a) + Len(b) /\ ~(j <= Len(a))
          BY <1>1, <1>2, <1>3, <2>2
        <4>2. a \in Seq(R) /\ b \in Seq(R)
          BY <1>2, <1>3
        <4>3. (a \o b)[j] = b[j - Len(a)]
          BY <4>1, <4>2
        <4>4. QED BY <1>2, <4>1, <4>3
      <3>2. i + (j - (i - 1)) = j + 1
        BY <1>1
      <3>3. b[j - (i - 1)] = q[i + (j - (i - 1))]
        BY <1>3, <3>1
      <3>4. QED BY <2>2, <3>1, <3>2, <3>3
    <2>3. QED BY <2>1, <2>2
  <1>8. QED BY <1>1, <1>4, <1>5, <1>6, <1>7

\* However an order changes, the rest of the book stays as it was, in order.
LEMMA Moved ==
    ASSUME NEW q \in Seq(BookOrder), NEW i \in DOMAIN q, NEW o \in BookOrder, NEW r,
           r = RemoveAt(q, i) \/ r = [q EXCEPT ![i] = o]
    PROVE  r \in Seq(BookOrder) /\ \E g : Moves(q, r, g, i, o)
  <1> DEFINE n == Len(q)
  <1>1. n \in Nat /\ DOMAIN q = 1 .. n /\ i \in 1 .. n
    OBVIOUS
  <1>2. CASE r = RemoveAt(q, i)
    <2> DEFINE g == [j \in 1 .. n - 1 |-> IF j < i THEN j ELSE j + 1]
    <2>1. /\ r \in Seq(BookOrder) /\ DOMAIN r = 1 .. n - 1
          /\ \A j \in 1 .. n - 1 : r[j] = q[IF j < i THEN j ELSE j + 1]
      BY <1>2, Removed
    <2>2. \A j \in 1 .. n - 1 : g[j] \in 1 .. n /\ g[j] # i /\ g[j] = IF j < i THEN j ELSE j + 1
      BY <1>1
    <2>3. g \in [1 .. n - 1 -> 1 .. n]
      BY <2>2
    <2> HIDE DEF g, n
    <2>4. \A j, k \in 1 .. n - 1 : g[j] = g[k] => j = k
      BY <1>1, <2>2
    <2>5. Moves(q, r, g, i, o)
      BY <1>1, <2>1, <2>2, <2>3, <2>4 DEF Moves
    <2>6. QED BY <2>1, <2>5
  <1>3. CASE r = [q EXCEPT ![i] = o]
    <2> DEFINE g == [j \in 1 .. n |-> j]
    <2>1. q \in [1 .. n -> BookOrder]
      BY <1>1
    <2>2. r \in [1 .. n -> BookOrder] /\ \A j \in 1 .. n : r[j] = IF j = i THEN o ELSE q[j]
      BY <1>1, <1>3, <2>1
    <2>3. r \in Seq(BookOrder)
      BY <1>1, <2>2
    <2>4. Moves(q, r, g, i, o)
      BY <1>1, <2>2 DEF Moves
    <2>5. QED BY <2>3, <2>4
  <1>4. QED BY <1>2, <1>3

\* Orders the engine has not been told of, orders that may still trade, and
\* their units, of the given sides.
UnreportedIn(q) == {j \in DOMAIN q : q[j].reported = Never}
AliveIn(q) == {j \in DOMAIN q : q[j].venue # "closed"}
UnitsIn(q, sides) ==
    {u \in AliveIn(q) \X (1 .. Quantity) : q[u[1]].side \in sides /\ u[2] <= q[u[1]].left}

\* A set that maps one to one into another is no larger.
LEMMA OneToOne ==
    ASSUME NEW S, IsFiniteSet(S), NEW T, NEW f \in [T -> S], \A x, y \in T : f[x] = f[y] => x = y
    PROVE  /\ IsFiniteSet(T) /\ Cardinality(T) \in Nat /\ Cardinality(S) \in Nat
           /\ Cardinality(T) <= Cardinality(S)
  <1>1. f \in Injection(T, S)
    BY DEF Injection, IsInjective
  <1>2. QED BY <1>1, FS_Injection, FS_CardinalityType

\* The entries of a book, one by one.
LEMMA BookFields ==
    ASSUME NEW q \in Seq(BookOrder)
    PROVE  /\ Len(q) \in Nat /\ DOMAIN q = 1 .. Len(q) /\ Quantity \in Nat /\ Quantity > 0
           /\ \A j \in DOMAIN q :
                  /\ q[j] \in BookOrder
                  /\ q[j].by \in Strategies /\ q[j].side \in {"BUY", "SELL"}
                  /\ q[j].venue \in {"unsent", "pending", "open", "closed"}
                  /\ q[j].left \in Int /\ q[j].left >= 0 /\ q[j].left <= Quantity
                  /\ q[j].reported \in Days \cup {Never}
  <1>1. Len(q) \in Nat /\ DOMAIN q = 1 .. Len(q) /\ \A j \in DOMAIN q : q[j] \in BookOrder
    OBVIOUS
  <1>2. Quantity \in Nat /\ Quantity > 0
    BY SessionAssumption
  <1>3. \A o \in BookOrder :
                  /\ o.by \in Strategies /\ o.side \in {"BUY", "SELL"}
                  /\ o.venue \in {"unsent", "pending", "open", "closed"}
                  /\ o.left \in Int /\ o.left >= 0 /\ o.left <= Quantity
                  /\ o.reported \in Days \cup {Never}
    BY <1>2 DEF BookOrder
  <1>4. QED BY <1>1, <1>2, <1>3

\* The sets of a book are finite, and each order has no more units than the
\* quantity.
LEMMA BookSets ==
    ASSUME NEW q \in Seq(BookOrder), NEW sides
    PROVE  /\ IsFiniteSet(UnreportedIn(q)) /\ Cardinality(UnreportedIn(q)) \in Nat
           /\ IsFiniteSet(AliveIn(q)) /\ Cardinality(AliveIn(q)) \in Nat
           /\ IsFiniteSet(UnitsIn(q, sides)) /\ Cardinality(UnitsIn(q, sides)) \in Nat
           /\ Cardinality(UnitsIn(q, sides)) <= Cardinality(AliveIn(q)) * Quantity
  <1> DEFINE U == UnreportedIn(q)
             A == AliveIn(q)
             X == UnitsIn(q, sides)
  <1>1. IsFiniteSet(DOMAIN q)
    BY BookFields, FS_Interval
  <1>2. U \in SUBSET DOMAIN q /\ A \in SUBSET DOMAIN q
    BY DEF UnreportedIn, AliveIn
  <1>3. X \in SUBSET (A \X (1 .. Quantity))
    BY DEF UnitsIn
  <1>4. IsFiniteSet(1 .. Quantity) /\ Cardinality(1 .. Quantity) = Quantity
    <2>1. Quantity \in Int /\ Quantity > 0
      BY SessionAssumption
    <2>2. /\ IsFiniteSet(1 .. Quantity)
          /\ Cardinality(1 .. Quantity) = IF 1 > Quantity THEN 0 ELSE Quantity - 1 + 1
      BY <2>1, FS_Interval
    <2>3. QED BY <2>1, <2>2
  <1> HIDE DEF U, A, X
  <1>5. /\ IsFiniteSet(U) /\ Cardinality(U) \in Nat
        /\ IsFiniteSet(A) /\ Cardinality(A) \in Nat
    BY <1>1, <1>2, FS_Subset, FS_CardinalityType
  <1>6. /\ IsFiniteSet(A \X (1 .. Quantity))
        /\ Cardinality(A \X (1 .. Quantity)) = Cardinality(A) * Quantity
    BY <1>4, <1>5, FS_Product
  <1>7. IsFiniteSet(X) /\ Cardinality(X) <= Cardinality(A \X (1 .. Quantity))
    BY <1>3, <1>6, FS_Subset
  <1>8. QED BY <1>5, <1>6, <1>7, FS_CardinalityType DEF U, A, X

\* A step of one order takes nothing back that was reported ...
LEMMA UnreportedCarried ==
    ASSUME NEW q \in Seq(BookOrder), NEW r, NEW g, NEW i, NEW o, Moves(q, r, g, i, o), Progress(q[i], o)
    PROVE  /\ Cardinality(UnreportedIn(r)) \in Nat
           /\ Cardinality(UnreportedIn(r)) <= Cardinality(UnreportedIn(q))
           /\ i \in DOMAIN q /\ q[i].reported = Never /\ o.reported # Never =>
                  Cardinality(UnreportedIn(r)) <= Cardinality(UnreportedIn(q)) - 1
  <1> DEFINE T == UnreportedIn(r)
             f == [j \in T |-> g[j]]
             S == UnreportedIn(q)
  <1>1. \A j \in T : j \in DOMAIN r /\ r[j].reported = Never
    BY DEF UnreportedIn
  <1>2. \A j \in T : g[j] \in S
    BY <1>1 DEF Moves, Progress, UnreportedIn
  <1>3. \A j, k \in T : f[j] = f[k] => j = k
    BY <1>1 DEF Moves
  <1>4. f \in [T -> S]
    BY <1>2
  <1>5. IsFiniteSet(S) /\ Cardinality(S) \in Nat
    BY BookSets
  <1>6. Cardinality(T) \in Nat /\ Cardinality(T) <= Cardinality(S)
    <2> HIDE DEF T, S, f
    <2>1. QED BY <1>3, <1>4, <1>5, OneToOne
  <1>7. ASSUME i \in DOMAIN q, q[i].reported = Never, o.reported # Never
        PROVE  Cardinality(T) <= Cardinality(S) - 1
    <2>1. i \in S
      BY <1>7 DEF UnreportedIn
    <2>2. \A j \in T : g[j] # i
      BY <1>1, <1>7 DEF Moves
    <2>3. f \in [T -> S \ {i}]
      BY <1>2, <2>2
    <2> HIDE DEF T, S, f
    <2>4. IsFiniteSet(S \ {i}) /\ Cardinality(S \ {i}) = Cardinality(S) - 1
      BY <1>5, <2>1, FS_RemoveElement
    <2>5. Cardinality(T) <= Cardinality(S \ {i})
      BY <1>3, <2>3, <2>4, OneToOne
    <2>6. QED BY <2>4, <2>5
  <1>8. QED BY <1>6, <1>7

\* ... brings no order back to life ...
LEMMA AliveCarried ==
    ASSUME NEW q \in Seq(BookOrder), NEW r, NEW g, NEW i, NEW o, Moves(q, r, g, i, o), Progress(q[i], o)
    PROVE  /\ Cardinality(AliveIn(r)) \in Nat
           /\ Cardinality(AliveIn(r)) <= Cardinality(AliveIn(q))
           /\ i \in DOMAIN q /\ q[i].venue # "closed" /\ o.venue = "closed" =>
                  Cardinality(AliveIn(r)) <= Cardinality(AliveIn(q)) - 1
  <1> DEFINE T == AliveIn(r)
             f == [j \in T |-> g[j]]
             S == AliveIn(q)
  <1>1. \A j \in T : j \in DOMAIN r /\ r[j].venue # "closed"
    BY DEF AliveIn
  <1>2. \A j \in T : g[j] \in S
    BY <1>1 DEF Moves, Progress, AliveIn
  <1>3. \A j, k \in T : f[j] = f[k] => j = k
    BY <1>1 DEF Moves
  <1>4. f \in [T -> S]
    BY <1>2
  <1>5. IsFiniteSet(S) /\ Cardinality(S) \in Nat
    BY BookSets
  <1>6. Cardinality(T) \in Nat /\ Cardinality(T) <= Cardinality(S)
    <2> HIDE DEF T, S, f
    <2>1. QED BY <1>3, <1>4, <1>5, OneToOne
  <1>7. ASSUME i \in DOMAIN q, q[i].venue # "closed", o.venue = "closed"
        PROVE  Cardinality(T) <= Cardinality(S) - 1
    <2>1. i \in S
      BY <1>7 DEF AliveIn
    <2>2. \A j \in T : g[j] # i
      BY <1>1, <1>7 DEF Moves
    <2>3. f \in [T -> S \ {i}]
      BY <1>2, <2>2
    <2> HIDE DEF T, S, f
    <2>4. IsFiniteSet(S \ {i}) /\ Cardinality(S \ {i}) = Cardinality(S) - 1
      BY <1>5, <2>1, FS_RemoveElement
    <2>5. Cardinality(T) <= Cardinality(S \ {i})
      BY <1>3, <2>3, <2>4, OneToOne
    <2>6. QED BY <2>4, <2>5
  <1>8. QED BY <1>6, <1>7

\* ... and leaves at most the units it did not trade.
LEMMA UnitsCarried ==
    ASSUME NEW q \in Seq(BookOrder), NEW r, NEW g, NEW i \in DOMAIN q, NEW o, NEW sides, NEW n \in Nat,
           Moves(q, r, g, i, o), Progress(q[i], o), o.left \in Int,
           n = 0 \/ (q[i].venue # "closed" /\ q[i].side \in sides /\ o.left = q[i].left - n /\ o.left >= 0)
    PROVE  /\ Cardinality(UnitsIn(r, sides)) \in Nat
           /\ Cardinality(UnitsIn(r, sides)) <= Cardinality(UnitsIn(q, sides)) - n
  <1> DEFINE T == UnitsIn(r, sides)
             S == UnitsIn(q, sides)
             f == [u \in T |-> <<g[u[1]], u[2]>>]
             L == q[i].left
             D == {u \in S : u[1] = i /\ u[2] > L - n}
             d == [x \in L - n + 1 .. L |-> <<i, x>>]
  <1>1. /\ L \in Int /\ L >= 0 /\ L <= Quantity /\ Quantity \in Nat
        /\ \A j \in DOMAIN q : q[j].left \in Int
    BY BookFields
  <1>2. \A u \in T : /\ u[1] \in DOMAIN r /\ u[2] \in 1 .. Quantity /\ u = <<u[1], u[2]>>
                     /\ r[u[1]].venue # "closed" /\ r[u[1]].side \in sides /\ u[2] <= r[u[1]].left
    BY DEF UnitsIn, AliveIn
  <1>3. ASSUME NEW u \in T
        PROVE  <<g[u[1]], u[2]>> \in S /\ (n > 0 /\ g[u[1]] = i => u[2] <= L - n)
    <2>1. /\ u[1] \in DOMAIN r /\ u[2] \in 1 .. Quantity
          /\ r[u[1]].venue # "closed" /\ r[u[1]].side \in sides /\ u[2] <= r[u[1]].left
      BY <1>2
    <2>2. g[u[1]] \in DOMAIN q
      BY <2>1 DEF Moves
    <2>3. CASE g[u[1]] = i
      <3>1. r[u[1]] = o
        BY <2>1, <2>3 DEF Moves
      <3>2. q[i].venue # "closed" /\ q[i].side \in sides /\ u[2] <= q[i].left
        BY <1>1, <2>1, <3>1 DEF Progress
      <3>3. n > 0 => u[2] <= L - n
        BY <1>1, <2>1, <3>1
      <3>4. QED BY <2>1, <2>2, <2>3, <3>2, <3>3 DEF UnitsIn, AliveIn
    <2>4. CASE g[u[1]] # i
      <3>1. r[u[1]] = q[g[u[1]]]
        BY <2>1, <2>4 DEF Moves
      <3>2. QED BY <2>1, <2>2, <2>4, <3>1 DEF UnitsIn, AliveIn
    <2>5. QED BY <2>3, <2>4
  <1>4. \A u, w \in T : f[u] = f[w] => u = w
    <2> SUFFICES ASSUME NEW u \in T, NEW w \in T, f[u] = f[w] PROVE u = w
      OBVIOUS
    <2>1. g[u[1]] = g[w[1]] /\ u[2] = w[2]
      OBVIOUS
    <2>2. u[1] = w[1]
      BY <1>2, <2>1 DEF Moves
    <2>3. QED BY <1>2, <2>1, <2>2
  <1>5. IsFiniteSet(S) /\ Cardinality(S) \in Nat
    BY BookSets
  <1>6. CASE n = 0
    <2>1. f \in [T -> S]
      BY <1>3
    <2> HIDE DEF T, S, f
    <2>2. Cardinality(T) \in Nat /\ Cardinality(T) <= Cardinality(S)
      BY <1>4, <1>5, <2>1, OneToOne
    <2>3. QED BY <1>5, <1>6, <2>2 DEF S, T
  <1>7. CASE n # 0
    <2>1. /\ q[i].venue # "closed" /\ q[i].side \in sides /\ n > 0 /\ n <= L
      BY <1>1, <1>7
    <2>2. \A u \in T : f[u] \in S \ D
      <3> SUFFICES ASSUME NEW u \in T PROVE f[u] \in S \ D
        OBVIOUS
      <3>1. f[u] = <<g[u[1]], u[2]>> /\ u[2] \in Int
        BY <1>2
      <3>2. f[u] \in S /\ (f[u][1] = i => f[u][2] <= L - n)
        BY <1>3, <2>1, <3>1
      <3>3. f[u] \notin D
        BY <1>1, <3>1, <3>2
      <3>4. QED BY <3>2, <3>3
    <2>3. f \in [T -> S \ D]
      BY <2>2
    <2>4. D \in SUBSET S
      OBVIOUS
    <2>5. IsFiniteSet(D) /\ Cardinality(D) \in Nat
      <3> HIDE DEF D, S
      <3>1. QED BY <1>5, <2>4, FS_Subset, FS_CardinalityType
    <2>6. n <= Cardinality(D)
      <3>1. \A x \in L - n + 1 .. L : <<i, x>> \in D
        <4> SUFFICES ASSUME NEW x \in L - n + 1 .. L PROVE <<i, x>> \in D
          OBVIOUS
        <4>1. x \in 1 .. Quantity /\ x <= q[i].left /\ x > L - n
          BY <1>1, <2>1
        <4>2. <<i, x>> \in S
          BY <2>1, <4>1 DEF UnitsIn, AliveIn
        <4>3. QED BY <4>1, <4>2
      <3>2. d \in [L - n + 1 .. L -> D]
        BY <3>1
      <3>3. \A x, y \in L - n + 1 .. L : d[x] = d[y] => x = y
        OBVIOUS
      <3>4. Cardinality(L - n + 1 .. L) = n
        <4> HIDE DEF L
        <4>1. Cardinality(L - n + 1 .. L) = IF L - n + 1 > L THEN 0 ELSE L - (L - n + 1) + 1
          BY <1>1, FS_Interval
        <4>2. QED BY <1>1, <2>1, <4>1
      <3> HIDE DEF D, d, L
      <3>5. Cardinality(L - n + 1 .. L) <= Cardinality(D)
        BY <2>5, <3>2, <3>3, OneToOne
      <3>6. QED BY <3>4, <3>5
    <2> HIDE DEF S, D, T, f
    <2>7. IsFiniteSet(S \ D) /\ Cardinality(S \ D) = Cardinality(S) - Cardinality(D)
      <3>1. S \cap D = D
        BY <2>4
      <3>2. IsFiniteSet(S \ D) /\ Cardinality(S \ D) = Cardinality(S) - Cardinality(S \cap D)
        BY <1>5, FS_Difference
      <3>3. QED BY <3>1, <3>2
    <2>8. Cardinality(T) \in Nat /\ Cardinality(T) <= Cardinality(S \ D)
      BY <1>4, <2>3, <2>7, OneToOne
    <2>9. QED BY <1>5, <2>5, <2>6, <2>7, <2>8 DEF S, T
  <1>8. QED BY <1>6, <1>7

-------------------------------------------------------------------------------
(* What an accepted order leaves room for *)

\* None and NaN are nothing else.
LEMMA NoneAndNaN ==
    /\ None \notin Int /\ NaN \notin Int /\ None # NaN
    /\ None \notin BOOLEAN /\ None \notin RejectCode /\ None \notin ControlId
  BY FloatAssumption

\* A control that objects does so with a code.
LEMMA Objects ==
    ASSUME NEW fine, NEW code \in RejectCode
    PROVE  Unless(fine, code) = None <=> fine
  BY NoneAndNaN DEF Unless

\* The magnitude of a number is its absolute value.
LEMMA MagnitudeIs ==
    ASSUME NEW x \in Int
    PROVE  Magnitude(x) = (IF x < 0 THEN -x ELSE x) /\ Magnitude(x) \in Nat
  BY NoneAndNaN DEF Magnitude, Lt, Number

\* The calls of the engine that a day cannot straddle leave it in Int.
LEMMA DayType ==
    ASSUME NEW t \in Int
    PROVE  TradingDayOf(t) \in Int
  <1>1. t + Shift \in Int
    BY ShiftInDay, RollAssumption
  <1>2. QED BY <1>1, RollAssumption, Quotient DEF TradingDayOf

\* Types, counters of no later day than today, and one order at most that a
\* strategy has in hand.
Base ==
    /\ TypeOK /\ mem \in [Key -> Int]
    /\ mem["trading_day"] <= Today
    /\ \A i \in DOMAIN book : book[i].venue = "unsent" => book[i].reported = Never
    /\ \A i, j \in DOMAIN book :
           book[i].reported = Never /\ book[j].reported = Never /\ book[i].by = book[j].by => i = j

\* What follows of the types alone.
LEMMA BaseTypes ==
    ASSUME Base
    PROVE  /\ now \in Int /\ now \in 0 .. MaxTime /\ Today \in Int /\ DocumentedDay(now) \in Days
           /\ mem \in [Key -> Int] /\ mem["trading_day"] \in Int
           /\ mem["rejects"] >= 0 /\ mem["executions"] >= 0
           /\ book \in Seq(BookOrder)
           /\ position \in Int /\ killFile \in BOOLEAN
           /\ tally.reported \in Nat /\ tally.back \in Nat /\ tally.foreign \in Nat
           /\ sinceKill \in [Strategies -> Nat]
           /\ Shown \in [Key -> Int] /\ Shown["trading_day"] = Today
           /\ Shown["rejects"] \in Nat /\ Shown["executions"] \in Nat
           /\ Shown["daily_notional"] \in Int
  <1>1. /\ now \in 0 .. MaxTime /\ mem \in [Key -> Int] /\ mem["rejects"] \in Nat
        /\ mem["executions"] \in Nat /\ position \in Int /\ killFile \in BOOLEAN
        /\ sinceKill \in [Strategies -> Nat] /\ tally \in [{"reported", "back", "foreign"} -> Nat]
    BY DEF Base, TypeOK
  <1>2. book \in Seq(BookOrder)
    BY DEF Base, TypeOK, BookOrder
  <1>3. now \in Int
    BY <1>1, SessionAssumption
  <1>4. Today \in Int
    BY <1>3, DayType DEF Today
  <1>5. DocumentedDay(now) \in Days
    BY <1>1 DEF Days
  <1>6. {"trading_day", "executions", "rejects", "daily_notional"} \subseteq Key
    BY DEF Key
  <1>7. /\ Shown \in [Key -> Int] /\ Shown["trading_day"] = Today
        /\ Shown["executions"] = mem["executions"]
        /\ Shown["rejects"] = IF mem["trading_day"] = Today THEN mem["rejects"] ELSE 0
    BY <1>1, <1>4, RolledCounters DEF Shown
  <1>8. QED BY <1>1, <1>2, <1>3, <1>4, <1>5, <1>6, <1>7

\* Of the constants.
LEMMA Constants ==
    /\ Quantity \in Nat /\ Quantity > 0 /\ MaxPosition \in Nat /\ MaxPosition > 0
    /\ MaxWorking \in Nat /\ MaxWorking > 0 /\ MaxRejects \in Nat /\ MaxRejects > 0
    /\ MaxExecutions \in Nat /\ MaxExecutions > 0
    /\ DailyNotionalLimit \in Nat /\ DailyNotionalLimit > 0
    /\ IsFiniteSet(Strategies) /\ Cardinality(Strategies) \in Nat /\ Cardinality(Strategies) > 0
  <1>1. IsFiniteSet(Strategies) /\ Strategies # {}
    BY SessionAssumption
  <1>2. Cardinality(Strategies) \in Nat /\ Cardinality(Strategies) # 0
    BY <1>1, FS_CardinalityType, FS_EmptySet
  <1>3. QED BY <1>1, <1>2, SessionAssumption

\* A decision reads the counters of today, the kill file and the orders
\* reported so far; nothing is disarmed that the session's limits arm.
LEMMA Armament ==
    ASSUME NEW c \in {"KILL_SWITCH", "POSITION_LIMIT", "WORKING_ORDERS", "CONSECUTIVE_REJECTS",
                      "REPEATED_EXECUTION", "DAILY_NOTIONAL_LIMIT"},
           NEW side, Accepts(side)
    PROVE  Check(c, SessionLimits[c], Figures, Request(side)) = None
  <1>1. c \in ControlId /\ c \notin ALWAYS_ON
    BY DEF ControlId, ControlSequence, ALWAYS_ON
  <1>2. SessionLimits[c] \in Int \/ SessionLimits[c] = TRUE
    <2>1. c \in {"KILL_SWITCH", "SHORT_SALE_LOCATE"} \/ SessionLimits[c] \in
              {MaxPosition, MaxWorking, MaxRejects, MaxExecutions, DailyNotionalLimit}
      BY <1>1 DEF SessionLimits
    <2>2. c = "KILL_SWITCH" => SessionLimits[c] = TRUE
      BY <1>1 DEF SessionLimits
    <2>3. QED BY <2>1, <2>2, Constants
  <1>3. SessionLimits[c] # None
    BY <1>2, NoneAndNaN
  <1>4. Threshold(c, SessionLimits, Figures) = SessionLimits[c]
    BY DEF Threshold, Figures
  <1>5. Runs(c, SessionLimits, {}, Figures)
    BY <1>3, <1>4 DEF Runs, Armed, IsDisabled
  <1>6. Outcome(c, SessionLimits, {}, Figures, Request(side)) = None
    BY <1>1 DEF Accepts, Admits
  <1>7. QED BY <1>4, <1>5, <1>6 DEF Outcome

\* What the arithmetic of numbers is when none of them is NaN.
LEMMA NumberArithmetic ==
    ASSUME NEW x \in Int, NEW y \in Int
    PROVE  /\ Number(x) /\ (Lt(x, y) <=> x < y) /\ (Le(x, y) <=> x <= y)
           /\ Plus(x, y) = x + y /\ Minus(x, y) = x - y /\ Times(x, y) = x * y
  BY NoneAndNaN DEF Number, Lt, Le, Plus, Minus, Times

\* The order a strategy asks for.
LEMMA RequestIs ==
    ASSUME Base, NEW side \in {"BUY", "SELL"}
    PROVE  /\ Request(side).side = side /\ Request(side).position_quantity = position
           /\ Request(side).working_orders = Cardinality(Working)
           /\ IsSell(Request(side)) <=> side = "SELL"
           /\ ProjectedPosition(Request(side)) =
                  IF side = "SELL" THEN position - Quantity ELSE position + Quantity
           /\ Priced(Request(side)) /\ Magnitude(Notional(Request(side))) = Quantity
  <1>1. /\ Request(side).side = side /\ Request(side).position_quantity = position
        /\ Request(side).working_orders = Cardinality(Working)
        /\ Request(side).quantity = Quantity /\ Request(side).limit_price = 1
    BY DEF Request
  <1>2. IsSell(Request(side)) <=> side = "SELL"
    BY <1>1 DEF IsSell
  <1>3. position \in Int /\ Quantity \in Int /\ Quantity > 0
    BY BaseTypes, Constants
  <1>4. ProjectedPosition(Request(side)) =
                  IF side = "SELL" THEN position - Quantity ELSE position + Quantity
    BY <1>1, <1>2, <1>3, NumberArithmetic DEF ProjectedPosition
  <1>5. ValuationPrice(Request(side)) = 1 /\ Priced(Request(side))
    BY <1>1, NoneAndNaN DEF ValuationPrice, Priced
  <1>6. Notional(Request(side)) = Quantity
    BY <1>1, <1>3, <1>5, NumberArithmetic DEF Notional
  <1>7. Magnitude(Quantity) = Quantity
    BY <1>3, MagnitudeIs
  <1>8. QED BY <1>1, <1>2, <1>4, <1>5, <1>6, <1>7

\* An accepted order found the kill file absent, each throttle below its limit,
\* room for a working order and for its notional, ...
LEMMA AcceptedWithin ==
    ASSUME Base, NEW side \in {"BUY", "SELL"}, Accepts(side), Cardinality(Working) \in Int
    PROVE  /\ ~killFile
           /\ Shown["rejects"] < MaxRejects /\ Shown["executions"] < MaxExecutions
           /\ Cardinality(Working) < MaxWorking
           /\ Shown["daily_notional"] + Quantity <= DailyNotionalLimit
  <1> DEFINE r == Request(side)
  <1>1. /\ Check("KILL_SWITCH", SessionLimits["KILL_SWITCH"], Figures, r) = None
        /\ Check("WORKING_ORDERS", SessionLimits["WORKING_ORDERS"], Figures, r) = None
        /\ Check("CONSECUTIVE_REJECTS", SessionLimits["CONSECUTIVE_REJECTS"], Figures, r) = None
        /\ Check("REPEATED_EXECUTION", SessionLimits["REPEATED_EXECUTION"], Figures, r) = None
        /\ Check("DAILY_NOTIONAL_LIMIT", SessionLimits["DAILY_NOTIONAL_LIMIT"], Figures, r) = None
    BY Armament
  <1>2. {"KILL_SWITCH", "WORKING_ORDERS", "CONSECUTIVE_REJECTS", "REPEATED_EXECUTION",
         "DAILY_NOTIONAL_LIMIT"} \subseteq ControlId
    BY DEF ControlId, ControlSequence
  <1>3. /\ SessionLimits["WORKING_ORDERS"] = MaxWorking
        /\ SessionLimits["CONSECUTIVE_REJECTS"] = MaxRejects
        /\ SessionLimits["REPEATED_EXECUTION"] = MaxExecutions
        /\ SessionLimits["DAILY_NOTIONAL_LIMIT"] = DailyNotionalLimit
    BY <1>2 DEF SessionLimits, ALWAYS_ON
  <1>4. /\ Figures.kill_switch_engaged = killFile /\ Figures.rejects = Shown["rejects"]
        /\ Figures.executions = Shown["executions"]
        /\ Figures.daily_notional = Shown["daily_notional"]
    BY DEF Figures, KillSwitchEngaged
  <1>5. /\ Priced(r) /\ Magnitude(Notional(r)) = Quantity
        /\ r.working_orders = Cardinality(Working)
    BY RequestIs
  <1>6. {"KILL_SWITCH_ENGAGED", "MAX_WORKING_ORDERS_EXCEEDED", "CONSECUTIVE_REJECT_LIMIT_EXCEEDED",
         "REPEATED_EXECUTION_THROTTLE", "DAILY_NOTIONAL_LIMIT_EXCEEDED"} \subseteq RejectCode
    BY DEF RejectCode
  <1> HIDE DEF r
  <1>7. ~killFile
    BY <1>1, <1>4, <1>6, Objects DEF Check, KillSwitch
  <1>8. Cardinality(Working) < MaxWorking
    BY <1>1, <1>3, <1>5, <1>6, NoneAndNaN DEF Check, WorkingOrders, Unless
  <1>9. Shown["rejects"] < MaxRejects
    BY <1>1, <1>3, <1>4, <1>6, NoneAndNaN DEF Check, ConsecutiveRejects, Unless
  <1>10. Shown["executions"] < MaxExecutions
    BY <1>1, <1>3, <1>4, <1>6, NoneAndNaN DEF Check, RepeatedExecution, Unless
  <1>11. Shown["daily_notional"] + Quantity <= DailyNotionalLimit
    <2>1. Le(Plus(Shown["daily_notional"], Quantity), DailyNotionalLimit)
      BY <1>1, <1>3, <1>4, <1>5, <1>6, Objects DEF Check, DailyNotional, IfKnown
    <2>2. Shown["daily_notional"] \in Int /\ Quantity \in Int /\ DailyNotionalLimit \in Int
      BY BaseTypes, Constants
    <2>3. Shown["daily_notional"] + Quantity \in Int
      BY <2>2
    <2>4. QED BY <2>1, <2>2, <2>3, NumberArithmetic
  <1>12. QED BY <1>7, <1>8, <1>9, <1>10, <1>11

\* ... and leaves the position within the limit, or on the side it was on.
LEMMA AcceptedPosition ==
    ASSUME Base, NEW side \in {"BUY", "SELL"}, Accepts(side)
    PROVE  /\ side = "BUY" => position + Quantity <= MaxPosition
           /\ side = "SELL" => Quantity - position <= MaxPosition
  <1> DEFINE r == Request(side)
             t == SessionLimits["POSITION_LIMIT"]
             p == ProjectedPosition(r)
  <1>1. Check("POSITION_LIMIT", t, Figures, r) = None
    BY Armament
  <1>2. t = MaxPosition
    <2>1. "POSITION_LIMIT" \in ControlId
      BY DEF ControlId, ControlSequence
    <2>2. QED BY <2>1 DEF SessionLimits, ALWAYS_ON
  <1>3. r.position_quantity = position
        /\ p = IF side = "SELL" THEN position - Quantity ELSE position + Quantity
    BY RequestIs
  <1>4. /\ position \in Int /\ Quantity \in Int /\ Quantity > 0 /\ MaxPosition \in Int /\ MaxPosition > 0
    BY BaseTypes, Constants
  <1>5. p \in Int
    BY <1>3, <1>4
  <1> HIDE DEF r, t, p
  <1>6. \/ Le(Magnitude(p), MaxPosition)
        \/ Lt(Magnitude(p), Magnitude(position)) /\ ~Lt(Times(position, p), 0)
    <2>1. "MAX_POSITION_EXCEEDED" \in RejectCode
      BY DEF RejectCode
    <2>2. PositionLimit(t, r) = None
      BY <1>1 DEF Check
    <2>3. QED BY <1>2, <1>3, <2>1, <2>2, Objects DEF PositionLimit, p
  <1>7. /\ Magnitude(p) = (IF p < 0 THEN -p ELSE p) /\ Magnitude(p) \in Int
        /\ Magnitude(position) = (IF position < 0 THEN -position ELSE position)
        /\ Magnitude(position) \in Int
    BY <1>4, <1>5, MagnitudeIs
  <1>8. CASE Le(Magnitude(p), MaxPosition)
    <2>1. Magnitude(p) <= MaxPosition
      BY <1>4, <1>7, <1>8, NumberArithmetic
    <2>2. p <= MaxPosition /\ -p <= MaxPosition
      BY <1>4, <1>5, <1>7, <2>1
    <2>3. QED BY <1>3, <1>4, <2>2
  <1>9. CASE Lt(Magnitude(p), Magnitude(position)) /\ ~Lt(Times(position, p), 0)
    <2>1. Magnitude(p) < Magnitude(position)
      BY <1>7, <1>9, NumberArithmetic
    <2>2. ~(position * p < 0)
      <3>1. position * p \in Int /\ Times(position, p) = position * p
        BY <1>4, <1>5, NumberArithmetic
      <3>2a. ASSUME NEW m \in Int PROVE Lt(m, 0) <=> m < 0
        BY NoneAndNaN DEF Lt, Number
      <3>2. Lt(position * p, 0) <=> position * p < 0
        BY <3>1, <3>2a
      <3>3. QED BY <1>9, <3>1, <3>2
    <2>3. ASSUME side = "BUY" PROVE position + Quantity <= MaxPosition
      <3>1. p = position + Quantity
        BY <1>3, <2>3
      <3>2. position < 0
        BY <1>4, <1>5, <1>7, <2>1, <3>1
      <3>3. ~(p > 0)
        <4>1. p > 0 => position * p < 0
          BY <1>4, <1>5, <3>2
        <4>2. QED BY <2>2, <4>1
      <3>4. QED BY <1>4, <1>5, <3>1, <3>3
    <2>4. ASSUME side = "SELL" PROVE Quantity - position <= MaxPosition
      <3>1. p = position - Quantity
        BY <1>3, <2>4
      <3>2. position > 0
        BY <1>4, <1>5, <1>7, <2>1, <3>1
      <3>3. ~(p < 0)
        <4>1. p < 0 => position * p < 0
          BY <1>4, <1>5, <3>2
        <4>2. QED BY <2>2, <4>1
      <3>4. QED BY <1>4, <1>5, <3>1, <3>3
    <2>5. QED BY <2>3, <2>4
  <1>10. QED BY <1>6, <1>8, <1>9

-------------------------------------------------------------------------------
(* The steps, by what they do to the book *)

\* All of Base but what is about the book.
Plain ==
    /\ now \in 0 .. MaxTime /\ mem \in [Key -> Int]
    /\ mem["rejects"] >= 0 /\ mem["executions"] >= 0 /\ mem["trading_day"] <= Today
    /\ killFile \in BOOLEAN /\ position \in Int /\ accepted \in 0 .. MaxOrders
    /\ tally \in [{"reported", "back", "foreign"} -> Nat] /\ sinceKill \in [Strategies -> Nat]

\* The order at i turns into o.
Turns(i, o) ==
    /\ o \in BookOrder /\ Progress(book[i], o)
    /\ book' \in Seq(BookOrder) /\ \E g : Moves(book, book', g, i, o)

\* Strategy s gets a new order accepted.
NewOrder(s, side) ==
    [by |-> s, side |-> side, venue |-> "unsent", left |-> Quantity, reported |-> Never]

Accepting(s, side) ==
    /\ InHand(s) = {} /\ Accepts(side)
    /\ book' = Append(book, NewOrder(s, side))
    /\ Shown' = Shown
    /\ UNCHANGED <<killFile, position, tally, sinceKill>>

\* An order that was accepted goes on: with its report or the notional it hands
\* back, with a send, an answer of the venue or a fill.
SameNotional == Shown'["daily_notional"] = Shown["daily_notional"] /\ tally' = tally

Reporting(i, o) ==
    /\ book[i].reported = Never /\ o.reported # Never
    /\ Shown'["daily_notional"] = Shown["daily_notional"] + Quantity
    /\ tally' = [tally EXCEPT !.reported = @ + Quantity]

HandingBack(i) ==
    \E n \in Nat :
        /\ Shown'["daily_notional"] = Shown["daily_notional"] - n
        /\ \/ tally' = [tally EXCEPT !.back = @ + n]
           \/ tally' = [tally EXCEPT !.foreign = @ + n]

Rejecting(i, o) ==
    /\ book[i].venue # "closed" /\ o.venue = "closed"
    /\ Shown'["rejects"] = Shown["rejects"] + 1

Filling(i, o) ==
    \E n \in Nat \ {0} :
        /\ book[i].venue # "closed" /\ o.left = book[i].left - n
        /\ position' = IF book[i].side = "SELL" THEN position - n ELSE position + n
        /\ Shown'["executions"] = Shown["executions"] + 1

Sending(i, o) ==
    /\ book[i].venue = "unsent" /\ o.venue # "unsent"
    /\ sinceKill' = IF killFile THEN [sinceKill EXCEPT ![book[i].by] = @ + 1] ELSE sinceKill

Turning(i, o) ==
    /\ Turns(i, o) /\ killFile' = killFile
    /\ SameNotional \/ Reporting(i, o) \/ HandingBack(i)
    /\ Shown'["rejects"] \in {0, Shown["rejects"]} \/ Rejecting(i, o)
    /\ (position' = position /\ Shown'["executions"] = Shown["executions"]) \/ Filling(i, o)
    /\ sinceKill' = sinceKill \/ Sending(i, o)

\* The book stays, the clock or the operator moves, or nothing does.
Quiet ==
    /\ book' = book /\ position' = position
    /\ (killFile' = killFile /\ sinceKill' = sinceKill) \/ \A s \in Strategies : sinceKill'[s] = 0
    /\ Shown'["rejects"] \in {0, Shown["rejects"]}
    /\ Shown'["executions"] \in {0, Shown["executions"]}
    /\ SameNotional \/ (Shown'["daily_notional"] = 0 /\ tally' = NoTally)

\* The orders that are in the book can be changed as the actions change them.
LEMMA Turned ==
    ASSUME Base, NEW i \in DOMAIN book, NEW o \in BookOrder, Progress(book[i], o),
           book' = Updated(i, o) \/ book' = [book EXCEPT ![i] = o]
    PROVE  Turns(i, o)
  <1>1. book \in Seq(BookOrder)
    BY BaseTypes
  <1>2. book' = RemoveAt(book, i) \/ book' = [book EXCEPT ![i] = o]
    BY DEF Updated
  <1>3. book' \in Seq(BookOrder) /\ \E g : Moves(book, book', g, i, o)
    BY <1>1, <1>2, Moved
  <1>4. QED BY <1>3 DEF Turns

\* A call of the engine shows in the counters it leaves.
LEMMA Called ==
    ASSUME Base, now' = now, mem' \in [Key -> Int], mem'["trading_day"] = Today,
           mem'["rejects"] >= 0, mem'["executions"] >= 0
    PROVE  Shown' = mem' /\ mem'["trading_day"] <= Today' /\ Today' = Today
  <1>1. Today' = Today /\ Today \in Int
    BY BaseTypes DEF Today
  <1>2. Rolled(mem', Today) = mem'
    BY <1>1, RolledCounters
  <1>3. Shown' = Rolled(mem', Today')
    BY DEF Shown
  <1>4. QED BY <1>1, <1>2, <1>3

\* Where the counters stay, so does what they show.
LEMMA NotCalled ==
    ASSUME now' = now, mem' = mem
    PROVE  Shown' = Shown /\ Today' = Today
  BY DEF Shown, Today

\* Base says so.
LEMMA BasePlain == Base => Plain
  BY DEF Base, TypeOK, Plain

\* A decision.
LEMMA EvaluatesStep ==
    ASSUME Base, NEW s \in Strategies, NEW side \in {"BUY", "SELL"}, Evaluates(s, side)
    PROVE  Plain' /\ (Accepting(s, side) \/ Quiet)
  <1>1. /\ InHand(s) = {} /\ accepted < MaxOrders /\ mem' = Shown
        /\ UNCHANGED <<now, killFile, position, tally, sinceKill>>
    BY DEF Evaluates, history
  <1>2. /\ Shown \in [Key -> Int] /\ Shown["trading_day"] = Today
        /\ Shown["rejects"] >= 0 /\ Shown["executions"] >= 0
    BY BaseTypes
  <1>3. Shown' = Shown /\ mem'["trading_day"] <= Today'
    BY <1>1, <1>2, Called
  <1>4. accepted' \in 0 .. MaxOrders
    <2>1. accepted' = accepted + 1 \/ accepted' = accepted
      BY DEF Evaluates
    <2>2. accepted \in 0 .. MaxOrders /\ MaxOrders \in Nat
      BY BasePlain, SessionAssumption DEF Plain
    <2>3. QED BY <1>1, <2>1, <2>2
  <1>5. Plain'
    BY <1>1, <1>2, <1>3, <1>4, BasePlain DEF Plain
  <1>6. CASE Accepts(side)
    <2>1. book' = Append(book, NewOrder(s, side))
      BY <1>6 DEF Evaluates, NewOrder
    <2>2. QED BY <1>1, <1>3, <1>5, <1>6, <2>1 DEF Accepting
  <1>7. CASE ~Accepts(side)
    <2>1. book' = book
      BY <1>7 DEF Evaluates
    <2>2. QED BY <1>1, <1>3, <1>5, <2>1 DEF Quiet, SameNotional
  <1>8. QED BY <1>6, <1>7

\* An order goes to the venue.
LEMMA SendStep ==
    ASSUME Base, NEW i \in DOMAIN book, Send(i)
    PROVE  Plain' /\ \E o : Turning(i, o)
  <1> DEFINE a == book[i]
             o == [a EXCEPT !.venue = "pending"]
  <1>1. a \in BookOrder /\ book \in Seq(BookOrder)
    BY BaseTypes, BookFields
  <1>2. /\ a.venue = "unsent" /\ UNCHANGED <<now, mem, killFile, position, accepted, tally>>
        /\ book' = [book EXCEPT ![i].venue = "pending"]
        /\ sinceKill' = IF killFile THEN [sinceKill EXCEPT ![a.by] = @ + 1] ELSE sinceKill
    BY DEF Send
  <1>3. /\ o \in BookOrder /\ o.by = a.by /\ o.side = a.side /\ o.venue = "pending"
        /\ o.left = a.left /\ o.reported = a.reported /\ a.left \in Int /\ a.by \in Strategies
    BY <1>1, BookFields, Constants DEF BookOrder
  <1>4. book' = [book EXCEPT ![i] = o]
    BY <1>1, <1>2
  <1> HIDE DEF o
  <1>5. Progress(a, o)
    BY <1>2, <1>3 DEF Progress
  <1>6. Turns(i, o)
    BY <1>3, <1>4, <1>5, Turned
  <1>7. Shown' = Shown /\ Today' = Today
    BY <1>2, NotCalled
  <1>8. sinceKill' \in [Strategies -> Nat]
    <2> DEFINE b == a.by
    <2>1. sinceKill \in [Strategies -> Nat] /\ b \in Strategies
      BY <1>3, BaseTypes
    <2>2. sinceKill' = [sinceKill EXCEPT ![b] = @ + 1] \/ sinceKill' = sinceKill
      BY <1>2
    <2> HIDE DEF b
    <2>3. QED BY <2>1, <2>2
  <1>9. Plain'
    BY <1>2, <1>7, <1>8, BasePlain DEF Plain
  <1>10. Turning(i, o)
    BY <1>2, <1>3, <1>6, <1>7 DEF Turning, SameNotional, Sending
  <1>11. QED BY <1>9, <1>10

\* What the tally becomes is a tally.
LEMMA TallyTypes ==
    ASSUME Base, NEW n \in Nat
    PROVE  /\ [tally EXCEPT !.reported = @ + n] \in [{"reported", "back", "foreign"} -> Nat]
           /\ [tally EXCEPT !.back = @ + n] \in [{"reported", "back", "foreign"} -> Nat]
           /\ [tally EXCEPT !.foreign = @ + n] \in [{"reported", "back", "foreign"} -> Nat]
           /\ NoTally \in [{"reported", "back", "foreign"} -> Nat]
  <1>1. tally \in [{"reported", "back", "foreign"} -> Nat]
    BY DEF Base, TypeOK
  <1>2. NoTally \in [{"reported", "back", "foreign"} -> Nat]
    BY DEF NoTally
  <1>3. QED BY <1>1, <1>2

\* What adding notional leaves, in terms of what the counters showed.
LEMMA NotionalShown ==
    ASSUME Base, NEW x \in Int
    PROVE  /\ NotionalAdded(mem, Today, x) \in [Key -> Int]
           /\ NotionalAdded(mem, Today, x)["trading_day"] = Today
           /\ NotionalAdded(mem, Today, x)["executions"] = Shown["executions"]
           /\ NotionalAdded(mem, Today, x)["rejects"] = Shown["rejects"]
           /\ NotionalAdded(mem, Today, x)["daily_notional"] = Shown["daily_notional"] + x
  <1>1. mem \in [Key -> Int] /\ Today \in Int
    BY BaseTypes
  <1>2. ASSUME NEW day \in Int
        PROVE  /\ NotionalAdded(mem, day, x) \in [Key -> Int]
               /\ NotionalAdded(mem, day, x)["trading_day"] = day
               /\ NotionalAdded(mem, day, x)["executions"] = Rolled(mem, day)["executions"]
               /\ NotionalAdded(mem, day, x)["rejects"] = Rolled(mem, day)["rejects"]
               /\ NotionalAdded(mem, day, x)["daily_notional"] = Rolled(mem, day)["daily_notional"] + x
    BY <1>1, NotionalCalled
  <1>3. QED BY <1>1, <1>2 DEF Shown

\* The strategy reports an order.
LEMMA ReportsStep ==
    ASSUME Base, NEW i \in DOMAIN book, Reports(i)
    PROVE  Plain' /\ \E o : Turning(i, o)
  <1> DEFINE a == book[i]
             o == [a EXCEPT !.reported = DocumentedDay(now)]
             c == NotionalAdded(mem, Today, Quantity)
  <1>1. a \in BookOrder /\ book \in Seq(BookOrder) /\ DocumentedDay(now) \in Days
    BY BaseTypes, BookFields
  <1>2. /\ a.venue # "unsent" /\ a.reported = Never
        /\ UNCHANGED <<now, killFile, position, accepted, sinceKill>>
        /\ book' = Updated(i, o) /\ mem' = c
        /\ tally' = [tally EXCEPT !.reported = @ + Quantity]
    BY DEF Reports
  <1>3. /\ o \in BookOrder /\ o.by = a.by /\ o.side = a.side /\ o.venue = a.venue
        /\ o.left = a.left /\ o.reported = DocumentedDay(now) /\ a.left \in Int
    BY <1>1, BookFields, Constants DEF BookOrder
  <1>4. DocumentedDay(now) # Never
    <2>1. now \in Int /\ now >= 0
      BY BaseTypes, SessionAssumption
    <2>2. CalendarDay(now) \in Nat
      BY <2>1, RollAssumption DEF CalendarDay
    <2>3. QED BY <2>2 DEF DocumentedDay, Never
  <1>5. /\ c \in [Key -> Int] /\ c["trading_day"] = Today
        /\ c["executions"] = Shown["executions"] /\ c["rejects"] = Shown["rejects"]
        /\ c["daily_notional"] = Shown["daily_notional"] + Quantity
    BY Constants, NotionalShown
  <1> HIDE DEF o, c
  <1>6. Progress(a, o)
    BY <1>2, <1>3, <1>4 DEF Progress
  <1>7. Turns(i, o)
    BY <1>2, <1>3, <1>6, Turned
  <1>8. Shown' = c /\ c["trading_day"] <= Today' /\ c["rejects"] >= 0 /\ c["executions"] >= 0
    BY <1>2, <1>5, BaseTypes, Called
  <1>9. tally' \in [{"reported", "back", "foreign"} -> Nat]
    BY <1>2, Constants, TallyTypes
  <1>10. Plain'
    BY <1>2, <1>5, <1>8, <1>9, BasePlain DEF Plain
  <1>11. Turning(i, o)
    BY <1>2, <1>3, <1>4, <1>5, <1>7, <1>8 DEF Turning, Reporting
  <1>12. QED BY <1>10, <1>11

\* What it did not trade is handed back.
LEMMA HandsBackStep ==
    ASSUME Base, NEW i \in DOMAIN book, HandsBack(i)
    PROVE  Plain' /\ \E o : Turning(i, o)
  <1> DEFINE a == book[i]
             o == [a EXCEPT !.left = 0]
             n == a.left
             c == NotionalAdded(mem, Today, -n)
  <1>1. a \in BookOrder /\ book \in Seq(BookOrder) /\ n \in Nat /\ Quantity \in Nat
    <2>1. book \in Seq(BookOrder)
      BY BaseTypes
    <2>2. QED BY <2>1, BookFields
  <1>2. /\ a.venue = "closed" /\ a.reported # Never
        /\ UNCHANGED <<now, killFile, position, accepted, sinceKill>>
        /\ book' = Updated(i, o) /\ mem' = c
        /\ \/ tally' = [tally EXCEPT !.back = @ + n]
           \/ tally' = [tally EXCEPT !.foreign = @ + n]
    BY DEF HandsBack
  <1>3. /\ o \in BookOrder /\ o.by = a.by /\ o.side = a.side /\ o.venue = a.venue
        /\ o.left = 0 /\ o.reported = a.reported
    <2>1. 0 \in 0 .. Quantity
      BY <1>1
    <2>2. QED BY <1>1, <2>1 DEF BookOrder
  <1>4. -n \in Int /\ \A x \in Int : x + (-n) = x - n
    BY <1>1
  <1>5. /\ c \in [Key -> Int] /\ c["trading_day"] = Today
        /\ c["executions"] = Shown["executions"] /\ c["rejects"] = Shown["rejects"]
        /\ c["daily_notional"] = Shown["daily_notional"] + (-n)
    BY <1>4, NotionalShown
  <1> HIDE DEF o, c
  <1>6. Progress(a, o)
    BY <1>1, <1>2, <1>3 DEF Progress
  <1>7. Turns(i, o)
    BY <1>2, <1>3, <1>6, Turned
  <1>8. Shown' = c /\ c["trading_day"] <= Today' /\ c["rejects"] >= 0 /\ c["executions"] >= 0
    BY <1>2, <1>5, BaseTypes, Called
  <1>9. tally' \in [{"reported", "back", "foreign"} -> Nat]
    BY <1>1, <1>2, TallyTypes
  <1>10. Plain'
    BY <1>2, <1>5, <1>8, <1>9, BasePlain DEF Plain
  <1>11. c["daily_notional"] = Shown["daily_notional"] - n
    BY <1>4, <1>5, BaseTypes
  <1>12. Turning(i, o)
    BY <1>1, <1>2, <1>5, <1>7, <1>8, <1>11 DEF Turning, HandingBack
  <1>13. QED BY <1>10, <1>12

\* The venue acknowledges an order.
LEMMA AcknowledgesStep ==
    ASSUME Base, NEW i \in DOMAIN book, Acknowledges(i)
    PROVE  Plain' /\ \E o : Turning(i, o)
  <1> DEFINE a == book[i]
             o == [a EXCEPT !.venue = "open"]
             c == AcceptanceNoted(mem, Today)
  <1>1. a \in BookOrder /\ book \in Seq(BookOrder) /\ a.left \in Int
    BY BaseTypes, BookFields
  <1>2. /\ a.venue = "pending" /\ UNCHANGED <<now, killFile, position, accepted, tally, sinceKill>>
        /\ book' = [book EXCEPT ![i].venue = "open"] /\ mem' = c
    BY DEF Acknowledges, history
  <1>3. /\ o \in BookOrder /\ o.by = a.by /\ o.side = a.side /\ o.venue = "open"
        /\ o.left = a.left /\ o.reported = a.reported
    BY <1>1 DEF BookOrder
  <1>4. book' = [book EXCEPT ![i] = o]
    BY <1>1, <1>2
  <1>5. /\ c \in [Key -> Int] /\ c["trading_day"] = Today
        /\ c["executions"] = Shown["executions"] /\ c["rejects"] = 0
        /\ c["daily_notional"] = Shown["daily_notional"]
    <2>1. mem \in [Key -> Int] /\ Today \in Int
      BY BaseTypes
    <2>2. QED BY <2>1, CountersCalled DEF Shown
  <1> HIDE DEF o, c
  <1>6. Progress(a, o)
    BY <1>1, <1>2, <1>3 DEF Progress
  <1>7. Turns(i, o)
    BY <1>3, <1>4, <1>6, Turned
  <1>8. Shown' = c /\ c["trading_day"] <= Today' /\ c["rejects"] >= 0 /\ c["executions"] >= 0
    BY <1>2, <1>5, BaseTypes, Called
  <1>9. Plain'
    BY <1>2, <1>5, <1>8, BasePlain DEF Plain
  <1>10. Turning(i, o)
    BY <1>2, <1>5, <1>7, <1>8 DEF Turning, SameNotional
  <1>11. QED BY <1>9, <1>10

\* The venue refuses an order.
LEMMA RejectsStep ==
    ASSUME Base, NEW i \in DOMAIN book, Rejects(i)
    PROVE  Plain' /\ \E o : Turning(i, o)
  <1> DEFINE a == book[i]
             o == [a EXCEPT !.venue = "closed"]
             c == RejectNoted(mem, Today)
  <1>1. a \in BookOrder /\ book \in Seq(BookOrder) /\ a.left \in Int
    BY BaseTypes, BookFields
  <1>2. /\ a.venue = "pending" /\ UNCHANGED <<now, killFile, position, accepted, tally, sinceKill>>
        /\ book' = [book EXCEPT ![i].venue = "closed"] /\ mem' = c
    BY DEF Rejects, history
  <1>3. /\ o \in BookOrder /\ o.by = a.by /\ o.side = a.side /\ o.venue = "closed"
        /\ o.left = a.left /\ o.reported = a.reported
    BY <1>1 DEF BookOrder
  <1>4. book' = [book EXCEPT ![i] = o]
    BY <1>1, <1>2
  <1>5. /\ c \in [Key -> Int] /\ c["trading_day"] = Today
        /\ c["executions"] = Shown["executions"] /\ c["rejects"] = Shown["rejects"] + 1
        /\ c["daily_notional"] = Shown["daily_notional"]
    <2>1. mem \in [Key -> Int] /\ Today \in Int
      BY BaseTypes
    <2>2. QED BY <2>1, CountersCalled DEF Shown
  <1> HIDE DEF o, c
  <1>6. Progress(a, o)
    BY <1>1, <1>2, <1>3 DEF Progress
  <1>7. Turns(i, o)
    BY <1>3, <1>4, <1>6, Turned
  <1>8. Shown' = c /\ c["trading_day"] <= Today' /\ c["rejects"] >= 0 /\ c["executions"] >= 0
    BY <1>2, <1>5, BaseTypes, Called
  <1>9. Plain'
    BY <1>2, <1>5, <1>8, BasePlain DEF Plain
  <1>10. Turning(i, o)
    BY <1>2, <1>3, <1>5, <1>7, <1>8 DEF Turning, SameNotional, Rejecting
  <1>11. QED BY <1>9, <1>10

\* An order trades, in full or in part.
LEMMA FillsStep ==
    ASSUME Base, NEW i \in DOMAIN book, NEW n \in 1 .. book[i].left, Fills(i, n)
    PROVE  Plain' /\ \E o : Turning(i, o)
  <1> DEFINE a == book[i]
             v == IF a.left = n THEN "closed" ELSE "open"
             o == [a EXCEPT !.left = a.left - n, !.venue = v]
             c == ExecutionNoted(mem, Today)
  <1>1. /\ a \in BookOrder /\ book \in Seq(BookOrder) /\ a.left \in Int /\ a.left <= Quantity
        /\ Quantity \in Nat /\ n \in Nat \ {0} /\ n <= a.left /\ position \in Int
    <2>1. book \in Seq(BookOrder) /\ position \in Int
      BY BaseTypes
    <2>2. a \in BookOrder /\ a.left \in Int /\ a.left <= Quantity /\ Quantity \in Nat
      BY <2>1, BookFields
    <2>3. n \in Nat \ {0} /\ n <= a.left
      BY <2>2
    <2>4. QED BY <2>1, <2>2, <2>3
  <1>2. /\ a.venue = "open" /\ UNCHANGED <<now, killFile, accepted, tally, sinceKill>>
        /\ book' = Updated(i, o) /\ mem' = c
        /\ position' = IF IsSell(a) THEN position - n ELSE position + n
    BY DEF Fills, history
  <1>3. /\ o \in BookOrder /\ o.by = a.by /\ o.side = a.side /\ o.venue = v
        /\ o.left = a.left - n /\ o.reported = a.reported /\ v \in {"closed", "open"}
    <2>1. a.left - n \in 0 .. Quantity
      BY <1>1
    <2>2. v \in {"unsent", "pending", "open", "closed"} /\ v \in {"closed", "open"}
      OBVIOUS
    <2> HIDE DEF v
    <2>3. QED BY <1>1, <2>1, <2>2 DEF BookOrder
  <1>4. IsSell(a) <=> a.side = "SELL"
    BY BaseTypes, BookFields DEF IsSell
  <1>5. /\ c \in [Key -> Int] /\ c["trading_day"] = Today
        /\ c["executions"] = Shown["executions"] + 1 /\ c["rejects"] = Shown["rejects"]
        /\ c["daily_notional"] = Shown["daily_notional"]
    <2>1. mem \in [Key -> Int] /\ Today \in Int
      BY BaseTypes
    <2>2. QED BY <2>1, CountersCalled DEF Shown
  <1> HIDE DEF o, c, v
  <1>6. Progress(a, o)
    BY <1>1, <1>2, <1>3 DEF Progress
  <1>7. Turns(i, o)
    BY <1>2, <1>3, <1>6, Turned
  <1>8. Shown' = c /\ c["trading_day"] <= Today' /\ c["rejects"] >= 0 /\ c["executions"] >= 0
    <2>1. Shown["executions"] \in Nat /\ Shown["rejects"] \in Nat
      BY BaseTypes
    <2>2. c["rejects"] >= 0 /\ c["executions"] >= 0
      BY <1>5, <2>1
    <2>3. now' = now /\ mem' \in [Key -> Int] /\ mem'["trading_day"] = Today
          /\ mem'["rejects"] >= 0 /\ mem'["executions"] >= 0
      BY <1>2, <1>5, <2>2
    <2>4. QED BY <1>2, <2>2, <2>3, Called
  <1>9. position' \in Int
    BY <1>1, <1>2
  <1>10. Plain'
    BY <1>2, <1>5, <1>8, <1>9, BasePlain DEF Plain
  <1>11. Filling(i, o)
    BY <1>1, <1>2, <1>3, <1>4, <1>5, <1>8 DEF Filling
  <1>12. Turning(i, o)
    BY <1>2, <1>5, <1>7, <1>8, <1>11 DEF Turning, SameNotional
  <1>13. QED BY <1>10, <1>12

\* An order is cancelled.
LEMMA CancelsStep ==
    ASSUME Base, NEW i \in DOMAIN book, Cancels(i)
    PROVE  Plain' /\ \E o : Turning(i, o)
  <1> DEFINE a == book[i]
             o == [a EXCEPT !.venue = "closed"]
  <1>1. a \in BookOrder /\ book \in Seq(BookOrder) /\ a.left \in Int
    BY BaseTypes, BookFields
  <1>2. /\ a.venue = "open" /\ UNCHANGED <<now, mem, killFile, position, accepted, tally, sinceKill>>
        /\ book' = [book EXCEPT ![i].venue = "closed"]
    BY DEF Cancels, history
  <1>3. /\ o \in BookOrder /\ o.by = a.by /\ o.side = a.side /\ o.venue = "closed"
        /\ o.left = a.left /\ o.reported = a.reported
    BY <1>1 DEF BookOrder
  <1>4. book' = [book EXCEPT ![i] = o]
    BY <1>1, <1>2
  <1> HIDE DEF o
  <1>5. Progress(a, o)
    BY <1>1, <1>2, <1>3 DEF Progress
  <1>6. Turns(i, o)
    BY <1>3, <1>4, <1>5, Turned
  <1>7. Shown' = Shown /\ Today' = Today
    BY <1>2, NotCalled
  <1>8. Plain'
    BY <1>2, <1>7, BasePlain DEF Plain
  <1>9. Turning(i, o)
    BY <1>2, <1>6, <1>7 DEF Turning, SameNotional
  <1>10. QED BY <1>8, <1>9

\* The operator re-arms the throttles.
LEMMA RearmStep ==
    ASSUME Base, Rearm
    PROVE  Plain' /\ Quiet
  <1> DEFINE c == Rearmed(mem, Today)
  <1>1. /\ UNCHANGED <<now, killFile, book, position, accepted, tally, sinceKill>> /\ mem' = c
    BY DEF Rearm, history
  <1>2. /\ c \in [Key -> Int] /\ c["trading_day"] = Today
        /\ c["executions"] = 0 /\ c["rejects"] = 0
        /\ c["daily_notional"] = Shown["daily_notional"]
    <2>1. mem \in [Key -> Int] /\ Today \in Int
      BY BaseTypes
    <2>2. QED BY <2>1, CountersCalled DEF Shown
  <1> HIDE DEF c
  <1>3. Shown' = c /\ c["trading_day"] <= Today' /\ c["rejects"] >= 0 /\ c["executions"] >= 0
    BY <1>1, <1>2, Called
  <1>4. Plain'
    BY <1>1, <1>2, <1>3, BasePlain DEF Plain
  <1>5. QED BY <1>1, <1>2, <1>3, <1>4 DEF Quiet, SameNotional

\* The kill file appears or goes.
LEMMA KillFileStep ==
    ASSUME Base, KillFileAppears \/ KillFileRemoved
    PROVE  Plain' /\ Quiet
  <1>1. /\ UNCHANGED <<now, mem, book, position, accepted, tally>> /\ killFile' \in BOOLEAN
        /\ sinceKill' = [s \in Strategies |-> 0]
    BY DEF KillFileAppears, KillFileRemoved
  <1>2. Shown' = Shown /\ Today' = Today
    BY <1>1, NotCalled
  <1>3. sinceKill' \in [Strategies -> Nat] /\ \A s \in Strategies : sinceKill'[s] = 0
    BY <1>1
  <1>4. Plain'
    BY <1>1, <1>2, <1>3, BasePlain DEF Plain
  <1>5. QED BY <1>1, <1>2, <1>3, <1>4 DEF Quiet, SameNotional

\* Time passes.  The arithmetic of the code and the documented rule roll the day
\* at the same reading of the clock.
LEMMA TickStep ==
    ASSUME Base, Tick
    PROVE  Plain' /\ Quiet
  <1>1. /\ now < MaxTime /\ now' = now + 1
        /\ UNCHANGED <<mem, killFile, book, position, accepted, sinceKill>>
        /\ tally' = IF DocumentedDay(now') = DocumentedDay(now) THEN tally ELSE NoTally
    BY DEF Tick
  <1>2. now \in Int /\ now' \in Int /\ now' \in 0 .. MaxTime /\ now <= now'
    <2>1. now \in 0 .. MaxTime /\ MaxTime \in Nat
      BY BaseTypes, SessionAssumption
    <2>2. QED BY <1>1, <2>1
  <1>3. /\ Today \in Int /\ Today' \in Int /\ Today <= Today'
        /\ Today' = Today <=> DocumentedDay(now') = DocumentedDay(now)
    BY <1>2, DayType, DayMonotone, DayAsDocumented DEF Today
  <1>4. mem \in [Key -> Int] /\ mem["trading_day"] <= Today /\ mem["trading_day"] \in Int
    BY BaseTypes DEF Base
  <1>5. Shown' = Rolled(mem, Today')
    BY <1>1 DEF Shown
  <1>6. /\ Shown'["executions"] = mem["executions"] /\ Shown["executions"] = mem["executions"]
        /\ Shown'["rejects"] = IF mem["trading_day"] = Today' THEN mem["rejects"] ELSE 0
        /\ Shown["rejects"] = IF mem["trading_day"] = Today THEN mem["rejects"] ELSE 0
        /\ Shown'["daily_notional"] = IF mem["trading_day"] = Today' THEN mem["daily_notional"] ELSE 0
        /\ Shown["daily_notional"] = IF mem["trading_day"] = Today THEN mem["daily_notional"] ELSE 0
    BY <1>3, <1>4, <1>5, RolledCounters DEF Shown
  <1>7. mem["trading_day"] <= Today' /\ (mem["trading_day"] = Today' => Today' = Today)
    BY <1>3, <1>4
  <1>8. tally' \in [{"reported", "back", "foreign"} -> Nat]
    <2>1. NoTally \in [{"reported", "back", "foreign"} -> Nat]
      BY DEF NoTally
    <2>2. QED BY <1>1, <2>1, BasePlain DEF Plain
  <1>9. Plain'
    BY <1>1, <1>2, <1>7, <1>8, BasePlain DEF Plain
  <1>10. SameNotional \/ (Shown'["daily_notional"] = 0 /\ tally' = NoTally)
    <2>1. CASE Today' = Today
      BY <1>1, <1>3, <1>6, <2>1 DEF SameNotional
    <2>2. CASE Today' # Today
      BY <1>1, <1>3, <1>6, <1>7, <2>2
    <2>3. QED BY <2>1, <2>2
  <1>11. Shown'["rejects"] \in {0, Shown["rejects"]}
    BY <1>6, <1>7
  <1>12. QED BY <1>1, <1>6, <1>9, <1>10, <1>11 DEF Quiet

\* Nothing happens.
LEMMA StutterStep ==
    ASSUME Base, UNCHANGED vars
    PROVE  Plain' /\ Quiet
  <1>1. UNCHANGED <<now, mem, killFile, book, position, accepted, tally, sinceKill>>
    BY DEF vars, history
  <1>2. Shown' = Shown /\ Today' = Today
    BY <1>1, NotCalled
  <1>3. QED BY <1>1, <1>2, BasePlain DEF Plain, Quiet, SameNotional

\* Every step of a session is one of the three kinds.
LEMMA SessionStep ==
    ASSUME Base, [Next]_vars
    PROVE  /\ Plain'
           /\ \/ \E s \in Strategies, side \in {"BUY", "SELL"} : Accepting(s, side)
              \/ \E i \in DOMAIN book, o \in BookOrder : Turning(i, o)
              \/ Quiet
  <1>1. ASSUME NEW i \in DOMAIN book, \E o : Turning(i, o)
        PROVE  \E o \in BookOrder : Turning(i, o)
    BY <1>1 DEF Turning, Turns
  <1>2. \/ \E s \in Strategies, side \in {"BUY", "SELL"} : Evaluates(s, side)
        \/ \E i \in DOMAIN book : Send(i)
        \/ \E i \in DOMAIN book : Reports(i)
        \/ \E i \in DOMAIN book : HandsBack(i)
        \/ \E i \in DOMAIN book : Acknowledges(i)
        \/ \E i \in DOMAIN book : Rejects(i)
        \/ \E i \in DOMAIN book : \E n \in 1 .. book[i].left : Fills(i, n)
        \/ \E i \in DOMAIN book : Cancels(i)
        \/ Rearm \/ KillFileAppears \/ KillFileRemoved \/ Tick \/ UNCHANGED vars
    BY DEF Next
  <1>3. CASE \E s \in Strategies, side \in {"BUY", "SELL"} : Evaluates(s, side)
    BY <1>3, EvaluatesStep
  <1>4. CASE \E i \in DOMAIN book : Send(i)
    BY <1>1, <1>4, SendStep
  <1>5. CASE \E i \in DOMAIN book : Reports(i)
    BY <1>1, <1>5, ReportsStep
  <1>6. CASE \E i \in DOMAIN book : HandsBack(i)
    BY <1>1, <1>6, HandsBackStep
  <1>7. CASE \E i \in DOMAIN book : Acknowledges(i)
    BY <1>1, <1>7, AcknowledgesStep
  <1>8. CASE \E i \in DOMAIN book : Rejects(i)
    BY <1>1, <1>8, RejectsStep
  <1>9. CASE \E i \in DOMAIN book : \E n \in 1 .. book[i].left : Fills(i, n)
    BY <1>1, <1>9, FillsStep
  <1>10. CASE \E i \in DOMAIN book : Cancels(i)
    BY <1>1, <1>10, CancelsStep
  <1>11. QED BY <1>2, <1>3, <1>4, <1>5, <1>6, <1>7, <1>8, <1>9, <1>10,
                RearmStep, KillFileStep, TickStep, StutterStep

-------------------------------------------------------------------------------
(* Types, and one order in hand *)

\* A book with a new order at its end.
LEMMA Appended ==
    ASSUME NEW q \in Seq(BookOrder), NEW e \in BookOrder
    PROVE  /\ Append(q, e) \in Seq(BookOrder)
           /\ Len(q) \in Nat /\ DOMAIN q = 1 .. Len(q)
           /\ DOMAIN Append(q, e) = 1 .. Len(q) + 1
           /\ Append(q, e)[Len(q) + 1] = e
           /\ \A j \in 1 .. Len(q) : Append(q, e)[j] = q[j]
           /\ \A j \in DOMAIN Append(q, e) : j \in DOMAIN q \/ j = Len(q) + 1
  OBVIOUS

\* A new order is an order.
LEMMA NewOrderIs ==
    ASSUME NEW s \in Strategies, NEW side \in {"BUY", "SELL"}
    PROVE  /\ NewOrder(s, side) \in BookOrder
           /\ NewOrder(s, side).by = s /\ NewOrder(s, side).side = side
           /\ NewOrder(s, side).venue = "unsent" /\ NewOrder(s, side).reported = Never
  <1>1. Quantity \in 0 .. Quantity
    BY Constants
  <1>2. QED BY <1>1 DEF NewOrder, BookOrder

\* The invariant holds of a session that has not begun.
LEMMA BaseInit == Init => Base
  <1> SUFFICES ASSUME Init PROVE Base
    OBVIOUS
  <1>1. /\ now = 0 /\ mem = NewMem(Today) /\ killFile = FALSE /\ book = <<>> /\ position = 0
        /\ accepted = 0 /\ tally = NoTally /\ sinceKill = [s \in Strategies |-> 0]
    BY DEF Init
  <1>2. now \in 0 .. MaxTime /\ accepted \in 0 .. MaxOrders
    BY <1>1, SessionAssumption
  <1>3. Today \in Int
    BY <1>1, DayType DEF Today
  <1>4. /\ mem \in [Key -> Int] /\ mem["trading_day"] = Today
        /\ mem["rejects"] = 0 /\ mem["executions"] = 0
    BY <1>1, <1>3 DEF NewMem, Key
  <1>5. tally \in [{"reported", "back", "foreign"} -> Nat] /\ sinceKill \in [Strategies -> Nat]
    BY <1>1 DEF NoTally
  <1>6. book \in Seq(BookOrder) /\ DOMAIN book = {}
    BY <1>1
  <1>7. DOMAIN mem = Key /\ (\A k \in Key : mem[k] \in Int) /\ {mem["rejects"], mem["executions"]} \subseteq Nat
    BY <1>4
  <1>8. killFile \in BOOLEAN /\ position \in Int
    <2>1. killFile \in BOOLEAN
      BY <1>1, Zenon
    <2>2. position \in Int
      BY <1>1
    <2>3. QED BY <2>1, <2>2
  <1>9. TypeOK
    BY <1>2, <1>5, <1>6, <1>7, <1>8 DEF TypeOK, BookOrder
  <1>10. QED BY <1>3, <1>4, <1>6, <1>9 DEF Base

\* It is kept by every step: a strategy evaluates only with nothing in hand, and
\* an order goes back neither to its strategy nor to the unreported.
LEMMA BaseNext == Base /\ [Next]_vars => Base'
  <1> SUFFICES ASSUME Base, [Next]_vars PROVE Base'
    OBVIOUS
  <1> DEFINE Hand(q) ==
          /\ q \in Seq(BookOrder)
          /\ \A i \in DOMAIN q : q[i].venue = "unsent" => q[i].reported = Never
          /\ \A i, j \in DOMAIN q :
                 q[i].reported = Never /\ q[j].reported = Never /\ q[i].by = q[j].by => i = j
  <1>1. Plain'
    BY SessionStep
  <1>2. Hand(book)
    BY BaseTypes DEF Base
  <1>3. ASSUME NEW s \in Strategies, NEW side \in {"BUY", "SELL"}, Accepting(s, side)
        PROVE  Hand(book')
    <2> DEFINE e == NewOrder(s, side)
               n == Len(book) + 1
    <2>1. /\ e \in BookOrder /\ e.by = s /\ e.reported = Never
      BY NewOrderIs
    <2>2. book' = Append(book, e) /\ \A j \in DOMAIN book : ~(book[j].by = s /\ book[j].reported = Never)
      BY <1>3 DEF Accepting, InHand
    <2> HIDE DEF e
    <2>3. /\ book' \in Seq(BookOrder) /\ DOMAIN book = 1 .. Len(book) /\ book'[n] = e
          /\ \A j \in 1 .. Len(book) : book'[j] = book[j]
          /\ \A j \in DOMAIN book' : j \in DOMAIN book \/ j = n
      BY <1>2, <2>1, <2>2, Appended
    <2> HIDE DEF n
    <2>4. \A j \in DOMAIN book' : book'[j].venue = "unsent" => book'[j].reported = Never
      BY <1>2, <2>1, <2>3
    <2>5. \A i, j \in DOMAIN book' :
              book'[i].reported = Never /\ book'[j].reported = Never /\ book'[i].by = book'[j].by => i = j
      BY <1>2, <2>1, <2>2, <2>3
    <2>6. QED BY <2>3, <2>4, <2>5
  <1>4. ASSUME NEW i \in DOMAIN book, NEW o \in BookOrder, Turning(i, o)
        PROVE  Hand(book')
    <2>1. book' \in Seq(BookOrder) /\ Progress(book[i], o) /\ \E g : Moves(book, book', g, i, o)
      BY <1>4 DEF Turning, Turns
    <2>2. PICK g : Moves(book, book', g, i, o)
      BY <2>1
    <2>3. ASSUME NEW j \in DOMAIN book'
          PROVE  /\ g[j] \in DOMAIN book /\ book'[j].by = book[g[j]].by
                 /\ book'[j].venue = "unsent" =>
                        book[g[j]].venue = "unsent" /\ book'[j].reported = book[g[j]].reported
                 /\ book'[j].reported = Never => book[g[j]].reported = Never
      BY <2>1, <2>2 DEF Moves, Progress
    <2>4. \A j \in DOMAIN book' : book'[j].venue = "unsent" => book'[j].reported = Never
      BY <1>2, <2>3
    <2>5. ASSUME NEW j \in DOMAIN book', NEW k \in DOMAIN book',
                 book'[j].reported = Never, book'[k].reported = Never, book'[j].by = book'[k].by
          PROVE  j = k
      <3>1. g[j] = g[k]
        BY <1>2, <2>3, <2>5
      <3>2. QED BY <2>2, <3>1 DEF Moves
    <2>6. QED BY <2>1, <2>4, <2>5
  <1>5. Hand(book')
    <2>1. CASE Quiet
      BY <1>2, <2>1 DEF Quiet
    <2>2. QED BY <1>3, <1>4, <2>1, SessionStep
  <1>6. TypeOK'
    <2>1. mem' \in [Key -> Int] => DOMAIN mem' = Key /\ (\A k \in Key : mem'[k] \in Int)
          /\ mem'["rejects"] \in Int /\ mem'["executions"] \in Int
      BY DEF Key
    <2>2. {mem'["rejects"], mem'["executions"]} \subseteq Nat
      BY <1>1, <2>1 DEF Plain
    <2>3. book' \in Seq(BookOrder)
      BY <1>5
    <2> HIDE DEF Hand
    <2>4. QED BY <1>1, <2>1, <2>2, <2>3 DEF Plain, TypeOK, BookOrder
  <1>7. QED BY <1>1, <1>5, <1>6 DEF Base, Plain

\* In every state a session reaches, every variable has its type.
THEOREM SessionTypeCorrect == Spec => []TypeOK
  <1>1. Base => TypeOK
    BY DEF Base
  <1>2. QED BY <1>1, BaseInit, BaseNext, PTL DEF Spec

-------------------------------------------------------------------------------
(* The roll *)

\* What the counters show is what was reported and handed back today.
LEMMA TallyNext == Base /\ RollsAtTheRoll /\ [Next]_vars => RollsAtTheRoll'
  <1> SUFFICES ASSUME Base, RollsAtTheRoll, [Next]_vars PROVE RollsAtTheRoll'
    OBVIOUS
  <1> DEFINE d == Shown["daily_notional"]
             dd == Shown'["daily_notional"]
  <1>1. /\ d \in Int /\ tally.reported \in Nat /\ tally.back \in Nat /\ tally.foreign \in Nat
        /\ d = tally.reported - tally.back - tally.foreign
        /\ tally \in [{"reported", "back", "foreign"} -> Nat] /\ Quantity \in Nat
    BY BaseTypes, Constants DEF RollsAtTheRoll, Base, TypeOK
  <1>2. \/ SameNotional
        \/ dd = d + Quantity /\ tally' = [tally EXCEPT !.reported = @ + Quantity]
        \/ \E n \in Nat : /\ dd = d - n
                          /\ \/ tally' = [tally EXCEPT !.back = @ + n]
                             \/ tally' = [tally EXCEPT !.foreign = @ + n]
        \/ dd = 0 /\ tally' = NoTally
    <2>1. ASSUME NEW s \in Strategies, NEW side \in {"BUY", "SELL"}, Accepting(s, side)
          PROVE  SameNotional
      BY <2>1 DEF Accepting, SameNotional
    <2>2. QED BY <2>1, SessionStep DEF Turning, Reporting, HandingBack, Quiet
  <1>3. SUFFICES dd = tally'.reported - tally'.back - tally'.foreign
    BY DEF RollsAtTheRoll
  <1>4. CASE SameNotional
    BY <1>1, <1>4 DEF SameNotional
  <1> HIDE DEF d, dd
  <1>5. CASE dd = d + Quantity /\ tally' = [tally EXCEPT !.reported = @ + Quantity]
    <2>1. /\ tally'.reported = tally.reported + Quantity /\ tally'.back = tally.back
          /\ tally'.foreign = tally.foreign
      BY <1>1, <1>5
    <2>2. QED BY <1>1, <1>5, <2>1
  <1>6. ASSUME NEW n \in Nat, dd = d - n, tally' = [tally EXCEPT !.back = @ + n]
        PROVE  dd = tally'.reported - tally'.back - tally'.foreign
    <2>1. /\ tally'.reported = tally.reported /\ tally'.back = tally.back + n
          /\ tally'.foreign = tally.foreign
      BY <1>1, <1>6
    <2>2. QED BY <1>1, <1>6, <2>1
  <1>7. ASSUME NEW n \in Nat, dd = d - n, tally' = [tally EXCEPT !.foreign = @ + n]
        PROVE  dd = tally'.reported - tally'.back - tally'.foreign
    <2>1. /\ tally'.reported = tally.reported /\ tally'.back = tally.back
          /\ tally'.foreign = tally.foreign + n
      BY <1>1, <1>7
    <2>2. QED BY <1>1, <1>7, <2>1
  <1>8. CASE dd = 0 /\ tally' = NoTally
    BY <1>8 DEF NoTally
  <1>9. QED BY <1>2, <1>4, <1>5, <1>6, <1>7, <1>8

\* The day's notional, as a decision sees it, is at every moment what was
\* reported and handed back since the documented roll of the day.
THEOREM CountersRollAtTheRoll == Spec => []RollsAtTheRoll
  <1>1. Init => RollsAtTheRoll
    <2> SUFFICES ASSUME Init PROVE RollsAtTheRoll
      OBVIOUS
    <2>1. Base /\ mem = NewMem(Today) /\ tally = NoTally
      BY BaseInit DEF Init
    <2>2. mem \in [Key -> Int] /\ Today \in Int /\ mem["daily_notional"] = 0
      BY <2>1, BaseTypes DEF NewMem, Key
    <2>3. Shown["daily_notional"] = 0
      BY <2>2, RolledCounters DEF Shown
    <2>4. QED BY <2>1, <2>3 DEF RollsAtTheRoll, NoTally
  <1>2. Spec => []Base
    BY BaseInit, BaseNext, PTL DEF Spec
  <1>3. QED BY <1>1, <1>2, TallyNext, PTL DEF Spec

-------------------------------------------------------------------------------
(* The kill file *)

\* An order that a strategy has sent since the file appeared was the one it had
\* in hand: it has no other left to send.
KillInv ==
    killFile => \A s \in Strategies :
        /\ sinceKill[s] <= 1
        /\ sinceKill[s] = 1 =>
               \A j \in DOMAIN book : book[j].by = s => book[j].venue # "unsent"

\* The file stops every decision, and a decision is between any two sends of a
\* strategy.
LEMMA KillNext == Base /\ KillInv /\ [Next]_vars => KillInv'
  <1> SUFFICES ASSUME Base, KillInv, [Next]_vars PROVE KillInv'
    OBVIOUS
  <1>1. CASE \E s \in Strategies, side \in {"BUY", "SELL"} : Accepting(s, side)
    <2>1. PICK s \in Strategies, side \in {"BUY", "SELL"} : Accepting(s, side)
      BY <1>1
    <2>2. Accepts(side) /\ killFile' = killFile
      BY <2>1 DEF Accepting
    <2>3. IsFiniteSet(DOMAIN book) /\ Working \in SUBSET DOMAIN book
      BY BaseTypes, BookFields, FS_Interval DEF Working
    <2>4. Cardinality(Working) \in Int
      BY <2>3, FS_Subset, FS_CardinalityType
    <2>5. ~killFile
      BY <2>2, <2>4, AcceptedWithin
    <2>6. QED BY <2>2, <2>5 DEF KillInv
  <1>2. CASE \E i \in DOMAIN book, o \in BookOrder : Turning(i, o)
    <2>1. PICK i \in DOMAIN book, o \in BookOrder : Turning(i, o)
      BY <1>2
    <2>2. /\ Progress(book[i], o) /\ killFile' = killFile
          /\ (sinceKill' = sinceKill \/ Sending(i, o)) /\ \E g : Moves(book, book', g, i, o)
      BY <2>1 DEF Turning, Turns
    <2>3. PICK g : Moves(book, book', g, i, o)
      BY <2>1 DEF Turning, Turns
    <2>4. ASSUME NEW j \in DOMAIN book', book'[j].venue = "unsent"
          PROVE  /\ g[j] \in DOMAIN book /\ book[g[j]].by = book'[j].by
                 /\ book[g[j]].venue = "unsent" /\ (o.venue # "unsent" => g[j] # i)
      BY <2>2, <2>3, <2>4 DEF Moves, Progress
    <2> SUFFICES ASSUME killFile, NEW s \in Strategies
                 PROVE  /\ sinceKill'[s] <= 1
                        /\ sinceKill'[s] = 1 =>
                               \A j \in DOMAIN book' : book'[j].by = s => book'[j].venue # "unsent"
      BY <2>2 DEF KillInv
    <2>5. /\ sinceKill[s] <= 1 /\ sinceKill[s] \in Nat /\ sinceKill \in [Strategies -> Nat]
          /\ sinceKill[s] = 1 => \A j \in DOMAIN book : book[j].by = s => book[j].venue # "unsent"
      BY BaseTypes DEF KillInv
    <2>6. CASE sinceKill'[s] = sinceKill[s]
      BY <2>4, <2>5, <2>6
    <2>7. CASE sinceKill'[s] # sinceKill[s]
      <3>1. Sending(i, o)
        BY <2>2, <2>7
      <3>2. /\ book[i].venue = "unsent" /\ o.venue # "unsent"
            /\ sinceKill' = [sinceKill EXCEPT ![book[i].by] = @ + 1]
        BY <3>1 DEF Sending
      <3>3. s = book[i].by /\ sinceKill'[s] = sinceKill[s] + 1
        BY <2>5, <2>7, <3>2
      <3>4. sinceKill[s] = 0
        BY <2>5, <3>2, <3>3
      <3>5. ASSUME NEW j \in DOMAIN book', book'[j].by = s, book'[j].venue = "unsent"
            PROVE  FALSE
        <4>1. /\ g[j] \in DOMAIN book /\ book[g[j]].by = s /\ book[g[j]].venue = "unsent" /\ g[j] # i
          BY <2>4, <3>2, <3>5
        <4>2. book[g[j]].reported = Never /\ book[i].reported = Never
          BY <3>2, <4>1 DEF Base
        <4>3. QED BY <3>3, <4>1, <4>2 DEF Base
      <3>6. QED BY <3>3, <3>4, <3>5
    <2>8. QED BY <2>6, <2>7
  <1>3. CASE Quiet
    <2>1. CASE killFile' = killFile /\ sinceKill' = sinceKill
      BY <1>3, <2>1 DEF Quiet, KillInv
    <2>2. CASE \A s \in Strategies : sinceKill'[s] = 0
      BY <2>2 DEF KillInv
    <2>3. QED BY <1>3, <2>1, <2>2 DEF Quiet
  <1>4. QED BY <1>1, <1>2, <1>3, SessionStep

\* While the kill file is there a strategy sends at most the one order it had in
\* hand when the file appeared.
THEOREM KillFileStops == Spec => []KillStops
  <1>1. Init => KillInv
    BY DEF Init, KillInv
  <1>2. KillInv => KillStops
    BY DEF KillInv, KillStops
  <1>3. Spec => []Base
    BY BaseInit, BaseNext, PTL DEF Spec
  <1>4. QED BY <1>1, <1>2, <1>3, KillNext, PTL DEF Spec

-------------------------------------------------------------------------------
(* What is out *)

\* Orders that can be out at once.
Out == MaxWorking + Cardinality(Strategies) - 1

\* A new order is one more that is not reported and one more that may trade, and
\* nothing of the side it is not on.
LEMMA AppendedSets ==
    ASSUME NEW q \in Seq(BookOrder), NEW e \in BookOrder, NEW sides
    PROVE  /\ Cardinality(UnreportedIn(Append(q, e))) <= Cardinality(UnreportedIn(q)) + 1
           /\ Cardinality(AliveIn(Append(q, e))) <= Cardinality(AliveIn(q)) + 1
           /\ e.side \notin sides =>
                  Cardinality(UnitsIn(Append(q, e), sides)) <= Cardinality(UnitsIn(q, sides))
  <1> DEFINE r == Append(q, e)
             n == Len(q) + 1
  <1>1. /\ r \in Seq(BookOrder) /\ DOMAIN q = 1 .. Len(q) /\ r[n] = e
        /\ \A j \in 1 .. Len(q) : r[j] = q[j]
        /\ \A j \in DOMAIN r : j \in DOMAIN q \/ j = n
    BY Appended
  <1> HIDE DEF r, n
  <1>2. UnreportedIn(r) \subseteq UnreportedIn(q) \cup {n}
    BY <1>1 DEF UnreportedIn
  <1>3. AliveIn(r) \subseteq AliveIn(q) \cup {n}
    BY <1>1 DEF AliveIn
  <1>4. ASSUME NEW S, IsFiniteSet(S), NEW T \in SUBSET (S \cup {n})
        PROVE  Cardinality(T) <= Cardinality(S) + 1
    <2>1. IsFiniteSet(S \cup {n}) /\ Cardinality(T) <= Cardinality(S \cup {n})
      BY <1>4, FS_AddElement, FS_Subset
    <2>2. Cardinality(S) \in Nat /\ Cardinality(T) \in Nat /\ Cardinality(S \cup {n}) \in Nat
      BY <1>4, <2>1, FS_Subset, FS_CardinalityType
    <2>3. Cardinality(S \cup {n}) = IF n \in S THEN Cardinality(S) ELSE Cardinality(S) + 1
      BY <1>4, FS_AddElement
    <2>4. QED BY <2>1, <2>2, <2>3
  <1>5. ASSUME e.side \notin sides
        PROVE  Cardinality(UnitsIn(r, sides)) <= Cardinality(UnitsIn(q, sides))
    <2>1. UnitsIn(r, sides) \subseteq UnitsIn(q, sides)
      <3> SUFFICES ASSUME NEW u \in UnitsIn(r, sides) PROVE u \in UnitsIn(q, sides)
        OBVIOUS
      <3>1. /\ u \in AliveIn(r) \X (1 .. Quantity) /\ u[1] \in AliveIn(r) /\ u[2] \in 1 .. Quantity
            /\ r[u[1]].side \in sides /\ u[2] <= r[u[1]].left /\ u = <<u[1], u[2]>>
        BY DEF UnitsIn
      <3>2. u[1] \in DOMAIN r /\ r[u[1]].venue # "closed"
        BY <3>1 DEF AliveIn
      <3>3. u[1] # n
        BY <1>1, <1>5, <3>1
      <3>4. u[1] \in DOMAIN q /\ r[u[1]] = q[u[1]]
        BY <1>1, <3>2, <3>3
      <3>5. QED BY <3>1, <3>2, <3>4 DEF UnitsIn, AliveIn
    <2>2. IsFiniteSet(UnitsIn(q, sides))
      BY BookSets
    <2>3. QED BY <2>1, <2>2, FS_Subset
  <1>6. IsFiniteSet(UnreportedIn(q)) /\ IsFiniteSet(AliveIn(q))
    BY BookSets
  <1>7. QED BY <1>2, <1>3, <1>4, <1>5, <1>6 DEF r

\* Each strategy has one order at most that it has not reported; a strategy that
\* evaluates has none.
LEMMA UnreportedBound ==
    ASSUME Base
    PROVE  /\ Cardinality(UnreportedIn(book)) \in Nat
           /\ Cardinality(UnreportedIn(book)) <= Cardinality(Strategies)
           /\ \A s \in Strategies : InHand(s) = {} =>
                  Cardinality(UnreportedIn(book)) <= Cardinality(Strategies) - 1
  <1> DEFINE T == UnreportedIn(book)
             f == [j \in T |-> book[j].by]
  <1>1. book \in Seq(BookOrder) /\ \A j \in DOMAIN book : book[j].by \in Strategies
    BY BaseTypes, BookFields
  <1>2. \A j \in T : j \in DOMAIN book /\ book[j].reported = Never /\ f[j] = book[j].by
    BY DEF UnreportedIn
  <1>3. \A j, k \in T : f[j] = f[k] => j = k
    BY <1>2 DEF Base
  <1>4. f \in [T -> Strategies]
    BY <1>1, <1>2
  <1>5. ASSUME NEW s \in Strategies, InHand(s) = {}
        PROVE  f \in [T -> Strategies \ {s}]
    BY <1>1, <1>2, <1>5 DEF InHand
  <1> HIDE DEF T, f
  <1>6. IsFiniteSet(Strategies) /\ Cardinality(Strategies) \in Nat
    BY Constants
  <1>7. Cardinality(T) \in Nat /\ Cardinality(T) <= Cardinality(Strategies)
    BY <1>3, <1>4, <1>6, OneToOne
  <1>8. ASSUME NEW s \in Strategies, InHand(s) = {}
        PROVE  Cardinality(T) <= Cardinality(Strategies) - 1
    <2>1. /\ IsFiniteSet(Strategies \ {s})
          /\ Cardinality(Strategies \ {s}) = Cardinality(Strategies) - 1
      BY <1>6, FS_RemoveElement
    <2>2. Cardinality(T) <= Cardinality(Strategies \ {s})
      BY <1>3, <1>5, <1>8, <2>1, OneToOne
    <2>3. QED BY <2>1, <2>2
  <1>9. QED BY <1>7, <1>8 DEF T

\* An order that may trade is counted by the order manager or not reported.
LEMMA AliveBound ==
    ASSUME Base
    PROVE  /\ Cardinality(Working) \in Nat /\ Cardinality(AliveIn(book)) \in Nat
           /\ Cardinality(AliveIn(book)) <= Cardinality(Working) + Cardinality(UnreportedIn(book))
  <1>1. /\ IsFiniteSet(DOMAIN book) /\ Working \in SUBSET DOMAIN book
        /\ book \in Seq(BookOrder)
    BY BaseTypes, BookFields, FS_Interval DEF Working
  <1>2. IsFiniteSet(Working) /\ Cardinality(Working) \in Nat
    BY <1>1, FS_Subset, FS_CardinalityType
  <1>3. /\ IsFiniteSet(UnreportedIn(book)) /\ Cardinality(UnreportedIn(book)) \in Nat
        /\ IsFiniteSet(AliveIn(book)) /\ Cardinality(AliveIn(book)) \in Nat
    BY <1>1, BookSets
  <1>4. AliveIn(book) \subseteq Working \cup UnreportedIn(book)
    BY DEF AliveIn, Working, UnreportedIn
  <1>5. /\ IsFiniteSet(Working \cup UnreportedIn(book))
        /\ Cardinality(Working \cup UnreportedIn(book)) =
              Cardinality(Working) + Cardinality(UnreportedIn(book))
                - Cardinality(Working \cap UnreportedIn(book))
    BY <1>2, <1>3, FS_Union
  <1>6. Cardinality(Working \cap UnreportedIn(book)) \in Nat
    BY <1>2, FS_Intersection, FS_CardinalityType
  <1>7. Cardinality(AliveIn(book)) <= Cardinality(Working \cup UnreportedIn(book))
    BY <1>4, <1>5, FS_Subset
  <1>8. QED BY <1>2, <1>3, <1>5, <1>6, <1>7

\* An order that is accepted finds the limits with room, and is the last that
\* may be out at once.
LEMMA AcceptingWithin ==
    ASSUME Base, NEW s \in Strategies, NEW side \in {"BUY", "SELL"}, Accepting(s, side)
    PROVE  /\ Shown["rejects"] < MaxRejects /\ Shown["executions"] < MaxExecutions
           /\ Shown["daily_notional"] + Quantity <= DailyNotionalLimit
           /\ Cardinality(AliveIn(book')) \in Nat /\ Cardinality(AliveIn(book')) <= Out
           /\ Cardinality(UnreportedIn(book')) \in Nat
           /\ Cardinality(UnreportedIn(book')) <= Cardinality(Strategies)
           /\ \A other \in {"BUY", "SELL"} \ {side} :
                  Cardinality(UnitsIn(book', {other})) <= Cardinality(UnitsIn(book, {other}))
  <1> DEFINE e == NewOrder(s, side)
  <1>1. InHand(s) = {} /\ Accepts(side) /\ book' = Append(book, e)
    BY DEF Accepting
  <1>2. e \in BookOrder /\ e.side = side /\ book \in Seq(BookOrder)
    BY NewOrderIs, BaseTypes
  <1> HIDE DEF e
  <1>3. /\ Cardinality(UnreportedIn(book')) <= Cardinality(UnreportedIn(book)) + 1
        /\ Cardinality(AliveIn(book')) <= Cardinality(AliveIn(book)) + 1
    BY <1>1, <1>2, AppendedSets
  <1>4. ASSUME NEW other \in {"BUY", "SELL"} \ {side}
        PROVE  Cardinality(UnitsIn(book', {other})) <= Cardinality(UnitsIn(book, {other}))
    <2>1. e.side \notin {other}
      BY <1>2
    <2>2. QED BY <1>1, <1>2, <2>1, AppendedSets
  <1>5. /\ Cardinality(Working) \in Nat /\ Cardinality(AliveIn(book)) \in Nat
        /\ Cardinality(AliveIn(book)) <= Cardinality(Working) + Cardinality(UnreportedIn(book))
        /\ Cardinality(UnreportedIn(book)) \in Nat
        /\ Cardinality(UnreportedIn(book)) <= Cardinality(Strategies) - 1
    BY <1>1, AliveBound, UnreportedBound
  <1>6. /\ Shown["rejects"] < MaxRejects /\ Shown["executions"] < MaxExecutions
        /\ Cardinality(Working) < MaxWorking
        /\ Shown["daily_notional"] + Quantity <= DailyNotionalLimit
    BY <1>1, <1>5, AcceptedWithin
  <1>7. Cardinality(AliveIn(book')) \in Nat /\ Cardinality(UnreportedIn(book')) \in Nat
    <2>1. book' \in Seq(BookOrder)
      BY <1>1, <1>2, Appended
    <2>2. QED BY <2>1, BookSets
  <1>8. QED BY <1>3, <1>4, <1>5, <1>6, <1>7, Constants DEF Out

\* The orders that may trade are those the properties call Alive.
LEMMA AliveIs == Alive = AliveIn(book)
  BY DEF Alive, AliveIn

\* What an order turns into is out no more than it was.
LEMMA TurningSets ==
    ASSUME Base, NEW i \in DOMAIN book, NEW o \in BookOrder, Turning(i, o)
    PROVE  /\ Cardinality(UnreportedIn(book')) \in Nat
           /\ Cardinality(UnreportedIn(book')) <= Cardinality(UnreportedIn(book))
           /\ Reporting(i, o) => Cardinality(UnreportedIn(book')) <= Cardinality(UnreportedIn(book)) - 1
           /\ Cardinality(AliveIn(book')) \in Nat
           /\ Cardinality(AliveIn(book')) <= Cardinality(AliveIn(book))
           /\ Rejecting(i, o) => Cardinality(AliveIn(book')) <= Cardinality(AliveIn(book)) - 1
           /\ \A sides : /\ Cardinality(UnitsIn(book', sides)) \in Nat
                         /\ Cardinality(UnitsIn(book', sides)) <= Cardinality(UnitsIn(book, sides))
  <1>1. book \in Seq(BookOrder)
    BY BaseTypes
  <1>2. Progress(book[i], o) /\ \E g : Moves(book, book', g, i, o)
    BY DEF Turning, Turns
  <1>3. PICK r : r = book'
    OBVIOUS
  <1>4. PICK g : Moves(book, r, g, i, o)
    BY <1>2, <1>3
  <1>5. o.left \in Int /\ o.left >= 0
    BY Constants DEF BookOrder
  <1>6. /\ Cardinality(UnreportedIn(r)) \in Nat
        /\ Cardinality(UnreportedIn(r)) <= Cardinality(UnreportedIn(book))
        /\ Reporting(i, o) => Cardinality(UnreportedIn(r)) <= Cardinality(UnreportedIn(book)) - 1
    BY <1>1, <1>2, <1>4, UnreportedCarried DEF Reporting
  <1>7. /\ Cardinality(AliveIn(r)) \in Nat
        /\ Cardinality(AliveIn(r)) <= Cardinality(AliveIn(book))
        /\ Rejecting(i, o) => Cardinality(AliveIn(r)) <= Cardinality(AliveIn(book)) - 1
    BY <1>1, <1>2, <1>4, AliveCarried DEF Rejecting
  <1>8. ASSUME NEW sides
        PROVE  /\ Cardinality(UnitsIn(r, sides)) \in Nat
               /\ Cardinality(UnitsIn(r, sides)) <= Cardinality(UnitsIn(book, sides))
    <2>1. /\ Cardinality(UnitsIn(r, sides)) \in Nat
          /\ Cardinality(UnitsIn(r, sides)) <= Cardinality(UnitsIn(book, sides)) - 0
      BY <1>1, <1>2, <1>4, <1>5, UnitsCarried
    <2>2. Cardinality(UnitsIn(book, sides)) \in Nat
      BY <1>1, BookSets
    <2>3. QED BY <2>1, <2>2
  <1>9. QED BY <1>3, <1>6, <1>7, <1>8

\* An order that trades has that much less to trade.
LEMMA FillingSets ==
    ASSUME Base, NEW i \in DOMAIN book, NEW o \in BookOrder, Turning(i, o), NEW n \in Nat,
           book[i].venue # "closed", o.left = book[i].left - n,
           NEW sides, book[i].side \in sides
    PROVE  Cardinality(UnitsIn(book', sides)) <= Cardinality(UnitsIn(book, sides)) - n
  <1>1. book \in Seq(BookOrder)
    BY BaseTypes
  <1>2. Progress(book[i], o) /\ \E g : Moves(book, book', g, i, o)
    BY DEF Turning, Turns
  <1>3. PICK r : r = book'
    OBVIOUS
  <1>4. PICK g : Moves(book, r, g, i, o)
    BY <1>2, <1>3
  <1>5. o.left \in Int /\ o.left >= 0
    BY Constants DEF BookOrder
  <1>6. Cardinality(UnitsIn(r, sides)) <= Cardinality(UnitsIn(book, sides)) - n
    BY <1>1, <1>2, <1>4, <1>5, UnitsCarried
  <1>7. QED BY <1>3, <1>6

-------------------------------------------------------------------------------
(* The working-order limit *)

\* Only a decision adds to what is out, and it leaves it within the bound.
LEMMA WorkingNext == Base /\ WorkingOvershoot /\ [Next]_vars => WorkingOvershoot'
  <1> SUFFICES ASSUME Base, WorkingOvershoot, [Next]_vars PROVE WorkingOvershoot'
    OBVIOUS
  <1>1. /\ Cardinality(AliveIn(book)) <= Out /\ Cardinality(AliveIn(book)) \in Nat /\ Out \in Int
        /\ WorkingOvershoot' <=> Cardinality(AliveIn(book')) <= Out
    BY AliveBound, AliveIs, Constants DEF WorkingOvershoot, Out, Alive, AliveIn
  <1>2. ASSUME NEW s \in Strategies, NEW side \in {"BUY", "SELL"}, Accepting(s, side)
        PROVE  WorkingOvershoot'
    BY <1>1, <1>2, AcceptingWithin
  <1>3. ASSUME NEW i \in DOMAIN book, NEW o \in BookOrder, Turning(i, o)
        PROVE  WorkingOvershoot'
    BY <1>1, <1>3, TurningSets
  <1>4. CASE Quiet
    BY <1>1, <1>4 DEF Quiet
  <1>5. QED BY <1>2, <1>3, <1>4, SessionStep

\* An empty book has nothing out.
LEMMA EmptyBook ==
    ASSUME Init
    PROVE  /\ Cardinality(AliveIn(book)) = 0 /\ Cardinality(UnreportedIn(book)) = 0
           /\ \A sides : Cardinality(UnitsIn(book, sides)) = 0
           /\ Shown["rejects"] = 0 /\ Shown["executions"] = 0 /\ Shown["daily_notional"] = 0
  <1>1. DOMAIN book = {}
    BY DEF Init
  <1>2. /\ AliveIn(book) = {} /\ UnreportedIn(book) = {}
        /\ \A sides : UnitsIn(book, sides) = {}
    BY <1>1 DEF AliveIn, UnreportedIn, UnitsIn
  <1>3. mem = NewMem(Today) /\ Today \in Int
    BY BaseInit, BaseTypes DEF Init
  <1>4. /\ mem \in [Key -> Int] /\ mem["trading_day"] = Today
        /\ mem["rejects"] = 0 /\ mem["executions"] = 0 /\ mem["daily_notional"] = 0
    BY <1>3 DEF NewMem, Key
  <1>5. Shown = mem
    BY <1>3, <1>4, RolledCounters DEF Shown
  <1>6. QED BY <1>2, <1>4, <1>5, FS_EmptySet

\* Orders in flight overshoot the working-order limit by no more than one for
\* each strategy but one.
THEOREM WorkingOvershootBounded == Spec => []WorkingOvershoot
  <1>1. Init => WorkingOvershoot
    BY EmptyBook, AliveIs, Constants DEF WorkingOvershoot
  <1>2. Spec => []Base
    BY BaseInit, BaseNext, PTL DEF Spec
  <1>3. QED BY <1>1, <1>2, WorkingNext, PTL DEF Spec

-------------------------------------------------------------------------------
(* The throttles *)

\* Every event that moves a throttle uses up what is out: a fill uses up units,
\* a rejection an order.
ThrottlesInv ==
    /\ Shown["executions"] + Cardinality(UnitsIn(book, {"BUY", "SELL"}))
           <= MaxExecutions - 1 + Quantity * Out
    /\ Shown["rejects"] + Cardinality(AliveIn(book)) <= MaxRejects - 1 + Out

\* No more can be out than the units of all orders.
LEMMA UnitsOut ==
    ASSUME NEW q \in Seq(BookOrder), NEW sides, Cardinality(AliveIn(q)) <= Out
    PROVE  Cardinality(UnitsIn(q, sides)) <= Quantity * Out
  <1>1. /\ Cardinality(AliveIn(q)) \in Nat /\ Cardinality(UnitsIn(q, sides)) \in Nat
        /\ Cardinality(UnitsIn(q, sides)) <= Cardinality(AliveIn(q)) * Quantity
    BY BookSets
  <1>2. Quantity \in Nat /\ Out \in Int
    BY Constants DEF Out
  <1>3. ASSUME NEW a \in Int, NEW b \in Int, NEW c \in Nat, a <= b
        PROVE  a * c <= c * b
    BY <1>3
  <1>4. Cardinality(AliveIn(q)) * Quantity <= Quantity * Out
    BY <1>1, <1>2, <1>3
  <1>5. Cardinality(AliveIn(q)) * Quantity \in Int /\ Quantity * Out \in Int
    BY <1>1, <1>2
  <1>6. QED BY <1>1, <1>4, <1>5

\* A decision is taken below the limits, a re-arm or a roll starts from nothing.
LEMMA ThrottlesNext ==
    Base /\ WorkingOvershoot /\ ThrottlesInv /\ [Next]_vars => ThrottlesInv'
  <1> SUFFICES ASSUME Base, WorkingOvershoot, ThrottlesInv, [Next]_vars PROVE ThrottlesInv'
    OBVIOUS
  <1> DEFINE e == Shown["executions"]
             r == Shown["rejects"]
             u == Cardinality(UnitsIn(book, {"BUY", "SELL"}))
             a == Cardinality(AliveIn(book))
             ee == Shown'["executions"]
             rr == Shown'["rejects"]
             uu == Cardinality(UnitsIn(book', {"BUY", "SELL"}))
             aa == Cardinality(AliveIn(book'))
             m == Quantity * Out
  <1>1. /\ e \in Nat /\ r \in Nat /\ u \in Nat /\ a \in Nat /\ a <= Out /\ Out \in Int /\ m \in Int
        /\ MaxExecutions \in Nat /\ MaxExecutions > 0 /\ MaxRejects \in Nat /\ MaxRejects > 0
        /\ e + u <= MaxExecutions - 1 + m /\ r + a <= MaxRejects - 1 + Out
    <2>1. u \in Nat
      BY BaseTypes, BookSets
    <2>2. a \in Nat /\ a <= Out
      BY AliveBound, AliveIs DEF WorkingOvershoot, Out
    <2>3. Quantity \in Nat /\ Out \in Int
      BY Constants DEF Out
    <2>4. m \in Int
      BY <2>3
    <2>5. QED BY <2>1, <2>2, <2>3, <2>4, BaseTypes, Constants DEF ThrottlesInv
  <1>2. u <= m
    <2>1. book \in Seq(BookOrder)
      BY BaseTypes
    <2>2. QED BY <1>1, <2>1, UnitsOut
  <1>3. SUFFICES ee + uu <= MaxExecutions - 1 + m /\ rr + aa <= MaxRejects - 1 + Out
    BY DEF ThrottlesInv, Out
  <1>4. ASSUME NEW s \in Strategies, NEW side \in {"BUY", "SELL"}, Accepting(s, side)
        PROVE  ee + uu <= MaxExecutions - 1 + m /\ rr + aa <= MaxRejects - 1 + Out
    <2>1. e < MaxExecutions /\ r < MaxRejects /\ aa \in Nat /\ aa <= Out
      BY <1>4, AcceptingWithin
    <2>2. book' \in Seq(BookOrder)
      <3>1. Base'
        BY BaseNext
      <3>2. QED BY <3>1 DEF Base, TypeOK, BookOrder
    <2>3. uu <= m
      BY <2>1, <2>2, UnitsOut
    <2>4. uu \in Nat
      BY <2>2, BookSets
    <2>5. ee = e /\ rr = r
      BY <1>4 DEF Accepting
    <2> HIDE DEF e, r, u, a, ee, rr, uu, aa, m
    <2>6. QED BY <1>1, <2>1, <2>3, <2>4, <2>5
  <1>5. ASSUME NEW i \in DOMAIN book, NEW o \in BookOrder, Turning(i, o)
        PROVE  ee + uu <= MaxExecutions - 1 + m /\ rr + aa <= MaxRejects - 1 + Out
    <2>1. uu \in Nat /\ uu <= u /\ aa \in Nat /\ aa <= a
      BY <1>5, TurningSets
    <2>2. rr = 0 \/ rr = r \/ (rr = r + 1 /\ aa <= a - 1)
      BY <1>5, TurningSets DEF Turning, Rejecting
    <2>3. ee = e \/ (ee = e + 1 /\ uu <= u - 1)
      <3>1. CASE ee = e
        BY <3>1
      <3>2. CASE Filling(i, o)
        <4>1. PICK n \in Nat \ {0} : /\ book[i].venue # "closed" /\ o.left = book[i].left - n
                                     /\ ee = e + 1
          BY <3>2 DEF Filling
        <4>2. book[i].side \in {"BUY", "SELL"}
          BY BaseTypes, BookFields
        <4>3. uu <= u - n
          <5>1. n \in Nat /\ book[i].venue # "closed" /\ o.left = book[i].left - n
            BY <4>1
          <5>2. QED BY <1>5, <4>2, <5>1, FillingSets
        <4> HIDE DEF e, ee, u, uu
        <4>4. QED BY <1>1, <2>1, <4>1, <4>3
      <3>3. QED BY <1>5, <3>1, <3>2 DEF Turning
    <2> HIDE DEF e, r, u, a, ee, rr, uu, aa, m
    <2>4. QED BY <1>1, <2>1, <2>2, <2>3
  <1>6. CASE Quiet
    <2>1. uu = u /\ aa = a /\ rr \in {0, r} /\ ee \in {0, e}
      BY <1>6 DEF Quiet
    <2> HIDE DEF e, r, u, a, ee, rr, uu, aa, m
    <2>2. QED BY <1>1, <1>2, <2>1
  <1> HIDE DEF e, r, u, a, ee, rr, uu, aa, m
  <1>7. QED BY <1>4, <1>5, <1>6, SessionStep

\* A throttle that has tripped is moved only by the orders already out: by a
\* fill for each unit of them, by a rejection each.
THEOREM ThrottlesOvershootBounded == Spec => []ThrottlesOvershoot
  <1>1. Init => WorkingOvershoot /\ ThrottlesInv
    <2> SUFFICES ASSUME Init PROVE WorkingOvershoot /\ ThrottlesInv
      OBVIOUS
    <2>1. Quantity \in Nat /\ Out \in Nat
      BY Constants DEF Out
    <2>2. Quantity * Out \in Nat
      BY <2>1
    <2>3. WorkingOvershoot
      BY EmptyBook, AliveIs, Constants DEF WorkingOvershoot
    <2>4. QED BY <2>1, <2>2, <2>3, EmptyBook, Constants DEF ThrottlesInv
  <1>2. Base /\ ThrottlesInv => ThrottlesOvershoot
    <2> SUFFICES ASSUME Base, ThrottlesInv PROVE ThrottlesOvershoot
      OBVIOUS
    <2>1. book \in Seq(BookOrder) /\ Shown["executions"] \in Nat /\ Shown["rejects"] \in Nat
      BY BaseTypes
    <2>2. Cardinality(UnitsIn(book, {"BUY", "SELL"})) \in Nat /\ Cardinality(AliveIn(book)) \in Nat
      BY <2>1, BookSets
    <2>3. Quantity \in Nat /\ Out \in Nat
      BY Constants DEF Out
    <2>4. Quantity * Out \in Nat
      BY <2>3
    <2>5. /\ Shown["executions"] <= MaxExecutions - 1 + Quantity * Out
          /\ Shown["rejects"] <= MaxRejects - 1 + Out
      BY <2>1, <2>2, <2>3, <2>4, Constants DEF ThrottlesInv
    <2>6. QED BY <2>5 DEF ThrottlesOvershoot, Out
  <1>3. Spec => []Base
    BY BaseInit, BaseNext, PTL DEF Spec
  <1>4. QED BY <1>1, <1>2, <1>3, WorkingNext, ThrottlesNext, PTL DEF Spec

-------------------------------------------------------------------------------
(* The notional of the day *)

\* What the counters show leaves room for every order not reported, all but
\* those of the strategies that decided before the last one.  Where an order is
\* worth more than the limit none is ever accepted.
NotionalInv ==
    /\ Shown["daily_notional"] + Quantity * Cardinality(UnreportedIn(book))
           <= DailyNotionalLimit + Quantity * (Cardinality(Strategies) - 1)
    /\ Quantity <= DailyNotionalLimit \/ (book = <<>> /\ Shown["daily_notional"] = 0)

\* A report uses up the room its decision found; what is handed back only adds
\* to it.
LEMMA NotionalNext == Base /\ NotionalInv /\ [Next]_vars => NotionalInv'
  <1> SUFFICES ASSUME Base, NotionalInv, [Next]_vars PROVE NotionalInv'
    OBVIOUS
  <1> DEFINE S == Cardinality(Strategies)
             L == DailyNotionalLimit
             Q == Quantity
             d == Shown["daily_notional"]
             u == Cardinality(UnreportedIn(book))
             dd == Shown'["daily_notional"]
             uu == Cardinality(UnreportedIn(book'))
  <1>1. /\ S \in Nat /\ S > 0 /\ L \in Nat /\ Q \in Nat /\ Q > 0 /\ d \in Int /\ u \in Nat /\ u <= S
        /\ Q <= L \/ (book = <<>> /\ d = 0)
    BY Constants, BaseTypes, UnreportedBound DEF NotionalInv
  <1>2. d + Q * u <= L + Q * (S - 1)
    BY DEF NotionalInv
  <1>3. ASSUME NEW x \in Int, NEW y \in Int, x <= y PROVE Q * x <= Q * y /\ Q * x \in Int /\ Q * y \in Int
    BY <1>1, <1>3
  <1>4. SUFFICES /\ dd + Q * uu <= L + Q * (S - 1)
                 /\ Q <= L \/ (book' = <<>> /\ dd = 0)
    BY DEF NotionalInv
  <1>5. ASSUME NEW s \in Strategies, NEW side \in {"BUY", "SELL"}, Accepting(s, side)
        PROVE  /\ dd + Q * uu <= L + Q * (S - 1)
               /\ Q <= L \/ (book' = <<>> /\ dd = 0)
    <2>1. d + Q <= L /\ uu \in Nat /\ uu <= S /\ dd = d
      BY <1>5, AcceptingWithin DEF Accepting
    <2> HIDE DEF S, L, Q, d, u, dd, uu
    <2>2. Q * uu <= Q * S /\ Q * uu \in Int /\ Q * S \in Int
      BY <1>1, <1>3, <2>1
    <2>3. Q * (S - 1) = Q * S - Q
      BY <1>1
    <2>4. QED BY <1>1, <2>1, <2>2, <2>3
  <1>6. ASSUME NEW i \in DOMAIN book, NEW o \in BookOrder, Turning(i, o)
        PROVE  /\ dd + Q * uu <= L + Q * (S - 1)
               /\ Q <= L \/ (book' = <<>> /\ dd = 0)
    <2>1. book # <<>>
      OBVIOUS
    <2>2. uu \in Nat /\ uu <= u
      BY <1>6, TurningSets
    <2>3. \/ dd = d
          \/ dd = d + Q /\ uu <= u - 1
          \/ \E n \in Nat : dd = d - n
      BY <1>6, TurningSets DEF Turning, SameNotional, Reporting, HandingBack
    <2> HIDE DEF S, L, Q, d, u, dd, uu
    <2>4. Q * uu <= Q * u /\ Q * uu \in Int /\ Q * u \in Int
      BY <1>1, <1>3, <2>2
    <2>5. uu <= u - 1 => Q * uu <= Q * u - Q
      <3> SUFFICES ASSUME uu <= u - 1 PROVE Q * uu <= Q * u - Q
        OBVIOUS
      <3>1. Q * uu <= Q * (u - 1)
        BY <1>1, <1>3, <2>2
      <3>2. Q * (u - 1) = Q * u - Q
        BY <1>1
      <3>3. QED BY <3>1, <3>2
    <2>6. Q * (S - 1) \in Int
      BY <1>1
    <2>7. dd + Q * uu <= d + Q * u
      BY <1>1, <2>3, <2>4, <2>5
    <2>8. dd \in Int
      BY <1>1, <2>3
    <2>9. QED BY <1>1, <1>2, <2>1, <2>4, <2>6, <2>7, <2>8
  <1>7. CASE Quiet
    <2>1. book' = book /\ uu = u /\ (dd = d \/ dd = 0)
      BY <1>7 DEF Quiet, SameNotional
    <2>2. book = <<>> => u = 0
      BY FS_EmptySet DEF UnreportedIn
    <2> HIDE DEF S, L, Q, d, u, dd, uu
    <2>3. CASE dd = d
      BY <1>1, <1>2, <2>1, <2>3
    <2>4. CASE dd = 0
      <3>1. Q * u <= Q * S /\ Q * u \in Int /\ Q * S \in Int /\ Q * (S - 1) = Q * S - Q
        BY <1>1, <1>3
      <3>2. u = 0 => Q * u = 0
        BY <1>1
      <3>3. Q * (S - 1) >= 0 /\ Q * (S - 1) \in Int
        BY <1>1
      <3>4. QED BY <1>1, <2>1, <2>2, <2>4, <3>1, <3>2, <3>3
    <2>5. QED BY <2>1, <2>3, <2>4
  <1> HIDE DEF S, L, Q, d, u, dd, uu
  <1>8. QED BY <1>5, <1>6, <1>7, SessionStep

\* What the orders reported on a trading day may trade exceeds the limit by one
\* order for each strategy but one, and by what earlier days handed back.
THEOREM NotionalOvershootBounded == Spec => []NotionalOvershoot
  <1>1. Init => NotionalInv
    <2> SUFFICES ASSUME Init PROVE NotionalInv
      OBVIOUS
    <2>1. book = <<>> /\ Shown["daily_notional"] = 0 /\ Cardinality(UnreportedIn(book)) = 0
      BY EmptyBook DEF Init
    <2>2. Quantity * 0 = 0
      BY Constants
    <2>3. Quantity * (Cardinality(Strategies) - 1) \in Nat
      <3>1. Quantity \in Nat /\ Cardinality(Strategies) - 1 \in Nat
        BY Constants
      <3> DEFINE x == Cardinality(Strategies) - 1
      <3> HIDE DEF x
      <3>2. Quantity * x \in Nat
        BY <3>1 DEF x
      <3>3. QED BY <3>2 DEF x
    <2>4. QED BY <2>1, <2>2, <2>3, Constants DEF NotionalInv
  <1>2. Base /\ NotionalInv /\ RollsAtTheRoll => NotionalOvershoot
    <2> SUFFICES ASSUME Base, NotionalInv, RollsAtTheRoll PROVE NotionalOvershoot
      OBVIOUS
    <2> DEFINE m == Quantity * (Cardinality(Strategies) - 1)
               w == Quantity * Cardinality(UnreportedIn(book))
    <2>1. w \in Nat /\ m \in Int
      <3>1. Cardinality(UnreportedIn(book)) \in Nat /\ Quantity \in Nat /\ Cardinality(Strategies) - 1 \in Int
        BY UnreportedBound, Constants
      <3>2. ASSUME NEW a \in Nat, NEW b \in Nat PROVE a * b \in Nat
        BY <3>2
      <3>3. ASSUME NEW a \in Nat, NEW b \in Int PROVE a * b \in Int
        BY <3>3
      <3>4. QED BY <3>1, <3>2, <3>3
    <2>2. Shown["daily_notional"] + w <= DailyNotionalLimit + m
      BY DEF NotionalInv
    <2> HIDE DEF m, w
    <2>3. tally.reported - tally.back <= DailyNotionalLimit + m + tally.foreign
      <3> DEFINE d == Shown["daily_notional"]
                 x == tally.reported
                 y == tally.back
                 z == tally.foreign
      <3>1. x \in Nat /\ y \in Nat /\ z \in Nat /\ d = x - y - z /\ DailyNotionalLimit \in Nat
        BY BaseTypes, Constants DEF RollsAtTheRoll
      <3>2. d + w <= DailyNotionalLimit + m
        BY <2>2
      <3> HIDE DEF d, x, y, z
      <3>3. x - y <= DailyNotionalLimit + m + z
        BY <2>1, <3>1, <3>2
      <3>4. QED BY <3>3 DEF x, y, z
    <2>4. QED BY <2>3 DEF NotionalOvershoot, m
  <1>3. Spec => []Base
    BY BaseInit, BaseNext, PTL DEF Spec
  <1>4. QED BY <1>1, <1>2, <1>3, NotionalNext, CountersRollAtTheRoll, PTL DEF Spec

-------------------------------------------------------------------------------
(* The position *)

\* What is pending on a side are the units of that side.
LEMMA PendingIs ==
    ASSUME NEW side
    PROVE  Pending(side) = Cardinality(UnitsIn(book, {side}))
  <1>1. {u \in Alive \X (1 .. Quantity) : book[u[1]].side = side /\ u[2] <= book[u[1]].left}
            = UnitsIn(book, {side})
    BY DEF Alive, AliveIn, UnitsIn
  <1>2. QED BY <1>1 DEF Pending

\* The same of the two sides.
LEMMA PendingSides ==
    /\ Pending("BUY") = Cardinality(UnitsIn(book, {"BUY"}))
    /\ Pending("SELL") = Cardinality(UnitsIn(book, {"SELL"}))
  BY PendingIs

\* A fill moves its units from what is pending to the position; a decision
\* leaves room for its own order and knows nothing of the others.
LEMMA PositionNext ==
    Base /\ WorkingOvershoot /\ PositionOvershoot /\ [Next]_vars => PositionOvershoot'
  <1> SUFFICES ASSUME Base, WorkingOvershoot, PositionOvershoot, [Next]_vars
               PROVE  PositionOvershoot'
    OBVIOUS
  <1> DEFINE p == position
             b == Cardinality(UnitsIn(book, {"BUY"}))
             s == Cardinality(UnitsIn(book, {"SELL"}))
             pp == position'
             bb == Cardinality(UnitsIn(book', {"BUY"}))
             ss == Cardinality(UnitsIn(book', {"SELL"}))
             w == MaxPosition + Quantity * (Out - 1)
             Q == Quantity
  <1>1. Pending("BUY") = b /\ Pending("SELL") = s
    BY PendingIs
  <1>2. (Pending("BUY") = b)' /\ (Pending("SELL") = s)'
    BY PendingSides, PTL
  <1>3. w = MaxPosition + Quantity * (MaxWorking + Cardinality(Strategies) - 2)
    BY Constants DEF Out
  <1>4. /\ p \in Int /\ b \in Nat /\ s \in Nat /\ Q \in Nat
        /\ p + b <= w /\ s - p <= w
    <2>1. p \in Int /\ b \in Nat /\ s \in Nat /\ Q \in Nat
      BY BaseTypes, BookSets, Constants
    <2>2. p + b <= w /\ s - p <= w
      BY <1>1, <1>3 DEF PositionOvershoot
    <2>3. QED BY <2>1, <2>2
  <1>5. Base' /\ book' \in Seq(BookOrder) /\ pp \in Int /\ bb \in Nat /\ ss \in Nat
    <2>1. Base'
      BY BaseNext
    <2>2. book' \in Seq(BookOrder) /\ pp \in Int
      BY <2>1 DEF Base, TypeOK, BookOrder
    <2>3. QED BY <2>1, <2>2, BookSets
  <1>6. SUFFICES pp + bb <= w /\ ss - pp <= w
    BY <1>2, <1>3 DEF PositionOvershoot
  <1>7. w \in Int /\ Out \in Int /\ w = MaxPosition + Q * Out - Q /\ Q * Out \in Int /\ MaxPosition \in Int
    <2>1. Q \in Int /\ Out \in Int /\ MaxPosition \in Int
      BY Constants DEF Out
    <2> HIDE DEF Q
    <2>2. Q * (Out - 1) = Q * Out - Q /\ Q * Out \in Int
      BY <2>1
    <2>3. QED BY <2>1, <2>2 DEF Q
  <1>8. ASSUME NEW t \in Strategies, NEW side \in {"BUY", "SELL"}, Accepting(t, side)
        PROVE  pp + bb <= w /\ ss - pp <= w
    <2>1. Accepts(side) /\ pp = p
      BY <1>8 DEF Accepting
    <2>2. Cardinality(AliveIn(book')) <= Out
      BY <1>8, AcceptingWithin
    <2>3. bb <= Q * Out /\ ss <= Q * Out
      BY <1>5, <2>2, UnitsOut
    <2>4. (side = "SELL" => bb <= b) /\ (side = "BUY" => ss <= s)
      BY <1>8, AcceptingWithin
    <2>5. (side = "BUY" => p + Q <= MaxPosition) /\ (side = "SELL" => Q - p <= MaxPosition)
      BY <2>1, AcceptedPosition
    <2> HIDE DEF p, b, s, pp, bb, ss, w, Q
    <2>6. CASE side = "BUY"
      <3>1. p + Q <= MaxPosition /\ ss <= s
        BY <2>4, <2>5, <2>6
      <3>2. QED BY <1>4, <1>5, <1>7, <2>1, <2>3, <3>1
    <2>7. CASE side = "SELL"
      <3>1. Q - p <= MaxPosition /\ bb <= b
        BY <2>4, <2>5, <2>7
      <3>2. QED BY <1>4, <1>5, <1>7, <2>1, <2>3, <3>1
    <2>8. QED BY <2>6, <2>7
  <1>9. ASSUME NEW i \in DOMAIN book, NEW o \in BookOrder, Turning(i, o)
        PROVE  pp + bb <= w /\ ss - pp <= w
    <2>1. bb <= b /\ ss <= s
      BY <1>9, TurningSets
    <2>2. CASE pp = p
      <3> HIDE DEF p, b, s, pp, bb, ss, w, Q
      <3>1. QED BY <1>4, <1>5, <1>7, <2>1, <2>2
    <2>3. CASE Filling(i, o)
      <3>1. PICK n \in Nat \ {0} :
                /\ book[i].venue # "closed" /\ o.left = book[i].left - n
                /\ pp = IF book[i].side = "SELL" THEN p - n ELSE p + n
        BY <2>3 DEF Filling
      <3>2. /\ book[i].side \in {"BUY", "SELL"} /\ n \in Nat
            /\ book[i].venue # "closed" /\ o.left = book[i].left - n
        BY <3>1, BaseTypes, BookFields
      <3>3. ASSUME NEW sides, book[i].side \in sides
            PROVE  Cardinality(UnitsIn(book', sides)) <= Cardinality(UnitsIn(book, sides)) - n
        BY <1>9, <3>2, <3>3, FillingSets
      <3>4. /\ book[i].side = "BUY" => bb <= b - n
            /\ book[i].side = "SELL" => ss <= s - n
        <4>1. ASSUME book[i].side = "BUY" PROVE bb <= b - n
          <5>1. book[i].side \in {"BUY"}
            BY <4>1
          <5>2. QED BY <3>3, <5>1
        <4>2. ASSUME book[i].side = "SELL" PROVE ss <= s - n
          <5>1. book[i].side \in {"SELL"}
            BY <4>2
          <5>2. QED BY <3>3, <5>1
        <4>3. QED BY <4>1, <4>2
      <3> HIDE DEF p, b, s, pp, bb, ss, w, Q
      <3>5. CASE book[i].side = "BUY"
        <4>1. pp = p + n /\ bb <= b - n
          BY <3>1, <3>4, <3>5
        <4>2. QED BY <1>4, <1>5, <1>7, <2>1, <3>2, <4>1
      <3>6. CASE book[i].side = "SELL"
        <4>1. pp = p - n /\ ss <= s - n
          BY <3>1, <3>4, <3>6
        <4>2. QED BY <1>4, <1>5, <1>7, <2>1, <3>2, <4>1
      <3>7. QED BY <3>2, <3>5, <3>6
    <2>4. QED BY <1>9, <2>2, <2>3 DEF Turning
  <1>10. CASE Quiet
    <2>1. pp = p /\ bb = b /\ ss = s
      BY <1>10 DEF Quiet
    <2>2. QED BY <1>4, <2>1
  <1> HIDE DEF p, b, s, pp, bb, ss, w, Q
  <1>11. QED BY <1>8, <1>9, <1>10, SessionStep

\* Filled completely, the orders in flight take the position beyond its limit by
\* no more than all of them but one.
THEOREM PositionOvershootBounded == Spec => []PositionOvershoot
  <1>1. Init => WorkingOvershoot /\ PositionOvershoot
    <2> SUFFICES ASSUME Init PROVE WorkingOvershoot /\ PositionOvershoot
      OBVIOUS
    <2>1. WorkingOvershoot
      BY EmptyBook, AliveIs, Constants DEF WorkingOvershoot
    <2>2. position = 0 /\ Pending("BUY") = 0 /\ Pending("SELL") = 0
      BY EmptyBook, PendingIs DEF Init
    <2> DEFINE x == MaxWorking + Cardinality(Strategies) - 2
    <2>3. x \in Nat /\ Quantity \in Nat /\ MaxPosition \in Nat
      BY Constants
    <2> HIDE DEF x
    <2>4. Quantity * x \in Nat
      BY <2>3
    <2>5. 0 + 0 <= MaxPosition + Quantity * x /\ 0 - 0 <= MaxPosition + Quantity * x
      BY <2>3, <2>4
    <2>6. QED BY <2>1, <2>2, <2>5 DEF PositionOvershoot, x
  <1>2. Spec => []Base
    BY BaseInit, BaseNext, PTL DEF Spec
  <1>3. QED BY <1>1, <1>2, WorkingNext, PositionNext, PTL DEF Spec

===============================================================================
