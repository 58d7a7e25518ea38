-------------------------- MODULE MessageWindowsProofs --------------------------
(***************************************************************************)
(* Theorems about the message windows, for any number of strategies, any   *)
(* limit and windows, and any way the clock moves.                         *)
(***************************************************************************)
EXTENDS MessageWindows, FiniteSetTheorems, SequenceTheorems, WellFoundedInduction, TLAPS

\* What pruning leaves is a sequence again and no longer than before
\* (RateWindow._prune only pops).
LEMMA PrunedShrinks ==
    ASSUME NEW ev \in Seq(Int), NEW at \in Int
    PROVE  Pruned(ev, at) \in Seq(Int) /\ Len(Pruned(ev, at)) <= Len(ev)
  <1> DEFINE fromLeft == {i \in DOMAIN ev : \E j \in 1 .. i : ev[j] > at - RateMillis}
             kept == {i \in fromLeft : \E j \in i .. Len(ev) : ev[j] <= at}
             first == Len(ev) - Cardinality(fromLeft) + 1
             last == Len(ev) - Cardinality(fromLeft) + Cardinality(kept)
  <1>1. Len(ev) \in Nat /\ DOMAIN ev = 1 .. Len(ev)
    OBVIOUS
  <1>2. IsFiniteSet(DOMAIN ev) /\ Cardinality(DOMAIN ev) = Len(ev)
    <2> DEFINE n == Len(ev)
    <2>1. n \in Int /\ 1 \in Int /\ (1 > n => n = 0) /\ n - 1 + 1 = n
      BY <1>1
    <2> HIDE DEF n
    <2>2. IsFiniteSet(1 .. n) /\ Cardinality(1 .. n) = n
      BY <2>1, FS_Interval
    <2>3. QED BY <1>1, <2>2 DEF n
  <1>3. /\ IsFiniteSet(fromLeft) /\ Cardinality(fromLeft) <= Len(ev)
        /\ Cardinality(fromLeft) \in Nat
    <2>1. fromLeft \in SUBSET DOMAIN ev
      OBVIOUS
    <2> HIDE DEF fromLeft
    <2>2. QED BY <1>2, <2>1, FS_Subset, FS_CardinalityType
  <1>4. Cardinality(kept) <= Cardinality(fromLeft) /\ Cardinality(kept) \in Nat
    <2>1. kept \in SUBSET fromLeft
      OBVIOUS
    <2> HIDE DEF fromLeft, kept
    <2>2. QED BY <1>3, <2>1, FS_Subset, FS_CardinalityType
  <1>5. Pruned(ev, at) = SubSeq(ev, first, last)
    BY DEF Pruned
  <1> HIDE DEF fromLeft, kept
  <1>6. first \in 1 .. Len(ev) + 1 /\ last \in 0 .. Len(ev)
    BY <1>1, <1>3, <1>4
  <1> HIDE DEF first, last
  <1>7. SubSeq(ev, first, last) \in Seq(Int) /\ Len(SubSeq(ev, first, last)) <= Len(ev)
    BY <1>1, <1>6
  <1>8. QED BY <1>5, <1>7

-------------------------------------------------------------------------------
(* The bound of the deque *)

\* What the bound needs to know of the variables.
Shape ==
    /\ now \in Int
    /\ events \in Seq(Int)
    /\ pc \in [Strategies -> {"idle", "accepted", "sent"}]

BoundInv == Shape /\ DequeBounded

\* Unreported orders are at most one for each strategy.
LEMMA UnreportedFinite ==
    /\ IsFiniteSet(Unreported) /\ Cardinality(Unreported) \in Nat
    /\ Cardinality(Unreported) <= Cardinality(Strategies)
    /\ Cardinality(Strategies) \in Nat
  <1>1. Unreported \in SUBSET Strategies
    BY DEF Unreported
  <1>2. QED BY <1>1, WindowsAssumption, FS_Subset, FS_CardinalityType

\* An idle strategy leaves room for its own order.
LEMMA RoomForOne ==
    ASSUME NEW s \in Strategies, pc[s] = "idle"
    PROVE  Cardinality(Unreported) <= Cardinality(Strategies) - 1
  <1>1. Unreported \in SUBSET (Strategies \ {s})
    BY DEF Unreported
  <1>2. /\ IsFiniteSet(Strategies \ {s})
        /\ Cardinality(Strategies \ {s}) = Cardinality(Strategies) - 1
    BY WindowsAssumption, FS_RemoveElement
  <1>3. QED BY <1>1, <1>2, FS_Subset

\* A fresh process has an empty deque and nothing to report.
LEMMA EmptyWithinBound ==
    ASSUME events = <<>>, Unreported = {}
    PROVE  DequeBounded
  <1>1. Len(events) = 0 /\ Cardinality(Unreported) = 0
    BY FS_EmptySet
  <1>2. QED BY <1>1, UnreportedFinite, WindowsAssumption DEF DequeBounded

\* The deque starts empty.
LEMMA InitBound == Init => BoundInv
  <1> SUFFICES ASSUME Init PROVE BoundInv
    OBVIOUS
  <1>1. Shape
    BY DEF Init, Shape
  <1>2. Unreported = {}
    BY DEF Init, Unreported
  <1>3. events = <<>>
    BY DEF Init
  <1>4. QED BY <1>1, <1>2, <1>3, EmptyWithinBound DEF BoundInv

\* evaluate only prunes; an accepted order is a further one to report, which
\* the room below the limit makes good.
LEMMA EvaluateBound ==
    ASSUME BoundInv, NEW s \in Strategies, NEW fp \in Fingerprints, Evaluate(s, fp)
    PROVE  BoundInv'
  <1> DEFINE inWindow == Pruned(events, now)
  <1>1. inWindow \in Seq(Int) /\ Len(inWindow) <= Len(events)
    BY PrunedShrinks DEF BoundInv, Shape
  <1>2. Shape' /\ Len(events') <= Len(events) /\ Len(events') \in Nat
    <2>1. /\ events' \in {events, inWindow} /\ now' = now
          /\ pc' = pc \/ pc' = [pc EXCEPT ![s] = "accepted"]
      BY DEF Evaluate
    <2> HIDE DEF inWindow
    <2>2. QED BY <1>1, <2>1 DEF BoundInv, Shape
  <1>3. CASE pc' = pc
    <2>1. Unreported' = Unreported
      BY <1>3 DEF Unreported
    <2>2. Len(events') + Cardinality(Unreported) <= RateLimit + Cardinality(Strategies) - 1
      BY <1>2, UnreportedFinite, WindowsAssumption DEF BoundInv, Shape, DequeBounded
    <2>3. QED BY <1>2, <2>1, <2>2 DEF BoundInv, DequeBounded
  <1>4. CASE pc' # pc
    <2>1. /\ events' = inWindow /\ Len(inWindow) < RateLimit
          /\ pc' = [pc EXCEPT ![s] = "accepted"] /\ pc[s] = "idle"
      BY <1>4 DEF Evaluate
    <2>2. Unreported' = Unreported \cup {s} /\ s \notin Unreported
      BY <2>1 DEF Unreported, BoundInv, Shape
    <2>3. Cardinality(Unreported') = Cardinality(Unreported) + 1
      BY <2>2, UnreportedFinite, FS_AddElement
    <2>4. Cardinality(Unreported) <= Cardinality(Strategies) - 1
      BY <2>1, RoomForOne
    <2>5. Len(events') + (Cardinality(Unreported) + 1)
              <= RateLimit + Cardinality(Strategies) - 1
      BY <1>2, <2>1, <2>4, UnreportedFinite, WindowsAssumption
    <2>6. QED BY <1>2, <2>3, <2>5 DEF BoundInv, DequeBounded
  <1>5. QED BY <1>3, <1>4

\* Sending moves an order from accepted to sent and reports nothing.
LEMMA SendBound ==
    ASSUME BoundInv, NEW s \in Strategies, Send(s)
    PROVE  BoundInv'
  <1>1. Shape' /\ events' = events
    BY DEF Send, BoundInv, Shape
  <1>2. Unreported' = Unreported
    BY DEF Send, Unreported, BoundInv, Shape
  <1>3. QED BY <1>1, <1>2 DEF BoundInv, DequeBounded

\* A report puts one entry into the deque and is one less to come.
LEMMA RecordBound ==
    ASSUME BoundInv, NEW s \in Strategies, RecordOrderSent(s)
    PROVE  BoundInv'
  <1> DEFINE inWindow == Pruned(events, now)
  <1>1. inWindow \in Seq(Int) /\ Len(inWindow) <= Len(events)
    BY PrunedShrinks DEF BoundInv, Shape
  <1>2. events' = Append(inWindow, now) /\ pc' = [pc EXCEPT ![s] = "idle"] /\ now' = now
        /\ pc[s] = "sent"
    BY DEF RecordOrderSent
  <1> HIDE DEF inWindow
  <1>3. Shape' /\ Len(events') = Len(inWindow) + 1
    BY <1>1, <1>2 DEF BoundInv, Shape
  <1>4. Unreported' = Unreported \ {s} /\ s \in Unreported
    BY <1>2 DEF Unreported, BoundInv, Shape
  <1>5. Cardinality(Unreported') = Cardinality(Unreported) - 1
    BY <1>4, UnreportedFinite, FS_RemoveElement
  <1>6. Len(inWindow) + 1 + (Cardinality(Unreported) - 1)
            <= RateLimit + Cardinality(Strategies) - 1
    BY <1>1, UnreportedFinite, WindowsAssumption DEF BoundInv, Shape, DequeBounded
  <1>7. QED BY <1>3, <1>5, <1>6 DEF BoundInv, DequeBounded

\* Every step keeps the bound of the deque.
LEMMA NextBound == BoundInv /\ [Next]_vars => BoundInv'
  <1> SUFFICES ASSUME BoundInv, [Next]_vars PROVE BoundInv'
    OBVIOUS
  <1>1. ASSUME NEW s \in Strategies, NEW fp \in Fingerprints, Evaluate(s, fp)
        PROVE  BoundInv'
    BY <1>1, EvaluateBound
  <1>2. ASSUME NEW s \in Strategies, Send(s) PROVE BoundInv'
    BY <1>2, SendBound
  <1>3. ASSUME NEW s \in Strategies, RecordOrderSent(s) PROVE BoundInv'
    BY <1>3, RecordBound
  <1>4. CASE Tick
    BY <1>4 DEF Tick, BoundInv, Shape, DequeBounded, Unreported
  <1>5. CASE StepBack
    BY <1>5, WindowsAssumption DEF StepBack, Time, BoundInv, Shape, DequeBounded, Unreported
  <1>6. CASE Restart
    <2>1. Shape'
      BY <1>6 DEF Restart, BoundInv, Shape
    <2>2. Unreported' = {} /\ events' = <<>>
      BY <1>6 DEF Restart, Unreported
    <2>3. Len(events') = 0 /\ Cardinality(Unreported') = 0
      BY <2>2, FS_EmptySet
    <2>4. DequeBounded'
      BY <2>3, UnreportedFinite, WindowsAssumption DEF DequeBounded
    <2>5. QED BY <2>1, <2>4 DEF BoundInv
  <1>7. CASE UNCHANGED vars
    BY <1>7 DEF vars, BoundInv, Shape, DequeBounded, Unreported
  <1>8. QED BY <1>1, <1>2, <1>3, <1>4, <1>5, <1>6, <1>7 DEF Next

\* Whatever the clock does and however evaluations, sends and reports
\* interleave, the deque of RateWindow never holds more entries than the limit
\* and one for each strategy but one.
THEOREM DequeStaysBounded == Spec => []DequeBounded
  <1>1. BoundInv => DequeBounded
    BY DEF BoundInv
  <1>2. QED BY InitBound, NextBound, <1>1, PTL DEF Spec

-------------------------------------------------------------------------------
(* What pruning keeps *)

\* A set of naturals has a least element.
LEMMA LeastElement ==
    ASSUME NEW T \in SUBSET Nat, T # {}
    PROVE  \E m \in T : \A k \in T : m <= k
  <1> DEFINE R == {ss \in Nat \X Nat : ss[1] < ss[2]}
  <1>1. IsWellFoundedOn(R, Nat)
    BY NatLessThanWellFounded DEF OpToRel
  <1> HIDE DEF R
  <1>2. PICK m \in T : \A k \in T : ~(<<k, m>> \in R)
    BY <1>1, WFMin
  <1>3. ASSUME NEW k \in T PROVE m <= k
    <2>1. m \in Nat /\ k \in Nat
      OBVIOUS
    <2>2. k < m => <<k, m>> \in R
      BY <2>1 DEF R
    <2>3. QED BY <1>2, <2>1, <2>2
  <1>4. QED BY <1>3

\* A final segment of an interval is known by its size ...
LEMMA FinalSegment ==
    ASSUME NEW n \in Nat, NEW U \in SUBSET (1 .. n),
           \A i \in U : \A j \in 1 .. n : i <= j => j \in U
    PROVE  Cardinality(U) \in 0 .. n /\ U = n - Cardinality(U) + 1 .. n
  <1>1. PICK m \in U \cup {n + 1} : \A k \in U \cup {n + 1} : m <= k
    <2>1. U \cup {n + 1} \in SUBSET Nat /\ U \cup {n + 1} # {}
      OBVIOUS
    <2>2. QED BY <2>1, LeastElement
  <1>2. m \in 1 .. n + 1 /\ U = m .. n
    <2>1. m \in 1 .. n + 1
      OBVIOUS
    <2>2. ASSUME NEW j \in m .. n PROVE j \in U
      <3>1. m \in U /\ j \in 1 .. n
        BY <2>1, <2>2
      <3>2. QED BY <2>2, <3>1
    <2>3. \A j \in U : j \in m .. n
      BY <1>1, <2>1
    <2>4. QED BY <2>1, <2>2, <2>3
  <1>3. Cardinality(U) = n - m + 1
    <2>1. Cardinality(m .. n) = IF m > n THEN 0 ELSE n - m + 1
      BY <1>2, FS_Interval
    <2>2. QED BY <1>2, <2>1
  <1>4. QED BY <1>2, <1>3

\* ... and so is an initial one.
LEMMA InitialSegment ==
    ASSUME NEW a \in Nat, NEW n \in Nat, a <= n, NEW U \in SUBSET (a + 1 .. n),
           \A i \in U : \A j \in a + 1 .. n : j <= i => j \in U
    PROVE  Cardinality(U) \in 0 .. n - a /\ U = a + 1 .. a + Cardinality(U)
  <1> DEFINE W == (a + 1 .. n + 1) \ U
  <1>1. PICK m \in W : \A k \in W : m <= k
    <2>1. W \in SUBSET Nat /\ n + 1 \in W
      OBVIOUS
    <2> HIDE DEF W
    <2>2. QED BY <2>1, LeastElement
  <1>2. m \in a + 1 .. n + 1 /\ m \notin U
    OBVIOUS
  <1>3. \A j \in a + 1 .. n : j < m => j \in U
    BY <1>1, <1>2
  <1>4. \A j \in U : j < m
    BY <1>2
  <1> HIDE DEF W
  <1>5. U = a + 1 .. m - 1
    <2>1. \A j \in U : j \in a + 1 .. m - 1
      BY <1>2, <1>4
    <2>2. \A j \in a + 1 .. m - 1 : j \in U
      BY <1>2, <1>3
    <2>3. QED BY <2>1, <2>2
  <1>6. Cardinality(U) = m - 1 - a
    <2>1. Cardinality(a + 1 .. m - 1) = IF a + 1 > m - 1 THEN 0 ELSE m - 1 - (a + 1) + 1
      BY <1>2, FS_Interval
    <2>2. QED BY <1>2, <1>5, <2>1
  <1>7. QED BY <1>2, <1>5, <1>6

\* In order of time, as the deque turns out to be.
Sorted(ev) == \A i, j \in DOMAIN ev : i <= j => ev[i] <= ev[j]

\* Of a deque in order, what _prune keeps is one stretch: the entries within
\* the window.
LEMMA PrunedKeeps ==
    ASSUME NEW ev \in Seq(Int), NEW at \in Int, Sorted(ev)
    PROVE  \E d, k \in Nat :
              /\ d <= k /\ k <= Len(ev) /\ Pruned(ev, at) = SubSeq(ev, d + 1, k)
              /\ \A i \in 1 .. Len(ev) : d < i /\ i <= k <=> Within(ev[i], at, RateMillis)
  <1> DEFINE n == Len(ev)
             fromLeft == {i \in DOMAIN ev : \E j \in 1 .. i : ev[j] > at - RateMillis}
             kept == {i \in fromLeft : \E j \in i .. Len(ev) : ev[j] <= at}
             d == n - Cardinality(fromLeft)
             k == d + Cardinality(kept)
  <1>1. n \in Nat /\ DOMAIN ev = 1 .. n /\ RateMillis \in Int
        /\ (\A i \in 1 .. n : ev[i] \in Int)
        /\ \A i, j \in 1 .. n : i <= j => ev[i] <= ev[j]
    BY WindowsAssumption DEF Sorted
  <1>2. Pruned(ev, at) = SubSeq(ev, d + 1, k)
    BY DEF Pruned
  <1>3. \A i \in 1 .. n : i \in fromLeft <=> ev[i] > at - RateMillis
    <2>1. ASSUME NEW i \in 1 .. n, ev[i] > at - RateMillis PROVE i \in fromLeft
      BY <1>1, <2>1
    <2>2. ASSUME NEW i \in 1 .. n, i \in fromLeft PROVE ev[i] > at - RateMillis
      <3>1. PICK j \in 1 .. i : ev[j] > at - RateMillis
        BY <2>2
      <3>2. j \in 1 .. n /\ ev[j] <= ev[i] /\ ev[j] \in Int /\ ev[i] \in Int
        BY <1>1
      <3>3. QED BY <1>1, <3>1, <3>2
    <2>3. QED BY <2>1, <2>2
  <1>4. \A i \in 1 .. n : i \in kept <=> i \in fromLeft /\ ev[i] <= at
    <2>1. ASSUME NEW i \in 1 .. n, i \in fromLeft, ev[i] <= at PROVE i \in kept
      BY <1>1, <2>1
    <2>2. ASSUME NEW i \in 1 .. n, i \in kept PROVE i \in fromLeft /\ ev[i] <= at
      <3>1. PICK j \in i .. n : ev[j] <= at
        BY <2>2
      <3>2. j \in 1 .. n /\ ev[i] <= ev[j] /\ ev[j] \in Int /\ ev[i] \in Int
        BY <1>1
      <3>3. QED BY <2>2, <3>1, <3>2
    <2>3. QED BY <2>1, <2>2
  <1>5. fromLeft \in SUBSET (1 .. n) /\ kept \in SUBSET fromLeft
    BY <1>1
  <1> HIDE DEF fromLeft, kept
  <1>6. Cardinality(fromLeft) \in 0 .. n /\ fromLeft = d + 1 .. n
    <2>1. \A i \in fromLeft : \A j \in 1 .. n : i <= j => j \in fromLeft
      <3> SUFFICES ASSUME NEW i \in fromLeft, NEW j \in 1 .. n, i <= j PROVE j \in fromLeft
        OBVIOUS
      <3>1. i \in 1 .. n /\ ev[i] > at - RateMillis /\ ev[i] <= ev[j]
        BY <1>1, <1>3, <1>5
      <3>2. QED BY <1>1, <1>3, <3>1
    <2>2. QED BY <1>1, <1>5, <2>1, FinalSegment
  <1>7. d \in Nat /\ d <= n
    BY <1>1, <1>6
  <1>8. Cardinality(kept) \in 0 .. n - d /\ kept = d + 1 .. d + Cardinality(kept)
    <2>1. kept \in SUBSET (d + 1 .. n)
      BY <1>5, <1>6
    <2>2. \A i \in kept : \A j \in d + 1 .. n : j <= i => j \in kept
      <3> SUFFICES ASSUME NEW i \in kept, NEW j \in d + 1 .. n, j <= i PROVE j \in kept
        OBVIOUS
      <3>1. i \in 1 .. n /\ j \in 1 .. n /\ j \in fromLeft
        BY <1>5, <1>6, <1>7
      <3>2. ev[i] <= at /\ ev[j] <= ev[i]
        BY <1>1, <1>4, <3>1
      <3>3. QED BY <1>1, <1>4, <3>1, <3>2
    <2> HIDE DEF d
    <2>3. QED BY <1>1, <1>7, <2>1, <2>2, InitialSegment
  <1>9. \A i \in 1 .. n : d < i /\ i <= k <=> Within(ev[i], at, RateMillis)
    <2> SUFFICES ASSUME NEW i \in 1 .. n
                 PROVE  d < i /\ i <= k <=> Within(ev[i], at, RateMillis)
      OBVIOUS
    <2>1. i \in kept <=> d < i /\ i <= k
      BY <1>7, <1>8
    <2>2. i \in kept <=> Within(ev[i], at, RateMillis)
      BY <1>1, <1>3, <1>4 DEF Within
    <2>3. QED BY <2>1, <2>2
  <1>10. k \in Nat /\ d <= k /\ k <= n
    BY <1>1, <1>7, <1>8
  <1> HIDE DEF d, k
  <1>11. QED BY <1>2, <1>7, <1>9, <1>10

\* The same of a deque of readings of the clock, entry by entry.
LEMMA PrunedEntries ==
    ASSUME NEW ev \in Seq(Time), NEW at \in Time, Sorted(ev)
    PROVE  \E d, k \in Nat :
              /\ d <= k /\ k <= Len(ev)
              /\ Pruned(ev, at) \in Seq(Time) /\ Len(Pruned(ev, at)) = k - d
              /\ \A i \in 1 .. k - d : Pruned(ev, at)[i] = ev[d + i]
              /\ \A i \in 1 .. Len(ev) : d < i /\ i <= k <=> Within(ev[i], at, RateMillis)
  <1>1. ev \in Seq(Int) /\ at \in Int /\ Len(ev) \in Nat
    BY WindowsAssumption DEF Time
  <1>2. PICK d \in Nat, k \in Nat :
            /\ d <= k /\ k <= Len(ev) /\ Pruned(ev, at) = SubSeq(ev, d + 1, k)
            /\ \A i \in 1 .. Len(ev) : d < i /\ i <= k <=> Within(ev[i], at, RateMillis)
    BY <1>1, PrunedKeeps
  <1>3. /\ SubSeq(ev, d + 1, k) \in Seq(Time) /\ Len(SubSeq(ev, d + 1, k)) = k - d
        /\ \A i \in 1 .. k - d : SubSeq(ev, d + 1, k)[i] = ev[d + i]
    <2>1. /\ d + 1 \in 1 .. Len(ev) + 1 /\ k \in d + 1 - 1 .. Len(ev)
          /\ d \in Int /\ k \in Int /\ d <= k
      BY <1>1, <1>2
    <2>2. /\ SubSeq(ev, d + 1, k) \in Seq(Time)
          /\ Len(SubSeq(ev, d + 1, k)) = IF d + 1 <= k THEN k - (d + 1) + 1 ELSE 0
          /\ \A i \in 1 .. k - (d + 1) + 1 : SubSeq(ev, d + 1, k)[i] = ev[d + 1 + i - 1]
      BY <2>1, SubSeqProperties
    <2>3. /\ k - (d + 1) + 1 = k - d /\ (~(d + 1 <= k) => k - d = 0)
          /\ \A i \in Int : d + 1 + i - 1 = d + i
      BY <2>1
    <2>4. QED BY <2>2, <2>3
  <1>4. QED BY <1>2, <1>3

\* Pruning a deque in order leaves it in order, with nothing ahead of the
\* clock.
LEMMA PrunedSorted ==
    ASSUME NEW ev \in Seq(Time), NEW at \in Time, Sorted(ev)
    PROVE  /\ Pruned(ev, at) \in Seq(Time) /\ Sorted(Pruned(ev, at))
           /\ \A i \in DOMAIN Pruned(ev, at) : Pruned(ev, at)[i] <= at
  <1> DEFINE p == Pruned(ev, at)
  <1>1. PICK d \in Nat, k \in Nat :
            /\ d <= k /\ k <= Len(ev) /\ p \in Seq(Time) /\ Len(p) = k - d
            /\ \A i \in 1 .. k - d : p[i] = ev[d + i]
            /\ \A i \in 1 .. Len(ev) : d < i /\ i <= k <=> Within(ev[i], at, RateMillis)
    BY PrunedEntries
  <1> HIDE DEF p
  <1>2. DOMAIN p = 1 .. k - d /\ DOMAIN ev = 1 .. Len(ev) /\ Len(ev) \in Nat
    BY <1>1
  <1>3. \A i \in 1 .. k - d : d + i \in 1 .. Len(ev) /\ d < d + i /\ d + i <= k
    BY <1>1, <1>2
  <1>4. \A i \in 1 .. k - d : p[i] <= at
    BY <1>1, <1>3 DEF Within
  <1>5. ASSUME NEW i \in 1 .. k - d, NEW j \in 1 .. k - d, i <= j PROVE p[i] <= p[j]
    <2>1. p[i] = ev[d + i] /\ p[j] = ev[d + j] /\ d + i \in DOMAIN ev /\ d + j \in DOMAIN ev
      BY <1>1, <1>2, <1>3
    <2>2. d + i <= d + j
      BY <1>5
    <2>3. QED BY <2>1, <2>2 DEF Sorted
  <1>6. QED BY <1>1, <1>2, <1>4, <1>5 DEF Sorted, p

\* A report goes to the right end.
LEMMA AppendSorted ==
    ASSUME NEW ev \in Seq(Time), NEW at \in Time, Sorted(ev), \A i \in DOMAIN ev : ev[i] <= at
    PROVE  Append(ev, at) \in Seq(Time) /\ Sorted(Append(ev, at))
  <1> DEFINE a == Append(ev, at)
  <1>1. /\ a \in Seq(Time) /\ Len(ev) \in Nat /\ DOMAIN a = 1 .. Len(ev) + 1
        /\ DOMAIN ev = 1 .. Len(ev)
        /\ \A i \in 1 .. Len(ev) : a[i] = ev[i]
        /\ a[Len(ev) + 1] = at
    OBVIOUS
  <1>2. at \in Int
    BY WindowsAssumption DEF Time
  <1> HIDE DEF a
  <1>3. ASSUME NEW i \in DOMAIN a, NEW j \in DOMAIN a, i <= j PROVE a[i] <= a[j]
    <2>1. CASE j = Len(ev) + 1 /\ i = Len(ev) + 1
      BY <1>1, <1>2, <2>1
    <2>2. CASE j = Len(ev) + 1 /\ i \in 1 .. Len(ev)
      BY <1>1, <2>2
    <2>3. CASE i \in 1 .. Len(ev) /\ j \in 1 .. Len(ev)
      BY <1>1, <1>3, <2>3 DEF Sorted
    <2>4. QED BY <1>1, <1>3, <2>1, <2>2, <2>3
  <1>4. QED BY <1>1, <1>3 DEF Sorted, a

-------------------------------------------------------------------------------
(* Types, and the order of the deque *)

\* The deque is in order of time whatever the clock does: a report goes to its
\* right end only after all that is ahead of the clock has left there.
DequeInv == TypeOK /\ Sorted(events)

\* What a strategy that holds nothing holds is a proper order.
LEMMA NoOrderType ==
    NoOrder.fp \in Fingerprints /\ NoOrder.index = 0 /\ \A n \in Nat : NoOrder \in [fp : Fingerprints, index : 0 .. n]
  BY WindowsAssumption DEF NoOrder

\* The fingerprints that are remembered, as a function.
LEMMA SeenType ==
    ASSUME DOMAIN seen \subseteq Fingerprints, Range(seen) \subseteq Time,
           NEW at \in Time, NEW fp \in Fingerprints
    PROVE  /\ DOMAIN PrunedSeen(seen, at) \subseteq Fingerprints
           /\ Range(PrunedSeen(seen, at)) \subseteq Time
           /\ DOMAIN Remember(seen, fp, at) \subseteq Fingerprints
           /\ Range(Remember(seen, fp, at)) \subseteq Time
  <1>1. \A x \in DOMAIN seen : seen[x] \in Time
    BY DEF Range
  <1>2. /\ DOMAIN PrunedSeen(seen, at) \subseteq DOMAIN seen
        /\ \A x \in DOMAIN PrunedSeen(seen, at) : PrunedSeen(seen, at)[x] = seen[x]
    BY DEF PrunedSeen, Restrict
  <1>3. /\ DOMAIN Remember(seen, fp, at) = DOMAIN PrunedSeen(seen, at) \cup {fp}
        /\ \A x \in DOMAIN Remember(seen, fp, at) :
               Remember(seen, fp, at)[x] = IF x = fp THEN at ELSE PrunedSeen(seen, at)[x]
    BY DEF Remember
  <1>4. QED BY <1>1, <1>2, <1>3 DEF Range

\* A sequence changed in place is one of the same length.
LEMMA ChangedInPlace ==
    ASSUME NEW R, NEW q \in Seq(R), NEW r,
           r \in [DOMAIN q -> R]
    PROVE  r \in Seq(R) /\ Len(r) = Len(q)
  <1>1. Len(q) \in Nat /\ DOMAIN q = 1 .. Len(q)
    OBVIOUS
  <1>2. r \in [1 .. Len(q) -> R]
    BY <1>1
  <1>3. QED BY <1>1, <1>2

\* The deque of a fresh process is in order.
LEMMA DequeInit == Init => DequeInv
  <1> SUFFICES ASSUME Init PROVE DequeInv
    OBVIOUS
  <1>1. Range(seen) = {} /\ DOMAIN seen = {}
    BY DEF Init, Range
  <1>2. Len(sends) = 0 /\ sends \in Seq([by : Strategies, fp : Fingerprints, at : Time,
                                         recorded : Time \cup {-1}])
    BY DEF Init
  <1>3. now \in Time /\ events \in Seq(Time) /\ corrections \in 0 .. MaxCorrections
    BY WindowsAssumption DEF Init, Time
  <1>4. order \in [Strategies -> [fp : Fingerprints, index : 0 .. Len(sends)]]
    BY <1>2, NoOrderType DEF Init
  <1>5. pc \in [Strategies -> {"idle", "accepted", "sent"}]
    BY DEF Init
  <1>6. Sorted(events)
    BY DEF Init, Sorted
  <1>7. QED BY <1>1, <1>2, <1>3, <1>4, <1>5, <1>6 DEF DequeInv, TypeOK

\* Every step keeps the types and the order.
LEMMA DequeNext == DequeInv /\ [Next]_vars => DequeInv'
  <1> SUFFICES ASSUME DequeInv, [Next]_vars PROVE DequeInv'
    OBVIOUS
  <1> USE DEF DequeInv
  <1>t. /\ now \in Time /\ events \in Seq(Time) /\ Sorted(events) /\ Len(sends) \in Nat
        /\ DOMAIN seen \subseteq Fingerprints /\ Range(seen) \subseteq Time
    BY DEF TypeOK
  <1>1. ASSUME NEW s \in Strategies, NEW fp \in Fingerprints, Evaluate(s, fp) PROVE DequeInv'
    <2> DEFINE p == Pruned(events, now)
               q == PrunedSeen(seen, now)
    <2>1. p \in Seq(Time) /\ Sorted(p)
      BY <1>t, PrunedSorted
    <2>2. DOMAIN q \subseteq Fingerprints /\ Range(q) \subseteq Time
      BY <1>t, SeenType
    <2>3. /\ events' \in {events, p} /\ seen' = q
          /\ \/ pc' = [pc EXCEPT ![s] = "accepted"] /\ order' = [order EXCEPT ![s].fp = fp]
             \/ UNCHANGED <<pc, order>>
          /\ UNCHANGED <<now, sends, corrections>>
      BY <1>1 DEF Evaluate
    <2> HIDE DEF p, q
    <2>4. events' \in Seq(Time) /\ Sorted(events')
      BY <1>t, <2>1, <2>3
    <2>5. QED BY <2>2, <2>3, <2>4 DEF TypeOK
  <1>2. ASSUME NEW s \in Strategies, Send(s) PROVE DequeInv'
    <2> DEFINE o == [by |-> s, fp |-> order[s].fp, at |-> now, recorded |-> -1]
    <2>1. o \in [by : Strategies, fp : Fingerprints, at : Time, recorded : Time \cup {-1}]
      BY DEF TypeOK
    <2>2. /\ pc' = [pc EXCEPT ![s] = "sent"]
          /\ order' = [order EXCEPT ![s].index = Len(sends) + 1]
          /\ sends' = Append(sends, o)
          /\ UNCHANGED <<now, events, seen, corrections>>
      BY <1>2 DEF Send
    <2> HIDE DEF o
    <2>3. /\ sends' \in Seq([by : Strategies, fp : Fingerprints, at : Time,
                             recorded : Time \cup {-1}])
          /\ Len(sends') = Len(sends) + 1
      BY <2>1, <2>2 DEF TypeOK
    <2>4. order' \in [Strategies -> [fp : Fingerprints, index : 0 .. Len(sends')]]
      <3>1. order \in [Strategies -> [fp : Fingerprints, index : 0 .. Len(sends) + 1]]
        <4>1. order \in [Strategies -> [fp : Fingerprints, index : 0 .. Len(sends)]]
          BY DEF TypeOK
        <4>2. 0 .. Len(sends) \subseteq 0 .. Len(sends) + 1
          BY <1>t
        <4>3. QED BY <4>1, <4>2
      <3>2. Len(sends) + 1 \in 0 .. Len(sends) + 1
        BY <1>t
      <3>3. QED BY <2>2, <2>3, <3>1, <3>2
    <2>5. QED BY <2>2, <2>3, <2>4 DEF TypeOK
  <1>3. ASSUME NEW s \in Strategies, RecordOrderSent(s) PROVE DequeInv'
    <2> DEFINE p == Pruned(events, now)
               q == Remember(seen, order[s].fp, now)
    <2>1. p \in Seq(Time) /\ Sorted(p) /\ \A i \in DOMAIN p : p[i] <= now
      BY <1>t, PrunedSorted
    <2>2. DOMAIN q \subseteq Fingerprints /\ Range(q) \subseteq Time
      BY <1>t, SeenType DEF TypeOK
    <2>3. /\ events' = Append(p, now) /\ seen' = q
          /\ pc' = [pc EXCEPT ![s] = "idle"]
          /\ sends' = [sends EXCEPT ![order[s].index].recorded = now]
          /\ order' = [order EXCEPT ![s] = NoOrder]
          /\ UNCHANGED <<now, corrections>>
      BY <1>3 DEF RecordOrderSent
    <2> HIDE DEF p, q
    <2>4. events' \in Seq(Time) /\ Sorted(events')
      BY <1>t, <2>1, <2>3, AppendSorted
    <2>5. /\ sends' \in Seq([by : Strategies, fp : Fingerprints, at : Time,
                             recorded : Time \cup {-1}])
          /\ Len(sends') = Len(sends)
      <3> DEFINE R == [by : Strategies, fp : Fingerprints, at : Time, recorded : Time \cup {-1}]
      <3>1. sends \in Seq(R)
        BY DEF TypeOK
      <3> HIDE DEF R
      <3>2. sends' \in [DOMAIN sends -> R]
        <4>1. sends \in [DOMAIN sends -> R]
          BY <3>1
        <4>2. now \in Time \cup {-1}
          BY <1>t
        <4>3. QED BY <2>3, <4>1, <4>2 DEF R
      <3>3. sends' \in Seq(R) /\ Len(sends') = Len(sends)
        BY <3>1, <3>2, ChangedInPlace
      <3>4. QED BY <3>3 DEF R
    <2>6. order' \in [Strategies -> [fp : Fingerprints, index : 0 .. Len(sends')]]
      BY <1>t, <2>3, <2>5, NoOrderType DEF TypeOK
    <2>7. QED BY <2>2, <2>3, <2>4, <2>5, <2>6 DEF TypeOK
  <1>4. CASE Tick
    BY <1>4, WindowsAssumption DEF Tick, TypeOK, Time
  <1>5. CASE StepBack
    BY <1>5, WindowsAssumption DEF StepBack, TypeOK, Time
  <1>6. CASE Restart
    <2>1. /\ events' = <<>> /\ sends' = <<>> /\ seen' = [fp \in {} |-> 0] /\ now' = now
          /\ corrections' = 0 /\ pc' = [s \in Strategies |-> "idle"]
          /\ order' = [s \in Strategies |-> NoOrder]
      BY <1>6 DEF Restart
    <2>2. Range(seen') = {} /\ DOMAIN seen' = {}
      BY <2>1 DEF Range
    <2>3. Len(sends') = 0 /\ sends' \in Seq([by : Strategies, fp : Fingerprints, at : Time,
                                             recorded : Time \cup {-1}])
      BY <2>1
    <2>4. events' \in Seq(Time) /\ Sorted(events') /\ corrections' \in 0 .. MaxCorrections
      BY <2>1, WindowsAssumption DEF Sorted
    <2>5. order' \in [Strategies -> [fp : Fingerprints, index : 0 .. Len(sends')]]
      BY <2>1, <2>3, NoOrderType
    <2>6. QED BY <1>t, <2>1, <2>2, <2>3, <2>4, <2>5 DEF TypeOK
  <1>7. CASE UNCHANGED vars
    BY <1>7 DEF vars, TypeOK
  <1>8. QED BY <1>1, <1>2, <1>3, <1>4, <1>5, <1>6, <1>7 DEF Next

\* The deque and the dictionary hold readings of the clock, and every strategy
\* an order of the session.
THEOREM WindowsTypeCorrect == Spec => []TypeOK
  <1>1. DequeInv => TypeOK
    BY DEF DequeInv
  <1>2. QED BY DequeInit, DequeNext, <1>1, PTL DEF Spec

\* Popping expired entries at one end and early ones at the other is exact at
\* every reading of the clock, because the deque is always in order: each
\* report prunes what is ahead of it before it is appended (record, _prune).
THEOREM PruningExact == Spec => []PruneExact
  <1>1. DequeInv => PruneExact
    <2> SUFFICES ASSUME DequeInv, NEW at \in Time
                 PROVE  LET inWindow == {i \in DOMAIN events : Within(events[i], at, RateMillis)}
                            Place(i) == Cardinality({j \in inWindow : j <= i})
                        IN /\ Len(Pruned(events, at)) = Cardinality(inWindow)
                           /\ \A i \in inWindow : Pruned(events, at)[Place(i)] = events[i]
      BY DEF PruneExact
    <2> DEFINE inWindow == {i \in DOMAIN events : Within(events[i], at, RateMillis)}
               upTo(i) == {j \in inWindow : j <= i}
    <2>1. events \in Seq(Time) /\ Sorted(events)
      BY DEF DequeInv, TypeOK
    <2>2. PICK d \in Nat, k \in Nat :
              /\ d <= k /\ k <= Len(events) /\ Len(Pruned(events, at)) = k - d
              /\ \A i \in 1 .. k - d : Pruned(events, at)[i] = events[d + i]
              /\ \A i \in 1 .. Len(events) :
                    d < i /\ i <= k <=> Within(events[i], at, RateMillis)
      BY <2>1, PrunedEntries
    <2>3. inWindow = d + 1 .. k
      <3>1. DOMAIN events = 1 .. Len(events) /\ Len(events) \in Nat
        BY <2>1
      <3>2. \A i \in d + 1 .. k : i \in 1 .. Len(events) /\ d < i /\ i <= k
        BY <2>2, <3>1
      <3>3. \A i \in 1 .. Len(events) : d < i /\ i <= k => i \in d + 1 .. k
        BY <2>2, <3>1
      <3>4. QED BY <2>2, <3>1, <3>2, <3>3
    <2> HIDE DEF inWindow
    <2>4. Cardinality(inWindow) = k - d
      <3>1. Cardinality(d + 1 .. k) = IF d + 1 > k THEN 0 ELSE k - (d + 1) + 1
        BY <2>2, FS_Interval
      <3>2. QED BY <2>2, <2>3, <3>1
    <2>5. ASSUME NEW i \in inWindow
          PROVE  Pruned(events, at)[Cardinality(upTo(i))] = events[i]
      <3>1. i \in d + 1 .. k /\ i \in Nat
        BY <2>2, <2>3
      <3>2. upTo(i) = d + 1 .. i
        BY <2>2, <2>3, <3>1
      <3>3. Cardinality(d + 1 .. i) = IF d + 1 > i THEN 0 ELSE i - (d + 1) + 1
        BY <2>2, <3>1, FS_Interval
      <3>4. i - d \in 1 .. k - d /\ d + (i - d) = i /\ ~(d + 1 > i) /\ i - (d + 1) + 1 = i - d
        BY <2>2, <3>1
      <3>5. Cardinality(upTo(i)) = i - d
        BY <3>2, <3>3, <3>4
      <3>6. QED BY <2>2, <3>4, <3>5
    <2>6. Len(Pruned(events, at)) = Cardinality(inWindow)
      BY <2>2, <2>4
    <2>7. QED BY <2>5, <2>6 DEF inWindow
  <1>2. QED BY DequeInit, DequeNext, <1>1, PTL DEF Spec

-------------------------------------------------------------------------------
(* Reports, and the orders they are about *)

\* A strategy that still has to report is the one an unreported order names,
\* and there is one such order for it.
SendsInv ==
    /\ \A s \in Strategies : pc[s] = "sent" =>
           /\ order[s].index \in DOMAIN sends
           /\ sends[order[s].index].recorded = -1
           /\ sends[order[s].index].by = s
           /\ sends[order[s].index].fp = order[s].fp
    /\ \A i \in DOMAIN sends : sends[i].recorded = -1 =>
           pc[sends[i].by] = "sent" /\ order[sends[i].by].index = i

\* While the clock has run forwards nothing is ahead of it, and orders went out
\* in the order of their times.
Forward ==
    corrections = 0 =>
        /\ \A e \in DOMAIN events : events[e] <= now
        /\ \A i \in DOMAIN sends :
               /\ sends[i].at <= now /\ sends[i].recorded <= now
               /\ sends[i].recorded >= 0 => sends[i].at <= sends[i].recorded
        /\ \A i, j \in DOMAIN sends : i <= j => sends[i].at <= sends[j].at
        /\ \A fp \in DOMAIN seen : seen[fp] <= now

\* What is remembered of a reported order until its window is over.
Remembered ==
    corrections = 0 =>
        \A i \in DOMAIN sends : sends[i].recorded >= 0 =>
            \/ sends[i].recorded <= now - DuplicateMillis
            \/ sends[i].fp \in DOMAIN seen /\ sends[i].recorded <= seen[sends[i].fp]

\* What an accepted order implies of the earlier identical ones of its strategy.
Clear ==
    corrections = 0 =>
        \A s \in Strategies : pc[s] = "accepted" =>
            \A i \in DOMAIN sends : sends[i].by = s /\ sends[i].fp = order[s].fp =>
                sends[i].at <= now - DuplicateMillis

SessionInv == DequeInv /\ SendsInv /\ Forward

HeldInv == SessionInv /\ Remembered /\ Clear /\ ResubmissionHeld

\* The types of the fields, one by one.
LEMMA FieldTypes ==
    ASSUME TypeOK
    PROVE  /\ now \in Time /\ now \in Int /\ now >= 0 /\ events \in Seq(Time) /\ Len(sends) \in Nat
           /\ RateMillis \in Int /\ RateMillis > 0 /\ DuplicateMillis \in Int /\ DuplicateMillis > 0
           /\ DOMAIN sends = 1 .. Len(sends)
           /\ DOMAIN events = 1 .. Len(events) /\ Len(events) \in Nat
           /\ pc \in [Strategies -> {"idle", "accepted", "sent"}]
           /\ corrections \in Int /\ corrections >= 0
           /\ \A e \in DOMAIN events : events[e] \in Int /\ events[e] >= 0
           /\ \A s \in Strategies : order[s].fp \in Fingerprints /\ order[s].index \in Int
           /\ \A i \in DOMAIN sends :
                  /\ sends[i].by \in Strategies /\ sends[i].fp \in Fingerprints
                  /\ sends[i].at \in Int /\ sends[i].at >= 0
                  /\ sends[i].recorded \in Int /\ sends[i].recorded >= -1
           /\ \A fp \in DOMAIN seen : seen[fp] \in Int /\ seen[fp] >= 0
  <1> DEFINE R == [by : Strategies, fp : Fingerprints, at : Time, recorded : Time \cup {-1}]
  <1>1. sends \in Seq(R) /\ events \in Seq(Time)
    BY DEF TypeOK
  <1>2. \A t \in Time : t \in Int /\ t >= 0
    BY WindowsAssumption DEF Time
  <1>3. \A r \in R : /\ r.by \in Strategies /\ r.fp \in Fingerprints
                     /\ r.at \in Int /\ r.at >= 0 /\ r.recorded \in Int /\ r.recorded >= -1
    BY <1>2
  <1> HIDE DEF R
  <1>4. /\ Len(sends) \in Nat /\ DOMAIN sends = 1 .. Len(sends)
        /\ \A i \in DOMAIN sends : sends[i] \in R
    BY <1>1
  <1>5. /\ DOMAIN events = 1 .. Len(events) /\ Len(events) \in Nat
        /\ \A e \in DOMAIN events : events[e] \in Time
    BY <1>1
  <1>6. \A fp \in DOMAIN seen : seen[fp] \in Int /\ seen[fp] >= 0
    BY <1>2 DEF TypeOK, Range
  <1>7. /\ now \in Time /\ corrections \in 0 .. MaxCorrections
        /\ pc \in [Strategies -> {"idle", "accepted", "sent"}]
    BY DEF TypeOK
  <1>8. corrections \in Int /\ corrections >= 0
    BY <1>7, WindowsAssumption
  <1>9. \A s \in Strategies : order[s].fp \in Fingerprints /\ order[s].index \in Int
    <2>1. order \in [Strategies -> [fp : Fingerprints, index : 0 .. Len(sends)]]
      BY DEF TypeOK
    <2>2. \A x \in 0 .. Len(sends) : x \in Int
      BY <1>4
    <2>3. QED BY <2>1, <2>2
  <1>10. /\ RateMillis \in Int /\ RateMillis > 0 /\ DuplicateMillis \in Int /\ DuplicateMillis > 0
    BY WindowsAssumption
  <1>11. \A e \in DOMAIN events : events[e] \in Int /\ events[e] >= 0
    BY <1>2, <1>5
  <1>12. \A i \in DOMAIN sends :
                  /\ sends[i].by \in Strategies /\ sends[i].fp \in Fingerprints
                  /\ sends[i].at \in Int /\ sends[i].at >= 0
                  /\ sends[i].recorded \in Int /\ sends[i].recorded >= -1
    BY <1>3, <1>4
  <1>13. now \in Int /\ now >= 0
    BY <1>2, <1>7
  <1>14. QED BY <1>1, <1>4, <1>5, <1>6, <1>7, <1>8, <1>9, <1>10, <1>11, <1>12, <1>13

\* What Send does to the session's orders.
LEMMA SendEffect ==
    ASSUME TypeOK, NEW s \in Strategies, Send(s)
    PROVE  /\ DOMAIN sends' = 1 .. Len(sends) + 1
           /\ \A i \in 1 .. Len(sends) : sends'[i] = sends[i]
           /\ sends'[Len(sends) + 1].by = s /\ sends'[Len(sends) + 1].fp = order[s].fp
           /\ sends'[Len(sends) + 1].at = now /\ sends'[Len(sends) + 1].recorded = -1
           /\ pc[s] = "accepted" /\ pc'[s] = "sent" /\ order'[s].index = Len(sends) + 1
           /\ order'[s].fp = order[s].fp
           /\ \A t \in Strategies : t # s => pc'[t] = pc[t] /\ order'[t] = order[t]
           /\ now' = now /\ events' = events /\ seen' = seen /\ corrections' = corrections
  <1> DEFINE o == [by |-> s, fp |-> order[s].fp, at |-> now, recorded |-> -1]
             R == [by : Strategies, fp : Fingerprints, at : Time, recorded : Time \cup {-1}]
  <1>1. o.by = s /\ o.fp = order[s].fp /\ o.at = now /\ o.recorded = -1
    OBVIOUS
  <1>2. sends \in Seq(R) /\ o \in R
    BY DEF TypeOK
  <1>3. sends' = Append(sends, o)
    BY DEF Send
  <1> HIDE DEF o, R
  <1>4. /\ DOMAIN sends' = 1 .. Len(sends) + 1 /\ sends'[Len(sends) + 1] = o
        /\ \A i \in 1 .. Len(sends) : sends'[i] = sends[i]
    BY <1>2, <1>3
  <1>5. /\ pc \in [Strategies -> {"idle", "accepted", "sent"}]
        /\ order \in [Strategies -> [fp : Fingerprints, index : 0 .. Len(sends)]]
    BY DEF TypeOK
  <1>6. /\ pc[s] = "accepted" /\ pc'[s] = "sent" /\ order'[s].index = Len(sends) + 1
        /\ order'[s].fp = order[s].fp
        /\ \A t \in Strategies : t # s => pc'[t] = pc[t] /\ order'[t] = order[t]
        /\ now' = now /\ events' = events /\ seen' = seen /\ corrections' = corrections
    BY <1>5 DEF Send
  <1>7. QED BY <1>1, <1>4, <1>6

\* What record_order_sent does to them.
LEMMA RecordEffect ==
    ASSUME TypeOK, SendsInv, NEW s \in Strategies, RecordOrderSent(s)
    PROVE  /\ order[s].index \in DOMAIN sends
           /\ DOMAIN sends' = DOMAIN sends
           /\ \A i \in DOMAIN sends :
                  /\ sends'[i].by = sends[i].by /\ sends'[i].fp = sends[i].fp
                  /\ sends'[i].at = sends[i].at
                  /\ i # order[s].index => sends'[i] = sends[i]
           /\ sends[order[s].index].recorded = -1 /\ sends'[order[s].index].recorded = now
           /\ sends[order[s].index].by = s /\ sends[order[s].index].fp = order[s].fp
           /\ pc[s] = "sent" /\ pc'[s] = "idle"
           /\ \A t \in Strategies : t # s => pc'[t] = pc[t] /\ order'[t] = order[t]
           /\ now' = now /\ corrections' = corrections
           /\ events' = Append(Pruned(events, now), now) /\ seen' = Remember(seen, order[s].fp, now)
  <1>1. /\ pc[s] = "sent" /\ pc' = [pc EXCEPT ![s] = "idle"]
        /\ sends' = [sends EXCEPT ![order[s].index].recorded = now]
        /\ order' = [order EXCEPT ![s] = NoOrder]
        /\ now' = now /\ corrections' = corrections
        /\ events' = Append(Pruned(events, now), now) /\ seen' = Remember(seen, order[s].fp, now)
    BY DEF RecordOrderSent
  <1>2. /\ pc \in [Strategies -> {"idle", "accepted", "sent"}]
        /\ order \in [Strategies -> [fp : Fingerprints, index : 0 .. Len(sends)]]
    BY DEF TypeOK
  <1>3. \A i \in DOMAIN sends :
            sends[i] \in [by : Strategies, fp : Fingerprints, at : Time, recorded : Time \cup {-1}]
    <2> DEFINE R == [by : Strategies, fp : Fingerprints, at : Time, recorded : Time \cup {-1}]
    <2>1. sends \in Seq(R)
      BY DEF TypeOK
    <2> HIDE DEF R
    <2>2. \A i \in DOMAIN sends : sends[i] \in R
      BY <2>1
    <2>3. QED BY <2>2 DEF R
  <1>4. /\ order[s].index \in DOMAIN sends
        /\ sends[order[s].index].recorded = -1
        /\ sends[order[s].index].by = s /\ sends[order[s].index].fp = order[s].fp
    BY <1>1 DEF SendsInv
  <1>5. /\ DOMAIN sends' = DOMAIN sends
        /\ \A i \in DOMAIN sends :
                  /\ sends'[i].by = sends[i].by /\ sends'[i].fp = sends[i].fp
                  /\ sends'[i].at = sends[i].at
                  /\ i # order[s].index => sends'[i] = sends[i]
        /\ sends'[order[s].index].recorded = now
    BY <1>1, <1>3, <1>4
  <1>6. QED BY <1>1, <1>2, <1>4, <1>5

\* What evaluate does to the strategies.
LEMMA EvaluateEffect ==
    ASSUME TypeOK, NEW s \in Strategies, NEW fp \in Fingerprints, Evaluate(s, fp)
    PROVE  /\ pc[s] = "idle" /\ pc'[s] \in {"idle", "accepted"}
           /\ \A t \in Strategies : t # s => pc'[t] = pc[t] /\ order'[t] = order[t]
           /\ pc'[s] = "accepted" => order'[s].fp = fp /\ fp \notin DOMAIN PrunedSeen(seen, now)
           /\ now' = now /\ sends' = sends /\ corrections' = corrections
           /\ events' \in {events, Pruned(events, now)} /\ seen' = PrunedSeen(seen, now)
  <1>1. /\ pc \in [Strategies -> {"idle", "accepted", "sent"}]
        /\ order \in [Strategies -> [fp : Fingerprints, index : 0 .. Len(sends)]]
    BY DEF TypeOK
  <1>2. /\ pc[s] = "idle"
        /\ \/ /\ fp \notin DOMAIN PrunedSeen(seen, now)
              /\ pc' = [pc EXCEPT ![s] = "accepted"] /\ order' = [order EXCEPT ![s].fp = fp]
           \/ pc' = pc /\ order' = order
    BY DEF Evaluate
  <1>3. /\ now' = now /\ sends' = sends /\ corrections' = corrections
        /\ events' \in {events, Pruned(events, now)} /\ seen' = PrunedSeen(seen, now)
    BY DEF Evaluate
  <1>4. QED BY <1>1, <1>2, <1>3

\* What a clock does that has not been corrected.
LEMMA ClockEffect ==
    ASSUME TypeOK, Tick \/ StepBack
    PROVE  /\ events' = events /\ seen' = seen /\ pc' = pc /\ order' = order /\ sends' = sends
           /\ corrections' = 0 => corrections = 0 /\ now' = now + 1
  <1>1. CASE Tick
    BY <1>1 DEF Tick
  <1>2. CASE StepBack
    BY <1>2, FieldTypes DEF StepBack
  <1>3. QED BY <1>1, <1>2

\* A fresh session: nothing sent, nothing remembered, nobody holds an order.
Fresh == events = <<>> /\ sends = <<>> /\ DOMAIN seen = {} /\ \A s \in Strategies : pc[s] = "idle"

\* Of a fresh session everything holds.
LEMMA FreshHeld ==
    ASSUME Fresh
    PROVE  SendsInv /\ Forward /\ Remembered /\ Clear /\ ResubmissionHeld
  <1>1. DOMAIN events = {} /\ DOMAIN sends = {}
    BY DEF Fresh
  <1>2. QED BY <1>1 DEF Fresh, SendsInv, Forward, Remembered, Clear, ResubmissionHeld

\* A start and a restart are fresh.
LEMMA StartFresh ==
    /\ Init => Fresh
    /\ Restart => Fresh'
  BY DEF Init, Restart, Fresh

\* A step of the windows, by the kinds the invariants tell apart.
LEMMA StepKinds ==
    ASSUME [Next]_vars
    PROVE  \/ \E s \in Strategies, fp \in Fingerprints : Evaluate(s, fp)
           \/ \E s \in Strategies : Send(s)
           \/ \E s \in Strategies : RecordOrderSent(s)
           \/ Tick \/ StepBack \/ Restart \/ UNCHANGED vars
  BY DEF Next

\* Unreported orders and the strategies that hold them stay paired.
LEMMA SendsNext ==
    ASSUME TypeOK, SendsInv, [Next]_vars
    PROVE  SendsInv'
  <1>1. ASSUME NEW s \in Strategies, NEW fp \in Fingerprints, Evaluate(s, fp) PROVE SendsInv'
    <2>1. /\ pc[s] = "idle" /\ pc'[s] \in {"idle", "accepted"} /\ sends' = sends
          /\ \A t \in Strategies : t # s => pc'[t] = pc[t] /\ order'[t] = order[t]
      BY <1>1, EvaluateEffect
    <2>2. \A i \in DOMAIN sends : sends[i].by \in Strategies
      BY FieldTypes
    <2>3. ASSUME NEW t \in Strategies, pc'[t] = "sent"
          PROVE  pc[t] = "sent" /\ order'[t] = order[t]
      BY <2>1, <2>3
    <2>4. ASSUME NEW i \in DOMAIN sends, sends[i].recorded = -1
          PROVE  pc'[sends[i].by] = "sent" /\ order'[sends[i].by].index = i
      <3>1. pc[sends[i].by] = "sent" /\ order[sends[i].by].index = i
        BY <2>4 DEF SendsInv
      <3>2. sends[i].by # s
        BY <2>1, <3>1
      <3>3. QED BY <2>1, <2>2, <3>1, <3>2
    <2>5. QED BY <2>1, <2>3, <2>4 DEF SendsInv
  <1>2. ASSUME NEW s \in Strategies, Send(s) PROVE SendsInv'
    <2> DEFINE n == Len(sends)
    <2>1. /\ DOMAIN sends' = 1 .. n + 1 /\ DOMAIN sends = 1 .. n /\ n \in Nat
          /\ \A i \in 1 .. n : sends'[i] = sends[i]
          /\ sends'[n + 1].by = s /\ sends'[n + 1].fp = order'[s].fp
          /\ sends'[n + 1].recorded = -1
          /\ pc[s] = "accepted" /\ pc'[s] = "sent" /\ order'[s].index = n + 1
          /\ \A t \in Strategies : t # s => pc'[t] = pc[t] /\ order'[t] = order[t]
      BY <1>2, SendEffect, FieldTypes
    <2>2. \A i \in 1 .. n : sends[i].by \in Strategies
      BY <2>1, FieldTypes
    <2> HIDE DEF n
    <2>3. n + 1 \in 1 .. n + 1 /\ \A i \in 1 .. n + 1 : i \in 1 .. n \/ i = n + 1
      BY <2>1
    <2>3a. \A i \in 1 .. n : i \in 1 .. n + 1
      BY <2>1
    <2>4. ASSUME NEW t \in Strategies, pc'[t] = "sent"
          PROVE  /\ order'[t].index \in DOMAIN sends'
                 /\ sends'[order'[t].index].recorded = -1
                 /\ sends'[order'[t].index].by = t
                 /\ sends'[order'[t].index].fp = order'[t].fp
      <3>1. CASE t = s
        BY <2>1, <2>3, <3>1
      <3>2. CASE t # s
        <4>1. /\ order[t].index \in 1 .. n /\ order'[t] = order[t]
              /\ sends[order[t].index].recorded = -1
              /\ sends[order[t].index].by = t
              /\ sends[order[t].index].fp = order[t].fp
          BY <2>1, <2>4, <3>2 DEF SendsInv
        <4>2. QED BY <2>1, <2>3a, <4>1
      <3>3. QED BY <3>1, <3>2
    <2>5. ASSUME NEW i \in DOMAIN sends', sends'[i].recorded = -1
          PROVE  pc'[sends'[i].by] = "sent" /\ order'[sends'[i].by].index = i
      <3>1. CASE i = n + 1
        BY <2>1, <3>1
      <3>2. CASE i \in 1 .. n
        <4>1. /\ sends'[i] = sends[i] /\ sends[i].by \in Strategies
              /\ pc[sends[i].by] = "sent" /\ order[sends[i].by].index = i
          BY <2>1, <2>2, <2>5, <3>2 DEF SendsInv
        <4>2. QED BY <2>1, <4>1
      <3>3. QED BY <2>1, <2>3, <3>1, <3>2
    <2>6. QED BY <2>4, <2>5 DEF SendsInv
  <1>3. ASSUME NEW s \in Strategies, RecordOrderSent(s) PROVE SendsInv'
    <2> DEFINE k == order[s].index
    <2>1. /\ k \in DOMAIN sends /\ DOMAIN sends' = DOMAIN sends
          /\ \A i \in DOMAIN sends :
                  /\ sends'[i].by = sends[i].by /\ sends'[i].fp = sends[i].fp
                  /\ i # k => sends'[i] = sends[i]
          /\ sends[k].by = s /\ sends'[k].recorded = now /\ pc'[s] = "idle"
          /\ \A t \in Strategies : t # s => pc'[t] = pc[t] /\ order'[t] = order[t]
      BY <1>3, RecordEffect
    <2>2. now # -1 /\ \A i \in DOMAIN sends : sends[i].by \in Strategies
      BY FieldTypes
    <2>3. ASSUME NEW t \in Strategies, pc'[t] = "sent"
          PROVE  /\ order'[t].index \in DOMAIN sends'
                 /\ sends'[order'[t].index].recorded = -1
                 /\ sends'[order'[t].index].by = t
                 /\ sends'[order'[t].index].fp = order'[t].fp
      <3>1. t # s /\ pc[t] = "sent" /\ order'[t] = order[t]
        BY <2>1, <2>3
      <3>2. /\ order[t].index \in DOMAIN sends
            /\ sends[order[t].index].recorded = -1
            /\ sends[order[t].index].by = t
            /\ sends[order[t].index].fp = order[t].fp
        BY <3>1 DEF SendsInv
      <3>3. QED BY <2>1, <3>1, <3>2
    <2>4. ASSUME NEW i \in DOMAIN sends', sends'[i].recorded = -1
          PROVE  pc'[sends'[i].by] = "sent" /\ order'[sends'[i].by].index = i
      <3>1. i \in DOMAIN sends /\ i # k /\ sends'[i] = sends[i] /\ sends[i].by \in Strategies
        BY <2>1, <2>2, <2>4
      <3>2. pc[sends[i].by] = "sent" /\ order[sends[i].by].index = i
        BY <2>4, <3>1 DEF SendsInv
      <3>3. sends[i].by # s
        BY <3>1, <3>2
      <3>4. QED BY <2>1, <3>1, <3>2, <3>3
    <2>5. QED BY <2>3, <2>4 DEF SendsInv
  <1>4. CASE Tick \/ StepBack
    BY <1>4, ClockEffect DEF SendsInv
  <1>5. CASE Restart
    <2>1. (Fresh => SendsInv)'
      BY FreshHeld, PTL
    <2>2. QED BY <1>5, <2>1, StartFresh
  <1>6. CASE UNCHANGED vars
    BY <1>6 DEF vars, SendsInv
  <1>7. QED BY StepKinds, <1>1, <1>2, <1>3, <1>4, <1>5, <1>6

\* Nothing overtakes a clock that runs forwards.
LEMMA ForwardNext ==
    ASSUME SessionInv, [Next]_vars
    PROVE  Forward'
  <1> SUFFICES ASSUME corrections' = 0 PROVE Forward'
    BY DEF Forward
  <1>t. TypeOK /\ SendsInv /\ Sorted(events)
    BY DEF SessionInv, DequeInv
  <1>f. ASSUME corrections = 0
        PROVE  /\ \A e \in DOMAIN events : events[e] <= now
               /\ \A i \in DOMAIN sends :
                   /\ sends[i].at <= now /\ sends[i].recorded <= now
                   /\ sends[i].recorded >= 0 => sends[i].at <= sends[i].recorded
               /\ \A i, j \in DOMAIN sends : i <= j => sends[i].at <= sends[j].at
               /\ \A fp \in DOMAIN seen : seen[fp] <= now
    BY <1>f DEF SessionInv, Forward
  <1> DEFINE p == Pruned(events, now)
  <1>p. p \in Seq(Time) /\ \A e \in DOMAIN p : p[e] <= now
    BY <1>t, FieldTypes, PrunedSorted
  <1>1. ASSUME NEW s \in Strategies, NEW fp \in Fingerprints, Evaluate(s, fp) PROVE Forward'
    <2>1. /\ now' = now /\ sends' = sends /\ corrections' = corrections
          /\ events' \in {events, p} /\ seen' = PrunedSeen(seen, now)
      BY <1>1, <1>t, EvaluateEffect
    <2>2. \A x \in DOMAIN seen' : x \in DOMAIN seen /\ seen'[x] = seen[x]
      BY <2>1 DEF PrunedSeen, Restrict
    <2> HIDE DEF p
    <2>3. QED BY <1>f, <1>p, <2>1, <2>2 DEF Forward
  <1>2. ASSUME NEW s \in Strategies, Send(s) PROVE Forward'
    <2> DEFINE n == Len(sends)
    <2>1. /\ DOMAIN sends' = 1 .. n + 1 /\ DOMAIN sends = 1 .. n /\ n \in Nat
          /\ \A i \in 1 .. n : sends'[i] = sends[i]
          /\ sends'[n + 1].at = now /\ sends'[n + 1].recorded = -1
          /\ now' = now /\ events' = events /\ seen' = seen /\ corrections' = corrections
      BY <1>2, <1>t, SendEffect, FieldTypes
    <2>2. now \in Int /\ now >= 0
      BY <1>t, FieldTypes
    <2> HIDE DEF n
    <2>3. \A i \in 1 .. n + 1 : i \in 1 .. n \/ i = n + 1
      BY <2>1
    <2>4. \A i \in DOMAIN sends' :
                   /\ sends'[i].at <= now /\ sends'[i].recorded <= now
                   /\ sends'[i].recorded >= 0 => sends'[i].at <= sends'[i].recorded
      BY <1>f, <2>1, <2>2, <2>3
    <2>5. ASSUME NEW i \in DOMAIN sends', NEW j \in DOMAIN sends', i <= j
          PROVE  sends'[i].at <= sends'[j].at
      <3>1. CASE j = n + 1
        BY <2>1, <2>4, <3>1
      <3>2. CASE j \in 1 .. n
        <4>1. i \in 1 .. n
          BY <2>1, <2>5, <3>2
        <4>2. QED BY <1>f, <2>1, <2>5, <3>2, <4>1
      <3>3. QED BY <2>1, <2>3, <3>1, <3>2
    <2>6. QED BY <1>f, <2>1, <2>4, <2>5 DEF Forward
  <1>3. ASSUME NEW s \in Strategies, RecordOrderSent(s) PROVE Forward'
    <2> DEFINE k == order[s].index
    <2>1. /\ k \in DOMAIN sends /\ DOMAIN sends' = DOMAIN sends
          /\ \A i \in DOMAIN sends :
                  /\ sends'[i].at = sends[i].at
                  /\ i # k => sends'[i] = sends[i]
          /\ sends'[k].recorded = now
          /\ now' = now /\ corrections' = corrections
          /\ events' = Append(p, now) /\ seen' = Remember(seen, order[s].fp, now)
      BY <1>3, <1>t, RecordEffect
    <2>2. now \in Int /\ now >= 0 /\ now \in Time
      BY <1>t, FieldTypes
    <2>3. \A x \in DOMAIN seen' : seen'[x] = now \/ (x \in DOMAIN seen /\ seen'[x] = seen[x])
      BY <2>1 DEF Remember, PrunedSeen, Restrict
    <2> HIDE DEF p, k
    <2>4. \A e \in DOMAIN events' : events'[e] <= now
      <3>1. /\ DOMAIN events' = 1 .. Len(p) + 1 /\ DOMAIN p = 1 .. Len(p) /\ Len(p) \in Nat
            /\ events'[Len(p) + 1] = now /\ \A e \in 1 .. Len(p) : events'[e] = p[e]
        BY <1>p, <2>1, <2>2
      <3>2. QED BY <1>p, <2>2, <3>1
    <2>5. QED BY <1>f, <2>1, <2>2, <2>3, <2>4 DEF Forward
  <1>4. CASE Tick \/ StepBack
    <2>1. /\ events' = events /\ seen' = seen /\ sends' = sends /\ corrections = 0 /\ now' = now + 1
      BY <1>4, <1>t, ClockEffect
    <2>2. \A x \in Int : x <= now => x <= now + 1
      BY <1>t, FieldTypes
    <2>3. QED BY <1>f, <1>t, <2>1, <2>2, FieldTypes DEF Forward
  <1>5. CASE Restart
    <2>1. (Fresh => Forward)'
      BY FreshHeld, PTL
    <2>2. QED BY <1>5, <2>1, StartFresh
  <1>6. CASE UNCHANGED vars
    BY <1>6 DEF vars, SessionInv, Forward
  <1>7. QED BY StepKinds, <1>1, <1>2, <1>3, <1>4, <1>5, <1>6

\* A reported order is remembered, by itself or by a later report of the same,
\* until its window is over.
LEMMA RememberedNext ==
    ASSUME SessionInv, Remembered, [Next]_vars
    PROVE  Remembered'
  <1> SUFFICES ASSUME corrections' = 0 PROVE Remembered'
    BY DEF Remembered
  <1>t. TypeOK /\ SendsInv
    BY DEF SessionInv, DequeInv
  <1>i. now \in Int /\ now >= 0 /\ DuplicateMillis \in Int /\ DuplicateMillis > 0
    BY <1>t, FieldTypes
  <1>f. ASSUME corrections = 0
        PROVE  /\ \A fp \in DOMAIN seen : seen[fp] <= now
               /\ \A i \in DOMAIN sends : sends[i].recorded <= now
               /\ \A i \in DOMAIN sends : sends[i].recorded >= 0 =>
                   \/ sends[i].recorded <= now - DuplicateMillis
                   \/ sends[i].fp \in DOMAIN seen /\ sends[i].recorded <= seen[sends[i].fp]
    BY <1>f DEF SessionInv, Forward, Remembered
  <1> DEFINE q == PrunedSeen(seen, now)
  \* What pruning forgets has expired.
  <1>q. ASSUME corrections = 0, NEW i \in DOMAIN sends, sends[i].recorded >= 0
        PROVE  \/ sends[i].recorded <= now - DuplicateMillis
               \/ sends[i].fp \in DOMAIN q /\ sends[i].recorded <= q[sends[i].fp]
    <2>1. \/ sends[i].recorded <= now - DuplicateMillis
          \/ sends[i].fp \in DOMAIN seen /\ sends[i].recorded <= seen[sends[i].fp]
      BY <1>f, <1>q
    <2>2. CASE sends[i].fp \in DOMAIN seen /\ sends[i].recorded <= seen[sends[i].fp]
      <3> DEFINE x == sends[i].fp
      <3>1. /\ x \in DOMAIN seen /\ sends[i].recorded <= seen[x] /\ seen[x] <= now
            /\ seen[x] \in Int /\ sends[i].recorded \in Int
        BY <1>f, <1>q, <1>t, <2>2, FieldTypes
      <3>2. /\ x \in DOMAIN q <=> Within(seen[x], now, DuplicateMillis)
            /\ x \in DOMAIN q => q[x] = seen[x]
        BY <3>1 DEF PrunedSeen, Restrict
      <3> HIDE DEF x, q
      <3>3. Within(seen[x], now, DuplicateMillis) \/ seen[x] <= now - DuplicateMillis
        BY <1>i, <3>1 DEF Within
      <3>4. (x \in DOMAIN q /\ sends[i].recorded <= q[x]) \/ sends[i].recorded <= now - DuplicateMillis
        BY <1>i, <3>1, <3>2, <3>3
      <3>5. QED BY <3>4 DEF x
    <2>3. QED BY <2>1, <2>2
  <1>1. ASSUME NEW s \in Strategies, NEW fp \in Fingerprints, Evaluate(s, fp) PROVE Remembered'
    <2>1. now' = now /\ sends' = sends /\ corrections' = corrections /\ seen' = q
      BY <1>1, <1>t, EvaluateEffect
    <2> HIDE DEF q
    <2>2. QED BY <1>q, <2>1 DEF Remembered
  <1>2. ASSUME NEW s \in Strategies, Send(s) PROVE Remembered'
    <2> DEFINE n == Len(sends)
    <2>1. /\ DOMAIN sends' = 1 .. n + 1 /\ DOMAIN sends = 1 .. n /\ n \in Nat
          /\ \A i \in 1 .. n : sends'[i] = sends[i]
          /\ sends'[n + 1].recorded = -1
          /\ now' = now /\ seen' = seen /\ corrections' = corrections
      BY <1>2, <1>t, SendEffect, FieldTypes
    <2> HIDE DEF n
    <2>2. \A i \in 1 .. n + 1 : i \in 1 .. n \/ i = n + 1
      BY <2>1
    <2>3. ASSUME NEW i \in DOMAIN sends', sends'[i].recorded >= 0
          PROVE  i \in DOMAIN sends /\ sends'[i] = sends[i]
      BY <2>1, <2>2, <2>3
    <2>4. QED BY <1>f, <2>1, <2>3 DEF Remembered
  <1>3. ASSUME NEW s \in Strategies, RecordOrderSent(s) PROVE Remembered'
    <2> DEFINE k == order[s].index
               r == Remember(seen, order[s].fp, now)
    <2>1. /\ k \in DOMAIN sends /\ DOMAIN sends' = DOMAIN sends
          /\ \A i \in DOMAIN sends : i # k => sends'[i] = sends[i]
          /\ sends'[k].recorded = now /\ sends'[k].fp = order[s].fp
          /\ now' = now /\ corrections' = corrections /\ seen' = r
      BY <1>3, <1>t, RecordEffect
    <2>2. /\ DOMAIN r = DOMAIN q \cup {order[s].fp} /\ r[order[s].fp] = now
          /\ \A x \in DOMAIN q : x # order[s].fp => r[x] = q[x]
      BY DEF Remember
    <2>3. \A i \in DOMAIN sends : sends[i].recorded \in Int
      BY <1>t, FieldTypes
    <2> HIDE DEF k, q, r
    <2>4. ASSUME NEW i \in DOMAIN sends', sends'[i].recorded >= 0
          PROVE  \/ sends'[i].recorded <= now - DuplicateMillis
                 \/ sends'[i].fp \in DOMAIN r /\ sends'[i].recorded <= r[sends'[i].fp]
      <3>1. CASE i = k
        BY <1>i, <2>1, <2>2, <3>1
      <3>2. CASE i # k
        <4>1. /\ i \in DOMAIN sends /\ sends'[i] = sends[i] /\ sends[i].recorded >= 0
              /\ corrections = 0
          BY <2>1, <2>4, <3>2
        <4>2. \/ sends[i].recorded <= now - DuplicateMillis
              \/ sends[i].fp \in DOMAIN q /\ sends[i].recorded <= q[sends[i].fp]
          BY <1>q, <4>1
        <4>3. sends[i].recorded <= now
          BY <1>f, <4>1
        <4>4. QED BY <2>2, <4>1, <4>2, <4>3
      <3>3. QED BY <3>1, <3>2
    <2>5. QED BY <2>1, <2>4 DEF Remembered
  <1>4. CASE Tick \/ StepBack
    <2>1. seen' = seen /\ sends' = sends /\ corrections = 0 /\ now' = now + 1
      BY <1>4, <1>t, ClockEffect
    <2>2. \A i \in DOMAIN sends : sends[i].recorded \in Int
      BY <1>t, FieldTypes
    <2>3. \A x \in Int : x <= now - DuplicateMillis => x <= now' - DuplicateMillis
      BY <1>i, <2>1
    <2>4. ASSUME NEW i \in DOMAIN sends', sends'[i].recorded >= 0
          PROVE  \/ sends'[i].recorded <= now' - DuplicateMillis
                 \/ sends'[i].fp \in DOMAIN seen' /\ sends'[i].recorded <= seen'[sends'[i].fp]
      <3>1. \/ sends[i].recorded <= now - DuplicateMillis
            \/ sends[i].fp \in DOMAIN seen /\ sends[i].recorded <= seen[sends[i].fp]
        BY <1>f, <2>1, <2>4
      <3>2. QED BY <2>1, <2>2, <2>3, <2>4, <3>1
    <2>5. QED BY <2>4 DEF Remembered
  <1>5. CASE Restart
    <2>1. (Fresh => Remembered)'
      BY FreshHeld, PTL
    <2>2. QED BY <1>5, <2>1, StartFresh
  <1>6. CASE UNCHANGED vars
    BY <1>6 DEF vars, Remembered
  <1>7. QED BY StepKinds, <1>1, <1>2, <1>3, <1>4, <1>5, <1>6

\* An order is accepted only clear of the earlier identical ones of its
\* strategy, and stays so until it goes out.
LEMMA ClearNext ==
    ASSUME SessionInv, Remembered, Clear, [Next]_vars
    PROVE  Clear'
  <1> SUFFICES ASSUME corrections' = 0 PROVE Clear'
    BY DEF Clear
  <1>t. TypeOK /\ SendsInv
    BY DEF SessionInv, DequeInv
  <1>i. /\ now \in Int /\ now >= 0 /\ DuplicateMillis \in Int /\ DuplicateMillis > 0
        /\ \A i \in DOMAIN sends : sends[i].at \in Int /\ sends[i].recorded \in Int
                                   /\ sends[i].recorded >= -1 /\ sends[i].by \in Strategies
    BY <1>t, FieldTypes
  <1>c. ASSUME corrections = 0, NEW s \in Strategies, pc[s] = "accepted", NEW i \in DOMAIN sends,
               sends[i].by = s, sends[i].fp = order[s].fp
        PROVE  sends[i].at <= now - DuplicateMillis
    BY <1>c DEF Clear
  <1>1. ASSUME NEW s \in Strategies, NEW fp \in Fingerprints, Evaluate(s, fp) PROVE Clear'
    <2>1. /\ pc[s] = "idle" /\ now' = now /\ sends' = sends /\ corrections = 0
          /\ \A t \in Strategies : t # s => pc'[t] = pc[t] /\ order'[t] = order[t]
          /\ pc'[s] = "accepted" => order'[s].fp = fp /\ fp \notin DOMAIN PrunedSeen(seen, now)
      BY <1>1, <1>t, EvaluateEffect
    <2>2. ASSUME NEW t \in Strategies, pc'[t] = "accepted", NEW i \in DOMAIN sends,
                 sends[i].by = t, sends[i].fp = order'[t].fp
          PROVE  sends[i].at <= now - DuplicateMillis
      <3>1. CASE t # s
        BY <1>c, <2>1, <2>2, <3>1
      <3>2. CASE t = s
        <4>1. sends[i].fp = fp /\ fp \notin DOMAIN PrunedSeen(seen, now)
          BY <2>1, <2>2, <3>2
        <4>2. sends[i].recorded >= 0
          <5>1. sends[i].recorded # -1
            BY <2>1, <2>2, <3>2, <1>t DEF SendsInv
          <5>2. QED BY <1>i, <5>1
        <4>3. /\ sends[i].at <= sends[i].recorded
              /\ \/ sends[i].recorded <= now - DuplicateMillis
                 \/ fp \in DOMAIN seen /\ sends[i].recorded <= seen[fp] /\ seen[fp] <= now
          BY <2>1, <4>1, <4>2 DEF SessionInv, Forward, Remembered
        <4>4. CASE fp \in DOMAIN seen /\ sends[i].recorded <= seen[fp] /\ seen[fp] <= now
          <5>1. ~ Within(seen[fp], now, DuplicateMillis)
            BY <4>1, <4>4 DEF PrunedSeen, Restrict
          <5>2. seen[fp] \in Int
            BY <1>t, <4>4, FieldTypes
          <5>3. seen[fp] <= now - DuplicateMillis
            BY <1>i, <4>4, <5>1, <5>2 DEF Within
          <5>4. QED BY <1>i, <4>3, <4>4, <5>2, <5>3
        <4>5. QED BY <1>i, <4>3, <4>4
      <3>3. QED BY <3>1, <3>2
    <2>3. QED BY <2>1, <2>2 DEF Clear
  <1>2. ASSUME NEW s \in Strategies, Send(s) PROVE Clear'
    <2> DEFINE n == Len(sends)
    <2>1. /\ DOMAIN sends' = 1 .. n + 1 /\ DOMAIN sends = 1 .. n /\ n \in Nat
          /\ \A i \in 1 .. n : sends'[i] = sends[i]
          /\ sends'[n + 1].by = s /\ pc'[s] = "sent"
          /\ \A t \in Strategies : t # s => pc'[t] = pc[t] /\ order'[t] = order[t]
          /\ now' = now /\ corrections' = corrections
      BY <1>2, <1>t, SendEffect, FieldTypes
    <2> HIDE DEF n
    <2>2. \A i \in 1 .. n + 1 : i \in 1 .. n \/ i = n + 1
      BY <2>1
    <2>3. ASSUME NEW t \in Strategies, pc'[t] = "accepted", NEW i \in DOMAIN sends',
                 sends'[i].by = t, sends'[i].fp = order'[t].fp
          PROVE  sends'[i].at <= now - DuplicateMillis
      <3>1. t # s /\ pc[t] = "accepted" /\ order'[t] = order[t]
        BY <2>1, <2>3
      <3>2. i \in DOMAIN sends /\ sends'[i] = sends[i]
        BY <2>1, <2>2, <2>3, <3>1
      <3>3. QED BY <1>c, <2>1, <2>3, <3>1, <3>2
    <2>4. QED BY <2>1, <2>3 DEF Clear
  <1>3. ASSUME NEW s \in Strategies, RecordOrderSent(s) PROVE Clear'
    <2>1. /\ DOMAIN sends' = DOMAIN sends
          /\ \A i \in DOMAIN sends : /\ sends'[i].at = sends[i].at /\ sends'[i].by = sends[i].by
                                     /\ sends'[i].fp = sends[i].fp
          /\ pc'[s] = "idle"
          /\ \A t \in Strategies : t # s => pc'[t] = pc[t] /\ order'[t] = order[t]
          /\ now' = now /\ corrections' = corrections
      BY <1>3, <1>t, RecordEffect
    <2>2. QED BY <1>c, <2>1 DEF Clear
  <1>4. CASE Tick \/ StepBack
    <2>1. pc' = pc /\ order' = order /\ sends' = sends /\ corrections = 0 /\ now' = now + 1
      BY <1>4, <1>t, ClockEffect
    <2>2. \A x \in Int : x <= now - DuplicateMillis => x <= now + 1 - DuplicateMillis
      BY <1>i
    <2>3. QED BY <1>c, <1>i, <2>1, <2>2 DEF Clear
  <1>5. CASE Restart
    <2>1. (Fresh => Clear)'
      BY FreshHeld, PTL
    <2>2. QED BY <1>5, <2>1, StartFresh
  <1>6. CASE UNCHANGED vars
    BY <1>6 DEF vars, Clear
  <1>7. QED BY StepKinds, <1>1, <1>2, <1>3, <1>4, <1>5, <1>6

\* Only a send adds an order, and only a clear one.
LEMMA HeldNext ==
    ASSUME SessionInv, Clear, ResubmissionHeld, [Next]_vars
    PROVE  ResubmissionHeld'
  <1> SUFFICES ASSUME corrections' = 0 PROVE ResubmissionHeld'
    BY DEF ResubmissionHeld
  <1>t. TypeOK /\ SendsInv
    BY DEF SessionInv, DequeInv
  <1>i. /\ now \in Int /\ DuplicateMillis \in Int
        /\ \A i \in DOMAIN sends : sends[i].at \in Int
    BY <1>t, FieldTypes
  <1>1. ASSUME NEW s \in Strategies, NEW fp \in Fingerprints, Evaluate(s, fp)
        PROVE  ResubmissionHeld'
    BY <1>1, <1>t, EvaluateEffect DEF ResubmissionHeld
  <1>2. ASSUME NEW s \in Strategies, Send(s) PROVE ResubmissionHeld'
    <2> DEFINE n == Len(sends)
    <2>1. /\ DOMAIN sends' = 1 .. n + 1 /\ DOMAIN sends = 1 .. n /\ n \in Nat
          /\ \A i \in 1 .. n : sends'[i] = sends[i]
          /\ sends'[n + 1].by = s /\ sends'[n + 1].fp = order[s].fp /\ sends'[n + 1].at = now
          /\ pc[s] = "accepted" /\ now' = now /\ corrections' = corrections
      BY <1>2, <1>t, SendEffect, FieldTypes
    <2> HIDE DEF n
    <2>2. ASSUME NEW i \in DOMAIN sends', NEW j \in DOMAIN sends', i < j,
                 sends'[i].by = sends'[j].by, sends'[i].fp = sends'[j].fp
          PROVE  sends'[j].at - sends'[i].at >= DuplicateMillis
      <3>1. i \in 1 .. n /\ sends'[i] = sends[i] /\ i \in DOMAIN sends
        BY <2>1, <2>2
      <3>2. CASE j = n + 1
        <4>1. sends[i].at <= now - DuplicateMillis
          BY <2>1, <2>2, <3>1, <3>2 DEF Clear
        <4>2. QED BY <1>i, <2>1, <3>1, <3>2, <4>1
      <3>3. CASE j \in 1 .. n
        BY <2>1, <2>2, <3>1, <3>3 DEF ResubmissionHeld
      <3>4. QED BY <2>1, <2>2, <3>2, <3>3
    <2>3. QED BY <2>2 DEF ResubmissionHeld
  <1>3. ASSUME NEW s \in Strategies, RecordOrderSent(s) PROVE ResubmissionHeld'
    BY <1>3, <1>t, RecordEffect DEF ResubmissionHeld
  <1>4. CASE Tick \/ StepBack
    BY <1>4, <1>t, ClockEffect DEF ResubmissionHeld
  <1>5. CASE Restart
    <2>1. (Fresh => ResubmissionHeld)'
      BY FreshHeld, PTL
    <2>2. QED BY <1>5, <2>1, StartFresh
  <1>6. CASE UNCHANGED vars
    BY <1>6 DEF vars, ResubmissionHeld
  <1>7. QED BY StepKinds, <1>1, <1>2, <1>3, <1>4, <1>5, <1>6

\* The invariant of a session, of its first state and of every step.
LEMMA SessionHolds ==
    /\ Init => SessionInv
    /\ SessionInv /\ [Next]_vars => SessionInv'
  <1>1. Init => SessionInv
    BY DequeInit, StartFresh, FreshHeld DEF SessionInv
  <1>2. ASSUME SessionInv, [Next]_vars PROVE SessionInv'
    <2>1. TypeOK /\ SendsInv /\ DequeInv
      BY <1>2 DEF SessionInv, DequeInv
    <2>2. DequeInv' /\ SendsInv' /\ Forward'
      BY <1>2, <2>1, DequeNext, SendsNext, ForwardNext
    <2>3. QED BY <2>2 DEF SessionInv
  <1>3. QED BY <1>1, <1>2

\* As long as the clock runs forwards, a strategy that resubmits an identical
\* order within the duplicate window never gets it out again, however long its
\* sends and reports take and whatever the other strategies do in between.
THEOREM NoQuickResubmission == Spec => []ResubmissionHeld
  <1>1. Init => HeldInv
    BY SessionHolds, StartFresh, FreshHeld DEF HeldInv
  <1>2. HeldInv /\ [Next]_vars => HeldInv'
    <2> SUFFICES ASSUME HeldInv, [Next]_vars PROVE HeldInv'
      OBVIOUS
    <2>1. SessionInv /\ Remembered /\ Clear /\ ResubmissionHeld
      BY DEF HeldInv
    <2>2. SessionInv' /\ Remembered' /\ Clear' /\ ResubmissionHeld'
      BY <2>1, SessionHolds, RememberedNext, ClearNext, HeldNext
    <2>3. QED BY <2>2 DEF HeldInv
  <1>3. HeldInv => ResubmissionHeld
    BY DEF HeldInv
  <1>4. QED BY <1>1, <1>2, <1>3, PTL DEF Spec

-------------------------------------------------------------------------------
(* The entries of the deque, and the reports they stand for *)

\* Entries of a deque are reports of different orders; while the clock has run
\* forwards no report within the window is missing.
Matches(ev, g) ==
    /\ g \in [DOMAIN ev -> DOMAIN sends]
    /\ \A e, f \in DOMAIN ev : g[e] = g[f] => e = f
    /\ \A e \in DOMAIN ev : sends[g[e]].recorded = ev[e]
    /\ corrections = 0 =>
           \A i \in DOMAIN sends :
               sends[i].recorded >= 0 /\ sends[i].recorded > now - RateMillis =>
                   \E e \in DOMAIN ev : g[e] = i

Matched == \E g : Matches(events, g)

CountInv == SessionInv /\ Matched

\* Pruning leaves the entries within the window, and their reports.
LEMMA PrunedMatches ==
    ASSUME SessionInv, NEW g, Matches(events, g)
    PROVE  \E h : Matches(Pruned(events, now), h)
  <1> DEFINE p == Pruned(events, now)
  <1>t. TypeOK /\ Sorted(events)
    BY DEF SessionInv, DequeInv
  <1>i. /\ now \in Int /\ now \in Time /\ events \in Seq(Time) /\ RateMillis \in Int
        /\ DOMAIN events = 1 .. Len(events) /\ Len(events) \in Nat
    BY <1>t, FieldTypes
  <1>1. PICK d \in Nat, k \in Nat :
            /\ d <= k /\ k <= Len(events) /\ p \in Seq(Time) /\ Len(p) = k - d
            /\ \A i \in 1 .. k - d : p[i] = events[d + i]
            /\ \A i \in 1 .. Len(events) : d < i /\ i <= k <=> Within(events[i], now, RateMillis)
    BY <1>t, <1>i, PrunedEntries
  <1> HIDE DEF p
  <1>2. DOMAIN p = 1 .. k - d
    BY <1>1
  <1>3. \A i \in 1 .. k - d : d + i \in DOMAIN events
    BY <1>1, <1>i
  <1> DEFINE h == [i \in 1 .. k - d |-> g[d + i]]
  <1>4. DOMAIN h = 1 .. k - d /\ \A i \in 1 .. k - d : h[i] = g[d + i]
    OBVIOUS
  <1>4a. h = [i \in 1 .. k - d |-> h[i]]
    OBVIOUS
  <1> HIDE DEF h
  <1>5. h \in [DOMAIN p -> DOMAIN sends]
    BY <1>2, <1>3, <1>4, <1>4a DEF Matches
  <1>6. ASSUME NEW e \in DOMAIN p, NEW f \in DOMAIN p, h[e] = h[f] PROVE e = f
    <2>1. d + e \in DOMAIN events /\ d + f \in DOMAIN events /\ g[d + e] = g[d + f]
      BY <1>2, <1>3, <1>4, <1>6
    <2>2. d + e = d + f
      BY <2>1 DEF Matches
    <2>3. QED BY <1>2, <2>2
  <1>7. \A e \in DOMAIN p : sends[h[e]].recorded = p[e]
    BY <1>1, <1>2, <1>3, <1>4 DEF Matches
  <1>8. ASSUME corrections = 0, NEW i \in DOMAIN sends, sends[i].recorded >= 0,
               sends[i].recorded > now - RateMillis
        PROVE  \E e \in DOMAIN p : h[e] = i
    <2>1. PICK e \in DOMAIN events : g[e] = i
      BY <1>8 DEF Matches
    <2>2. events[e] = sends[i].recorded
      BY <2>1 DEF Matches
    <2>3. sends[i].recorded \in Int /\ sends[i].recorded <= now
      BY <1>8, <1>t, FieldTypes DEF SessionInv, Forward
    <2>4. Within(events[e], now, RateMillis)
      BY <1>i, <1>8, <2>2, <2>3 DEF Within
    <2>5. d < e /\ e <= k /\ e \in 1 .. Len(events)
      BY <1>1, <1>i, <2>4
    <2>6. e - d \in 1 .. k - d /\ d + (e - d) = e
      BY <1>1, <2>5
    <2>7. h[e - d] = i
      BY <1>4, <2>1, <2>6
    <2>8. QED BY <1>2, <2>6, <2>7
  <1>9. Matches(p, h)
    BY <1>5, <1>6, <1>7, <1>8 DEF Matches
  <1>10. QED BY <1>9 DEF p

\* A report of a further order matches a further entry.
LEMMA RecordMatches ==
    ASSUME SessionInv, NEW s \in Strategies, RecordOrderSent(s),
           NEW g, Matches(Pruned(events, now), g)
    PROVE  Matched'
  <1> DEFINE p == Pruned(events, now)
             k == order[s].index
             n == Len(p)
             h == [i \in 1 .. n + 1 |-> IF i = n + 1 THEN k ELSE g[i]]
  <1>t. TypeOK /\ SendsInv /\ Sorted(events)
    BY DEF SessionInv, DequeInv
  <1>i. now \in Int /\ now >= 0 /\ now \in Time /\ \A t \in Time : t \in Int /\ t >= 0
    BY <1>t, FieldTypes DEF Time
  <1>1. p \in Seq(Time)
    BY <1>t, FieldTypes, PrunedSorted
  <1>2. /\ k \in DOMAIN sends /\ DOMAIN sends' = DOMAIN sends
        /\ \A i \in DOMAIN sends : i # k => sends'[i] = sends[i]
        /\ sends[k].recorded = -1 /\ sends'[k].recorded = now
        /\ now' = now /\ corrections' = corrections /\ events' = Append(p, now)
    BY <1>t, RecordEffect
  <1>g. Matches(p, g)
    OBVIOUS
  <1>h. DOMAIN h = 1 .. n + 1 /\ h = [i \in 1 .. n + 1 |-> h[i]]
        /\ \A i \in 1 .. n + 1 : h[i] = IF i = n + 1 THEN k ELSE g[i]
    OBVIOUS
  <1> HIDE DEF p, k, h
  <1>3. /\ n \in Nat /\ DOMAIN p = 1 .. n /\ DOMAIN events' = 1 .. n + 1
        /\ events'[n + 1] = now /\ \A e \in 1 .. n : events'[e] = p[e] /\ p[e] \in Time
    BY <1>1, <1>2, <1>i
  <1> HIDE DEF n
  <1>4. h[n + 1] = k /\ \A e \in 1 .. n : h[e] = g[e] /\ g[e] \in DOMAIN sends
    BY <1>3, <1>h, <1>g DEF Matches
  <1>5. \A e \in 1 .. n + 1 : e \in 1 .. n \/ e = n + 1
    BY <1>3
  <1>6. \A e \in 1 .. n : sends[g[e]].recorded = p[e] /\ g[e] # k
    <2> SUFFICES ASSUME NEW e \in 1 .. n PROVE sends[g[e]].recorded = p[e] /\ g[e] # k
      OBVIOUS
    <2>1. sends[g[e]].recorded = p[e]
      BY <1>3, <1>g DEF Matches
    <2>2. p[e] >= 0 /\ p[e] \in Int
      BY <1>3, <1>i
    <2>3. QED BY <1>2, <2>1, <2>2
  <1>7. h \in [DOMAIN events' -> DOMAIN sends']
    BY <1>2, <1>3, <1>4, <1>5, <1>h
  <1>8. ASSUME NEW e \in DOMAIN events', NEW f \in DOMAIN events', h[e] = h[f] PROVE e = f
    <2>1. CASE e \in 1 .. n /\ f \in 1 .. n
      BY <1>3, <1>4, <1>8, <1>g, <2>1 DEF Matches
    <2>2. CASE ~ (e \in 1 .. n /\ f \in 1 .. n)
      BY <1>3, <1>4, <1>5, <1>6, <1>8, <2>2
    <2>3. QED BY <2>1, <2>2
  <1>9. ASSUME NEW e \in DOMAIN events' PROVE sends'[h[e]].recorded = events'[e]
    <2>1. CASE e \in 1 .. n
      BY <1>2, <1>3, <1>4, <1>6, <2>1
    <2>2. CASE e = n + 1
      BY <1>2, <1>3, <1>4, <2>2
    <2>3. QED BY <1>3, <1>5, <2>1, <2>2
  <1>10. ASSUME corrections' = 0, NEW i \in DOMAIN sends', sends'[i].recorded >= 0,
                sends'[i].recorded > now' - RateMillis
         PROVE  \E e \in DOMAIN events' : h[e] = i
    <2>1. CASE i = k
      BY <1>3, <1>4, <2>1
    <2>2. CASE i # k
      <3>1. sends'[i] = sends[i] /\ i \in DOMAIN sends /\ corrections = 0
        BY <1>2, <1>10, <2>2
      <3>2. PICK e \in DOMAIN p : g[e] = i
        BY <1>2, <1>10, <1>g, <3>1 DEF Matches
      <3>3. e \in DOMAIN events' /\ h[e] = i
        BY <1>3, <1>4, <3>2
      <3>4. QED BY <3>3
    <2>3. QED BY <2>1, <2>2
  <1>r. PICK r : r = h
    OBVIOUS
  <1>11. Matches(events, r)'
    BY <1>7, <1>8, <1>9, <1>10, <1>r DEF Matches
  <1>12. QED BY <1>11 DEF Matched

\* Of an empty deque and a session without orders the empty function is the
\* matching.
LEMMA FreshMatched ==
    ASSUME Fresh
    PROVE  Matched
  <1> DEFINE g == [e \in {} |-> 0]
  <1>1. DOMAIN events = {} /\ DOMAIN sends = {}
    BY DEF Fresh
  <1>2. g \in [{} -> {}]
    OBVIOUS
  <1> HIDE DEF g
  <1>3. Matches(events, g)
    BY <1>1, <1>2 DEF Matches
  <1>4. QED BY <1>3 DEF Matched

\* Every step keeps a matching.
LEMMA MatchedNext ==
    ASSUME SessionInv, Matched, [Next]_vars
    PROVE  Matched'
  <1>t. TypeOK /\ SendsInv
    BY DEF SessionInv, DequeInv
  <1>g. PICK g : Matches(events, g)
    BY DEF Matched
  <1>h. PICK h : Matches(Pruned(events, now), h)
    BY <1>g, PrunedMatches
  <1>1. ASSUME NEW s \in Strategies, NEW fp \in Fingerprints, Evaluate(s, fp) PROVE Matched'
    <2>1. /\ now' = now /\ sends' = sends /\ corrections' = corrections
          /\ events' \in {events, Pruned(events, now)}
      BY <1>1, <1>t, EvaluateEffect
    <2>2. CASE events' = events
      <3>1. Matches(events, g)'
        BY <1>g, <2>1, <2>2 DEF Matches
      <3>2. QED BY <3>1 DEF Matched
    <2>3. CASE events' = Pruned(events, now)
      <3> DEFINE p == Pruned(events, now)
      <3>1. Matches(p, h) /\ events' = p
        BY <1>h, <2>3
      <3> HIDE DEF p
      <3>2. /\ h \in [DOMAIN events' -> DOMAIN sends']
            /\ \A e, f \in DOMAIN events' : h[e] = h[f] => e = f
            /\ \A e \in DOMAIN events' : sends'[h[e]].recorded = events'[e]
        BY <2>1, <3>1 DEF Matches
      <3>3. ASSUME corrections' = 0, NEW i \in DOMAIN sends', sends'[i].recorded >= 0,
                   sends'[i].recorded > now' - RateMillis
            PROVE  \E e \in DOMAIN events' : h[e] = i
        BY <2>1, <3>1, <3>3 DEF Matches
      <3>4. Matches(events, h)'
        BY <3>2, <3>3 DEF Matches
      <3>5. QED BY <3>4 DEF Matched
    <2>4. QED BY <2>1, <2>2, <2>3
  <1>2. ASSUME NEW s \in Strategies, Send(s) PROVE Matched'
    <2> DEFINE n == Len(sends)
    <2>1. /\ DOMAIN sends' = 1 .. n + 1 /\ DOMAIN sends = 1 .. n /\ n \in Nat
          /\ \A i \in 1 .. n : sends'[i] = sends[i]
          /\ sends'[n + 1].recorded = -1
          /\ now' = now /\ events' = events /\ corrections' = corrections
      BY <1>2, <1>t, SendEffect, FieldTypes
    <2> HIDE DEF n
    <2>2. \A i \in 1 .. n + 1 : i \in 1 .. n \/ i = n + 1
      BY <2>1
    <2>3. 1 .. n \subseteq 1 .. n + 1
      BY <2>1
    <2>4. /\ g \in [DOMAIN events -> 1 .. n]
          /\ \A e, f \in DOMAIN events : g[e] = g[f] => e = f
          /\ \A e \in DOMAIN events : sends[g[e]].recorded = events[e]
      BY <1>g, <2>1 DEF Matches
    <2>5. \A e \in DOMAIN events : sends'[g[e]].recorded = events[e]
      BY <2>1, <2>4
    <2>6. ASSUME corrections' = 0, NEW i \in DOMAIN sends', sends'[i].recorded >= 0,
                 sends'[i].recorded > now' - RateMillis
          PROVE  \E e \in DOMAIN events' : g[e] = i
      <3>1. i \in DOMAIN sends /\ sends'[i] = sends[i]
        BY <2>1, <2>2, <2>6
      <3>2. QED BY <1>g, <2>1, <2>6, <3>1 DEF Matches
    <2>7. g \in [DOMAIN events' -> DOMAIN sends']
      BY <2>1, <2>3, <2>4
    <2>8. Matches(events, g)'
      BY <2>1, <2>4, <2>5, <2>6, <2>7 DEF Matches
    <2>9. QED BY <2>8 DEF Matched
  <1>3. ASSUME NEW s \in Strategies, RecordOrderSent(s) PROVE Matched'
    BY <1>3, <1>h, RecordMatches
  <1>4. CASE Tick \/ StepBack
    <2>1. /\ events' = events /\ sends' = sends
          /\ corrections' = 0 => corrections = 0 /\ now' = now + 1
      BY <1>4, <1>t, ClockEffect
    <2>2. /\ \A i \in DOMAIN sends : sends[i].recorded \in Int
          /\ now \in Int /\ RateMillis \in Int
      BY <1>t, FieldTypes
    <2>3. ASSUME corrections' = 0, NEW i \in DOMAIN sends, sends[i].recorded >= 0,
                 sends[i].recorded > now' - RateMillis
          PROVE  \E e \in DOMAIN events : g[e] = i
      <3>0. corrections = 0 /\ now' = now + 1 /\ sends[i].recorded \in Int
        BY <2>1, <2>2, <2>3
      <3>1. sends[i].recorded > now - RateMillis /\ corrections = 0
        BY <2>2, <2>3, <3>0
      <3>2. QED BY <1>g, <2>3, <3>1 DEF Matches
    <2>4. Matches(events, g)'
      BY <1>g, <2>1, <2>3 DEF Matches
    <2>5. QED BY <2>4 DEF Matched
  <1>5. CASE Restart
    <2>1. (Fresh => Matched)'
      BY FreshMatched, PTL
    <2>2. QED BY <1>5, <2>1, StartFresh
  <1>6. CASE UNCHANGED vars
    BY <1>6 DEF vars, Matched, Matches
  <1>7. QED BY StepKinds, <1>1, <1>2, <1>3, <1>4, <1>5, <1>6

\* The invariant of the count, of its first state and of every step.
LEMMA CountHolds ==
    /\ Init => CountInv
    /\ CountInv /\ [Next]_vars => CountInv'
  BY SessionHolds, StartFresh, FreshMatched, MatchedNext DEF CountInv

\* The interval that is the domain of a sequence.
LEMMA IntervalSize ==
    ASSUME NEW n \in Nat
    PROVE  IsFiniteSet(1 .. n) /\ Cardinality(1 .. n) = n
  <1>1. IsFiniteSet(1 .. n) /\ Cardinality(1 .. n) = IF 1 > n THEN 0 ELSE n - 1 + 1
    BY FS_Interval
  <1>2. QED BY <1>1

\* A matching counts the reports.
LEMMA MatchingCounts ==
    ASSUME CountInv
    PROVE  CountHonest
  <1> DEFINE p == Pruned(events, now)
             D == DOMAIN sends
  <1>t. TypeOK /\ Sorted(events) /\ SessionInv
    BY DEF CountInv, SessionInv, DequeInv
  <1>1. PICK h : Matches(p, h)
    BY <1>t, PrunedMatches DEF CountInv, Matched
  <1>2. /\ p \in Seq(Time) /\ DOMAIN p = 1 .. Len(p) /\ Len(p) \in Nat
        /\ \A i \in DOMAIN p : Within(p[i], now, RateMillis) /\ p[i] >= 0
    <2>1. PICK d \in Nat, k \in Nat :
            /\ d <= k /\ k <= Len(events) /\ p \in Seq(Time) /\ Len(p) = k - d
            /\ \A i \in 1 .. k - d : p[i] = events[d + i]
            /\ \A i \in 1 .. Len(events) : d < i /\ i <= k <=> Within(events[i], now, RateMillis)
      BY <1>t, FieldTypes, PrunedEntries
    <2> HIDE DEF p
    <2>2. DOMAIN p = 1 .. k - d /\ Len(p) \in Nat /\ DOMAIN p = 1 .. Len(p)
      BY <2>1
    <2>3. \A i \in 1 .. k - d : d + i \in 1 .. Len(events) /\ d < d + i /\ d + i <= k
      BY <1>t, <2>1, FieldTypes
    <2>4. \A i \in 1 .. Len(events) : events[i] >= 0
      BY <1>t, FieldTypes
    <2>5. \A i \in DOMAIN p : Within(p[i], now, RateMillis) /\ p[i] >= 0
      BY <2>1, <2>2, <2>3, <2>4
    <2>6. QED BY <2>1, <2>2, <2>5
  <1>3. IsFiniteSet(Reported) /\ Cardinality(Reported) \in Nat
    <2>1. IsFiniteSet(D) /\ Reported \in SUBSET D
      BY <1>t, FieldTypes, FS_Interval DEF Reported
    <2>2. QED BY <2>1, FS_Subset, FS_CardinalityType
  <1> HIDE DEF p, D
  <1>4. h \in Injection(DOMAIN p, Reported)
    <2>1. \A e \in DOMAIN p : h[e] \in Reported
      BY <1>1, <1>2 DEF Matches, Reported
    <2>2. h \in [DOMAIN p -> Reported]
      BY <1>1, <2>1 DEF Matches
    <2>3. QED BY <1>1, <2>2 DEF Matches, Injection, IsInjective
  <1>5. Cardinality(DOMAIN p) = Len(p)
    BY <1>2, IntervalSize
  <1>6. /\ Cardinality(DOMAIN p) <= Cardinality(Reported)
        /\ Cardinality(DOMAIN p) = Cardinality(Reported) <=> h \in Surjection(DOMAIN p, Reported)
    BY <1>3, <1>4, FS_Injection
  <1>7. ASSUME corrections = 0 PROVE h \in Surjection(DOMAIN p, Reported)
    <2>1. ASSUME NEW i \in Reported PROVE \E e \in DOMAIN p : h[e] = i
      <3>1. /\ i \in DOMAIN sends /\ sends[i].recorded >= 0
            /\ Within(sends[i].recorded, now, RateMillis)
        BY DEF Reported
      <3>2. sends[i].recorded > now - RateMillis
        BY <1>t, <3>1, FieldTypes DEF Within
      <3>3. QED BY <1>1, <1>7, <3>1, <3>2 DEF Matches
    <2>2. h \in [DOMAIN p -> Reported]
      BY <1>4 DEF Injection
    <2>3. QED BY <2>1, <2>2 DEF Surjection
  <1>8. QED BY <1>5, <1>6, <1>7 DEF CountHonest, p

\* The rate window counts the orders reported within it: exactly while the
\* clock has run forwards, and never one too many after it was set back, so
\* that no stale entry holds a strategy at its limit.
THEOREM RateCountHonest == Spec => []CountHonest
  BY CountHolds, MatchingCounts, PTL DEF Spec

-------------------------------------------------------------------------------
(* The overshoot *)

\* The orders of the last window.
Recent == {i \in DOMAIN sends : sends[i].at > now - RateMillis}

\* Each of them is in the deque or still to be reported.
LEMMA RecentAccounted ==
    ASSUME CountInv, corrections = 0
    PROVE  /\ IsFiniteSet(Recent) /\ Cardinality(Recent) \in Nat
           /\ Cardinality(Recent) <= Len(events) + Cardinality(Unreported)
  <1> DEFINE A == {i \in DOMAIN sends : sends[i].recorded >= 0 /\ sends[i].recorded > now - RateMillis}
             B == {i \in DOMAIN sends : sends[i].recorded = -1}
             E == DOMAIN events
  <1>t. TypeOK /\ SendsInv /\ SessionInv
    BY DEF CountInv, SessionInv, DequeInv
  <1>1. PICK g : Matches(events, g)
    BY DEF CountInv, Matched
  <1>2. Recent \in SUBSET (A \cup B)
    <2> SUFFICES ASSUME NEW i \in DOMAIN sends, sends[i].at > now - RateMillis, sends[i].recorded # -1
                 PROVE  sends[i].recorded >= 0 /\ sends[i].recorded > now - RateMillis
      BY DEF Recent
    <2>1. /\ sends[i].recorded \in Int /\ sends[i].at \in Int /\ sends[i].recorded >= -1
          /\ now \in Int /\ RateMillis \in Int
      BY <1>t, FieldTypes
    <2>2. sends[i].recorded >= 0
      BY <2>1
    <2>3. sends[i].at <= sends[i].recorded
      BY <1>t, <2>2 DEF SessionInv, Forward
    <2>4. QED BY <2>1, <2>2, <2>3
  <1>3. IsFiniteSet(E) /\ Cardinality(E) = Len(events) /\ Len(events) \in Nat
    BY <1>t, FieldTypes, IntervalSize
  <1>4. IsFiniteSet(A) /\ Cardinality(A) <= Cardinality(E)
    <2> DEFINE f == [i \in A |-> CHOOSE e \in E : g[e] = i]
    <2>1. \A i \in A : \E e \in E : g[e] = i
      BY <1>1 DEF Matches
    <2>2. \A i \in A : f[i] \in E /\ g[f[i]] = i
      BY <2>1
    <2>3. f \in [A -> E] /\ \A x, y \in A : f[x] = f[y] => x = y
      BY <2>2
    <2>3a. f \in Injection(A, E)
      BY <2>3 DEF Injection, IsInjective
    <2> HIDE DEF A, E, f
    <2>4. QED BY <1>3, <2>3a, FS_Injection
  <1>5. IsFiniteSet(B) /\ Cardinality(B) <= Cardinality(Unreported)
    <2> DEFINE f == [i \in B |-> sends[i].by]
    <2>1. \A i \in B : /\ f[i] \in Unreported /\ order[f[i]].index = i
      BY <1>t, FieldTypes DEF SendsInv, Unreported
    <2>1a. f \in [B -> Unreported] /\ \A x, y \in B : f[x] = f[y] => x = y
      BY <2>1
    <2>2. f \in Injection(B, Unreported)
      BY <2>1a DEF Injection, IsInjective
    <2> HIDE DEF B, f
    <2>3. QED BY <2>2, UnreportedFinite, FS_Injection
  <1> HIDE DEF A, B, E
  <1>6. /\ IsFiniteSet(A \cup B)
        /\ Cardinality(A \cup B) = Cardinality(A) + Cardinality(B) - Cardinality(A \cap B)
    BY <1>4, <1>5, FS_Union
  <1>7. Cardinality(A) \in Nat /\ Cardinality(B) \in Nat /\ Cardinality(A \cap B) \in Nat
    <2>1. A \cap B \in SUBSET A
      OBVIOUS
    <2>2. IsFiniteSet(A \cap B)
      BY <1>4, <2>1, FS_Subset
    <2>3. QED BY <1>4, <1>5, <2>2, FS_CardinalityType
  <1>8. IsFiniteSet(Recent) /\ Cardinality(Recent) <= Cardinality(A \cup B) /\ Cardinality(Recent) \in Nat
    BY <1>2, <1>6, FS_Subset, FS_CardinalityType
  <1>9. QED BY <1>3, <1>4, <1>5, <1>6, <1>7, <1>8, UnreportedFinite

OvershootInv == CountInv /\ BoundInv /\ OvershootBounded

\* So the last window holds no more than the overshoot allows ...
LEMMA RecentBounded ==
    ASSUME CountInv, BoundInv, corrections = 0
    PROVE  /\ IsFiniteSet(Recent) /\ Cardinality(Recent) \in Nat
           /\ Cardinality(Recent) <= RateLimit + Cardinality(Strategies) - 1
  <1>1. Len(events) + Cardinality(Unreported) <= RateLimit + Cardinality(Strategies) - 1
    BY DEF BoundInv, DequeBounded
  <1>2. Len(events) \in Nat
    BY FieldTypes DEF CountInv, SessionInv, DequeInv
  <1>3. QED BY <1>1, <1>2, RecentAccounted, UnreportedFinite, WindowsAssumption

\* ... and with it every window that ends now or later.
LEMMA LaterWindows ==
    CountInv /\ BoundInv /\ corrections = 0 =>
        \A t \in Time : now <= t =>
            Cardinality(SentWithin(t)) <= RateLimit + Cardinality(Strategies) - 1
  <1> SUFFICES ASSUME CountInv, BoundInv, corrections = 0, NEW at \in Time, now <= at
               PROVE  Cardinality(SentWithin(at)) <= RateLimit + Cardinality(Strategies) - 1
    OBVIOUS
  <1>t. TypeOK
    BY DEF CountInv, SessionInv, DequeInv
  <1>1. SentWithin(at) \in SUBSET Recent
    <2> SUFFICES ASSUME NEW i \in DOMAIN sends, Within(sends[i].at, at, RateMillis)
                 PROVE  sends[i].at > now - RateMillis
      BY DEF SentWithin, Recent
    <2>1. /\ sends[i].at \in Int /\ now \in Int /\ RateMillis \in Int /\ at \in Int
      BY <1>t, FieldTypes DEF Time
    <2>2. QED BY <2>1 DEF Within
  <1>2. IsFiniteSet(SentWithin(at)) /\ Cardinality(SentWithin(at)) <= Cardinality(Recent)
    BY <1>1, RecentBounded, FS_Subset
  <1>3. Cardinality(SentWithin(at)) \in Nat
    BY <1>2, FS_CardinalityType
  <1>4. QED BY <1>2, <1>3, RecentBounded, UnreportedFinite, WindowsAssumption

\* A session without orders overshoots nothing.
LEMMA FreshBounded ==
    ASSUME Fresh
    PROVE  OvershootBounded
  <1>1. \A at \in Time : SentWithin(at) = {}
    BY DEF Fresh, SentWithin
  <1>2. Cardinality({}) = 0
    BY FS_EmptySet
  <1>3. 0 <= RateLimit + Cardinality(Strategies) - 1
    BY UnreportedFinite, WindowsAssumption
  <1>4. QED BY <1>1, <1>2, <1>3 DEF OvershootBounded

\* The windows in which an order goes out are the last ones.
LEMMA OvershootNext ==
    ASSUME OvershootInv, [Next]_vars
    PROVE  OvershootInv'
  <1>t. TypeOK /\ SendsInv /\ CountInv /\ BoundInv /\ OvershootBounded
    BY DEF OvershootInv, CountInv, SessionInv, DequeInv
  <1>n. CountInv' /\ BoundInv'
    BY <1>t, CountHolds, NextBound
  <1>k. ASSUME DOMAIN sends' = DOMAIN sends, \A i \in DOMAIN sends : sends'[i].at = sends[i].at,
               corrections' = 0 => corrections = 0
        PROVE  OvershootBounded'
    <2>1. \A at \in Time : SentWithin(at)' = SentWithin(at)
      BY <1>k DEF SentWithin
    <2>2. QED BY <1>t, <1>k, <2>1 DEF OvershootBounded
  <1>1. ASSUME NEW s \in Strategies, NEW fp \in Fingerprints, Evaluate(s, fp)
        PROVE  OvershootBounded'
    BY <1>1, <1>k, <1>t, EvaluateEffect
  <1>2. ASSUME NEW s \in Strategies, Send(s) PROVE OvershootBounded'
    <2> SUFFICES ASSUME corrections' = 0, NEW at \in Time
                 PROVE  Cardinality(SentWithin(at)') <= RateLimit + Cardinality(Strategies) - 1
      BY DEF OvershootBounded
    <2> DEFINE n == Len(sends)
    <2>1. /\ DOMAIN sends' = 1 .. n + 1 /\ DOMAIN sends = 1 .. n /\ n \in Nat
          /\ \A i \in 1 .. n : sends'[i] = sends[i]
          /\ sends'[n + 1].at = now /\ now' = now /\ corrections' = corrections
      BY <1>2, <1>t, SendEffect, FieldTypes
    <2> HIDE DEF n
    <2>2. at \in Int /\ now \in Int
      BY <1>t, FieldTypes DEF Time
    <2>3. CASE at < now
      <3>1. SentWithin(at)' = SentWithin(at)
        <4>1. ~ Within(now, at, RateMillis)
          BY <2>2, <2>3 DEF Within
        <4>2. \A i \in 1 .. n + 1 : i \in 1 .. n \/ i = n + 1
          BY <2>1
        <4>3. \A i \in 1 .. n : i \in 1 .. n + 1
          BY <2>1
        <4>4. QED BY <2>1, <4>1, <4>2, <4>3 DEF SentWithin
      <3>2. QED BY <1>t, <2>1, <3>1 DEF OvershootBounded
    <2>4. CASE now <= at
      <3>1. (CountInv /\ BoundInv /\ corrections = 0 =>
                \A t \in Time : now <= t =>
                    Cardinality(SentWithin(t)) <= RateLimit + Cardinality(Strategies) - 1)'
        BY LaterWindows, PTL
      <3>2. QED BY <1>n, <2>1, <2>4, <3>1
    <2>5. QED BY <2>2, <2>3, <2>4
  <1>3. ASSUME NEW s \in Strategies, RecordOrderSent(s) PROVE OvershootBounded'
    BY <1>3, <1>k, <1>t, RecordEffect
  <1>4. ASSUME Tick \/ StepBack PROVE OvershootBounded'
    BY <1>4, <1>k, <1>t, ClockEffect
  <1>5. ASSUME Restart PROVE OvershootBounded'
    <2>1. (Fresh => OvershootBounded)'
      BY FreshBounded, PTL
    <2>2. QED BY <1>5, <2>1, StartFresh
  <1>6. ASSUME UNCHANGED vars PROVE OvershootBounded'
    BY <1>6, <1>k DEF vars
  <1>7. OvershootBounded'
    BY StepKinds, <1>1, <1>2, <1>3, <1>4, <1>5, <1>6
  <1>8. QED BY <1>n, <1>7 DEF OvershootInv

\* With several strategies between evaluation and report the message rate
\* overshoots its limit, but while the clock runs forwards no window of the
\* session, past or still to come, holds more orders than the limit and one for
\* each strategy but one.
THEOREM OvershootStaysBounded == Spec => []OvershootBounded
  <1>1. Init => OvershootInv
    BY CountHolds, InitBound, StartFresh, FreshBounded DEF OvershootInv
  <1>2. OvershootInv => OvershootBounded
    BY DEF OvershootInv
  <1>3. QED BY <1>1, <1>2, OvershootNext, PTL DEF Spec

===============================================================================
