---------------------------- MODULE MessageWindows ----------------------------
(***************************************************************************)
(* The message-rate and duplicate windows (windows.py), and the strategies *)
(* that evaluate an order, send it and then report it with                 *)
(* record_order_sent.  Between these three steps other strategies of the   *)
(* process run and the wall clock moves, possibly backwards.               *)
(***************************************************************************)
EXTENDS Integers, Sequences, FiniteSets, Functions

CONSTANTS
    Strategies,       \* coroutines that send orders
    Fingerprints,     \* symbol|side|quantity|price of the orders they send
    RateLimit,        \* max_orders_per_window
    RateMillis,       \* order_rate_window_millis
    DuplicateMillis,  \* duplicate_window_millis
    MaxCorrections,   \* bound: backward clock corrections in one session
    MaxTime,          \* bound: the clock runs over 0 .. MaxTime
    MaxSends          \* bound: orders sent in one session

ASSUME WindowsAssumption ==
    /\ IsFiniteSet(Strategies) /\ Fingerprints # {}
    /\ {RateLimit, RateMillis, DuplicateMillis} \subseteq Nat \ {0}
    /\ MaxTime \in Nat /\ MaxSends \in Nat
    /\ MaxCorrections \in Nat

Time == 0 .. MaxTime

VARIABLES
    now,          \* the wall clock
    events,       \* RateWindow._events
    seen,         \* DuplicateWindow._seen: fingerprint to time
    pc,           \* where each strategy is: "idle", "accepted" or "sent"
    order,        \* the order it holds: a fingerprint, and its index in sends
    \* History, read by no action of the program.
    sends,        \* the session's orders in the order they went out
    corrections   \* backward clock corrections in this session

vars == <<now, events, seen, pc, order, sends, corrections>>

-------------------------------------------------------------------------------
(* The two windows *)

\* Both windows are half-open: an entry exactly one window old has expired,
\* and one ahead of the clock does not count.
Within(t, at, millis) == at - millis < t /\ t <= at

\* Mutant of Pruned: entries ahead of the clock stay.
PrunedFromLeft(ev, at) ==
    SubSeq(ev, 1 + Cardinality({i \in DOMAIN ev : \A j \in 1 .. i : ev[j] <= at - RateMillis}),
           Len(ev))

\* RateWindow._prune takes expired entries from the left end of the deque and
\* entries ahead of the clock from the right end; it never looks between.
Pruned(ev, at) ==
    LET fromLeft == {i \in DOMAIN ev : \E j \in 1 .. i : ev[j] > at - RateMillis}
        kept == {i \in fromLeft : \E j \in i .. Len(ev) : ev[j] <= at}
    IN SubSeq(ev, Len(ev) - Cardinality(fromLeft) + 1,
                  Len(ev) - Cardinality(fromLeft) + Cardinality(kept))

\* Mutant of PrunedSeen: the other window's length.
PrunedSeenByRate(f, at) == Restrict(f, {fp \in DOMAIN f : Within(f[fp], at, RateMillis)})

\* DuplicateWindow._prune looks at every entry.
PrunedSeen(f, at) ==
    Restrict(f, {fp \in DOMAIN f : Within(f[fp], at, DuplicateMillis)})

Remember(f, fp, at) ==
    LET live == PrunedSeen(f, at)
    IN [x \in DOMAIN live \cup {fp} |-> IF x = fp THEN at ELSE live[x]]

-------------------------------------------------------------------------------
(* The strategies *)

\* What a strategy holds between orders.
NoOrder == [fp |-> CHOOSE fp \in Fingerprints : TRUE, index |-> 0]

\* Mutant of Evaluate: one order too many.
EvaluateInclusive(s, fp) ==
    LET inWindow == Pruned(events, now)
    IN /\ pc[s] = "idle"
       /\ Len(sends) < MaxSends
       /\ fp \notin DOMAIN PrunedSeen(seen, now)
       /\ Len(inWindow) <= RateLimit
       /\ events' = inWindow
       /\ pc' = [pc EXCEPT ![s] = "accepted"]
       /\ order' = [order EXCEPT ![s].fp = fp]
       /\ UNCHANGED <<now, seen, sends, corrections>>

\* evaluate: the duplicate control comes first, and the rate window is pruned
\* only if that lets the order pass.  A later control may still object.
Evaluate(s, fp) ==
    LET duplicate == fp \in DOMAIN PrunedSeen(seen, now)
        inWindow == Pruned(events, now)
    IN /\ pc[s] = "idle"
       /\ Len(sends) < MaxSends
       /\ seen' = PrunedSeen(seen, now)
       /\ events' = IF duplicate THEN events ELSE inWindow
       /\ \/ /\ ~duplicate /\ Len(inWindow) < RateLimit
             /\ pc' = [pc EXCEPT ![s] = "accepted"]
             /\ order' = [order EXCEPT ![s].fp = fp]
          \/ UNCHANGED <<pc, order>>
       /\ UNCHANGED <<now, sends, corrections>>

\* The accepted order goes to the venue.
Send(s) ==
    /\ pc[s] = "accepted"
    /\ pc' = [pc EXCEPT ![s] = "sent"]
    /\ order' = [order EXCEPT ![s].index = Len(sends) + 1]
    /\ sends' = Append(sends,
                       [by |-> s, fp |-> order[s].fp, at |-> now, recorded |-> -1])
    /\ UNCHANGED <<now, events, seen, corrections>>

\* Mutant of RecordOrderSent: the rate window takes the entry unpruned.
RecordOrderSentUnpruned(s) ==
    /\ pc[s] = "sent"
    /\ events' = Append(events, now)
    /\ seen' = Remember(seen, order[s].fp, now)
    /\ pc' = [pc EXCEPT ![s] = "idle"]
    /\ sends' = [sends EXCEPT ![order[s].index].recorded = now]
    /\ order' = [order EXCEPT ![s] = NoOrder]
    /\ UNCHANGED <<now, corrections>>

\* record_order_sent: each window prunes itself and then takes the entry.
RecordOrderSent(s) ==
    /\ pc[s] = "sent"
    /\ events' = Append(Pruned(events, now), now)
    /\ seen' = Remember(seen, order[s].fp, now)
    /\ pc' = [pc EXCEPT ![s] = "idle"]
    /\ sends' = [sends EXCEPT ![order[s].index].recorded = now]
    /\ order' = [order EXCEPT ![s] = NoOrder]
    /\ UNCHANGED <<now, corrections>>

-------------------------------------------------------------------------------
(* The environment *)

Tick ==
    /\ now < MaxTime
    /\ now' = now + 1
    /\ UNCHANGED <<events, seen, pc, order, sends, corrections>>

\* An NTP correction, of any size.
StepBack ==
    /\ corrections < MaxCorrections
    /\ \E t \in Time : t < now /\ now' = t
    /\ corrections' = corrections + 1
    /\ UNCHANGED <<events, seen, pc, order, sends>>

\* Mutant of Restart: strategies go on with the orders they held.
RestartMidOrder ==
    /\ events' = <<>>
    /\ seen' = [fp \in {} |-> 0]
    /\ sends' = <<>>
    /\ corrections' = 0
    /\ UNCHANGED <<now, pc, order>>

\* The process restarts: the windows describe one session and start empty.
Restart ==
    /\ events' = <<>>
    /\ seen' = [fp \in {} |-> 0]
    /\ pc' = [s \in Strategies |-> "idle"]
    /\ order' = [s \in Strategies |-> NoOrder]
    /\ sends' = <<>>
    /\ corrections' = 0
    /\ UNCHANGED now

Init ==
    /\ now = 0
    /\ events = <<>>
    /\ seen = [fp \in {} |-> 0]
    /\ pc = [s \in Strategies |-> "idle"]
    /\ order = [s \in Strategies |-> NoOrder]
    /\ sends = <<>>
    /\ corrections = 0

Next ==
    \/ \E s \in Strategies :
        \/ \E fp \in Fingerprints : Evaluate(s, fp)
        \/ Send(s)
        \/ RecordOrderSent(s)
    \/ Tick \/ StepBack \/ Restart

Spec == Init /\ [][Next]_vars

-------------------------------------------------------------------------------
(* Properties *)

TypeOK ==
    /\ now \in Time
    /\ events \in Seq(Time)
    /\ DOMAIN seen \subseteq Fingerprints /\ Range(seen) \subseteq Time
    /\ pc \in [Strategies -> {"idle", "accepted", "sent"}]
    /\ order \in [Strategies -> [fp : Fingerprints, index : 0 .. Len(sends)]]
    /\ sends \in Seq([by : Strategies, fp : Fingerprints, at : Time,
                      recorded : Time \cup {-1}])
    /\ corrections \in 0 .. MaxCorrections

\* Popping at the two ends is enough, however the clock has jumped about: at
\* any reading of the clock the deque prunes to exactly its entries within
\* the window, in their order (RateWindow._prune never looks at the middle).
PruneExact ==
    \A at \in Time :
        LET inWindow == {i \in DOMAIN events : Within(events[i], at, RateMillis)}
            Place(i) == Cardinality({j \in inWindow : j <= i})
        IN /\ Len(Pruned(events, at)) = Cardinality(inWindow)
           /\ \A i \in inWindow : Pruned(events, at)[Place(i)] = events[i]

\* The reports a rate limit should count now.
Reported == {i \in DOMAIN sends : sends[i].recorded >= 0
                                  /\ Within(sends[i].recorded, now, RateMillis)}

\* The window counts the orders reported within it: exactly, while the clock
\* has run forwards; never one too many, even after a correction, so that no
\* stale entry pins a strategy at its limit.
CountHonest ==
    LET counted == Len(Pruned(events, now))
    IN /\ counted <= Cardinality(Reported)
       /\ corrections = 0 => counted = Cardinality(Reported)

\* Orders that went out in the window that ends at a moment.
SentWithin(at) == {i \in DOMAIN sends : Within(sends[i].at, at, RateMillis)}

\* With several strategies between evaluation and report at once the limit
\* overshoots, but never by more than one order for each strategy but one.
OvershootBounded ==
    corrections = 0 =>
        \A at \in Time :
            Cardinality(SentWithin(at)) <= RateLimit + Cardinality(Strategies) - 1

\* The deque prunes before it appends, which by itself bounds nothing; but with
\* the decision it and the orders it will still be told of stay within the
\* limit, but for one order for each strategy but one, whatever the clock does.
\* For two strategies that is the documented "limit + 1".
Unreported == {s \in Strategies : pc[s] # "idle"}
DequeBounded ==
    Len(events) + Cardinality(Unreported) <= RateLimit + Cardinality(Strategies) - 1

\* A strategy that resubmits does not get the identical order out again
\* within the duplicate window, however long its sends and reports take.
ResubmissionHeld ==
    corrections = 0 =>
        \A i, j \in DOMAIN sends :
            i < j /\ sends[i].by = sends[j].by /\ sends[i].fp = sends[j].fp =>
                sends[j].at - sends[i].at >= DuplicateMillis

===============================================================================
