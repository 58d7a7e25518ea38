---------------------------- MODULE TradingSession ----------------------------
(***************************************************************************)
(* A session of several strategies on one instrument under one engine: the *)
(* decision (Decision), the counters it reads (Counters) and the clock     *)
(* whose roll drops them (TradingDay), with what lies between an           *)
(* evaluation and its consequences: the order goes to the venue, the       *)
(* strategy reports it, and acknowledgements, rejections, fills and        *)
(* cancellations come back in any order.  Every call of the engine is      *)
(* atomic up to its first await; EngineCounters has what follows.          *)
(*                                                                         *)
(* Strategies, order manager and venue are not part of the repository;     *)
(* they are modelled as the usage example of its README has them.          *)
(***************************************************************************)
EXTENDS Decision, Counters, TradingDay, SequencesExt

CONSTANTS
    Strategies,          \* coroutines that send orders
    Quantity,            \* of every order; the price is 1
    MaxPosition,         \* max_position_quantity
    MaxWorking,          \* max_working_orders
    MaxRejects,          \* max_consecutive_rejects
    MaxExecutions,       \* max_executions_without_review
    DailyNotionalLimit,  \* daily_notional_limit_usd
    MaxOrders,           \* bound: orders of the session
    MaxTime              \* bound: the clock runs over 0 .. MaxTime

ASSUME SessionAssumption ==
    /\ IsFiniteSet(Strategies) /\ Strategies # {}
    /\ {Quantity, MaxPosition, MaxWorking, MaxRejects, MaxExecutions,
        DailyNotionalLimit} \subseteq Nat \ {0}
    /\ MaxOrders \in Nat /\ MaxTime \in Nat

VARIABLES
    now,         \* the wall clock
    mem,         \* the engine's counters
    killFile,    \* whether the file at kill_switch_path exists
    book,        \* the orders that were accepted and are not settled, oldest first
    position,    \* fills delivered to the order manager, bought less sold
    accepted,    \* bound bookkeeping: orders accepted so far
    \* History, read by no action of the program.
    tally,       \* notional of the trading day: reported, handed back of what
                 \* was reported that day, and of what was reported before
    sinceKill    \* orders each strategy has sent since the kill file appeared

history == <<tally, sinceKill>>
vars == <<now, mem, killFile, book, position, accepted, history>>

Never == -1
Days == {DocumentedDay(t) : t \in 0 .. MaxTime}
NoTally == [reported |-> 0, back |-> 0, foreign |-> 0]

-------------------------------------------------------------------------------
(* What a decision is made of *)

\* The limit set: the controls whose inputs a session moves, and those that
\* cannot be disarmed.
SessionLimits == [c \in ControlId |->
    CASE c \in ALWAYS_ON \cup {"KILL_SWITCH", "SHORT_SALE_LOCATE"} -> TRUE
      [] c = "POSITION_LIMIT" -> MaxPosition
      [] c = "WORKING_ORDERS" -> MaxWorking
      [] c = "CONSECUTIVE_REJECTS" -> MaxRejects
      [] c = "REPEATED_EXECUTION" -> MaxExecutions
      [] c = "DAILY_NOTIONAL_LIMIT" -> DailyNotionalLimit
      [] OTHER -> None]

Today == TradingDayOf(now)

\* The counters as the derived properties show them, the day rolled first.
Shown == Rolled(mem, Today)

\* Mutant of KillSwitchEngaged: the file is looked for once, before the first
\* order.
KillSwitchEngagedAtStart == killFile /\ book = <<>>

\* The file is looked for at every decision.
KillSwitchEngaged == killFile

Figures ==
    [kill_switch_engaged |-> KillSwitchEngaged, is_live |-> TRUE,
     live_pnl |-> Shown["live_pnl"], simulated_pnl |-> Shown["simulated_pnl"],
     live_peak |-> Shown["live_peak"], simulated_peak |-> Shown["simulated_peak"],
     bypass_active |-> FALSE, runtime_max_order_quantity |-> None,
     runtime_max_order_notional |-> None, seen |-> {}, sent |-> 0,
     rejects |-> Shown["rejects"], executions |-> Shown["executions"],
     daily_notional |-> Shown["daily_notional"]]

\* The order manager counts an order from the moment it is reported until the
\* venue is done with it.
Working == {i \in DOMAIN book : book[i].reported # Never /\ book[i].venue # "closed"}

Request(side) ==
    [symbol |-> "acme", side |-> side, quantity |-> Quantity, limit_price |-> 1,
     decision_price |-> None, best_bid |-> None, best_ask |-> None,
     reference_price |-> None, quote_age_millis |-> None, session_state |-> "OPEN",
     open_positions |-> 0, working_orders |-> Cardinality(Working),
     position_quantity |-> position, gross_exposure_usd |-> Magnitude(position),
     opposing_resting_quantity |-> 0, locate_secured |-> FALSE]

-------------------------------------------------------------------------------
(* The strategies *)

\* An order is settled once the venue is done with it and the strategy has
\* reported it and handed back what it did not trade.  It leaves the book.
Settled(o) == o.venue = "closed" /\ o.reported # Never /\ o.left = 0
Updated(i, o) == IF Settled(o) THEN RemoveAt(book, i) ELSE [book EXCEPT ![i] = o]

\* The order strategy s has evaluated and not yet reported.
InHand(s) == {i \in DOMAIN book : book[i].by = s /\ book[i].reported = Never}

Accepts(side) == Admits(SessionLimits, {}, Figures, Request(side))

\* evaluate: the counters roll whatever comes of it, and an order that is
\* accepted is on its way.
Evaluates(s, side) ==
    /\ InHand(s) = {}
    /\ accepted < MaxOrders
    /\ mem' = Shown
    /\ IF Accepts(side)
       THEN /\ book' = Append(book, [by |-> s, side |-> side, venue |-> "unsent",
                                     left |-> Quantity, reported |-> Never])
            /\ accepted' = accepted + 1
       ELSE UNCHANGED <<book, accepted>>
    /\ UNCHANGED <<now, killFile, position, history>>

\* The venue receives the order; the strategy is still waiting for its answer.
Send(i) ==
    /\ book[i].venue = "unsent"
    /\ book' = [book EXCEPT ![i].venue = "pending"]
    /\ sinceKill' = IF killFile THEN [sinceKill EXCEPT ![book[i].by] = @ + 1] ELSE sinceKill
    /\ UNCHANGED <<now, mem, killFile, position, accepted, tally>>

\* record_order_sent, then record_notional of the whole order.
Reports(i) ==
    /\ book[i].venue # "unsent" /\ book[i].reported = Never
    /\ book' = Updated(i, [book[i] EXCEPT !.reported = DocumentedDay(now)])
    /\ mem' = NotionalAdded(mem, Today, Quantity)
    /\ tally' = [tally EXCEPT !.reported = @ + Quantity]
    /\ UNCHANGED <<now, killFile, position, accepted, sinceKill>>

\* What an order that is done did not trade is handed back, on whatever day
\* that happens.
HandsBack(i) ==
    /\ book[i].venue = "closed" /\ book[i].left > 0
    /\ book[i].reported # Never
    /\ book' = Updated(i, [book[i] EXCEPT !.left = 0])
    /\ mem' = NotionalAdded(mem, Today, -book[i].left)
    /\ tally' = IF book[i].reported = DocumentedDay(now)
                THEN [tally EXCEPT !.back = @ + book[i].left]
                ELSE [tally EXCEPT !.foreign = @ + book[i].left]
    /\ UNCHANGED <<now, killFile, position, accepted, sinceKill>>

-------------------------------------------------------------------------------
(* The venue; its answers may overtake the strategy's report *)

Acknowledges(i) ==
    /\ book[i].venue = "pending"
    /\ book' = [book EXCEPT ![i].venue = "open"]
    /\ mem' = AcceptanceNoted(mem, Today)
    /\ UNCHANGED <<now, killFile, position, accepted, history>>

Rejects(i) ==
    /\ book[i].venue = "pending"
    /\ book' = [book EXCEPT ![i].venue = "closed"]
    /\ mem' = RejectNoted(mem, Today)
    /\ UNCHANGED <<now, killFile, position, accepted, history>>

\* A fill, in full or in part, is delivered and reported.
Fills(i, filled) ==
    /\ book[i].venue = "open"
    /\ book' = Updated(i, [book[i] EXCEPT !.left = @ - filled,
           !.venue = IF book[i].left = filled THEN "closed" ELSE "open"])
    /\ position' = IF IsSell(book[i]) THEN position - filled ELSE position + filled
    /\ mem' = ExecutionNoted(mem, Today)
    /\ UNCHANGED <<now, killFile, accepted, history>>

Cancels(i) ==
    /\ book[i].venue = "open"
    /\ book' = [book EXCEPT ![i].venue = "closed"]
    /\ UNCHANGED <<now, mem, killFile, position, accepted, history>>

-------------------------------------------------------------------------------
(* The operator and the clock *)

Rearm ==
    /\ mem' = Rearmed(mem, Today)
    /\ UNCHANGED <<now, killFile, book, position, accepted, history>>

KillFileAppears ==
    /\ ~killFile
    /\ killFile' = TRUE
    /\ sinceKill' = [s \in Strategies |-> 0]
    /\ UNCHANGED <<now, mem, book, position, accepted, tally>>

KillFileRemoved ==
    /\ killFile
    /\ killFile' = FALSE
    /\ sinceKill' = [s \in Strategies |-> 0]
    /\ UNCHANGED <<now, mem, book, position, accepted, tally>>

Tick ==
    /\ now < MaxTime
    /\ now' = now + 1
    /\ tally' = IF DocumentedDay(now') = DocumentedDay(now) THEN tally ELSE NoTally
    /\ UNCHANGED <<mem, killFile, book, position, accepted, sinceKill>>

Init ==
    /\ now = 0
    /\ mem = NewMem(Today)
    /\ killFile = FALSE
    /\ book = <<>>
    /\ position = 0
    /\ accepted = 0
    /\ tally = NoTally
    /\ sinceKill = [s \in Strategies |-> 0]

Next ==
    \/ \E s \in Strategies, side \in {"BUY", "SELL"} : Evaluates(s, side)
    \/ \E i \in DOMAIN book :
        \/ Send(i)
        \/ Reports(i)
        \/ HandsBack(i)
        \/ Acknowledges(i)
        \/ Rejects(i)
        \/ \E filled \in 1 .. book[i].left : Fills(i, filled)
        \/ Cancels(i)
    \/ Rearm
    \/ KillFileAppears \/ KillFileRemoved
    \/ Tick

Spec == Init /\ [][Next]_vars

-------------------------------------------------------------------------------
(* Properties *)

TypeOK ==
    /\ now \in 0 .. MaxTime
    /\ DOMAIN mem = Key /\ \A k \in Key : mem[k] \in Int
    /\ {mem["rejects"], mem["executions"]} \subseteq Nat
    /\ killFile \in BOOLEAN
    /\ book \in Seq([by : Strategies, side : {"BUY", "SELL"},
                     venue : {"unsent", "pending", "open", "closed"},
                     left : 0 .. Quantity, reported : Days \cup {Never}])
    /\ position \in Int
    /\ accepted \in 0 .. MaxOrders
    /\ tally \in [{"reported", "back", "foreign"} -> Nat]
    /\ sinceKill \in [Strategies -> Nat]

\* Orders that may still trade: on their way, or at the venue and not done.
Alive == {i \in DOMAIN book : book[i].venue # "closed"}

\* What is left of the orders of one side that may still trade, unit by unit.
Pending(side) ==
    Cardinality({u \in Alive \X (1 .. Quantity) :
                     book[u[1]].side = side /\ u[2] <= book[u[1]].left})

\* Orders are decided before those in flight are counted, so the working-order
\* limit overshoots, but never by more than one order for each strategy but one.
WorkingOvershoot == Cardinality(Alive) <= MaxWorking + Cardinality(Strategies) - 1

\* Each decision sees the fills delivered so far and none of the orders in
\* flight: filled completely, they take the position beyond the limit, but by
\* no more than all of them but one.
PositionOvershoot ==
    LET worst == MaxPosition + Quantity * (MaxWorking + Cardinality(Strategies) - 2)
    IN position + Pending("BUY") <= worst /\ Pending("SELL") - position <= worst

\* Once a throttle has tripped only the orders already out can move its
\* counter: by a fill for each unit left of them, by a rejection each.
ThrottlesOvershoot ==
    LET out == MaxWorking + Cardinality(Strategies) - 1
    IN /\ Shown["executions"] <= MaxExecutions - 1 + Quantity * out
       /\ Shown["rejects"] <= MaxRejects - 1 + out

\* At every moment of a trading day, and of no other day, the counter a decision
\* sees is what was reported that day less what was handed back that day: it
\* is dropped exactly at the documented roll, whatever straddles it.
RollsAtTheRoll ==
    Shown["daily_notional"] = tally.reported - tally.back - tally.foreign

\* What the orders reported today have traded or may still trade exceeds the
\* daily limit by at most one order for each strategy but one, and by the
\* allowance that orders of earlier days handed back today.
NotionalOvershoot ==
    tally.reported - tally.back
        <= DailyNotionalLimit + Quantity * (Cardinality(Strategies) - 1) + tally.foreign

\* The kill file blocks "everything while it exists": a strategy sends at most
\* the one order it had in hand when the file appeared.
KillStops == killFile => \A s \in Strategies : sinceKill[s] <= 1

===============================================================================
