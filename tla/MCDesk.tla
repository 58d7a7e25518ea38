-------------------------------- MODULE MCDesk --------------------------------
(***************************************************************************)
(* Instances of Desk for TLC.  Every limit is armed at the start and the   *)
(* first order passes them all; the other orders differ from it in one     *)
(* field, or in the market data that price an order.                       *)
(***************************************************************************)
EXTENDS Desk

\* Each threshold, one tighter where there is one, and None where a control
\* that is not armed differs from one that is stood down.
Calibrations == [c \in ControlId |->
    CASE c \in ALWAYS_ON \cup {"KILL_SWITCH", "SHORT_SALE_LOCATE", "DUPLICATE_ORDER"} -> {TRUE}
      [] c = "SELF_MATCH_PREVENTION" -> {TRUE, None}
      [] c \in {"QUOTE_AGE", "OPEN_POSITIONS"} -> {2}
      [] c = "CONSECUTIVE_REJECTS" -> {1}
      [] c = "INSTRUMENT_UNIVERSE" -> {{"acme", "bonds"}, {"bonds"}, None}
      [] c = "RESTRICTED_LIST" -> {{"rumour"}, {"rumour", "acme"}}
      [] c = "SESSION_STATE" -> {{"OPEN", "AUCTION"}, {"AUCTION"}}
      [] c = "PRICE_BAND" -> {10, 1}
      [] c = "MAX_ORDER_QUANTITY" -> {3, 1, None}
      [] c = "MAX_ORDER_NOTIONAL" -> {30, 10, None}
      [] c \in {"GROSS_EXPOSURE", "DAILY_NOTIONAL_LIMIT"} -> {40, 20}
      [] c = "POSITION_LIMIT" -> {2, 1, None}
      [] OTHER -> {2, 1}]

\* Everything armed, at the looser of its thresholds.
FullyArmed == [c \in ControlId |->
    CHOOSE t \in Calibrations[c] :
        t # None /\ \A u \in Calibrations[c] \ {None} : NoLooser(c, u, t)]

\* A fresh day, nothing sent, no override.
FreshFigures ==
    [kill_switch_engaged |-> FALSE, is_live |-> TRUE, live_pnl |-> 0,
     simulated_pnl |-> 0, live_peak |-> 0, simulated_peak |-> 0,
     bypass_active |-> FALSE, runtime_max_order_quantity |-> None,
     runtime_max_order_notional |-> None, seen |-> {}, sent |-> 0, rejects |-> 0,
     executions |-> 0, daily_notional |-> 0]

\* An order that passes every control.
Plain ==
    [symbol |-> "acme", side |-> "BUY", quantity |-> 1, limit_price |-> 10,
     decision_price |-> 10, best_bid |-> 9, best_ask |-> 11, reference_price |-> 10,
     quote_age_millis |-> 1, session_state |-> "OPEN", open_positions |-> 0,
     working_orders |-> 0, position_quantity |-> 0, gross_exposure_usd |-> 10,
     opposing_resting_quantity |-> 0, locate_secured |-> FALSE]

\* Values at a threshold, or beyond the tighter one.
FigureMovements ==
    [kill_switch_engaged |-> BOOLEAN, is_live |-> BOOLEAN,
     live_pnl |-> {0, -2}, simulated_pnl |-> {0, -2},
     live_peak |-> {0, 2}, simulated_peak |-> {0, 2},
     bypass_active |-> BOOLEAN, runtime_max_order_quantity |-> {None, 2},
     runtime_max_order_notional |-> {None, 20}, seen |-> {{}, {Fingerprint(Plain)}},
     sent |-> {0, 1}, rejects |-> {0, 1}, executions |-> {0, 1},
     daily_notional |-> {0, 30, NaN}]

\* A result that was reported as nan.
BrokenResults == [FigureMovements EXCEPT !.live_pnl = {0, -2, NaN}]

OneField(field, values) == {[Plain EXCEPT ![field] = v] : v \in values}

\* Orders a control may lack the price of: a market order with nothing, with
\* the decision price or with the touch; a limit order without a reference.
Prices ==
    UNION {{[Plain EXCEPT !.side = side, !.limit_price = None, !.decision_price = decision,
                          !.best_bid = touch, !.best_ask = touch] :
               side \in {"BUY", "SELL"}, decision \in {None, 10}, touch \in {None, 12}},
           {[Plain EXCEPT !.reference_price = None, !.best_bid = bid, !.best_ask = ask] :
               bid \in {None, 9}, ask \in {None, 11}}}

SomeOrders ==
    UNION {
        {[Plain EXCEPT !.side = side, !.quantity = quantity] :
            side \in {"BUY", "SELL"}, quantity \in {0, 1, 2, 3}},
        \* A negative quantity at a negative price has a positive notional.
        {[Plain EXCEPT !.quantity = -1, !.limit_price = None, !.decision_price = -10,
                       !.best_bid = -10, !.best_ask = -10]},
        OneField("symbol", {"other", "rumour"}),
        OneField("side", {"SELL_SHORT"}),
        OneField("limit_price", {0, 11, 12}),
        OneField("quote_age_millis", {2, None, NaN}),
        OneField("session_state", {"UNKNOWN"}),
        OneField("working_orders", {1}),
        OneField("open_positions", {2}),
        OneField("opposing_resting_quantity", {1, NaN}),
        OneField("gross_exposure_usd", {30, NaN}),
        \* What the caller computed is not a number.
        OneField("quantity", {NaN}),
        OneField("limit_price", {NaN}),
        OneField("reference_price", {NaN}),
        OneField("position_quantity", {NaN}),
        Prices}

===============================================================================
