------------------------------- MODULE Decision -------------------------------
(***************************************************************************)
(* The decision (PreTradeRiskEngine.evaluate) as operators: the 24         *)
(* controls, the order they are walked in, what arms them, what stands     *)
(* them down, and the reports an operator reads of them.                   *)
(*                                                                         *)
(* Quantities and prices are whole numbers or NaN, the price band is in    *)
(* percent.  Every comparison is written in the direction of the code,     *)
(* because one with NaN is false either way.                               *)
(***************************************************************************)
EXTENDS Integers, Sequences

CONSTANTS
    None,  \* an unset limit, a field the request does not carry, no objection
    NaN    \* a float that is not a number

\* The codes a rejection carries.
RejectCode ==
    {"KILL_SWITCH_ENGAGED", "LOSS_LIMIT_BREACHED", "DAILY_NOTIONAL_LIMIT_EXCEEDED",
     "INSTRUMENT_NOT_PERMITTED", "INSTRUMENT_RESTRICTED", "MARKET_SESSION_NOT_OPEN",
     "SHORT_SALE_LOCATE_MISSING", "SELF_MATCH_PREVENTED", "ORDER_QUANTITY_NOT_POSITIVE",
     "ORDER_PRICE_NOT_POSITIVE", "ORDER_NOTIONAL_NOT_POSITIVE",
     "MAX_ORDER_QUANTITY_EXCEEDED", "MAX_ORDER_NOTIONAL_EXCEEDED",
     "MARKET_DATA_UNAVAILABLE", "MARKET_DATA_STALE", "PRICE_BAND_EXCEEDED",
     "EXECUTION_SLIPPAGE_EXCEEDED", "DUPLICATE_ORDER", "ORDER_RATE_EXCEEDED",
     "CONSECUTIVE_REJECT_LIMIT_EXCEEDED", "REPEATED_EXECUTION_THROTTLE",
     "MAX_WORKING_ORDERS_EXCEEDED", "MAX_OPEN_POSITIONS_EXCEEDED",
     "MAX_POSITION_EXCEEDED", "GROSS_EXPOSURE_LIMIT_EXCEEDED"}

\* CONTROL_SEQUENCE.
ControlSequence ==
    <<"KILL_SWITCH", "DAILY_LOSS_LIMIT", "INSTRUMENT_UNIVERSE", "RESTRICTED_LIST",
      "SESSION_STATE", "SHORT_SALE_LOCATE", "ORDER_QUANTITY", "ORDER_PRICE",
      "ORDER_NOTIONAL", "MAX_ORDER_QUANTITY", "MAX_ORDER_NOTIONAL", "QUOTE_AGE",
      "PRICE_BAND", "EXECUTION_SLIPPAGE", "DUPLICATE_ORDER", "ORDER_RATE",
      "CONSECUTIVE_REJECTS", "REPEATED_EXECUTION", "WORKING_ORDERS",
      "OPEN_POSITIONS", "POSITION_LIMIT", "SELF_MATCH_PREVENTION",
      "GROSS_EXPOSURE", "DAILY_NOTIONAL_LIMIT">>
ControlId == {ControlSequence[i] : i \in DOMAIN ControlSequence}

\* No number, flag or code is mistaken for a missing one.
ASSUME FloatAssumption ==
    /\ {None, NaN} \cap (Int \cup BOOLEAN \cup RejectCode \cup ControlId) = {}
    /\ None # NaN

ALWAYS_ON == {"ORDER_QUANTITY", "ORDER_PRICE", "ORDER_NOTIONAL"}

\* What a decision reads of the engine.
Figure == {"kill_switch_engaged", "is_live", "live_pnl", "simulated_pnl", "live_peak",
           "simulated_peak", "bypass_active", "runtime_max_order_quantity",
           "runtime_max_order_notional", "seen", "sent", "rejects", "executions",
           "daily_notional"}

-------------------------------------------------------------------------------
(* Arithmetic with NaN *)

Number(x) == x # NaN
Lt(x, y) == Number(x) /\ Number(y) /\ x < y
Le(x, y) == Number(x) /\ Number(y) /\ x <= y

Plus(x, y) == IF Number(x) /\ Number(y) THEN x + y ELSE NaN
Minus(x, y) == IF Number(x) /\ Number(y) THEN x - y ELSE NaN
Times(x, y) == IF Number(x) /\ Number(y) THEN x * y ELSE NaN
Magnitude(x) == IF Lt(x, 0) THEN -x ELSE x

\* A float, and an optional field or limit.
Numeric == Int \cup {NaN}
Optional(S) == S \cup {None}

-------------------------------------------------------------------------------
(* What a decision is made of *)

Side == {"BUY", "SELL", "SELL_SHORT"}

OrderRequest ==
    [symbol : STRING, side : Side, quantity : Numeric, limit_price : Optional(Numeric),
     decision_price : Optional(Numeric), best_bid : Optional(Numeric),
     best_ask : Optional(Numeric), reference_price : Optional(Numeric),
     quote_age_millis : Optional(Numeric), session_state : STRING,
     open_positions : Int, working_orders : Int, position_quantity : Numeric,
     gross_exposure_usd : Numeric, opposing_resting_quantity : Numeric,
     locate_secured : BOOLEAN]

FigureType == [x \in Figure |->
    CASE x \in {"kill_switch_engaged", "is_live", "bypass_active"} -> BOOLEAN
      [] x \in {"runtime_max_order_quantity", "runtime_max_order_notional"} -> Optional(Numeric)
      [] x = "seen" -> SUBSET (STRING \X Side \X Numeric \X Optional(Numeric))
      [] x \in {"sent", "rejects", "executions"} -> Nat
      [] OTHER -> Numeric]

\* The thresholds __post_init__ lets through: it refuses a number at or below
\* zero, which nan is not.  A control that is on or off has the threshold TRUE
\* or None; an empty restricted list is None.
LimitType == [c \in ControlId |->
    CASE c \in ALWAYS_ON -> {TRUE}
      [] c \in {"KILL_SWITCH", "SHORT_SALE_LOCATE", "DUPLICATE_ORDER",
                "SELF_MATCH_PREVENTION"} -> Optional({TRUE})
      [] c \in {"INSTRUMENT_UNIVERSE", "RESTRICTED_LIST", "SESSION_STATE"} ->
             Optional(SUBSET STRING)
      [] c \in {"QUOTE_AGE", "ORDER_RATE", "CONSECUTIVE_REJECTS", "REPEATED_EXECUTION",
                "WORKING_ORDERS", "OPEN_POSITIONS"} -> Optional(Nat \ {0})
      [] OTHER -> Optional({x \in Numeric : ~Le(x, 0)})]

IsSell(r) == r.side \in {"SELL", "SELL_SHORT"}

\* The side of the touch this order would cross.
FarTouch(r) == IF IsSell(r) THEN r.best_bid ELSE r.best_ask

ValuationPrice(r) ==
    CASE r.limit_price # None -> r.limit_price
      [] r.limit_price = None /\ r.decision_price # None -> r.decision_price
      [] OTHER -> FarTouch(r)

Priced(r) == ValuationPrice(r) # None
Notional(r) == Times(r.quantity, ValuationPrice(r))

\* Twice the price the band is measured around, to keep the mid whole.
TwiceReference(r) ==
    CASE r.reference_price # None -> Times(2, r.reference_price)
      [] r.reference_price = None /\ r.best_bid # None /\ r.best_ask # None ->
             Plus(r.best_bid, r.best_ask)
      [] OTHER -> None

ProjectedPosition(r) ==
    IF IsSell(r) THEN Minus(r.position_quantity, r.quantity)
                 ELSE Plus(r.position_quantity, r.quantity)

Fingerprint(r) == <<r.symbol, r.side, r.quantity, r.limit_price>>

-------------------------------------------------------------------------------
(* The controls.  Each is given its threshold t, which is not None, the    *)
(* engine's figures f and the order r, and answers None or the RejectCode  *)
(* it objects with.                                                        *)

Unless(fine, code) == IF fine THEN None ELSE code

\* Mutant of IfKnown: a control without its input is skipped.
SkipUnknown(known, fine, code) == IF known THEN Unless(fine, code) ELSE None

\* _unpriced and its kind: an armed control whose input never arrived.
IfKnown(known, fine, code) ==
    IF known THEN Unless(fine, code) ELSE "MARKET_DATA_UNAVAILABLE"

KillSwitch(f) == Unless(~f.kill_switch_engaged, "KILL_SWITCH_ENGAGED")

\* Mutant of Leg: the sum of the legs.
BothLegs(f, live, simulated) == Plus(f[live], f[simulated])

Leg(f, live, simulated) == IF f.is_live THEN f[live] ELSE f[simulated]

\* The loss limit t trails the high water mark of the engine's own leg.
Floor(t, f) == Minus(Leg(f, "live_peak", "simulated_peak"), t)

\* The leg's P&L is at or through its trailing floor.
Breached(t, f) ==
    ~f.bypass_active /\ Le(Leg(f, "live_pnl", "simulated_pnl"), Floor(t, f))

LossLimit(t, f) == Unless(~Breached(t, f), "LOSS_LIMIT_BREACHED")

InstrumentPermitted(t, r) == Unless(r.symbol \in t, "INSTRUMENT_NOT_PERMITTED")
InstrumentRestricted(t, r) == Unless(r.symbol \notin t, "INSTRUMENT_RESTRICTED")
Session(t, r) == Unless(r.session_state \in t, "MARKET_SESSION_NOT_OPEN")
ShortSaleLocate(r) ==
    Unless(r.side # "SELL_SHORT" \/ r.locate_secured, "SHORT_SALE_LOCATE_MISSING")

\* Mutant of QuantitySign: only zero is refused.
QuantityNotZero(r) == Unless(r.quantity # 0, "ORDER_QUANTITY_NOT_POSITIVE")

QuantitySign(r) == Unless(Lt(0, r.quantity), "ORDER_QUANTITY_NOT_POSITIVE")
PriceSign(r) ==
    Unless(r.limit_price = None \/ Lt(0, r.limit_price), "ORDER_PRICE_NOT_POSITIVE")
NotionalSign(r) ==
    Unless(~Priced(r) \/ Lt(0, Notional(r)), "ORDER_NOTIONAL_NOT_POSITIVE")

MaxQuantity(t, r) == Unless(Le(r.quantity, t), "MAX_ORDER_QUANTITY_EXCEEDED")
MaxNotional(t, r) ==
    IfKnown(Priced(r), Le(Notional(r), t), "MAX_ORDER_NOTIONAL_EXCEEDED")

QuoteAge(t, r) ==
    IfKnown(r.quote_age_millis # None, Le(r.quote_age_millis, t), "MARKET_DATA_STALE")

\* A market order carries no price to collar.
PriceBand(t, r) ==
    LET twice == TwiceReference(r)
        deviation == Magnitude(Minus(Times(2, r.limit_price), twice))
    IN IF r.limit_price = None
       THEN None
       ELSE IfKnown(twice # None /\ ~Le(twice, 0),
                    Le(Times(100, deviation), Times(t, twice)),
                    "PRICE_BAND_EXCEEDED")

\* Adverse drift only.
ExecutionSlippage(t, r) ==
    IfKnown(r.decision_price # None /\ FarTouch(r) # None,
            Le(IF IsSell(r) THEN Minus(r.decision_price, FarTouch(r))
                            ELSE Minus(FarTouch(r), r.decision_price), t),
            "EXECUTION_SLIPPAGE_EXCEEDED")

Duplicate(f, r) == Unless(Fingerprint(r) \notin f.seen, "DUPLICATE_ORDER")
OrderRate(t, f) == Unless(f.sent < t, "ORDER_RATE_EXCEEDED")
ConsecutiveRejects(t, f) == Unless(f.rejects < t, "CONSECUTIVE_REJECT_LIMIT_EXCEEDED")

\* Mutant of RepeatedExecution: off by one.
RepeatedExecutionInclusive(t, f) ==
    Unless(f.executions <= t, "REPEATED_EXECUTION_THROTTLE")

RepeatedExecution(t, f) == Unless(f.executions < t, "REPEATED_EXECUTION_THROTTLE")

\* Mutant of WorkingOrders: off by one.
WorkingOrdersInclusive(t, r) ==
    Unless(r.working_orders <= t, "MAX_WORKING_ORDERS_EXCEEDED")

WorkingOrders(t, r) == Unless(r.working_orders < t, "MAX_WORKING_ORDERS_EXCEEDED")
OpenPositions(t, r) == Unless(r.open_positions < t, "MAX_OPEN_POSITIONS_EXCEEDED")

\* Mutants of PositionLimit: no exemption; the position before the order; a
\* desk already outside is no longer held.
PositionLimitFlat(t, r) ==
    Unless(Le(Magnitude(ProjectedPosition(r)), t), "MAX_POSITION_EXCEEDED")
PositionLimitBefore(t, r) ==
    Unless(Le(Magnitude(r.position_quantity), t), "MAX_POSITION_EXCEEDED")
PositionLimitInside(t, r) ==
    Unless(\/ Le(Magnitude(ProjectedPosition(r)), t)
           \/ ~Le(Magnitude(r.position_quantity), t), "MAX_POSITION_EXCEEDED")

\* Outside the limit an order must shrink the position without flipping it.
PositionLimit(t, r) ==
    LET current == r.position_quantity
        projected == ProjectedPosition(r)
        reduces == Lt(Magnitude(projected), Magnitude(current))
        flipsSign == Lt(Times(current, projected), 0)
    IN Unless(Le(Magnitude(projected), t) \/ (reduces /\ ~flipsSign),
              "MAX_POSITION_EXCEEDED")

SelfMatch(r) == Unless(Le(r.opposing_resting_quantity, 0), "SELF_MATCH_PREVENTED")

GrossExposure(t, r) ==
    IfKnown(Priced(r), Le(Plus(r.gross_exposure_usd, Magnitude(Notional(r))), t),
            "GROSS_EXPOSURE_LIMIT_EXCEEDED")

\* Mutant of DailyNotional: the order itself is left out.
DailyNotionalBefore(t, f, r) ==
    IfKnown(Priced(r), Le(f.daily_notional, t), "DAILY_NOTIONAL_LIMIT_EXCEEDED")

DailyNotional(t, f, r) ==
    IfKnown(Priced(r), Le(Plus(f.daily_notional, Magnitude(Notional(r))), t),
            "DAILY_NOTIONAL_LIMIT_EXCEEDED")

-------------------------------------------------------------------------------
(* The decision.  lim holds the threshold of each control or None, off the *)
(* disabled controls.                                                      *)

\* Mutant of Threshold: an override only ever tightens.
ThresholdTighter(c, lim, f) ==
    LET Tighter(t) ==
            IF t = None \/ (lim[c] # None /\ Le(lim[c], t)) THEN lim[c] ELSE t
    IN CASE c = "MAX_ORDER_QUANTITY" -> Tighter(f.runtime_max_order_quantity)
         [] c = "MAX_ORDER_NOTIONAL" -> Tighter(f.runtime_max_order_notional)
         [] OTHER -> lim[c]

\* The runtime override if there is one, else the configured limit.
Threshold(c, lim, f) ==
    CASE c = "MAX_ORDER_QUANTITY" /\ f.runtime_max_order_quantity # None ->
             f.runtime_max_order_quantity
      [] c = "MAX_ORDER_NOTIONAL" /\ f.runtime_max_order_notional # None ->
             f.runtime_max_order_notional
      [] OTHER -> lim[c]

Armed(c, lim, f) == Threshold(c, lim, f) # None

\* The well-formedness controls answer FALSE whatever the set says.
IsDisabled(c, off) == c \notin ALWAYS_ON /\ c \in off

\* Mutant of Runs: an override alone does not arm a control.
RunsIfConfigured(c, lim, off, f) == lim[c] # None /\ ~IsDisabled(c, off)

Runs(c, lim, off, f) == Armed(c, lim, f) /\ ~IsDisabled(c, off)

\* stood_down_controls: what switching off actually suppressed.
StoodDown(lim, off, f) == {c \in ControlId : IsDisabled(c, off) /\ Armed(c, lim, f)}

Check(c, t, f, r) ==
    CASE c = "KILL_SWITCH" -> KillSwitch(f)
      [] c = "DAILY_LOSS_LIMIT" -> LossLimit(t, f)
      [] c = "INSTRUMENT_UNIVERSE" -> InstrumentPermitted(t, r)
      [] c = "RESTRICTED_LIST" -> InstrumentRestricted(t, r)
      [] c = "SESSION_STATE" -> Session(t, r)
      [] c = "SHORT_SALE_LOCATE" -> ShortSaleLocate(r)
      [] c = "ORDER_QUANTITY" -> QuantitySign(r)
      [] c = "ORDER_PRICE" -> PriceSign(r)
      [] c = "ORDER_NOTIONAL" -> NotionalSign(r)
      [] c = "MAX_ORDER_QUANTITY" -> MaxQuantity(t, r)
      [] c = "MAX_ORDER_NOTIONAL" -> MaxNotional(t, r)
      [] c = "QUOTE_AGE" -> QuoteAge(t, r)
      [] c = "PRICE_BAND" -> PriceBand(t, r)
      [] c = "EXECUTION_SLIPPAGE" -> ExecutionSlippage(t, r)
      [] c = "DUPLICATE_ORDER" -> Duplicate(f, r)
      [] c = "ORDER_RATE" -> OrderRate(t, f)
      [] c = "CONSECUTIVE_REJECTS" -> ConsecutiveRejects(t, f)
      [] c = "REPEATED_EXECUTION" -> RepeatedExecution(t, f)
      [] c = "WORKING_ORDERS" -> WorkingOrders(t, r)
      [] c = "OPEN_POSITIONS" -> OpenPositions(t, r)
      [] c = "POSITION_LIMIT" -> PositionLimit(t, r)
      [] c = "SELF_MATCH_PREVENTION" -> SelfMatch(r)
      [] c = "GROSS_EXPOSURE" -> GrossExposure(t, r)
      [] c = "DAILY_NOTIONAL_LIMIT" -> DailyNotional(t, f, r)

Outcome(c, lim, off, f, r) ==
    IF Runs(c, lim, off, f) THEN Check(c, Threshold(c, lim, f), f, r) ELSE None

Accepted == [control |-> None, code |-> None]

\* No control that runs objects.
Admits(lim, off, f, r) == \A c \in ControlId : Outcome(c, lim, off, f, r) = None

\* evaluate: the first control of the sequence that objects.
Evaluate(lim, off, f, r) ==
    LET objecting == {i \in DOMAIN ControlSequence :
                          Outcome(ControlSequence[i], lim, off, f, r) # None}
        first == CHOOSE i \in objecting : \A j \in objecting : i <= j
    IN IF Admits(lim, off, f, r)
       THEN Accepted
       ELSE [control |-> ControlSequence[first],
             code |-> Outcome(ControlSequence[first], lim, off, f, r)]

===============================================================================
