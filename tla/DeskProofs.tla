------------------------------ MODULE DeskProofs ------------------------------
(***************************************************************************)
(* Theorems about the decision and the desk that trades under it, for      *)
(* every limit set, every state of the engine and every order.             *)
(***************************************************************************)
EXTENDS Desk, WellFoundedInduction, TLAPS

-------------------------------------------------------------------------------
(* The decision's data *)

\* What the controls are called, and what is none of them.
LEMMA Names ==
    /\ DOMAIN ControlSequence = 1 .. 24
    /\ ControlId = {"KILL_SWITCH", "DAILY_LOSS_LIMIT", "INSTRUMENT_UNIVERSE",
          "RESTRICTED_LIST", "SESSION_STATE", "SHORT_SALE_LOCATE", "ORDER_QUANTITY",
          "ORDER_PRICE", "ORDER_NOTIONAL", "MAX_ORDER_QUANTITY", "MAX_ORDER_NOTIONAL",
          "QUOTE_AGE", "PRICE_BAND", "EXECUTION_SLIPPAGE", "DUPLICATE_ORDER",
          "ORDER_RATE", "CONSECUTIVE_REJECTS", "REPEATED_EXECUTION", "WORKING_ORDERS",
          "OPEN_POSITIONS", "POSITION_LIMIT", "SELF_MATCH_PREVENTION",
          "GROSS_EXPOSURE", "DAILY_NOTIONAL_LIMIT"}
  <1>1. DOMAIN ControlSequence = 1 .. 24
    BY DEF ControlSequence
  <1>2. QED BY <1>1 DEF ControlId, ControlSequence

\* None and NaN are nothing else.
LEMMA NoneAndNaN ==
    /\ None \notin Int /\ NaN \notin Int /\ None # NaN
    /\ None \notin BOOLEAN /\ None \notin RejectCode /\ None \notin ControlId
  BY FloatAssumption

\* A control that objects does so with a code (RiskDecision.reject).
LEMMA Objects ==
    ASSUME NEW fine, NEW code \in RejectCode
    PROVE  Unless(fine, code) = None <=> fine
  BY NoneAndNaN DEF Unless

\* The magnitude of a number is its absolute value (abs).
LEMMA MagnitudeIs ==
    ASSUME NEW x \in Int
    PROVE  Magnitude(x) = (IF x < 0 THEN -x ELSE x) /\ Magnitude(x) \in Nat
  BY NoneAndNaN DEF Magnitude, Lt, Number

\* What the desk adds to an order is its position, if it knows it, and nothing
\* else.
LEMMA ContextFields ==
    ASSUME NEW r \in Orders, TypeOK
    PROVE  /\ InContext(r) \in OrderRequest /\ r \in OrderRequest
           /\ InContext(r).symbol = r.symbol /\ InContext(r).side = r.side
           /\ InContext(r).quantity = r.quantity
           /\ InContext(r).limit_price = r.limit_price
           /\ InContext(r).decision_price = r.decision_price
           /\ InContext(r).best_bid = r.best_bid /\ InContext(r).best_ask = r.best_ask
           /\ InContext(r).reference_price = r.reference_price
           /\ InContext(r).quote_age_millis = r.quote_age_millis
           /\ InContext(r).gross_exposure_usd = r.gross_exposure_usd
           /\ InContext(r).opposing_resting_quantity = r.opposing_resting_quantity
  <1>1. r \in OrderRequest /\ position \in Numeric
    BY DecisionAssumption DEF TypeOK, Numeric
  <1>2. QED BY <1>1 DEF InContext, OrderRequest, Number

\* The position a known order is decided on is the desk's.
LEMMA ContextPosition ==
    ASSUME NEW r \in Orders, TypeOK
    PROVE  InContext(r).position_quantity = IF Number(r.position_quantity) THEN position ELSE NaN
  <1>1. r \in OrderRequest /\ position \in Numeric
    BY DecisionAssumption DEF TypeOK, Numeric
  <1>2. QED BY <1>1 DEF InContext, OrderRequest, Number

\* What an order says, as the types of OrderRequest.
LEMMA RequestFields ==
    ASSUME NEW r \in OrderRequest
    PROVE  /\ r.side \in Side /\ r.quantity \in Numeric /\ r.limit_price \in Optional(Numeric)
           /\ r.decision_price \in Optional(Numeric) /\ r.best_bid \in Optional(Numeric)
           /\ r.best_ask \in Optional(Numeric) /\ r.reference_price \in Optional(Numeric)
           /\ r.quote_age_millis \in Optional(Numeric) /\ r.position_quantity \in Numeric
           /\ r.gross_exposure_usd \in Numeric /\ r.opposing_resting_quantity \in Numeric
           /\ r.open_positions \in Int /\ r.working_orders \in Int
           /\ FarTouch(r) \in Optional(Numeric) /\ ValuationPrice(r) \in Optional(Numeric)
  BY DEF OrderRequest, FarTouch, ValuationPrice

\* A running control that objects refuses the order (evaluate).
LEMMA Refused ==
    ASSUME NEW c \in ControlId, NEW r, Runs(c, limits, disabled, figures),
           Check(c, Threshold(c, limits, figures), figures, r) # None
    PROVE  ~Admitted(r)
  BY DEF Admitted, Admits, Outcome

\* Every order that is admitted passes every running control.
LEMMA Passed ==
    ASSUME NEW c \in ControlId, NEW r, Runs(c, limits, disabled, figures), Admitted(r)
    PROVE  Check(c, Threshold(c, limits, figures), figures, r) = None
  BY DEF Admitted, Admits, Outcome

-------------------------------------------------------------------------------
(* Well-formed orders *)

\* The well-formedness controls always run (is_disabled).
LEMMA AlwaysRuns ==
    ASSUME TypeOK, NEW c \in ALWAYS_ON
    PROVE  c \in ControlId /\ Runs(c, limits, disabled, figures)
  <1>1. c \in ControlId
    BY Names DEF ALWAYS_ON
  <1>2. limits[c] = TRUE
    <2>1. limits[c] \in LimitType[c]
      BY <1>1, DecisionAssumption DEF TypeOK
    <2>2. LimitType[c] = {TRUE}
      BY <1>1 DEF LimitType, ALWAYS_ON
    <2>3. QED BY <2>1, <2>2
  <1>3. Threshold(c, limits, figures) = TRUE
    BY <1>2 DEF Threshold, ALWAYS_ON
  <1>4. QED BY <1>1, <1>3, NoneAndNaN DEF Runs, Armed, IsDisabled

\* An order that is admitted has a positive quantity, and no price that is not.
LEMMA WellFormed ==
    ASSUME TypeOK, NEW r \in OrderRequest, Admitted(r)
    PROVE  /\ Lt(0, r.quantity)
           /\ r.limit_price = None \/ Lt(0, r.limit_price)
           /\ ValuationPrice(r) = None \/ Lt(0, ValuationPrice(r))
  <1>1. /\ QuantitySign(r) = None /\ PriceSign(r) = None /\ NotionalSign(r) = None
    <2>1. {"ORDER_QUANTITY", "ORDER_PRICE", "ORDER_NOTIONAL"} = ALWAYS_ON
      BY DEF ALWAYS_ON
    <2>2. \A c \in ALWAYS_ON : Check(c, Threshold(c, limits, figures), figures, r) = None
      BY AlwaysRuns, Passed
    <2>3. QED BY <2>1, <2>2 DEF Check
  <1>2. Lt(0, r.quantity) /\ (r.limit_price = None \/ Lt(0, r.limit_price))
    BY <1>1, NoneAndNaN DEF QuantitySign, PriceSign, Unless, RejectCode
  <1>3. ASSUME Priced(r) PROVE Lt(0, ValuationPrice(r))
    <2> DEFINE q == r.quantity
               p == ValuationPrice(r)
    <2>1. Lt(0, Notional(r))
      BY <1>1, <1>3, NoneAndNaN DEF NotionalSign, Unless, RejectCode
    <2>2. q \in Int /\ 0 < q
      BY <1>2, RequestFields, NoneAndNaN DEF Lt, Number, Numeric
    <2>3. p \in Numeric
      BY <1>3, RequestFields DEF Priced, Optional
    <2>4. p \in Int /\ 0 < q * p
      BY <2>1, <2>3 DEF Notional, Times, Lt, Number, Numeric
    <2> HIDE DEF p, q
    <2>5. 0 < p
      BY <2>2, <2>4
    <2>6. Number(p)
      BY <2>4, NoneAndNaN DEF Number
    <2>7. QED BY <2>5, <2>6, NoneAndNaN DEF Lt, Number, p
  <1>4. QED BY <1>2, <1>3 DEF Priced

-------------------------------------------------------------------------------
(* Types *)

\* The desk starts with a configuration and figures of their types.
LEMMA TypeInit == Init => TypeOK
  <1> SUFFICES ASSUME Init PROVE TypeOK
    OBVIOUS
  <1>1. QED BY DecisionAssumption DEF Init, TypeOK

\* A fill is for a positive quantity of an order, which the decision has seen.
LEMMA TradeMoves ==
    ASSUME TypeOK, NEW r \in Orders, Trade(r)
    PROVE  \E filled \in Int :
              /\ r.quantity \in Int /\ 1 <= filled /\ filled <= r.quantity
              /\ position' = IF IsSell(r) THEN position - filled ELSE position + filled
  <1>1. Admitted(InContext(r)) /\ InContext(r) \in OrderRequest
    BY ContextFields DEF Trade
  <1>2. Lt(0, InContext(r).quantity)
    BY <1>1, WellFormed
  <1>3. Lt(0, r.quantity) /\ r \in OrderRequest
    BY <1>2, ContextFields
  <1>4. r.quantity \in Int
    BY <1>3, RequestFields DEF Lt, Number, Numeric
  <1>5. QED BY <1>4 DEF Trade

\* No switch reaches a control that is always on, no recalibration leaves the
\* settings and no fill anything but a whole position.
LEMMA TypeNext == TypeOK /\ [Next]_vars => TypeOK'
  <1> SUFFICES ASSUME TypeOK, [Next]_vars PROVE TypeOK'
    OBVIOUS
  <1>1. ASSUME NEW c \in ControlId, Disable(c) PROVE TypeOK'
    BY <1>1 DEF Disable, TypeOK
  <1>2. ASSUME NEW c \in ControlId, Enable(c) PROVE TypeOK'
    BY <1>2 DEF Enable, TypeOK
  <1>3. ASSUME NEW c \in ControlId, NEW t \in Settings[c], Recalibrate(c, t) PROVE TypeOK'
    BY <1>3 DEF Recalibrate, TypeOK
  <1>4. ASSUME NEW x \in Figure, NEW v \in FigureValues[x], FigureMoves(x, v) PROVE TypeOK'
    BY <1>4 DEF FigureMoves, TypeOK
  <1>5. ASSUME NEW r \in Orders, Trade(r) PROVE TypeOK'
    <2>1. position' \in Int /\ Magnitude(position') <= MaxPosition
      BY <1>5, TradeMoves DEF Trade, TypeOK
    <2>2. position' \in -MaxPosition .. MaxPosition
      BY <2>1, MagnitudeIs, DecisionAssumption
    <2>3. QED BY <1>5, <2>2 DEF Trade, TypeOK
  <1>6. CASE UNCHANGED vars
    BY <1>6 DEF vars, TypeOK
  <1>7. QED BY <1>1, <1>2, <1>3, <1>4, <1>5, <1>6 DEF Next

\* Limits, switches, figures and position keep their types; no control that is
\* always on is ever switched off.
THEOREM DeskTypeCorrect == Spec => []TypeOK
  BY TypeInit, TypeNext, PTL DEF Spec

\* No accepted order has a quantity, a price or a notional that is not
\* positive, whatever is unset, stood down or overridden (ALWAYS_ON).
THEOREM AcceptedWellFormed == Spec => []WellFormedAlways
  <1>1. TypeOK => WellFormedAlways
    <2> SUFFICES ASSUME TypeOK, NEW r \in Orders, Admitted(InContext(r))
                 PROVE  /\ Lt(0, r.quantity)
                        /\ r.limit_price = None \/ Lt(0, r.limit_price)
                        /\ ValuationPrice(r) = None \/ Lt(0, ValuationPrice(r))
      BY DEF WellFormedAlways
    <2>1. InContext(r) \in OrderRequest
      BY ContextFields
    <2>2. ValuationPrice(InContext(r)) = ValuationPrice(r)
      BY ContextFields DEF ValuationPrice, FarTouch, IsSell
    <2>3. QED BY <2>1, <2>2, WellFormed, ContextFields
  <1>2. QED BY <1>1, DeskTypeCorrect, PTL

-------------------------------------------------------------------------------
(* What a control cannot see *)

\* An armed control the report does not name stops what it objects to
\* (stood_down_controls).
THEOREM SuppressionReported == Spec => []SuppressionVisible
  <1>1. SuppressionVisible
    <2> SUFFICES ASSUME NEW c \in ControlId, c \notin StoodDown(limits, disabled, figures),
                        Armed(c, limits, figures), NEW r \in Orders,
                        Check(c, Threshold(c, limits, figures), figures, InContext(r)) # None
                 PROVE  ~Admitted(InContext(r))
      BY DEF SuppressionVisible
    <2>1. Runs(c, limits, disabled, figures)
      BY DEF StoodDown, Runs
    <2>2. QED BY <2>1, Refused
  <1>2. QED BY <1>1, PTL

\* A control that is told an input is unknown, or compares with what is not a
\* number, objects (_unpriced).
LEMMA UnknownObjects ==
    ASSUME NEW known, NEW fine, NEW code \in RejectCode, ~known \/ ~fine
    PROVE  IfKnown(known, fine, code) # None
  BY NoneAndNaN DEF IfKnown, Unless, RejectCode

\* A price that is not there, or is not a number, gives no usable notional.
LEMMA NoNotional ==
    ASSUME NEW r, Unusable(ValuationPrice(r))
    PROVE  ~Priced(r) \/ Notional(r) = NaN
  BY DEF Unusable, Priced, Notional, Times, Number

\* Arithmetic carries NaN on, and no comparison with it holds.
LEMMA NaNSpreads ==
    /\ Magnitude(NaN) = NaN /\ \A x : ~Le(NaN, x) /\ ~Lt(NaN, x) /\ ~Le(x, NaN) /\ ~Lt(x, NaN)
    /\ \A x : Plus(x, NaN) = NaN /\ Plus(NaN, x) = NaN /\ Minus(x, NaN) = NaN
              /\ Minus(NaN, x) = NaN /\ Times(x, NaN) = NaN /\ Times(NaN, x) = NaN
  BY DEF Magnitude, Le, Lt, Number, Plus, Minus, Times

\* A control that lacks an input, or is given one that is not a number,
\* objects.
LEMMA StarvedObjects ==
    ASSUME NEW c \in ControlId, NEW t, NEW r, Starved(c, r)
    PROVE  Check(c, t, figures, r) # None
  <1>1. CASE c = "QUOTE_AGE"
    <2>1. r.quote_age_millis = None \/ ~Le(r.quote_age_millis, t)
      BY <1>1, NaNSpreads DEF Starved, Unusable
    <2>2. QuoteAge(t, r) # None
      BY <2>1, UnknownObjects DEF QuoteAge, RejectCode
    <2>3. QED BY <1>1, <2>2 DEF Check
  <1>2. CASE c = "PRICE_BAND"
    <2>1. r.limit_price # None /\ (TwiceReference(r) = None \/ TwiceReference(r) = NaN)
      BY <1>2, NaNSpreads, NoneAndNaN DEF Starved, Unusable, TwiceReference
    <2>2. \/ TwiceReference(r) = None
          \/ ~Le(Times(100, Magnitude(Minus(Times(2, r.limit_price), TwiceReference(r)))),
                 Times(t, TwiceReference(r)))
      BY <2>1, NaNSpreads
    <2>3. PriceBand(t, r) # None
      BY <2>1, <2>2, UnknownObjects DEF PriceBand, RejectCode
    <2>4. QED BY <1>2, <2>3 DEF Check
  <1>3. CASE c = "EXECUTION_SLIPPAGE"
    <2>1. \/ r.decision_price = None \/ FarTouch(r) = None
          \/ ~Le(IF IsSell(r) THEN Minus(r.decision_price, FarTouch(r))
                              ELSE Minus(FarTouch(r), r.decision_price), t)
      BY <1>3, NaNSpreads DEF Starved, Unusable
    <2>2. ExecutionSlippage(t, r) # None
      BY <2>1, UnknownObjects DEF ExecutionSlippage, RejectCode
    <2>3. QED BY <1>3, <2>2 DEF Check
  <1>4. CASE c = "MAX_ORDER_NOTIONAL"
    <2>1. ~Priced(r) \/ ~Le(Notional(r), t)
      BY <1>4, NoNotional, NaNSpreads DEF Starved
    <2>2. MaxNotional(t, r) # None
      BY <2>1, UnknownObjects DEF MaxNotional, RejectCode
    <2>3. QED BY <1>4, <2>2 DEF Check
  <1>5. CASE c = "POSITION_LIMIT"
    <2>1. r.position_quantity = NaN /\ ProjectedPosition(r) = NaN
      BY <1>5, NaNSpreads DEF Starved, Number, ProjectedPosition
    <2>2. PositionLimit(t, r) # None
      BY <2>1, NaNSpreads, NoneAndNaN DEF PositionLimit, Unless, RejectCode
    <2>3. QED BY <1>5, <2>2 DEF Check
  <1>6. CASE c = "SELF_MATCH_PREVENTION"
    <2>1. ~Le(r.opposing_resting_quantity, 0)
      BY <1>6, NaNSpreads DEF Starved, Number
    <2>2. SelfMatch(r) # None
      BY <2>1, NoneAndNaN DEF SelfMatch, Unless, RejectCode
    <2>3. QED BY <1>6, <2>2 DEF Check
  <1>7. CASE c = "GROSS_EXPOSURE"
    <2>1. ~Priced(r) \/ ~Le(Plus(r.gross_exposure_usd, Magnitude(Notional(r))), t)
      BY <1>7, NoNotional, NaNSpreads DEF Starved, Number
    <2>2. GrossExposure(t, r) # None
      BY <2>1, UnknownObjects DEF GrossExposure, RejectCode
    <2>3. QED BY <1>7, <2>2 DEF Check
  <1>8. CASE c = "DAILY_NOTIONAL_LIMIT"
    <2>1. ~Priced(r) \/ ~Le(Plus(figures.daily_notional, Magnitude(Notional(r))), t)
      BY <1>8, NoNotional, NaNSpreads DEF Starved, Number
    <2>2. DailyNotional(t, figures, r) # None
      BY <2>1, UnknownObjects DEF DailyNotional, RejectCode
    <2>3. QED BY <1>8, <2>2 DEF Check
  <1>9. QED BY <1>1, <1>2, <1>3, <1>4, <1>5, <1>6, <1>7, <1>8 DEF Starved

\* An armed control that cannot be evaluated rejects the order (_unpriced).
THEOREM BlindControlsReject == Spec => []FailClosed
  <1>1. TypeOK => FailClosed
    <2> SUFFICES ASSUME TypeOK, NEW c \in ControlId, Runs(c, limits, disabled, figures),
                        NEW r \in Orders, Starved(c, r)
                 PROVE  ~Admitted(InContext(r))
      BY DEF FailClosed
    <2>1. Starved(c, InContext(r))
      <3>1. /\ ValuationPrice(InContext(r)) = ValuationPrice(r)
            /\ FarTouch(InContext(r)) = FarTouch(r)
        BY ContextFields DEF ValuationPrice, FarTouch, IsSell
      <3>2. ~Number(r.position_quantity) => ~Number(InContext(r).position_quantity)
        BY ContextPosition DEF Number
      <3>3. QED BY <3>1, <3>2, ContextFields DEF Starved
    <2>2. QED BY <2>1, StarvedObjects, Refused
  <1>2. QED BY <1>1, DeskTypeCorrect, PTL

-------------------------------------------------------------------------------
(* The position limit *)

\* What the arithmetic of numbers is when none of them is NaN.
LEMMA NumberArithmetic ==
    ASSUME NEW x \in Int, NEW y \in Int
    PROVE  /\ Number(x) /\ (Lt(x, y) <=> x < y) /\ (Le(x, y) <=> x <= y)
           /\ Plus(x, y) = x + y /\ Minus(x, y) = x - y /\ Times(x, y) = x * y
  BY NoneAndNaN DEF Number, Lt, Le, Plus, Minus, Times

\* What an order that is known makes of the position.
LEMMA Projected ==
    ASSUME TypeOK, NEW r \in Orders, Number(r.position_quantity), r.quantity \in Int
    PROVE  /\ InContext(r).position_quantity = position
           /\ ProjectedPosition(InContext(r)) =
                  IF IsSell(r) THEN position - r.quantity ELSE position + r.quantity
  <1>1. position \in Int
    BY DEF TypeOK
  <1>2. InContext(r).position_quantity = position
    BY ContextPosition
  <1>3. InContext(r).quantity = r.quantity /\ IsSell(InContext(r)) = IsSell(r)
    BY ContextFields DEF IsSell
  <1>4. QED BY <1>1, <1>2, <1>3, NumberArithmetic DEF ProjectedPosition

\* The sign of a product.
LEMMA ProductSign ==
    ASSUME NEW a \in Int, NEW b \in Int
    PROVE  a * b < 0 <=> (a < 0 /\ 0 < b) \/ (0 < a /\ b < 0)
  <1>1. CASE a = 0 \/ b = 0
    BY <1>1
  <1>2. CASE a > 0 /\ b > 0
    BY <1>2
  <1>3. CASE a < 0 /\ b < 0
    BY <1>3
  <1>4. CASE a < 0 /\ b > 0
    BY <1>4
  <1>5. CASE a > 0 /\ b < 0
    BY <1>5
  <1>6. QED BY <1>1, <1>2, <1>3, <1>4, <1>5

\* The control in numbers: the projected position is within the limit, or
\* smaller than the position and of no other sign (_check_position_limit).
LEMMA PositionLimitIs ==
    ASSUME NEW t, NEW r, r.position_quantity \in Int, ProjectedPosition(r) \in Int
    PROVE  LET p == r.position_quantity
               q == ProjectedPosition(r)
           IN PositionLimit(t, r) = None <=>
                  \/ Le(Magnitude(q), t)
                  \/ Magnitude(q) < Magnitude(p) /\ ~(p * q < 0)
  <1> DEFINE p == r.position_quantity
             q == ProjectedPosition(r)
  <1>1. p \in Int /\ q \in Int /\ Magnitude(p) \in Int /\ Magnitude(q) \in Int /\ p * q \in Int
    BY MagnitudeIs
  <1>2. (Lt(Magnitude(q), Magnitude(p)) <=> Magnitude(q) < Magnitude(p))
        /\ (Lt(Times(p, q), 0) <=> p * q < 0)
    <2> HIDE DEF p, q
    <2>1. Lt(Magnitude(q), Magnitude(p)) <=> Magnitude(q) < Magnitude(p)
      BY <1>1, NoneAndNaN DEF Lt, Number
    <2>2. Times(p, q) = p * q
      BY <1>1, NoneAndNaN DEF Times, Number
    <2>3. \A m \in Int : Lt(m, 0) <=> m < 0
      BY NoneAndNaN DEF Lt, Number
    <2>4. Lt(p * q, 0) <=> p * q < 0
      BY <1>1, <2>3
    <2>5. QED BY <2>1, <2>2, <2>4
  <1>3. QED BY <1>2, NoneAndNaN DEF PositionLimit, Unless, RejectCode

\* Wherever fills and new limits have left the desk, an order that takes its
\* position towards zero and no further passes the position limit.
THEOREM NeverATrap == Spec => []NeverTrapped
  <1>1. TypeOK => NeverTrapped
    <2> DEFINE t == Threshold("POSITION_LIMIT", limits, figures)
    <2> SUFFICES ASSUME TypeOK, NEW r \in Orders, Number(r.position_quantity),
                        r.quantity \in 1 .. Magnitude(position), IsSell(r) <=> position > 0
                 PROVE  PositionLimit(t, InContext(r)) = None
      BY DEF NeverTrapped
    <2> HIDE DEF t
    <2> DEFINE p == position
               q == ProjectedPosition(InContext(r))
    <2>1. p \in Int /\ r.quantity \in Int /\ InContext(r).position_quantity = p
          /\ q = IF p > 0 THEN p - r.quantity ELSE p + r.quantity
      BY Projected DEF TypeOK
    <2>2. q \in Int /\ Magnitude(p) = (IF p < 0 THEN -p ELSE p)
          /\ Magnitude(q) = (IF q < 0 THEN -q ELSE q)
      BY <2>1, MagnitudeIs
    <2> HIDE DEF q
    <2>3. Magnitude(q) < Magnitude(p) /\ (p > 0 => q >= 0) /\ (p <= 0 => q <= 0)
      BY <2>1, <2>2
    <2>4. ~(p * q < 0)
      BY <2>1, <2>2, <2>3, ProductSign
    <2>5. QED BY <2>1, <2>2, <2>3, <2>4, PositionLimitIs DEF q
  <1>2. QED BY <1>1, DeskTypeCorrect, PTL

\* A fill takes the position away from zero, or across it, only to somewhere
\* within the limit (the exemption in _check_position_limit).
THEOREM RiskStaysWithinLimit == Spec => RiskOnlyWithinLimit
  <1> DEFINE Step == LET t == limits["POSITION_LIMIT"]
                     IN /\ Runs("POSITION_LIMIT", limits, disabled, figures)
                        /\ Magnitude(position') > Magnitude(position) \/ position * position' < 0
                        => Magnitude(position') <= t
  <1>1. TypeOK /\ [Next]_vars => [Step]_vars
    <2> SUFFICES ASSUME TypeOK, Next, Runs("POSITION_LIMIT", limits, disabled, figures),
                        \/ Magnitude(position') > Magnitude(position)
                        \/ position * position' < 0
                 PROVE  Magnitude(position') <= limits["POSITION_LIMIT"]
      BY DEF vars
    <2>1. CASE UNCHANGED position
      <3>1. position \in Int /\ Magnitude(position) \in Nat
        BY MagnitudeIs DEF TypeOK
      <3>2. ~(position * position < 0)
        BY <3>1, ProductSign
      <3>3. QED BY <2>1, <3>1, <3>2
    <2>2. ASSUME NEW r \in Orders, Trade(r)
          PROVE  Magnitude(position') <= limits["POSITION_LIMIT"]
      <3> DEFINE t == limits["POSITION_LIMIT"]
                 p == position
                 q == ProjectedPosition(InContext(r))
                 z == position'
      <3>1. /\ "POSITION_LIMIT" \in ControlId
            /\ Threshold("POSITION_LIMIT", limits, figures) = t
        BY Names DEF Threshold
      <3>2. PositionLimit(t, InContext(r)) = None
        BY <2>2, <3>1, Passed DEF Trade, Check
      <3>3. Number(r.position_quantity)
        <4>1. InContext(r).position_quantity = NaN => PositionLimit(t, InContext(r)) # None
          BY <3>1, StarvedObjects DEF Starved, Number, Check
        <4>2. QED BY <3>2, <4>1, ContextPosition
      <3>4. PICK n \in Int : /\ r.quantity \in Int /\ 1 <= n /\ n <= r.quantity
                             /\ z = IF IsSell(r) THEN p - n ELSE p + n
        BY <2>2, TradeMoves
      <3>5. p \in Int /\ InContext(r).position_quantity = p
            /\ q = IF IsSell(r) THEN p - r.quantity ELSE p + r.quantity
        BY <3>3, <3>4, Projected DEF TypeOK
      <3>6. q \in Int /\ z \in Int
            /\ Magnitude(p) = (IF p < 0 THEN -p ELSE p)
            /\ Magnitude(q) = (IF q < 0 THEN -q ELSE q)
            /\ Magnitude(z) = (IF z < 0 THEN -z ELSE z)
        BY <3>4, <3>5, MagnitudeIs
      <3>7. \/ Le(Magnitude(q), t)
            \/ Magnitude(q) < Magnitude(p) /\ ~(p * q < 0)
        BY <3>2, <3>5, <3>6, PositionLimitIs
      <3>8. t \in Optional(Numeric)
        <4>1. t \in LimitType["POSITION_LIMIT"]
          BY <3>1, DecisionAssumption DEF TypeOK
        <4>2. QED BY <3>1, <4>1 DEF LimitType, ALWAYS_ON, Optional
      <3>9. Magnitude(z) > Magnitude(p) \/ p * z < 0
        OBVIOUS
      <3> HIDE DEF t, p, q, z
      <3>10. CASE Magnitude(q) < Magnitude(p) /\ ~(p * q < 0)
        <4>1. ~(p < 0 /\ 0 < q) /\ ~(0 < p /\ q < 0)
          BY <3>5, <3>6, <3>10, ProductSign
        <4>2. (p < 0 /\ 0 < z) \/ (0 < p /\ z < 0) \/ Magnitude(z) > Magnitude(p)
          BY <3>5, <3>6, <3>9, ProductSign
        <4>3. FALSE
          BY <3>4, <3>5, <3>6, <3>10, <4>1, <4>2
        <4>4. QED BY <4>3
      <3>11. CASE Le(Magnitude(q), t)
        <4>1. t # NaN /\ Magnitude(q) <= t /\ t # None
          BY <3>1, <3>11 DEF Le, Number, Runs, Armed
        <4>2. t \in Int
          BY <3>8, <4>1 DEF Optional, Numeric
        <4>3. (p < 0 /\ 0 < z) \/ (0 < p /\ z < 0) \/ Magnitude(z) > Magnitude(p)
          BY <3>5, <3>6, <3>9, ProductSign
        <4>4. Magnitude(z) <= Magnitude(q)
          BY <3>4, <3>5, <3>6, <4>3
        <4>5. Magnitude(z) <= t
          BY <3>6, <4>1, <4>2, <4>4
        <4>6. QED BY <4>5 DEF t, z
      <3>12. QED BY <3>7, <3>10, <3>11
    <2>3. QED BY <2>1, <2>2 DEF Next, Disable, Enable, Recalibrate, FigureMoves
  <1>2. QED BY <1>1, DeskTypeCorrect, PTL DEF Spec, RiskOnlyWithinLimit

-------------------------------------------------------------------------------
(* What a verdict depends on *)

\* An order that is not admitted is refused by the first control that objects.
LEMMA FirstObjects ==
    ASSUME NEW lim, NEW off, NEW f, NEW r, ~Admits(lim, off, f, r)
    PROVE  \E i \in 1 .. 24 :
              /\ Outcome(ControlSequence[i], lim, off, f, r) # None
              /\ \A j \in 1 .. 24 : Outcome(ControlSequence[j], lim, off, f, r) # None => i <= j
              /\ Evaluate(lim, off, f, r) =
                     [control |-> ControlSequence[i],
                      code |-> Outcome(ControlSequence[i], lim, off, f, r)]
  <1> DEFINE F == {i \in DOMAIN ControlSequence :
                       Outcome(ControlSequence[i], lim, off, f, r) # None}
             first == CHOOSE i \in F : \A j \in F : i <= j
             R == {ss \in Nat \X Nat : ss[1] < ss[2]}
  <1>1. F \subseteq Nat /\ F # {} /\ DOMAIN ControlSequence = 1 .. 24
    BY Names DEF Admits, ControlId
  <1>2. Evaluate(lim, off, f, r) =
            [control |-> ControlSequence[first],
             code |-> Outcome(ControlSequence[first], lim, off, f, r)]
    BY DEF Evaluate
  <1>3. \E i \in F : \A j \in F : i <= j
    <2>1. IsWellFoundedOn(R, Nat)
      BY NatLessThanWellFounded DEF OpToRel
    <2> HIDE DEF F, R
    <2>2. PICK i \in F : \A j \in F : ~(<<j, i>> \in R)
      BY <1>1, <2>1, WFMin
    <2>3. ASSUME NEW j \in F PROVE i <= j
      <3>1. i \in Nat /\ j \in Nat
        BY <1>1
      <3>2. j < i => <<j, i>> \in R
        BY <3>1 DEF R
      <3>3. QED BY <2>2, <3>1, <3>2
    <2>4. QED BY <2>3
  <1>4. first \in F /\ \A j \in F : first <= j
    BY <1>3
  <1> HIDE DEF first
  <1>5. QED BY <1>1, <1>2, <1>4

\* The control a verdict names is one that objects.
LEMMA Decider ==
    ASSUME NEW lim, NEW off, NEW f, NEW r, NEW c, c # None,
           Evaluate(lim, off, f, r).control = c
    PROVE  Outcome(c, lim, off, f, r) # None
  <1>1. CASE Admits(lim, off, f, r)
    BY <1>1 DEF Evaluate, Accepted
  <1>2. CASE ~Admits(lim, off, f, r)
    <2>1. PICK i \in 1 .. 24 :
              /\ Outcome(ControlSequence[i], lim, off, f, r) # None
              /\ Evaluate(lim, off, f, r) =
                     [control |-> ControlSequence[i],
                      code |-> Outcome(ControlSequence[i], lim, off, f, r)]
      BY <1>2, FirstObjects
    <2>2. ControlSequence[i] = c
      BY <2>1
    <2>3. QED BY <2>1, <2>2
  <1>3. QED BY <1>1, <1>2

\* Two verdicts that differ do so because of a control that decides one of them,
\* and of which the outcomes differ.
LEMMA FirstDifference ==
    ASSUME NEW lim, NEW off, NEW f, NEW g, NEW r,
           Evaluate(lim, off, f, r) # Evaluate(lim, off, g, r)
    PROVE  \E c \in ControlId :
              /\ Outcome(c, lim, off, f, r) # Outcome(c, lim, off, g, r)
              /\ \/ /\ Outcome(c, lim, off, f, r) # None
                    /\ Evaluate(lim, off, f, r).control = c
                 \/ /\ Outcome(c, lim, off, g, r) # None
                    /\ Evaluate(lim, off, g, r).control = c
  <1> DEFINE cs == ControlSequence
             F(i) == Outcome(cs[i], lim, off, f, r)
             G(i) == Outcome(cs[i], lim, off, g, r)
             Differs(i) == /\ F(i) # G(i)
                           /\ \/ F(i) # None /\ Evaluate(lim, off, f, r).control = cs[i]
                              \/ G(i) # None /\ Evaluate(lim, off, g, r).control = cs[i]
  <1>1. \A i \in 1 .. 24 : cs[i] \in ControlId
    BY Names DEF ControlId
  <1>2. (\E i \in 1 .. 24 : /\ F(i) # None /\ \A j \in 1 .. 24 : F(j) # None => i <= j
                            /\ Evaluate(lim, off, f, r) = [control |-> cs[i], code |-> F(i)])
        \/ Admits(lim, off, f, r)
    BY FirstObjects
  <1>3. (\E i \in 1 .. 24 : /\ G(i) # None /\ \A j \in 1 .. 24 : G(j) # None => i <= j
                            /\ Evaluate(lim, off, g, r) = [control |-> cs[i], code |-> G(i)])
        \/ Admits(lim, off, g, r)
    BY FirstObjects
  <1>4. /\ Admits(lim, off, f, r) => \A i \in 1 .. 24 : F(i) = None
        /\ Admits(lim, off, g, r) => \A i \in 1 .. 24 : G(i) = None
    BY <1>1 DEF Admits
  <1>5. /\ Admits(lim, off, f, r) => Evaluate(lim, off, f, r) = Accepted
        /\ Admits(lim, off, g, r) => Evaluate(lim, off, g, r) = Accepted
    BY DEF Evaluate
  <1>6. SUFFICES \E i \in 1 .. 24 : Differs(i)
    BY <1>1
  <1> HIDE DEF F, G, cs
  <1>7. CASE Admits(lim, off, f, r) /\ Admits(lim, off, g, r)
    BY <1>5, <1>7
  <1>8. CASE Admits(lim, off, f, r) /\ ~Admits(lim, off, g, r)
    BY <1>3, <1>4, <1>8
  <1>9. CASE ~Admits(lim, off, f, r) /\ Admits(lim, off, g, r)
    BY <1>2, <1>4, <1>9
  <1>10. CASE ~Admits(lim, off, f, r) /\ ~Admits(lim, off, g, r)
    <2>1. PICK i \in 1 .. 24 :
              /\ F(i) # None /\ \A j \in 1 .. 24 : F(j) # None => i <= j
              /\ Evaluate(lim, off, f, r) = [control |-> cs[i], code |-> F(i)]
      BY <1>2, <1>10
    <2>2. PICK k \in 1 .. 24 :
              /\ G(k) # None /\ \A j \in 1 .. 24 : G(j) # None => k <= j
              /\ Evaluate(lim, off, g, r) = [control |-> cs[k], code |-> G(k)]
      BY <1>3, <1>10
    <2>3. Evaluate(lim, off, f, r).control = cs[i] /\ Evaluate(lim, off, g, r).control = cs[k]
      BY <2>1, <2>2
    <2>4. CASE i < k
      <3>1. G(i) = None
        BY <2>2, <2>4
      <3>2. QED BY <2>1, <2>3, <3>1
    <2>5. CASE k < i
      <3>1. F(k) = None
        BY <2>1, <2>5
      <3>2. QED BY <2>2, <2>3, <3>1
    <2>6. CASE i = k
      <3>1. F(i) # G(i)
        BY <2>1, <2>2, <2>6
      <3>2. QED BY <2>1, <2>3, <3>1
    <2>7. QED BY <2>4, <2>5, <2>6
  <1>11. QED BY <1>7, <1>8, <1>9, <1>10

\* What a control makes of an order depends on no figure but these.
LEMMA FiguresRead ==
    ASSUME NEW f, NEW g, NEW r, NEW t, NEW c \in ControlId,
           /\ f.kill_switch_engaged = g.kill_switch_engaged /\ f.is_live = g.is_live
           /\ f.bypass_active = g.bypass_active
           /\ Leg(f, "live_pnl", "simulated_pnl") = Leg(g, "live_pnl", "simulated_pnl")
           /\ Leg(f, "live_peak", "simulated_peak") = Leg(g, "live_peak", "simulated_peak")
           /\ f.seen = g.seen /\ f.sent = g.sent /\ f.rejects = g.rejects
           /\ f.executions = g.executions /\ f.daily_notional = g.daily_notional
    PROVE  Check(c, t, f, r) = Check(c, t, g, r)
  <1>1. /\ KillSwitch(f) = KillSwitch(g) /\ LossLimit(t, f) = LossLimit(t, g)
        /\ Duplicate(f, r) = Duplicate(g, r) /\ OrderRate(t, f) = OrderRate(t, g)
        /\ ConsecutiveRejects(t, f) = ConsecutiveRejects(t, g)
        /\ RepeatedExecution(t, f) = RepeatedExecution(t, g)
        /\ DailyNotional(t, f, r) = DailyNotional(t, g, r)
    BY DEF KillSwitch, LossLimit, Breached, Floor, Duplicate, OrderRate, ConsecutiveRejects,
           RepeatedExecution, DailyNotional
  <1>2. QED BY <1>1 DEF Check

\* Two kinds of states in which an order is judged alike, but for the controls
\* of which the threshold differs.
LEMMA SameOutcome ==
    ASSUME NEW f, NEW g, NEW r, NEW c \in ControlId, NEW lim, NEW off,
           Threshold(c, lim, f) = Threshold(c, lim, g),
           \A t : Check(c, t, f, r) = Check(c, t, g, r)
    PROVE  Outcome(c, lim, off, f, r) = Outcome(c, lim, off, g, r)
  BY DEF Outcome, Runs, Armed

\* No decision depends on the leg the engine does not trade.
THEOREM LegsStayIndependent == Spec => LegsIndependent
  <1> DEFINE others == Figure \ IF figures.is_live THEN {"simulated_pnl", "simulated_peak"}
                                                  ELSE {"live_pnl", "live_peak"}
             Step == (/\ UNCHANGED <<limits, disabled, position>>
                      /\ \A x \in others : figures'[x] = figures[x])
                     => \A r \in Orders :
                          Evaluate(limits, disabled, figures', InContext(r)) = Decide(InContext(r))
  <1>1. Step
    <2> SUFFICES ASSUME \A x \in others : figures'[x] = figures[x], NEW r \in Orders
                 PROVE  Evaluate(limits, disabled, figures', InContext(r)) = Decide(InContext(r))
      OBVIOUS
    <2> DEFINE f == figures'
               g == figures
    <2>1. /\ f.kill_switch_engaged = g.kill_switch_engaged /\ f.is_live = g.is_live
          /\ f.bypass_active = g.bypass_active
          /\ f.runtime_max_order_quantity = g.runtime_max_order_quantity
          /\ f.runtime_max_order_notional = g.runtime_max_order_notional
          /\ f.seen = g.seen /\ f.sent = g.sent /\ f.rejects = g.rejects
          /\ f.executions = g.executions /\ f.daily_notional = g.daily_notional
      BY DEF Figure
    <2>2. /\ Leg(f, "live_pnl", "simulated_pnl") = Leg(g, "live_pnl", "simulated_pnl")
          /\ Leg(f, "live_peak", "simulated_peak") = Leg(g, "live_peak", "simulated_peak")
      BY <2>1 DEF Figure, Leg
    <2> HIDE DEF f, g
    <2>3. \A c \in ControlId : \A t : Check(c, t, f, InContext(r)) = Check(c, t, g, InContext(r))
      BY <2>1, <2>2, FiguresRead
    <2>4. \A c \in ControlId : Threshold(c, limits, f) = Threshold(c, limits, g)
      BY <2>1 DEF Threshold
    <2>5. \A c \in ControlId : Outcome(c, limits, disabled, f, InContext(r))
                                   = Outcome(c, limits, disabled, g, InContext(r))
      BY <2>3, <2>4, SameOutcome
    <2>6. Evaluate(limits, disabled, f, InContext(r)) = Evaluate(limits, disabled, g, InContext(r))
      BY <2>5, FirstDifference
    <2>7. QED BY <2>6 DEF f, g, Decide
  <1>2. QED BY <1>1, PTL DEF LegsIndependent

\* What the two size controls answer: nothing, or a code that does not depend on
\* the threshold.
LEMMA SizeAnswers ==
    ASSUME NEW c \in SizeControls, NEW t, NEW u, NEW f, NEW g, NEW r, t # None, u # None
    PROVE  /\ Check(c, t, f, r) = None \/ Check(c, u, g, r) = None
              \/ Check(c, t, f, r) = Check(c, u, g, r)
           /\ Fits(c, t, r) <=> Check(c, t, f, r) = None
  BY DEF SizeControls, Check, Fits, MaxQuantity, MaxNotional, IfKnown, Unless

\* A runtime cap replaces the configured limit, tighter or looser, and touches no
\* other control: for every limit set, cap and order
\* (effective_max_order_quantity, effective_max_order_notional).
THEOREM OverridesReplaceLimits == Spec => []OverrideReplacesLimit
  <1>1. TypeOK => OverrideReplacesLimit
    <2> DEFINE f == figures
               g == Uncapped
    <2> SUFFICES ASSUME TypeOK, NEW r \in Orders
                 PROVE  LET order == InContext(r)
                            under == Evaluate(limits, disabled, f, order)
                            without == Evaluate(limits, disabled, g, order)
                        IN (under # without) <=>
                             \E c \in SizeControls :
                                \/ under.control = c /\ Fits(c, limits[c], order)
                                \/ without.control = c /\ Cap(c) # None /\ Fits(c, Cap(c), order)
      BY DEF OverrideReplacesLimit, Decide
    <2> DEFINE order == InContext(r)
               F(c) == Outcome(c, limits, disabled, f, order)
               G(c) == Outcome(c, limits, disabled, g, order)
               under == Evaluate(limits, disabled, f, order)
               without == Evaluate(limits, disabled, g, order)
    <2>1. /\ f.kill_switch_engaged = g.kill_switch_engaged /\ f.is_live = g.is_live
          /\ f.bypass_active = g.bypass_active
          /\ f.live_pnl = g.live_pnl /\ f.simulated_pnl = g.simulated_pnl
          /\ f.live_peak = g.live_peak /\ f.simulated_peak = g.simulated_peak
          /\ f.seen = g.seen /\ f.sent = g.sent /\ f.rejects = g.rejects
          /\ f.executions = g.executions /\ f.daily_notional = g.daily_notional
      BY DEF Uncapped, Figure
    <2>2. \A c \in ControlId : Threshold(c, limits, g) = limits[c]
      BY DEF Threshold, Uncapped, Figure
    <2>3. /\ \A c \in SizeControls :
                Threshold(c, limits, f) = IF Cap(c) # None THEN Cap(c) ELSE limits[c]
          /\ \A c \in ControlId \ SizeControls : Threshold(c, limits, f) = limits[c]
          /\ SizeControls \subseteq ControlId /\ \A c \in SizeControls : c # None
      <3>1. SizeControls \subseteq ControlId /\ \A c \in SizeControls : c # None
        BY Names, NoneAndNaN DEF SizeControls
      <3>2. QED BY <3>1 DEF Threshold, Cap, SizeControls
    <2> HIDE DEF f, g, order
    <2>4. /\ Leg(f, "live_pnl", "simulated_pnl") = Leg(g, "live_pnl", "simulated_pnl")
          /\ Leg(f, "live_peak", "simulated_peak") = Leg(g, "live_peak", "simulated_peak")
      BY <2>1 DEF Leg
    <2>5. \A c \in ControlId : \A t : Check(c, t, f, order) = Check(c, t, g, order)
      BY <2>1, <2>4, FiguresRead
    <2>6. \A c \in ControlId \ SizeControls : F(c) = G(c)
      BY <2>2, <2>3, <2>5, SameOutcome
    <2>7. \A c \in SizeControls : F(c) # None /\ F(c) # G(c) => Fits(c, limits[c], order)
      <3> SUFFICES ASSUME NEW c \in SizeControls, F(c) # None, F(c) # G(c), limits[c] # None
                   PROVE  Fits(c, limits[c], order)
        BY DEF Fits
      <3>1. /\ ~IsDisabled(c, disabled) /\ Threshold(c, limits, f) # None
            /\ F(c) = Check(c, Threshold(c, limits, f), f, order)
        BY DEF Outcome, Runs, Armed
      <3>2. G(c) = Check(c, limits[c], g, order)
        BY <2>2, <2>3, <3>1 DEF Outcome, Runs, Armed
      <3>3. QED BY <3>1, <3>2, SizeAnswers
    <2>8. \A c \in SizeControls :
              G(c) # None /\ F(c) # G(c) => Cap(c) # None /\ Fits(c, Cap(c), order)
      <3> SUFFICES ASSUME NEW c \in SizeControls, G(c) # None, F(c) # G(c)
                   PROVE  Cap(c) # None /\ Fits(c, Cap(c), order)
        OBVIOUS
      <3>1. /\ ~IsDisabled(c, disabled) /\ limits[c] # None
            /\ G(c) = Check(c, limits[c], g, order)
        BY <2>2, <2>3 DEF Outcome, Runs, Armed
      <3>2. F(c) = Check(c, Threshold(c, limits, f), f, order)
        BY <2>3, <3>1 DEF Outcome, Runs, Armed
      <3>3. Cap(c) # None
        BY <2>3, <2>5, <3>1, <3>2
      <3>4. Threshold(c, limits, f) = Cap(c)
        BY <2>3, <3>3
      <3>5. QED BY <3>1, <3>2, <3>3, <3>4, SizeAnswers
    <2>9. ASSUME under # without
          PROVE  \E c \in SizeControls :
                    \/ under.control = c /\ Fits(c, limits[c], order)
                    \/ without.control = c /\ Cap(c) # None /\ Fits(c, Cap(c), order)
      <3>1. PICK c \in ControlId : /\ F(c) # G(c)
                                   /\ \/ F(c) # None /\ under.control = c
                                      \/ G(c) # None /\ without.control = c
        BY <2>9, FirstDifference
      <3>2. c \in SizeControls
        BY <2>6, <3>1
      <3>3. QED BY <2>7, <2>8, <3>1, <3>2
    <2>10. ASSUME NEW c \in SizeControls, under.control = c, Fits(c, limits[c], order)
           PROVE  without.control # c
      <3>1. G(c) = None
        BY <2>2, <2>3, <2>10, SizeAnswers DEF Outcome, Runs, Armed
      <3>2. QED BY <2>3, <3>1, Decider
    <2>11. ASSUME NEW c \in SizeControls, without.control = c, Cap(c) # None,
                  Fits(c, Cap(c), order)
           PROVE  under.control # c
      <3>1. F(c) = None
        BY <2>3, <2>11, SizeAnswers DEF Outcome, Runs, Armed
      <3>2. QED BY <2>3, <3>1, Decider
    <2>12. QED BY <2>9, <2>10, <2>11 DEF order
  <1>2. QED BY <1>1, DeskTypeCorrect, PTL

-------------------------------------------------------------------------------
(* Risk is monotone *)

\* The thresholds of a limit set are of their types.
LEMMA ThresholdTypes ==
    ASSUME NEW lim, NEW f, NEW c \in ControlId, lim[c] \in LimitType[c],
           f.runtime_max_order_quantity \in Optional(Numeric),
           f.runtime_max_order_notional \in Optional(Numeric)
    PROVE  LET t == Threshold(c, lim, f)
           IN /\ c \in {"QUOTE_AGE", "ORDER_RATE", "CONSECUTIVE_REJECTS", "REPEATED_EXECUTION",
                        "WORKING_ORDERS", "OPEN_POSITIONS"} => t \in Optional(Int)
              /\ c \in {"DAILY_LOSS_LIMIT", "MAX_ORDER_QUANTITY", "MAX_ORDER_NOTIONAL",
                        "PRICE_BAND", "EXECUTION_SLIPPAGE", "POSITION_LIMIT",
                        "GROSS_EXPOSURE", "DAILY_NOTIONAL_LIMIT"} => t \in Optional(Numeric)
  <1>1. CASE c \in {"QUOTE_AGE", "ORDER_RATE", "CONSECUTIVE_REJECTS", "REPEATED_EXECUTION",
                    "WORKING_ORDERS", "OPEN_POSITIONS"}
    <2>1. Threshold(c, lim, f) = lim[c]
      BY <1>1 DEF Threshold
    <2>2. LimitType[c] \subseteq Optional(Int)
      BY <1>1 DEF LimitType, Optional, ALWAYS_ON
    <2>3. QED BY <1>1, <2>1, <2>2
  <1>2. CASE c \in {"DAILY_LOSS_LIMIT", "MAX_ORDER_QUANTITY", "MAX_ORDER_NOTIONAL",
                    "PRICE_BAND", "EXECUTION_SLIPPAGE", "POSITION_LIMIT",
                    "GROSS_EXPOSURE", "DAILY_NOTIONAL_LIMIT"}
    <2>1. LimitType[c] \subseteq Optional(Numeric)
      BY <1>2 DEF LimitType, Optional, ALWAYS_ON
    <2>2. Threshold(c, lim, f) \in Optional(Numeric)
      BY <1>2, <2>1 DEF Threshold
    <2>3. QED BY <1>2, <2>2
  <1>3. QED BY <1>1, <1>2

\* A comparison that holds of the tighter bound holds of the looser one.
LEMMA LeTransitive ==
    ASSUME NEW x \in Numeric, NEW t \in Numeric, NEW u \in Numeric, Le(x, t), Le(t, u)
    PROVE  Le(x, u)
  BY DEF Le, Number, Numeric

\* The figures of the engine, as the types of FigureType.
LEMMA FigureTypes ==
    ASSUME NEW f, \A x \in Figure : f[x] \in FigureType[x]
    PROVE  /\ f.sent \in Int /\ f.rejects \in Int /\ f.executions \in Int
           /\ f.live_pnl \in Numeric /\ f.simulated_pnl \in Numeric
           /\ f.live_peak \in Numeric /\ f.simulated_peak \in Numeric
           /\ f.daily_notional \in Numeric
           /\ f.runtime_max_order_quantity \in Optional(Numeric)
           /\ f.runtime_max_order_notional \in Optional(Numeric)
           /\ f.is_live \in BOOLEAN
  BY DEF Figure, FigureType

\* Arithmetic stays within the floats.
LEMMA Closed ==
    ASSUME NEW x \in Numeric, NEW y \in Numeric
    PROVE  /\ Plus(x, y) \in Numeric /\ Minus(x, y) \in Numeric /\ Times(x, y) \in Numeric
           /\ Magnitude(x) \in Numeric
  <1>1. Plus(x, y) \in Numeric
    BY DEF Plus, Number, Numeric
  <1>2. Minus(x, y) \in Numeric
    BY DEF Minus, Number, Numeric
  <1>3. Times(x, y) \in Numeric
    BY DEF Times, Number, Numeric
  <1>4. Magnitude(x) \in Numeric
    BY DEF Magnitude, Lt, Number, Numeric
  <1>5. QED BY <1>1, <1>2, <1>3, <1>4

\* A threshold that is no looser, of a limit that is a float ...
LEMMA TighterFloat ==
    ASSUME NEW c \in {"DAILY_LOSS_LIMIT", "MAX_ORDER_QUANTITY", "MAX_ORDER_NOTIONAL",
                      "PRICE_BAND", "EXECUTION_SLIPPAGE", "POSITION_LIMIT",
                      "GROSS_EXPOSURE", "DAILY_NOTIONAL_LIMIT", "QUOTE_AGE"},
           NEW t \in Numeric, NEW u \in Numeric, NoLooser(c, t, u), NEW x \in Numeric, Le(x, t)
    PROVE  Le(x, u)
  <1>1. t = u \/ Le(t, u)
    BY NoneAndNaN DEF NoLooser, Numeric
  <1>2. QED BY <1>1, LeTransitive

\* ... and of one that is a count.
LEMMA TighterCount ==
    ASSUME NEW c \in {"ORDER_RATE", "CONSECUTIVE_REJECTS", "REPEATED_EXECUTION",
                      "WORKING_ORDERS", "OPEN_POSITIONS"},
           NEW t \in Int, NEW u \in Int, NoLooser(c, t, u)
    PROVE  t <= u
  BY NoneAndNaN DEF NoLooser, Le

\* A loss limit that is no looser, over a leg that is no better, is breached no
\* later (_breached).
LEMMA LossMonotone ==
    ASSUME NEW f, NEW g, \A x \in Figure : f[x] \in FigureType[x],
           \A x \in Figure : g[x] \in FigureType[x], NoBetter(f, g),
           NEW t \in Numeric, NEW u \in Numeric, NoLooser("DAILY_LOSS_LIMIT", t, u),
           Breached(u, g)
    PROVE  Breached(t, f)
  <1> DEFINE a == Leg(f, "live_pnl", "simulated_pnl")
             b == Leg(g, "live_pnl", "simulated_pnl")
             p == Leg(f, "live_peak", "simulated_peak")
             q == Leg(g, "live_peak", "simulated_peak")
  <1>1. Le(a, b) /\ Le(q, p) /\ a \in Numeric /\ b \in Numeric /\ p \in Numeric /\ q \in Numeric
    BY FigureTypes DEF NoBetter, Leg
  <1>2. ~f.bypass_active /\ Le(b, Minus(q, u))
    BY DEF Breached, Floor, NoBetter
  <1>3. t = u \/ Le(t, u)
    BY NoneAndNaN DEF NoLooser, Numeric
  <1> HIDE DEF a, b, p, q
  <1>4. /\ a \in Int /\ b \in Int /\ p \in Int /\ q \in Int
        /\ u # NaN /\ u \in Int
    BY <1>1, <1>2 DEF Le, Minus, Number, Numeric
  <1>5. t \in Int /\ t <= u
    BY <1>3, <1>4 DEF Le, Number, Numeric
  <1>6. a <= b /\ q <= p /\ b <= q - u
    BY <1>1, <1>2, <1>4, NoneAndNaN DEF Le, Minus, Number
  <1>7. a <= p - t
    BY <1>4, <1>5, <1>6
  <1>8. Le(a, Minus(p, t))
    BY <1>4, <1>5, <1>7, NoneAndNaN DEF Le, Minus, Number
  <1>9. QED BY <1>2, <1>8 DEF Breached, Floor, a, p

\* An order the tighter price band lets through passes the looser one.
LEMMA BandMonotone ==
    ASSUME NEW r \in OrderRequest, NEW t \in Numeric, NEW u \in Numeric,
           NoLooser("PRICE_BAND", t, u), PriceBand(t, r) = None
    PROVE  PriceBand(u, r) = None
  <1> DEFINE w == TwiceReference(r)
             d == Times(100, Magnitude(Minus(Times(2, r.limit_price), w)))
  <1>1. CASE r.limit_price = None
    BY <1>1 DEF PriceBand
  <1>2. CASE r.limit_price # None
    <2>1. w # None /\ ~Le(w, 0) /\ Le(d, Times(t, w))
      BY <1>2, UnknownObjects DEF PriceBand, RejectCode
    <2>2. w \in Numeric
      <3>1. w \in Optional(Numeric)
        BY RequestFields, Closed DEF TwiceReference, Optional, Numeric
      <3>2. QED BY <2>1, <3>1 DEF Optional
    <2>3. d \in Numeric
      <3>1. r.limit_price \in Numeric /\ 2 \in Numeric /\ 100 \in Numeric
        BY <1>2, RequestFields DEF Optional, Numeric
      <3>2. Times(2, r.limit_price) \in Numeric
        BY <3>1, Closed
      <3>3. Magnitude(Minus(Times(2, r.limit_price), w)) \in Numeric
        BY <2>2, <3>2, Closed
      <3>4. QED BY <3>1, <3>3, Closed
    <2> HIDE DEF w, d
    <2>4. w \in Int /\ t \in Int /\ d \in Int
      BY <2>1, <2>2, <2>3 DEF Le, Times, Number, Numeric
    <2>5. w > 0
      BY <2>1, <2>4, NoneAndNaN DEF Le, Number
    <2>6. u \in Int /\ t <= u
      <3>1. t = u \/ Le(t, u)
        BY NoneAndNaN DEF NoLooser, Numeric
      <3>2. QED BY <2>4, <3>1 DEF Le, Number, Numeric
    <2>7. Times(t, w) = t * w /\ Times(u, w) = u * w
      BY <2>4, <2>6, NumberArithmetic
    <2>8. d <= t * w
      BY <2>1, <2>7 DEF Le
    <2>9. t * w <= u * w
      BY <2>4, <2>5, <2>6
    <2>10. u * w \in Int /\ d <= u * w
      BY <2>4, <2>6, <2>8, <2>9
    <2>11. Le(d, Times(u, w))
      BY <2>4, <2>7, <2>10, NoneAndNaN DEF Le, Number
    <2>12. QED BY <1>2, <2>1, <2>11 DEF PriceBand, IfKnown, Unless, w, d
  <1>3. QED BY <1>1, <1>2

\* What the desk's float limits bound.
LEMMA FloatMonotone ==
    ASSUME NEW r \in OrderRequest, NEW f, NEW g, NoBetter(f, g),
           f.daily_notional \in Numeric, g.daily_notional \in Numeric,
           NEW c \in {"MAX_ORDER_QUANTITY", "MAX_ORDER_NOTIONAL", "QUOTE_AGE",
                      "EXECUTION_SLIPPAGE", "POSITION_LIMIT", "GROSS_EXPOSURE",
                      "DAILY_NOTIONAL_LIMIT"},
           NEW t \in Numeric, NEW u \in Numeric, NoLooser(c, t, u),
           Check(c, t, f, r) = None
    PROVE  Check(c, u, g, r) = None
  <1>0. \A x \in Numeric : Le(x, t) => Le(x, u)
    BY TighterFloat
  <1>q. r.quantity \in Numeric /\ r.position_quantity \in Numeric
        /\ r.gross_exposure_usd \in Numeric
    BY RequestFields
  <1>n. Priced(r) => Notional(r) \in Numeric /\ Magnitude(Notional(r)) \in Numeric
    <2>1. Priced(r) => ValuationPrice(r) \in Numeric
      BY RequestFields DEF Priced, Optional
    <2>2. QED BY <1>q, <2>1, Closed DEF Notional
  <1>1. CASE c = "MAX_ORDER_QUANTITY"
    <2>1. MaxQuantity(t, r) = None
      BY <1>1 DEF Check
    <2>2. Le(r.quantity, t)
      BY <2>1, NoneAndNaN DEF MaxQuantity, Unless, RejectCode
    <2>3. MaxQuantity(u, r) = None
      BY <1>0, <1>q, <2>2 DEF MaxQuantity, Unless
    <2>4. QED BY <1>1, <2>3 DEF Check
  <1>2. CASE c = "MAX_ORDER_NOTIONAL"
    <2>1. MaxNotional(t, r) = None
      BY <1>2 DEF Check
    <2>2. Priced(r) /\ Le(Notional(r), t)
      BY <2>1, UnknownObjects DEF MaxNotional, RejectCode
    <2>3. MaxNotional(u, r) = None
      BY <1>0, <1>n, <2>2 DEF MaxNotional, IfKnown, Unless
    <2>4. QED BY <1>2, <2>3 DEF Check
  <1>3. CASE c = "QUOTE_AGE"
    <2>1. QuoteAge(t, r) = None
      BY <1>3 DEF Check
    <2>2. r.quote_age_millis # None /\ Le(r.quote_age_millis, t)
      BY <2>1, UnknownObjects DEF QuoteAge, RejectCode
    <2>3. r.quote_age_millis \in Numeric
      BY <2>2, RequestFields DEF Optional
    <2>4. QuoteAge(u, r) = None
      BY <1>0, <2>2, <2>3 DEF QuoteAge, IfKnown, Unless
    <2>5. QED BY <1>3, <2>4 DEF Check
  <1>4. CASE c = "EXECUTION_SLIPPAGE"
    <2> DEFINE x == IF IsSell(r) THEN Minus(r.decision_price, FarTouch(r))
                                 ELSE Minus(FarTouch(r), r.decision_price)
    <2>1. ExecutionSlippage(t, r) = None
      BY <1>4 DEF Check
    <2>2. r.decision_price # None /\ FarTouch(r) # None /\ Le(x, t)
      BY <2>1, UnknownObjects DEF ExecutionSlippage, RejectCode
    <2>3. x \in Numeric
      <3>1. r.decision_price \in Numeric /\ FarTouch(r) \in Numeric
        BY <2>2, RequestFields DEF Optional
      <3>2. QED BY <3>1, Closed
    <2>4. ExecutionSlippage(u, r) = None
      BY <1>0, <2>2, <2>3 DEF ExecutionSlippage, IfKnown, Unless
    <2>5. QED BY <1>4, <2>4 DEF Check
  <1>5. CASE c = "POSITION_LIMIT"
    <2>1. PositionLimit(t, r) = None
      BY <1>5 DEF Check
    <2>2. Magnitude(ProjectedPosition(r)) \in Numeric
      <3>1. ProjectedPosition(r) \in Numeric
        BY <1>q, Closed DEF ProjectedPosition
      <3>2. QED BY <3>1, Closed
    <2>3. Le(Magnitude(ProjectedPosition(r)), t) => Le(Magnitude(ProjectedPosition(r)), u)
      BY <1>0, <2>2
    <2>4. PositionLimit(u, r) = None
      BY <2>1, <2>3, NoneAndNaN DEF PositionLimit, Unless, RejectCode
    <2>5. QED BY <1>5, <2>4 DEF Check
  <1>6. CASE c = "GROSS_EXPOSURE"
    <2> DEFINE x == Plus(r.gross_exposure_usd, Magnitude(Notional(r)))
    <2>1. GrossExposure(t, r) = None
      BY <1>6 DEF Check
    <2>2. Priced(r) /\ Le(x, t)
      BY <2>1, UnknownObjects DEF GrossExposure, RejectCode
    <2>3. x \in Numeric
      BY <1>n, <1>q, <2>2, Closed
    <2>4. GrossExposure(u, r) = None
      BY <1>0, <2>2, <2>3 DEF GrossExposure, IfKnown, Unless
    <2>5. QED BY <1>6, <2>4 DEF Check
  <1>7. CASE c = "DAILY_NOTIONAL_LIMIT"
    <2> DEFINE m == Magnitude(Notional(r))
               x == Plus(f.daily_notional, m)
               y == Plus(g.daily_notional, m)
    <2>1. DailyNotional(t, f, r) = None
      BY <1>7 DEF Check
    <2>2. Priced(r) /\ Le(x, t)
      BY <2>1, UnknownObjects DEF DailyNotional, RejectCode
    <2>3. m \in Numeric /\ x \in Numeric /\ y \in Numeric
      BY <1>n, <2>2, Closed
    <2>4. Le(g.daily_notional, f.daily_notional)
      BY DEF NoBetter
    <2>5. Le(y, x)
      <3> HIDE DEF m
      <3>1. Number(m)
        BY <2>2, NaNSpreads DEF Number
      <3>2. m \in Int /\ f.daily_notional \in Int /\ g.daily_notional \in Int
            /\ g.daily_notional <= f.daily_notional
        BY <2>3, <2>4, <3>1 DEF Le, Number, Numeric
      <3>3. QED BY <3>2, NoneAndNaN DEF Le, Number, Plus
    <2> HIDE DEF m, x, y
    <2>6. Le(x, u)
      BY <1>0, <2>2, <2>3
    <2>7. Le(y, u)
      BY <2>3, <2>5, <2>6, LeTransitive
    <2>8. DailyNotional(u, g, r) = None
      BY <2>2, <2>7 DEF DailyNotional, IfKnown, Unless, y, m
    <2>9. QED BY <1>7, <2>8 DEF Check
  <1>8. QED BY <1>1, <1>2, <1>3, <1>4, <1>5, <1>6, <1>7

\* What the desk's counts bound, and what its sets of instruments and phases
\* allow.
LEMMA CountMonotone ==
    ASSUME NEW r \in OrderRequest, NEW f, NEW g, NoBetter(f, g),
           f.sent \in Int, f.rejects \in Int, f.executions \in Int,
           g.sent \in Int, g.rejects \in Int, g.executions \in Int,
           NEW c \in {"ORDER_RATE", "CONSECUTIVE_REJECTS", "REPEATED_EXECUTION",
                      "WORKING_ORDERS", "OPEN_POSITIONS"},
           NEW t \in Int, NEW u \in Int, NoLooser(c, t, u),
           Check(c, t, f, r) = None
    PROVE  Check(c, u, g, r) = None
  <1>0. t <= u
    BY TighterCount
  <1>1. g.sent <= f.sent /\ g.rejects <= f.rejects /\ g.executions <= f.executions
    BY DEF NoBetter, Le
  <1>2. r.working_orders \in Int /\ r.open_positions \in Int
    BY RequestFields
  <1>3. CASE c = "ORDER_RATE"
    <2>1. OrderRate(t, f) = None
      BY <1>3 DEF Check
    <2>2. f.sent < t
      BY <2>1, NoneAndNaN DEF OrderRate, Unless, RejectCode
    <2>3. g.sent < u
      BY <1>0, <1>1, <2>2
    <2>4. QED BY <1>3, <2>3 DEF Check, OrderRate, Unless
  <1>4. CASE c = "CONSECUTIVE_REJECTS"
    <2>1. ConsecutiveRejects(t, f) = None
      BY <1>4 DEF Check
    <2>2. f.rejects < t
      BY <2>1, NoneAndNaN DEF ConsecutiveRejects, Unless, RejectCode
    <2>3. g.rejects < u
      BY <1>0, <1>1, <2>2
    <2>4. QED BY <1>4, <2>3 DEF Check, ConsecutiveRejects, Unless
  <1>5. CASE c = "REPEATED_EXECUTION"
    <2>1. RepeatedExecution(t, f) = None
      BY <1>5 DEF Check
    <2>2. f.executions < t
      BY <2>1, NoneAndNaN DEF RepeatedExecution, Unless, RejectCode
    <2>3. g.executions < u
      BY <1>0, <1>1, <2>2
    <2>4. QED BY <1>5, <2>3 DEF Check, RepeatedExecution, Unless
  <1>6. CASE c = "WORKING_ORDERS"
    <2>1. WorkingOrders(t, r) = None
      BY <1>6 DEF Check
    <2>2. r.working_orders < t
      BY <2>1, NoneAndNaN DEF WorkingOrders, Unless, RejectCode
    <2>3. r.working_orders < u
      BY <1>0, <1>2, <2>2
    <2>4. QED BY <1>6, <2>3 DEF Check, WorkingOrders, Unless
  <1>7. CASE c = "OPEN_POSITIONS"
    <2>1. OpenPositions(t, r) = None
      BY <1>7 DEF Check
    <2>2. r.open_positions < t
      BY <2>1, NoneAndNaN DEF OpenPositions, Unless, RejectCode
    <2>3. r.open_positions < u
      BY <1>0, <1>2, <2>2
    <2>4. QED BY <1>7, <2>3 DEF Check, OpenPositions, Unless
  <1>8. QED BY <1>3, <1>4, <1>5, <1>6, <1>7

\* A control that passes an order under the tighter threshold and the worse
\* figures passes it under the looser and the better.
LEMMA ControlMonotone ==
    ASSUME NEW r \in OrderRequest, NEW f, NEW g, NoBetter(f, g),
           \A x \in Figure : f[x] \in FigureType[x], \A x \in Figure : g[x] \in FigureType[x],
           NEW lim, NEW old, NEW c \in ControlId,
           lim[c] \in LimitType[c], old[c] \in LimitType[c],
           NoLooser(c, lim[c], old[c]), Threshold(c, old, g) # None,
           Check(c, Threshold(c, lim, f), f, r) = None
    PROVE  /\ Threshold(c, lim, f) # None
           /\ Check(c, Threshold(c, old, g), g, r) = None
  <1> DEFINE t == Threshold(c, lim, f)
             u == Threshold(c, old, g)
  <1>t. t # None /\ NoLooser(c, t, u)
    BY DEF Threshold, NoLooser, NoBetter
  <1>f. /\ f.daily_notional \in Numeric /\ g.daily_notional \in Numeric
        /\ f.sent \in Int /\ f.rejects \in Int /\ f.executions \in Int
        /\ g.sent \in Int /\ g.rejects \in Int /\ g.executions \in Int
        /\ f.runtime_max_order_quantity \in Optional(Numeric)
        /\ f.runtime_max_order_notional \in Optional(Numeric)
        /\ g.runtime_max_order_quantity \in Optional(Numeric)
        /\ g.runtime_max_order_notional \in Optional(Numeric)
    BY FigureTypes
  <1>c. c \in {"QUOTE_AGE", "ORDER_RATE", "CONSECUTIVE_REJECTS", "REPEATED_EXECUTION",
               "WORKING_ORDERS", "OPEN_POSITIONS"} => t \in Int /\ u \in Int
    BY <1>f, <1>t, ThresholdTypes DEF Optional
  <1>d. c \in {"DAILY_LOSS_LIMIT", "MAX_ORDER_QUANTITY", "MAX_ORDER_NOTIONAL",
               "PRICE_BAND", "EXECUTION_SLIPPAGE", "POSITION_LIMIT",
               "GROSS_EXPOSURE", "DAILY_NOTIONAL_LIMIT"} => t \in Numeric /\ u \in Numeric
    BY <1>f, <1>t, ThresholdTypes DEF Optional
  <1>e. Check(c, t, f, r) = None /\ u # None
    OBVIOUS
  <1> HIDE DEF t, u
  <1>1. CASE c \in {"SHORT_SALE_LOCATE", "ORDER_QUANTITY", "ORDER_PRICE", "ORDER_NOTIONAL",
                    "SELF_MATCH_PREVENTION"}
    BY <1>1, <1>e, <1>t DEF Check, t, u
  <1>2. CASE c = "KILL_SWITCH"
    <2>1. KillSwitch(f) = None
      BY <1>2, <1>e DEF Check
    <2>2. ~f.kill_switch_engaged
      BY <2>1, NoneAndNaN DEF KillSwitch, Unless, RejectCode
    <2>3. KillSwitch(g) = None
      BY <2>2 DEF KillSwitch, Unless, NoBetter
    <2>4. Check(c, u, g, r) = None
      BY <1>2, <2>3 DEF Check
    <2>5. QED BY <1>t, <2>4 DEF t, u
  <1>3. CASE c = "DAILY_LOSS_LIMIT"
    <2>1. LossLimit(t, f) = None
      BY <1>3, <1>e DEF Check
    <2>2. ~Breached(t, f)
      BY <2>1, NoneAndNaN DEF LossLimit, Unless, RejectCode
    <2>3. ~Breached(u, g)
      BY <1>3, <1>d, <1>t, <2>2, LossMonotone
    <2>4. LossLimit(u, g) = None
      BY <2>3 DEF LossLimit, Unless
    <2>5. Check(c, u, g, r) = None
      BY <1>3, <2>4 DEF Check
    <2>6. QED BY <1>t, <2>5 DEF t, u
  <1>4. CASE c \in {"INSTRUMENT_UNIVERSE", "SESSION_STATE"}
    <2>1. t \subseteq u \/ t = u
      BY <1>4, <1>e, <1>t DEF NoLooser
    <2>2. CASE c = "INSTRUMENT_UNIVERSE"
      <3>1. r.symbol \in t
        BY <1>e, <2>2, NoneAndNaN DEF Check, InstrumentPermitted, Unless, RejectCode
      <3>2. Check(c, u, g, r) = None
        BY <2>1, <2>2, <3>1 DEF Check, InstrumentPermitted, Unless
      <3>3. QED BY <1>t, <3>2 DEF t, u
    <2>3. CASE c = "SESSION_STATE"
      <3>1. r.session_state \in t
        BY <1>e, <2>3, NoneAndNaN DEF Check, Session, Unless, RejectCode
      <3>2. Check(c, u, g, r) = None
        BY <2>1, <2>3, <3>1 DEF Check, Session, Unless
      <3>3. QED BY <1>t, <3>2 DEF t, u
    <2>4. QED BY <1>4, <2>2, <2>3
  <1>5. CASE c = "RESTRICTED_LIST"
    <2>1. u \subseteq t \/ t = u
      BY <1>5, <1>e, <1>t DEF NoLooser
    <2>2. r.symbol \notin t
      BY <1>e, <1>5, NoneAndNaN DEF Check, InstrumentRestricted, Unless, RejectCode
    <2>3. Check(c, u, g, r) = None
      BY <1>5, <2>1, <2>2 DEF Check, InstrumentRestricted, Unless
    <2>4. QED BY <1>t, <2>3 DEF t, u
  <1>6. CASE c = "PRICE_BAND"
    <2>1. PriceBand(t, r) = None
      BY <1>6, <1>e DEF Check
    <2>2. PriceBand(u, r) = None
      BY <1>6, <1>d, <1>t, <2>1, BandMonotone
    <2>3. Check(c, u, g, r) = None
      BY <1>6, <2>2 DEF Check
    <2>4. QED BY <1>t, <2>3 DEF t, u
  <1>7. CASE c = "DUPLICATE_ORDER"
    <2>1. Fingerprint(r) \notin f.seen
      BY <1>7, <1>e, NoneAndNaN DEF Check, Duplicate, Unless, RejectCode
    <2>2. Fingerprint(r) \notin g.seen
      BY <2>1 DEF NoBetter
    <2>3. Check(c, u, g, r) = None
      BY <1>7, <2>2 DEF Check, Duplicate, Unless
    <2>4. QED BY <1>t, <2>3 DEF t, u
  <1>8. CASE c \in {"ORDER_RATE", "CONSECUTIVE_REJECTS", "REPEATED_EXECUTION",
                    "WORKING_ORDERS", "OPEN_POSITIONS"}
    <2>1. Check(c, u, g, r) = None
      BY <1>8, <1>c, <1>e, <1>f, <1>t, CountMonotone
    <2>2. QED BY <1>t, <2>1 DEF t, u
  <1>9. CASE c \in {"MAX_ORDER_QUANTITY", "MAX_ORDER_NOTIONAL", "QUOTE_AGE",
                    "EXECUTION_SLIPPAGE", "POSITION_LIMIT", "GROSS_EXPOSURE",
                    "DAILY_NOTIONAL_LIMIT"}
    <2>1. t \in Numeric /\ u \in Numeric
      BY <1>9, <1>c, <1>d DEF Numeric
    <2>2. Check(c, u, g, r) = None
      BY <1>9, <1>e, <1>f, <1>t, <2>1, FloatMonotone
    <2>3. QED BY <1>t, <2>2 DEF t, u
  <1>10. QED BY <1>1, <1>2, <1>3, <1>4, <1>5, <1>6, <1>7, <1>8, <1>9, Names

\* Arming or tightening a limit, switching a control back on, losing money or
\* using up an allowance never admits an order that was refused before.
THEOREM RiskIsMonotone == Spec => MoreRiskNeverAdmits
  <1> DEFINE Step == (/\ position' = position
                      /\ \A c \in ControlId : NoLooser(c, limits'[c], limits[c])
                      /\ disabled' \subseteq disabled
                      /\ NoBetter(figures', figures))
                     => \A r \in Orders :
                          Admits(limits', disabled', figures', InContext(r))
                              => Admitted(InContext(r))
  <1>1. TypeOK /\ TypeOK' => Step
    <2> SUFFICES ASSUME TypeOK, TypeOK',
                        \A c \in ControlId : NoLooser(c, limits'[c], limits[c]),
                        disabled' \subseteq disabled, NoBetter(figures', figures),
                        NEW r \in Orders,
                        Admits(limits', disabled', figures', InContext(r)),
                        NEW c \in ControlId, Runs(c, limits, disabled, figures)
                 PROVE  Check(c, Threshold(c, limits, figures), figures, InContext(r)) = None
      BY DEF Admitted, Admits, Outcome
    <2> DEFINE s == InContext(r)
               f == figures'
               lim == limits'
               off == disabled'
    <2>1. s \in OrderRequest
      BY ContextFields
    <2>2. /\ \A x \in Figure : f[x] \in FigureType[x]
          /\ \A x \in Figure : figures[x] \in FigureType[x]
          /\ lim[c] \in LimitType[c] /\ limits[c] \in LimitType[c]
      BY DecisionAssumption DEF TypeOK
    <2>3. NoLooser(c, lim[c], limits[c]) /\ NoBetter(f, figures) /\ Admits(lim, off, f, s)
          /\ off \subseteq disabled
      OBVIOUS
    <2>4. Threshold(c, limits, figures) # None /\ ~IsDisabled(c, off)
      BY <2>3 DEF Runs, Armed, IsDisabled
    <2> HIDE DEF s, f, lim, off
    <2>5. Threshold(c, lim, f) # None
      BY <2>3, <2>4 DEF Threshold, NoLooser, NoBetter
    <2>6. Runs(c, lim, off, f)
      BY <2>4, <2>5 DEF Runs, Armed
    <2>7. Check(c, Threshold(c, lim, f), f, s) = None
      BY <2>3, <2>6 DEF Admits, Outcome
    <2>8. Check(c, Threshold(c, limits, figures), figures, s) = None
      BY <2>1, <2>2, <2>3, <2>4, <2>7, ControlMonotone
    <2>9. QED BY <2>8 DEF s
  <1>2. TypeOK /\ [Next]_vars => [Step]_vars
    BY <1>1, TypeNext
  <1>3. QED BY <1>2, DeskTypeCorrect, PTL DEF Spec, MoreRiskNeverAdmits

===============================================================================
