--------------------------------- MODULE Desk ---------------------------------
(***************************************************************************)
(* A desk that trades under the decision of Decision while its limits are  *)
(* recalibrated, its controls switched off and on, and the figures of the  *)
(* engine move.  A figure is whatever the counters, the windows and the    *)
(* control plane (EngineCounters, MessageWindows, ControlPlane) may have   *)
(* left there.                                                             *)
(***************************************************************************)
EXTENDS Decision, FiniteSets

CONSTANTS
    BaseLimits,     \* a configuration: the threshold of each control, or None
    Settings,       \* the thresholds each control may be recalibrated to
    BaseFigures,    \* the engine's figures at the start
    FigureValues,   \* the values each figure may move to
    Orders,         \* the orders the desk may ask about, book context included
    MaxDepartures,  \* bound: limits, figures and switches away from the start
    MaxPosition     \* bound: the desk holds no more than this, long or short

ASSUME DecisionAssumption ==
    /\ DOMAIN BaseLimits = ControlId /\ DOMAIN Settings = ControlId
    /\ \A c \in ControlId : BaseLimits[c] \in Settings[c] /\ Settings[c] \subseteq LimitType[c]
    /\ DOMAIN BaseFigures = Figure /\ DOMAIN FigureValues = Figure
    /\ \A x \in Figure : /\ BaseFigures[x] \in FigureValues[x]
                         /\ FigureValues[x] \subseteq FigureType[x]
    /\ Orders \subseteq OrderRequest
    /\ MaxDepartures \in Nat /\ MaxPosition \in Nat

VARIABLES
    limits,    \* the threshold of each control, or None (RiskLimits)
    disabled,  \* limits.disabled_controls
    figures,   \* the engine's state, as far as a decision reads it
    position   \* the desk's signed position in the instrument

vars == <<limits, disabled, figures, position>>

-------------------------------------------------------------------------------
(* The desk *)

Decide(r) == Evaluate(limits, disabled, figures, r)
Admitted(r) == Admits(limits, disabled, figures, r)

\* The order as the desk's order management system presents it now; it may not
\* know the position.
InContext(r) ==
    IF Number(r.position_quantity) THEN [r EXCEPT !.position_quantity = position] ELSE r

Departures(lim, off, f) ==
    Cardinality({c \in ControlId : lim[c] # BaseLimits[c]})
    + Cardinality(off)
    + Cardinality({x \in Figure : f[x] # BaseFigures[x]})

Within(lim, off, f) == Departures(lim, off, f) <= MaxDepartures

\* Mutant of Disable: nothing is refused.
DisableAny(c) ==
    /\ c \notin disabled
    /\ disabled' = disabled \cup {c}
    /\ Within(limits, disabled', figures)
    /\ UNCHANGED <<limits, figures, position>>

\* RiskLimits.disable and enable; __post_init__ refuses the controls that are
\* always on.
Disable(c) ==
    /\ c \notin ALWAYS_ON
    /\ c \notin disabled
    /\ disabled' = disabled \cup {c}
    /\ Within(limits, disabled', figures)
    /\ UNCHANGED <<limits, figures, position>>

Enable(c) ==
    /\ c \in disabled
    /\ disabled' = disabled \ {c}
    /\ UNCHANGED <<limits, figures, position>>

\* A limit set with one threshold changed takes the place of the old one.
Recalibrate(c, t) ==
    /\ limits[c] # t
    /\ limits' = [limits EXCEPT ![c] = t]
    /\ Within(limits', disabled, figures)
    /\ UNCHANGED <<disabled, figures, position>>

\* A figure moves, as the modules that own it say it may.
FigureMoves(x, v) ==
    /\ figures[x] # v
    /\ figures' = [figures EXCEPT ![x] = v]
    /\ Within(limits, disabled, figures')
    /\ UNCHANGED <<limits, disabled, position>>

\* An accepted order is filled, in full or in part.
Trade(r) ==
    /\ Admitted(InContext(r))
    /\ \E filled \in 1 .. r.quantity :
        position' = IF IsSell(r) THEN position - filled ELSE position + filled
    /\ Magnitude(position') <= MaxPosition
    /\ UNCHANGED <<limits, disabled, figures>>

Init ==
    /\ limits = BaseLimits
    /\ disabled = {}
    /\ figures = BaseFigures
    /\ position = 0

Next ==
    \/ \E c \in ControlId :
        \/ Disable(c)
        \/ Enable(c)
        \/ \E t \in Settings[c] : Recalibrate(c, t)
    \/ \E x \in Figure : \E v \in FigureValues[x] : FigureMoves(x, v)
    \/ \E r \in Orders : Trade(r)

Spec == Init /\ [][Next]_vars

-------------------------------------------------------------------------------
(* Properties *)

\* Every variable has its type.
TypeOK ==
    /\ \A c \in ControlId : limits[c] \in Settings[c]
    /\ disabled \subseteq ControlId \ ALWAYS_ON
    /\ DOMAIN figures = Figure
    /\ \A x \in Figure : figures[x] \in FigureValues[x]
    /\ position \in -MaxPosition .. MaxPosition

\* "There is no configuration under which sending one is the intended
\* behaviour": whatever is unset, stood down or overridden, no accepted order
\* has a quantity, a price or a notional that is not positive.
WellFormedAlways ==
    \A r \in Orders :
        Admitted(InContext(r)) =>
            /\ Lt(0, r.quantity)
            /\ r.limit_price = None \/ Lt(0, r.limit_price)
            /\ ValuationPrice(r) = None \/ Lt(0, ValuationPrice(r))

Unusable(x) == x \in {None, NaN}

\* An input of control c is missing or is not a number.
Starved(c, r) ==
    CASE c = "QUOTE_AGE" -> Unusable(r.quote_age_millis)
      [] c = "PRICE_BAND" ->
             /\ r.limit_price # None
             /\ \/ r.reference_price = NaN
                \/ r.reference_price = None /\ (Unusable(r.best_bid) \/ Unusable(r.best_ask))
      [] c = "EXECUTION_SLIPPAGE" -> Unusable(r.decision_price) \/ Unusable(FarTouch(r))
      [] c = "MAX_ORDER_NOTIONAL" -> Unusable(ValuationPrice(r))
      [] c = "POSITION_LIMIT" -> ~Number(r.position_quantity)
      [] c = "SELF_MATCH_PREVENTION" -> ~Number(r.opposing_resting_quantity)
      [] c = "GROSS_EXPOSURE" -> Unusable(ValuationPrice(r)) \/ ~Number(r.gross_exposure_usd)
      [] c = "DAILY_NOTIONAL_LIMIT" ->
             Unusable(ValuationPrice(r)) \/ ~Number(figures.daily_notional)
      [] OTHER -> FALSE

\* "An armed control that cannot be evaluated rejects the order": whatever the
\* limits, overrides and switches, no order passes a running control one of
\* whose inputs never arrived or is not a number.  That is so of every control
\* but the loss limit, which Starved leaves to LossLimitFailsClosed.
FailClosed ==
    \A c \in ControlId :
        Runs(c, limits, disabled, figures) =>
            \A r \in Orders : Starved(c, r) => ~Admitted(InContext(r))

\* The same of the loss limit, whose input is the engine's own P&L: once that
\* is not a number the control cannot be evaluated, and has to reject.
LossLimitFailsClosed ==
    /\ Runs("DAILY_LOSS_LIMIT", limits, disabled, figures)
    /\ ~figures.bypass_active
    /\ ~Number(Leg(figures, "live_pnl", "simulated_pnl"))
    => \A r \in Orders : ~Admitted(InContext(r))

\* stood_down_controls is "what switching it off actually suppressed": an armed
\* control the report does not name, however it came to be armed, stops every
\* order it objects to.
SuppressionVisible ==
    \A c \in ControlId \ StoodDown(limits, disabled, figures) :
        Armed(c, limits, figures) =>
            \A r \in Orders :
                Check(c, Threshold(c, limits, figures), figures, InContext(r)) # None =>
                    ~Admitted(InContext(r))

SizeControls == {"MAX_ORDER_QUANTITY", "MAX_ORDER_NOTIONAL"}

\* The runtime cap on a size, and whether an order is within a threshold on it.
Cap(c) == figures[IF c = "MAX_ORDER_QUANTITY" THEN "runtime_max_order_quantity"
                                              ELSE "runtime_max_order_notional"]
Fits(c, t, r) ==
    t = None \/ (IF c = "MAX_ORDER_QUANTITY" THEN MaxQuantity(t, r) ELSE MaxNotional(t, r)) = None

\* The engine's figures if no cap had been set.
Uncapped ==
    [x \in Figure |->
        IF x \in {"runtime_max_order_quantity", "runtime_max_order_notional"} THEN None
                                                                             ELSE figures[x]]

\* A runtime cap takes the place of the configured limit in both directions and
\* reaches no further (effective_max_order_notional, effective_max_order_quantity;
\* test_override_loosens_within_the_session).  It changes a verdict exactly where
\* it stops an order the configured limit would let past, or where an order
\* within the cap is one the configured limit would stop.  The second is a
\* loosening, although controls.py:190 calls a cap "not a safety-loosening
\* override".
OverrideReplacesLimit ==
    figures # Uncapped =>
        \A r \in Orders :
            LET order == InContext(r)
                under == Decide(order)
                without == Evaluate(limits, disabled, Uncapped, order)
            IN (under # without) <=>
                \E c \in SizeControls :
                    \/ under.control = c /\ Fits(c, limits[c], order)
                    \/ without.control = c /\ Cap(c) # None /\ Fits(c, Cap(c), order)

\* "Neither can halt the other": no decision of this engine depends on the
\* leg it does not trade.
LegsIndependent ==
    [][LET others == Figure \ IF figures.is_live THEN {"simulated_pnl", "simulated_peak"}
                                                 ELSE {"live_pnl", "live_peak"}
       IN (/\ UNCHANGED <<limits, disabled, position>>
           /\ \A x \in others : figures'[x] = figures[x])
          => \A r \in Orders :
               Evaluate(limits, disabled, figures', InContext(r)) = Decide(InContext(r))]_vars

\* "A position limit never traps a position": wherever fills and new limits
\* have left the desk, as long as it knows its position the control lets every
\* order through that takes it towards zero and no further.
NeverTrapped ==
    LET t == Threshold("POSITION_LIMIT", limits, figures)
    IN t # None =>
        \A r \in Orders :
            /\ Number(r.position_quantity) /\ r.quantity \in 1 .. Magnitude(position)
            /\ IsSell(r) <=> position > 0
            => PositionLimit(t, InContext(r)) = None

\* A fill of an accepted order takes the position away from zero, or across
\* it, only to somewhere within the limit: the exemption for orders that
\* reduce a position outside it is never a way to take risk.
RiskOnlyWithinLimit ==
    [][LET t == limits["POSITION_LIMIT"]
       IN /\ Runs("POSITION_LIMIT", limits, disabled, figures)
          /\ Magnitude(position') > Magnitude(position) \/ position * position' < 0
          => Magnitude(position') <= t]_vars

\* The threshold t of control c is no looser than u.
NoLooser(c, t, u) ==
    \/ u = None \/ t = u
    \/ /\ t # None
       /\ CASE c \in {"INSTRUMENT_UNIVERSE", "SESSION_STATE"} -> t \subseteq u
            [] c = "RESTRICTED_LIST" -> u \subseteq t
            [] OTHER -> Le(t, u)

\* The figures f leave no more allowance than g, under the same overrides.
NoBetter(f, g) ==
    /\ \A x \in {"is_live", "runtime_max_order_quantity", "runtime_max_order_notional"} :
        f[x] = g[x]
    /\ g.kill_switch_engaged => f.kill_switch_engaged
    /\ f.bypass_active => g.bypass_active
    /\ g.seen \subseteq f.seen
    /\ \A x \in {"live_peak", "simulated_peak", "sent", "rejects", "executions",
                  "daily_notional"} : Le(g[x], f[x])
    /\ \A x \in {"live_pnl", "simulated_pnl"} : Le(f[x], g[x])

\* Arming or tightening a limit, switching a control back on, losing money or
\* using up an allowance never admits an order that was refused before.
MoreRiskNeverAdmits ==
    [][(/\ position' = position
        /\ \A c \in ControlId : NoLooser(c, limits'[c], limits[c])
        /\ disabled' \subseteq disabled
        /\ NoBetter(figures', figures))
       => \A r \in Orders :
            Admits(limits', disabled', figures', InContext(r)) => Admitted(InContext(r))]_vars

===============================================================================
