--------------------------- MODULE MCEngineCounters ---------------------------
(***************************************************************************)
(* Instances of EngineCounters for TLC.                                    *)
(***************************************************************************)
EXTENDS EngineLedger

CONSTANTS c1, c2

OneCaller == {c1}
TwoCallers == {c1, c2}

\* A loss, a gain that moves the peak, and a loss on the other leg.
TradesBothLegs == {<<"live_pnl", -2>>, <<"live_pnl", 1>>, <<"simulated_pnl", -1>>}
\* A loss, and a gain that takes the P&L through zero and moves the peak.
TradesAroundPeak == {<<"live_pnl", -2>>, <<"live_pnl", 4>>}
LiveTrades == {<<"live_pnl", -2>>, <<"live_pnl", 1>>}

SentOnly == {1}
SentAndHandedBack == {2, -1}

===============================================================================
