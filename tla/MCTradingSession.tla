---------------------------- MODULE MCTradingSession ----------------------------
(***************************************************************************)
(* Instances of TradingSession for TLC.                                    *)
(***************************************************************************)
EXTENDS TradingSession, TLC

CONSTANTS s1, s2

TwoStrategies == {s1, s2}
SessionSymmetry == Permutations(TwoStrategies)

===============================================================================
