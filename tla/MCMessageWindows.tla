--------------------------- MODULE MCMessageWindows ---------------------------
(***************************************************************************)
(* Instances of MessageWindows for TLC.                                    *)
(***************************************************************************)
EXTENDS MessageWindows, TLC

CONSTANTS s1, s2, buy, sell

TwoStrategies == {s1, s2}
TwoOrders == {buy, sell}
WindowSymmetry == Permutations(TwoStrategies)

===============================================================================
