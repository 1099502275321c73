---------------------------- MODULE MCFillLedger ----------------------------
(***************************************************************************)
(* One or two strategies that trade one ticker at two prices, which every  *)
(* number of units up to three divides.                                    *)
(***************************************************************************)
EXTENDS LedgerRepair

CONSTANTS trend, factor
OneStrategy == {trend}
TwoStrategies == {trend, factor}
Symmetry == Permutations(TwoStrategies)

LowAndHigh == {6, 12}
=============================================================================
