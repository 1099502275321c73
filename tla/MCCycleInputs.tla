--------------------------- MODULE MCCycleInputs ---------------------------
(* A cycle with its inputs, and another one that may overlap it.           *)
EXTENDS CycleInputs

CONSTANTS c1, c2, t1
TwoCycles == {c1, c2}
OneCycle == {c1}
OneTicker == {t1}
=============================================================================
