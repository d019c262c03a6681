-------------------------- MODULE MCAdjustmentSync --------------------------
(* Instances of AdjustmentSync for TLC.                                    *)
EXTENDS AdjustmentSync, TLC

CONSTANTS d1, d2, a1, a2

DeviceSymmetry     == Permutations({d1, d2})
AdjustmentSymmetry == Permutations({a1, a2})
Symmetry == DeviceSymmetry \cup AdjustmentSymmetry
=============================================================================
