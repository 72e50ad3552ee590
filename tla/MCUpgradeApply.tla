--------------------------- MODULE MCUpgradeApply ---------------------------
(***************************************************************************)
(* Two builds with a batch each; the second batch provides the one family  *)
(* and an apply may hold it or nothing.                                    *)
(***************************************************************************)
EXTENDS UpgradeApply, TLC

CONSTANTS f1, o1, o2

MCFamilies == {f1}
MCProvides == [b \in Batches |-> IF b = MaxBuild THEN {f1} ELSE {}]
MCHeldChoices == {{}, {MaxBuild}}
MCHeldNothing == {{}}
MCThrow == {"throw"}
MCFaults == {"crash", "throw"}
MCSerial == {o1}
MCConcurrent == {o1, o2}
=============================================================================
