--------------------------- MODULE MCUpgradeLock ----------------------------
(***************************************************************************)
(* Three callers, one per holder label the code uses, over four seconds of *)
(* two ticks each with a two-second staleness window.                      *)
(***************************************************************************)
EXTENDS UpgradeLock

CONSTANTS apply, rollback, automation

MCCallers == {apply, rollback, automation}
MCLabelOf == [c \in MCCallers |-> c]
=============================================================================
