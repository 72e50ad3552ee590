--------------------------- MODULE MCRealmContent ---------------------------
(* RealmContent with one column of three values, two releases and two calls. *)
EXTENDS RealmContent, TLC

CONSTANTS a, c1, c2

MCFields == {a}
MCSlots == {c1, c2}
MCDefault == <<[f \in MCFields |-> 0], [f \in MCFields |-> 1]>>

\* On Postgres, where statements interleave: one item, and no edits.
MCItemsOn == [d \in Dialects |-> IF d = "sqlite" THEN 2 ELSE 1]
MCEditsOn == [d \in Dialects |-> IF d = "sqlite" THEN 1 ELSE 0]

MCSymmetry == Permutations(MCSlots)
=============================================================================
