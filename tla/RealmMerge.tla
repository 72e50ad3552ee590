----------------------------- MODULE RealmMerge -----------------------------
(***************************************************************************)
(* The pure part of realm content: how a record's drift is classified      *)
(* (classifyDrift of @weaveintel/realm, as the reconcile and the report    *)
(* use it) and how three payloads are merged field by field                *)
(* (realm-diff.ts).  A content hash stands for the payload it is a hash    *)
(* of.                                                                     *)
(***************************************************************************)
CONSTANTS
    Fields,   \* the semantic columns of a family
    Values,
    NoHash    \* a hash column that is null, a payload that is not in the log

ASSUME NoHashIsNoPayload == NoHash \notin [Fields -> Values]

Payloads == [Fields -> Values]

\* Base is what the record was last seeded from, local what is in the row,
\* remote what the release or the upstream wants.
Drift(base, local, remote) ==
    CASE local = remote -> "in_sync"
      [] local = base /\ base # remote -> "stale"
      [] base = remote /\ local # remote -> "customized"
      [] OTHER -> "diverged"

-----------------------------------------------------------------------------
\* threeWayFieldDiff: without a base any difference is a conflict.
Conflicts(base, local, remote) ==
    {f \in Fields :
        /\ local[f] # remote[f]
        /\ base # NoHash => local[f] # base[f] /\ remote[f] # base[f]}

\* autoMerge: what only upstream changed is taken, the rest stays, and so do
\* the conflicts, as placeholders.
AutoMerge(base, local, remote) ==
    [f \in Fields |->
        IF base # NoHash /\ f \notin Conflicts(base, local, remote) /\ local[f] = base[f]
        THEN remote[f]
        ELSE local[f]]

\* What applyRealmMerge writes, given the operator's choices: a function from
\* some of the fields to values.
Merge(base, local, remote, chosen) ==
    [f \in Fields |-> IF f \in DOMAIN chosen THEN chosen[f]
                                             ELSE AutoMerge(base, local, remote)[f]]

\* It refuses while a conflict has no choice.
Mergeable(base, local, remote, chosen) ==
    Conflicts(base, local, remote) \subseteq DOMAIN chosen
=============================================================================
