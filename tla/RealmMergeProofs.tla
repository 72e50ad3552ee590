-------------------------- MODULE RealmMergeProofs --------------------------
(***************************************************************************)
(* What the three-way merge of realm-diff.ts guarantees, for every set of  *)
(* columns and values, base, row, upstream and choices.                    *)
(***************************************************************************)
EXTENDS RealmMerge, TLAPS

\* What a side changed since the base.
Changed(base, side) == {f \in Fields : side[f] # base[f]}

LEMMA MergeTyped ==
    ASSUME NEW base, NEW local \in Payloads, NEW remote \in Payloads, NEW chosen,
           \A f \in DOMAIN chosen : chosen[f] \in Values
    PROVE  Merge(base, local, remote, chosen) \in Payloads
<1>1. \A f \in Fields : AutoMerge(base, local, remote)[f] \in Values
  BY DEF AutoMerge, Payloads
<1> QED BY <1>1 DEF Merge, Payloads

\* A merge loses no edit (threeWayFieldDiff, autoMerge, applyRealmMerge): where
\* the operator has chosen, the choice is written; elsewhere a column keeps the
\* row's edit if the row changed it, and takes upstream's if only upstream did.
\* Without a base in the log the row stays as it is but for the choices.
THEOREM MergeLosesNothing ==
    ASSUME NEW base \in Payloads \cup {NoHash}, NEW local \in Payloads, NEW remote \in Payloads,
           NEW chosen, DOMAIN chosen \subseteq Fields, Mergeable(base, local, remote, chosen)
    PROVE  LET merged == Merge(base, local, remote, chosen) IN
           /\ \A f \in DOMAIN chosen : merged[f] = chosen[f]
           /\ \A f \in Fields \ DOMAIN chosen :
                IF base = NoHash
                THEN merged[f] = local[f] /\ merged[f] = remote[f]
                ELSE /\ f \in Changed(base, local) => merged[f] = local[f]
                     /\ f \in Changed(base, remote) => merged[f] = remote[f]
                     /\ f \notin Changed(base, local) \cup Changed(base, remote) =>
                          merged[f] = base[f]
<1> DEFINE merged == Merge(base, local, remote, chosen)
<1>1. \A f \in DOMAIN chosen : merged[f] = chosen[f]
  BY DEF Merge
<1>2. \A f \in Fields \ DOMAIN chosen : merged[f] = AutoMerge(base, local, remote)[f]
  BY DEF Merge
<1>3. \A f \in Fields \ DOMAIN chosen : f \notin Conflicts(base, local, remote)
  BY DEF Mergeable
<1>4. CASE base = NoHash
  BY <1>1, <1>2, <1>3, <1>4 DEF AutoMerge, Conflicts
<1>5. CASE base # NoHash
  BY <1>1, <1>2, <1>3, <1>5 DEF AutoMerge, Conflicts, Changed
<1> QED BY <1>4, <1>5

\* A merge settles: the row it writes is measured against the upstream it was
\* merged with, so until upstream moves it is in sync or customised, merging
\* again finds no conflict, needs no choice and changes nothing.
THEOREM MergeSettles ==
    ASSUME NEW base, NEW local \in Payloads, NEW remote \in Payloads, NEW chosen,
           \A f \in DOMAIN chosen : chosen[f] \in Values
    PROVE  LET merged == Merge(base, local, remote, chosen) IN
           /\ Drift(remote, merged, remote) \in {"in_sync", "customized"}
           /\ Conflicts(remote, merged, remote) = {}
           /\ Merge(remote, merged, remote, << >>) = merged
<1> DEFINE merged == Merge(base, local, remote, chosen)
<1>1. merged \in Payloads
  BY MergeTyped
<1> HIDE DEF merged
<1>2. remote # NoHash
  BY NoHashIsNoPayload DEF Payloads
<1>3. Drift(remote, merged, remote) \in {"in_sync", "customized"}
  BY DEF Drift
<1>4. Conflicts(remote, merged, remote) = {}
  BY <1>2 DEF Conflicts
<1>5. AutoMerge(remote, merged, remote) = merged
  BY <1>1, <1>2, <1>4 DEF AutoMerge, Payloads
<1>6. Merge(remote, merged, remote, << >>) = merged
  BY <1>1, <1>5 DEF Merge, Payloads
<1> QED BY <1>3, <1>4, <1>6 DEF merged

\* Without conflicts it does not matter which side is the row and which is
\* upstream: both sides' changes are in the merge.
THEOREM MergeIsSymmetric ==
    ASSUME NEW base \in Payloads, NEW local \in Payloads, NEW remote \in Payloads,
           Conflicts(base, local, remote) = {}
    PROVE  AutoMerge(base, local, remote) = AutoMerge(base, remote, local)
<1>1. base # NoHash
  BY NoHashIsNoPayload DEF Payloads
<1>2. Conflicts(base, remote, local) = {}
  BY <1>1 DEF Conflicts
<1>3. \A f \in Fields : AutoMerge(base, local, remote)[f] = AutoMerge(base, remote, local)[f]
  BY <1>1, <1>2 DEF AutoMerge, Conflicts
<1> QED BY <1>3 DEF AutoMerge
=============================================================================
