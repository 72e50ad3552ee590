---------------------------- MODULE RealmContent ----------------------------
(***************************************************************************)
(* One record of shipped content, for all who may change it: the reconcile *)
(* at boot and inside an apply (realm-seed-reconcile.ts), the operators'   *)
(* edits, the review queue with its resolve, bulk, automation and undo     *)
(* (upgrade-review.ts, upgrade-automation.ts over upgrade-run-store.ts),   *)
(* the merge workbench (realm-diff.ts), a tenant's fork and its promotion  *)
(* (realm-governance.ts), and the pruning of the version log.              *)
(*                                                                         *)
(* Every awaited statement is a step.  On Postgres the statements of calls *)
(* interleave; on SQLite a call runs from its first statement to its last  *)
(* in one turn of the event loop, and only a crash can cut it short.       *)
(***************************************************************************)
EXTENDS RealmMerge, Integers, Sequences

CONSTANTS
    Slots,       \* requests in flight at once
    Seeder,      \* the reconcile, of a boot or of an apply
    None,        \* no item, no action
    Dialects,    \* the database adapters to consider
    Guarded,     \* the family is one of the P1 families
    Policies,    \* its adoption policies to consider
    Default,     \* Default[r]: the payload release r ships
    MaxItems,    \* bound on the review items ever recorded
    ItemsOn,     \* ItemsOn[d]: the bound on them on dialect d
    EditsOn,     \* EditsOn[d]: bound on the edits and merges of the record and the fork
    MaxCrashes   \* bound on restarts

Calls    == Slots \cup {Seeder}
Releases == DOMAIN Default
Items    == 1 .. MaxItems
Actions  == {"keep", "adopt", "defer"}

\* RESOLUTION: what the ledger says of an action.
ResolutionVerbatim == [action \in Actions |-> action]
Resolution == [keep |-> "kept", adopt |-> "adopted", defer |-> "deferred"]

Hashes == Payloads \cup {NoHash}

\* The semantic columns, origin_hash and content_hash.
Rows == [content : Payloads, origin : Hashes, stamp : Hashes]

ASSUME RealmConstants ==
    /\ Seeder \notin Slots /\ None \notin Items \cup Rows
    /\ Dialects \subseteq {"sqlite", "postgres"}
    /\ Guarded \in BOOLEAN /\ Policies \subseteq {"patch_only", "never"}
    /\ MaxItems \in Nat /\ MaxCrashes \in Nat
    /\ ItemsOn \in [Dialects -> 1 .. MaxItems] /\ EditsOn \in [Dialects -> Nat]
    /\ Default \in Seq(Payloads) /\ Default # <<>>

VARIABLES
    dialect, policy,           \* the adapter, the adoption policy; fixed at start
    release, serving,          \* the deployed release; boot's reconcile is over
    rec, fork,                 \* the global row and a tenant's copy of it
    head, versions,            \* realm_versions: the latest, and all of them
    item, nextItem,            \* upgrade_details
    proposal,                  \* realm_proposals: the fork's last one
    call,                      \* call[c]: the statement call c is at
    edits, crashes,
    before,                    \* history: before[i], the row just before i was adopted
    torn,                      \* history: the items cut off by a crash, and None if
                               \* the approval was
    promoted                   \* history: the fork has gone global

config  == <<dialect, policy, release>>
log     == <<head, versions>>
queue   == <<item, nextItem, before, torn>>
govern  == <<fork, proposal, promoted>>
bounds  == <<edits, crashes>>
vars == <<config, serving, rec, log, queue, govern, call, bounds>>

NoRow == [content |-> Default[1], origin |-> NoHash, stamp |-> NoHash]
Based(content, origin) == [content |-> content, origin |-> origin, stamp |-> content]

Details == [status : {"absent", "open", "kept", "adopted", "deferred"},
            p1 : BOOLEAN, undo : Rows \cup {None}]

Idle == [pc |-> "idle", item |-> None, action |-> None, todo |-> {}, row |-> NoRow,
         seen |-> NoHash, base |-> NoHash, p1 |-> FALSE, swept |-> FALSE]

CallRecs == [pc : {"idle", "detail", "fetch", "diff", "rediff", "write", "undo", "ledger",
                   "next", "lookup", "restore", "reopen", "mdiff", "mwrite", "fdiff", "fwrite",
                   "approve", "copy", "promote", "publish", "close", "reject",
                   "append", "row", "baseline", "adopt", "record"},
             item : Items \cup {None}, action : Actions \cup {None, "approved", "rejected"},
             todo : SUBSET Items, row : Rows,
             seen : Hashes, base : Hashes, p1 : BOOLEAN, swept : BOOLEAN]

TypeOK ==
    /\ dialect \in Dialects /\ policy \in Policies
    /\ release \in Releases /\ serving \in BOOLEAN
    /\ rec \in Rows /\ fork \in Rows
    /\ head \in Hashes /\ versions \subseteq Payloads
    /\ item \in [Items -> Details] /\ nextItem \in 1 .. MaxItems + 1
    /\ proposal \in {"none", "pending", "approved", "rejected"}
    /\ call \in [Calls -> CallRecs]
    /\ edits \in 0 .. EditsOn[dialect] /\ crashes \in 0 .. MaxCrashes
    /\ before \in [Items -> Rows \cup {None}]
    /\ torn \subseteq Items \cup {None}
    /\ promoted \in BOOLEAN

\* A first boot of the release engine over a row that earlier releases seeded
\* and an operator may have edited; a tenant has a copy of it.
Init ==
    /\ dialect \in Dialects /\ policy \in Policies
    /\ release = 1 /\ serving = FALSE
    /\ \E p \in Payloads : rec = [NoRow EXCEPT !.content = p]
    /\ fork = Based(rec.content, rec.content)
    /\ head = NoHash /\ versions = {}
    /\ item = [i \in Items |-> [status |-> "absent", p1 |-> FALSE, undo |-> None]]
    /\ nextItem = 1
    /\ proposal = "none"
    /\ call = [c \in Calls |-> IF c = Seeder THEN [Idle EXCEPT !.pc = "append"] ELSE Idle]
    /\ edits = 0 /\ crashes = 0
    /\ before = [i \in Items |-> None]
    /\ torn = {} /\ promoted = FALSE

-----------------------------------------------------------------------------
At(c, pc) == call[c].pc = pc
Goto(c, pc) == call' = [call EXCEPT ![c].pc = pc]
End(c) == call' = [call EXCEPT ![c] = Idle]

\* A request starts, or a single statement runs: on SQLite between calls.
MayStart ==
    /\ serving
    /\ dialect = "sqlite" => \A c \in Calls : At(c, "idle")
Enter(c, pc) ==
    /\ MayStart /\ At(c, "idle")
    /\ Goto(c, pc)
    /\ UNCHANGED <<config, serving, rec, log, queue, govern, bounds>>

\* append of the version log: content-addressed, a no-op on the head; what it
\* does with an older version of the same content is the package's choice.
AppendVersion(p) ==
    /\ versions' = versions \cup {p}
    /\ head' \in IF p \in versions /\ p # head THEN {head, p} ELSE {p}

Open == {i \in Items : item[i].status = "open"}

-----------------------------------------------------------------------------
(* reconcileRealmFamily, for this record.                                  *)

PublishDefault ==
    /\ At(Seeder, "append")
    /\ AppendVersion(Default[release])
    /\ Goto(Seeder, "row")
    /\ UNCHANGED <<config, serving, rec, queue, govern, bounds>>

\* Which drifts are adopted, and which are left for review.
Adopts(drift) == drift = "stale" /\ policy # "never"
Reviews(drift) == drift \in {"customized", "diverged"} \/ (drift = "stale" /\ policy = "never")

\* The row is read and hashed live.
ReadRow ==
    /\ At(Seeder, "row")
    /\ LET drift == Drift(rec.origin, rec.content, Default[release]) IN
       call' = [call EXCEPT
                  ![Seeder].row = rec,
                  ![Seeder].p1 = Guarded \/ drift = "diverged",
                  ![Seeder].pc = CASE rec.origin = NoHash -> "baseline"
                                   [] rec.origin # NoHash /\ Adopts(drift) -> "adopt"
                                   [] rec.origin # NoHash /\ Reviews(drift) -> "record"
                                   [] OTHER -> "idle"]
    /\ serving' = (call'[Seeder].pc = "idle" \/ serving)
    /\ UNCHANGED <<config, rec, log, queue, govern, bounds>>

\* A row without a baseline: what was read becomes its base.
Baseline ==
    /\ At(Seeder, "baseline")
    /\ LET local == call[Seeder].row.content IN
       rec' = [rec EXCEPT !.origin = local, !.stamp = local]
    /\ serving' = TRUE
    /\ End(Seeder)
    /\ UNCHANGED <<config, log, queue, govern, bounds>>

AdoptDefault ==
    /\ At(Seeder, "adopt")
    /\ rec' = Based(Default[release], Default[release])
    /\ Goto(Seeder, "record")
    /\ UNCHANGED <<config, serving, log, queue, govern, bounds>>

\* maybeRecord: adopted or left for review, the item is open.
Record ==
    /\ At(Seeder, "record")
    /\ item' = [item EXCEPT ![nextItem] = [status |-> "open", p1 |-> call[Seeder].p1,
                                           undo |-> None]]
    /\ nextItem' = nextItem + 1
    /\ serving' = TRUE
    /\ End(Seeder)
    /\ UNCHANGED <<config, rec, log, govern, before, torn, bounds>>

\* Inside an apply, while requests are served.
ApplyReconcile ==
    /\ nextItem <= ItemsOn[dialect]
    /\ Enter(Seeder, "append")

-----------------------------------------------------------------------------
(* resolveReviewItem, one item at a time or swept.                         *)

StartResolve(c, i, action) ==
    /\ MayStart /\ At(c, "idle")
    /\ item[i].status # "absent"
    /\ call' = [call EXCEPT ![c] = [Idle EXCEPT !.pc = "detail", !.item = i, !.action = action]]
    /\ UNCHANGED <<config, serving, rec, log, queue, govern, bounds>>

\* bulkResolveReview and applyResolutionRules: the open items that are not P1.
StartSweep(c) ==
    /\ MayStart /\ At(c, "idle")
    /\ call' = [call EXCEPT ![c] = [Idle EXCEPT !.pc = "next", !.swept = TRUE,
                                                !.todo = {i \in Open : ~ item[i].p1}]]
    /\ UNCHANGED <<config, serving, rec, log, queue, govern, bounds>>

\* Bulk has one action, the rules have one per item, or none.
SweepNext(c) ==
    /\ At(c, "next")
    /\ \/ /\ call[c].todo = {}
          /\ End(c)
       \/ \E i \in call[c].todo :
          \/ call' = [call EXCEPT ![c].todo = @ \ {i}]
          \/ \E action \in Actions :
               call' = [call EXCEPT ![c].todo = @ \ {i}, ![c].pc = "detail",
                                    ![c].item = i, ![c].action = action]
    /\ UNCHANGED <<config, serving, rec, log, queue, govern, bounds>>

\* Where a call goes when it is done with an item.
Left(k) == IF k.todo = {} THEN Idle
           ELSE [Idle EXCEPT !.pc = "next", !.todo = k.todo, !.swept = TRUE]
Done(c) == call' = [call EXCEPT ![c] = Left(@)]

GetDetailUnchecked(c) ==
    /\ At(c, "detail")
    /\ Goto(c, IF call[c].action = "adopt" THEN "fetch" ELSE "ledger")
    /\ UNCHANGED <<config, serving, rec, log, queue, govern, bounds>>
GetDetail(c) ==
    /\ At(c, "detail")
    /\ CASE item[call[c].item].status # "open" -> Done(c)
         [] item[call[c].item].status = "open" ->
              Goto(c, IF call[c].action = "adopt" THEN "fetch" ELSE "ledger")
    /\ UNCHANGED <<config, serving, rec, log, queue, govern, bounds>>

\* The row as it is, to undo to.
FetchRow(c) ==
    /\ At(c, "fetch")
    /\ call' = [call EXCEPT ![c].pc = "diff", ![c].row = rec]
    /\ UNCHANGED <<config, serving, rec, log, queue, govern, bounds>>

\* loadThreeWayDiff: upstream's value of every field ...
LoadDiff(c) ==
    /\ At(c, "diff")
    /\ call' = [call EXCEPT ![c].pc = "rediff", ![c].seen = head]
    /\ UNCHANGED <<config, serving, rec, log, queue, govern, bounds>>

\* ... and again in applyRealmMerge, for the base it writes.
ReloadDiff(c) ==
    /\ At(c, "rediff")
    /\ call' = [call EXCEPT ![c].pc = "write", ![c].base = head]
    /\ UNCHANGED <<config, serving, rec, log, queue, govern, bounds>>

WriteAdopted(c) ==
    /\ At(c, "write")
    /\ rec' = Based(call[c].seen, call[c].base)
    /\ before' = [before EXCEPT ![call[c].item] = IF @ = None THEN rec ELSE @]
    /\ Goto(c, "undo")
    /\ UNCHANGED <<config, serving, log, item, nextItem, torn, govern, bounds>>

SaveUndoLate(c) ==
    /\ At(c, "undo")
    /\ item' = [item EXCEPT ![call[c].item].undo = rec]
    /\ Goto(c, "ledger")
    /\ UNCHANGED <<config, serving, rec, log, nextItem, before, torn, govern, bounds>>
SaveUndo(c) ==
    /\ At(c, "undo")
    /\ item' = [item EXCEPT ![call[c].item].undo = call[c].row]
    /\ Goto(c, "ledger")
    /\ UNCHANGED <<config, serving, rec, log, nextItem, before, torn, govern, bounds>>

\* resolveUpgradeDetail: WHERE resolution IS NULL.
LedgerOverwrites(c) ==
    /\ At(c, "ledger")
    /\ item' = [item EXCEPT ![call[c].item].status = Resolution[call[c].action]]
    /\ Done(c)
    /\ UNCHANGED <<config, serving, rec, log, nextItem, before, torn, govern, bounds>>
Ledger(c) ==
    /\ At(c, "ledger")
    /\ item' = [item EXCEPT ![call[c].item].status =
                  IF @ = "open" THEN Resolution[call[c].action] ELSE @]
    /\ Done(c)
    /\ UNCHANGED <<config, serving, rec, log, nextItem, before, torn, govern, bounds>>

-----------------------------------------------------------------------------
(* undoReviewItem                                                          *)

StartUndo(c, i) ==
    /\ MayStart /\ At(c, "idle")
    /\ item[i].status # "absent"
    /\ call' = [call EXCEPT ![c] = [Idle EXCEPT !.pc = "lookup", !.item = i]]
    /\ UNCHANGED <<config, serving, rec, log, queue, govern, bounds>>

LookUp(c) ==
    /\ At(c, "lookup")
    /\ LET d == item[call[c].item] IN
       call' = [call EXCEPT ![c] =
                  CASE d.status = "open" -> Idle
                    [] d.status = "adopted" /\ d.undo # None ->
                         [@ EXCEPT !.pc = "restore", !.row = d.undo]
                    [] OTHER -> [@ EXCEPT !.pc = "reopen"]]
    /\ UNCHANGED <<config, serving, rec, log, queue, govern, bounds>>

Restore(c) ==
    /\ At(c, "restore")
    /\ rec' = call[c].row
    /\ Goto(c, "reopen")
    /\ UNCHANGED <<config, serving, log, queue, govern, bounds>>

Reopen(c) ==
    /\ At(c, "reopen")
    /\ item' = [item EXCEPT ![call[c].item].status = "open", ![call[c].item].undo = None]
    /\ before' = [before EXCEPT ![call[c].item] = None]
    /\ End(c)
    /\ UNCHANGED <<config, serving, rec, log, nextItem, torn, govern, bounds>>

-----------------------------------------------------------------------------
(* Operators and tenants: edits, merges, the fork and its promotion.       *)

\* A semantic column is edited; hashes are not.
Edit(f, v) ==
    /\ MayStart /\ edits < EditsOn[dialect]
    /\ edits' = edits + 1
    /\ \/ /\ rec' = [rec EXCEPT !.content[f] = v]
          /\ UNCHANGED fork
       \/ /\ fork' = [fork EXCEPT !.content[f] = v]
          /\ UNCHANGED rec
    /\ UNCHANGED <<config, serving, log, queue, proposal, promoted, call, crashes>>

\* applyRealmMerge from the workbench: upstream is the log's head for the
\* global row and the global row for the fork; the base is looked up in the log;
\* the operator's choices were made over a diff of some time ago.
BaseOf(row) == IF row.origin \in versions THEN row.origin ELSE NoHash
Choices == UNION {[fields -> Values] : fields \in SUBSET Fields}

\* Refused while a conflict is without a choice.
LoadMerge(c, row, upstream, pc) ==
    \E chosen \in Choices :
        IF Mergeable(BaseOf(row), row.content, upstream, chosen)
        THEN call' = [call EXCEPT
                        ![c].pc = pc,
                        ![c].row = Based(Merge(BaseOf(row), row.content, upstream, chosen),
                                         upstream)]
        ELSE End(c)

StartMerge(c, pc) ==
    /\ MayStart /\ At(c, "idle") /\ edits < EditsOn[dialect]
    /\ edits' = edits + 1
    /\ Goto(c, pc)
    /\ UNCHANGED <<config, serving, rec, log, queue, govern, crashes>>

MergeDiff(c) ==
    /\ At(c, "mdiff")
    /\ LoadMerge(c, rec, head, "mwrite")
    /\ UNCHANGED <<config, serving, rec, log, queue, govern, bounds>>

MergeWrite(c) ==
    /\ At(c, "mwrite")
    /\ rec' = call[c].row
    /\ End(c)
    /\ UNCHANGED <<config, serving, log, queue, govern, bounds>>

ForkDiff(c) ==
    /\ At(c, "fdiff")
    /\ LoadMerge(c, fork, rec.content, "fwrite")
    /\ UNCHANGED <<config, serving, rec, log, queue, govern, bounds>>

ForkWrite(c) ==
    /\ At(c, "fwrite")
    /\ fork' = call[c].row
    /\ End(c)
    /\ UNCHANGED <<config, serving, rec, log, queue, proposal, promoted, bounds>>

\* proposeRealmFork, once.
Propose ==
    /\ MayStart /\ proposal = "none"
    /\ proposal' = "pending"
    /\ UNCHANGED <<config, serving, rec, log, queue, fork, promoted, call, bounds>>

\* approveRealmProposal and rejectRealmProposal read the proposal ...
ReadProposalUnchecked(c) ==
    /\ call[c].pc \in {"approve", "reject"} /\ proposal # "none"
    /\ call' = [call EXCEPT ![c].pc = IF @ = "approve" THEN "copy" ELSE "close",
                            ![c].action = IF At(c, "approve") THEN "approved" ELSE "rejected"]
    /\ UNCHANGED <<config, serving, rec, log, queue, govern, bounds>>
ReadProposal(c) ==
    /\ call[c].pc \in {"approve", "reject"}
    /\ IF proposal # "pending" THEN End(c)
       ELSE call' = [call EXCEPT ![c].pc = IF @ = "approve" THEN "copy" ELSE "close",
                                 ![c].action = IF At(c, "approve") THEN "approved"
                                                                   ELSE "rejected"]
    /\ UNCHANGED <<config, serving, rec, log, queue, govern, bounds>>

\* ... then promoteRealmForkToGlobal reads the fork, overwrites the global row,
\* appends a version ...
CopyFork(c) ==
    /\ At(c, "copy")
    /\ call' = [call EXCEPT ![c].pc = "promote", ![c].seen = fork.content]
    /\ UNCHANGED <<config, serving, rec, log, queue, govern, bounds>>

Promote(c) ==
    /\ At(c, "promote")
    /\ rec' = Based(call[c].seen, call[c].seen)
    /\ promoted' = TRUE
    /\ Goto(c, "publish")
    /\ UNCHANGED <<config, serving, log, queue, fork, proposal, bounds>>

PublishPromoted(c) ==
    /\ At(c, "publish")
    /\ AppendVersion(call[c].seen)
    /\ Goto(c, "close")
    /\ UNCHANGED <<config, serving, rec, queue, govern, bounds>>

\* ... and the proposal is closed, by its id.
CloseProposal(c) ==
    /\ At(c, "close")
    /\ proposal' = call[c].action
    /\ End(c)
    /\ UNCHANGED <<config, serving, rec, log, queue, fork, promoted, bounds>>

\* pruneRealmVersions with the smallest window: the head stays, and every
\* version whose hash a live row has.
Prune ==
    /\ MayStart /\ head # NoHash
    /\ versions' = {head} \cup (versions \cap {rec.origin, rec.stamp, fork.origin, fork.stamp})
    /\ UNCHANGED <<config, serving, rec, head, queue, govern, call, bounds>>

-----------------------------------------------------------------------------
\* The process dies or is redeployed, on this release or the next, and boots:
\* the reconcile runs before it serves.
Restart(new) ==
    /\ crashes < MaxCrashes /\ nextItem <= ItemsOn[dialect]
    /\ new \in {release, release + 1} \cap Releases
    /\ crashes' = crashes + 1
    /\ release' = new
    /\ serving' = FALSE
    /\ torn' = torn \cup {call[c].item : c \in {d \in Slots :
                              At(d, "undo") \/ (At(d, "ledger") /\ call[d].action = "adopt")}}
                    \cup (IF \E c \in Slots : call[c].pc \in {"publish", "close"}
                          THEN {None} ELSE {})
    /\ call' = [c \in Calls |-> IF c = Seeder THEN [Idle EXCEPT !.pc = "append"] ELSE Idle]
    /\ UNCHANGED <<dialect, policy, rec, log, item, nextItem, before, govern, edits>>

Start(c) ==
    \/ StartSweep(c)
    \/ \E i \in Items : StartUndo(c, i) \/ \E action \in Actions : StartResolve(c, i, action)
    \/ \E pc \in {"mdiff", "fdiff"} : StartMerge(c, pc)
    \/ \E pc \in {"approve", "reject"} : Enter(c, pc)

Step(c) ==
    \/ SweepNext(c) \/ GetDetail(c) \/ FetchRow(c) \/ LoadDiff(c) \/ ReloadDiff(c)
    \/ WriteAdopted(c) \/ SaveUndo(c) \/ Ledger(c) \/ LookUp(c) \/ Restore(c) \/ Reopen(c)
    \/ MergeDiff(c) \/ MergeWrite(c) \/ ForkDiff(c) \/ ForkWrite(c)
    \/ ReadProposal(c) \/ CopyFork(c) \/ Promote(c) \/ PublishPromoted(c) \/ CloseProposal(c)

Next ==
    \/ PublishDefault \/ ReadRow \/ Baseline \/ AdoptDefault \/ Record \/ ApplyReconcile
    \/ \E c \in Slots : Start(c) \/ Step(c)
    \/ \E f \in Fields, v \in Values : Edit(f, v)
    \/ Propose \/ Prune
    \/ \E new \in Releases : Restart(new)

Spec == Init /\ [][Next]_vars

-----------------------------------------------------------------------------
\* Undoing an adopt puts back, columns and hashes, the row the adopt replaced,
\* whatever happened to row, log and queue in between (SQLite; adopts cut off
\* by a crash aside).
UndoRestores ==
    [][\A c \in Slots :
         At(c, "restore") /\ At(c, "reopen")' /\ dialect = "sqlite"
           /\ call[c].item \notin torn
         => rec' = before[call[c].item]]_vars

\* An item says what happened to the row: kept or deferred, no adopt of it has
\* touched the row; adopted, one has (SQLite; adopts cut off by a crash aside).
LedgerTruth ==
    dialect = "sqlite" => \A i \in Items \ torn :
        /\ item[i].status \in {"kept", "deferred"} => before[i] = None
        /\ item[i].status = "adopted" => before[i] # None

\* Of two answers to an item that race the first stands, on either database:
\* an answer is never replaced by another, it is only taken back by an undo.
AnswerStands ==
    [][\A i \in Items :
         item[i].status \in {"kept", "adopted", "deferred"} =>
             item'[i].status \in {item[i].status, "open"}]_vars

\* A proposal that was rejected changed nothing, and one that was approved did
\* promote the fork (SQLite; an approval cut off by a crash aside).
ProposalTruth ==
    /\ proposal = "approved" => promoted
    /\ proposal = "rejected" /\ promoted => dialect = "postgres" \/ None \in torn

\* The bulk actions never overwrite a record that both sides have changed
\* (upgrade-review.ts: a genuine conflict can never be swept up).
SweepSparesConflicts ==
    [][\A c \in Slots :
         At(c, "write") /\ At(c, "undo")' /\ call[c].swept
         => Drift(rec.origin, rec.content, head) # "diverged"]_vars
=============================================================================
