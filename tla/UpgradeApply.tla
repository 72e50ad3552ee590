---------------------------- MODULE UpgradeApply ----------------------------
(***************************************************************************)
(* Applying and rolling back a release on a SQLite instance:               *)
(* upgrade-apply.ts and upgrade-rollback.ts over the run store, the        *)
(* maintenance flag, preflight and verify, wired as SQLiteAdapter does     *)
(* (db-sqlite.ts), with the server's boot, which migrates and reseeds the  *)
(* same database.                                                          *)
(*                                                                         *)
(* The whole database is one record, because that is what a snapshot       *)
(* copies and a restore puts back: the lock row, the maintenance flag and  *)
(* the upgrade's own bookkeeping go back in time with the data.  Each      *)
(* statement the code awaits is a step; a crash or an exception may come   *)
(* between any two.                                                        *)
(***************************************************************************)
EXTENDS Integers, Sequences, Functions

CONSTANTS
    Ops,          \* requests the server is serving at once
    MaxBuild,     \* builds and releases are 1..MaxBuild; batch b arrives with build b
    Families,     \* realm content families
    Provides,     \* [1..MaxBuild -> SUBSET Families], a batch's `provides`
    HeldChoices,  \* the deferral sets computeDeferral can return
    MayForce,     \* whether operators use `force`
    SameSecond,   \* whether two apply runs may begin in one second
    MaxRuns,      \* bound on apply runs ever begun
    MaxSnaps,     \* bound on snapshot files ever written
    Faults,       \* what may go wrong between two statements: "crash", "throw"
    MaxFaults     \* bound on faults

Batches  == 1 .. MaxBuild
RunIds   == 1 .. MaxRuns
Snaps    == 1 .. MaxSnaps
Statuses == {"absent", "running", "succeeded", "succeeded_with_pending", "rolled_back"}
LabelOfKind == [apply |-> "upgrade-apply", rollback |-> "upgrade-rollback",
                automation |-> "resolution-automation"]
Labels   == Range(LabelOfKind)
Nobody   == "nobody"

ASSUME ApplyConstants ==
    /\ MaxBuild \in Nat \ {0}
    /\ Provides \in [Batches -> SUBSET Families]
    /\ HeldChoices \subseteq SUBSET Batches
    /\ MayForce \in BOOLEAN /\ SameSecond \in BOOLEAN
    /\ MaxRuns \in Nat /\ MaxSnaps \in Nat /\ MaxFaults \in Nat
    /\ Faults \subseteq {"crash", "throw"}

VARIABLES
    db,       \* the database file
    files,    \* files[s]: the image in snapshot file s, or NoFile
    build,    \* the deployed code
    up,       \* the adapter's connection is open
    op,       \* op[o]: the call request o is executing
    nextRun, nextSnap, faults,    \* what was used up of the bounds
    free,     \* the numbers the present second has left for a run
    base,     \* history: base[r], the data when run r began
    resumed   \* history: the runs some apply picked up again

vars == <<db, files, build, up, op, nextRun, nextSnap, faults, free, base, resumed>>

-----------------------------------------------------------------------------
NoRun  == [status |-> "absent", to |-> 0, snap |-> 0]
NoFile == [none |-> TRUE]

Database ==
    [ holder  : Labels \cup {Nobody},
      stale   : BOOLEAN,                  \* acquired_at is past the window
      maint   : BOOLEAN,
      target  : 0 .. MaxBuild,            \* the newest accepted release, 0 if none
      runs    : [RunIds -> [status : Statuses, to : 0 .. MaxBuild, snap : 0 .. MaxSnaps]],
      urgent  : BOOLEAN,                  \* a P1 review item is unresolved
      open    : BOOLEAN,                  \* so is a pending item of the run begun last
      ledger  : SUBSET Batches,
      content : [Families -> 0 .. MaxBuild] ]

Data(d) == [ledger |-> d.ledger, content |-> d.content]

Idle == [pc |-> "idle", kind |-> "none", run |-> 0, to |-> 0, held |-> {},
         fresh |-> FALSE, snap |-> 0, listed |-> {}, prior |-> 0, path |-> "manual", step |-> 1]

\* The statements of the try blocks of applyUpgrade, rollbackUpgradeRun, withUpgradeLock.
InTry == {"begin", "maint", "plan", "snapshot", "ref", "schema", "reconcile",
          "verify", "clear", "finish", "retain", "drop", "unref", "restore", "undo",
          "automate"}

Present(d) == {r \in RunIds : d.runs[r].status # "absent"}

\* latestUpgradeRun('apply') orders by started_at, which counts seconds, and then
\* by id, which is random.  A run's number is its place in that order.
IsLatest(d, r) == r \in Present(d) /\ \A q \in Present(d) : q <= r

KindAsLabel(o) == op[o].kind
LabelOf(o) == LabelOfKind[op[o].kind]

HeldFamilies(held) == UNION {Provides[b] : b \in held}

Goto(o, pc) == op' = [op EXCEPT ![o].pc = pc]
Ghosts == <<nextRun, nextSnap, faults, free, base, resumed>>

\* The server is up on build 1, on data its own boot brought up to date or on
\* data of an earlier build (what a rollback across a deploy leaves).
Init ==
    /\ build = 1
    /\ up = TRUE
    /\ op = [o \in Ops |-> Idle]
    /\ files = [s \in Snaps |-> NoFile]
    /\ \E from \in 0 .. build :
         db = [holder |-> Nobody, stale |-> FALSE, maint |-> FALSE, target |-> 1,
               runs |-> [r \in RunIds |-> NoRun], urgent |-> FALSE, open |-> FALSE,
               ledger |-> 1 .. from, content |-> [f \in Families |-> from]]
    /\ nextRun = 1 /\ nextSnap = 1 /\ faults = 0
    /\ free = {}
    /\ base = [r \in RunIds |-> Data(db)]
    /\ resumed = {}

-----------------------------------------------------------------------------
(* Apply, up to the point where data changes.                              *)

\* r is the newest apply run and still running for release `to`.
NeverContinues(r, to) == FALSE
Continues(r, to) ==
    IsLatest(db, r) /\ db.runs[r].status = "running" /\ db.runs[r].to = to

\* Preflight's gates over the release the call read: nobody in the lock row,
\* however old the row is; no open P1; packages as new as the release's.
PreflightOk(to) ==
    /\ db.holder = Nobody
    /\ ~ db.urgent
    /\ build >= to

\* runUpgradeApply reads the newest accepted release and runs preflight.
StartApply(o, held, force) ==
    /\ up /\ op[o].pc = "idle" /\ db.target > 0
    /\ nextSnap <= MaxSnaps /\ (nextRun <= MaxRuns \/ \E r \in RunIds : Continues(r, db.target))
    /\ force \/ PreflightOk(db.target)
    /\ op' = [op EXCEPT ![o] = [Idle EXCEPT !.pc = "acquire", !.kind = "apply",
                                            !.to = db.target, !.held = held \cap (1 .. db.target)]]
    /\ UNCHANGED <<db, files, build, up, Ghosts>>

\* rollbackUpgradeRun reads the run's snapshot_ref before it takes the lock.
StartRollback(o, r) ==
    /\ up /\ op[o].pc = "idle" /\ db.runs[r].snap # 0
    /\ op' = [op EXCEPT ![o] = [Idle EXCEPT !.pc = "acquire", !.kind = "rollback",
                                            !.run = r, !.snap = db.runs[r].snap]]
    /\ UNCHANGED <<db, files, build, up, Ghosts>>

StartAutomation(o) ==
    /\ up /\ op[o].pc = "idle"
    /\ op' = [op EXCEPT ![o] = [Idle EXCEPT !.pc = "acquire", !.kind = "automation"]]
    /\ UNCHANGED <<db, files, build, up, Ghosts>>

\* tryAcquireUpgradeLock: free, the same label, or stale (UpgradeLock has its
\* statements); otherwise the call answers `busy`.
Takeable(label) == db.holder \in {Nobody, label} \/ db.stale
Entry == [apply |-> "begin", rollback |-> "restore", automation |-> "automate"]
Acquire(o) ==
    /\ op[o].pc = "acquire"
    /\ IF Takeable(LabelOf(o))
       THEN /\ db' = [db EXCEPT !.holder = LabelOf(o), !.stale = FALSE]
            /\ Goto(o, Entry[op[o].kind])
       ELSE /\ op' = [op EXCEPT ![o] = Idle]
            /\ UNCHANGED db
    /\ UNCHANGED <<files, build, up, Ghosts>>

\* Where a new run can come in the order: after all others, or, in the second of
\* the one before it, where that second has room.
Places ==
    IF SameSecond THEN {free, nextRun .. MaxRuns} ELSE {{nextRun} \cap RunIds}

\* Continue the newest apply run if it is still running for this release;
\* otherwise open a new one.
Begin(o) ==
    /\ op[o].pc = "begin"
    /\ \/ \E r \in RunIds :
            /\ Continues(r, op[o].to)
            /\ op' = [op EXCEPT ![o].pc = "maint", ![o].run = r]
            /\ resumed' = resumed \cup {r}
            /\ UNCHANGED <<db, nextRun, free, base>>
       \/ /\ \A r \in RunIds : ~ Continues(r, op[o].to)
          /\ \E second \in Places : \E r \in second :
               /\ free' = second \ {r}
               /\ nextRun' = IF r < nextRun THEN nextRun ELSE r + 1
               /\ db' = [db EXCEPT !.runs[r] = [status |-> "running", to |-> op[o].to,
                                                snap |-> 0],
                                   !.open = FALSE]
               /\ op' = [op EXCEPT ![o].pc = "maint", ![o].run = r, ![o].fresh = TRUE]
               /\ base' = [base EXCEPT ![r] = Data(db)]
          /\ UNCHANGED resumed
    /\ UNCHANGED <<files, build, up, nextSnap, faults>>

SetMaintenance(o) ==
    /\ op[o].pc = "maint"
    /\ db' = [db EXCEPT !.maint = TRUE]
    /\ Goto(o, "plan")
    /\ UNCHANGED <<files, build, up, Ghosts>>

\* The L1/L2 plan and the held batches are recorded on a fresh run only; an
\* unresolved code path is a P1 conflict.
RecordPlan(o) ==
    /\ op[o].pc = "plan"
    /\ db' = IF op[o].fresh /\ op[o].held # {}
             THEN [db EXCEPT !.urgent = TRUE, !.open = TRUE]
             ELSE db
    /\ Goto(o, "snapshot")
    /\ UNCHANGED <<files, build, up, Ghosts>>

\* The snapshot file holds the database as it is now: this run running, the
\* lock taken, maintenance up, and this run's reference not yet written.
Snapshot(o) ==
    /\ op[o].pc = "snapshot"
    /\ nextSnap <= MaxSnaps
    /\ nextSnap' = nextSnap + 1
    /\ files' = [files EXCEPT ![nextSnap] = db]
    /\ op' = [op EXCEPT ![o].pc = "ref", ![o].snap = nextSnap]
    /\ UNCHANGED <<db, build, up, nextRun, faults, free, base, resumed>>

SetRefOnce(o) ==
    /\ op[o].pc = "ref"
    /\ db' = IF op[o].fresh THEN [db EXCEPT !.runs[op[o].run].snap = op[o].snap] ELSE db
    /\ Goto(o, "schema")
    /\ UNCHANGED <<files, build, up, Ghosts>>
SetRef(o) ==
    /\ op[o].pc = "ref"
    /\ db' = [db EXCEPT !.runs[op[o].run].snap = op[o].snap]
    /\ Goto(o, "schema")
    /\ UNCHANGED <<files, build, up, Ghosts>>

-----------------------------------------------------------------------------
(* Apply, the data: L3, L4, verify and the way out.                        *)

\* The writes that follow a restore, in the order the code makes them: after a
\* failing batch, after a failing verify, and for a manual rollback.
FlagForgotten ==
    [ schema |-> <<"clear", "unref", "finish", "discard">>,
      verify |-> <<"clear", "audit", "unref", "finish", "discard">>,
      manual |-> <<"unref", "audit", "finish", "discard">> ]
UndoWrites ==
    [ schema |-> <<"clear", "unref", "finish", "discard">>,
      verify |-> <<"clear", "audit", "unref", "finish", "discard">>,
      manual |-> <<"clear", "unref", "audit", "finish", "discard">> ]

UndoWithoutRestore(o, path) ==
    op' = [op EXCEPT ![o].pc = "undo", ![o].path = path, ![o].step = 1]
StartUndo(o, path) ==
    op' = [op EXCEPT ![o].pc = "restore", ![o].path = path, ![o].step = 1]

\* runUpgradeMigrations: the deployed code's batches that are neither in the
\* ledger nor held, in order; a batch that fails stops the run there and the
\* catch block restores.
RunSchema(o) ==
    /\ op[o].pc = "schema"
    /\ LET todo == ((1 .. build) \ op[o].held) \ db.ledger IN
       \/ /\ db' = [db EXCEPT !.ledger = @ \cup todo]
          /\ Goto(o, "reconcile")
       \/ \E failing \in todo :
            /\ db' = [db EXCEPT !.ledger = @ \cup {b \in todo : b < failing}]
            /\ StartUndo(o, "schema")
    /\ UNCHANGED <<files, build, up, Ghosts>>

\* reconcileAllRealmFamilies adopts the deployed defaults into every family no
\* held batch provides; it may leave items for review, a P1 (a guardrail's, even
\* an adopted one), a pending one or both, and records the families it held.
Reconcile(o) ==
    /\ op[o].pc = "reconcile"
    /\ LET skipped == HeldFamilies(op[o].held) IN
       \E p1, pending \in BOOLEAN :
         db' = [db EXCEPT
                  !.content = [f \in Families |-> IF f \in skipped THEN @[f] ELSE build],
                  !.urgent = @ \/ p1,
                  !.open = @ \/ pending \/ skipped # {}]
    /\ Goto(o, "verify")
    /\ UNCHANGED <<files, build, up, Ghosts>>

\* verifyUpgrade: every batch the release declares and the call did not hold is
\* in the ledger; its other checks (tables, packages) may fail on their own.
LedgerComplete(o) == (1 .. op[o].to) \ op[o].held \subseteq db.ledger
VerifyTrusts(o) ==
    /\ op[o].pc = "verify"
    /\ Goto(o, "clear")
    /\ UNCHANGED <<db, files, build, up, Ghosts>>
Verify(o) ==
    /\ op[o].pc = "verify"
    /\ \/ LedgerComplete(o) /\ Goto(o, "clear")
       \/ StartUndo(o, "verify")
    /\ UNCHANGED <<db, files, build, up, Ghosts>>

ClearMaintenance(o) ==
    /\ op[o].pc = "clear"
    /\ db' = [db EXCEPT !.maint = FALSE]
    /\ Goto(o, "finish")
    /\ UNCHANGED <<files, build, up, Ghosts>>

\* countPendingReview, then finishUpgradeRun.
Finish(o) ==
    /\ op[o].pc = "finish"
    /\ LET r == op[o].run IN
       db' = [db EXCEPT !.runs[r].status =
                IF db.open THEN "succeeded_with_pending" ELSE "succeeded"]
    /\ Goto(o, "retain")
    /\ UNCHANGED <<files, build, up, Ghosts>>

\* Bounded retention: list the other retained runs, once; then, for each, delete
\* the file and clear its reference; at the end, release.
EveryRetained(o) == {r \in RunIds : db.runs[r].snap # 0}
Others(o) == {r \in RunIds \ {op[o].run} : db.runs[r].snap # 0}
Retain(o) ==
    /\ op[o].pc = "retain"
    /\ LET listed == {<<r, db.runs[r].snap>> : r \in Others(o)} IN
       op' = [op EXCEPT ![o].pc = IF listed = {} THEN "release" ELSE "drop",
                        ![o].listed = listed]
    /\ UNCHANGED <<db, files, build, up, Ghosts>>

DiscardPrior(o) ==
    /\ op[o].pc = "drop"
    /\ \E prior \in op[o].listed :
         /\ files' = [files EXCEPT ![prior[2]] = NoFile]
         /\ op' = [op EXCEPT ![o].pc = "unref", ![o].prior = prior[1],
                             ![o].listed = @ \ {prior}]
    /\ UNCHANGED <<db, build, up, Ghosts>>

ClearPriorRef(o) ==
    /\ op[o].pc = "unref"
    /\ db' = [db EXCEPT !.runs[op[o].prior].snap = 0]
    /\ Goto(o, IF op[o].listed = {} THEN "release" ELSE "drop")
    /\ UNCHANGED <<files, build, up, Ghosts>>

\* A pass of the resolution rules: it resolves what its rules match and never
\* a P1.
Automate(o) ==
    /\ op[o].pc = "automate"
    /\ \E left \in {FALSE, db.open} : db' = [db EXCEPT !.open = left]
    /\ Goto(o, "release")
    /\ UNCHANGED <<files, build, up, Ghosts>>

\* The finally block: free the lock row if it still has this call's label.
Release(o) ==
    /\ op[o].pc = "release"
    /\ db' = IF db.holder = LabelOf(o)
             THEN [db EXCEPT !.holder = Nobody, !.stale = FALSE] ELSE db
    /\ op' = [op EXCEPT ![o] = Idle]
    /\ UNCHANGED <<files, build, up, Ghosts>>

-----------------------------------------------------------------------------
(* Restoring, for an apply that failed and for a manual rollback.          *)

\* restoreSqliteAndReopen closes the connection, copies the file over the
\* database and opens it again.  With the file gone the copy throws, the
\* connection stays closed, and the finally block's release throws as well.
Restore(o) ==
    /\ op[o].pc = "restore"
    /\ IF files[op[o].snap] # NoFile
       THEN /\ db' = files[op[o].snap]
            /\ Goto(o, "undo")
            /\ UNCHANGED up
       ELSE /\ up' = FALSE
            /\ op' = [op EXCEPT ![o] = Idle]
            /\ UNCHANGED db
    /\ UNCHANGED <<files, build, Ghosts>>

\* One write of the tail, on the restored database; after the last, release.
UndoDb(write, r) ==
    CASE write = "clear"  -> [db EXCEPT !.maint = FALSE]
      [] write = "unref"  -> [db EXCEPT !.runs[r].snap = 0]
      [] write = "audit"  -> [db EXCEPT !.urgent = TRUE, !.open = TRUE]
      [] write = "finish" -> IF r \in Present(db)
                             THEN [db EXCEPT !.runs[r].status = "rolled_back"] ELSE db
      [] write = "discard" -> db
Undo(o) ==
    /\ op[o].pc = "undo"
    /\ LET writes == UndoWrites[op[o].path]
           write  == writes[op[o].step] IN
       /\ db' = UndoDb(write, op[o].run)
       /\ files' = IF write = "discard"
                   THEN [files EXCEPT ![op[o].snap] = NoFile] ELSE files
       /\ op' = IF op[o].step = Len(writes)
                THEN [op EXCEPT ![o].pc = "release"]
                ELSE [op EXCEPT ![o].step = @ + 1]
    /\ UNCHANGED <<build, up, Ghosts>>

-----------------------------------------------------------------------------
(* Around a call.                                                          *)

\* Any awaited statement of a try block may throw: only the finally block
\* runs.  (A failing batch is caught: see RunSchema.)
Throw(o) ==
    /\ op[o].pc \in InTry \ {"schema"}
    /\ "throw" \in Faults /\ faults < MaxFaults
    /\ faults' = faults + 1
    /\ Goto(o, "release")
    /\ UNCHANGED <<db, files, build, up, nextRun, nextSnap, free, base, resumed>>

\* The process dies, or is stopped to deploy the next build, and starts again.
\* Boot runs every batch of its code, held by an apply or not, then reseeds
\* content under a run of its own.  It neither takes the upgrade lock nor
\* looks at the maintenance flag.  (Only restarts of a server whose database
\* is open count against the bound.)
Boot(new) ==
    /\ up => "crash" \in Faults /\ faults < MaxFaults
    /\ faults' = IF up THEN faults + 1 ELSE faults
    /\ new \in {build, build + 1} \cap (1 .. MaxBuild)
    /\ build' = new
    /\ up' = TRUE
    /\ op' = [o \in Ops |-> Idle]
    /\ \E p1 \in BOOLEAN :
         db' = [db EXCEPT !.ledger = @ \cup (1 .. new),
                          !.content = [f \in Families |-> new],
                          !.urgent = @ \/ p1]
    /\ UNCHANGED <<files, nextRun, nextSnap, free, base, resumed>>

\* The release check accepts the next release.
AcceptRelease ==
    /\ up /\ db.target < MaxBuild
    /\ db' = [db EXCEPT !.target = @ + 1]
    /\ UNCHANGED <<files, build, up, op, Ghosts>>

\* An operator resolves the last P1, or the last pending item of the newest run.
Resolve(field) ==
    /\ up /\ db[field]
    /\ db' = [db EXCEPT ![field] = FALSE]
    /\ UNCHANGED <<files, build, up, op, Ghosts>>

\* Ten minutes pass since the lock row was written.
Elapse ==
    /\ db.holder # Nobody /\ ~ db.stale
    /\ db' = [db EXCEPT !.stale = TRUE]
    /\ UNCHANGED <<files, build, up, op, Ghosts>>

Start(o) ==
    \/ StartAutomation(o)
    \/ \E held \in HeldChoices, force \in {FALSE, MayForce} : StartApply(o, held, force)
    \/ \E r \in RunIds : StartRollback(o, r)

\* One step of a call that has started, exceptions aside.
Step(o) ==
    \/ Acquire(o) \/ Begin(o) \/ SetMaintenance(o) \/ RecordPlan(o) \/ Snapshot(o)
    \/ SetRef(o) \/ RunSchema(o) \/ Reconcile(o) \/ Verify(o) \/ ClearMaintenance(o)
    \/ Automate(o) \/ Finish(o) \/ Retain(o) \/ DiscardPrior(o) \/ ClearPriorRef(o)
    \/ Release(o) \/ Restore(o) \/ Undo(o)

Next ==
    \/ \E o \in Ops : Start(o) \/ Step(o) \/ Throw(o)
    \/ \E new \in Batches : Boot(new)
    \/ AcceptRelease
    \/ \E field \in {"urgent", "open"} : Resolve(field)
    \/ Elapse

Spec == Init /\ [][Next]_vars

\* A started call goes on unless the process dies, time passes, and a server
\* whose database is closed is restarted.
FairSpec ==
    /\ Spec
    /\ \A o \in Ops : WF_vars(Step(o))
    /\ WF_vars(Elapse)
    /\ WF_vars(~ up /\ Boot(build))

\* After a crash the operator clears the P1s and keeps re-running apply, with
\* `force` if they use it.
RetrySpec ==
    /\ FairSpec
    /\ SF_vars(Resolve("urgent"))
    /\ SF_vars(\E o \in Ops : StartApply(o, {}, MayForce))

-----------------------------------------------------------------------------
Image == Database \cup {NoFile}

TypeOK ==
    /\ db \in Database
    /\ files \in [Snaps -> Image]
    /\ build \in Batches /\ up \in BOOLEAN
    /\ op \in [Ops -> [pc : InTry \cup {"idle", "acquire", "release"},
                       kind : DOMAIN LabelOfKind \cup {"none"},
                       run : 0 .. MaxRuns, to : 0 .. MaxBuild, held : SUBSET Batches,
                       fresh : BOOLEAN, snap : 0 .. MaxSnaps,
                       listed : SUBSET (RunIds \X Snaps), prior : 0 .. MaxRuns,
                       path : DOMAIN UndoWrites, step : 1 .. 5]]
    /\ nextRun \in 1 .. MaxRuns + 1 /\ nextSnap \in 1 .. MaxSnaps + 1
    /\ faults \in 0 .. MaxFaults /\ free \subseteq RunIds
    /\ base \in [RunIds -> [ledger : SUBSET Batches, content : [Families -> 0 .. MaxBuild]]]
    /\ resumed \in SUBSET RunIds

\* Maintenance is up only while the newest apply run is running, in the
\* database and in every image a restore could put back: no finished run
\* leaves users shut out behind it.  (A run cut short does: MaintenanceCleared.)
MaintenanceOwned ==
    \A d \in {db} \cup Range(files) :
        d # NoFile /\ d.maint =>
            \E r \in RunIds : IsLatest(d, r) /\ d.runs[r].status = "running"

\* While an apply changes schema or content its run is the newest and running,
\* the lock row has its label, maintenance is up, and the snapshot it would
\* restore is on disk and on the run's row.
WorkIsGuarded ==
    \A o \in Ops : op[o].pc \in {"schema", "reconcile", "verify"} =>
        /\ IsLatest(db, op[o].run)
        /\ db.runs[op[o].run].status = "running"
        /\ db.runs[op[o].run].snap = op[o].snap
        /\ db.holder = "upgrade-apply" /\ db.maint
        /\ files[op[o].snap] # NoFile

\* At most one run is running per release: a retry after a crash continues the
\* run it finds instead of opening another beside it.  (So it is unless two runs
\* begin in one second: the newest may then not be the one begun last.)
OneRunningPerRelease ==
    \A r, q \in Present(db) :
        /\ db.runs[r].status = "running" /\ db.runs[q].status = "running"
        /\ db.runs[r].to = db.runs[q].to
        => r = q

\* The newest run can be rolled back once it has succeeded: its snapshot is
\* recorded and on disk, through later retention, crashes and restores.
RollbackAvailable ==
    \A r \in RunIds :
        IsLatest(db, r) /\ db.runs[r].status \in {"succeeded", "succeeded_with_pending"} =>
            db.runs[r].snap # 0 /\ files[db.runs[r].snap] # NoFile

RollsBack(r) == db.runs[r].status # "rolled_back" /\ db'.runs[r].status = "rolled_back"

\* A run marked rolled back has left schema and content as they were when it
\* began, provided no other apply had picked it up after a crash or exception.
FreshRollbackExact ==
    [][\A r \in RunIds \ resumed : RollsBack(r) => Data(db') = base[r]]_vars

\* A run is only ever reported successful on a database whose ledger has every
\* batch the release declares and the call did not hold.
SuccessIsComplete ==
    [][\A o \in Ops : op[o].pc = "finish" /\ op'[o].pc = "retain" => LedgerComplete(o)']_vars

\* One apply at a time: no two are past the mutex together (upgrade-apply.ts,
\* step 2).
OneApplyAtATime ==
    \A o, p \in Ops :
        /\ op[o].kind = "apply" /\ op[o].pc \in InTry
        /\ op[p].kind = "apply" /\ op[p].pc \in InTry
        => o = p

\* An operation raises maintenance and "clears it in a `finally`"
\* (upgrade-maintenance.ts): with no call in progress it is down.  The code
\* clears it only on the way it expects: after an exception it stays up.
MaintenanceCleared ==
    db.maint => \E o \in Ops : op[o].pc # "idle"

\* A run that a crash or an exception left running is brought to an end by
\* running apply again, unless a newer release has replaced its own or the
\* operator keeps rolling back instead (runs that begin in different seconds).
CrashedRunResumes ==
    \A r \in RunIds :
        ( /\ IsLatest(db, r) /\ db.runs[r].status = "running"
          /\ db.runs[r].to = db.target )
        ~> \/ ~ (db.runs[r].status = "running" /\ db.runs[r].to = db.target)
           \/ \E o \in Ops : op[o].kind = "rollback"
=============================================================================
