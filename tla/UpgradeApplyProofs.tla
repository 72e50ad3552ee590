------------------------- MODULE UpgradeApplyProofs -------------------------
(***************************************************************************)
(* Theorems about UpgradeApply for any builds, families, held batches and  *)
(* bounds.                                                                 *)
(***************************************************************************)
EXTENDS UpgradeApply, TLAPS

Paths == {"schema", "verify", "manual"}
Writes == {"clear", "unref", "audit", "finish", "discard"}

\* The three tails: where they end, and that they clear maintenance first.
LEMMA Tails ==
    /\ DOMAIN UndoWrites = Paths
    /\ \A p \in Paths : /\ Len(UndoWrites[p]) \in 1 .. 5
                        /\ UndoWrites[p][1] = "clear"
                        /\ \A i \in 1 .. Len(UndoWrites[p]) : UndoWrites[p][i] \in Writes
BY DEF UndoWrites, Paths, Writes

\* Every kind of call has a label of its own.
LEMMA KindLabels ==
    /\ DOMAIN LabelOfKind = {"apply", "rollback", "automation"}
    /\ LabelOfKind["apply"] = "upgrade-apply"
    /\ \A k \in {"apply", "rollback", "automation"} :
         LabelOfKind[k] \in Labels /\ (LabelOfKind[k] = "upgrade-apply" => k = "apply")
BY DEF LabelOfKind, Labels, Range

-----------------------------------------------------------------------------
\* A call's record, as TypeOK has it.
Calls == [pc : InTry \cup {"idle", "acquire", "release"},
          kind : DOMAIN LabelOfKind \cup {"none"},
          run : 0 .. MaxRuns, to : 0 .. MaxBuild, held : SUBSET Batches,
          fresh : BOOLEAN, snap : 0 .. MaxSnaps,
          listed : SUBSET (RunIds \X Snaps), prior : 0 .. MaxRuns,
          path : DOMAIN UndoWrites, step : 1 .. 5]

LEMMA IdleTyped == Idle \in Calls
BY ApplyConstants, Tails DEF Idle, Calls, Paths

LEMMA TypedOp == TypeOK => op \in [Ops -> Calls]
BY DEF TypeOK, Calls

\* What typing needs of a call besides: it has a kind once it started, a
\* snapshot to restore where it may restore one, and a write to make next.
CallOK(c) ==
    /\ c.pc # "idle" => c.kind \in DOMAIN LabelOfKind
    /\ c.pc = "acquire" /\ c.kind = "rollback" => c.snap # 0
    /\ c.pc \in {"ref", "schema", "reconcile", "verify", "restore", "undo"} => c.snap # 0
    /\ c.step <= Len(UndoWrites[c.path])

WellFormed == \A o \in Ops : CallOK(op[o])
TypeInv == TypeOK /\ WellFormed

\* TypeOK, but for the database and the calls.
RestOK ==
    /\ files \in [Snaps -> Image]
    /\ build \in Batches /\ up \in BOOLEAN
    /\ nextRun \in 1 .. MaxRuns + 1 /\ nextSnap \in 1 .. MaxSnaps + 1
    /\ faults \in 0 .. MaxFaults /\ free \subseteq RunIds
    /\ base \in [RunIds -> [ledger : SUBSET Batches, content : [Families -> 0 .. MaxBuild]]]
    /\ resumed \in SUBSET RunIds

LEMMA RestKept == TypeInv /\ UNCHANGED <<files, build, up, Ghosts>> => RestOK'
BY DEF TypeInv, TypeOK, RestOK, Ghosts

\* A step that changes one call is typed if what it puts there is.
LEMMA CallTyped ==
    ASSUME TypeInv, NEW o \in Ops, db' \in Database, RestOK',
           NEW c \in Calls, CallOK(c), op' = [op EXCEPT ![o] = c]
    PROVE  TypeInv'
<1>1. op' \in [Ops -> Calls]
  BY TypedOp DEF TypeInv
<1>2. TypeOK'
  BY <1>1 DEF TypeOK, RestOK, Calls
<1>3. WellFormed'
  BY TypedOp DEF TypeInv, WellFormed
<1> QED
  BY <1>2, <1>3 DEF TypeInv

\* A started call that keeps its kind and its place in the tail stays well formed.
LEMMA StillOK ==
    ASSUME NEW c \in Calls, CallOK(c), c.pc # "idle",
           NEW d \in Calls, d.pc \in InTry \cup {"release"},
           d.kind = c.kind, d.path = c.path, d.step = c.step,
           d.pc \in {"ref", "schema", "reconcile", "verify", "restore", "undo"} => d.snap # 0
    PROVE  CallOK(d)
BY DEF CallOK, InTry

\* The other ways a call's record changes before the data does.
LEMMA AutomationStarts ==
    LET c == [Idle EXCEPT !.pc = "acquire", !.kind = "automation"]
    IN  c \in Calls /\ CallOK(c)
<1> DEFINE c == [Idle EXCEPT !.pc = "acquire", !.kind = "automation"]
<1>1. c \in Calls /\ c.pc = "acquire" /\ c.step = 1 /\ c.path = "manual" /\ c.kind = "automation"
  BY IdleTyped, KindLabels DEF Calls, Idle
<1>2. c.kind \in DOMAIN LabelOfKind /\ (c.kind = "rollback" => c.snap # 0)
  BY KindLabels DEF Idle
<1> HIDE DEF c
<1>3. CallOK(c)
  BY <1>1, <1>2, Tails DEF CallOK, Paths
<1> QED
  BY <1>1, <1>3 DEF c

LEMMA ApplyStarts ==
    ASSUME NEW to \in 0 .. MaxBuild, NEW held \in SUBSET Batches
    PROVE  LET c == [Idle EXCEPT !.pc = "acquire", !.kind = "apply", !.to = to, !.held = held]
           IN  c \in Calls /\ CallOK(c)
<1> DEFINE c == [Idle EXCEPT !.pc = "acquire", !.kind = "apply", !.to = to, !.held = held]
<1>1. c \in Calls /\ c.pc = "acquire" /\ c.step = 1 /\ c.path = "manual" /\ c.kind = "apply"
  BY IdleTyped, KindLabels DEF Calls, Idle
<1>2. c.kind \in DOMAIN LabelOfKind /\ (c.kind = "rollback" => c.snap # 0)
  BY KindLabels DEF Idle
<1> HIDE DEF c
<1>3. CallOK(c)
  BY <1>1, <1>2, Tails DEF CallOK, Paths
<1> QED
  BY <1>1, <1>3 DEF c

LEMMA RollbackStarts ==
    ASSUME NEW run \in 0 .. MaxRuns, NEW snap \in 0 .. MaxSnaps, snap # 0
    PROVE  LET c == [Idle EXCEPT !.pc = "acquire", !.kind = "rollback", !.run = run, !.snap = snap]
           IN  c \in Calls /\ CallOK(c)
<1> DEFINE c == [Idle EXCEPT !.pc = "acquire", !.kind = "rollback", !.run = run, !.snap = snap]
<1>1. c \in Calls /\ c.pc = "acquire" /\ c.step = 1 /\ c.path = "manual" /\ c.kind = "rollback"
  BY IdleTyped, KindLabels DEF Calls, Idle
<1>2. c.kind \in DOMAIN LabelOfKind /\ (c.kind = "rollback" => c.snap # 0)
  BY KindLabels DEF Idle
<1> HIDE DEF c
<1>3. CallOK(c)
  BY <1>1, <1>2, Tails DEF CallOK, Paths
<1> QED
  BY <1>1, <1>3 DEF c

LEMMA CallContinues ==
    ASSUME NEW c \in Calls, NEW r \in 0 .. MaxRuns
    PROVE  LET d == [c EXCEPT !.pc = "maint", !.run = r] IN
           d \in Calls /\ d.pc = "maint" /\ d.kind = c.kind /\ d.step = c.step /\ d.path = c.path
BY DEF Calls, InTry

LEMMA CallOpens ==
    ASSUME NEW c \in Calls, NEW r \in 0 .. MaxRuns
    PROVE  LET d == [c EXCEPT !.pc = "maint", !.run = r, !.fresh = TRUE] IN
           d \in Calls /\ d.pc = "maint" /\ d.kind = c.kind /\ d.step = c.step /\ d.path = c.path
BY DEF Calls, InTry

LEMMA CallSnaps ==
    ASSUME NEW c \in Calls, NEW s \in 0 .. MaxSnaps
    PROVE  LET d == [c EXCEPT !.pc = "ref", !.snap = s] IN
           d \in Calls /\ d.pc = "ref" /\ d.snap = s /\ d.kind = c.kind
             /\ d.step = c.step /\ d.path = c.path
BY DEF Calls, InTry

\* The commonest case: the call goes on to another statement.
LEMMA GotoTyped ==
    ASSUME TypeInv, NEW o \in Ops, db' \in Database, RestOK',
           op[o].pc \notin {"idle", "acquire"}, NEW pc \in InTry \cup {"release"}, Goto(o, pc),
           pc \in {"ref", "schema", "reconcile", "verify", "restore", "undo"} => op[o].snap # 0
    PROVE  TypeInv'
<1> DEFINE c == [op[o] EXCEPT !.pc = pc]
<1>1. op[o] \in Calls /\ CallOK(op[o])
  BY TypedOp DEF TypeInv, WellFormed
<1>2. c \in Calls /\ c.pc = pc /\ c.kind = op[o].kind /\ c.snap = op[o].snap
        /\ c.step = op[o].step /\ c.path = op[o].path
  BY <1>1 DEF Calls
<1>3. CallOK(c)
  BY <1>1, <1>2 DEF CallOK, InTry
<1>4. op' = [op EXCEPT ![o] = c]
  BY TypedOp DEF Goto, TypeInv
<1> QED
  BY <1>2, <1>3, <1>4, CallTyped

LEMMA TypeInit == Init => TypeInv
<1> SUFFICES ASSUME Init PROVE TypeInv
  OBVIOUS
<1>1. db \in Database
  BY ApplyConstants, KindLabels DEF Init, Database, NoRun, Statuses, Batches, RunIds, Nobody
<1>2. CallOK(Idle)
  BY Tails DEF CallOK, Idle, Paths
<1>3. TypeOK
  <2>1. op \in [Ops -> Calls]
    BY IdleTyped DEF Init
  <2>2. files \in [Snaps -> Image] /\ build \in Batches /\ up \in BOOLEAN
    BY ApplyConstants DEF Init, Image, Batches
  <2>3. base \in [RunIds -> [ledger : SUBSET Batches, content : [Families -> 0 .. MaxBuild]]]
    BY <1>1 DEF Init, Data, Database
  <2>4. nextRun \in 1 .. MaxRuns + 1 /\ nextSnap \in 1 .. MaxSnaps + 1 /\ faults \in 0 .. MaxFaults
    BY ApplyConstants DEF Init
  <2> QED
    BY <1>1, <2>1, <2>2, <2>3, <2>4 DEF TypeOK, Calls, Init
<1>4. WellFormed
  BY <1>2 DEF Init, WellFormed
<1> QED
  BY <1>3, <1>4 DEF TypeInv

\* Writing a run's snapshot reference, or its status, leaves a database.
LEMMA RunSnapTyped ==
    ASSUME NEW d \in Database, NEW r, NEW s \in 0 .. MaxSnaps
    PROVE  [d EXCEPT !.runs[r].snap = s] \in Database
<1>1. [d.runs EXCEPT ![r].snap = s]
        \in [RunIds -> [status : Statuses, to : 0 .. MaxBuild, snap : 0 .. MaxSnaps]]
  BY DEF Database
<1>2. [d EXCEPT !.runs[r].snap = s] = [d EXCEPT !.runs = [d.runs EXCEPT ![r].snap = s]]
  BY DEF Database
<1> QED
  BY <1>1, <1>2 DEF Database

LEMMA RunStatusTyped ==
    ASSUME NEW d \in Database, NEW r, NEW s \in Statuses
    PROVE  [d EXCEPT !.runs[r].status = s] \in Database
<1>1. [d.runs EXCEPT ![r].status = s]
        \in [RunIds -> [status : Statuses, to : 0 .. MaxBuild, snap : 0 .. MaxSnaps]]
  BY DEF Database
<1>2. [d EXCEPT !.runs[r].status = s] = [d EXCEPT !.runs = [d.runs EXCEPT ![r].status = s]]
  BY DEF Database
<1> QED
  BY <1>1, <1>2 DEF Database

\* The statements before the data changes.
LEMMA TypeBefore ==
    ASSUME TypeInv, NEW o \in Ops,
           \/ Start(o) \/ Acquire(o) \/ Begin(o) \/ SetMaintenance(o) \/ RecordPlan(o)
           \/ Snapshot(o) \/ SetRef(o)
    PROVE  TypeInv'
<1> USE ApplyConstants DEF Batches, RunIds, Snaps
<1>1. op[o] \in Calls /\ CallOK(op[o]) /\ db \in Database
  BY TypedOp DEF TypeInv, TypeOK, WellFormed
<1>2. CASE Start(o)
  <2>1. CASE StartAutomation(o)
    <3> DEFINE c == [Idle EXCEPT !.pc = "acquire", !.kind = "automation"]
    <3>1. c \in Calls /\ CallOK(c)
      BY AutomationStarts
    <3> QED
      BY <1>1, <2>1, <3>1, CallTyped, RestKept DEF StartAutomation
  <2>2. ASSUME NEW held \in HeldChoices, NEW force \in {FALSE, MayForce},
               StartApply(o, held, force)
        PROVE  TypeInv'
    <3> DEFINE c == [Idle EXCEPT !.pc = "acquire", !.kind = "apply",
                                 !.to = db.target, !.held = held \cap (1 .. db.target)]
    <3>1. db.target \in 0 .. MaxBuild /\ held \in SUBSET Batches
      BY <1>1 DEF Database
    <3>2. held \cap (1 .. db.target) \in SUBSET Batches
      BY <3>1
    <3>3. c \in Calls /\ CallOK(c)
      BY <3>1, <3>2, ApplyStarts
    <3> QED
      BY <1>1, <2>2, <3>3, CallTyped, RestKept DEF StartApply
  <2>3. ASSUME NEW r \in RunIds, StartRollback(o, r)
        PROVE  TypeInv'
    <3> DEFINE c == [Idle EXCEPT !.pc = "acquire", !.kind = "rollback",
                                 !.run = r, !.snap = db.runs[r].snap]
    <3>1. db.runs[r].snap \in 0 .. MaxSnaps /\ db.runs[r].snap # 0
      BY <1>1, <2>3 DEF Database, StartRollback
    <3>2. r \in 0 .. MaxRuns
      OBVIOUS
    <3>3. c \in Calls /\ CallOK(c)
      BY <3>1, <3>2, RollbackStarts
    <3> QED
      BY <1>1, <2>3, <3>3, CallTyped, RestKept DEF StartRollback
  <2> QED
    BY <1>2, <2>1, <2>2, <2>3 DEF Start
<1>3. CASE Acquire(o)
  <2>1. RestOK'
    BY <1>3, RestKept DEF Acquire
  <2>2. CASE Takeable(LabelOf(o))
    <3> DEFINE c == [op[o] EXCEPT !.pc = Entry[op[o].kind]]
    <3>1. db' \in Database
      <4>1. LabelOf(o) \in Labels
        BY <1>1, <1>3, KindLabels DEF Acquire, LabelOf, CallOK
      <4>2. db' = [db EXCEPT !.holder = LabelOf(o), !.stale = FALSE] /\ db \in Database
        BY <1>1, <1>3, <2>2 DEF Acquire
      <4> QED BY ONLY <4>1, <4>2 DEF Database
    <3>2. op[o].kind \in DOMAIN LabelOfKind /\ op[o].pc = "acquire"
      BY <1>1, <1>3 DEF Acquire, CallOK
    <3>3. Entry[op[o].kind] \in InTry
      BY <3>2, KindLabels DEF Entry, InTry
    <3>4. c \in Calls /\ c.pc = Entry[op[o].kind] /\ c.kind = op[o].kind /\ c.snap = op[o].snap
            /\ c.step = op[o].step /\ c.path = op[o].path
      BY <1>1, <3>3 DEF Calls
    <3>5. c.pc \in InTry /\ (c.pc = "restore" => c.snap # 0)
            /\ c.pc \notin {"ref", "schema", "reconcile", "verify", "undo"}
      BY <1>1, <3>2, <3>4, KindLabels DEF Entry, InTry, CallOK
    <3>6. CallOK(c)
      BY <1>1, <3>2, <3>4, <3>5, StillOK
    <3>7. op' = [op EXCEPT ![o] = c]
      BY <1>3, <2>2, TypedOp DEF Acquire, Goto, TypeInv
    <3> QED
      BY <2>1, <3>1, <3>7, <3>4, <3>6, CallTyped
  <2>3. CASE ~ Takeable(LabelOf(o))
    <3>1. CallOK(Idle)
      BY Tails DEF CallOK, Idle, Paths
    <3> QED
      BY <1>1, <1>3, <2>1, <2>3, <3>1, IdleTyped, CallTyped DEF Acquire
  <2> QED
    BY <2>2, <2>3
<1>4. CASE Begin(o)
  <2>1. ASSUME NEW r \in RunIds, op' = [op EXCEPT ![o].pc = "maint", ![o].run = r],
               resumed' = resumed \cup {r}, UNCHANGED <<db, nextRun, free, base>>
        PROVE  TypeInv'
    <3> DEFINE c == [op[o] EXCEPT !.pc = "maint", !.run = r]
    <3>0. r \in 0 .. MaxRuns
      OBVIOUS
    <3>1. RestOK'
      BY <1>4, <2>1 DEF Begin, TypeInv, TypeOK, RestOK
    <3>2. c \in Calls /\ c.pc = "maint" /\ c.kind = op[o].kind
            /\ c.step = op[o].step /\ c.path = op[o].path
      BY <1>1, <3>0, CallContinues
    <3>4. CallOK(c)
      BY <1>1, <1>4, <3>2, StillOK DEF Begin, InTry
    <3>3. op' = [op EXCEPT ![o] = c]
      BY <2>1, TypedOp DEF TypeInv
    <3> QED
      BY <1>1, <2>1, <3>1, <3>2, <3>3, <3>4, CallTyped
  <2>2. ASSUME NEW second \in Places, NEW r \in second,
               free' = second \ {r}, nextRun' = IF r < nextRun THEN nextRun ELSE r + 1,
               db' = [db EXCEPT !.runs[r] = [status |-> "running", to |-> op[o].to,
                                             snap |-> 0],
                                !.open = FALSE],
               op' = [op EXCEPT ![o].pc = "maint", ![o].run = r, ![o].fresh = TRUE],
               base' = [base EXCEPT ![r] = Data(db)], UNCHANGED resumed
        PROVE  TypeInv'
    <3> DEFINE c == [op[o] EXCEPT !.pc = "maint", !.run = r, !.fresh = TRUE]
    <3>1. second \subseteq RunIds
      BY DEF Places, TypeInv, TypeOK
    <3>0. r \in RunIds /\ r \in 0 .. MaxRuns
      BY <3>1
    <3>2. RestOK'
      <4>0. nextRun' \in 1 .. MaxRuns + 1 /\ free' \subseteq RunIds
        BY <2>2, <3>0, <3>1 DEF TypeInv, TypeOK
      <4>1. Data(db) \in [ledger : SUBSET Batches, content : [Families -> 0 .. MaxBuild]]
        BY <1>1 DEF Data, Database
      <4> QED
        BY <1>4, <2>2, <4>0, <4>1 DEF Begin, TypeInv, TypeOK, RestOK
    <3>3. c \in Calls /\ c.pc = "maint" /\ c.kind = op[o].kind
            /\ c.step = op[o].step /\ c.path = op[o].path
      BY <1>1, <3>0, CallOpens
    <3>6. CallOK(c)
      BY <1>1, <1>4, <3>3, StillOK DEF Begin, InTry
    <3>4. op' = [op EXCEPT ![o] = c]
      BY <2>2, TypedOp DEF TypeInv
    <3>5. db' \in Database
      <4> DEFINE new == [status |-> "running", to |-> op[o].to, snap |-> 0]
      <4>1. op[o].to \in 0 .. MaxBuild
        BY <1>1 DEF Calls
      <4>2. new \in [status : Statuses, to : 0 .. MaxBuild, snap : 0 .. MaxSnaps]
        BY <4>1 DEF Statuses
      <4>3. db' = [db EXCEPT !.runs = [db.runs EXCEPT ![r] = new], !.open = FALSE]
        BY <1>1, <2>2 DEF Database
      <4> HIDE DEF new
      <4>4. [db.runs EXCEPT ![r] = new]
              \in [RunIds -> [status : Statuses, to : 0 .. MaxBuild, snap : 0 .. MaxSnaps]]
        BY <1>1, <4>2 DEF Database
      <4> QED
        BY <1>1, <4>3, <4>4 DEF Database
    <3> QED
      BY <3>2, <3>3, <3>4, <3>5, <3>6, CallTyped
  <2> QED
    BY <1>4, <2>1, <2>2 DEF Begin
<1>5. CASE SetMaintenance(o)
  <2>1. db' \in Database
    BY <1>1, <1>5 DEF SetMaintenance, Database
  <2> QED
    BY <1>5, <2>1, GotoTyped, RestKept DEF SetMaintenance, InTry
<1>6. CASE RecordPlan(o)
  <2>1. db' \in Database
    BY <1>1, <1>6 DEF RecordPlan, Database
  <2> QED
    BY <1>6, <2>1, GotoTyped, RestKept DEF RecordPlan, InTry
<1>7. CASE Snapshot(o)
  <2> DEFINE c == [op[o] EXCEPT !.pc = "ref", !.snap = nextSnap]
  <2>0. nextSnap \in 0 .. MaxSnaps /\ nextSnap # 0
    BY <1>7 DEF Snapshot, TypeInv, TypeOK
  <2>1. nextSnap \in Snaps
    BY <1>7 DEF Snapshot, TypeInv, TypeOK
  <2>2. RestOK'
    BY <1>1, <1>7, <2>1, SMTT(20) DEF Snapshot, TypeInv, TypeOK, RestOK, Image
  <2>3. c \in Calls /\ c.pc = "ref" /\ c.snap = nextSnap /\ c.kind = op[o].kind
          /\ c.step = op[o].step /\ c.path = op[o].path
    BY <1>1, <2>0, CallSnaps
  <2>5. CallOK(c)
    BY <1>1, <1>7, <2>0, <2>3, StillOK DEF Snapshot, InTry
  <2>4. op' = [op EXCEPT ![o] = c]
    BY <1>7, TypedOp DEF Snapshot, TypeInv
  <2> QED
    BY <1>1, <1>7, <2>2, <2>3, <2>4, <2>5, CallTyped DEF Snapshot
<1>8. CASE SetRef(o)
  <2>1. db' \in Database
    BY <1>1, <1>8, RunSnapTyped DEF SetRef, Calls
  <2> QED
    BY <1>1, <1>8, <2>1, GotoTyped, RestKept DEF SetRef, InTry, CallOK
<1> QED
  BY <1>2, <1>3, <1>4, <1>5, <1>6, <1>7, <1>8

\* Where a failing batch or verify goes.
LEMMA UndoStarts ==
    ASSUME TypeInv, NEW o \in Ops, UNCHANGED <<files, build, up, Ghosts>>, db' \in Database,
           op[o].pc \in {"schema", "verify"}, NEW path \in {"schema", "verify"}, StartUndo(o, path)
    PROVE  TypeInv'
<1> DEFINE c == [op[o] EXCEPT !.pc = "restore", !.path = path, !.step = 1]
<1>1. op[o] \in Calls /\ CallOK(op[o])
  BY TypedOp DEF TypeInv, WellFormed
<1>2. c \in Calls /\ c.pc = "restore" /\ c.snap = op[o].snap /\ c.kind = op[o].kind
        /\ c.path \in Paths /\ c.step = 1
  <2>1. path \in Paths /\ path \in DOMAIN UndoWrites
    BY Tails DEF Paths
  <2>2. "restore" \in InTry /\ 1 \in 1 .. 5
    BY DEF InTry
  <2>3. c \in Calls
    BY <1>1, <2>1, <2>2 DEF Calls
  <2>4. c.pc = "restore" /\ c.snap = op[o].snap /\ c.kind = op[o].kind
          /\ c.path = path /\ c.step = 1
    BY <1>1 DEF Calls
  <2> QED
    BY <2>1, <2>3, <2>4
<1>3. op' = [op EXCEPT ![o] = c]
  BY TypedOp DEF StartUndo, TypeInv
<1> HIDE DEF c
<1>4. CallOK(c)
  BY <1>1, <1>2, Tails DEF CallOK
<1> QED
  BY <1>2, <1>3, <1>4, CallTyped, RestKept

\* The statements that change data, and the way out.
LEMMA TypeDuring ==
    ASSUME TypeInv, NEW o \in Ops,
           \/ RunSchema(o) \/ Reconcile(o) \/ Verify(o) \/ ClearMaintenance(o) \/ Automate(o)
           \/ Finish(o) \/ Retain(o) \/ DiscardPrior(o) \/ ClearPriorRef(o) \/ Release(o)
    PROVE  TypeInv'
<1> USE ApplyConstants
<1>1. op[o] \in Calls /\ CallOK(op[o]) /\ db \in Database
  BY TypedOp DEF TypeInv, TypeOK, WellFormed
<1>2. CASE RunSchema(o)
  <2> DEFINE todo == ((1 .. build) \ op[o].held) \ db.ledger
  <2>1. todo \in SUBSET Batches
    BY DEF TypeInv, TypeOK, Batches
  <2>2. CASE db' = [db EXCEPT !.ledger = @ \cup todo] /\ Goto(o, "reconcile")
    <3> HIDE DEF todo
    <3>1. db' \in Database
      BY <1>1, <2>1, <2>2 DEF Database
    <3> QED
      BY <1>1, <1>2, <2>2, <3>1, GotoTyped, RestKept DEF RunSchema, InTry, CallOK
  <2>3. ASSUME NEW failing \in todo,
               db' = [db EXCEPT !.ledger = @ \cup {b \in todo : b < failing}],
               StartUndo(o, "schema")
        PROVE  TypeInv'
    <3> HIDE DEF todo
    <3>1. db' \in Database
      BY <1>1, <2>1, <2>3 DEF Database
    <3> QED
      BY <1>2, <2>3, <3>1, UndoStarts DEF RunSchema
  <2> QED
    BY <1>2, <2>2, <2>3 DEF RunSchema
<1>3. CASE Reconcile(o)
  <2>1. PICK p1 \in BOOLEAN, pending \in BOOLEAN :
          db' = [db EXCEPT
                  !.content = [f \in Families |->
                                 IF f \in HeldFamilies(op[o].held) THEN @[f] ELSE build],
                  !.urgent = @ \/ p1,
                  !.open = @ \/ pending \/ HeldFamilies(op[o].held) # {}]
    BY <1>3 DEF Reconcile
  <2>2. [f \in Families |-> IF f \in HeldFamilies(op[o].held) THEN db.content[f] ELSE build]
          \in [Families -> 0 .. MaxBuild]
    BY <1>1 DEF Database, TypeInv, TypeOK, Batches
  <2>3. db' \in Database
    BY <1>1, <2>1, <2>2 DEF Database
  <2> QED
    BY <1>1, <1>3, <2>3, GotoTyped, RestKept DEF Reconcile, InTry, CallOK
<1>4. CASE Verify(o)
  <2>1. db' \in Database
    BY <1>1, <1>4 DEF Verify
  <2>2. CASE Goto(o, "clear")
    BY <1>4, <2>1, <2>2, GotoTyped, RestKept DEF Verify, InTry
  <2>3. CASE StartUndo(o, "verify")
    BY <1>4, <2>1, <2>3, UndoStarts DEF Verify
  <2> QED
    BY <1>4, <2>2, <2>3 DEF Verify
<1>5. CASE ClearMaintenance(o)
  <2>1. db' \in Database
    BY <1>1, <1>5 DEF ClearMaintenance, Database
  <2> QED
    BY <1>5, <2>1, GotoTyped, RestKept DEF ClearMaintenance, InTry
<1>6. CASE Automate(o)
  <2>1. db' \in Database
    BY <1>1, <1>6 DEF Automate, Database
  <2> QED
    BY <1>6, <2>1, GotoTyped, RestKept DEF Automate, InTry
<1>7. CASE Finish(o)
  <2>1. db' \in Database
    BY <1>1, <1>7, RunStatusTyped DEF Finish, Statuses
  <2> QED
    BY <1>7, <2>1, GotoTyped, RestKept DEF Finish, InTry
<1>8. CASE Retain(o)
  <2> DEFINE listed == {<<r, db.runs[r].snap>> : r \in Others(o)}
             c == [op[o] EXCEPT !.pc = IF listed = {} THEN "release" ELSE "drop",
                                !.listed = listed]
  <2>1. listed \in SUBSET (RunIds \X Snaps)
    <3>1. \A r \in Others(o) : r \in RunIds /\ db.runs[r].snap \in Snaps
      BY <1>1 DEF Others, Database, Snaps
    <3> QED
      BY <3>1
  <2>2. op' = [op EXCEPT ![o] = c]
    BY <1>8, TypedOp DEF Retain, TypeInv
  <2> HIDE DEF listed
  <2>3. c \in Calls /\ c.pc \in {"release", "drop"} /\ c.kind = op[o].kind
          /\ c.step = op[o].step /\ c.path = op[o].path
    BY <1>1, <2>1 DEF Calls, InTry
  <2> HIDE DEF c
  <2>4. CallOK(c)
    BY <1>1, <1>8, <2>3, StillOK DEF Retain, InTry
  <2>5. db' \in Database /\ RestOK'
    BY <1>1, <1>8, RestKept DEF Retain
  <2> QED
    BY <2>2, <2>3, <2>4, <2>5, CallTyped
<1>9. CASE DiscardPrior(o)
  <2>1. PICK prior \in op[o].listed :
          /\ files' = [files EXCEPT ![prior[2]] = NoFile]
          /\ op' = [op EXCEPT ![o].pc = "unref", ![o].prior = prior[1],
                              ![o].listed = @ \ {prior}]
    BY <1>9 DEF DiscardPrior
  <2> DEFINE c == [op[o] EXCEPT !.pc = "unref", !.prior = prior[1],
                                !.listed = op[o].listed \ {prior}]
  <2>2. prior[1] \in RunIds /\ op[o].listed \ {prior} \in SUBSET (RunIds \X Snaps)
    BY <1>1 DEF Calls
  <2>0. "unref" \in InTry /\ prior[1] \in 0 .. MaxRuns
    BY <2>2 DEF InTry, RunIds
  <2>3. c \in Calls /\ c.pc = "unref" /\ c.kind = op[o].kind
          /\ c.step = op[o].step /\ c.path = op[o].path
    BY <1>1, <2>0, <2>2 DEF Calls
  <2>4. op' = [op EXCEPT ![o] = c]
    BY <2>1, TypedOp DEF TypeInv
  <2> HIDE DEF c
  <2>5. CallOK(c)
    BY <1>1, <1>9, <2>3, StillOK DEF DiscardPrior, InTry
  <2>6. db' \in Database /\ RestOK'
    BY <1>1, <1>9, <2>1 DEF DiscardPrior, TypeInv, TypeOK, RestOK, Image, Ghosts
  <2> QED
    BY <2>3, <2>4, <2>5, <2>6, CallTyped
<1>10. CASE ClearPriorRef(o)
  <2>1. db' \in Database
    <3>1. 0 \in 0 .. MaxSnaps
      OBVIOUS
    <3> QED
      BY <1>1, <1>10, <3>1, RunSnapTyped DEF ClearPriorRef
  <2>2. PICK pc \in {"release", "drop"} : Goto(o, pc)
    BY <1>10 DEF ClearPriorRef
  <2> QED
    BY <1>10, <2>1, <2>2, GotoTyped, RestKept DEF ClearPriorRef, InTry
<1>11. CASE Release(o)
  <2>1. db' \in Database
    BY <1>1, <1>11 DEF Release, Database
  <2>2. CallOK(Idle)
    BY Tails DEF CallOK, Idle, Paths
  <2> QED
    BY <1>11, <2>1, <2>2, IdleTyped, CallTyped, RestKept DEF Release
<1> QED
  BY <1>2, <1>3, <1>4, <1>5, <1>6, <1>7, <1>8, <1>9, <1>10, <1>11

\* Restoring, the writes after it, and an exception.
LEMMA TypeUndoing ==
    ASSUME TypeInv, NEW o \in Ops, Restore(o) \/ Undo(o) \/ Throw(o)
    PROVE  TypeInv'
<1> USE ApplyConstants
<1>1. op[o] \in Calls /\ CallOK(op[o]) /\ db \in Database
  BY TypedOp DEF TypeInv, TypeOK, WellFormed
<1>2. CASE Restore(o)
  <2>1. op[o].snap \in Snaps /\ op[o].snap # 0
    BY <1>1, <1>2 DEF Restore, CallOK, Calls, Snaps
  <2>2. CASE files[op[o].snap] # NoFile
    <3>1. db' \in Database
      BY <1>2, <2>1, <2>2 DEF Restore, TypeInv, TypeOK, Image
    <3> QED
      BY <1>2, <2>1, <2>2, <3>1, GotoTyped, RestKept DEF Restore, InTry
  <2>3. CASE files[op[o].snap] = NoFile
    <3>1. RestOK' /\ db' \in Database
      BY <1>1, <1>2, <2>3 DEF Restore, TypeInv, TypeOK, RestOK, Ghosts
    <3>2. CallOK(Idle)
      BY Tails DEF CallOK, Idle, Paths
    <3> QED
      BY <1>2, <2>3, <3>1, <3>2, IdleTyped, CallTyped DEF Restore
  <2> QED
    BY <2>2, <2>3
<1>3. CASE Undo(o)
  <2> DEFINE writes == UndoWrites[op[o].path]
             write == writes[op[o].step]
  <2>1. op[o].path \in Paths /\ op[o].step \in 1 .. 5 /\ op[o].step <= Len(writes)
    BY <1>1, Tails DEF Calls, CallOK
  <2>2. write \in Writes /\ Len(writes) \in 1 .. 5
    BY <2>1, Tails
  <2>3. /\ db' = UndoDb(write, op[o].run)
        /\ files' = IF write = "discard"
                    THEN [files EXCEPT ![op[o].snap] = NoFile] ELSE files
        /\ op' = IF op[o].step = Len(writes)
                 THEN [op EXCEPT ![o].pc = "release"]
                 ELSE [op EXCEPT ![o].step = @ + 1]
        /\ op[o].pc = "undo" /\ UNCHANGED <<build, up, Ghosts>>
    BY <1>3 DEF Undo
  <2>4. write \in Writes => UndoDb(write, op[o].run) \in Database
    <3> HIDE DEF write
    <3>1. UndoDb("clear", op[o].run) \in Database /\ UndoDb("audit", op[o].run) \in Database
      BY <1>1 DEF UndoDb, Database
    <3>2. UndoDb("unref", op[o].run) \in Database
      <4>1. 0 \in 0 .. MaxSnaps
        OBVIOUS
      <4>2. UndoDb("unref", op[o].run) = [db EXCEPT !.runs[op[o].run].snap = 0]
        BY DEF UndoDb
      <4>3. [db EXCEPT !.runs[op[o].run].snap = 0] \in Database
        BY <1>1, <4>1, RunSnapTyped
      <4> QED
        BY <4>2, <4>3
    <3>3. UndoDb("finish", op[o].run) \in Database
      BY <1>1, RunStatusTyped DEF UndoDb, Statuses
    <3>4. UndoDb("discard", op[o].run) \in Database
      BY <1>1 DEF UndoDb
    <3> QED
      BY <3>1, <3>2, <3>3, <3>4 DEF Writes
  <2>5. RestOK'
    BY <2>3 DEF TypeInv, TypeOK, RestOK, Image, Ghosts
  <2> HIDE DEF write
  <2>6. CASE op[o].step = Len(writes)
    BY <2>2, <2>3, <2>4, <2>5, <2>6, GotoTyped DEF Goto, InTry
  <2>7. CASE op[o].step # Len(writes)
    <3> DEFINE c == [op[o] EXCEPT !.step = @ + 1]
    <3>1. op[o].step + 1 \in 1 .. 5 /\ op[o].step + 1 <= Len(writes)
      <4> DEFINE n == Len(writes)
      <4>1. n \in 1 .. 5 /\ op[o].step \in 1 .. 5 /\ op[o].step <= n /\ op[o].step # n
        BY <2>1, <2>2, <2>7
      <4> HIDE DEF n
      <4>2. op[o].step + 1 \in 1 .. 5 /\ op[o].step + 1 <= n
        BY <4>1
      <4> QED
        BY <4>2 DEF n
    <3>2. c \in Calls /\ c.pc = "undo" /\ c.kind = op[o].kind /\ c.snap = op[o].snap
            /\ c.step = op[o].step + 1 /\ c.path = op[o].path
      BY <1>1, <2>3, <3>1 DEF Calls
    <3>3. op' = [op EXCEPT ![o] = c]
      BY <2>3, <2>7, TypedOp DEF TypeInv
    <3> HIDE DEF c
    <3>4. CallOK(c)
      BY <1>1, <2>3, <3>1, <3>2 DEF CallOK
    <3> QED
      BY <2>2, <2>3, <2>4, <2>5, <3>2, <3>3, <3>4, CallTyped
  <2> QED
    BY <2>6, <2>7
<1>4. CASE Throw(o)
  <2>1. RestOK'
    BY <1>4 DEF Throw, TypeInv, TypeOK, RestOK
  <2> QED
    BY <1>1, <1>4, <2>1, GotoTyped DEF Throw, InTry
<1> QED
  BY <1>2, <1>3, <1>4

\* What happens around the calls.
LEMMA TypeAround ==
    ASSUME TypeInv,
           \/ \E new \in Batches : Boot(new)
           \/ AcceptRelease
           \/ \E field \in {"urgent", "open"} : Resolve(field)
           \/ Elapse
    PROVE  TypeInv'
<1> USE ApplyConstants
<1>1. CASE \E new \in Batches : Boot(new)
  <2>1. PICK new \in Batches, p1 \in BOOLEAN :
          /\ Boot(new)
          /\ db' = [db EXCEPT !.ledger = @ \cup (1 .. new),
                              !.content = [f \in Families |-> new],
                              !.urgent = @ \/ p1]
    BY <1>1 DEF Boot
  <2>2. [f \in Families |-> new] \in [Families -> 0 .. MaxBuild] /\ 1 .. new \in SUBSET Batches
    BY DEF Batches
  <2>3. db' \in Database
    BY <2>1, <2>2 DEF Database, TypeInv, TypeOK
  <2>4. op' \in [Ops -> Calls]
    BY <2>1, IdleTyped DEF Boot
  <2>5. TypeOK'
    <3>1. faults' \in 0 .. MaxFaults /\ build' \in Batches /\ up' \in BOOLEAN
      <4>1. up \in BOOLEAN /\ faults \in 0 .. MaxFaults
        BY DEF TypeInv, TypeOK
      <4>2. /\ up => faults < MaxFaults
            /\ faults' = IF up THEN faults + 1 ELSE faults
            /\ build' = new /\ up' = TRUE
        BY <2>1 DEF Boot
      <4>3. faults' \in 0 .. MaxFaults
        BY <4>1, <4>2
      <4> QED
        BY <2>1, <4>2, <4>3
    <3>2. UNCHANGED <<files, nextRun, nextSnap, free, base, resumed>>
      BY <2>1 DEF Boot
    <3> QED
      BY <2>3, <2>4, <3>1, <3>2 DEF TypeInv, TypeOK, Calls
  <2>6. CallOK(Idle) /\ op' = [o \in Ops |-> Idle]
    <3>1. CallOK(Idle)
      BY Tails DEF CallOK, Idle, Paths
    <3> QED
      BY <2>1, <3>1 DEF Boot
  <2>7. WellFormed'
    BY <2>6 DEF WellFormed
  <2> QED
    BY <2>5, <2>7 DEF TypeInv
<1>2. ASSUME db' \in Database, UNCHANGED <<files, build, up, op, Ghosts>>
      PROVE  TypeInv'
  BY <1>2 DEF TypeInv, TypeOK, WellFormed, Ghosts
<1>3. CASE AcceptRelease
  <2>1. db' \in Database
    <3>1. db \in Database /\ db.target + 1 \in 0 .. MaxBuild
      BY <1>3 DEF AcceptRelease, Database, TypeInv, TypeOK
    <3>2. db' = [db EXCEPT !.target = db.target + 1]
      BY <1>3, <3>1 DEF AcceptRelease, Database
    <3> QED
      BY <3>1, <3>2 DEF Database
  <2> QED
    BY <1>2, <1>3, <2>1 DEF AcceptRelease
<1>4. CASE \E field \in {"urgent", "open"} : Resolve(field)
  <2>1. db' \in Database
    BY <1>4, ZenonT(30) DEF Resolve, Database, TypeInv, TypeOK
  <2> QED
    BY <1>2, <1>4, <2>1 DEF Resolve
<1>5. CASE Elapse
  <2>1. db' \in Database
    BY <1>5 DEF Elapse, Database, TypeInv, TypeOK
  <2> QED
    BY <1>2, <1>5, <2>1 DEF Elapse
<1> QED
  BY <1>1, <1>3, <1>4, <1>5

LEMMA TypeStep == TypeInv /\ [Next]_vars => TypeInv'
<1> SUFFICES ASSUME TypeInv, [Next]_vars PROVE TypeInv'
  OBVIOUS
<1>1. CASE UNCHANGED vars
  BY <1>1 DEF vars, TypeInv, TypeOK, WellFormed
<1>2. CASE \E o \in Ops : Start(o) \/ Step(o) \/ Throw(o)
  BY <1>2, TypeBefore, TypeDuring, TypeUndoing DEF Step
<1>3. CASE ~ \E o \in Ops : Start(o) \/ Step(o) \/ Throw(o)
  BY <1>1, <1>3, TypeAround DEF Next
<1> QED
  BY <1>2, <1>3

\* No statement, crash or exception, however calls interleave, leaves a value
\* of the wrong type in the database, the files, or a call.
THEOREM ApplyTyping == Spec => []TypeOK
<1>1. Spec => []TypeInv
  BY TypeInit, TypeStep, PTL DEF Spec
<1>2. TypeInv => TypeOK
  BY DEF TypeInv
<1> QED
  BY <1>1, <1>2, PTL

-----------------------------------------------------------------------------
(* What the mutex is for.  It does not keep calls apart (two applies have one
   label, and ten minutes make any row takeable), so these theorems assume
   what the code counts on: one upgrade call is served at a time, and the runs
   that applies open begin in different seconds, so that the newest is the one
   begun last.  Crashes, exceptions, boots and the passing of time stay.   *)
Serial ==
    /\ \A o, p \in Ops : o = p
    /\ ~ SameSecond

Working == {"maint", "plan", "snapshot", "ref", "schema", "reconcile", "verify", "clear", "finish"}

\* What holds of the database, and of every image a restore may bring back:
\* its runs are below n, the next one's number, and MaintenanceOwned.
Sound(d, n) ==
    /\ \A r \in Present(d) : r < n
    /\ d.maint => \E r \in RunIds : IsLatest(d, r) /\ d.runs[r].status = "running"

\* What call o may count on at each statement.
CallInv(o) ==
    /\ op[o].pc \in Working \cup {"begin"} => op[o].kind = "apply" /\ db.holder = "upgrade-apply"
    /\ op[o].pc \in Working => IsLatest(db, op[o].run) /\ db.runs[op[o].run].status = "running"
    /\ op[o].pc \in Working \ {"maint", "finish"} => db.maint
    /\ op[o].pc = "finish" => ~ db.maint
    /\ op[o].pc \in {"ref", "schema", "reconcile", "verify"} => files[op[o].snap] # NoFile
    /\ op[o].pc \in {"schema", "reconcile", "verify"} => db.runs[op[o].run].snap = op[o].snap
    /\ op[o].pc \in {"clear", "finish"} => LedgerComplete(o)
    /\ op[o].step # 1 => op[o].pc \in {"undo", "release"} /\ (op[o].pc = "undo" => ~ db.maint)

SerialInv ==
    /\ TypeInv
    /\ Sound(db, nextRun)
    /\ \A s \in Snaps : files[s] # NoFile => Sound(files[s], nextRun)
    /\ \A o \in Ops : CallInv(o)
LEMMA SoundKept ==
    ASSUME NEW d, NEW e, NEW n \in Nat, NEW m \in Nat, n <= m,
           Sound(d, n), e.runs = d.runs, e.maint => d.maint
    PROVE  Sound(e, m)
BY DEF Sound, Present, IsLatest, RunIds

\* Images are only ever deleted, copied from the database, or left alone.
LEMMA ImagesKept ==
    ASSUME SerialInv, files' = files \/ (\E s : files' = [files EXCEPT ![s] = NoFile]),
           nextRun' = nextRun
    PROVE  \A s \in Snaps : files'[s] # NoFile => Sound(files'[s], nextRun')
BY DEF SerialInv, TypeInv, TypeOK

LEMMA Alone ==
    ASSUME Serial, NEW o \in Ops, CallInv(o)'
    PROVE  \A p \in Ops : CallInv(p)'
<1> SUFFICES ASSUME NEW p \in Ops PROVE CallInv(p)'
  OBVIOUS
<1>1. p = o
  BY DEF Serial
<1> QED
  BY <1>1

\* Nothing a call counts on has changed under it.
LEMMA CallKept ==
    ASSUME NEW o \in Ops, CallInv(o), op'[o] = op[o], files' = files,
           db'.runs = db.runs, db'.maint = db.maint, db'.holder = db.holder,
           db'.ledger = db.ledger
    PROVE  CallInv(o)'
<1>1. \A r : IsLatest(db', r) <=> IsLatest(db, r)
  BY DEF IsLatest, Present
<1> QED
  BY <1>1 DEF CallInv, LedgerComplete, Working

LEMMA SerialParts ==
    ASSUME Serial, TypeInv', NEW o \in Ops, Sound(db', nextRun'), CallInv(o)',
           \A s \in Snaps : files'[s] # NoFile => Sound(files'[s], nextRun')
    PROVE  SerialInv'
BY Alone DEF SerialInv

\* A step that leaves the runs alone, raises no flag and opens no run.
LEMMA QuietStep ==
    ASSUME Serial, SerialInv, TypeInv', NEW o \in Ops, CallInv(o)',
           db'.runs = db.runs, db'.maint => db.maint, nextRun' = nextRun,
           files' = files \/ (\E s : files' = [files EXCEPT ![s] = NoFile])
    PROVE  SerialInv'
<1>1. nextRun \in Nat
  BY DEF SerialInv, TypeInv, TypeOK
<1>2. Sound(db', nextRun')
  BY <1>1, SoundKept DEF SerialInv
<1> QED
  BY <1>2, ImagesKept, SerialParts

\* A call that is starting, waiting to answer or idle counts on nothing.
LEMMA Uncommitted ==
    ASSUME NEW o \in Ops, op'[o].step = 1,
           op'[o].pc \in {"idle", "acquire", "restore", "retain", "drop", "unref", "automate",
                          "release", "undo"}
    PROVE  CallInv(o)'
BY DEF CallInv, Working

LEMMA Fields ==
    ASSUME TypeInv, NEW o \in Ops
    PROVE  /\ db \in Database /\ op[o] \in Calls
           /\ op \in [Ops -> Calls] /\ nextRun \in Nat /\ nextSnap \in Nat
BY TypedOp DEF TypeInv, TypeOK

\* A call that begins continues a run or opens the next one.
LEMMA BeginOpens ==
    ASSUME Serial, TypeInv, NEW o \in Ops, Begin(o)
    PROVE  /\ UNCHANGED <<files, nextSnap>>
           /\ \/ \E r \in RunIds :
                   /\ Continues(r, op[o].to)
                   /\ op' = [op EXCEPT ![o].pc = "maint", ![o].run = r]
                   /\ resumed' = resumed \cup {r}
                   /\ UNCHANGED <<db, nextRun, base>>
              \/ /\ \A r \in RunIds : ~ Continues(r, op[o].to)
                 /\ nextRun <= MaxRuns /\ nextRun' = nextRun + 1
                 /\ db' = [db EXCEPT !.runs[nextRun] = [status |-> "running", to |-> op[o].to,
                                                        snap |-> 0],
                                     !.open = FALSE]
                 /\ op' = [op EXCEPT ![o].pc = "maint", ![o].run = nextRun, ![o].fresh = TRUE]
                 /\ base' = [base EXCEPT ![nextRun] = Data(db)]
                 /\ UNCHANGED resumed
<1>1. Places = {{nextRun} \cap RunIds} /\ nextRun \in Nat
  BY DEF Serial, Places, TypeInv, TypeOK
<1>2. ASSUME NEW second \in Places, NEW r \in second
      PROVE  r = nextRun /\ nextRun <= MaxRuns /\ (IF r < nextRun THEN nextRun ELSE r + 1) = nextRun + 1
  BY <1>1, <1>2 DEF RunIds
<1> QED
  BY <1>2 DEF Begin

LEMMA SerialBefore ==
    ASSUME Serial, SerialInv, TypeInv', NEW o \in Ops,
           \/ Start(o) \/ Acquire(o) \/ Begin(o) \/ SetMaintenance(o) \/ RecordPlan(o)
           \/ Snapshot(o) \/ SetRef(o)
    PROVE  SerialInv'
<1>1. /\ TypeInv /\ CallInv(o) /\ Sound(db, nextRun)
      /\ db \in Database /\ op[o] \in Calls /\ op \in [Ops -> Calls]
      /\ nextRun \in Nat /\ nextSnap \in Nat
  BY Fields DEF SerialInv
<1>2. CASE Start(o)
  <2>1. op'[o].pc = "acquire" /\ op'[o].step = 1 /\ UNCHANGED <<db, files, nextRun>>
    <3>1. CASE StartAutomation(o)
      BY <1>1, <3>1 DEF StartAutomation, Idle, Ghosts
    <3>2. ASSUME NEW held, NEW force, StartApply(o, held, force)
          PROVE  op'[o].pc = "acquire" /\ op'[o].step = 1 /\ UNCHANGED <<db, files, nextRun>>
      BY <1>1, <3>2 DEF StartApply, Idle, Ghosts
    <3>3. ASSUME NEW r, StartRollback(o, r)
          PROVE  op'[o].pc = "acquire" /\ op'[o].step = 1 /\ UNCHANGED <<db, files, nextRun>>
      BY <1>1, <3>3 DEF StartRollback, Idle, Ghosts
    <3> QED
      BY <1>2, <3>1, <3>2, <3>3 DEF Start
  <2> QED
    BY <2>1, Uncommitted, QuietStep
<1>3. CASE Acquire(o)
  <2>1. UNCHANGED <<files, nextRun>> /\ db'.runs = db.runs /\ db'.maint = db.maint
    BY <1>1, <1>3 DEF Acquire, Ghosts, Database
  <2>2. op[o].step = 1 /\ op[o].kind \in {"apply", "rollback", "automation"}
    <3>1. op[o].pc = "acquire" /\ CallOK(op[o])
      BY <1>1, <1>3 DEF Acquire, TypeInv, WellFormed
    <3>2. op[o].step = 1
      BY <1>1, <3>1 DEF CallInv
    <3> QED
      BY <3>1, <3>2, KindLabels DEF CallOK
  <2>3. CASE Takeable(LabelOf(o)) /\ op[o].kind = "apply"
    <3>1. op'[o] = [op[o] EXCEPT !.pc = "begin"] /\ db'.holder = "upgrade-apply"
      <4>1. Entry[op[o].kind] = "begin" /\ LabelOf(o) = "upgrade-apply"
        BY <2>3, KindLabels DEF Entry, LabelOf
      <4> QED
        BY <1>1, <1>3, <2>3, <4>1 DEF Acquire, Goto, Database
    <3>2. op'[o].pc = "begin" /\ op'[o].kind = "apply" /\ op'[o].step = 1
      BY <1>1, <2>2, <2>3, <3>1 DEF Calls
    <3>3. CallInv(o)'
      BY <3>1, <3>2 DEF CallInv, Working
    <3> QED
      BY <2>1, <3>3, QuietStep
  <2>4. CASE Takeable(LabelOf(o)) /\ op[o].kind # "apply"
    <3>1. op'[o] = [op[o] EXCEPT !.pc = Entry[op[o].kind]]
      BY <1>1, <1>3, <2>4 DEF Acquire, Goto
    <3>2. op'[o].pc \in {"restore", "automate"} /\ op'[o].step = 1
      <4>1. Entry[op[o].kind] \in {"restore", "automate"}
        BY <2>2, <2>4 DEF Entry
      <4>2. op'[o].pc = Entry[op[o].kind] /\ op'[o].step = op[o].step
        BY <1>1, <3>1 DEF Calls
      <4> QED
        BY <2>2, <4>1, <4>2
    <3> QED
      BY <2>1, <3>2, Uncommitted, QuietStep
  <2>5. CASE ~ Takeable(LabelOf(o))
    <3>1. op'[o] = Idle
      BY <1>1, <1>3, <2>5 DEF Acquire
    <3> QED
      BY <2>1, <3>1, Uncommitted, QuietStep DEF Idle
  <2> QED
    BY <2>3, <2>4, <2>5
<1>4. CASE Begin(o)
  <2>1. op[o].kind = "apply" /\ db.holder = "upgrade-apply" /\ op[o].step = 1
    BY <1>4 , <1>1 DEF Begin, CallInv
  <2>2. ASSUME NEW r \in RunIds, Continues(r, op[o].to),
               op' = [op EXCEPT ![o].pc = "maint", ![o].run = r], UNCHANGED <<db, nextRun>>
        PROVE  SerialInv'
    <3>1. op'[o] = [op[o] EXCEPT !.pc = "maint", !.run = r]
      BY <1>1, <2>2
    <3>2. /\ op'[o].pc = "maint" /\ op'[o].run = r
          /\ op'[o].kind = op[o].kind /\ op'[o].step = op[o].step
      BY <1>1, <3>1 DEF Calls
    <3>3. IsLatest(db', r) /\ db'.runs[r].status = "running" /\ db'.holder = "upgrade-apply"
      BY <2>1, <2>2 DEF Continues
    <3>4. CallInv(o)'
      BY <2>1, <3>2, <3>3 DEF CallInv, Working
    <3>5. UNCHANGED files
      BY <1>4 DEF Begin
    <3> QED
      BY <2>2, <3>4, <3>5, QuietStep
  <2>3. CASE /\ nextRun <= MaxRuns /\ nextRun' = nextRun + 1
             /\ db' = [db EXCEPT !.runs[nextRun] = [status |-> "running", to |-> op[o].to,
                                                    snap |-> 0],
                                 !.open = FALSE]
             /\ op' = [op EXCEPT ![o].pc = "maint", ![o].run = nextRun, ![o].fresh = TRUE]
    <3>1. op'[o] = [op[o] EXCEPT !.pc = "maint", !.run = nextRun, !.fresh = TRUE]
      BY <1>1, <2>3
    <3>2. /\ op'[o].pc = "maint" /\ op'[o].run = nextRun
          /\ op'[o].kind = op[o].kind /\ op'[o].step = op[o].step
      BY <1>1, <3>1 DEF Calls
    <3>3. /\ nextRun \in RunIds
          /\ db'.runs = [db.runs EXCEPT ![nextRun] = [status |-> "running", to |-> op[o].to,
                                                      snap |-> 0]]
          /\ db'.holder = db.holder /\ db'.maint = db.maint
      BY <1>1, <2>3, ApplyConstants DEF Database, RunIds, TypeInv, TypeOK
    <3>4. db.runs \in [RunIds -> [status : Statuses, to : 0 .. MaxBuild, snap : 0 .. MaxSnaps]]
      BY <1>1 DEF Database
    <3>5. db'.runs[nextRun].status = "running"
      BY <3>3, <3>4
    <3>6. Present(db') = Present(db) \cup {nextRun}
      BY <3>3, <3>4, <3>5 DEF Present
    <3>7. IsLatest(db', nextRun) /\ \A r \in Present(db') : r < nextRun'
      BY <1>1, <2>3, <3>6 DEF IsLatest, Sound, Present, RunIds
    <3>8. Sound(db', nextRun')
      BY <3>3, <3>5, <3>7 DEF Sound
    <3>9. CallInv(o)'
      BY <2>1, <3>2, <3>3, <3>5, <3>7 DEF CallInv, Working
    <3>10. ASSUME NEW s \in Snaps, files'[s] # NoFile
           PROVE  Sound(files'[s], nextRun')
      <4>1. files' = files /\ nextRun' = nextRun + 1
        BY <1>4, <2>3 DEF Begin
      <4>2. Sound(files[s], nextRun)
        BY <3>10, <4>1 DEF SerialInv
      <4> QED
        BY <1>1, <4>1, <4>2 DEF Sound, Present, RunIds
    <3> QED
      BY <3>8, <3>9, <3>10, SerialParts
  <2> QED
    BY <1>1, <1>4, <2>2, <2>3, BeginOpens
<1>5. CASE SetMaintenance(o)
  <2>1. /\ op'[o] = [op[o] EXCEPT !.pc = "plan"] /\ UNCHANGED <<files, nextRun>>
        /\ db'.runs = db.runs /\ db'.maint /\ db'.holder = db.holder
    BY <1>1, <1>5 DEF SetMaintenance, Goto, Ghosts, Database
  <2>2. /\ op'[o].pc = "plan" /\ op'[o].run = op[o].run
        /\ op'[o].kind = op[o].kind /\ op'[o].step = op[o].step
    BY <1>1, <2>1 DEF Calls
  <2>3. /\ op[o].kind = "apply" /\ db.holder = "upgrade-apply" /\ op[o].step = 1
        /\ IsLatest(db, op[o].run) /\ db.runs[op[o].run].status = "running"
    BY <1>1, <1>5 DEF SetMaintenance, CallInv, Working
  <2>4. IsLatest(db', op[o].run) /\ db'.runs[op[o].run].status = "running" /\ Present(db') = Present(db)
    BY <2>1, <2>3 DEF IsLatest, Present
  <2>5. CallInv(o)'
    BY <2>1, <2>2, <2>3, <2>4 DEF CallInv, Working
  <2>6. op[o].run \in RunIds
    BY <2>3 DEF IsLatest, Present
  <2>7. Sound(db', nextRun')
    BY <1>1, <2>1, <2>4, <2>6 DEF Sound
  <2> QED
    BY <2>1, <2>5, <2>7, ImagesKept, SerialParts
<1>6. CASE RecordPlan(o)
  <2>1. /\ op'[o] = [op[o] EXCEPT !.pc = "snapshot"] /\ UNCHANGED <<files, nextRun>>
        /\ db'.runs = db.runs /\ db'.maint = db.maint /\ db'.holder = db.holder
    BY <1>1, <1>6 DEF RecordPlan, Goto, Ghosts, Database
  <2>2. /\ op'[o].pc = "snapshot" /\ op'[o].run = op[o].run
        /\ op'[o].kind = op[o].kind /\ op'[o].step = op[o].step
    BY <1>1, <2>1 DEF Calls
  <2>3. op[o].pc = "plan" /\ \A r : IsLatest(db', r) <=> IsLatest(db, r)
    BY <1>6, <2>1 DEF RecordPlan, IsLatest, Present
  <2>4. CallInv(o)'
    BY <1>1, <2>1, <2>2, <2>3 DEF CallInv, Working
  <2> QED
    BY <2>1, <2>4, QuietStep
<1>7. CASE Snapshot(o)
  <2>1. /\ op'[o] = [op[o] EXCEPT !.pc = "ref", !.snap = nextSnap]
        /\ nextSnap \in Snaps /\ files' = [files EXCEPT ![nextSnap] = db]
        /\ UNCHANGED <<db, nextRun>> /\ op[o].pc = "snapshot"
    BY <1>1, <1>7, ApplyConstants DEF Snapshot, Snaps, TypeInv, TypeOK
  <2>2. /\ op'[o].pc = "ref" /\ op'[o].run = op[o].run /\ op'[o].snap = nextSnap
        /\ op'[o].kind = op[o].kind /\ op'[o].step = op[o].step
    BY <1>1, <2>1 DEF Calls
  <2>3. files \in [Snaps -> Image]
    BY <1>1 DEF TypeInv, TypeOK
  <2>4. db # NoFile
    BY <1>1 DEF Database, NoFile
  <2>5. CallInv(o)'
    BY <1>1, <2>1, <2>2, <2>3, <2>4 DEF CallInv, Working
  <2>6. \A s \in Snaps : files'[s] # NoFile => Sound(files'[s], nextRun')
    BY <1>1, <2>1, <2>3 DEF SerialInv
  <2> QED
    BY <1>1, <2>1, <2>5, <2>6, SerialParts
<1>8. CASE SetRef(o)
  <2>1. /\ op'[o] = [op[o] EXCEPT !.pc = "schema"] /\ UNCHANGED <<files, nextRun>>
        /\ db'.maint = db.maint /\ db'.holder = db.holder
        /\ db'.runs = [db.runs EXCEPT ![op[o].run].snap = op[o].snap]
        /\ op[o].pc = "ref"
    BY <1>1, <1>8 DEF SetRef, Goto, Ghosts, Database
  <2>2. /\ op'[o].pc = "schema" /\ op'[o].run = op[o].run /\ op'[o].snap = op[o].snap
        /\ op'[o].kind = op[o].kind /\ op'[o].step = op[o].step
    BY <1>1, <2>1 DEF Calls
  <2>3. db.runs \in [RunIds -> [status : Statuses, to : 0 .. MaxBuild, snap : 0 .. MaxSnaps]]
    BY <1>1 DEF Database
  <2>4. \A r \in RunIds : db'.runs[r].status = db.runs[r].status
    BY <2>1, <2>3
  <2>5. Present(db') = Present(db) /\ \A r : IsLatest(db', r) <=> IsLatest(db, r)
    BY <2>4 DEF IsLatest, Present
  <2>6. IsLatest(db, op[o].run) /\ op[o].run \in RunIds
    BY <1>1, <2>1 DEF CallInv, Working, IsLatest, Present
  <2>7. db'.runs[op[o].run].snap = op[o].snap
    BY <2>1, <2>3, <2>6
  <2>8. CallInv(o)'
    BY <1>1, <2>1, <2>2, <2>4, <2>5, <2>6, <2>7 DEF CallInv, Working
  <2>9. Sound(db', nextRun')
    BY <1>1, <2>1, <2>4, <2>5 DEF Sound
  <2> QED
    BY <2>1, <2>8, <2>9, ImagesKept, SerialParts
<1> QED
  BY <1>2, <1>3, <1>4, <1>5, <1>6, <1>7, <1>8

\* Goto moves the call and changes nothing else of it.
LEMMA GotoFields ==
    ASSUME TypeInv, NEW o \in Ops, NEW pc, Goto(o, pc)
    PROVE  /\ op'[o].pc = pc /\ op'[o].kind = op[o].kind /\ op'[o].run = op[o].run
           /\ op'[o].snap = op[o].snap /\ op'[o].step = op[o].step
           /\ op'[o].to = op[o].to /\ op'[o].held = op[o].held
           /\ op'[o].listed = op[o].listed
<1>1. op[o] \in Calls /\ op'[o] = [op[o] EXCEPT !.pc = pc]
  BY Fields DEF Goto
<1> QED
  BY <1>1 DEF Calls

LEMMA UndoFields ==
    ASSUME TypeInv, NEW o \in Ops, NEW path, StartUndo(o, path)
    PROVE  /\ op'[o].pc = "restore" /\ op'[o].step = 1
           /\ op'[o].run = op[o].run /\ op'[o].snap = op[o].snap
<1>1. op[o] \in Calls /\ op'[o] = [op[o] EXCEPT !.pc = "restore", !.path = path, !.step = 1]
  BY Fields DEF StartUndo
<1> QED
  BY <1>1 DEF Calls

LEMMA RetainFields ==
    ASSUME TypeInv, NEW o \in Ops, Retain(o)
    PROVE  /\ op[o].pc = "retain" /\ op'[o].pc \in {"drop", "release"}
           /\ op'[o].run = op[o].run /\ op'[o].step = op[o].step
           /\ op'[o].listed = {<<r, db.runs[r].snap>> : r \in Others(o)}
           /\ UNCHANGED <<db, files, nextRun>>
<1> DEFINE listed == {<<r, db.runs[r].snap>> : r \in Others(o)}
           pc == IF listed = {} THEN "release" ELSE "drop"
<1>1. /\ op[o] \in Calls /\ op[o].pc = "retain" /\ UNCHANGED <<db, files, nextRun>>
      /\ op'[o] = [op[o] EXCEPT !.pc = pc, !.listed = listed]
  BY Fields DEF Retain, Ghosts
<1>2. pc \in {"drop", "release"}
  OBVIOUS
<1> HIDE DEF pc, listed
<1>3. op'[o].listed = listed
  BY <1>1 DEF Calls
<1>4. /\ op'[o].pc = pc /\ op'[o].run = op[o].run /\ op'[o].step = op[o].step
  BY <1>1 DEF Calls
<1> QED
  BY <1>1, <1>2, <1>3, <1>4 DEF listed

LEMMA DiscardFields ==
    ASSUME TypeInv, NEW o \in Ops, DiscardPrior(o)
    PROVE  /\ op[o].pc = "drop" /\ op'[o].pc = "unref"
           /\ op'[o].run = op[o].run /\ op'[o].step = op[o].step
           /\ UNCHANGED <<db, nextRun>>
           /\ \E prior \in op[o].listed :
                /\ files' = [files EXCEPT ![prior[2]] = NoFile]
                /\ op'[o].prior = prior[1] /\ op'[o].listed = op[o].listed \ {prior}
<1>1. PICK prior \in op[o].listed :
        /\ files' = [files EXCEPT ![prior[2]] = NoFile]
        /\ op'[o] = [op[o] EXCEPT !.pc = "unref", !.prior = prior[1], !.listed = @ \ {prior}]
  BY Fields DEF DiscardPrior
<1>2. op[o] \in Calls /\ op[o].pc = "drop" /\ UNCHANGED <<db, nextRun>>
  BY Fields DEF DiscardPrior, Ghosts
<1>3. /\ op'[o].pc = "unref" /\ op'[o].run = op[o].run /\ op'[o].step = op[o].step
      /\ op'[o].prior = prior[1] /\ op'[o].listed = op[o].listed \ {prior}
  BY <1>1, <1>2 DEF Calls
<1> QED
  BY <1>1, <1>2, <1>3

LEMMA SerialDuring ==
    ASSUME Serial, SerialInv, TypeInv', NEW o \in Ops,
           \/ RunSchema(o) \/ Reconcile(o) \/ Verify(o) \/ ClearMaintenance(o) \/ Automate(o)
           \/ Finish(o) \/ Retain(o) \/ DiscardPrior(o) \/ ClearPriorRef(o) \/ Release(o)
    PROVE  SerialInv'
<1>1. /\ TypeInv /\ CallInv(o) /\ Sound(db, nextRun)
      /\ db \in Database /\ op[o] \in Calls /\ op \in [Ops -> Calls]
      /\ nextRun \in Nat /\ nextSnap \in Nat
  BY Fields DEF SerialInv
<1>2. CASE RunSchema(o)
  <2>1. /\ UNCHANGED <<files, nextRun>> /\ op[o].pc = "schema"
        /\ db'.runs = db.runs /\ db'.maint = db.maint /\ db'.holder = db.holder
    BY <1>1, <1>2 DEF RunSchema, Ghosts, Database
  <2>2. CASE Goto(o, "reconcile")
    <3>1. \A r : IsLatest(db', r) <=> IsLatest(db, r)
      BY <2>1 DEF IsLatest, Present
    <3>2. CallInv(o)'
      BY <1>1, <2>1, <2>2, <3>1, GotoFields DEF CallInv, Working
    <3> QED
      BY <2>1, <3>2, QuietStep
  <2>3. CASE StartUndo(o, "schema")
    BY <1>1, <2>1, <2>3, UndoFields, Uncommitted, QuietStep
  <2> QED
    BY <1>2, <2>2, <2>3 DEF RunSchema
<1>3. CASE Reconcile(o)
  <2>1. /\ UNCHANGED <<files, nextRun>> /\ op[o].pc = "reconcile" /\ Goto(o, "verify")
        /\ db'.runs = db.runs /\ db'.maint = db.maint /\ db'.holder = db.holder
    BY <1>1, <1>3 DEF Reconcile, Ghosts, Database
  <2>2. \A r : IsLatest(db', r) <=> IsLatest(db, r)
    BY <2>1 DEF IsLatest, Present
  <2>3. CallInv(o)'
    BY <1>1, <2>1, <2>2, GotoFields DEF CallInv, Working
  <2> QED
    BY <2>1, <2>3, QuietStep
<1>4. CASE Verify(o)
  <2>1. UNCHANGED <<db, files, nextRun>> /\ op[o].pc = "verify"
    BY <1>4 DEF Verify, Ghosts
  <2>2. CASE LedgerComplete(o) /\ Goto(o, "clear")
    <3>1. LedgerComplete(o)'
      BY <1>1, <2>1, <2>2, GotoFields DEF LedgerComplete
    <3>2. CallInv(o)'
      BY <1>1, <2>1, <2>2, <3>1, GotoFields DEF CallInv, Working
    <3> QED
      BY <2>1, <3>2, QuietStep
  <2>3. CASE StartUndo(o, "verify")
    BY <1>1, <2>1, <2>3, UndoFields, Uncommitted, QuietStep
  <2> QED
    BY <1>4, <2>2, <2>3 DEF Verify
<1>5. CASE ClearMaintenance(o)
  <2>1. /\ UNCHANGED <<files, nextRun>> /\ op[o].pc = "clear" /\ Goto(o, "finish")
        /\ db'.runs = db.runs /\ db'.maint = FALSE /\ db'.holder = db.holder
        /\ db'.ledger = db.ledger
    BY <1>1, <1>5 DEF ClearMaintenance, Ghosts, Database
  <2>2. \A r : IsLatest(db', r) <=> IsLatest(db, r)
    BY <2>1 DEF IsLatest, Present
  <2>3. LedgerComplete(o)'
    BY <1>1, <2>1, GotoFields DEF LedgerComplete, CallInv
  <2>4. CallInv(o)'
    BY <1>1, <2>1, <2>2, <2>3, GotoFields DEF CallInv, Working
  <2> QED
    BY <2>1, <2>4, QuietStep
<1>6. CASE Automate(o)
  <2>1. /\ UNCHANGED <<files, nextRun>> /\ op[o].pc = "automate" /\ Goto(o, "release")
        /\ db'.runs = db.runs /\ db'.maint = db.maint
    BY <1>1, <1>6 DEF Automate, Ghosts, Database
  <2>2. op'[o].pc = "release" /\ op'[o].step = 1
    BY <1>1, <2>1, GotoFields DEF CallInv
  <2> QED
    BY <2>1, <2>2, Uncommitted, QuietStep
<1>7. CASE Finish(o)
  <2>1. /\ UNCHANGED <<files, nextRun>> /\ op[o].pc = "finish" /\ Goto(o, "retain")
        /\ db'.runs = [db.runs EXCEPT ![op[o].run].status =
                         IF db.open THEN "succeeded_with_pending" ELSE "succeeded"]
        /\ db'.maint = db.maint
    BY <1>1, <1>7 DEF Finish, Ghosts, Database
  <2>2. op'[o].pc = "retain" /\ op'[o].step = 1 /\ ~ db'.maint
    BY <1>1, <2>1, GotoFields DEF CallInv
  <2>3. op[o].run \in Present(db)
    BY <1>1, <2>1 DEF CallInv, Working, IsLatest
  <2>4. Present(db') = Present(db)
    BY <1>1, <2>1, <2>3 DEF Present, Database
  <2>5. Sound(db', nextRun')
    BY <1>1, <2>1, <2>2, <2>4 DEF Sound
  <2> QED
    BY <2>1, <2>2, <2>5, Uncommitted, ImagesKept, SerialParts
<1>8. CASE Retain(o) \/ DiscardPrior(o)
  <2>1. /\ UNCHANGED <<db, nextRun>> /\ op[o].pc \in {"retain", "drop"}
        /\ op'[o].pc \in {"release", "drop", "unref"} /\ op'[o].step = op[o].step
        /\ files' = files \/ (\E s : files' = [files EXCEPT ![s] = NoFile])
    <3>1. CASE Retain(o)
      BY <1>1, <3>1, RetainFields
    <3>2. CASE DiscardPrior(o)
      BY <1>1, <3>2, DiscardFields
    <3> QED
      BY <1>8, <3>1, <3>2
  <2>2. op'[o].step = 1
    BY <1>1, <2>1 DEF CallInv
  <2> QED
    BY <2>1, <2>2, Uncommitted, QuietStep
<1>9. CASE ClearPriorRef(o)
  <2>1. /\ UNCHANGED <<files, nextRun>> /\ op[o].pc = "unref"
        /\ Goto(o, "release") \/ Goto(o, "drop")
        /\ db'.runs = [db.runs EXCEPT ![op[o].prior].snap = 0]
        /\ db'.maint = db.maint
    BY <1>1, <1>9 DEF ClearPriorRef, Ghosts, Database
  <2>2. op'[o].pc \in {"release", "drop"} /\ op'[o].step = 1
    BY <1>1, <2>1, GotoFields DEF CallInv
  <2>3. \A r \in RunIds : db'.runs[r].status = db.runs[r].status
    BY <1>1, <2>1 DEF Database
  <2>4. Sound(db', nextRun')
    BY <1>1, <2>1, <2>3 DEF Sound, Present, IsLatest
  <2> QED
    BY <2>1, <2>2, <2>4, Uncommitted, ImagesKept, SerialParts
<1>10. CASE Release(o)
  <2>1. /\ UNCHANGED <<files, nextRun>> /\ op'[o] = Idle
        /\ db'.runs = db.runs /\ db'.maint = db.maint
    BY <1>1, <1>10 DEF Release, Ghosts, Database
  <2> QED
    BY <2>1, Uncommitted, QuietStep DEF Idle
<1> QED
  BY <1>2, <1>3, <1>4, <1>5, <1>6, <1>7, <1>8, <1>9, <1>10

LEMMA SerialUndoing ==
    ASSUME Serial, SerialInv, TypeInv', NEW o \in Ops, Restore(o) \/ Undo(o) \/ Throw(o)
    PROVE  SerialInv'
<1>1. /\ TypeInv /\ CallInv(o) /\ CallOK(op[o]) /\ Sound(db, nextRun)
      /\ db \in Database /\ op[o] \in Calls /\ op \in [Ops -> Calls]
      /\ nextRun \in Nat /\ nextSnap \in Nat
  BY Fields DEF SerialInv, TypeInv, WellFormed
<1>2. CASE Restore(o)
  <2>1. op[o].snap \in Snaps /\ op[o].pc = "restore" /\ UNCHANGED <<files, nextRun>>
    BY <1>1, <1>2 DEF Restore, CallOK, Calls, Snaps, Ghosts
  <2>2. CASE files[op[o].snap] # NoFile
    <3>1. db' = files[op[o].snap] /\ Goto(o, "undo")
      BY <1>2, <2>2 DEF Restore
    <3>2. op'[o].pc = "undo" /\ op'[o].step = 1
      BY <1>1, <2>1, <3>1, GotoFields DEF CallInv
    <3>3. Sound(db', nextRun')
      BY <2>1, <2>2, <3>1 DEF SerialInv
    <3> QED
      BY <2>1, <3>2, <3>3, Uncommitted, ImagesKept, SerialParts
  <2>3. CASE files[op[o].snap] = NoFile
    <3>1. op'[o] = Idle /\ db' = db
      BY <1>1, <1>2, <2>3 DEF Restore
    <3> QED
      BY <2>1, <3>1, Uncommitted, QuietStep DEF Idle
  <2> QED
    BY <2>2, <2>3
<1>3. CASE Undo(o)
  <2> DEFINE writes == UndoWrites[op[o].path]
             write == writes[op[o].step]
  <2>1. op[o].path \in Paths /\ op[o].step \in 1 .. 5 /\ op[o].step <= Len(writes)
    BY <1>1, Tails DEF Calls, CallOK
  <2>2. write \in Writes /\ (op[o].step = 1 => write = "clear")
    BY <2>1, Tails
  <2>3. /\ db' = UndoDb(write, op[o].run)
        /\ files' = files \/ files' = [files EXCEPT ![op[o].snap] = NoFile]
        /\ op' = IF op[o].step = Len(writes)
                 THEN [op EXCEPT ![o].pc = "release"]
                 ELSE [op EXCEPT ![o].step = @ + 1]
        /\ op[o].pc = "undo" /\ nextRun' = nextRun
    BY <1>3 DEF Undo, Ghosts
  <2>4. op[o].step # 1 => ~ db.maint
    BY <1>1, <2>3 DEF CallInv
  <2> HIDE DEF write
  <2>5. /\ ~ db'.maint
        /\ \A r \in RunIds : db'.runs[r].status # "absent" <=> db.runs[r].status # "absent"
    <3>1. CASE write \in {"clear", "audit", "discard"}
      BY <1>1, <2>2, <2>3, <2>4, <3>1 DEF UndoDb, Database
    <3>2. CASE write = "unref"
      <4>1. db' = [db EXCEPT !.runs[op[o].run].snap = 0]
        BY <2>3, <3>2 DEF UndoDb
      <4>2. db'.maint = db.maint /\ db'.runs = [db.runs EXCEPT ![op[o].run].snap = 0]
        BY <1>1, <4>1 DEF Database
      <4> QED
        BY <1>1, <2>2, <2>4, <3>2, <4>2 DEF Database
    <3>3. CASE write = "finish"
      <4>1. db' = IF op[o].run \in Present(db)
                  THEN [db EXCEPT !.runs[op[o].run].status = "rolled_back"] ELSE db
        BY <2>3, <3>3 DEF UndoDb
      <4>2. CASE op[o].run \in Present(db)
        <5>1. /\ db'.maint = db.maint
              /\ db'.runs = [db.runs EXCEPT ![op[o].run].status = "rolled_back"]
          BY <1>1, <4>1, <4>2 DEF Database
        <5> QED
          BY <1>1, <2>2, <2>4, <3>3, <4>2, <5>1 DEF Database, Present
      <4>3. CASE op[o].run \notin Present(db)
        BY <2>2, <2>4, <3>3, <4>1, <4>3
      <4> QED
        BY <4>2, <4>3
    <3> QED
      BY <2>2, <3>1, <3>2, <3>3 DEF Writes
  <2>6. Sound(db', nextRun')
    BY <1>1, <2>3, <2>5 DEF Sound, Present
  <2>7. op'[o].pc \in {"undo", "release"}
    <3>1. CASE op[o].step = Len(writes)
      <4>1. op'[o] = [op[o] EXCEPT !.pc = "release"]
        BY <1>1, <2>3, <3>1
      <4> QED
        BY <1>1, <4>1 DEF Calls
    <3>2. CASE op[o].step # Len(writes)
      <4>1. op'[o] = [op[o] EXCEPT !.step = @ + 1]
        BY <1>1, <2>3, <3>2
      <4> QED
        BY <1>1, <2>3, <4>1 DEF Calls
    <3> QED
      BY <3>1, <3>2
  <2>8. CallInv(o)'
    BY <2>5, <2>7 DEF CallInv, Working
  <2>9. \A s \in Snaps : files'[s] # NoFile => Sound(files'[s], nextRun')
    BY <2>3, ImagesKept
  <2> QED
    BY <2>6, <2>8, <2>9, SerialParts
<1>4. CASE Throw(o)
  <2>1. Goto(o, "release") /\ UNCHANGED <<db, files, nextRun>>
    BY <1>4 DEF Throw
  <2>2. op'[o].pc = "release"
    BY <1>1, <2>1, GotoFields
  <2>3. CallInv(o)'
    BY <2>2 DEF CallInv, Working
  <2> QED
    BY <2>1, <2>3, QuietStep
<1> QED
  BY <1>2, <1>3, <1>4

LEMMA SerialAround ==
    ASSUME Serial, SerialInv, TypeInv',
           \/ \E new \in Batches : Boot(new)
           \/ AcceptRelease
           \/ \E field \in {"urgent", "open"} : Resolve(field)
           \/ Elapse
    PROVE  SerialInv'
<1>1. TypeInv /\ db \in Database /\ nextRun \in Nat /\ Sound(db, nextRun)
  BY DEF SerialInv, TypeInv, TypeOK
<1>2. ASSUME db'.runs = db.runs, db'.maint = db.maint, UNCHANGED <<files, nextRun>>,
             \A o \in Ops : CallInv(o)'
      PROVE  SerialInv'
  <2>1. Sound(db', nextRun')
    BY <1>1, <1>2, SoundKept
  <2> QED
    BY <1>2, <2>1, ImagesKept DEF SerialInv
<1>3. CASE \E new \in Batches : Boot(new)
  <2>1. PICK new \in Batches : Boot(new)
    BY <1>3
  <2>2. db'.runs = db.runs /\ db'.maint = db.maint /\ UNCHANGED <<files, nextRun>>
    BY <1>1, <2>1 DEF Boot, Database
  <2>3. op' = [o \in Ops |-> Idle]
    BY <2>1 DEF Boot
  <2>4. \A o \in Ops : CallInv(o)'
    BY <2>3, Uncommitted DEF Idle
  <2> QED
    BY <1>2, <2>2, <2>4
<1>4. ASSUME db'.runs = db.runs, db'.maint = db.maint, db'.holder = db.holder,
             db'.ledger = db.ledger, UNCHANGED <<files, nextRun, op>>
      PROVE  SerialInv'
  BY <1>2, <1>4, CallKept DEF SerialInv
<1>5. CASE AcceptRelease
  <2>1. /\ db'.runs = db.runs /\ db'.maint = db.maint /\ db'.holder = db.holder
        /\ db'.ledger = db.ledger /\ UNCHANGED <<files, nextRun, op>>
    BY <1>1, <1>5 DEF AcceptRelease, Ghosts, Database
  <2> QED
    BY <1>4, <2>1
<1>6. CASE \E field \in {"urgent", "open"} : Resolve(field)
  <2>1. /\ db'.runs = db.runs /\ db'.maint = db.maint /\ db'.holder = db.holder
        /\ db'.ledger = db.ledger /\ UNCHANGED <<files, nextRun, op>>
    BY <1>1, <1>6 DEF Resolve, Ghosts, Database
  <2> QED
    BY <1>4, <2>1
<1>7. CASE Elapse
  <2>1. /\ db'.runs = db.runs /\ db'.maint = db.maint /\ db'.holder = db.holder
        /\ db'.ledger = db.ledger /\ UNCHANGED <<files, nextRun, op>>
    BY <1>1, <1>7 DEF Elapse, Ghosts, Database
  <2> QED
    BY <1>4, <2>1
<1> QED
  BY <1>3, <1>5, <1>6, <1>7

LEMMA SerialInit == Init => SerialInv
<1> SUFFICES ASSUME Init PROVE SerialInv
  OBVIOUS
<1>1. Present(db) = {} /\ ~ db.maint
  BY DEF Init, Present, NoRun
<1>2. Sound(db, nextRun)
  BY <1>1 DEF Sound
<1>3. \A s \in Snaps : files[s] = NoFile
  BY DEF Init
<1>4. \A o \in Ops : CallInv(o)
  BY DEF Init, CallInv, Idle, Working
<1> QED
  BY <1>2, <1>3, <1>4, TypeInit DEF SerialInv

LEMMA SerialStep == Serial /\ SerialInv /\ [Next]_vars => SerialInv'
<1> SUFFICES ASSUME Serial, SerialInv, [Next]_vars PROVE SerialInv'
  OBVIOUS
<1>1. TypeInv'
  BY TypeStep DEF SerialInv
<1>2. CASE UNCHANGED vars
  BY <1>1, <1>2 DEF vars, SerialInv, CallInv, LedgerComplete
<1>3. CASE \E o \in Ops : Start(o) \/ Step(o) \/ Throw(o)
  BY <1>1, <1>3, SerialBefore, SerialDuring, SerialUndoing DEF Step
<1>4. CASE ~ \E o \in Ops : Start(o) \/ Step(o) \/ Throw(o)
  BY <1>1, <1>2, <1>4, SerialAround DEF Next
<1> QED
  BY <1>3, <1>4

LEMMA AlwaysSerial == Serial => []Serial
<1>1. Serial => Serial'
  BY DEF Serial
<1> QED
  BY <1>1, PTL

LEMMA SerialInvariant == Serial /\ Spec => []SerialInv
BY AlwaysSerial, SerialInit, SerialStep, PTL DEF Spec

-----------------------------------------------------------------------------
\* While an apply changes schema or content its run is the newest and running,
\* it is in the lock row, maintenance is up and its snapshot is on disk and on
\* the run's row, whatever crashed or threw before.
THEOREM ApplyGuarded == Serial /\ Spec => []WorkIsGuarded
<1>1. SerialInv => WorkIsGuarded
  BY DEF SerialInv, CallInv, WorkIsGuarded, Working
<1> QED
  BY <1>1, SerialInvariant, PTL

\* Maintenance is up only while the newest apply run is running, in the
\* database and in every image a restore could put back.
THEOREM MaintenanceComesDown == Serial /\ Spec => []MaintenanceOwned
<1>1. SerialInv => MaintenanceOwned
  <2> SUFFICES ASSUME SerialInv, NEW d \in {db} \cup Range(files), d # NoFile, d.maint
               PROVE  \E r \in RunIds : IsLatest(d, r) /\ d.runs[r].status = "running"
    BY DEF MaintenanceOwned
  <2>1. CASE d = db
    BY <2>1 DEF SerialInv, Sound
  <2>2. CASE d \in Range(files)
    <3>1. DOMAIN files = Snaps
      BY DEF SerialInv, TypeInv, TypeOK
    <3>2. PICK s \in Snaps : d = files[s]
      BY <2>2, <3>1 DEF Range
    <3> QED
      BY <3>2 DEF SerialInv, Sound
  <2> QED
    BY <2>1, <2>2
<1> QED
  BY <1>1, SerialInvariant, PTL

\* A run is reported successful only on a database whose ledger has every
\* batch the release declares and the call did not hold.
THEOREM SuccessComplete == Serial /\ Spec => SuccessIsComplete
<1>1. Serial /\ SerialInv /\ [Next]_vars =>
        [\A o \in Ops : op[o].pc = "finish" /\ op'[o].pc = "retain" => LedgerComplete(o)']_vars
  <2> SUFFICES ASSUME Serial, SerialInv, Next, NEW o \in Ops,
                      op[o].pc = "finish", op'[o].pc = "retain"
               PROVE  LedgerComplete(o)'
    OBVIOUS
  <2>1. TypeInv /\ LedgerComplete(o) /\ db \in Database
    BY DEF SerialInv, CallInv, TypeInv, TypeOK
  <2>2. CASE Finish(o)
    <3>1. Goto(o, "retain") /\ db'.ledger = db.ledger
      BY <2>1, <2>2 DEF Finish, Database
    <3> QED
      BY <2>1, <3>1, GotoFields DEF LedgerComplete
  <2>3. Finish(o)
    <3>1. op[o].pc # "idle" /\ op'[o] # op[o] /\ op'[o] # Idle
      BY DEF Idle
    <3>2. \A p \in Ops : p = o
      BY DEF Serial
    <3>3. PICK p \in Ops : Start(p) \/ Step(p) \/ Throw(p)
      BY <3>1 DEF Next, Boot, AcceptRelease, Resolve, Elapse
    <3>4. Start(o) \/ Step(o) \/ Throw(o)
      BY <3>2, <3>3
    <3>5. ~ Start(o)
      BY DEF Start, StartAutomation, StartApply, StartRollback
    <3>6. ~ Throw(o)
      <4>1. ASSUME Throw(o) PROVE FALSE
        BY <2>1, <4>1, GotoFields DEF Throw
      <4> QED
        BY <4>1
    <3> QED
      BY <3>4, <3>5, <3>6
      DEF Step, Acquire, Begin, SetMaintenance, RecordPlan, Snapshot, SetRef, RunSchema,
          Reconcile, Verify, ClearMaintenance, Automate, Retain, DiscardPrior, ClearPriorRef,
          Release, Restore, Undo
  <2> QED
    BY <2>2, <2>3
<1> QED
  BY <1>1, AlwaysSerial, SerialInvariant, PTL DEF Spec, SuccessIsComplete

-----------------------------------------------------------------------------
(* Runs and releases.  A retry must find the run a crash left: the call read
   its release before it took the lock, and a restore takes the run rows back. *)

\* Run rows are opened in the order of their releases, and none is opened for a
\* release while a run for it is running.
RunsInOrder(d) ==
    \A q, r \in Present(d) :
        /\ d.runs[r].to <= d.target
        /\ q < r /\ d.runs[q].status = "running" => d.runs[q].to < d.runs[r].to

\* An apply that has not begun holds the newest release any run is for.
Newest(o) ==
    op[o].kind = "apply" /\ op[o].pc \in {"acquire", "begin"} =>
        /\ op[o].to <= db.target
        /\ \A r \in Present(db) : db.runs[r].to <= op[o].to

OrderInv ==
    /\ RunsInOrder(db)
    /\ \A s \in Snaps : files[s] # NoFile => RunsInOrder(files[s])
    /\ \A o \in Ops : Newest(o)

\* e opens no run, starts none and forgets no release of d's.
Tamer(d, e) ==
    /\ \A r \in RunIds :
         /\ e.runs[r].to = d.runs[r].to
         /\ e.runs[r].status # "absent" => d.runs[r].status # "absent"
         /\ e.runs[r].status = "running" => d.runs[r].status = "running"
    /\ d.target <= e.target

LEMMA OrderKept ==
    ASSUME NEW d \in Database, NEW e \in Database, RunsInOrder(d), Tamer(d, e)
    PROVE  RunsInOrder(e)
BY ApplyConstants DEF RunsInOrder, Tamer, Present, Database

LEMMA TamerSame ==
    ASSUME NEW d \in Database, NEW e, e.runs = d.runs, e.target = d.target
    PROVE  Tamer(d, e)
BY ApplyConstants DEF Tamer, Database

\* A call that is past begin holds no release to open a run for.
LEMMA OrderParts ==
    ASSUME Serial, OrderInv, TypeInv, TypeInv', NEW o \in Ops,
           RunsInOrder(db'), files' = files \/ (\E s : files' = [files EXCEPT ![s] = NoFile]),
           op'[o].pc \notin {"acquire", "begin"} \/ op'[o].kind # "apply"
    PROVE  OrderInv'
<1>1. \A s \in Snaps : files'[s] # NoFile => RunsInOrder(files'[s])
  BY DEF OrderInv, TypeInv, TypeOK
<1>2. \A p \in Ops : p = o
  BY DEF Serial
<1> QED
  BY <1>1, <1>2 DEF OrderInv, Newest

LEMMA OrderTame ==
    ASSUME Serial, OrderInv, TypeInv, TypeInv', NEW o \in Ops,
           Tamer(db, db'), files' = files \/ (\E s : files' = [files EXCEPT ![s] = NoFile]),
           op'[o].pc \notin {"acquire", "begin"} \/ op'[o].kind # "apply"
    PROVE  OrderInv'
<1>1. db \in Database /\ db' \in Database
  BY DEF TypeInv, TypeOK
<1> QED
  BY <1>1, OrderKept, OrderParts DEF OrderInv

LEMMA OrderBefore ==
    ASSUME Serial, SerialInv, OrderInv, TypeInv', NEW o \in Ops,
           \/ Start(o) \/ Acquire(o) \/ Begin(o) \/ SetMaintenance(o) \/ RecordPlan(o)
           \/ Snapshot(o) \/ SetRef(o)
    PROVE  OrderInv'
<1>1. /\ TypeInv /\ CallInv(o) /\ CallOK(op[o]) /\ Sound(db, nextRun) /\ Newest(o)
      /\ RunsInOrder(db)
      /\ db \in Database /\ op[o] \in Calls /\ op \in [Ops -> Calls]
      /\ nextRun \in Nat /\ nextSnap \in Nat
  BY Fields DEF SerialInv, OrderInv, TypeInv, WellFormed
<1>2. CASE Start(o)
  <2>1. CASE StartAutomation(o)
    <3>1. op'[o].kind = "automation" /\ UNCHANGED <<db, files>>
      BY <1>1, <2>1 DEF StartAutomation, Idle
    <3> QED
      BY <1>1, <3>1, OrderTame, TamerSame
  <2>2. ASSUME NEW held, NEW force, StartApply(o, held, force)
        PROVE  OrderInv'
    <3>1. op'[o].to = db.target /\ UNCHANGED <<db, files>>
      BY <1>1, <2>2 DEF StartApply, Idle
    <3>2. Newest(o)'
      BY <1>1, <3>1, ApplyConstants DEF Newest, RunsInOrder, Database
    <3>3. \A p \in Ops : p = o
      BY DEF Serial
    <3> QED
      BY <1>1, <3>1, <3>2, <3>3 DEF OrderInv
  <2>3. ASSUME NEW r, StartRollback(o, r)
        PROVE  OrderInv'
    <3>1. op'[o].kind = "rollback" /\ UNCHANGED <<db, files>>
      BY <1>1, <2>3 DEF StartRollback, Idle
    <3> QED
      BY <1>1, <3>1, OrderTame, TamerSame
  <2> QED
    BY <1>2, <2>1, <2>2, <2>3 DEF Start
<1>3. CASE Acquire(o)
  <2>1. /\ UNCHANGED files /\ db'.runs = db.runs /\ db'.target = db.target
        /\ op[o].pc = "acquire"
    BY <1>1, <1>3 DEF Acquire, Database
  <2>2. op'[o] = [op[o] EXCEPT !.pc = Entry[op[o].kind]] \/ op'[o] = Idle
    BY <1>1, <1>3 DEF Acquire, Goto
  <2>3. CASE op'[o] = Idle
    BY <1>1, <2>1, <2>3, OrderTame, TamerSame DEF Idle
  <2>4. CASE op'[o] = [op[o] EXCEPT !.pc = Entry[op[o].kind]]
    <3>1. op'[o].kind = op[o].kind /\ op'[o].to = op[o].to
      BY <1>1, <2>4 DEF Calls
    <3>2. Newest(o)'
      BY <1>1, <2>1, <3>1 DEF Newest, Present
    <3>3. RunsInOrder(db')
      BY <1>1, <2>1 DEF RunsInOrder, Present
    <3>4. \A p \in Ops : p = o
      BY DEF Serial
    <3> QED
      BY <2>1, <3>2, <3>3, <3>4 DEF OrderInv
  <2> QED
    BY <2>2, <2>3, <2>4
<1>4. CASE Begin(o)
  <2>1. ASSUME NEW r \in RunIds, op' = [op EXCEPT ![o].pc = "maint", ![o].run = r], UNCHANGED db
        PROVE  OrderInv'
    <3>1. op'[o].pc = "maint"
      BY <1>1, <2>1 DEF Calls
    <3> QED
      BY <1>1, <1>4, <2>1, <3>1, OrderTame, TamerSame DEF Begin
  <2>2. CASE /\ \A r \in RunIds : ~ Continues(r, op[o].to)
             /\ nextRun <= MaxRuns
             /\ db' = [db EXCEPT !.runs[nextRun] = [status |-> "running", to |-> op[o].to,
                                                    snap |-> 0],
                                 !.open = FALSE]
             /\ op' = [op EXCEPT ![o].pc = "maint", ![o].run = nextRun, ![o].fresh = TRUE]
    <3>1. op'[o].pc = "maint"
      BY <1>1, <2>2 DEF Calls
    <3>2. op[o].kind = "apply" /\ op[o].pc = "begin"
      BY <1>1, <1>4 DEF Begin, CallInv
    <3>3. op[o].to <= db.target /\ \A r \in Present(db) : db.runs[r].to <= op[o].to
      BY <1>1, <3>2 DEF Newest
    <3>4. /\ nextRun \in RunIds /\ db'.target = db.target
          /\ db'.runs = [db.runs EXCEPT ![nextRun] = [status |-> "running", to |-> op[o].to,
                                                      snap |-> 0]]
      BY <1>1, <2>2, ApplyConstants DEF Database, RunIds, TypeInv, TypeOK
    <3>5. /\ db'.runs[nextRun].status = "running" /\ db'.runs[nextRun].to = op[o].to
          /\ \A r \in RunIds \ {nextRun} : db'.runs[r] = db.runs[r]
          /\ Present(db') = Present(db) \cup {nextRun}
      BY <1>1, <3>4 DEF Present, Database
    <3>6. \A q \in Present(db) : q \in Nat /\ q < nextRun /\ q # nextRun
      BY <1>1 DEF Sound, Present, RunIds
    <3>7. ASSUME NEW q \in Present(db), db.runs[q].status = "running"
          PROVE  db.runs[q].to < op[o].to
      <4>1. db.runs[q].to \in 0 .. MaxBuild /\ op[o].to \in 0 .. MaxBuild /\ q \in RunIds
        BY <1>1 DEF Database, Calls, Present
      <4>2. CASE IsLatest(db, q)
        BY <2>2, <3>3, <3>7, <4>1, <4>2, ApplyConstants DEF Continues
      <4>3. CASE ~ IsLatest(db, q)
        <5>1. PICK r \in Present(db) : q < r
          BY <3>6, <4>3 DEF IsLatest
        <5>2. db.runs[q].to < db.runs[r].to /\ db.runs[r].to <= op[o].to
          BY <1>1, <3>3, <3>7, <5>1 DEF RunsInOrder
        <5>3. db.runs[r].to \in 0 .. MaxBuild
          BY <1>1 DEF Database, Present
        <5> QED
          BY <4>1, <5>2, <5>3, ApplyConstants
      <4> QED
        BY <4>2, <4>3
    <3>8. RunsInOrder(db')
      <4> SUFFICES ASSUME NEW q \in Present(db'), NEW r \in Present(db')
                   PROVE  /\ db'.runs[r].to <= db'.target
                          /\ q < r /\ db'.runs[q].status = "running" => db'.runs[q].to < db'.runs[r].to
        BY DEF RunsInOrder
      <4>1. CASE r = nextRun
        <5>1. db'.runs[r].to <= db'.target
          BY <3>3, <3>4, <3>5, <4>1
        <5>2. CASE q = nextRun
          BY <1>1, <4>1, <5>1, <5>2
        <5>3. CASE q \in Present(db)
          <6>1. db'.runs[q] = db.runs[q]
            BY <3>5, <3>6, <5>3 DEF Present
          <6> QED
            BY <3>5, <3>7, <4>1, <5>1, <5>3, <6>1
        <5> QED
          BY <3>5, <5>2, <5>3
      <4>2. CASE r \in Present(db)
        <5>1. db'.runs[r] = db.runs[r] /\ db'.target = db.target
          BY <3>4, <3>5, <3>6, <4>2 DEF Present
        <5>0. db.runs[r].to <= db.target /\ r \in Nat /\ r < nextRun
          BY <1>1, <3>6, <4>2 DEF RunsInOrder
        <5>2. CASE q = nextRun
          BY <1>1, <5>0, <5>1, <5>2
        <5>3. CASE q \in Present(db)
          <6>1. db'.runs[q] = db.runs[q]
            BY <3>5, <3>6, <5>3 DEF Present
          <6> QED
            BY <1>1, <4>2, <5>1, <5>3, <6>1 DEF RunsInOrder
        <5> QED
          BY <3>5, <5>2, <5>3
      <4> QED
        BY <3>5, <4>1, <4>2
    <3> QED
      BY <1>1, <1>4, <3>1, <3>8, OrderParts DEF Begin
  <2> QED
    BY <1>1, <1>4, <2>1, <2>2, BeginOpens
<1>5. CASE SetMaintenance(o) \/ RecordPlan(o)
  <2>1. /\ Goto(o, "plan") \/ Goto(o, "snapshot")
        /\ UNCHANGED files /\ db'.runs = db.runs /\ db'.target = db.target
    BY <1>1, <1>5 DEF SetMaintenance, RecordPlan, Database
  <2>2. op'[o].pc \in {"plan", "snapshot"}
    BY <1>1, <2>1, GotoFields
  <2> QED
    BY <1>1, <2>1, <2>2, OrderTame, TamerSame
<1>6. CASE Snapshot(o)
  <2>1. /\ op'[o] = [op[o] EXCEPT !.pc = "ref", !.snap = nextSnap]
        /\ files' = [files EXCEPT ![nextSnap] = db] /\ db' = db
    BY <1>1, <1>6 DEF Snapshot
  <2>2. op'[o].pc = "ref"
    BY <1>1, <2>1 DEF Calls
  <2>3. \A s \in Snaps : files'[s] # NoFile => RunsInOrder(files'[s])
    BY <1>1, <2>1 DEF OrderInv, TypeInv, TypeOK
  <2>4. \A p \in Ops : p = o
    BY DEF Serial
  <2> QED
    BY <1>1, <2>1, <2>2, <2>3, <2>4 DEF OrderInv, Newest
<1>7. CASE SetRef(o)
  <2>1. Goto(o, "schema") /\ UNCHANGED files
    BY <1>7 DEF SetRef
  <2>2. db'.runs = [db.runs EXCEPT ![op[o].run].snap = op[o].snap] /\ db'.target = db.target
    BY <1>1, <1>7 DEF SetRef, Database
  <2>3. \A r \in RunIds : db'.runs[r].to = db.runs[r].to /\ db'.runs[r].status = db.runs[r].status
    BY <1>1, <2>2 DEF Database
  <2>4. Tamer(db, db')
    BY <1>1, <2>2, <2>3, ApplyConstants DEF Tamer, Database
  <2>5. op'[o].pc = "schema"
    BY <1>1, <2>1, GotoFields
  <2> QED
    BY <1>1, <2>1, <2>4, <2>5, OrderTame
<1> QED
  BY <1>2, <1>3, <1>4, <1>5, <1>6, <1>7

LEMMA OrderDuring ==
    ASSUME Serial, SerialInv, OrderInv, TypeInv', NEW o \in Ops,
           \/ RunSchema(o) \/ Reconcile(o) \/ Verify(o) \/ ClearMaintenance(o) \/ Automate(o)
           \/ Finish(o) \/ Retain(o) \/ DiscardPrior(o) \/ ClearPriorRef(o) \/ Release(o)
    PROVE  OrderInv'
<1>1. /\ TypeInv /\ CallInv(o)
      /\ db \in Database /\ op[o] \in Calls /\ op \in [Ops -> Calls]
  BY Fields DEF SerialInv
<1>2. CASE RunSchema(o) \/ Reconcile(o) \/ Verify(o) \/ ClearMaintenance(o) \/ Automate(o)
  <2>1. UNCHANGED files /\ db'.runs = db.runs /\ db'.target = db.target
    <3>1. CASE RunSchema(o)
      BY <1>1, <3>1 DEF RunSchema, Database
    <3>2. CASE Reconcile(o) \/ Verify(o) \/ ClearMaintenance(o) \/ Automate(o)
      BY <1>1, <3>2 DEF Reconcile, Verify, ClearMaintenance, Automate, Database
    <3> QED
      BY <1>2, <3>1, <3>2
  <2>2. \/ \E pc \in {"reconcile", "verify", "clear", "finish", "release"} : Goto(o, pc)
        \/ \E path : StartUndo(o, path)
    BY <1>2 DEF RunSchema, Reconcile, Verify, ClearMaintenance, Automate
  <2>3. op'[o].pc \in {"reconcile", "verify", "clear", "finish", "release", "restore"}
    BY <1>1, <2>2, GotoFields, UndoFields
  <2> QED
    BY <1>1, <2>1, <2>3, OrderTame, TamerSame
<1>3. CASE Finish(o)
  <2>1. /\ Goto(o, "retain") /\ UNCHANGED files /\ db'.target = db.target
        /\ db'.runs = [db.runs EXCEPT ![op[o].run].status =
                         IF db.open THEN "succeeded_with_pending" ELSE "succeeded"]
    BY <1>1, <1>3 DEF Finish, Database
  <2>2. op[o].run \in Present(db)
    BY <1>1, <1>3 DEF Finish, CallInv, Working, IsLatest
  <2>3. \A r \in RunIds : /\ db'.runs[r].to = db.runs[r].to
                          /\ r # op[o].run => db'.runs[r].status = db.runs[r].status
    BY <1>1, <2>1 DEF Database
  <2>4. /\ db'.runs[op[o].run].status \in {"succeeded", "succeeded_with_pending"}
        /\ db.runs[op[o].run].status # "absent"
    BY <1>1, <2>1, <2>2 DEF Database, Present
  <2>5. Tamer(db, db')
    BY <1>1, <2>1, <2>3, <2>4, ApplyConstants DEF Tamer, Database
  <2>6. op'[o].pc = "retain"
    BY <1>1, <2>1, GotoFields
  <2> QED
    BY <1>1, <2>1, <2>5, <2>6, OrderTame
<1>4. CASE Retain(o) \/ DiscardPrior(o)
  <2>1. /\ db' = db /\ op'[o].pc \in {"release", "drop", "unref"}
        /\ files' = files \/ (\E s : files' = [files EXCEPT ![s] = NoFile])
    <3>1. CASE Retain(o)
      BY <1>1, <3>1, RetainFields
    <3>2. CASE DiscardPrior(o)
      BY <1>1, <3>2, DiscardFields
    <3> QED
      BY <1>4, <3>1, <3>2
  <2> QED
    BY <1>1, <2>1, OrderTame, TamerSame
<1>5. CASE ClearPriorRef(o)
  <2>1. /\ Goto(o, "release") \/ Goto(o, "drop")
        /\ UNCHANGED files /\ db'.target = db.target
        /\ db'.runs = [db.runs EXCEPT ![op[o].prior].snap = 0]
    BY <1>1, <1>5 DEF ClearPriorRef, Database
  <2>2. \A r \in RunIds : db'.runs[r].to = db.runs[r].to /\ db'.runs[r].status = db.runs[r].status
    BY <1>1, <2>1 DEF Database
  <2>3. Tamer(db, db')
    BY <1>1, <2>1, <2>2, ApplyConstants DEF Tamer, Database
  <2>4. op'[o].pc \in {"release", "drop"}
    BY <1>1, <2>1, GotoFields
  <2> QED
    BY <1>1, <2>1, <2>3, <2>4, OrderTame
<1>6. CASE Release(o)
  <2>1. op'[o].pc = "idle" /\ UNCHANGED files /\ db'.runs = db.runs /\ db'.target = db.target
    BY <1>1, <1>6 DEF Release, Idle, Database
  <2> QED
    BY <1>1, <2>1, OrderTame, TamerSame
<1> QED
  BY <1>2, <1>3, <1>4, <1>5, <1>6

\* What one write of a tail does to the run rows: at most it clears the
\* reference of the call's run, or marks that run rolled back.
LEMMA UndoWrite ==
    ASSUME TypeInv, NEW o \in Ops, Undo(o)
    PROVE  /\ op[o].pc = "undo" /\ op'[o].pc \in {"undo", "release"}
           /\ op'[o].run = op[o].run /\ op'[o].snap = op[o].snap
           /\ files' = files \/ files' = [files EXCEPT ![op[o].snap] = NoFile]
           /\ db'.target = db.target /\ Data(db') = Data(db)
           /\ \A r \in RunIds :
                /\ db'.runs[r].to = db.runs[r].to
                /\ db'.runs[r].snap \in {db.runs[r].snap, 0}
                /\ \/ db'.runs[r].status = db.runs[r].status
                   \/ /\ r = op[o].run /\ r \in Present(db)
                      /\ db'.runs[r].status = "rolled_back"
<1> DEFINE writes == UndoWrites[op[o].path]
           write == writes[op[o].step]
<1>1. /\ db \in Database /\ op[o] \in Calls /\ op \in [Ops -> Calls] /\ CallOK(op[o])
  BY Fields DEF TypeInv, WellFormed
<1>2. op[o].path \in Paths /\ op[o].step \in 1 .. 5 /\ op[o].step <= Len(writes)
  BY <1>1, Tails DEF Calls, CallOK
<1>3. write \in Writes
  BY <1>2, Tails
<1>4. /\ db' = UndoDb(write, op[o].run)
      /\ files' = files \/ files' = [files EXCEPT ![op[o].snap] = NoFile]
      /\ op' = IF op[o].step = Len(writes)
               THEN [op EXCEPT ![o].pc = "release"]
               ELSE [op EXCEPT ![o].step = @ + 1]
      /\ op[o].pc = "undo"
  BY DEF Undo
<1>5. op'[o].pc \in {"undo", "release"} /\ op'[o].run = op[o].run /\ op'[o].snap = op[o].snap
  <2>1. op'[o] \in {[op[o] EXCEPT !.pc = "release"], [op[o] EXCEPT !.step = @ + 1]}
    BY <1>1, <1>4
  <2> QED
    BY <1>1, <1>4, <2>1 DEF Calls
<1> HIDE DEF write
<1>6. CASE write \in {"clear", "audit", "discard"}
  <2>1. /\ db'.runs = db.runs /\ db'.target = db.target
        /\ db'.ledger = db.ledger /\ db'.content = db.content
    BY <1>1, <1>4, <1>6 DEF UndoDb, Database
  <2> QED
    BY <1>4, <1>5, <2>1 DEF Data
<1>7. CASE write = "unref"
  <2>1. db' = [db EXCEPT !.runs[op[o].run].snap = 0]
    BY <1>4, <1>7 DEF UndoDb
  <2>2. /\ db'.runs = [db.runs EXCEPT ![op[o].run].snap = 0] /\ db'.target = db.target
        /\ db'.ledger = db.ledger /\ db'.content = db.content
    BY <1>1, <2>1 DEF Database
  <2>3. \A r \in RunIds : /\ db'.runs[r].to = db.runs[r].to
                          /\ db'.runs[r].status = db.runs[r].status
                          /\ db'.runs[r].snap \in {db.runs[r].snap, 0}
    BY <1>1, <2>2 DEF Database
  <2> QED
    BY <1>4, <1>5, <2>2, <2>3 DEF Data
<1>8. CASE write = "finish"
  <2>1. db' = IF op[o].run \in Present(db)
              THEN [db EXCEPT !.runs[op[o].run].status = "rolled_back"] ELSE db
    BY <1>4, <1>8 DEF UndoDb
  <2>2. CASE op[o].run \in Present(db)
    <3>1. /\ db'.runs = [db.runs EXCEPT ![op[o].run].status = "rolled_back"]
          /\ db'.target = db.target /\ db'.ledger = db.ledger /\ db'.content = db.content
      BY <1>1, <2>1, <2>2 DEF Database
    <3>2. \A r \in RunIds :
             /\ db'.runs[r].to = db.runs[r].to /\ db'.runs[r].snap = db.runs[r].snap
             /\ \/ db'.runs[r].status = db.runs[r].status
                \/ r = op[o].run /\ db'.runs[r].status = "rolled_back"
      BY <1>1, <3>1 DEF Database
    <3> QED
      BY <1>4, <1>5, <2>2, <3>1, <3>2 DEF Data
  <2>3. CASE op[o].run \notin Present(db)
    BY <1>4, <1>5, <2>1, <2>3
  <2> QED
    BY <2>2, <2>3
<1> QED
  BY <1>3, <1>6, <1>7, <1>8 DEF Writes

LEMMA OrderUndoing ==
    ASSUME Serial, SerialInv, OrderInv, TypeInv', NEW o \in Ops, Restore(o) \/ Undo(o) \/ Throw(o)
    PROVE  OrderInv'
<1>1. /\ TypeInv /\ CallOK(op[o]) /\ db \in Database /\ op[o] \in Calls /\ op \in [Ops -> Calls]
  BY Fields DEF SerialInv, TypeInv, WellFormed
<1>2. CASE Restore(o)
  <2>1. op[o].snap \in Snaps /\ UNCHANGED files
    BY <1>1, <1>2 DEF Restore, CallOK, Calls, Snaps
  <2>2. CASE files[op[o].snap] # NoFile
    <3>1. op'[o].pc = "undo" /\ RunsInOrder(db')
      BY <1>1, <1>2, <2>1, <2>2, GotoFields DEF Restore, OrderInv
    <3> QED
      BY <1>1, <2>1, <3>1, OrderParts
  <2>3. CASE files[op[o].snap] = NoFile
    <3>1. op'[o].pc = "idle" /\ db' = db
      BY <1>1, <1>2, <2>3 DEF Restore, Idle
    <3> QED
      BY <1>1, <2>1, <3>1, OrderTame, TamerSame
  <2> QED
    BY <2>2, <2>3
<1>3. CASE Undo(o)
  <2>1. /\ op'[o].pc \in {"undo", "release"}
        /\ files' = files \/ files' = [files EXCEPT ![op[o].snap] = NoFile]
        /\ Tamer(db, db')
    BY <1>1, <1>3, UndoWrite, ApplyConstants DEF Tamer, Database, Present
  <2> QED
    BY <1>1, <2>1, OrderTame
<1>4. CASE Throw(o)
  <2>1. op'[o].pc = "release" /\ UNCHANGED <<db, files>>
    BY <1>1, <1>4, GotoFields DEF Throw
  <2> QED
    BY <1>1, <2>1, OrderTame, TamerSame
<1> QED
  BY <1>2, <1>3, <1>4

\* A call is dropped or left alone by what happens around it.
LEMMA OrderAround ==
    ASSUME SerialInv, OrderInv, TypeInv',
           \/ \E new \in Batches : Boot(new)
           \/ AcceptRelease
           \/ \E field \in {"urgent", "open"} : Resolve(field)
           \/ Elapse
    PROVE  OrderInv'
<1>1. TypeInv /\ db \in Database /\ db' \in Database /\ op \in [Ops -> Calls]
  BY TypedOp DEF SerialInv, TypeInv, TypeOK
<1>2. UNCHANGED files /\ db'.runs = db.runs /\ db.target <= db'.target
  <2>0. db.target \in Nat
    BY <1>1, ApplyConstants DEF Database
  <2>1. CASE \E new \in Batches : Boot(new)
    <3>1. UNCHANGED files /\ db'.runs = db.runs /\ db'.target = db.target
      BY <1>1, <2>1 DEF Boot, Database
    <3> QED
      BY <2>0, <3>1
  <2>2. CASE AcceptRelease
    <3>1. UNCHANGED files /\ db'.runs = db.runs /\ db'.target = db.target + 1
      BY <1>1, <2>2 DEF AcceptRelease, Database
    <3> QED
      BY <2>0, <3>1
  <2>3. CASE (\E field \in {"urgent", "open"} : Resolve(field)) \/ Elapse
    <3>1. UNCHANGED files /\ db'.runs = db.runs /\ db'.target = db.target
      BY <1>1, <2>3 DEF Resolve, Elapse, Database
    <3> QED
      BY <2>0, <3>1
  <2> QED
    BY <2>1, <2>2, <2>3
<1>3. \A o \in Ops : op'[o] = op[o] \/ op'[o] = Idle
  BY <1>1 DEF Boot, AcceptRelease, Resolve, Elapse
<1>4. RunsInOrder(db')
  BY <1>1, <1>2, OrderKept, ApplyConstants DEF Tamer, OrderInv, Database
<1>5. ASSUME NEW o \in Ops
      PROVE  Newest(o)'
  <2>1. op[o].to \in 0 .. MaxBuild /\ db.target \in 0 .. MaxBuild /\ db'.target \in 0 .. MaxBuild
    BY <1>1 DEF Calls, Database
  <2>2. Present(db') = Present(db)
    BY <1>2 DEF Present
  <2> QED
    BY <1>2, <1>3, <2>1, <2>2, ApplyConstants DEF Newest, OrderInv, Idle
<1> QED
  BY <1>2, <1>4, <1>5 DEF OrderInv

LEMMA OrderInit == Init => OrderInv
<1> SUFFICES ASSUME Init PROVE OrderInv
  OBVIOUS
<1>1. Present(db) = {}
  BY DEF Init, Present, NoRun
<1>2. RunsInOrder(db)
  BY <1>1 DEF RunsInOrder
<1>3. \A s \in Snaps : files[s] = NoFile
  BY DEF Init
<1>4. \A o \in Ops : Newest(o)
  BY DEF Init, Newest, Idle
<1> QED
  BY <1>2, <1>3, <1>4 DEF OrderInv

LEMMA OrderStep == Serial /\ SerialInv /\ OrderInv /\ [Next]_vars => OrderInv'
<1> SUFFICES ASSUME Serial, SerialInv, OrderInv, [Next]_vars PROVE OrderInv'
  OBVIOUS
<1>1. TypeInv'
  BY TypeStep DEF SerialInv
<1>2. CASE UNCHANGED vars
  BY <1>2 DEF vars, OrderInv, Newest
<1>3. CASE \E o \in Ops : Start(o) \/ Step(o) \/ Throw(o)
  BY <1>1, <1>3, OrderBefore, OrderDuring, OrderUndoing DEF Step
<1>4. CASE ~ \E o \in Ops : Start(o) \/ Step(o) \/ Throw(o)
  BY <1>1, <1>2, <1>4, OrderAround DEF Next
<1> QED
  BY <1>3, <1>4

LEMMA OrderInvariant == Serial /\ Spec => []OrderInv
BY AlwaysSerial, OrderInit, OrderStep, SerialInvariant, PTL DEF Spec

\* At most one run is running per release, whatever crashed and was restored:
\* a retry continues the run it finds instead of opening another beside it.
THEOREM OneRunPerRelease == Serial /\ Spec => []OneRunningPerRelease
<1>1. SerialInv /\ OrderInv => OneRunningPerRelease
  <2> SUFFICES ASSUME SerialInv, OrderInv, NEW r \in Present(db), NEW q \in Present(db),
                      db.runs[r].status = "running", db.runs[q].status = "running",
                      db.runs[r].to = db.runs[q].to
               PROVE  r = q
    BY DEF OneRunningPerRelease
  <2>1. r \in Nat /\ q \in Nat
    BY DEF Present, RunIds
  <2>2. db.runs[r].to \in Nat
    BY Fields DEF SerialInv, TypeInv, TypeOK, Database, Present
  <2>3. ~ (r < q) /\ ~ (q < r)
    BY <2>2 DEF OrderInv, RunsInOrder
  <2> QED
    BY <2>1, <2>3
<1> QED
  BY <1>1, SerialInvariant, OrderInvariant, PTL

-----------------------------------------------------------------------------
(* Snapshots and the runs they belong to.                                  *)

\* What the references of a database are read against.
Books == [files |-> files, nextSnap |-> nextSnap, nextRun |-> nextRun,
          base |-> base, resumed |-> resumed]

\* The image in file s, if it is still there, was taken for run r of database
\* d: r is its newest run and running, its data is what r began on unless an
\* apply picked r up again, and d has rolled back every run it has.
ImageOf(d, r, s, w) ==
    LET image == w.files[s] IN
    image # NoFile =>
        /\ IsLatest(image, r) /\ image.runs[r].status = "running"
        /\ r \in w.resumed \/ Data(image) = w.base[r]
        /\ \A q \in RunIds : image.runs[q].status = "rolled_back" => d.runs[q].status = "rolled_back"

\* No two runs of d refer to one snapshot, and each refers to its own.
Referenced(d, w) ==
    \A r \in RunIds :
        LET s == d.runs[r].snap IN
        s # 0 => /\ s < w.nextSnap /\ r < w.nextRun
                 /\ \A q \in RunIds \ {r} : d.runs[q].snap # s
                 /\ ImageOf(d, r, s, w)

\* The statements that hold a snapshot they may restore.
Holding == {"ref", "schema", "reconcile", "verify", "restore"}

\* What call o may count on at each statement, besides CallInv.
CallRef(o) ==
    /\ op[o].pc \in {"maint", "plan", "snapshot"} =>
         op[o].run \in resumed \/ Data(db) = base[op[o].run]
    /\ op[o].pc \in Holding \/ (op[o].pc = "acquire" /\ op[o].kind = "rollback") =>
         /\ op[o].run \in RunIds /\ op[o].run < nextRun /\ op[o].snap < nextSnap
         /\ ImageOf(db, op[o].run, op[o].snap, Books)
    /\ op[o].pc = "ref" => \A r \in RunIds : db.runs[r].snap # op[o].snap
    /\ op[o].pc \in {"clear", "finish"} =>
         db.runs[op[o].run].snap # 0 /\ files[db.runs[op[o].run].snap] # NoFile
    /\ op[o].pc \in {"retain", "drop", "unref"} => IsLatest(db, op[o].run)
    /\ op[o].pc \in {"drop", "unref"} =>
         \A prior \in op[o].listed :
            prior[1] # op[o].run /\ db.runs[prior[1]].snap = prior[2]
    /\ op[o].pc = "unref" =>
         /\ op[o].prior \in RunIds \ {op[o].run}
         /\ \A prior \in op[o].listed : prior[1] # op[o].prior
    /\ op[o].pc = "undo" =>
         /\ IsLatest(db, op[o].run)
         /\ db.runs[op[o].run].status \in {"running", "rolled_back"}
         /\ op[o].run \in resumed \/ Data(db) = base[op[o].run]

RefInv ==
    /\ Referenced(db, Books)
    /\ \A s \in Snaps : files[s] # NoFile => Referenced(files[s], Books)
    /\ RollbackAvailable
    /\ \A o \in Ops : CallRef(o)

\* The books only grow: a file that was written may go, and what a run began
\* on is never written again.
Later(w, v) ==
    /\ w.nextSnap <= v.nextSnap /\ w.nextRun <= v.nextRun
    /\ w.resumed \subseteq v.resumed
    /\ \A r \in RunIds : r < w.nextRun => v.base[r] = w.base[r]
    /\ \A s \in Snaps : s < w.nextSnap => v.files[s] \in {w.files[s], NoFile}

\* e rolls nothing back to running, and refers to nothing d does not.
Successor(d, e) ==
    \A r \in RunIds :
        /\ e.runs[r].snap \in {d.runs[r].snap, 0}
        /\ d.runs[r].status = "rolled_back" => e.runs[r].status = "rolled_back"

LEMMA ImageStays ==
    ASSUME NEW d, NEW e, NEW w, NEW v, NEW r \in RunIds, NEW s \in Snaps,
           ImageOf(d, r, s, w), Later(w, v), r < w.nextRun, s < w.nextSnap,
           \A q \in RunIds : d.runs[q].status = "rolled_back" => e.runs[q].status = "rolled_back"
    PROVE  ImageOf(e, r, s, v)
BY DEF ImageOf, Later

\* The numbers the books give out.
Numbers(w) == w.nextSnap \in Nat /\ w.nextRun \in Nat

LEMMA ReferencesStay ==
    ASSUME NEW d \in Database, NEW e \in Database, NEW w, NEW v, Numbers(w), Numbers(v),
           Referenced(d, w), Later(w, v), Successor(d, e)
    PROVE  Referenced(e, v)
<1> SUFFICES ASSUME NEW r \in RunIds, e.runs[r].snap # 0
             PROVE  /\ e.runs[r].snap < v.nextSnap /\ r < v.nextRun
                    /\ \A q \in RunIds \ {r} : e.runs[q].snap # e.runs[r].snap
                    /\ ImageOf(e, r, e.runs[r].snap, v)
  BY DEF Referenced
<1> DEFINE s == d.runs[r].snap
<1>1. e.runs[r].snap = s /\ s # 0
  BY DEF Successor
<1>2. s \in Snaps /\ r \in Nat
  BY <1>1, ApplyConstants DEF Database, Snaps, RunIds
<1>3. /\ s < w.nextSnap /\ r < w.nextRun
      /\ \A q \in RunIds \ {r} : d.runs[q].snap # s
      /\ ImageOf(d, r, s, w)
  BY <1>1 DEF Referenced
<1> HIDE DEF s
<1>4. s < v.nextSnap /\ r < v.nextRun
  BY <1>2, <1>3 DEF Later, Numbers, Snaps
<1>5. \A q \in RunIds \ {r} : e.runs[q].snap # s
  BY <1>1, <1>3 DEF Successor
<1>6. ImageOf(e, r, s, v)
  BY <1>2, <1>3, ImageStays DEF Successor
<1> QED
  BY <1>1, <1>4, <1>5, <1>6

LEMMA BooksNumbered == TypeInv => Numbers(Books)
BY DEF TypeInv, TypeOK, Books, Numbers

\* Every step only adds to the books.
LEMMA BooksGrow == Serial /\ TypeInv /\ [Next]_vars => Later(Books, Books')
<1> SUFFICES ASSUME Serial, TypeInv, [Next]_vars PROVE Later(Books, Books')
  OBVIOUS
<1>1. /\ nextRun \in Nat /\ nextSnap \in Nat /\ files \in [Snaps -> Image]
      /\ \A s \in Snaps : s \in Nat /\ \A r \in RunIds : r \in Nat
  BY DEF TypeInv, TypeOK, Snaps, RunIds
<1> DEFINE Grown ==
             /\ nextSnap <= nextSnap' /\ nextRun <= nextRun' /\ resumed \subseteq resumed'
             /\ \A r \in RunIds : r < nextRun => base'[r] = base[r]
             /\ \A s \in Snaps : s < nextSnap => files'[s] \in {files[s], NoFile}
<1>2. Grown
  <2>1. ASSUME UNCHANGED <<nextSnap, nextRun, resumed, base>>,
               files' = files \/ \E s : files' = [files EXCEPT ![s] = NoFile]
        PROVE  Grown
    BY <1>1, <2>1
  <2>2. CASE UNCHANGED vars
    BY <2>1, <2>2 DEF vars
  <2>3. ASSUME NEW o \in Ops, Start(o) \/ Step(o) \/ Throw(o)
        PROVE  Grown
    <3>1. CASE Begin(o)
      <4>1. nextRun' \in {nextRun, nextRun + 1} /\ resumed \subseteq resumed'
            /\ base' \in {base, [base EXCEPT ![nextRun] = Data(db)]}
            /\ UNCHANGED <<nextSnap, files>>
        BY <1>1, <3>1, BeginOpens
      <4>2. base \in [RunIds -> [ledger : SUBSET Batches, content : [Families -> 0 .. MaxBuild]]]
        BY DEF TypeInv, TypeOK
      <4> QED
        BY <1>1, <4>1, <4>2
    <3>2. CASE Snapshot(o)
      <4>1. nextSnap' = nextSnap + 1 /\ files' = [files EXCEPT ![nextSnap] = db]
            /\ UNCHANGED <<nextRun, resumed, base>>
        BY <3>2 DEF Snapshot
      <4> QED
        BY <1>1, <4>1
    <3>3. CASE Start(o) \/ Throw(o)
      BY <2>1, <3>3 DEF Start, StartAutomation, StartApply, StartRollback, Throw, Ghosts
    <3>4. CASE Step(o) /\ ~ Begin(o) /\ ~ Snapshot(o)
      BY <2>1, <3>4
      DEF Step, Acquire, SetMaintenance, RecordPlan, SetRef, RunSchema, Reconcile, Verify,
          ClearMaintenance, Automate, Finish, Retain, DiscardPrior, ClearPriorRef, Release,
          Restore, Undo, Ghosts
    <3> QED
      BY <2>3, <3>1, <3>2, <3>3, <3>4
  <2>4. CASE ~ \E o \in Ops : Start(o) \/ Step(o) \/ Throw(o)
    BY <2>1, <2>2, <2>4 DEF Next, Boot, AcceptRelease, Resolve, Elapse, Ghosts
  <2> QED
    BY <2>3, <2>4
<1> QED
  BY <1>2 DEF Later, Books

LEMMA RefParts ==
    ASSUME Serial, NEW o \in Ops, Referenced(db, Books)', RollbackAvailable', CallRef(o)',
           \A s \in Snaps : files'[s] # NoFile => Referenced(files'[s], Books')
    PROVE  RefInv'
<1>1. \A p \in Ops : p = o
  BY DEF Serial
<1> QED
  BY <1>1 DEF RefInv

\* The images' references stay what they are while images are only deleted.
LEMMA ImageReferences ==
    ASSUME Serial, TypeInv, TypeInv', [Next]_vars, RefInv,
           files' = files \/ (\E s : files' = [files EXCEPT ![s] = NoFile])
    PROVE  \A s \in Snaps : files'[s] # NoFile => Referenced(files'[s], Books')
<1> SUFFICES ASSUME NEW s \in Snaps, files'[s] # NoFile
             PROVE  Referenced(files'[s], Books')
  OBVIOUS
<1>1. files'[s] = files[s] /\ files[s] \in Database
  BY DEF TypeInv, TypeOK, Image
<1>2. Referenced(files[s], Books)
  BY <1>1 DEF RefInv
<1>3. Successor(files[s], files[s])
  BY DEF Successor
<1>4. Numbers(Books) /\ Numbers(Books') /\ Later(Books, Books')
  BY BooksNumbered, BooksGrow DEF TypeInv, TypeOK, Numbers, Books
<1> QED
  BY <1>1, <1>2, <1>3, <1>4, ReferencesStay

\* A step that takes no snapshot and refers to none that was not referred to.
LEMMA RefStep ==
    ASSUME Serial, TypeInv, TypeInv', [Next]_vars, RefInv, NEW o \in Ops,
           files' = files \/ (\E s : files' = [files EXCEPT ![s] = NoFile]),
           Successor(db, db'), RollbackAvailable', CallRef(o)'
    PROVE  RefInv'
<1>1. db \in Database /\ db' \in Database
  BY DEF TypeInv, TypeOK
<1>2. Numbers(Books) /\ Numbers(Books')
  BY BooksNumbered DEF TypeInv, TypeOK, Numbers, Books
<1>3. Referenced(db', Books')
  BY <1>1, <1>2, BooksGrow, ReferencesStay DEF RefInv
<1> QED
  BY <1>3, ImageReferences, RefParts

\* The commonest case: the run rows and the files stay.
LEMMA RefQuiet ==
    ASSUME Serial, TypeInv, TypeInv', [Next]_vars, RefInv, NEW o \in Ops,
           files' = files, db'.runs = db.runs, CallRef(o)'
    PROVE  RefInv'
<1>1. Successor(db, db')
  BY DEF Successor
<1>2. RollbackAvailable'
  BY DEF RefInv, RollbackAvailable, IsLatest, Present
<1> QED
  BY <1>1, <1>2, RefStep

\* A call at one of these statements counts on no snapshot.
LEMMA Unattached ==
    ASSUME NEW o \in Ops, op'[o].pc \in {"idle", "begin", "automate", "release"}
    PROVE  CallRef(o)'
BY DEF CallRef, Holding

\* A call that holds a snapshot keeps it: the image stays what it was, or goes.
LEMMA StillHeld ==
    ASSUME Serial, TypeInv, TypeInv', [Next]_vars, NEW o \in Ops, CallRef(o), CallOK(op[o]),
           op[o].pc \in Holding \/ (op[o].pc = "acquire" /\ op[o].kind = "rollback"),
           op'[o].run = op[o].run, op'[o].snap = op[o].snap, Successor(db, db')
    PROVE  /\ op'[o].run \in RunIds /\ op'[o].run < nextRun' /\ op'[o].snap < nextSnap'
           /\ ImageOf(db', op'[o].run, op'[o].snap, Books')
<1>1. /\ op[o].run \in RunIds /\ op[o].run < nextRun /\ op[o].snap < nextSnap
      /\ ImageOf(db, op[o].run, op[o].snap, Books)
  BY DEF CallRef
<1>2. op[o].snap \in Snaps /\ op[o].run \in Nat
  BY <1>1, Fields, ApplyConstants DEF CallOK, Calls, Holding, Snaps, RunIds
<1>3. Later(Books, Books')
  BY BooksGrow
<1>4. nextRun \in Nat /\ nextSnap \in Nat /\ nextRun' \in Nat /\ nextSnap' \in Nat
  BY DEF TypeInv, TypeOK
<1>5. op[o].run < Books.nextRun /\ op[o].snap < Books.nextSnap
  BY <1>1 DEF Books
<1>6. ImageOf(db', op[o].run, op[o].snap, Books')
  BY <1>1, <1>2, <1>3, <1>5, ImageStays DEF Successor
<1>7. nextRun <= nextRun' /\ nextSnap <= nextSnap'
  BY <1>3 DEF Later, Books
<1> QED
  BY <1>1, <1>2, <1>4, <1>6, <1>7 DEF Snaps

LEMMA RefBefore ==
    ASSUME Serial, SerialInv, RefInv, TypeInv', [Next]_vars, NEW o \in Ops,
           \/ Start(o) \/ Acquire(o) \/ Begin(o) \/ SetMaintenance(o) \/ RecordPlan(o)
           \/ Snapshot(o) \/ SetRef(o)
    PROVE  RefInv'
<1>1. /\ TypeInv /\ CallInv(o) /\ CallRef(o) /\ CallOK(op[o]) /\ Sound(db, nextRun)
      /\ Referenced(db, Books) /\ RollbackAvailable
      /\ db \in Database /\ db' \in Database /\ op[o] \in Calls /\ op \in [Ops -> Calls]
      /\ nextRun \in Nat /\ nextSnap \in Nat
  BY Fields DEF SerialInv, RefInv, TypeInv, TypeOK, WellFormed
<1>2. CASE Start(o)
  <2>1. UNCHANGED <<db, files, nextRun, nextSnap, base, resumed>> /\ op'[o].pc = "acquire"
    BY <1>1, <1>2, ZenonT(30) DEF Start, StartAutomation, StartApply, StartRollback, Idle, Ghosts
  <2>2. CASE op'[o].kind # "rollback"
    <3>1. CallRef(o)'
      BY <2>1, <2>2 DEF CallRef, Holding
    <3> QED
      BY <1>1, <2>1, <3>1, RefQuiet
  <2>3. ASSUME NEW r \in RunIds, StartRollback(o, r)
        PROVE  RefInv'
    <3>1. /\ op'[o].run = r /\ op'[o].snap = db.runs[r].snap /\ db.runs[r].snap # 0
          /\ op'[o].kind = "rollback"
      BY <1>1, <2>3 DEF StartRollback, Idle
    <3>2. /\ r < nextRun /\ db.runs[r].snap < nextSnap
          /\ ImageOf(db, r, db.runs[r].snap, Books)
      BY <1>1, <3>1 DEF Referenced, Books
    <3>3. Books' = Books
      BY <2>1 DEF Books
    <3>4. CallRef(o)'
      BY <2>1, <3>1, <3>2, <3>3 DEF CallRef, Holding
    <3> QED
      BY <1>1, <2>1, <3>4, RefQuiet
  <2>4. op'[o].kind # "rollback" \/ \E r \in RunIds : StartRollback(o, r)
    <3>1. CASE StartAutomation(o)
      BY <1>1, <3>1 DEF StartAutomation, Idle
    <3>2. CASE \E held \in HeldChoices, force \in {FALSE, MayForce} : StartApply(o, held, force)
      BY <1>1, <3>2 DEF StartApply, Idle
    <3> QED
      BY <1>2, <3>1, <3>2 DEF Start
  <2> QED
    BY <2>2, <2>3, <2>4
<1>3. CASE Acquire(o)
  <2>1. UNCHANGED files /\ db'.runs = db.runs /\ op[o].pc = "acquire"
    BY <1>1, <1>3 DEF Acquire, Database
  <2>2. Successor(db, db')
    BY <2>1 DEF Successor
  <2>3. CASE op'[o] = Idle
    <3>1. CallRef(o)'
      BY <2>3, Unattached DEF Idle
    <3> QED
      BY <1>1, <2>1, <3>1, RefQuiet
  <2>4. CASE op'[o] = [op[o] EXCEPT !.pc = Entry[op[o].kind]]
    <3>1. /\ op'[o].pc = Entry[op[o].kind] /\ op'[o].run = op[o].run /\ op'[o].snap = op[o].snap
          /\ op'[o].kind = op[o].kind
      BY <1>1, <2>4 DEF Calls
    <3>2. op[o].kind \in {"apply", "rollback", "automation"}
      BY <1>1, <2>1, KindLabels DEF CallOK
    <3>3. CASE op[o].kind = "rollback"
      <4>1. op'[o].pc = "restore"
        BY <3>1, <3>3 DEF Entry
      <4>2. /\ op'[o].run \in RunIds /\ op'[o].run < nextRun' /\ op'[o].snap < nextSnap'
            /\ ImageOf(db', op'[o].run, op'[o].snap, Books')
        BY <1>1, <2>1, <2>2, <3>1, <3>3, StillHeld
      <4>3. CallRef(o)'
        BY <4>1, <4>2 DEF CallRef, Holding
      <4> QED
        BY <1>1, <2>1, <4>3, RefQuiet
    <3>4. CASE op[o].kind # "rollback"
      <4>1. op'[o].pc \in {"begin", "automate"}
        BY <3>1, <3>2, <3>4 DEF Entry
      <4> QED
        BY <1>1, <2>1, <4>1, Unattached, RefQuiet
    <3> QED
      BY <3>3, <3>4
  <2>5. op'[o] = [op[o] EXCEPT !.pc = Entry[op[o].kind]] \/ op'[o] = Idle
    BY <1>1, <1>3 DEF Acquire, Goto
  <2> QED
    BY <2>3, <2>4, <2>5
<1>4. CASE Begin(o)
  <2>0. UNCHANGED <<files, nextSnap>>
    BY <1>4 DEF Begin
  <2>1. ASSUME NEW r \in RunIds, op' = [op EXCEPT ![o].pc = "maint", ![o].run = r],
               resumed' = resumed \cup {r}, UNCHANGED <<db, nextRun, base>>
        PROVE  RefInv'
    <3>1. op'[o] = [op[o] EXCEPT !.pc = "maint", !.run = r]
      BY <1>1, <2>1
    <3>2. op'[o].pc = "maint" /\ op'[o].run = r
      BY <1>1, <3>1 DEF Calls
    <3>3. CallRef(o)'
      BY <2>1, <3>2 DEF CallRef, Holding
    <3> QED
      BY <1>1, <2>0, <2>1, <3>3, RefQuiet
  <2>2. CASE /\ nextRun <= MaxRuns /\ nextRun' = nextRun + 1
             /\ db' = [db EXCEPT !.runs[nextRun] = [status |-> "running", to |-> op[o].to,
                                                    snap |-> 0],
                                 !.open = FALSE]
             /\ op' = [op EXCEPT ![o].pc = "maint", ![o].run = nextRun, ![o].fresh = TRUE]
             /\ base' = [base EXCEPT ![nextRun] = Data(db)]
             /\ UNCHANGED resumed
    <3>1. op'[o] = [op[o] EXCEPT !.pc = "maint", !.run = nextRun, !.fresh = TRUE]
      BY <1>1, <2>2
    <3>2. op'[o].pc = "maint" /\ op'[o].run = nextRun
      BY <1>1, <3>1 DEF Calls
    <3>3. /\ nextRun \in RunIds /\ Data(db') = Data(db)
          /\ db'.runs = [db.runs EXCEPT ![nextRun] = [status |-> "running", to |-> op[o].to,
                                                      snap |-> 0]]
      BY <1>1, <2>2, ApplyConstants DEF Database, RunIds, TypeInv, TypeOK, Data
    <3>4. base'[nextRun] = Data(db')
      BY <1>1, <2>2, <3>3 DEF TypeInv, TypeOK
    <3>5. CallRef(o)'
      BY <3>2, <3>4 DEF CallRef, Holding
    <3>6. /\ db'.runs[nextRun].status = "running" /\ db'.runs[nextRun].snap = 0
          /\ \A r \in RunIds \ {nextRun} : db'.runs[r] = db.runs[r]
          /\ nextRun \notin Present(db)
      BY <1>1, <3>3 DEF Database, Sound
    <3>7. Successor(db, db')
      BY <3>3, <3>6 DEF Successor, Present
    <3>8. RollbackAvailable'
      <4>1. \A r \in Present(db') : r <= nextRun
        BY <1>1, <3>6 DEF Sound, Present, RunIds
      <4>2. ASSUME NEW r \in RunIds, IsLatest(db', r)
            PROVE  r = nextRun
        BY <1>1, <3>3, <3>6, <4>1, <4>2 DEF IsLatest, Present, RunIds
      <4> QED
        BY <3>6, <4>2 DEF RollbackAvailable
    <3> QED
      BY <1>1, <2>0, <3>5, <3>7, <3>8, RefStep
  <2> QED
    BY <1>1, <1>4, <2>1, <2>2, BeginOpens
<1>5. CASE SetMaintenance(o) \/ RecordPlan(o)
  <2>1. /\ Goto(o, "plan") \/ Goto(o, "snapshot")
        /\ UNCHANGED <<files, base, resumed>> /\ db'.runs = db.runs /\ Data(db') = Data(db)
        /\ op[o].pc \in {"maint", "plan"}
    BY <1>1, <1>5 DEF SetMaintenance, RecordPlan, Database, Data, Ghosts
  <2>2. op'[o].pc \in {"plan", "snapshot"} /\ op'[o].run = op[o].run
    BY <1>1, <2>1, GotoFields
  <2>3. CallRef(o)'
    BY <1>1, <2>1, <2>2 DEF CallRef, Holding
  <2> QED
    BY <1>1, <2>1, <2>3, RefQuiet
<1>6. CASE Snapshot(o)
  <2>1. /\ op'[o] = [op[o] EXCEPT !.pc = "ref", !.snap = nextSnap] /\ op[o].pc = "snapshot"
        /\ files' = [files EXCEPT ![nextSnap] = db] /\ nextSnap' = nextSnap + 1
        /\ UNCHANGED <<db, nextRun, base, resumed>> /\ nextSnap \in Snaps
    BY <1>1, <1>6, ApplyConstants DEF Snapshot, Snaps, TypeInv, TypeOK
  <2>2. op'[o].pc = "ref" /\ op'[o].run = op[o].run /\ op'[o].snap = nextSnap
    BY <1>1, <2>1 DEF Calls
  <2>3. Numbers(Books) /\ Numbers(Books') /\ Later(Books, Books')
    BY <1>1, BooksNumbered, BooksGrow DEF TypeInv, TypeOK, Numbers, Books
  <2>4. \A d \in Database : Successor(d, d)
    BY DEF Successor
  <2>5. Referenced(db, Books')
    BY <1>1, <2>3, <2>4, ReferencesStay
  <2>6. files \in [Snaps -> Image]
    BY <1>1 DEF TypeInv, TypeOK
  <2>7. ASSUME NEW s \in Snaps, files'[s] # NoFile
        PROVE  Referenced(files'[s], Books')
    <3>1. CASE s = nextSnap
      BY <2>1, <2>5, <2>6, <3>1
    <3>2. CASE s # nextSnap
      <4>1. files'[s] = files[s] /\ files[s] \in Database
        BY <2>1, <2>6, <2>7, <3>2 DEF Image
      <4> QED
        BY <2>3, <2>4, <2>7, <4>1, ReferencesStay DEF RefInv
    <3> QED
      BY <3>1, <3>2
  <2>8. RollbackAvailable'
    <3> SUFFICES ASSUME NEW r \in RunIds, IsLatest(db, r),
                        db.runs[r].status \in {"succeeded", "succeeded_with_pending"}
                 PROVE  db.runs[r].snap # 0 /\ files'[db.runs[r].snap] # NoFile
      BY <2>1 DEF RollbackAvailable
    <3>1. db.runs[r].snap # 0 /\ files[db.runs[r].snap] # NoFile
      BY <1>1 DEF RollbackAvailable
    <3>2. db.runs[r].snap < nextSnap /\ db.runs[r].snap \in Snaps
      BY <1>1, <3>1, ApplyConstants DEF Referenced, Books, Database, Snaps
    <3> QED
      BY <1>1, <2>1, <2>6, <3>1, <3>2 DEF Snaps
  <2>9. CallRef(o)'
    <3>1. IsLatest(db, op[o].run) /\ db.runs[op[o].run].status = "running"
      BY <1>1, <2>1 DEF CallInv, Working
    <3>2. op[o].run \in RunIds /\ op[o].run < nextRun
      BY <1>1, <3>1 DEF IsLatest, Present, Sound
    <3>3. files'[nextSnap] = db
      BY <2>1, <2>6
    <3>4. op[o].run \in resumed \/ Data(db) = base[op[o].run]
      BY <1>1, <2>1 DEF CallRef
    <3>5. ImageOf(db, op[o].run, nextSnap, Books')
      BY <2>1, <3>1, <3>3, <3>4 DEF ImageOf, Books
    <3>6. \A r \in RunIds : db.runs[r].snap # nextSnap
      BY <1>1, <2>1 DEF Referenced, Books, Snaps
    <3>7. nextSnap < nextSnap'
      BY <1>1, <2>1
    <3> QED
      BY <2>1, <2>2, <3>2, <3>5, <3>6, <3>7 DEF CallRef, Holding
  <2> QED
    BY <2>1, <2>5, <2>7, <2>8, <2>9, RefParts
<1>7. CASE SetRef(o)
  <2>1. /\ op[o].pc = "ref" /\ Goto(o, "schema")
        /\ UNCHANGED <<files, nextRun, nextSnap, base, resumed>>
        /\ db'.runs = [db.runs EXCEPT ![op[o].run].snap = op[o].snap]
    BY <1>1, <1>7 DEF SetRef, Database, Ghosts
  <2>2. op'[o].pc = "schema" /\ op'[o].run = op[o].run /\ op'[o].snap = op[o].snap
    BY <1>1, <2>1, GotoFields
  <2>3. /\ op[o].run \in RunIds /\ op[o].run < nextRun /\ op[o].snap < nextSnap
        /\ ImageOf(db, op[o].run, op[o].snap, Books)
        /\ \A r \in RunIds : db.runs[r].snap # op[o].snap
    BY <1>1, <2>1 DEF CallRef, Holding
  <2>4. /\ db'.runs[op[o].run].snap = op[o].snap
        /\ \A r \in RunIds : db'.runs[r].status = db.runs[r].status
        /\ \A r \in RunIds \ {op[o].run} : db'.runs[r].snap = db.runs[r].snap
    BY <1>1, <2>1, <2>3 DEF Database
  <2>5. Books' = Books
    BY <2>1 DEF Books
  <2>6. \A r, s : ImageOf(db, r, s, Books) => ImageOf(db', r, s, Books)
    BY <2>4 DEF ImageOf
  <2>7. Referenced(db', Books')
    <3> SUFFICES ASSUME NEW r \in RunIds, db'.runs[r].snap # 0
                 PROVE  /\ db'.runs[r].snap < nextSnap /\ r < nextRun
                        /\ \A q \in RunIds \ {r} : db'.runs[q].snap # db'.runs[r].snap
                        /\ ImageOf(db', r, db'.runs[r].snap, Books)
      BY <2>5 DEF Referenced, Books
    <3>1. CASE r = op[o].run
      BY <2>3, <2>4, <2>6, <3>1
    <3>2. CASE r # op[o].run
      <4>1. /\ db.runs[r].snap < nextSnap /\ r < nextRun
            /\ \A q \in RunIds \ {r} : db.runs[q].snap # db.runs[r].snap
            /\ ImageOf(db, r, db.runs[r].snap, Books)
        BY <1>1, <2>4, <3>2 DEF Referenced, Books
      <4> QED
        BY <2>3, <2>4, <2>6, <3>2, <4>1
    <3> QED
      BY <3>1, <3>2
  <2>8. RollbackAvailable'
    <3>1. op[o].run \in RunIds /\ IsLatest(db, op[o].run) /\ db.runs[op[o].run].status = "running"
      BY <1>1, <2>1, <2>3 DEF CallInv, Working
    <3>2. \A r \in RunIds : IsLatest(db', r) => IsLatest(db, r)
      BY <2>4 DEF IsLatest, Present
    <3>3. ASSUME NEW r \in RunIds, IsLatest(db', r)
          PROVE  r = op[o].run
      BY <3>1, <3>2, <3>3 DEF IsLatest, Present, RunIds
    <3> QED
      BY <2>4, <3>1, <3>3 DEF RollbackAvailable
  <2>9. CallRef(o)'
    BY <2>1, <2>2, <2>3, <2>5, <2>6 DEF CallRef, Holding
  <2>10. \A s \in Snaps : files'[s] # NoFile => Referenced(files'[s], Books')
    BY <2>1, <2>5 DEF RefInv
  <2> QED
    BY <2>7, <2>8, <2>9, <2>10, RefParts
<1> QED
  BY <1>2, <1>3, <1>4, <1>5, <1>6, <1>7

LEMMA RefDuring ==
    ASSUME Serial, SerialInv, RefInv, TypeInv', [Next]_vars, NEW o \in Ops,
           \/ RunSchema(o) \/ Reconcile(o) \/ Verify(o) \/ ClearMaintenance(o) \/ Automate(o)
           \/ Finish(o) \/ Retain(o) \/ DiscardPrior(o) \/ ClearPriorRef(o) \/ Release(o)
    PROVE  RefInv'
<1>1. /\ TypeInv /\ CallInv(o) /\ CallRef(o) /\ CallOK(op[o])
      /\ Referenced(db, Books) /\ RollbackAvailable
      /\ db \in Database /\ op[o] \in Calls /\ op \in [Ops -> Calls]
      /\ files \in [Snaps -> Image]
  BY Fields DEF SerialInv, RefInv, TypeInv, TypeOK, WellFormed
\* The statements that pass the snapshot they hold on.
<1>2. ASSUME op[o].pc \in {"schema", "reconcile", "verify"},
             op'[o].pc \in {"reconcile", "verify", "restore"},
             op'[o].run = op[o].run, op'[o].snap = op[o].snap,
             files' = files, db'.runs = db.runs
      PROVE  RefInv'
  <2>1. Successor(db, db')
    BY <1>2 DEF Successor
  <2>2. /\ op'[o].run \in RunIds /\ op'[o].run < nextRun' /\ op'[o].snap < nextSnap'
        /\ ImageOf(db', op'[o].run, op'[o].snap, Books')
    BY <1>1, <1>2, <2>1, StillHeld DEF Holding
  <2>3. CallRef(o)'
    BY <1>2, <2>2 DEF CallRef, Holding
  <2> QED
    BY <1>1, <1>2, <2>3, RefQuiet
<1>3. CASE RunSchema(o) \/ Reconcile(o)
  <2>1. /\ UNCHANGED files /\ db'.runs = db.runs /\ op[o].pc \in {"schema", "reconcile"}
        /\ \/ \E pc \in {"reconcile", "verify"} : Goto(o, pc)
           \/ \E path : StartUndo(o, path)
    <3>1. CASE RunSchema(o)
      BY <1>1, <3>1 DEF RunSchema, Database
    <3>2. CASE Reconcile(o)
      BY <1>1, <3>2 DEF Reconcile, Database
    <3> QED
      BY <1>3, <3>1, <3>2
  <2>2. /\ op'[o].pc \in {"reconcile", "verify", "restore"}
        /\ op'[o].run = op[o].run /\ op'[o].snap = op[o].snap
    BY <1>1, <2>1, GotoFields, UndoFields
  <2> QED
    BY <1>2, <2>1, <2>2
<1>4. CASE Verify(o)
  <2>1. UNCHANGED <<db, files>> /\ op[o].pc = "verify"
    BY <1>4 DEF Verify
  <2>2. CASE Goto(o, "clear")
    <3>1. op'[o].pc = "clear" /\ op'[o].run = op[o].run
      BY <1>1, <2>2, GotoFields
    <3>2. db.runs[op[o].run].snap = op[o].snap /\ op[o].snap # 0 /\ files[op[o].snap] # NoFile
      BY <1>1, <2>1 DEF CallInv, CallOK
    <3>3. CallRef(o)'
      BY <2>1, <3>1, <3>2 DEF CallRef, Holding
    <3> QED
      BY <1>1, <2>1, <3>3, RefQuiet
  <2>3. CASE StartUndo(o, "verify")
    BY <1>1, <1>2, <2>1, <2>3, UndoFields
  <2> QED
    BY <1>4, <2>2, <2>3 DEF Verify
<1>5. CASE ClearMaintenance(o)
  <2>1. /\ UNCHANGED files /\ op[o].pc = "clear" /\ Goto(o, "finish") /\ db'.runs = db.runs
    BY <1>1, <1>5 DEF ClearMaintenance, Database
  <2>2. op'[o].pc = "finish" /\ op'[o].run = op[o].run
    BY <1>1, <2>1, GotoFields
  <2>3. CallRef(o)'
    BY <1>1, <2>1, <2>2 DEF CallRef, Holding
  <2> QED
    BY <1>1, <2>1, <2>3, RefQuiet
<1>6. CASE Automate(o) \/ Release(o)
  <2>1. /\ UNCHANGED files /\ db'.runs = db.runs
        /\ Goto(o, "release") \/ op'[o] = Idle
    <3>1. CASE Automate(o)
      BY <1>1, <3>1 DEF Automate, Database
    <3>2. CASE Release(o)
      BY <1>1, <3>2 DEF Release, Database
    <3> QED
      BY <1>6, <3>1, <3>2
  <2>2. op'[o].pc \in {"idle", "release"}
    BY <1>1, <2>1, GotoFields DEF Idle
  <2> QED
    BY <1>1, <2>1, <2>2, Unattached, RefQuiet
<1>7. CASE Finish(o)
  <2>1. /\ UNCHANGED files /\ op[o].pc = "finish" /\ Goto(o, "retain")
        /\ db'.runs = [db.runs EXCEPT ![op[o].run].status =
                         IF db.open THEN "succeeded_with_pending" ELSE "succeeded"]
    BY <1>1, <1>7 DEF Finish, Database
  <2>2. op'[o].pc = "retain" /\ op'[o].run = op[o].run
    BY <1>1, <2>1, GotoFields
  <2>3. /\ IsLatest(db, op[o].run) /\ db.runs[op[o].run].status = "running"
        /\ op[o].run \in RunIds
    BY <1>1, <2>1 DEF CallInv, Working, IsLatest, Present
  <2>4. /\ db'.runs[op[o].run].status \in {"succeeded", "succeeded_with_pending"}
        /\ \A r \in RunIds : db'.runs[r].snap = db.runs[r].snap
        /\ \A r \in RunIds \ {op[o].run} : db'.runs[r].status = db.runs[r].status
    BY <1>1, <2>1, <2>3 DEF Database
  <2>5. Present(db') = Present(db)
    BY <2>3, <2>4 DEF Present
  <2>6. IsLatest(db', op[o].run)
    BY <2>3, <2>5 DEF IsLatest
  <2>7. CallRef(o)'
    BY <2>2, <2>6 DEF CallRef, Holding
  <2>8. Successor(db, db')
    BY <2>3, <2>4 DEF Successor
  <2>9. RollbackAvailable'
    <3>1. \A r \in RunIds : IsLatest(db', r) => r = op[o].run
      BY <2>3, <2>6 DEF IsLatest, Present, RunIds
    <3>2. db.runs[op[o].run].snap # 0 /\ files[db.runs[op[o].run].snap] # NoFile
      BY <1>1, <2>1 DEF CallRef
    <3> QED
      BY <2>1, <2>3, <2>4, <3>1, <3>2 DEF RollbackAvailable
  <2> QED
    BY <1>1, <2>1, <2>7, <2>8, <2>9, RefStep
<1>8. CASE Retain(o)
  <2>1. /\ UNCHANGED <<db, files>> /\ op[o].pc = "retain"
        /\ op'[o].pc \in {"drop", "release"} /\ op'[o].run = op[o].run
        /\ op'[o].listed = {<<r, db.runs[r].snap>> : r \in Others(o)}
    BY <1>1, <1>8, RetainFields
  <2>2. IsLatest(db', op'[o].run)
    BY <1>1, <2>1 DEF CallRef
  <2>3. ASSUME NEW prior \in op'[o].listed
        PROVE  prior[1] # op'[o].run /\ db'.runs[prior[1]].snap = prior[2]
    BY <2>1, <2>3 DEF Others
  <2>4. CallRef(o)'
    BY <2>1, <2>2, <2>3 DEF CallRef, Holding
  <2> QED
    BY <1>1, <2>1, <2>4, RefQuiet
<1>9. CASE DiscardPrior(o)
  <2>1. /\ db' = db /\ op[o].pc = "drop" /\ op'[o].pc = "unref" /\ op'[o].run = op[o].run
    BY <1>1, <1>9, DiscardFields
  <2>2. PICK prior \in op[o].listed :
          /\ files' = [files EXCEPT ![prior[2]] = NoFile]
          /\ op'[o].prior = prior[1] /\ op'[o].listed = op[o].listed \ {prior}
    BY <1>1, <1>9, DiscardFields
  <2>3. /\ IsLatest(db, op[o].run) /\ op[o].run \in RunIds
        /\ \A p \in op[o].listed : p[1] # op[o].run /\ db.runs[p[1]].snap = p[2]
    BY <1>1, <2>1 DEF CallRef, IsLatest, Present
  <2>4. /\ op[o].listed \subseteq RunIds \X Snaps
        /\ prior[1] \in RunIds /\ prior[2] \in Snaps /\ prior[2] # 0
    BY <1>1, <2>2 DEF Calls, Snaps
  <2>5. ASSUME NEW p \in op[o].listed \ {prior}
        PROVE  p[1] # prior[1]
    <3>1. p = <<p[1], p[2]>> /\ prior = <<prior[1], prior[2]>>
      BY <2>4
    <3> QED
      BY <2>3, <3>1
  <2>6. CallRef(o)'
    BY <2>1, <2>2, <2>3, <2>4, <2>5 DEF CallRef, Holding
  <2>7. db.runs[op[o].run].snap # prior[2]
    BY <1>1, <2>2, <2>3, <2>4 DEF Referenced
  <2>8. RollbackAvailable'
    <3>1. \A q \in RunIds : IsLatest(db, q) => q = op[o].run
      BY <2>3 DEF IsLatest, Present, RunIds
    <3>2. files'[db.runs[op[o].run].snap] = files[db.runs[op[o].run].snap]
      BY <1>1, <2>2, <2>7
    <3> QED
      BY <1>1, <2>1, <3>1, <3>2 DEF RollbackAvailable
  <2>9. Successor(db, db')
    BY <2>1 DEF Successor
  <2> QED
    BY <1>1, <2>2, <2>6, <2>8, <2>9, RefStep
<1>10. CASE ClearPriorRef(o)
  <2>1. /\ UNCHANGED files /\ op[o].pc = "unref"
        /\ Goto(o, "release") \/ Goto(o, "drop")
        /\ db'.runs = [db.runs EXCEPT ![op[o].prior].snap = 0]
    BY <1>1, <1>10 DEF ClearPriorRef, Database
  <2>2. /\ op'[o].pc \in {"release", "drop"} /\ op'[o].run = op[o].run
        /\ op'[o].listed = op[o].listed
    BY <1>1, <2>1, GotoFields
  <2>3. /\ IsLatest(db, op[o].run) /\ op[o].prior \in RunIds \ {op[o].run}
        /\ \A p \in op[o].listed : /\ p[1] # op[o].run /\ p[1] # op[o].prior
                                    /\ db.runs[p[1]].snap = p[2]
    BY <1>1, <2>1 DEF CallRef
  <2>4. /\ \A r \in RunIds : /\ db'.runs[r].status = db.runs[r].status
                             /\ db'.runs[r].snap \in {db.runs[r].snap, 0}
        /\ \A r \in RunIds \ {op[o].prior} : db'.runs[r].snap = db.runs[r].snap
        /\ db'.runs[op[o].run].snap = db.runs[op[o].run].snap
    BY <1>1, <2>1, <2>3 DEF Database, IsLatest, Present
  <2>5. Successor(db, db')
    BY <2>4 DEF Successor
  <2>6. \A r \in RunIds : IsLatest(db', r) <=> IsLatest(db, r)
    BY <2>4 DEF IsLatest, Present
  <2>7. op[o].run \in RunIds /\ IsLatest(db', op[o].run)
    BY <2>3, <2>6 DEF IsLatest, Present
  <2>8. \A p \in op[o].listed : p[1] # op[o].run /\ db'.runs[p[1]].snap = p[2]
    <3>1. op[o].listed \subseteq RunIds \X Snaps
      BY <1>1 DEF Calls
    <3> QED
      BY <2>3, <2>4, <3>1
  <2>9. CallRef(o)'
    BY <2>2, <2>7, <2>8 DEF CallRef, Holding
  <2>10. RollbackAvailable'
    <3>1. \A r \in RunIds : IsLatest(db', r) => r = op[o].run
      BY <2>7 DEF IsLatest, Present, RunIds
    <3> QED
      BY <1>1, <2>1, <2>3, <2>4, <2>7, <3>1 DEF RollbackAvailable
  <2> QED
    BY <1>1, <2>1, <2>5, <2>9, <2>10, RefStep
<1> QED
  BY <1>3, <1>4, <1>5, <1>6, <1>7, <1>8, <1>9, <1>10

LEMMA RefUndoing ==
    ASSUME Serial, SerialInv, RefInv, TypeInv', [Next]_vars, NEW o \in Ops,
           Restore(o) \/ Undo(o) \/ Throw(o)
    PROVE  RefInv'
<1>1. /\ TypeInv /\ CallInv(o) /\ CallRef(o) /\ CallOK(op[o])
      /\ Referenced(db, Books) /\ RollbackAvailable
      /\ db \in Database /\ op[o] \in Calls /\ op \in [Ops -> Calls]
      /\ files \in [Snaps -> Image]
  BY Fields DEF SerialInv, RefInv, TypeInv, TypeOK, WellFormed
\* Behind a restore the newest run has not succeeded, whatever its file.
<1>2. ASSUME NEW r \in RunIds, IsLatest(db', r),
             db'.runs[r].status \notin {"succeeded", "succeeded_with_pending"}
      PROVE  RollbackAvailable'
  BY <1>2 DEF RollbackAvailable, IsLatest, Present, RunIds
<1>3. CASE Restore(o)
  <2>1. /\ op[o].snap \in Snaps /\ op[o].pc = "restore"
        /\ UNCHANGED <<files, nextRun, nextSnap, base, resumed>>
    BY <1>1, <1>3 DEF Restore, CallOK, Calls, Snaps, Ghosts
  <2>2. Books' = Books
    BY <2>1 DEF Books
  <2>3. CASE files[op[o].snap] # NoFile
    <3>1. /\ db' = files[op[o].snap] /\ op'[o].pc = "undo" /\ op'[o].run = op[o].run
      BY <1>1, <1>3, <2>3, GotoFields DEF Restore
    <3>2. /\ IsLatest(db', op[o].run) /\ db'.runs[op[o].run].status = "running"
          /\ op[o].run \in resumed \/ Data(db') = base[op[o].run]
          /\ op[o].run \in RunIds
      BY <1>1, <2>1, <2>3, <3>1 DEF CallRef, Holding, ImageOf, Books
    <3>3. CallRef(o)'
      BY <2>1, <3>1, <3>2 DEF CallRef, Holding
    <3>4. RollbackAvailable'
      BY <1>2, <3>2
    <3>5. Referenced(db', Books')
      BY <2>1, <2>2, <2>3, <3>1 DEF RefInv
    <3>6. \A s \in Snaps : files'[s] # NoFile => Referenced(files'[s], Books')
      BY <2>1, <2>2 DEF RefInv
    <3> QED
      BY <3>3, <3>4, <3>5, <3>6, RefParts
  <2>4. CASE files[op[o].snap] = NoFile
    <3>1. op'[o] = Idle /\ db' = db
      BY <1>1, <1>3, <2>4 DEF Restore
    <3> QED
      BY <1>1, <2>1, <3>1, Unattached, RefQuiet DEF Idle
  <2> QED
    BY <2>3, <2>4
<1>4. CASE Undo(o)
  <2>1. /\ op[o].pc = "undo" /\ op'[o].pc \in {"undo", "release"} /\ op'[o].run = op[o].run
        /\ files' = files \/ (\E s : files' = [files EXCEPT ![s] = NoFile])
        /\ Data(db') = Data(db) /\ UNCHANGED <<base, resumed>>
        /\ \A r \in RunIds :
             /\ db'.runs[r].snap \in {db.runs[r].snap, 0}
             /\ \/ db'.runs[r].status = db.runs[r].status
                \/ /\ r = op[o].run /\ r \in Present(db)
                   /\ db'.runs[r].status = "rolled_back"
    BY <1>1, <1>4, UndoWrite DEF Undo, Ghosts
  <2>2. /\ IsLatest(db, op[o].run) /\ op[o].run \in RunIds
        /\ db.runs[op[o].run].status \in {"running", "rolled_back"}
        /\ op[o].run \in resumed \/ Data(db) = base[op[o].run]
    BY <1>1, <2>1 DEF CallRef, IsLatest, Present
  <2>3. Successor(db, db')
    BY <2>1 DEF Successor
  <2>4. Present(db') = Present(db)
    BY <2>1 DEF Present
  <2>5. IsLatest(db', op[o].run) /\ db'.runs[op[o].run].status \in {"running", "rolled_back"}
    BY <2>1, <2>2, <2>4 DEF IsLatest
  <2>6. CallRef(o)'
    BY <2>1, <2>2, <2>5 DEF CallRef, Holding
  <2>7. RollbackAvailable'
    BY <1>2, <2>2, <2>5
  <2> QED
    BY <1>1, <2>1, <2>3, <2>6, <2>7, RefStep
<1>5. CASE Throw(o)
  <2>1. op'[o].pc = "release" /\ UNCHANGED <<db, files>>
    BY <1>1, <1>5, GotoFields DEF Throw
  <2> QED
    BY <1>1, <2>1, Unattached, RefQuiet
<1> QED
  BY <1>3, <1>4, <1>5

LEMMA RefAround ==
    ASSUME SerialInv, RefInv, TypeInv', [Next]_vars,
           \/ \E new \in Batches : Boot(new)
           \/ AcceptRelease
           \/ \E field \in {"urgent", "open"} : Resolve(field)
           \/ Elapse
    PROVE  RefInv'
<1>1. /\ TypeInv /\ db \in Database /\ db' \in Database /\ op \in [Ops -> Calls]
      /\ files \in [Snaps -> Image]
  BY TypedOp DEF SerialInv, TypeInv, TypeOK
<1>2. db'.runs = db.runs /\ UNCHANGED <<files, nextRun, nextSnap, base, resumed>>
  BY <1>1 DEF Boot, AcceptRelease, Resolve, Elapse, Database, Ghosts
<1>3. Books' = Books
  BY <1>2 DEF Books
<1>4. Referenced(db', Books')
  <2>1. Referenced(db, Books)
    BY DEF RefInv
  <2>2. \A r, s : ImageOf(db', r, s, Books') <=> ImageOf(db, r, s, Books)
    BY <1>2, <1>3 DEF ImageOf
  <2> QED
    BY <1>2, <1>3, <2>1, <2>2 DEF Referenced
<1>5. RollbackAvailable'
  BY <1>2 DEF RefInv, RollbackAvailable, IsLatest, Present
<1>6. ASSUME NEW o \in Ops
      PROVE  CallRef(o)'
  <2>1. CASE op'[o] = Idle
    BY <2>1, Unattached DEF Idle
  <2>2. CASE op'[o] = op[o] /\ Data(db') = Data(db)
    <3>1. CallRef(o)
      BY DEF RefInv
    <3>2. \A r : IsLatest(db', r) <=> IsLatest(db, r)
      BY <1>2 DEF IsLatest, Present
    <3>3. \A r, s : ImageOf(db', r, s, Books') <=> ImageOf(db, r, s, Books)
      BY <1>2, <1>3 DEF ImageOf
    <3> QED
      BY <1>2, <2>2, <3>1, <3>2, <3>3 DEF CallRef
  <2>3. op'[o] = Idle \/ (op'[o] = op[o] /\ Data(db') = Data(db))
    <3>1. CASE \E new \in Batches : Boot(new)
      BY <1>1, <3>1 DEF Boot
    <3>2. CASE AcceptRelease \/ (\E field \in {"urgent", "open"} : Resolve(field)) \/ Elapse
      BY <1>1, <3>2 DEF AcceptRelease, Resolve, Elapse, Database, Data
    <3> QED
      BY <3>1, <3>2
  <2> QED
    BY <2>1, <2>2, <2>3
<1> QED
  BY <1>2, <1>3, <1>4, <1>5, <1>6 DEF RefInv

LEMMA RefInit == Init => RefInv
<1> SUFFICES ASSUME Init PROVE RefInv
  OBVIOUS
<1>1. \A r \in RunIds : db.runs[r].snap = 0 /\ db.runs[r].status = "absent"
  BY DEF Init, NoRun
<1>2. Referenced(db, Books) /\ RollbackAvailable
  BY <1>1 DEF Referenced, RollbackAvailable
<1>3. \A s \in Snaps : files[s] = NoFile
  BY DEF Init
<1>4. \A o \in Ops : CallRef(o)
  BY DEF Init, CallRef, Holding, Idle
<1> QED
  BY <1>2, <1>3, <1>4 DEF RefInv

LEMMA RefNext == Serial /\ SerialInv /\ RefInv /\ [Next]_vars => RefInv'
<1> SUFFICES ASSUME Serial, SerialInv, RefInv, [Next]_vars PROVE RefInv'
  OBVIOUS
<1>1. TypeInv'
  BY TypeStep DEF SerialInv
<1>2. CASE UNCHANGED vars
  BY <1>2 DEF vars, RefInv, CallRef, RollbackAvailable, Books
<1>3. CASE \E o \in Ops : Start(o) \/ Step(o) \/ Throw(o)
  BY <1>1, <1>3, RefBefore, RefDuring, RefUndoing DEF Step
<1>4. CASE ~ \E o \in Ops : Start(o) \/ Step(o) \/ Throw(o)
  BY <1>1, <1>2, <1>4, RefAround DEF Next
<1> QED
  BY <1>3, <1>4

LEMMA RefInvariant == Serial /\ Spec => []RefInv
BY AlwaysSerial, RefInit, RefNext, SerialInvariant, PTL DEF Spec

\* Once the newest run has succeeded it can be rolled back: its snapshot is
\* recorded and on disk, through later retention, crashes and restores.
THEOREM RollbackStays == Serial /\ Spec => []RollbackAvailable
<1>1. RefInv => RollbackAvailable
  BY DEF RefInv
<1> QED
  BY <1>1, RefInvariant, PTL

\* Only the tail of a restore marks a run rolled back, and it marks its own.
LEMMA OnlyUndoRollsBack ==
    ASSUME Serial, SerialInv, RefInv, Next, NEW r \in RunIds, RollsBack(r)
    PROVE  \E o \in Ops : Undo(o) /\ op[o].run = r
<1>1. /\ TypeInv /\ db \in Database /\ nextRun \in Nat
  BY DEF SerialInv, TypeInv, TypeOK
<1>2. db.runs[r].status # "rolled_back" /\ db'.runs[r].status = "rolled_back"
  BY DEF RollsBack
<1>3. PICK o \in Ops : Start(o) \/ Step(o) \/ Throw(o)
  <2>1. db'.runs # db.runs
    BY <1>2
  <2> QED
    BY <1>1, <2>1 DEF Next, Boot, AcceptRelease, Resolve, Elapse, Database
<1>4. /\ op[o] \in Calls /\ CallInv(o) /\ CallRef(o) /\ CallOK(op[o])
  BY Fields DEF SerialInv, RefInv, TypeInv, WellFormed
<1>5. CASE Undo(o)
  BY <1>1, <1>2, <1>5, UndoWrite
<1>6. CASE ~ Undo(o)
  <2>1. CASE \/ Start(o) \/ Throw(o) \/ Acquire(o) \/ SetMaintenance(o) \/ RecordPlan(o)
             \/ Snapshot(o) \/ RunSchema(o) \/ Reconcile(o) \/ Verify(o) \/ ClearMaintenance(o)
             \/ Automate(o) \/ Retain(o) \/ DiscardPrior(o) \/ Release(o)
    <3>1. db'.runs = db.runs
      <4>1. CASE Start(o) \/ Throw(o)
        BY <4>1 DEF Start, StartAutomation, StartApply, StartRollback, Throw
      <4>2. CASE Acquire(o) \/ SetMaintenance(o) \/ RecordPlan(o) \/ Snapshot(o) \/ Release(o)
        BY <1>1, <4>2 DEF Acquire, SetMaintenance, RecordPlan, Snapshot, Release, Database
      <4>3. CASE RunSchema(o) \/ Reconcile(o)
        BY <1>1, <4>3 DEF RunSchema, Reconcile, Database
      <4>4. CASE Verify(o) \/ ClearMaintenance(o) \/ Automate(o) \/ Retain(o) \/ DiscardPrior(o)
        BY <1>1, <4>4
        DEF Verify, ClearMaintenance, Automate, Retain, DiscardPrior, Database
      <4> QED
        BY <2>1, <4>1, <4>2, <4>3, <4>4
    <3> QED
      BY <1>2, <3>1
  <2>2. CASE Begin(o)
    <3>1. \/ db' = db
          \/ db' = [db EXCEPT !.runs[nextRun] = [status |-> "running", to |-> op[o].to, snap |-> 0],
                              !.open = FALSE]
      BY <1>1, <2>2, BeginOpens
    <3>2. \/ db'.runs = db.runs
          \/ db'.runs = [db.runs EXCEPT ![nextRun] = [status |-> "running", to |-> op[o].to,
                                                      snap |-> 0]]
      BY <1>1, <3>1 DEF Database
    <3>3. CASE r = nextRun
      BY <1>1, <1>2, <3>2, <3>3 DEF Database
    <3>4. CASE r # nextRun
      BY <1>1, <1>2, <3>2, <3>4 DEF Database
    <3> QED
      BY <3>3, <3>4
  <2>3. CASE SetRef(o) \/ ClearPriorRef(o)
    <3>1. PICK q, s : db' = db \/ db' = [db EXCEPT !.runs[q].snap = s]
      BY <2>3 DEF SetRef, ClearPriorRef
    <3>2. db'.runs = db.runs \/ db'.runs = [db.runs EXCEPT ![q].snap = s]
      BY <1>1, <3>1 DEF Database
    <3>3. db'.runs[r].status = db.runs[r].status
      BY <1>1, <3>2 DEF Database
    <3> QED
      BY <1>2, <3>3
  <2>4. CASE Finish(o)
    <3>1. db'.runs = [db.runs EXCEPT ![op[o].run].status =
                        IF db.open THEN "succeeded_with_pending" ELSE "succeeded"]
      BY <1>1, <2>4 DEF Finish, Database
    <3> QED
      BY <1>1, <1>2, <3>1 DEF Database
  <2>5. CASE Restore(o)
    <3>1. op[o].snap \in Snaps /\ op[o].pc = "restore"
      BY <1>4, <2>5 DEF Restore, CallOK, Calls, Snaps
    <3>2. db' = files[op[o].snap] /\ files[op[o].snap] # NoFile
      BY <1>2, <2>5 DEF Restore
    <3> QED
      BY <1>2, <1>4, <3>1, <3>2 DEF CallRef, Holding, ImageOf, Books
  <2> QED
    BY <1>3, <1>6, <2>1, <2>2, <2>3, <2>4, <2>5 DEF Step
<1> QED
  BY <1>5, <1>6

\* A run marked rolled back has left schema and content as they were when it
\* began, unless another apply had picked it up after a crash or exception.
THEOREM FreshRollback == Serial /\ Spec => FreshRollbackExact
<1>1. Serial /\ SerialInv /\ RefInv /\ [Next]_vars =>
        [\A r \in RunIds \ resumed : RollsBack(r) => Data(db') = base[r]]_vars
  <2> SUFFICES ASSUME Serial, SerialInv, RefInv, Next, NEW r \in RunIds \ resumed, RollsBack(r)
               PROVE  Data(db') = base[r]
    OBVIOUS
  <2>1. PICK o \in Ops : Undo(o) /\ op[o].run = r
    BY OnlyUndoRollsBack
  <2>2. TypeInv /\ CallRef(o)
    BY DEF SerialInv, RefInv
  <2>3. op[o].pc = "undo" /\ Data(db') = Data(db)
    BY <2>1, <2>2, UndoWrite
  <2> QED
    BY <2>1, <2>2, <2>3 DEF CallRef
<1> QED
  BY <1>1, AlwaysSerial, RefInvariant, SerialInvariant, PTL DEF Spec, FreshRollbackExact
=============================================================================
