------------------------- MODULE UpgradeLockProofs --------------------------
(***************************************************************************)
(* What MCUpgradeLock shows for three callers, proved for any number of    *)
(* them, any staleness window and any resolution of the stored time.       *)
(***************************************************************************)
EXTENDS UpgradeLock, TLAPS

\* toDbTime rounds down, by less than a second.
LEMMA DbTimeRounds ==
    ASSUME NEW t \in Int
    PROVE  DbTime(t) \in Int /\ DbTime(t) <= t /\ t - Second < DbTime(t)
<1>1. t % Second \in 0 .. Second - 1
  BY LockConstants
<1>2. QED
  BY <1>1, LockConstants DEF DbTime

\* Every state of the mutex is a row, a clock and a place in the call for
\* each caller: the types of tryAcquireUpgradeLock's variables.
THEOREM Typing == Spec => []TypeOK
<1>1. Init => TypeOK
  BY LockConstants DEF Init, TypeOK, FreeRow
<1>2. TypeOK /\ [Next]_vars => TypeOK'
  <2> SUFFICES ASSUME TypeOK, [Next]_vars
               PROVE  TypeOK'
    OBVIOUS
  <2> USE LockConstants DEF TypeOK
  <2>1. ASSUME NEW c \in Callers, ReadClock(c)
        PROVE  TypeOK'
    BY <2>1 DEF ReadClock
  <2>2. ASSUME NEW c \in Callers, AcquireUpdate(c)
        PROVE  TypeOK'
    <3>1. DbTime(since[c]) \in Int
      BY DbTimeRounds
    <3>2. row' \in [holder : Labels \cup {Free}, acquired : Int]
      BY <2>2, <3>1 DEF AcquireUpdate
    <3>3. QED
      BY <2>2, <3>2 DEF AcquireUpdate
  <2>3. ASSUME NEW c \in Callers, Confirm(c)
        PROVE  TypeOK'
    BY <2>3 DEF Confirm
  <2>4. ASSUME NEW c \in Callers, Release(c)
        PROVE  TypeOK'
    BY <2>4 DEF Release, FreeRow
  <2>5. ASSUME NEW c \in Callers, Crash(c)
        PROVE  TypeOK'
    BY <2>5 DEF Crash
  <2>6. ASSUME NEW c \in Callers, Restart(c)
        PROVE  TypeOK'
    BY <2>6 DEF Restart
  <2>7. CASE Tick
    BY <2>7 DEF Tick
  <2>8. CASE UNCHANGED vars
    BY <2>8 DEF vars
  <2>9. QED
    BY <2>1, <2>2, <2>3, <2>4, <2>5, <2>6, <2>7, <2>8 DEF Next, Step
<1>3. QED
  BY <1>1, <1>2, PTL DEF Spec

-----------------------------------------------------------------------------
\* Labels are constants of the code, so they stay distinct.
LEMMA LabelsStayDistinct == DistinctLabels => []DistinctLabels
<1>1. DistinctLabels => DistinctLabels'
  BY DEF DistinctLabels
<1>2. QED
  BY <1>1, PTL

\* The guarded UPDATE cannot move the row from under a lease that counts: by
\* the time the cutoff reaches the stored time, the lease has run out.
LEMMA NoTakeover ==
    ASSUME TypeOK, LockInv, DistinctLabels,
           NEW c \in Callers, NEW d \in Callers, c # d,
           pc[d] = "held", Fresh(d)
    PROVE  ~ Takeable(LabelOf[c], since[c])
<1>1. row.holder = LabelOf[d] /\ row.acquired = DbTime(since[d])
  BY DEF LockInv, Holds
<1>2. row.holder # Free /\ row.holder # LabelOf[c]
  BY <1>1, LockConstants DEF DistinctLabels
<1>3. since[c] \in Int /\ since[d] \in Int /\ now \in Int /\ since[c] <= now
  BY DEF TypeOK, LockInv
<1>4. since[d] - Second < DbTime(since[d])
  BY <1>3, DbTimeRounds
<1>5. DbTime(since[c] - StaleMs) <= since[c] - StaleMs
  BY <1>3, LockConstants, DbTimeRounds
<1>6. DbTime(since[c] - StaleMs) \in Int /\ DbTime(since[d]) \in Int
  BY <1>3, LockConstants, DbTimeRounds
<1>7. ~ (DbTime(since[d]) <= DbTime(since[c] - StaleMs))
  BY <1>3, <1>4, <1>5, <1>6, LockConstants DEF Fresh
<1>8. QED
  BY <1>1, <1>2, <1>7 DEF Takeable

\* One step of the mutex keeps the row with whoever is inside on a lease
\* that counts.
LEMMA LockInvStep ==
    ASSUME TypeOK, LockInv, DistinctLabels, [Next]_vars
    PROVE  LockInv'
<1> USE LockConstants DEF TypeOK
<1>1. ASSUME NEW c \in Callers, ReadClock(c)
      PROVE  LockInv'
  <2>1. \A d \in Callers : d # c => since'[d] = since[d] /\ pc'[d] = pc[d]
    BY <1>1 DEF ReadClock
  <2>2. since'[c] = now /\ pc'[c] = "update" /\ now' = now /\ row' = row
    BY <1>1 DEF ReadClock
  <2>3. QED
    BY <2>1, <2>2 DEF LockInv, Holds, Fresh, DbTime
<1>2. ASSUME NEW c \in Callers, AcquireUpdate(c)
      PROVE  LockInv'
  <2>1. /\ since' = since /\ now' = now /\ pc'[c] = "confirm"
        /\ \A d \in Callers : d # c => pc'[d] = pc[d]
    BY <1>2 DEF AcquireUpdate
  <2>2. CASE Takeable(LabelOf[c], since[c])
    <3>1. row'.holder = LabelOf[c] /\ row'.acquired = DbTime(since[c])
      BY <1>2, <2>2 DEF AcquireUpdate
    <3>2. \A d \in Callers : d # c => ~ (pc[d] = "held" /\ Fresh(d))
      BY <2>2, NoTakeover
    <3>3. \A d \in Callers : d # c => row'.holder # LabelOf[d]
      BY <3>1 DEF DistinctLabels
    <3>4. QED
      BY <2>1, <3>1, <3>2, <3>3 DEF LockInv, Holds, Fresh, DbTime
  <2>3. CASE ~ Takeable(LabelOf[c], since[c])
    <3>1. row' = row /\ row.holder # LabelOf[c]
      BY <1>2, <2>3 DEF AcquireUpdate, Takeable
    <3>2. QED
      BY <2>1, <3>1 DEF LockInv, Holds, Fresh, DbTime
  <2>4. QED
    BY <2>2, <2>3
<1>3. ASSUME NEW c \in Callers, Confirm(c)
      PROVE  LockInv'
  BY <1>3 DEF Confirm, LockInv, Holds, Fresh, DbTime
<1>4. ASSUME NEW c \in Callers, Release(c)
      PROVE  LockInv'
  <2>1. /\ since' = since /\ now' = now /\ pc'[c] = "idle"
        /\ \A d \in Callers : d # c => pc'[d] = pc[d]
    BY <1>4 DEF Release
  <2>2. CASE row.holder = LabelOf[c]
    <3>1. row'.holder = Free
      BY <1>4, <2>2 DEF Release, FreeRow
    <3>2. \A d \in Callers : d # c => row.holder # LabelOf[d]
      BY <2>2 DEF DistinctLabels
    <3>3. QED
      BY <2>1, <3>1, <3>2 DEF LockInv, Holds, Fresh
  <2>3. CASE row.holder # LabelOf[c]
    <3>1. row' = row
      BY <1>4, <2>3 DEF Release
    <3>2. QED
      BY <2>1, <3>1 DEF LockInv, Holds, Fresh, DbTime
  <2>4. QED
    BY <2>2, <2>3
<1>5. ASSUME NEW c \in Callers, Crash(c) \/ Restart(c)
      PROVE  LockInv'
  BY <1>5 DEF Crash, Restart, LockInv, Holds, Fresh, DbTime
<1>6. CASE Tick
  BY <1>6 DEF Tick, LockInv, Holds, Fresh, DbTime
<1>7. CASE UNCHANGED vars
  BY <1>7 DEF vars, LockInv, Holds, Fresh, DbTime
<1>8. QED
  BY <1>1, <1>2, <1>3, <1>4, <1>5, <1>6, <1>7 DEF Next, Step

\* Whoever is inside on a lease that counts is the one the row names, for
\* any set of callers that write different labels.
THEOREM RowFollowsLease == DistinctLabels /\ Spec => []LockInv
<1>1. Init => LockInv
  BY DEF Init, LockInv
<1>2. DistinctLabels /\ TypeOK /\ LockInv /\ [Next]_vars => LockInv'
  BY LockInvStep
<1>3. DistinctLabels => []DistinctLabels
  BY LabelsStayDistinct
<1>4. QED
  BY <1>1, <1>2, <1>3, Typing, PTL DEF Spec

\* One upgrade operation at a time, on leases that count.
THEOREM Exclusion == DistinctLabels /\ Spec => []LeaseExclusion
<1>1. DistinctLabels /\ LockInv => LeaseExclusion
  BY DEF LockInv, Holds, LeaseExclusion, DistinctLabels
<1>2. DistinctLabels => []DistinctLabels
  BY LabelsStayDistinct
<1>3. QED
  BY <1>1, <1>2, RowFollowsLease, PTL

-----------------------------------------------------------------------------
\* A step that moves the lease of one caller only, or of none, is the whole
\* of the change the abstract specification sees.
LEMMA LeaseMoves ==
    ASSUME NEW c \in Callers,
           \A d \in Callers : d # c => LeaseOf(d)' = LeaseOf(d)
    PROVE  Leases' = [Leases EXCEPT ![c] = LeaseOf(c)']
BY DEF Leases

\* A step of the row and its statements is a step of the abstract lease, or
\* none: only the confirming SELECT grants, only the clock expires.
LEMMA LeaseStep ==
    ASSUME TypeOK, LockInv, DistinctLabels, [Next]_vars
    PROVE  [Lease!LeaseNext]_(Leases)
<1> USE DEF TypeOK, Leases
<1>1. ASSUME NEW c \in Callers, ReadClock(c)
      PROVE  Leases' = Leases
  <2>1. \A d \in Callers : LeaseOf(d)' = LeaseOf(d)
    BY <1>1 DEF ReadClock, LeaseOf, Fresh
  <2>2. QED
    BY <2>1
<1>2. ASSUME NEW c \in Callers, AcquireUpdate(c)
      PROVE  Leases' = Leases
  <2>1. \A d \in Callers : LeaseOf(d)' = LeaseOf(d)
    BY <1>2 DEF AcquireUpdate, LeaseOf, Fresh
  <2>2. QED
    BY <2>1
<1>3. ASSUME NEW c \in Callers, Confirm(c)
      PROVE  Lease!Grant(c) \/ Leases' = Leases
  <2>1. \A d \in Callers : d # c => LeaseOf(d)' = LeaseOf(d)
    BY <1>3 DEF Confirm, LeaseOf, Fresh
  <2>2. LeaseOf(c) = "out"
    BY <1>3 DEF Confirm, LeaseOf
  <2>3. CASE row.holder = LabelOf[c]
    <3>1. LeaseOf(c)' \in {"held", "expired"}
      BY <1>3, <2>3 DEF Confirm, LeaseOf
    <3>2. \A d \in Callers : LeaseOf(d) # "held"
      BY <2>2, <2>3 DEF LockInv, Holds, DistinctLabels, LeaseOf
    <3>3. Leases' = [Leases EXCEPT ![c] = LeaseOf(c)']
      BY <2>1, LeaseMoves
    <3>4. Lease!Grant(c)
      BY <2>2, <3>1, <3>2, <3>3 DEF Lease!Grant
    <3>5. QED
      BY <3>4
  <2>4. CASE row.holder # LabelOf[c]
    <3>1. LeaseOf(c)' = "out"
      BY <1>3, <2>4 DEF Confirm, LeaseOf
    <3>2. QED
      BY <2>1, <2>2, <3>1
  <2>5. QED
    BY <2>3, <2>4
<1>4. ASSUME NEW c \in Callers, Release(c) \/ Crash(c) \/ Restart(c)
      PROVE  Lease!Leave(c) \/ Leases' = Leases
  <2>1. \A d \in Callers : d # c => LeaseOf(d)' = LeaseOf(d)
    BY <1>4 DEF Release, Crash, Restart, LeaseOf, Fresh
  <2>2. LeaseOf(c)' = "out"
    BY <1>4 DEF Release, Crash, Restart, LeaseOf
  <2>3. Leases' = [Leases EXCEPT ![c] = "out"]
    BY <2>1, <2>2, LeaseMoves
  <2>4. QED
    BY <2>3 DEF Lease!Leave
<1>5. CASE Tick
  <2>1. pc' = pc /\ since' = since /\ now' = now + 1
    BY <1>5 DEF Tick
  <2>2. \A d \in Callers : LeaseOf(d) # "held" => LeaseOf(d)' = LeaseOf(d)
    BY <2>1, LockConstants DEF LeaseOf, Fresh
  <2>3. CASE \E c \in Callers : LeaseOf(c) = "held"
    <3>1. PICK c \in Callers : LeaseOf(c) = "held"
      BY <2>3
    <3>2. \A d \in Callers : d # c => LeaseOf(d) # "held"
      BY <3>1 DEF LockInv, Holds, DistinctLabels, LeaseOf
    <3>3. LeaseOf(c)' \in {"held", "expired"}
      BY <2>1, <3>1 DEF LeaseOf
    <3>4. Leases' = [Leases EXCEPT ![c] = LeaseOf(c)']
      BY <2>2, <3>2, LeaseMoves
    <3>5. Lease!Expire(c) \/ Leases' = Leases
      BY <3>1, <3>3, <3>4 DEF Lease!Expire
    <3>6. QED
      BY <3>5 DEF Lease!LeaseNext
  <2>4. CASE \A c \in Callers : LeaseOf(c) # "held"
    BY <2>2, <2>4
  <2>5. QED
    BY <2>3, <2>4
<1>6. CASE UNCHANGED vars
  BY <1>6 DEF vars, LeaseOf, Fresh
<1>7. QED
  BY <1>1, <1>2, <1>3, <1>4, <1>5, <1>6 DEF Next, Step, Lease!LeaseNext

\* The database row, its guarded UPDATE and its confirming SELECT implement
\* the abstract lease for every set of callers that write different labels.
THEOREM Refinement == DistinctLabels /\ Spec => ImplementsLease
<1>1. Init => Lease!LeaseInit
  BY DEF Init, Lease!LeaseInit, Leases, LeaseOf
<1>2. TypeOK /\ LockInv /\ DistinctLabels /\ [Next]_vars
        => [Lease!LeaseNext]_(Leases)
  BY LeaseStep
<1>3. DistinctLabels => []DistinctLabels
  BY LabelsStayDistinct
<1>4. QED
  BY <1>1, <1>2, <1>3, Typing, RowFollowsLease, PTL
     DEF Spec, ImplementsLease, Lease!LeaseSpec
=============================================================================
