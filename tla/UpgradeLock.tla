---------------------------- MODULE UpgradeLock -----------------------------
(***************************************************************************)
(* The upgrade mutex, src/apps/geneweave/src/upgrade-lock-store.ts: one    *)
(* database row (holder, acquired_at) taken by a guarded UPDATE and a      *)
(* confirming SELECT, given back by a conditional UPDATE, and reclaimed    *)
(* from a holder that went away once acquired_at is old enough.            *)
(*                                                                         *)
(* Every await is a step of its own: reading the clock, the UPDATE, the    *)
(* SELECT, the critical section, the release.  A caller may die between    *)
(* any two of them, which leaves the row as it is.                         *)
(***************************************************************************)
EXTENDS Integers

CONSTANTS
    Callers,     \* operations running against the mutex (apply, rollback, automation pass)
    Labels,      \* the holder labels they write into the row
    LabelOf,     \* [Callers -> Labels], the label each caller passes as `holder`
    Free,        \* the NULL holder
    Second,      \* clock ticks in a second: the stored time has no fraction
    StaleMs,     \* the staleness window, in clock ticks
    MaxTime,     \* bound on the clock
    MaxCrashes   \* bound on the number of deaths

ASSUME LockConstants ==
    /\ LabelOf \in [Callers -> Labels]
    /\ Free \notin Labels
    /\ Second \in Nat \ {0}
    /\ StaleMs \in Nat
    /\ MaxTime \in Nat
    /\ MaxCrashes \in Nat

VARIABLES
    row,         \* the singleton row: [holder, acquired]
    now,         \* the server clock, `new Date()`
    pc,          \* pc[c]: the await caller c is at
    since,       \* since[c]: the clock reading behind c's current call
    crashes      \* deaths so far

vars == <<row, now, pc, since, crashes>>

-----------------------------------------------------------------------------
\* toDbTime: ISO text cut to whole seconds, so a time is rounded down.
DbTime(t) == t - (t % Second)

FreeRow == [holder |-> Free, acquired |-> 0]

\* The WHERE clause of the acquiring UPDATE, at clock reading t.
MutantTakeable(label, t) ==
    \/ row.holder = Free
    \/ row.holder = label
    \/ row.acquired <= DbTime(t)
NeverStale(label, t) == row.holder \in {Free, label}
Takeable(label, t) ==
    \/ row.holder = Free
    \/ row.holder = label
    \/ row.acquired <= DbTime(t - StaleMs)

TypeOK ==
    /\ row \in [holder : Labels \cup {Free}, acquired : Int]
    /\ now \in Nat
    /\ pc \in [Callers -> {"idle", "update", "confirm", "held", "dead"}]
    /\ since \in [Callers -> Nat]
    /\ crashes \in Nat

Init ==
    /\ row = FreeRow
    /\ now = 0
    /\ pc = [c \in Callers |-> "idle"]
    /\ since = [c \in Callers |-> 0]
    /\ crashes = 0

-----------------------------------------------------------------------------
\* tryAcquireUpgradeLock reads the clock once, before it awaits anything.
ReadClock(c) ==
    /\ pc[c] = "idle"
    /\ pc' = [pc EXCEPT ![c] = "update"]
    /\ since' = [since EXCEPT ![c] = now]
    /\ UNCHANGED <<row, now, crashes>>

\* The guarded UPDATE.  It writes the time read before it, or matches no row.
AcquireUpdate(c) ==
    /\ pc[c] = "update"
    /\ pc' = [pc EXCEPT ![c] = "confirm"]
    /\ row' = IF Takeable(LabelOf[c], since[c])
              THEN [holder |-> LabelOf[c], acquired |-> DbTime(since[c])]
              ELSE row
    /\ UNCHANGED <<now, since, crashes>>

\* The confirming SELECT: inside if the row names our label, busy otherwise.
AlwaysConfirm(c) ==
    /\ pc[c] = "confirm"
    /\ pc' = [pc EXCEPT ![c] = "held"]
    /\ UNCHANGED <<row, now, since, crashes>>
Confirm(c) ==
    /\ pc[c] = "confirm"
    /\ pc' = [pc EXCEPT ![c] = IF row.holder = LabelOf[c] THEN "held" ELSE "idle"]
    /\ UNCHANGED <<row, now, since, crashes>>

\* releaseUpgradeLock: frees the row only if it still names our label.
ReleaseUnchecked(c) ==
    /\ pc[c] = "held"
    /\ pc' = [pc EXCEPT ![c] = "idle"]
    /\ row' = FreeRow
    /\ UNCHANGED <<now, since, crashes>>
ReleaseLeavesTime(c) ==
    /\ pc[c] = "held"
    /\ pc' = [pc EXCEPT ![c] = "idle"]
    /\ row' = IF row.holder = LabelOf[c] THEN [holder |-> Free] ELSE row
    /\ UNCHANGED <<now, since, crashes>>
Release(c) ==
    /\ pc[c] = "held"
    /\ pc' = [pc EXCEPT ![c] = "idle"]
    /\ row' = IF row.holder = LabelOf[c] THEN FreeRow ELSE row
    /\ UNCHANGED <<now, since, crashes>>

\* The process serving c dies; nothing gives the row back.
Crash(c) ==
    /\ pc[c] \in {"update", "confirm", "held"}
    /\ crashes < MaxCrashes
    /\ crashes' = crashes + 1
    /\ pc' = [pc EXCEPT ![c] = "dead"]
    /\ UNCHANGED <<row, now, since>>

\* A process comes back and knows nothing of what it held; it need not.
Restart(c) ==
    /\ pc[c] = "dead"
    /\ pc' = [pc EXCEPT ![c] = "idle"]
    /\ UNCHANGED <<row, now, since, crashes>>

Tick ==
    /\ now < MaxTime
    /\ now' = now + 1
    /\ UNCHANGED <<row, pc, since, crashes>>

Step(c) == ReadClock(c) \/ AcquireUpdate(c) \/ Confirm(c) \/ Release(c)

Next == Tick \/ \E c \in Callers : Step(c) \/ Crash(c) \/ Restart(c)

Spec == Init /\ [][Next]_vars

\* The clock runs, a call that started goes on unless its process dies, and
\* somebody keeps asking for the lock.
FairSpec ==
    /\ Spec
    /\ WF_vars(Tick)
    /\ \A c \in Callers : WF_vars(Step(c))

-----------------------------------------------------------------------------
\* A lease counts until a second before the staleness window ends: the two
\* roundings of DbTime can bring the cutoff forward by up to a second.
Fresh(c) == now - since[c] <= StaleMs - Second

Holds(c) == row.holder = LabelOf[c] /\ row.acquired = DbTime(since[c])

\* No two operations are inside on leases that count (withUpgradeLock's "one
\* upgrade operation at a time"), whoever crashed, restarted or overran.
LeaseExclusion ==
    \A c, d \in Callers :
        c # d /\ pc[c] = "held" /\ pc[d] = "held" => ~ (Fresh(c) /\ Fresh(d))

\* Why exclusion holds: whoever is inside on a lease that counts is the one
\* the row names, at the time that caller read; so a late release, a stale
\* takeover or a lost race never moves the row from under it.
LockInv ==
    /\ \A c \in Callers : since[c] <= now
    /\ \A c \in Callers : pc[c] = "held" /\ Fresh(c) => Holds(c)
    /\ \A c \in Callers :
        pc[c] = "confirm" /\ row.holder = LabelOf[c] => Holds(c)

\* Callers use different labels, as apply, rollback and the automation pass do.
DistinctLabels == \A c, d \in Callers : LabelOf[c] = LabelOf[d] => c = d

\* A row whose holder died is taken over or freed once the window has passed
\* (the header's "reclaimable" lock), provided somebody keeps asking.
AbandonedIsReclaimed ==
    \A c \in Callers :
        ( /\ row.holder = LabelOf[c]
          /\ pc[c] = "dead"
          /\ row.acquired + StaleMs + Second <= MaxTime )
        ~> (row.holder # LabelOf[c] \/ pc[c] # "dead")

\* The abstract lease each caller has, and the promise it refines.
LeaseOf(c) ==
    IF pc[c] # "held" THEN "out" ELSE IF Fresh(c) THEN "held" ELSE "expired"

Leases == [c \in Callers |-> LeaseOf(c)]

Lease == INSTANCE LeaseMutex WITH lease <- Leases

\* The row and its two statements implement the abstract lease.
ImplementsLease == Lease!LeaseSpec
=============================================================================
