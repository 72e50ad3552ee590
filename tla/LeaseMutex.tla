----------------------------- MODULE LeaseMutex -----------------------------
(***************************************************************************)
(* What the upgrade mutex promises, without rows, clocks or labels: a      *)
(* caller is outside, inside on a lease that still counts ("held"), or     *)
(* inside on a lease that has run out ("expired").  A lease is granted     *)
(* only while nobody else's counts.  An expired caller may go on running:  *)
(* the code has no fencing, so the promise is about leases that count.     *)
(* UpgradeLock implements this specification (see Lease there).            *)
(***************************************************************************)

CONSTANT Callers      \* the operations that compete for the mutex

VARIABLE lease        \* lease[c] \in {"out", "held", "expired"}

LeaseTypeOK == lease \in [Callers -> {"out", "held", "expired"}]

LeaseInit == lease = [c \in Callers |-> "out"]

\* c enters while nobody's lease counts.  The lease dates from the moment c
\* read the clock, so a slow enough entry is on a lease that has already run out.
Grant(c) ==
    /\ lease[c] = "out"
    /\ \A d \in Callers : lease[d] # "held"
    /\ \E l \in {"held", "expired"} : lease' = [lease EXCEPT ![c] = l]

\* The staleness window of c passes while c is still inside.
Expire(c) ==
    /\ lease[c] = "held"
    /\ lease' = [lease EXCEPT ![c] = "expired"]

\* c leaves, by finishing or by dying.
Leave(c) ==
    /\ lease[c] # "out"
    /\ lease' = [lease EXCEPT ![c] = "out"]

LeaseNext == \E c \in Callers : Grant(c) \/ Expire(c) \/ Leave(c)

LeaseSpec == LeaseInit /\ [][LeaseNext]_lease
=============================================================================
