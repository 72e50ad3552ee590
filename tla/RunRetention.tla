---------------------------- MODULE RunRetention ----------------------------
(***************************************************************************)
(* RunEvents together with the hourly sweep of the event journal           *)
(* (index.ts, sweepJournal; db-sqlite.ts, pruneUserRunEvents): it removes  *)
(* old events of settled runs, and of every run all but the newest         *)
(* MaxEvents, while executor, posts and streams go on.                     *)
(***************************************************************************)
EXTENDS RunEvents

CONSTANT Ageing      \* is journalRetentionHours above zero?

ASSUME AgeingIsBoolean == Ageing \in BOOLEAN

\* The rows of a settled run written before some moment in the past.
Aged(rows, oldest) ==
    IF Ageing /\ status \in TerminalStatuses THEN {r \in rows : r.seq < oldest} ELSE {}

\* The newest MaxEvents rows; zero keeps them all.
Newest(rows) ==
    IF MaxEvents = 0
    THEN rows
    ELSE {r \in rows : Cardinality({q \in rows : q.seq > r.seq}) < MaxEvents}

Sweep ==
    /\ \E oldest \in 0 .. Cardinality(log) : log' = Newest(log \ Aged(log, oldest))
    /\ UNCHANGED <<status, append, tail, exec, aborted, cancel, stream, boundVars>>

RetentionSpec == Init /\ [][Next \/ Sweep]_vars
=============================================================================
