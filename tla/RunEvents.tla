----------------------------- MODULE RunEvents ------------------------------
(***************************************************************************)
(* One user run: its executor, its event journal and its live streams      *)
(* (src/apps/geneweave/src/me-run-executor.ts and the routes that call     *)
(* it).  Every append reads the journal, inserts a row and broadcasts it,  *)
(* one append after another along a chain of promises; the executor, the   *)
(* clients' posts and the cancel routes all append.  A stream replays the  *)
(* journal and then follows the broadcasts.                                *)
(*                                                                         *)
(* Every await on the database adapter is a step of its own.  The Postgres *)
(* adapter suspends at each of them; the SQLite one, which answers at      *)
(* once, has a subset of these behaviours.                                 *)
(***************************************************************************)
EXTENDS Integers, FiniteSets, Sequences, SequencesExt

CONSTANTS
    Exec,        \* the executor, as a writer of events
    Posts,       \* calls of the post-event and steer handlers
    Cancels,     \* calls of the cancel handlers
    Streams,     \* clients that follow the run
    None,        \* nobody
    AgentKinds,  \* the event kinds the agent emits
    ClientKinds, \* the event kinds clients post
    MaxEvents,   \* journalMaxEvents, the limit of one replay
    MaxOutputs,  \* bound on the events the agent emits
    MaxFaults    \* bound on the statements the database refuses, the deaths of the
                 \* process and the connections lost, together

Writers == {Exec} \cup Posts \cup Cancels

TerminalKinds == {"run.completed", "run.failed", "run.cancelled"}
TerminalStatuses == {"completed", "failed", "cancelled"}
Kinds == TerminalKinds \cup AgentKinds \cup ClientKinds \cup {"run.started"}

ASSUME RunConstants ==
    /\ Exec \notin Posts \cup Cancels
    /\ Posts \cap Cancels = {}
    /\ None \notin Writers
    /\ AgentKinds \subseteq {"text.delta", "approval.request"}
    /\ MaxEvents \in Nat /\ MaxOutputs \in Nat /\ MaxFaults \in Nat

VARIABLES
    status,      \* user_runs.status
    log,         \* user_run_events: rows [seq, kind, by], unique in seq
    append,      \* append[w]: the appendEvent call of writer w
    tail,        \* the last call of the run's chain in #locks, None if settled or deleted
    exec,        \* where #execute is; #active has the run while Active;
                 \* "lost" if it left with its end unrecorded, "dead" with the process
    aborted,     \* controller.signal.aborted
    cancel,      \* cancel[c]: where cancel handler c is
    stream,      \* stream[s]: the connection of client s and what it was sent
    outputs, faults,
    swallowed    \* history: the executor's last status write was refused and forgotten

journalVars == <<log, append, tail>>
boundVars == <<outputs, faults, swallowed>>
vars == <<status, journalVars, exec, aborted, cancel, stream, boundVars>>

Rows == [seq : Nat, kind : Kinds, by : Writers]

\* An appendEvent call: what it appends, the number it has read, whom it waits for.
Calls == [pc : {"none", "queued", "listed", "written", "done", "threw"},
          kind : Kinds, seq : Nat, after : Writers \cup {None}]

JournalTyped ==
    /\ log \subseteq Rows
    /\ IsFiniteSet(log)
    /\ append \in [Writers -> Calls]
    /\ tail \in Writers \cup {None}

TypeOK ==
    /\ JournalTyped
    /\ status \in {"pending", "running"} \cup TerminalStatuses
    /\ exec \in {"off", "owned", "starting", "agent", "emitting", "completing",
                 "cancelling", "failing", "closing", "ended", "lost", "dead"}
    /\ aborted \in BOOLEAN /\ swallowed \in BOOLEAN
    /\ cancel \in [Cancels -> {"new", "refused", "read", "signalled", "alone", "stopped", "done"}]
    /\ \A s \in Streams :
        /\ stream[s].pc \in {"off", "opening", "catchup", "replayed", "live", "closed"}
        /\ stream[s].last \in Int
        /\ Range(stream[s].pending) \cup Range(stream[s].got) \subseteq Rows

Init ==
    /\ status = "pending"
    /\ log = {}
    /\ append = [w \in Writers |->
                    [pc |-> "none", kind |-> "run.started", seq |-> 0, after |-> None]]
    /\ tail = None
    /\ exec = "off"
    /\ aborted = FALSE
    /\ cancel = [c \in Cancels |-> "new"]
    /\ stream = [s \in Streams |->
                    [pc |-> "off", settled |-> FALSE, last |-> -1, pending |-> <<>>, got |-> <<>>]]
    /\ outputs = 0 /\ faults = 0 /\ swallowed = FALSE

Terminal(e) == e.kind \in TerminalKinds

-----------------------------------------------------------------------------
(* SseSubscriber: one connection. *)

\* #emit: drop what is not newer, write the rest, end after a terminal event.
Emit(st, e) ==
    IF st.pc = "closed" \/ e.seq <= st.last
    THEN st
    ELSE [st EXCEPT !.last = e.seq,
                    !.got = Append(@, e),
                    !.pc = IF Terminal(e) THEN "closed" ELSE @]

EmitAll(st, events) == FoldLeft(Emit, st, events)

\* deliver: kept back until the connection is activated.
DeliverAtOnce(st, e) == IF st.pc \in {"catchup", "replayed", "live"} THEN Emit(st, e) ELSE st
Deliver(st, e) ==
    CASE st.pc \in {"catchup", "replayed"} -> [st EXCEPT !.pending = Append(@, e)]
      [] st.pc = "live" -> Emit(st, e)
      [] OTHER -> st

\* The client's resume cursor, the id of the last event it was sent.
Cursor(st) == IF st.got = <<>> THEN -1 ELSE Last(st.got).seq

\* What readAfter returns: the first MaxEvents rows after the cursor, in order.
After(cursor) ==
    LET rows == {r \in log : r.seq > cursor}
        Rank(r) == Cardinality({q \in rows : q.seq <= r.seq})
        count == IF Cardinality(rows) < MaxEvents THEN Cardinality(rows) ELSE MaxEvents
    IN  [i \in 1 .. count |-> CHOOSE r \in rows : Rank(r) = i]

-----------------------------------------------------------------------------
(* appendEvent under #withRunLock. *)

\* The call joins the run's chain, behind the call that is its tail.
EnqueueUnchained(w, kind) ==
    /\ append' = [append EXCEPT ![w] = [pc |-> "queued", kind |-> kind, seq |-> 0, after |-> None]]
    /\ tail' = w
Enqueue(w, kind) ==
    /\ append' = [append EXCEPT ![w] = [pc |-> "queued", kind |-> kind, seq |-> 0, after |-> tail]]
    /\ tail' = w

\* The call settles, fulfilled or rejected, and whoever waits for it may go on.
SettlePoisons(w, how) ==
    /\ append' = [v \in Writers |->
                    IF v = w THEN [append[v] EXCEPT !.pc = how, !.seq = 0]
                    ELSE IF append[v].after = w /\ how = "done" THEN [append[v] EXCEPT !.after = None]
                    ELSE append[v]]
    /\ tail' = IF tail = w THEN None ELSE tail
Settle(w, how) ==
    /\ append' = [v \in Writers |->
                    IF v = w THEN [append[v] EXCEPT !.pc = how, !.seq = 0]
                    ELSE IF append[v].after = w THEN [append[v] EXCEPT !.after = None]
                    ELSE append[v]]
    /\ tail' = IF tail = w THEN None ELSE tail

Turn(w) == append[w].pc = "queued" /\ append[w].after = None

RowOf(w) == [seq |-> append[w].seq, kind |-> append[w].kind, by |-> w]

\* listUserRunEvents: a second terminal event is not written, anything else
\* gets the number of rows as its sequence.
ListFromOne(w) ==
    /\ Turn(w)
    /\ append' = [append EXCEPT ![w].pc = "listed", ![w].seq = Cardinality(log) + 1]
    /\ UNCHANGED <<status, log, tail, exec, aborted, cancel, stream, boundVars>>
List(w) ==
    /\ Turn(w)
    /\ \/ /\ append[w].kind \in TerminalKinds
          /\ \E r \in log : Terminal(r)
          /\ Settle(w, "done")
       \/ /\ ~ (append[w].kind \in TerminalKinds /\ \E r \in log : Terminal(r))
          /\ append' = [append EXCEPT ![w].pc = "listed", ![w].seq = Cardinality(log)]
          /\ UNCHANGED tail
    /\ UNCHANGED <<status, log, exec, aborted, cancel, stream, boundVars>>

\* appendUserRunEvent: INSERT OR IGNORE on the unique (run_id, sequence).
InsertAlways(w) ==
    /\ append[w].pc = "listed"
    /\ log' = log \cup {RowOf(w)}
    /\ append' = [append EXCEPT ![w].pc = "written"]
    /\ UNCHANGED <<status, tail, exec, aborted, cancel, stream, boundVars>>
InsertOrReplace(w) ==
    /\ append[w].pc = "listed"
    /\ log' = {r \in log : r.seq # append[w].seq} \cup {RowOf(w)}
    /\ append' = [append EXCEPT ![w].pc = "written"]
    /\ UNCHANGED <<status, tail, exec, aborted, cancel, stream, boundVars>>
Insert(w) ==
    /\ append[w].pc = "listed"
    /\ log' = IF \E r \in log : r.seq = append[w].seq THEN log ELSE log \cup {RowOf(w)}
    /\ append' = [append EXCEPT ![w].pc = "written"]
    /\ UNCHANGED <<status, tail, exec, aborted, cancel, stream, boundVars>>

\* #broadcast, and the call returns its sequence.
Broadcast(w) ==
    /\ append[w].pc = "written"
    /\ stream' = [s \in Streams |-> Deliver(stream[s], RowOf(w))]
    /\ Settle(w, "done")
    /\ UNCHANGED <<status, log, exec, aborted, cancel, boundVars>>

Fault == faults < MaxFaults /\ faults' = faults + 1

\* The database refuses the SELECT or the INSERT; the chain goes on.
AppendThrows(w) ==
    /\ Turn(w) \/ append[w].pc = "listed"
    /\ Fault
    /\ Settle(w, "threw")
    /\ UNCHANGED <<status, log, exec, aborted, cancel, stream, outputs, swallowed>>

AppendStep(w) == List(w) \/ Insert(w) \/ Broadcast(w)

-----------------------------------------------------------------------------
(* #execute. *)

Active == exec \notin {"off", "ended", "lost", "dead"}

\* start, called once by the route that created the run.
Start ==
    /\ exec = "off"
    /\ exec' = "owned"
    /\ UNCHANGED <<status, journalVars, aborted, cancel, stream, boundVars>>

\* The finally of start deletes the run from #active and its chain from #locks.
Leave(how) == exec' = how /\ tail' = None

\* The catch block, when something threw.
Caught == IF aborted THEN "cancelling" ELSE "failing"

\* getUserRun finds the run for its user, or the executor leaves without a
\* word; then status and run.started.
Disowned ==
    /\ exec = "owned"
    /\ Leave("lost")
    /\ UNCHANGED <<status, log, append, aborted, cancel, stream, boundVars>>
SetRunning ==
    /\ exec = "owned"
    /\ status' = "running"
    /\ Enqueue(Exec, "run.started")
    /\ exec' = "starting"
    /\ UNCHANGED <<log, aborted, cancel, stream, boundVars>>

\* The read or the write of the run is refused.
SetRunningThrows ==
    /\ exec = "owned"
    /\ Fault
    /\ exec' = Caught
    /\ UNCHANGED <<status, journalVars, aborted, cancel, stream, outputs, swallowed>>

Started ==
    /\ exec = "starting"
    /\ \/ append[Exec].pc = "done" /\ exec' = "agent"
       \/ append[Exec].pc = "threw" /\ exec' = Caught
    /\ UNCHANGED <<status, journalVars, aborted, cancel, stream, boundVars>>

\* The agent emits: output only while not aborted, an approval request in any case.
AgentEmits ==
    /\ exec = "agent"
    /\ outputs < MaxOutputs
    /\ outputs' = outputs + 1
    /\ \E kind \in AgentKinds :
        /\ kind = "text.delta" => ~ aborted
        /\ Enqueue(Exec, kind)
    /\ exec' = "emitting"
    /\ UNCHANGED <<status, log, aborted, cancel, stream, faults, swallowed>>

\* The agent sees the append end, and may itself throw if the append threw.
Emitted ==
    /\ exec = "emitting"
    /\ append[Exec].pc \in {"done", "threw"}
    /\ exec' = "agent"
    /\ UNCHANGED <<status, journalVars, aborted, cancel, stream, boundVars>>

AgentEnds ==
    /\ exec = "agent"
    /\ exec' \in {IF aborted THEN "cancelling" ELSE "completing", Caught}
    /\ UNCHANGED <<status, journalVars, aborted, cancel, stream, boundVars>>

\* The final status, then the terminal event.
FinaliseWritesKind ==
    /\ exec \in {"completing", "cancelling", "failing"}
    /\ status' = "run.failed"
    /\ Enqueue(Exec, "run.failed")
    /\ exec' = "closing"
    /\ UNCHANGED <<log, aborted, cancel, stream, boundVars>>
FinalStatus == [completing |-> "completed", cancelling |-> "cancelled", failing |-> "failed"]
FinalEvent == [completing |-> "run.completed", cancelling |-> "run.cancelled",
               failing |-> "run.failed"]
FinaliseByFlag ==
    /\ exec \in DOMAIN FinalStatus
    /\ status' = FinalStatus[exec]
    /\ Enqueue(Exec, IF aborted THEN "run.cancelled" ELSE FinalEvent[exec])
    /\ exec' = "closing"
    /\ UNCHANGED <<log, aborted, cancel, stream, boundVars>>
Finalise ==
    /\ exec \in DOMAIN FinalStatus
    /\ status' = FinalStatus[exec]
    /\ Enqueue(Exec, FinalEvent[exec])
    /\ exec' = "closing"
    /\ UNCHANGED <<log, aborted, cancel, stream, boundVars>>

\* The status write is refused: a completion goes to the catch block, a failure
\* or a cancellation goes on to its event all the same.
FinaliseThrows ==
    /\ exec = "completing"
    /\ Fault
    /\ exec' = Caught
    /\ UNCHANGED <<status, journalVars, aborted, cancel, stream, outputs, swallowed>>
FinaliseForgets ==
    /\ exec \in {"cancelling", "failing"}
    /\ Fault
    /\ swallowed' = TRUE
    /\ Enqueue(Exec, FinalEvent[exec])
    /\ exec' = "closing"
    /\ UNCHANGED <<status, log, aborted, cancel, stream, outputs>>

\* A completion that could not be recorded goes to the catch block; a failure or
\* a cancellation that could not be is given up.
Close ==
    /\ exec = "closing"
    /\ \/ append[Exec].pc = "done" /\ Leave("ended")
       \/ /\ append[Exec].pc = "threw"
          /\ IF append[Exec].kind = "run.completed"
             THEN exec' = Caught /\ UNCHANGED tail
             ELSE Leave("lost")
    /\ UNCHANGED <<status, log, append, aborted, cancel, stream, boundVars>>

ExecStep ==
    \/ Start \/ SetRunning \/ Started \/ AgentEmits \/ Emitted
    \/ AgentEnds \/ Finalise \/ Close \/ Disowned

ExecThrows == SetRunningThrows \/ FinaliseThrows \/ FinaliseForgets

-----------------------------------------------------------------------------
(* The handlers of clients. *)

\* postEvent and steer.
Post(p) ==
    /\ append[p].pc = "none"
    /\ \E kind \in ClientKinds : Enqueue(p, kind)
    /\ UNCHANGED <<status, log, exec, aborted, cancel, stream, boundVars>>

ReadStatus(c) ==
    /\ cancel[c] = "new"
    /\ cancel' = [cancel EXCEPT ![c] = IF status \in TerminalStatuses THEN "refused" ELSE "read"]
    /\ UNCHANGED <<status, journalVars, exec, aborted, stream, boundVars>>

\* cancel: signals the executor if it has the run.
Abort(c) ==
    /\ cancel[c] = "read"
    /\ aborted' = (aborted \/ Active)
    /\ cancel' = [cancel EXCEPT ![c] = IF Active THEN "signalled" ELSE "alone"]
    /\ UNCHANGED <<status, journalVars, exec, stream, boundVars>>

\* The handler writes the status whatever it is by now, and records the
\* cancellation itself if nobody was executing the run.
SetCancelled(c) ==
    /\ status' = "cancelled"
    /\ \/ /\ cancel[c] = "signalled"
          /\ cancel' = [cancel EXCEPT ![c] = "stopped"]
          /\ UNCHANGED <<append, tail>>
       \/ /\ cancel[c] = "alone"
          /\ cancel' = [cancel EXCEPT ![c] = "done"]
          /\ Enqueue(c, "run.cancelled")
    /\ UNCHANGED <<log, exec, aborted, stream, boundVars>>

CancelStep(c) == ReadStatus(c) \/ Abort(c) \/ SetCancelled(c)

-----------------------------------------------------------------------------
(* The event-stream route. *)

Set(s, st) ==
    /\ stream' = [stream EXCEPT ![s] = st]
    /\ UNCHANGED <<status, journalVars, exec, aborted, cancel>>

\* The route reads the run, then awaits its configuration.
Open(s) ==
    /\ stream[s].pc = "off"
    /\ Set(s, [stream[s] EXCEPT !.pc = "opening", !.settled = status \in TerminalStatuses])
    /\ UNCHANGED boundVars

Subscribe(s) ==
    /\ stream[s].pc = "opening"
    /\ Set(s, [stream[s] EXCEPT !.pc = "catchup", !.last = Cursor(stream[s]), !.pending = <<>>])
    /\ UNCHANGED boundVars

Replay(s) ==
    /\ stream[s].pc = "catchup"
    /\ Set(s, EmitAll([stream[s] EXCEPT !.pc = "replayed"], After(stream[s].last)))
    /\ UNCHANGED boundVars

\* A run that was over when it was read is closed, without a look at what was
\* kept back; else that is flushed and the stream goes live.
ActivateUnflushed(s) ==
    /\ stream[s].pc = "replayed"
    /\ Set(s, [stream[s] EXCEPT !.pc = IF stream[s].settled THEN "closed" ELSE "live",
                               !.settled = FALSE, !.pending = <<>>])
    /\ UNCHANGED boundVars
Activate(s) ==
    /\ stream[s].pc = "replayed"
    /\ IF stream[s].settled
       THEN Set(s, [stream[s] EXCEPT !.pc = "closed", !.settled = FALSE, !.pending = <<>>])
       ELSE Set(s, EmitAll([stream[s] EXCEPT !.pc = "live", !.pending = <<>>], stream[s].pending))
    /\ UNCHANGED boundVars

\* The connection is lost.
Drop(s) ==
    /\ stream[s].pc \in {"opening", "catchup", "replayed", "live"}
    /\ Fault
    /\ Set(s, [stream[s] EXCEPT !.pc = "off", !.settled = FALSE, !.pending = <<>>])
    /\ UNCHANGED <<outputs, swallowed>>

Learned(s) == \E e \in Range(stream[s].got) : Terminal(e)

\* A client whose stream ended before the run did comes back with its cursor.
Reconnect(s) ==
    /\ stream[s].pc = "closed"
    /\ ~ Learned(s)
    /\ Set(s, [stream[s] EXCEPT !.pc = "off"])
    /\ UNCHANGED boundVars

StreamStep(s) == Open(s) \/ Subscribe(s) \/ Replay(s) \/ Activate(s) \/ Reconnect(s)

-----------------------------------------------------------------------------
\* The process dies and is started again: what is in memory is gone, the
\* executor and the chain with it, and nothing takes the run up again.  The
\* rows stay, and the clients come back with their cursors.
Restart ==
    /\ Fault
    /\ exec' = IF exec \in {"ended", "lost"} THEN exec ELSE "dead"
    /\ aborted' = FALSE
    /\ tail' = None
    /\ append' = [w \in Writers |->
                    IF append[w].pc \in {"queued", "listed", "written"}
                    THEN [append[w] EXCEPT !.pc = "threw", !.seq = 0, !.after = None]
                    ELSE append[w]]
    /\ cancel' = [c \in Cancels |->
                    IF cancel[c] \in {"read", "signalled", "alone"} THEN "refused" ELSE cancel[c]]
    /\ stream' = [s \in Streams |->
                    IF stream[s].pc \in {"off", "closed"}
                    THEN stream[s]
                    ELSE [stream[s] EXCEPT !.pc = "off", !.settled = FALSE, !.pending = <<>>]]
    /\ UNCHANGED <<status, log, outputs, swallowed>>

-----------------------------------------------------------------------------
Next ==
    \/ Restart
    \/ ExecStep \/ ExecThrows
    \/ \E w \in Writers : AppendStep(w) \/ AppendThrows(w)
    \/ \E p \in Posts : Post(p)
    \/ \E c \in Cancels : CancelStep(c)
    \/ \E s \in Streams : StreamStep(s) \/ Drop(s)

Spec == Init /\ [][Next]_vars

\* In a process that lives, promise chains run on and an agent comes to an end;
\* a client whose stream was cut opens it again.
FairSpec ==
    /\ Spec
    /\ WF_vars(ExecStep)
    /\ \A w \in Writers : WF_vars(AppendStep(w))
    /\ \A c \in Cancels : WF_vars(CancelStep(c))
    /\ \A s \in Streams : WF_vars(StreamStep(s))

-----------------------------------------------------------------------------
\* The journal has no gap and no duplicate, and no second terminal event
\* (the header's "gap-free" and "exactly one terminal event per run").  It
\* does not rest on the chain of appends: when the executor leaves, the chain
\* is forgotten and two appends may hold the same number; the unique key then
\* drops one of them.
GapFree == {r.seq : r \in log} = 0 .. (Cardinality(log) - 1)

OneTerminal == \A q, r \in log : Terminal(q) /\ Terminal(r) => q = r

JournalExact == GapFree /\ OneTerminal

\* Why: a number that was read is the length of a journal that had no terminal
\* event below it, and everything written since has a number at least as high.
AppendInv ==
    \A w \in Writers :
        append[w].pc = "listed" =>
            /\ append[w].seq <= Cardinality(log)
            /\ append[w].kind \in TerminalKinds =>
                \A r \in log : Terminal(r) => r.seq >= append[w].seq

\* Until the executor leaves, no event is dropped for a number another append
\* took: what is about to be broadcast and acknowledged is in the journal
\* ("serialized per-run so concurrent writers never collide").
AppendStored ==
    exec \notin {"ended", "lost"} =>
        \A w \in Writers : append[w].pc = "written" => RowOf(w) \in log

\* A journaled event is never changed, moved or removed.
AppendOnly == [][log \subseteq log']_vars

\* Whatever was interrupted and resumed, a client has been sent exactly the
\* events 0, 1, 2, ... of the journal ("resumable + gap-free"), with nothing
\* that is not journaled, unless the executor left without recording its end.
StreamExact ==
    exec # "lost" =>
        \A s \in Streams : \A i \in DOMAIN stream[s].got :
            /\ stream[s].got[i].seq = i - 1
            /\ stream[s].got[i] \in log

\* A cancel handler's word is the last: it does not look at what it overwrites.
Overruled == status = "cancelled" /\ \E c \in Cancels : cancel[c] \in {"stopped", "done"}

Agrees(kind) ==
    \E how \in DOMAIN FinalStatus : status = FinalStatus[how] /\ kind = FinalEvent[how]

\* An executor that left, however its agent ended and whoever cancelled or
\* posted meanwhile, leaves a terminal event behind, and a terminal status
\* unless the write of it was refused and forgotten.  An event of its own says
\* what the status says, unless a cancel handler overruled that.
FinishedIsRecorded ==
    exec = "ended" =>
        /\ status \in TerminalStatuses \/ swallowed
        /\ \E r \in log :
            /\ Terminal(r)
            /\ r.by = Exec => Agrees(r.kind) \/ swallowed \/ Overruled

\* The run handed to the executor comes to an end: no append waits for ever in
\* the chain, whichever of its predecessors threw.
RunEnds == exec # "off" ~> ~ Active

\* Every client learns of the end, also one whose route read the run as over
\* and closed the stream before the terminal event was in the journal.
EveryClientLearns == \A s \in Streams : exec = "ended" ~> Learned(s)
=============================================================================
