------------------------- MODULE NotificationOutbox -------------------------
(***************************************************************************)
(* Telling a run's subscribers that it has ended                           *)
(* (run-notifications-outbox.ts, wired in server.ts and routes/me.ts).     *)
(* When the run ends, one outbox row is written per subscriber; relays     *)
(* lease due rows, write the in-app feed, call the webhooks and mark the   *)
(* row sent or put it back.  The terminal callback, the subscribe handler, *)
(* the relay's timer and the reconciler at boot all do this in one         *)
(* process, each await a step; the process may die between any two.        *)
(*                                                                         *)
(* Time is one flag per row: whether the moment the row waits for (its     *)
(* next attempt, or the end of its lease) has passed.                      *)
(***************************************************************************)
EXTENDS Integers, FiniteSets

CONSTANTS
    Users,
    None,         \* nobody
    Hooks,        \* Hooks[u]: the webhook endpoints user u has registered
    Slots,        \* calls in flight at once
    Batch,        \* batchSize, the rows one claim leases
    MaxAttempts,  \* notify_max_attempts
    MaxMishaps    \* bound on the deaths of the process, the leases that run out under
                  \* a live relay and the users who unsubscribe, together

ASSUME OutboxConstants ==
    /\ IsFiniteSet(Users) /\ None \notin Users
    /\ Batch \in Nat \ {0}
    /\ MaxAttempts \in Nat /\ MaxMishaps \in Nat

VARIABLES
    run,       \* "running"; "ended": the status row is terminal;
               \* "told": so is the journal, and onTerminal was called
    subs,      \* run_subscriptions
    row,       \* row[u]: the outbox row of user u
    feed,      \* the users whose inbox has the entry
    received,  \* received[u]: the endpoints of u that got the call
    call,      \* call[s]: the call in slot s
    booting,   \* the boot's reconcile has not begun
    mishaps,   \* what was used up of the bound
    crashed,   \* history: the process has died
    outlived,  \* history: rows whose lease ran out under a live relay
    owed       \* history: who was subscribed when the run ended, or found it ended
               \* on subscribing, and still is

bookkeeping == <<run, subs, booting, mishaps, crashed, outlived, owed>>
vars == <<run, subs, row, feed, received, call, booting, mishaps, crashed, outlived, owed>>

Endpoints == UNION {Hooks[u] : u \in Users}

Rows == [status : {"none", "pending", "sending", "sent", "failed"},
         attempts : Nat, ripe : BOOLEAN]

\* A call: the subscriber, or the one whose row is being delivered; whether the
\* subscribe handler found the run ended; whom the fan-out has left; the leased
\* rows, the attempts read with them, whether the claim was full, and the
\* endpoints the delivery has left.
Calls == [pc : {"idle", "subscribe", "scan", "has", "list", "fanout", "claim",
                "relay", "hooks", "threw"},
          tick : BOOLEAN, who : Users \cup {None}, ended : BOOLEAN, todo : SUBSET Users,
          batch : SUBSET Users, tries : [Users -> Nat], full : BOOLEAN,
          left : SUBSET Endpoints]

Idle == [pc |-> "idle", tick |-> FALSE, who |-> None, ended |-> FALSE,
         todo |-> {}, batch |-> {}, tries |-> [u \in Users |-> 0], full |-> FALSE, left |-> {}]

TypeOK ==
    /\ run \in {"running", "ended", "told"}
    /\ subs \subseteq Users
    /\ row \in [Users -> Rows]
    /\ feed \subseteq Users
    /\ received \in [Users -> SUBSET Endpoints]
    /\ call \in [Slots -> Calls]
    /\ booting \in BOOLEAN
    /\ mishaps \in 0 .. MaxMishaps
    /\ crashed \in BOOLEAN
    /\ outlived \subseteq Users
    /\ owed \subseteq Users

\* The server has just started; the run is in progress.
Init ==
    /\ run = "running"
    /\ subs = {}
    /\ row = [u \in Users |-> [status |-> "none", attempts |-> 0, ripe |-> FALSE]]
    /\ feed = {}
    /\ received = [u \in Users |-> {}]
    /\ call = [s \in Slots |-> Idle]
    /\ booting = TRUE
    /\ mishaps = 0 /\ crashed = FALSE /\ outlived = {} /\ owed = {}

Free(s) == call[s].pc = "idle"
Enter(s, pc) == call' = [call EXCEPT ![s] = [Idle EXCEPT !.pc = pc]]
Goto(s, pc) == call' = [call EXCEPT ![s].pc = pc]

HasRow(u) == row[u].status # "none"

Mishap == mishaps < MaxMishaps /\ mishaps' = mishaps + 1

-----------------------------------------------------------------------------
(* The run ends.                                                           *)

\* The executor or a cancel handler writes the terminal status ...
End ==
    /\ run = "running"
    /\ run' = "ended"
    /\ owed' = subs
    /\ UNCHANGED <<subs, row, feed, received, call, booting, mishaps, crashed, outlived>>

\* ... then the terminal event, and appendEvent calls onTerminal.
OnTerminalDrains(s) ==
    /\ run = "ended" /\ Free(s)
    /\ run' = "told"
    /\ Enter(s, "claim")
    /\ UNCHANGED <<subs, row, feed, received, booting, mishaps, crashed, outlived, owed>>
OnTerminal(s) ==
    /\ run = "ended" /\ Free(s)
    /\ run' = "told"
    /\ Enter(s, "list")
    /\ UNCHANGED <<subs, row, feed, received, booting, mishaps, crashed, outlived, owed>>

-----------------------------------------------------------------------------
(* enqueueRunTerminalNotifications                                         *)

\* The call with `users` still to enqueue; then the callers drain.
FanOut(s, users) ==
    call' = [call EXCEPT ![s].pc = IF users = {} THEN "claim" ELSE "fanout",
                         ![s].todo = users]

\* listRunSubscribers, once.
ListSubscribers(s) ==
    /\ call[s].pc = "list"
    /\ FanOut(s, subs)
    /\ UNCHANGED <<row, feed, received, bookkeeping>>

\* One insert per subscriber, ignored if the user has a row.
Enqueue(s, u) ==
    /\ call[s].pc = "fanout" /\ u \in call[s].todo
    /\ row' = IF HasRow(u) THEN row
              ELSE [row EXCEPT ![u] = [status |-> "pending", attempts |-> 0, ripe |-> TRUE]]
    /\ FanOut(s, call[s].todo \ {u})
    /\ UNCHANGED <<feed, received, bookkeeping>>

-----------------------------------------------------------------------------
(* drainOnce                                                               *)

\* Due, or leased by a relay that ran out of time.
ClaimablePendingOnly(u) == row[u].status = "pending" /\ row[u].ripe
ClaimableFailedToo(u) == row[u].status \in {"pending", "failed", "sending"} /\ row[u].ripe
ClaimableAnyLease(u) == row[u].status = "sending" \/ (row[u].status = "pending" /\ row[u].ripe)
Claimable(u) == row[u].status \in {"pending", "sending"} /\ row[u].ripe

\* The call with the rows `batch` to deliver; when there are none it ends, or
\* a tick claims again after a full batch.
Relay(s, batch, tries, full) ==
    call' = [call EXCEPT ![s] =
               CASE batch # {} -> [Idle EXCEPT !.pc = "relay", !.tick = call[s].tick,
                                               !.batch = batch, !.tries = tries, !.full = full]
                 [] batch = {} /\ call[s].tick /\ full ->
                                  [Idle EXCEPT !.pc = "claim", !.tick = TRUE]
                 [] OTHER -> Idle]

\* claimNotificationOutbox: one transaction leases up to Batch rows and counts
\* the attempt; the rows it returns are those it read, the attempt not counted.
Claim(s) ==
    /\ call[s].pc = "claim"
    /\ \E leased \in SUBSET {u \in Users : Claimable(u)} :
        /\ \/ Cardinality(leased) = Batch
           \/ /\ Cardinality(leased) < Batch
              /\ leased = {u \in Users : Claimable(u)}
        /\ row' = [u \in Users |->
                     IF u \in leased
                     THEN [status |-> "sending", attempts |-> row[u].attempts + 1,
                           ripe |-> FALSE]
                     ELSE row[u]]
        /\ Relay(s, leased, [u \in Users |-> IF u \in leased THEN row[u].attempts ELSE 0],
                 Cardinality(leased) = Batch)
    /\ UNCHANGED <<feed, received, bookkeeping>>

\* deliver: the in-app entry first, deduplicated by the row's key.
SkipWebhooks(s, u) ==
    /\ call[s].pc = "relay" /\ u \in call[s].batch
    /\ feed' = feed \cup {u}
    /\ call' = [call EXCEPT ![s].pc = "hooks", ![s].who = u]
    /\ UNCHANGED <<row, received, bookkeeping>>
AppendFeed(s, u) ==
    /\ call[s].pc = "relay" /\ u \in call[s].batch
    /\ feed' = feed \cup {u}
    /\ call' = [call EXCEPT ![s].pc = "hooks", ![s].who = u, ![s].left = Hooks[u]]
    /\ UNCHANGED <<row, received, bookkeeping>>

\* Then every webhook, one after the other.  The endpoint may answer; it may
\* fail or not answer in time, having received the call or not: then deliver
\* throws.
CallWebhook(s, e) ==
    /\ call[s].pc = "hooks" /\ e \in call[s].left
    /\ \/ /\ received' = [received EXCEPT ![call[s].who] = @ \cup {e}]
          /\ call' = [call EXCEPT ![s].left = @ \ {e}]
       \/ /\ \E got \in {{}, {e}} : received' = [received EXCEPT ![call[s].who] = @ \cup got]
          /\ call' = [call EXCEPT ![s].pc = "threw", ![s].left = {}]
    /\ UNCHANGED <<row, feed, bookkeeping>>

\* Both writes below go by the row's id, whatever has become of the row; a dead
\* row's next attempt is now.
Settle(s, status) ==
    /\ row' = [row EXCEPT ![call[s].who].status = status,
                         ![call[s].who].ripe = (status = "failed")]
    /\ Relay(s, call[s].batch \ {call[s].who}, [call[s].tries EXCEPT ![call[s].who] = 0],
             call[s].full)
    /\ UNCHANGED <<feed, received, bookkeeping>>

MarkSent(s) ==
    /\ call[s].pc = "hooks" /\ call[s].left = {}
    /\ Settle(s, "sent")

\* The attempts are those read with the claim.
ExhaustedReversed(s) == call[s].tries[call[s].who] <= MaxAttempts
Exhausted(s) == call[s].tries[call[s].who] >= MaxAttempts
RescheduleMisnamed(s) ==
    /\ call[s].pc = "threw"
    /\ Settle(s, IF Exhausted(s) THEN "failed" ELSE "retry")
Reschedule(s) ==
    /\ call[s].pc = "threw"
    /\ Settle(s, IF Exhausted(s) THEN "failed" ELSE "pending")

-----------------------------------------------------------------------------
(* Who calls them.                                                         *)

\* The timer; the draining flag keeps ticks, and only ticks, apart.
Tick(s) ==
    /\ Free(s)
    /\ \A t \in Slots : ~ call[t].tick
    /\ \E u \in Users : Claimable(u)      \* other ticks do nothing
    /\ call' = [call EXCEPT ![s] = [Idle EXCEPT !.pc = "claim", !.tick = TRUE]]
    /\ UNCHANGED <<row, feed, received, bookkeeping>>

\* At boot: a terminal run with subscribers ...
Reconcile(s) ==
    /\ booting /\ Free(s)
    /\ booting' = FALSE
    /\ Enter(s, "scan")
    /\ UNCHANGED <<run, subs, row, feed, received, mishaps, crashed, outlived, owed>>

Scan(s) ==
    /\ call[s].pc = "scan"
    /\ Goto(s, IF run # "running" /\ subs # {} THEN "has" ELSE "claim")
    /\ UNCHANGED <<row, feed, received, bookkeeping>>

\* ... gets its rows unless it has one.
NeverBackfills(s) ==
    /\ call[s].pc = "has"
    /\ Goto(s, "claim")
    /\ UNCHANGED <<row, feed, received, bookkeeping>>
HasOutbox(s) ==
    /\ call[s].pc = "has"
    /\ Goto(s, IF \E u \in Users : HasRow(u) THEN "claim" ELSE "list")
    /\ UNCHANGED <<row, feed, received, bookkeeping>>

\* The subscribe handler reads the run, then writes the subscription; if the
\* run it read had ended it fans out itself.
SubscribeRead(s, u) ==
    /\ Free(s)
    /\ u \notin subs
    /\ call' = [call EXCEPT ![s] = [Idle EXCEPT !.pc = "subscribe", !.who = u,
                                                !.ended = (run # "running")]]
    /\ UNCHANGED <<row, feed, received, bookkeeping>>

SubscribeWrite(s) ==
    /\ call[s].pc = "subscribe"
    /\ subs' = subs \cup {call[s].who}
    /\ IF call[s].ended
       THEN /\ Enter(s, "list")
            /\ owed' = owed \cup {call[s].who}
       ELSE /\ call' = [call EXCEPT ![s] = Idle]
            /\ UNCHANGED owed
    /\ UNCHANGED <<run, row, feed, received, booting, mishaps, crashed, outlived>>

Unsubscribe(u) ==
    /\ u \in subs
    /\ Mishap
    /\ subs' = subs \ {u}
    /\ owed' = owed \ {u}
    /\ UNCHANGED <<run, row, feed, received, call, booting, crashed, outlived>>

-----------------------------------------------------------------------------
(* Time and crashes.                                                       *)

Held(u) == \E s \in Slots : u \in call[s].batch

\* A row's next attempt falls due or its lease ends, possibly under a relay
\* that still has the row.
Elapse(u) ==
    /\ row[u].status \in {"pending", "sending"} /\ ~ row[u].ripe
    /\ IF Held(u) /\ u \notin outlived
       THEN Mishap /\ outlived' = outlived \cup {u}
       ELSE UNCHANGED <<mishaps, outlived>>
    /\ row' = [row EXCEPT ![u].ripe = TRUE]
    /\ UNCHANGED <<run, subs, feed, received, call, booting, crashed, owed>>

\* The process dies and starts again.  A run that had only its status gets no
\* terminal callback.
Crash ==
    /\ Mishap
    /\ crashed' = TRUE
    /\ call' = [s \in Slots |-> Idle]
    /\ booting' = TRUE
    /\ run' = IF run = "ended" THEN "told" ELSE run
    /\ UNCHANGED <<subs, row, feed, received, outlived, owed>>

Step(s) ==
    \/ ListSubscribers(s) \/ Claim(s) \/ MarkSent(s) \/ Reschedule(s)
    \/ Scan(s) \/ HasOutbox(s) \/ SubscribeWrite(s)
    \/ \E u \in Users : Enqueue(s, u) \/ AppendFeed(s, u)
    \/ \E e \in Endpoints : CallWebhook(s, e)

Next ==
    \/ End \/ Crash
    \/ \E s \in Slots :
        \/ OnTerminal(s) \/ Tick(s) \/ Reconcile(s) \/ Step(s)
        \/ \E u \in Users : SubscribeRead(s, u)
    \/ \E u \in Users : Unsubscribe(u) \/ Elapse(u)

Spec == Init /\ [][Next]_vars

\* Calls go on, callbacks the process owes are made, the timer fires and time
\* passes; users do as they like and the process need not die.
FairSpec ==
    /\ Spec
    /\ \A s \in Slots : WF_vars(Step(s))
    /\ WF_vars(\E s \in Slots : OnTerminal(s))
    /\ WF_vars(\E s \in Slots : Reconcile(s))
    /\ WF_vars(\E s \in Slots : Tick(s))
    /\ \A u \in Users : WF_vars(Elapse(u))
-----------------------------------------------------------------------------
Settled(u) == row[u].status \in {"sent", "failed"}

\* A leased row has one relay: two calls hold the same row only if the lease
\* ran out under the first (claimNotificationOutbox, lease_until).
LeaseExclusive ==
    \A u \in Users \ outlived : \A s, t \in Slots :
        u \in call[s].batch \cap call[t].batch => s = t

\* A row marked sent was delivered on every channel: the inbox has the entry
\* and each endpoint of the user got the call, whichever relay marked it and
\* however often the delivery was cut short before.
SentIsDelivered ==
    \A u \in Users : row[u].status = "sent" => u \in feed /\ Hooks[u] \subseteq received[u]

\* A row is given up for dead only after notify_max_attempts attempts, whichever
\* relay fails last and however stale the count it read.
DeadAfterBudget ==
    \A u \in Users : row[u].status = "failed" => row[u].attempts >= MaxAttempts

\* ... and no row is attempted more often ("attempts already incremented at
\* claim"): what the code says, and misses by the attempt of the claim itself.
AttemptsWithinBudget ==
    \A u \in Users : row[u].attempts <= MaxAttempts

\* Sent and dead rows stay as they are, unless a relay outlived its lease: the
\* writes that end a delivery do not look at what they overwrite.
SettledStays ==
    [][\A u \in Users \ outlived : Settled(u) => row'[u] = row[u]]_vars

\* Once there are rows, all of them are sent or given up in the end, whatever
\* their endpoints answer, wherever the process dies and whichever relay
\* outlives its lease.
RowSettles == (\E u \in Users : HasRow(u)) ~> (\A u \in Users : HasRow(u) => Settled(u))

\* Without a crash, everybody who was subscribed when the run ended, or found it
\* ended on subscribing, and stays so, gets a row.  (Who read the run before its
\* end and subscribed after it is missed by both.)
SubscribersGetRows == owed # {} ~> (crashed \/ \A u \in owed : HasRow(u))

\* Wherever the process dies around the end of a run, the terminal callback or
\* the reconciler at the next boot writes a first row for it while somebody is
\* owed one.
EndIsNotForgotten == owed # {} ~> ((\E u \in Users : HasRow(u)) \/ owed = {})
=============================================================================
