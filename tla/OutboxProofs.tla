---------------------------- MODULE OutboxProofs ----------------------------
(***************************************************************************)
(* Proofs about NotificationOutbox, for any number of users, endpoints,    *)
(* calls in flight, deaths and leases outlived.                            *)
(***************************************************************************)
EXTENDS NotificationOutbox, TLAPS

\* Typing without the bounds, which the invariants do not need.
Typed ==
    /\ row \in [Users -> Rows]
    /\ feed \subseteq Users
    /\ received \in [Users -> SUBSET Endpoints]
    /\ call \in [Slots -> Calls]
    /\ subs \subseteq Users /\ outlived \subseteq Users

\* The step leaves every call but s alone.
Spares(s) == \A t \in Slots \ {s} : call'[t] = call[t]

-----------------------------------------------------------------------------
(* What the steps do to the record of a call.                              *)

LEMMA IdleTyped == Idle \in Calls
BY DEF Idle, Calls

LEMMA EnterCall ==
    ASSUME Typed, NEW s \in Slots, Enter(s, "list") \/ Enter(s, "claim") \/ Enter(s, "scan")
    PROVE  /\ call' \in [Slots -> Calls] /\ Spares(s)
           /\ call'[s].batch = {} /\ call'[s].pc \in {"list", "claim", "scan"}
<1>1. PICK pc \in {"list", "claim", "scan"} : call' = [call EXCEPT ![s] = [Idle EXCEPT !.pc = pc]]
  BY DEF Enter
<1>2. [Idle EXCEPT !.pc = pc] \in Calls
  BY IdleTyped DEF Calls
<1>3. [Idle EXCEPT !.pc = pc].batch = {} /\ [Idle EXCEPT !.pc = pc].pc = pc
  BY DEF Idle
<1> QED BY <1>1, <1>2, <1>3 DEF Typed, Spares

LEMMA GotoCall ==
    ASSUME Typed, NEW s \in Slots, NEW pc \in {"claim", "has", "list"}, Goto(s, pc)
    PROVE  /\ call' \in [Slots -> Calls] /\ Spares(s)
           /\ call'[s].batch = call[s].batch /\ call'[s].tries = call[s].tries
           /\ call'[s].pc = pc
BY ZenonT(30) DEF Typed, Goto, Calls, Spares

LEMMA FanOutCall ==
    ASSUME Typed, NEW s \in Slots, NEW users \in SUBSET Users, FanOut(s, users)
    PROVE  /\ call' \in [Slots -> Calls] /\ Spares(s)
           /\ call'[s].batch = call[s].batch /\ call'[s].tries = call[s].tries
           /\ call'[s].pc \in {"claim", "fanout"}
<1>1. PICK pc \in {"claim", "fanout"} :
        call' = [call EXCEPT ![s].pc = pc, ![s].todo = users]
  BY DEF FanOut
<1>2. call' = [call EXCEPT ![s] = [call[s] EXCEPT !.pc = pc, !.todo = users]]
  BY <1>1 DEF Typed
<1>3. call[s] \in Calls
  BY DEF Typed
<1>4. [call[s] EXCEPT !.pc = pc, !.todo = users] \in Calls
  BY <1>3 DEF Calls
<1> QED BY <1>2, <1>3, <1>4 DEF Typed, Spares, Calls

LEMMA RelayCall ==
    ASSUME Typed, NEW s \in Slots, NEW batch \in SUBSET Users, NEW tries \in [Users -> Nat],
           NEW full \in BOOLEAN, Relay(s, batch, tries, full)
    PROVE  /\ call' \in [Slots -> Calls] /\ Spares(s)
           /\ call'[s].batch = batch
           /\ batch # {} => call'[s].tries = tries
           /\ call'[s].pc \in {"relay", "claim", "idle"}
<1>1. call[s] \in Calls
  BY DEF Typed
<1>2. PICK r : call' = [call EXCEPT ![s] = r] /\ r \in Calls /\ r.batch = batch
               /\ (batch # {} => r.tries = tries) /\ r.pc \in {"relay", "claim", "idle"}
  <2>1. CASE batch # {}
    <3> DEFINE r == [Idle EXCEPT !.pc = "relay", !.tick = call[s].tick,
                                 !.batch = batch, !.tries = tries, !.full = full]
    <3>1. r \in Calls
      BY <1>1, IdleTyped DEF Calls
    <3>2. r.batch = batch /\ r.tries = tries /\ r.pc = "relay"
      BY DEF Idle
    <3>3. call' = [call EXCEPT ![s] = r]
      BY <2>1 DEF Relay
    <3> QED BY <3>1, <3>2, <3>3
  <2>2. CASE batch = {} /\ call[s].tick /\ full
    <3> DEFINE r == [Idle EXCEPT !.pc = "claim", !.tick = TRUE]
    <3>1. r \in Calls
      BY IdleTyped DEF Calls
    <3>2. r.batch = {} /\ r.pc = "claim"
      BY DEF Idle
    <3>3. call' = [call EXCEPT ![s] = r]
      BY <2>2 DEF Relay
    <3> QED BY <2>2, <3>1, <3>2, <3>3
  <2>3. CASE batch = {} /\ ~ (call[s].tick /\ full)
    <3>1. Idle.batch = {} /\ Idle.pc = "idle"
      BY DEF Idle
    <3>2. call' = [call EXCEPT ![s] = Idle]
      BY <2>3 DEF Relay
    <3> QED BY <2>3, <3>1, <3>2, IdleTyped
  <2> QED BY <2>1, <2>2, <2>3
<1> QED BY <1>2 DEF Typed, Spares

LEMMA WebhookCall ==
    ASSUME Typed, NEW s \in Slots, NEW e \in Endpoints, CallWebhook(s, e)
    PROVE  /\ call' \in [Slots -> Calls] /\ Spares(s)
           /\ call'[s].batch = call[s].batch /\ call'[s].tries = call[s].tries
           /\ call'[s].who = call[s].who
           /\ \/ call'[s].pc = "hooks" /\ call'[s].left = call[s].left \ {e}
              \/ call'[s].pc = "threw"
<1>1. call[s] \in Calls /\ call[s].pc = "hooks"
  BY DEF Typed, CallWebhook
<1>2. CASE call' = [call EXCEPT ![s].left = @ \ {e}]
  <2>1. call' = [call EXCEPT ![s] = [call[s] EXCEPT !.left = call[s].left \ {e}]]
    BY <1>2 DEF Typed
  <2> QED BY <1>1, <2>1 DEF Typed, Spares, Calls
<1>3. CASE call' = [call EXCEPT ![s].pc = "threw", ![s].left = {}]
  <2>1. call' = [call EXCEPT ![s] = [call[s] EXCEPT !.pc = "threw", !.left = {}]]
    BY <1>3 DEF Typed
  <2>2. [call[s] EXCEPT !.pc = "threw", !.left = {}] \in Calls
    BY <1>1 DEF Calls
  <2> QED BY <1>1, <2>1, <2>2 DEF Typed, Spares, Calls
<1> QED BY <1>2, <1>3 DEF CallWebhook

LEMMA FeedCall ==
    ASSUME Typed, NEW s \in Slots, NEW u \in Users, AppendFeed(s, u)
    PROVE  /\ call' \in [Slots -> Calls] /\ Spares(s)
           /\ call'[s].batch = call[s].batch /\ call'[s].tries = call[s].tries
           /\ call'[s].pc = "hooks" /\ call'[s].who = u /\ call'[s].left = Hooks[u]
<1>1. call[s] \in Calls
  BY DEF Typed
<1>2. Hooks[u] \subseteq Endpoints
  BY DEF Endpoints
<1>3. call' = [call EXCEPT ![s] = [call[s] EXCEPT !.pc = "hooks", !.who = u, !.left = Hooks[u]]]
  BY DEF AppendFeed, Typed
<1>4. [call[s] EXCEPT !.pc = "hooks", !.who = u, !.left = Hooks[u]] \in Calls
  BY <1>1, <1>2 DEF Calls
<1> QED BY <1>1, <1>3, <1>4 DEF Typed, Spares, Calls

LEMMA StartCall ==
    ASSUME Typed, NEW s \in Slots,
           \/ Tick(s)
           \/ \E u \in Users : SubscribeRead(s, u)
           \/ SubscribeWrite(s) /\ ~ call[s].ended
    PROVE  /\ call' \in [Slots -> Calls] /\ Spares(s)
           /\ call'[s].batch = {} /\ call'[s].pc \in {"claim", "subscribe", "idle"}
           /\ call'[s].pc = "subscribe" => call'[s].who \in Users
<1>1. CASE Tick(s)
  <2> DEFINE r == [Idle EXCEPT !.pc = "claim", !.tick = TRUE]
  <2>1. r \in Calls /\ r.batch = {} /\ r.pc = "claim"
    BY IdleTyped DEF Idle, Calls
  <2>2. call' = [call EXCEPT ![s] = r]
    BY <1>1 DEF Tick
  <2> QED BY <2>1, <2>2 DEF Typed, Spares
<1>2. ASSUME NEW u \in Users, SubscribeRead(s, u)
      PROVE  /\ call' \in [Slots -> Calls] /\ Spares(s)
             /\ call'[s].batch = {} /\ call'[s].pc = "subscribe" /\ call'[s].who = u
  <2> DEFINE r == [Idle EXCEPT !.pc = "subscribe", !.who = u, !.ended = (run # "running")]
  <2>1. r \in Calls
    BY IdleTyped DEF Calls
  <2>2. r.batch = {} /\ r.pc = "subscribe" /\ r.who = u
    BY DEF Idle
  <2>3. call' = [call EXCEPT ![s] = r]
    BY <1>2 DEF SubscribeRead
  <2> QED BY <2>1, <2>2, <2>3 DEF Typed, Spares
<1>3. CASE SubscribeWrite(s) /\ ~ call[s].ended
  <2>1. Idle.batch = {} /\ Idle.pc = "idle"
    BY DEF Idle
  <2> QED BY <1>3, <2>1, IdleTyped DEF SubscribeWrite, Typed, Spares
<1> QED BY <1>1, <1>2, <1>3

-----------------------------------------------------------------------------
(* The inductive invariant.                                                *)

\* The row in delivery is one of the call's batch; a subscriber is a user.
Working ==
    \A s \in Slots :
        /\ call[s].pc \in {"hooks", "threw"} => call[s].who \in call[s].batch
        /\ call[s].pc = "subscribe" => call[s].who \in Users

\* A row in a batch is leased and its lease runs, unless it was outlived.
Leases ==
    \A u \in Users \ outlived : \A s \in Slots : u \in call[s].batch =>
        /\ row[u].status = "sending" /\ ~ row[u].ripe
        /\ \A t \in Slots : u \in call[t].batch => s = t

\* The attempts a relay knows are fewer than those counted in the row.
Budgets ==
    /\ \A s \in Slots : \A u \in call[s].batch :
         row[u].status # "none" /\ call[s].tries[u] < row[u].attempts
    /\ DeadAfterBudget

\* What a delivery has left behind it is delivered.
Deliveries ==
    /\ \A s \in Slots : call[s].pc \in {"hooks", "threw"} => call[s].who \in feed
    /\ \A s \in Slots : call[s].pc = "hooks" =>
         Hooks[call[s].who] \subseteq received[call[s].who] \cup call[s].left
    /\ SentIsDelivered

OutboxInv == Typed /\ Working /\ Leases /\ Budgets /\ Deliveries

LEMMA InitInv == ASSUME OutboxConstants, Init PROVE OutboxInv
<1>1. Idle.pc = "idle" /\ Idle.batch = {}
  BY DEF Idle
<1>2. Typed
  BY IdleTyped DEF Init, Typed, Rows
<1> QED BY <1>1, <1>2 DEF Init, OutboxInv, Working, Leases, Budgets, Deliveries,
                          DeadAfterBudget, SentIsDelivered

-----------------------------------------------------------------------------
(* Its preservation, by the shape of the step.                             *)

Untouched == row' = row /\ feed' = feed /\ received' = received

\* A step of a call that has nothing in delivery afterwards.
Restful(s) ==
    /\ Untouched /\ outlived' = outlived
    /\ call' \in [Slots -> Calls] /\ Spares(s)
    /\ \/ call'[s].batch = {}
       \/ call'[s].batch = call[s].batch /\ call'[s].tries = call[s].tries
    /\ call'[s].pc \notin {"hooks", "threw"}
    /\ call'[s].pc = "subscribe" => call'[s].who \in Users
    /\ subs' \subseteq Users

LEMMA RestfulKeeps ==
    ASSUME OutboxInv, NEW s \in Slots, Restful(s)
    PROVE  OutboxInv'
<1> USE DEF OutboxInv, Restful, Untouched, Spares
<1>1. Typed'
  BY DEF Typed
<1>2. Working'
  BY DEF Working
<1>3. \A t \in Slots : call'[t].batch \subseteq call[t].batch
  OBVIOUS
<1>4. Leases'
  BY <1>3 DEF Leases
<1>5. Budgets'
  BY DEF Budgets, DeadAfterBudget
<1>6. Deliveries'
  BY DEF Deliveries, SentIsDelivered
<1> QED BY <1>1, <1>2, <1>4, <1>5, <1>6

LEMMA SameKeeps ==
    ASSUME OutboxInv, Untouched, call' = call, outlived' = outlived, subs' \subseteq Users
    PROVE  OutboxInv'
BY DEF OutboxInv, Untouched, Typed, Working, Leases, Budgets, Deliveries, DeadAfterBudget,
       SentIsDelivered

LEMMA EnqueueKeeps ==
    ASSUME OutboxInv, NEW s \in Slots, NEW u \in Users, Enqueue(s, u)
    PROVE  OutboxInv'
<1>1. /\ feed' = feed /\ received' = received /\ outlived' = outlived /\ subs' = subs
      /\ call[s].pc = "fanout" /\ u \in call[s].todo /\ FanOut(s, call[s].todo \ {u})
  BY DEF Enqueue, bookkeeping
<1>2. /\ call' \in [Slots -> Calls] /\ Spares(s)
      /\ call'[s].batch = call[s].batch /\ call'[s].tries = call[s].tries
      /\ call'[s].pc \in {"claim", "fanout"}
  <2>1. call[s].todo \ {u} \in SUBSET Users
    BY DEF OutboxInv, Typed, Calls
  <2> QED BY <1>1, <2>1, FanOutCall DEF OutboxInv
<1>3. CASE HasRow(u)
  <2>1. Restful(s)
    BY <1>1, <1>2, <1>3 DEF Enqueue, Restful, Untouched, OutboxInv, Typed
  <2> QED BY <2>1, RestfulKeeps
<1>4. CASE ~ HasRow(u)
  <2>1. row' = [row EXCEPT ![u] = [status |-> "pending", attempts |-> 0, ripe |-> TRUE]]
    BY <1>4 DEF Enqueue
  <2>2. row[u].status = "none" /\ row'[u].status = "pending"
    BY <1>4, <2>1 DEF HasRow, OutboxInv, Typed
  <2>3. \A v \in Users \ {u} : row'[v] = row[v]
    BY <2>1 DEF OutboxInv, Typed
  <2>4. Typed'
    BY <1>1, <1>2, <2>1 DEF OutboxInv, Typed, Rows
  <2>5. \A t \in Slots : call'[t].batch = call[t].batch /\ call'[t].tries = call[t].tries
    BY <1>2 DEF Spares
  <2>6. \A t \in Slots : u \notin call[t].batch
    BY <2>2 DEF OutboxInv, Budgets
  <2>7. Working'
    BY <1>2 DEF OutboxInv, Working, Spares
  <2>8. Leases'
    BY <1>1, <2>3, <2>5, <2>6 DEF OutboxInv, Leases
  <2>9. Budgets'
    <3>1. \A t \in Slots : call[t].batch \subseteq Users
      BY DEF OutboxInv, Typed, Calls
    <3> QED BY <2>2, <2>3, <2>5, <2>6, <3>1 DEF OutboxInv, Budgets, DeadAfterBudget
  <2>10. Deliveries'
    BY <1>1, <1>2, <2>2, <2>3 DEF OutboxInv, Deliveries, SentIsDelivered, Spares
  <2> QED BY <2>4, <2>7, <2>8, <2>9, <2>10 DEF OutboxInv
<1> QED BY <1>3, <1>4

LEMMA ClaimKeeps ==
    ASSUME OutboxInv, NEW s \in Slots, Claim(s)
    PROVE  OutboxInv'
<1>1. PICK leased \in SUBSET {u \in Users : Claimable(u)} :
        /\ row' = [u \in Users |->
                     IF u \in leased
                     THEN [status |-> "sending", attempts |-> row[u].attempts + 1, ripe |-> FALSE]
                     ELSE row[u]]
        /\ Relay(s, leased, [u \in Users |-> IF u \in leased THEN row[u].attempts ELSE 0],
                 Cardinality(leased) = Batch)
  BY DEF Claim
<1> DEFINE tries == [u \in Users |-> IF u \in leased THEN row[u].attempts ELSE 0]
<1>2. \A u \in Users : row[u].attempts \in Nat
  BY DEF OutboxInv, Typed, Rows
<1>3. tries \in [Users -> Nat]
  BY <1>2
<1>4. /\ call' \in [Slots -> Calls] /\ Spares(s)
      /\ call'[s].batch = leased
      /\ leased # {} => call'[s].tries = tries
      /\ call'[s].pc \in {"relay", "claim", "idle"}
  <2>1. leased \in SUBSET Users
    OBVIOUS
  <2>2. (Cardinality(leased) = Batch) \in BOOLEAN
    OBVIOUS
  <2> HIDE DEF tries
  <2>3. Relay(s, leased, tries, Cardinality(leased) = Batch)
    BY <1>1 DEF tries
  <2> QED BY <1>3, <2>1, <2>2, <2>3, RelayCall DEF OutboxInv
<1>5. feed' = feed /\ received' = received /\ outlived' = outlived /\ subs' = subs
  BY DEF Claim, bookkeeping
<1>6. \A u \in leased : row'[u].status = "sending" /\ row'[u].attempts = row[u].attempts + 1
                        /\ ~ row'[u].ripe
  BY <1>1
<1>7. \A u \in Users \ leased : row'[u] = row[u]
  BY <1>1
<1>8. Typed'
  <2>1. row' \in [Users -> Rows]
    BY <1>1, <1>2 DEF OutboxInv, Typed, Rows
  <2> QED BY <1>4, <1>5, <2>1 DEF OutboxInv, Typed
<1>9. Working'
  BY <1>4 DEF OutboxInv, Working, Spares
<1>10. \A u \in Users \ outlived : \A t \in Slots : u \in call[t].batch => u \notin leased
  BY DEF OutboxInv, Leases, Claimable
<1>11. Leases'
  BY <1>4, <1>5, <1>6, <1>7, <1>10 DEF OutboxInv, Leases, Spares
<1>12. Budgets'
  <2>1. DeadAfterBudget'
    BY <1>6, <1>7 DEF OutboxInv, Budgets, DeadAfterBudget
  <2>2. ASSUME NEW t \in Slots, NEW u \in call'[t].batch
        PROVE  row'[u].status # "none" /\ call'[t].tries[u] < row'[u].attempts
    <3>1. u \in Users
      BY <1>4 DEF Calls
    <3>2. CASE t = s
      <4>1. u \in leased /\ call'[s].tries = tries
        BY <1>4, <2>2, <3>2
      <4>2. tries[u] = row[u].attempts
        BY <3>1, <4>1
      <4> HIDE DEF tries
      <4> QED BY <1>2, <1>6, <3>1, <3>2, <4>1, <4>2
    <3>3. CASE t # s
      <4>1. call'[t] = call[t]
        BY <1>4, <3>3 DEF Spares
      <4>2. row[u].status # "none" /\ call[t].tries[u] < row[u].attempts
        BY <2>2, <4>1 DEF OutboxInv, Budgets
      <4>3. call[t].tries[u] \in Nat
        BY <3>1 DEF OutboxInv, Typed, Calls
      <4>4. CASE u \in leased
        BY <1>2, <1>6, <3>1, <4>1, <4>2, <4>3, <4>4
      <4>5. CASE u \notin leased
        BY <1>7, <3>1, <4>1, <4>2, <4>5
      <4> QED BY <4>4, <4>5
    <3> QED BY <3>2, <3>3
  <2> QED BY <2>1, <2>2 DEF Budgets
<1>13. Deliveries'
  BY <1>4, <1>5, <1>6, <1>7 DEF OutboxInv, Deliveries, SentIsDelivered, Spares
<1> QED BY <1>8, <1>9, <1>11, <1>12, <1>13 DEF OutboxInv

LEMMA AppendFeedKeeps ==
    ASSUME OutboxInv, NEW s \in Slots, NEW u \in Users, AppendFeed(s, u)
    PROVE  OutboxInv'
<1>1. /\ call' \in [Slots -> Calls] /\ Spares(s)
      /\ call'[s].batch = call[s].batch /\ call'[s].tries = call[s].tries
      /\ call'[s].pc = "hooks" /\ call'[s].who = u /\ call'[s].left = Hooks[u]
  BY FeedCall DEF OutboxInv
<1>2. /\ row' = row /\ received' = received /\ outlived' = outlived /\ subs' = subs
      /\ feed' = feed \cup {u} /\ u \in call[s].batch
  BY DEF AppendFeed, bookkeeping
<1>3. Typed'
  BY <1>1, <1>2 DEF OutboxInv, Typed
<1>4. \A t \in Slots : call'[t].batch = call[t].batch /\ call'[t].tries = call[t].tries
  BY <1>1 DEF Spares
<1>5. Working'
  BY <1>1, <1>2 DEF OutboxInv, Working, Spares
<1>6. Leases'
  BY <1>2, <1>4 DEF OutboxInv, Leases
<1>7. Budgets'
  BY <1>2, <1>4 DEF OutboxInv, Budgets, DeadAfterBudget
<1>8. Deliveries'
  BY <1>1, <1>2 DEF OutboxInv, Deliveries, SentIsDelivered, Spares
<1> QED BY <1>3, <1>5, <1>6, <1>7, <1>8 DEF OutboxInv

LEMMA CallWebhookKeeps ==
    ASSUME OutboxInv, NEW s \in Slots, NEW e \in Endpoints, CallWebhook(s, e)
    PROVE  OutboxInv'
<1>1. /\ call' \in [Slots -> Calls] /\ Spares(s)
      /\ call'[s].batch = call[s].batch /\ call'[s].tries = call[s].tries
      /\ call'[s].who = call[s].who
      /\ \/ call'[s].pc = "hooks" /\ call'[s].left = call[s].left \ {e}
         \/ call'[s].pc = "threw"
  BY WebhookCall DEF OutboxInv
<1>2. row' = row /\ feed' = feed /\ outlived' = outlived /\ subs' = subs /\ call[s].pc = "hooks"
  BY DEF CallWebhook, bookkeeping
<1>3. PICK got \in {{}, {e}} :
        /\ received' = [received EXCEPT ![call[s].who] = @ \cup got]
        /\ call'[s].pc = "hooks" => got = {e}
  <2>1. CASE call' = [call EXCEPT ![s].left = @ \ {e}]
    <3>1. call'[s].pc = "hooks"
      BY <1>2, <2>1 DEF OutboxInv, Typed, Calls
    <3>2. "hooks" # "threw"
      OBVIOUS
    <3>3. call' # [call EXCEPT ![s].pc = "threw", ![s].left = {}]
      <4>1. call[s] \in Calls
        BY DEF OutboxInv, Typed
      <4>2. [call[s] EXCEPT !.pc = "threw", !.left = {}].pc = "threw"
        BY <4>1 DEF Calls
      <4>3. [call EXCEPT ![s].pc = "threw", ![s].left = {}]
              = [call EXCEPT ![s] = [call[s] EXCEPT !.pc = "threw", !.left = {}]]
        BY DEF OutboxInv, Typed
      <4> QED BY <3>1, <4>2, <4>3 DEF OutboxInv, Typed
    <3> QED BY <3>3 DEF CallWebhook
  <2>2. CASE call' # [call EXCEPT ![s].left = @ \ {e}]
    <3>1. call' = [call EXCEPT ![s] = [call[s] EXCEPT !.pc = "threw", !.left = {}]]
      BY <2>2 DEF CallWebhook, OutboxInv, Typed
    <3>2. [call[s] EXCEPT !.pc = "threw", !.left = {}].pc = "threw"
      BY DEF OutboxInv, Typed, Calls
    <3>3. call'[s].pc = "threw"
      BY <3>1, <3>2 DEF OutboxInv, Typed
    <3>4. PICK got \in {{}, {e}} : received' = [received EXCEPT ![call[s].who] = @ \cup got]
      BY <2>2 DEF CallWebhook
    <3> QED BY <3>3, <3>4
  <2> QED BY <2>1, <2>2
<1>4. \A u \in Users : received[u] \subseteq received'[u]
  BY <1>3 DEF OutboxInv, Typed
<1>5. Typed'
  <2>1. received' \in [Users -> SUBSET Endpoints]
    BY <1>3 DEF OutboxInv, Typed
  <2> QED BY <1>1, <1>2, <2>1 DEF OutboxInv, Typed
<1>6. \A t \in Slots : /\ call'[t].batch = call[t].batch /\ call'[t].tries = call[t].tries
                       /\ call'[t].who = call[t].who
                       /\ call'[t].pc \in {"hooks", "threw"} => call[t].pc \in {"hooks", "threw"}
                       /\ call'[t].pc = "subscribe" => call[t].pc = "subscribe"
  BY <1>1, <1>2 DEF Spares
<1>7. Working'
  BY <1>6 DEF OutboxInv, Working
<1>8. Leases'
  BY <1>2, <1>6 DEF OutboxInv, Leases
<1>9. Budgets'
  BY <1>2, <1>6 DEF OutboxInv, Budgets, DeadAfterBudget
<1>10. \A t \in Slots : call[t].pc = "hooks" => call[t].who \in Users
  BY DEF OutboxInv, Working, Typed, Calls
<1>11. Deliveries'
  <2>1. SentIsDelivered'
    BY <1>2, <1>4 DEF OutboxInv, Deliveries, SentIsDelivered
  <2>2. ASSUME NEW t \in Slots, call'[t].pc = "hooks"
        PROVE  Hooks[call'[t].who] \subseteq received'[call'[t].who] \cup call'[t].left
    <3>1. CASE t = s
      <4>1. call'[s].left = call[s].left \ {e} /\ got = {e}
        BY <1>1, <1>3, <2>2, <3>1
      <4>2. received'[call[s].who] = received[call[s].who] \cup {e}
        BY <1>2, <1>3, <1>10, <4>1 DEF OutboxInv, Typed
      <4> QED BY <1>1, <1>2, <3>1, <4>1, <4>2 DEF OutboxInv, Deliveries
    <3>2. CASE t # s
      BY <1>1, <1>4, <1>10, <2>2, <3>2 DEF OutboxInv, Deliveries, Spares
    <3> QED BY <3>1, <3>2
  <2>3. \A t \in Slots : call'[t].pc \in {"hooks", "threw"} => call'[t].who \in feed'
    BY <1>2, <1>6 DEF OutboxInv, Deliveries
  <2> QED BY <2>1, <2>2, <2>3 DEF Deliveries
<1> QED BY <1>5, <1>7, <1>8, <1>9, <1>11 DEF OutboxInv

\* The delivery of a row ends: its call goes on with the rest of the batch.
LEMMA SettleKeeps ==
    ASSUME OutboxInv, NEW s \in Slots, NEW status \in {"sent", "failed", "pending"},
           call[s].pc \in {"hooks", "threw"}, Settle(s, status),
           status = "sent" => call[s].pc = "hooks" /\ call[s].left = {},
           status = "failed" => Exhausted(s)
    PROVE  OutboxInv'
<1>1. PICK who \in Users : who = call[s].who /\ who \in call[s].batch
  BY DEF OutboxInv, Working, Typed, Calls
<1>2. PICK tries \in [Users -> Nat], rest \in SUBSET Users, full \in BOOLEAN :
        /\ tries = [call[s].tries EXCEPT ![who] = 0]
        /\ rest = call[s].batch \ {who}
        /\ Relay(s, rest, tries, full)
  <2>1. [call[s].tries EXCEPT ![who] = 0] \in [Users -> Nat]
    BY DEF OutboxInv, Typed, Calls
  <2>2. call[s].batch \ {who} \in SUBSET Users /\ call[s].full \in BOOLEAN
    BY DEF OutboxInv, Typed, Calls
  <2> QED BY <1>1, <2>1, <2>2 DEF Settle
<1>3. /\ call' \in [Slots -> Calls] /\ Spares(s)
      /\ call'[s].batch = call[s].batch \ {who}
      /\ call[s].batch \ {who} # {} => call'[s].tries = tries
      /\ call'[s].pc \in {"relay", "claim", "idle"}
  <2>1. Relay(s, rest, tries, full)
    BY <1>2
  <2>2. /\ call' \in [Slots -> Calls] /\ Spares(s)
        /\ call'[s].batch = rest
        /\ rest # {} => call'[s].tries = tries
        /\ call'[s].pc \in {"relay", "claim", "idle"}
    BY ONLY OutboxInv, <2>1, RelayCall DEF OutboxInv
  <2> QED BY <1>2, <2>2
<1>4. feed' = feed /\ received' = received /\ outlived' = outlived /\ subs' = subs
  BY DEF Settle, bookkeeping
<1>5. row' = [row EXCEPT ![who] = [row[who] EXCEPT !.status = status, !.ripe = (status = "failed")]]
  BY <1>1 DEF Settle, OutboxInv, Typed
<1>6. row[who] \in Rows
  BY DEF OutboxInv, Typed
<1>7. row'[who].status = status /\ row'[who].attempts = row[who].attempts
  BY <1>5, <1>6 DEF OutboxInv, Typed, Rows
<1>8. \A u \in Users \ {who} : row'[u] = row[u]
  BY <1>5 DEF OutboxInv, Typed
<1>9. Typed'
  <2>1. [row[who] EXCEPT !.status = status, !.ripe = (status = "failed")] \in Rows
    BY <1>6 DEF Rows
  <2> QED BY <1>3, <1>4, <1>5, <2>1 DEF OutboxInv, Typed
<1>10. Working'
  BY <1>3 DEF OutboxInv, Working, Spares
<1>11. Leases'
  <2>1. ASSUME NEW u \in Users \ outlived', NEW t \in Slots, u \in call'[t].batch
        PROVE  /\ row'[u].status = "sending" /\ ~ row'[u].ripe
               /\ \A r \in Slots : u \in call'[r].batch => t = r
    <3>1. \A r \in Slots : u \in call'[r].batch => u \in call[r].batch
      BY <1>3 DEF Spares
    <3>2. u # who
      <4>1. CASE u = who
        <5>1. t = s
          BY <1>1, <1>4, <2>1, <3>1, <4>1 DEF OutboxInv, Leases
        <5> QED BY <1>3, <2>1, <4>1, <5>1
      <4> QED BY <4>1
    <3> QED BY <1>4, <1>8, <2>1, <3>1, <3>2 DEF OutboxInv, Leases
  <2> QED BY <2>1 DEF Leases
<1>12. Budgets'
  <2>1. row[who].status # "none" /\ call[s].tries[who] < row[who].attempts
    BY <1>1 DEF OutboxInv, Budgets
  <2>2. row[who].attempts \in Nat /\ call[s].tries[who] \in Nat
    BY <1>6 DEF Rows, OutboxInv, Typed, Calls
  <2>3. DeadAfterBudget'
    <3>1. status = "failed" => row[who].attempts >= MaxAttempts
      BY <1>1, <2>1, <2>2, OutboxConstants DEF Exhausted
    <3> QED BY <1>7, <1>8, <3>1 DEF OutboxInv, Budgets, DeadAfterBudget
  <2>4. ASSUME NEW t \in Slots, NEW u \in call'[t].batch
        PROVE  row'[u].status # "none" /\ call'[t].tries[u] < row'[u].attempts
    <3>1. u \in Users
      BY <1>3 DEF Calls
    <3>2. u \in call[t].batch /\ call'[t].tries[u] = call[t].tries[u]
      <4>1. CASE t = s
        <5>1. call'[s].tries = tries /\ u # who
          BY <1>3, <2>4, <4>1
        <5>2. tries[u] = call[s].tries[u]
          BY <1>2, <3>1, <5>1 DEF OutboxInv, Typed, Calls
        <5> QED BY <1>3, <2>4, <4>1, <5>1, <5>2
      <4>2. CASE t # s
        BY <1>3, <2>4, <4>2 DEF Spares
      <4> QED BY <4>1, <4>2
    <3>3. row[u].status # "none" /\ call[t].tries[u] < row[u].attempts
      BY <3>2 DEF OutboxInv, Budgets
    <3> QED BY <1>7, <1>8, <3>1, <3>2, <3>3
  <2> QED BY <2>3, <2>4 DEF Budgets
<1>13. Deliveries'
  <2>1. status = "sent" => who \in feed /\ Hooks[who] \subseteq received[who]
    BY <1>1 DEF OutboxInv, Deliveries
  <2>2. SentIsDelivered'
    BY <1>4, <1>7, <1>8, <2>1 DEF OutboxInv, Deliveries, SentIsDelivered
  <2> QED BY <1>3, <1>4, <2>2 DEF OutboxInv, Deliveries, Spares
<1> QED BY <1>9, <1>10, <1>11, <1>12, <1>13 DEF OutboxInv

LEMMA ElapseKeeps ==
    ASSUME OutboxInv, NEW u \in Users, Elapse(u)
    PROVE  OutboxInv'
<1>1. /\ feed' = feed /\ received' = received /\ subs' = subs /\ call' = call
      /\ row' = [row EXCEPT ![u].ripe = TRUE]
      /\ outlived' = outlived \/ outlived' = outlived \cup {u}
      /\ Held(u) => u \in outlived'
  BY DEF Elapse
<1>2. \A v \in Users : row'[v].status = row[v].status /\ row'[v].attempts = row[v].attempts
  BY <1>1 DEF OutboxInv, Typed, Rows
<1>3. \A v \in Users \ {u} : row'[v] = row[v]
  BY <1>1 DEF OutboxInv, Typed
<1>4. Typed'
  BY <1>1 DEF OutboxInv, Typed, Rows
<1>5. Working'
  BY <1>1 DEF OutboxInv, Working
<1>6. Leases'
  BY <1>1, <1>3 DEF OutboxInv, Leases, Held
<1>7. Budgets'
  <2>1. \A s \in Slots : call[s].batch \subseteq Users
    BY DEF OutboxInv, Typed, Calls
  <2> QED BY <1>1, <1>2, <2>1 DEF OutboxInv, Budgets, DeadAfterBudget
<1>8. Deliveries'
  BY <1>1, <1>2 DEF OutboxInv, Deliveries, SentIsDelivered
<1> QED BY <1>4, <1>5, <1>6, <1>7, <1>8 DEF OutboxInv

LEMMA CrashKeeps ==
    ASSUME OutboxInv, Crash
    PROVE  OutboxInv'
<1>1. /\ row' = row /\ feed' = feed /\ received' = received /\ subs' = subs
      /\ outlived' = outlived /\ call' = [s \in Slots |-> Idle]
  BY DEF Crash
<1>2. Idle.pc = "idle" /\ Idle.batch = {}
  BY DEF Idle
<1>3. Typed'
  BY <1>1, IdleTyped DEF OutboxInv, Typed
<1> QED BY <1>1, <1>2, <1>3 DEF OutboxInv, Working, Leases, Budgets, Deliveries,
                               DeadAfterBudget, SentIsDelivered

LEMMA RestfulSteps ==
    ASSUME OutboxInv, NEW s \in Slots,
           \/ OnTerminal(s) \/ Tick(s) \/ Reconcile(s)
           \/ ListSubscribers(s) \/ Scan(s) \/ HasOutbox(s) \/ SubscribeWrite(s)
           \/ \E u \in Users : SubscribeRead(s, u)
    PROVE  Restful(s)
<1> USE DEF OutboxInv
<1>1. CASE OnTerminal(s)
  BY <1>1, EnterCall DEF OnTerminal, Restful, Untouched, Typed
<1>2. CASE Tick(s)
  BY <1>2, StartCall DEF Tick, Restful, Untouched, Typed, bookkeeping
<1>3. CASE Reconcile(s)
  BY <1>3, EnterCall DEF Reconcile, Restful, Untouched, Typed
<1>4. CASE ListSubscribers(s)
  <2>1. FanOut(s, subs) /\ subs \in SUBSET Users
    BY <1>4 DEF ListSubscribers, Typed
  <2>2. /\ call' \in [Slots -> Calls] /\ Spares(s)
        /\ call'[s].batch = call[s].batch /\ call'[s].tries = call[s].tries
        /\ call'[s].pc \in {"claim", "fanout"}
    BY <2>1, FanOutCall
  <2> QED BY <1>4, <2>2 DEF ListSubscribers, Restful, Untouched, Typed, bookkeeping
<1>5. CASE Scan(s)
  BY <1>5, GotoCall DEF Scan, Restful, Untouched, Typed, bookkeeping
<1>6. CASE HasOutbox(s)
  BY <1>6, GotoCall DEF HasOutbox, Restful, Untouched, Typed, bookkeeping
<1>7. CASE SubscribeWrite(s)
  <2>1. subs' \subseteq Users
    BY <1>7 DEF SubscribeWrite, Typed, Working
  <2>2. CASE call[s].ended
    BY <1>7, <2>1, <2>2, EnterCall DEF SubscribeWrite, Restful, Untouched, Typed
  <2>3. CASE ~ call[s].ended
    BY <1>7, <2>1, <2>3, StartCall DEF SubscribeWrite, Restful, Untouched, Typed
  <2> QED BY <2>2, <2>3
<1>8. ASSUME NEW u \in Users, SubscribeRead(s, u) PROVE Restful(s)
  BY <1>8, StartCall DEF SubscribeRead, Restful, Untouched, Typed, bookkeeping
<1> QED BY <1>1, <1>2, <1>3, <1>4, <1>5, <1>6, <1>7, <1>8

LEMMA StepKeeps ==
    ASSUME OutboxInv, [Next]_vars
    PROVE  OutboxInv'
<1>1. CASE UNCHANGED vars
  BY <1>1, SameKeeps DEF vars, Untouched, OutboxInv, Typed
<1>2. CASE End
  BY <1>2, SameKeeps DEF End, Untouched, OutboxInv, Typed
<1>3. CASE Crash
  BY <1>3, CrashKeeps
<1>4. ASSUME NEW s \in Slots,
             \/ OnTerminal(s) \/ Tick(s) \/ Reconcile(s)
             \/ ListSubscribers(s) \/ Scan(s) \/ HasOutbox(s) \/ SubscribeWrite(s)
             \/ \E u \in Users : SubscribeRead(s, u)
      PROVE  OutboxInv'
  BY <1>4, RestfulSteps, RestfulKeeps
<1>5. ASSUME NEW s \in Slots, NEW u \in Users, Enqueue(s, u) \/ AppendFeed(s, u)
      PROVE  OutboxInv'
  BY <1>5, EnqueueKeeps, AppendFeedKeeps
<1>6. ASSUME NEW s \in Slots, NEW e \in Endpoints, CallWebhook(s, e)
      PROVE  OutboxInv'
  BY <1>6, CallWebhookKeeps
<1>7. ASSUME NEW s \in Slots, Claim(s)
      PROVE  OutboxInv'
  BY <1>7, ClaimKeeps
<1>8. ASSUME NEW s \in Slots, MarkSent(s)
      PROVE  OutboxInv'
  BY <1>8, SettleKeeps DEF MarkSent
<1>9. ASSUME NEW s \in Slots, Reschedule(s)
      PROVE  OutboxInv'
  <2>1. call[s].pc = "threw"
    BY <1>9 DEF Reschedule
  <2>2. CASE Exhausted(s)
    BY <1>9, <2>1, <2>2, SettleKeeps DEF Reschedule
  <2>3. CASE ~ Exhausted(s)
    BY <1>9, <2>1, <2>3, SettleKeeps DEF Reschedule
  <2> QED BY <2>2, <2>3
<1>10. ASSUME NEW u \in Users, Unsubscribe(u)
       PROVE  OutboxInv'
  BY <1>10, SameKeeps DEF Unsubscribe, Untouched, OutboxInv, Typed
<1>11. ASSUME NEW u \in Users, Elapse(u)
       PROVE  OutboxInv'
  BY <1>11, ElapseKeeps
<1> QED BY <1>1, <1>2, <1>3, <1>4, <1>5, <1>6, <1>7, <1>8, <1>9, <1>10, <1>11 DEF Next, Step

THEOREM OutboxInvariance == Spec => []OutboxInv
<1>1. Init => OutboxInv
  BY InitInv, OutboxConstants
<1> QED BY <1>1, StepKeeps, PTL DEF Spec

-----------------------------------------------------------------------------
\* The run, its subscribers, the outbox and every call stay well typed, for any
\* number of users, endpoints and calls in flight.
THEOREM OutboxTyping == Spec => []TypeOK
<1> DEFINE Rest == /\ run \in {"running", "ended", "told"} /\ booting \in BOOLEAN
                   /\ mishaps \in 0 .. MaxMishaps /\ crashed \in BOOLEAN /\ owed \subseteq Users
<1>1. Init => Rest
  <2>1. Init => mishaps \in 0 .. MaxMishaps
    BY OutboxConstants DEF Init
  <2>2. Init => /\ run \in {"running", "ended", "told"} /\ booting \in BOOLEAN
                /\ crashed \in BOOLEAN /\ owed \subseteq Users
    BY Zenon DEF Init
  <2> QED BY <2>1, <2>2
<1>2. OutboxInv /\ Rest /\ [Next]_vars => Rest'
  <2> SUFFICES ASSUME OutboxInv, Rest, [Next]_vars PROVE Rest'
    OBVIOUS
  <2>1. subs \subseteq Users
    BY DEF OutboxInv, Typed
  <2>2. CASE End \/ \E u \in Users : Unsubscribe(u)
    BY <2>1, <2>2, OutboxConstants DEF End, Unsubscribe, Mishap
  <2>3. CASE Crash \/ \E u \in Users : Elapse(u)
    <3>1. mishaps' \in 0 .. MaxMishaps
      BY <2>3, OutboxConstants DEF Crash, Elapse, Mishap
    <3>2. booting' \in BOOLEAN /\ crashed' \in BOOLEAN
      BY <2>3, Zenon DEF Crash, Elapse
    <3> QED BY <2>3, <3>1, <3>2 DEF Crash, Elapse
  <2>4. ASSUME NEW s \in Slots, OnTerminal(s) \/ Reconcile(s) PROVE Rest'
    BY <2>4 DEF OnTerminal, Reconcile
  <2>5. ASSUME NEW s \in Slots, SubscribeWrite(s) PROVE Rest'
    <3>1. call[s].who \in Users
      BY <2>5 DEF SubscribeWrite, OutboxInv, Working
    <3> QED BY <2>5, <3>1 DEF SubscribeWrite
  <2>6. CASE UNCHANGED <<run, booting, mishaps, crashed, owed>>
    BY <2>6
  <2>7. ASSUME NEW s \in Slots, \/ Tick(s) \/ ListSubscribers(s) \/ Scan(s) \/ HasOutbox(s)
                               \/ Claim(s) \/ MarkSent(s) \/ Reschedule(s)
        PROVE  Rest'
    <3>1. UNCHANGED bookkeeping
      BY <2>7, Zenon DEF Tick, ListSubscribers, Scan, HasOutbox, Claim, MarkSent, Reschedule, Settle
    <3> QED BY <2>6, <3>1 DEF bookkeeping
  <2>8. ASSUME NEW s \in Slots, NEW u \in Users,
               SubscribeRead(s, u) \/ Enqueue(s, u) \/ AppendFeed(s, u)
        PROVE  Rest'
    <3>1. UNCHANGED bookkeeping
      BY <2>8, Zenon DEF SubscribeRead, Enqueue, AppendFeed
    <3> QED BY <2>6, <3>1 DEF bookkeeping
  <2>9. ASSUME NEW s \in Slots, NEW e \in Endpoints, CallWebhook(s, e)
        PROVE  Rest'
    BY <2>6, <2>9, Zenon DEF CallWebhook, bookkeeping
  <2>10. CASE UNCHANGED vars
    BY <2>6, <2>10, Zenon DEF vars
  <2> HIDE DEF Rest
  <2> QED BY <2>2, <2>3, <2>4, <2>5, <2>7, <2>8, <2>9, <2>10, Zenon DEF Next, Step
<1>3. OutboxInv /\ Rest => TypeOK
  BY DEF OutboxInv, Typed, TypeOK
<1> HIDE DEF Rest
<1> QED BY <1>1, <1>2, <1>3, OutboxInvariance, PTL DEF Spec

\* For any number of users, relays, crashes and outlived leases: a row has two
\* relays only once a lease on it has run out under a live one
\* (claimNotificationOutbox).
THEOREM OneRelayPerLease == Spec => []LeaseExclusive
<1>1. OutboxInv => LeaseExclusive
  BY DEF OutboxInv, Leases, LeaseExclusive
<1> QED BY <1>1, OutboxInvariance, PTL

\* A row marked sent was delivered on every channel, even when its lease was
\* outlived and two relays worked on it (deliver, markNotificationOutboxSent).
THEOREM SentWasDelivered == Spec => []SentIsDelivered
<1>1. OutboxInv => SentIsDelivered
  BY DEF OutboxInv, Deliveries
<1> QED BY <1>1, OutboxInvariance, PTL

\* A row is dead-lettered only after at least notify_max_attempts attempts,
\* whichever relay gives it up (drainOnce, rescheduleNotificationOutbox).
THEOREM DeadUsedItsBudget == Spec => []DeadAfterBudget
<1>1. OutboxInv => DeadAfterBudget
  BY DEF OutboxInv, Budgets
<1> QED BY <1>1, OutboxInvariance, PTL

\* Sent and dead rows never change again, by no relay, subscriber or crash,
\* unless a lease on them was outlived.
THEOREM SettledForGood == Spec => SettledStays
<1>1. ASSUME OutboxInv, [Next]_vars, NEW u \in Users \ outlived, Settled(u)
      PROVE  row'[u] = row[u]
  <2>1. \A s \in Slots : u \notin call[s].batch
    BY <1>1 DEF OutboxInv, Leases, Settled
  <2>2. ~ Claimable(u) /\ HasRow(u)
    BY <1>1 DEF Settled, Claimable, HasRow
  <2>3. ASSUME NEW s \in Slots, NEW v \in Users, Enqueue(s, v) PROVE row'[u] = row[u]
    BY <1>1, <2>2, <2>3 DEF Enqueue, OutboxInv, Typed, HasRow
  <2>4. ASSUME NEW s \in Slots, Claim(s) PROVE row'[u] = row[u]
    BY <2>2, <2>4 DEF Claim
  <2>5. ASSUME NEW s \in Slots, MarkSent(s) \/ Reschedule(s) PROVE row'[u] = row[u]
    <3>1. call[s].who # u /\ call[s].pc \in {"hooks", "threw"}
      BY <1>1, <2>1, <2>5 DEF OutboxInv, Working, MarkSent, Reschedule
    <3> QED BY <1>1, <2>5, <3>1 DEF MarkSent, Reschedule, Settle, OutboxInv, Typed
  <2>6. ASSUME NEW v \in Users, Elapse(v) PROVE row'[u] = row[u]
    BY <1>1, <2>6 DEF Elapse, Settled, OutboxInv, Typed
  <2>7. \/ row' = row
        \/ \E s \in Slots : Claim(s) \/ MarkSent(s) \/ Reschedule(s) \/ \E v \in Users : Enqueue(s, v)
        \/ \E v \in Users : Elapse(v)
    BY <1>1 DEF Next, Step, vars, End, Crash, OnTerminal, Tick, Reconcile, ListSubscribers,
                Scan, HasOutbox, SubscribeWrite, SubscribeRead, AppendFeed, CallWebhook,
                Unsubscribe
  <2> QED BY <2>3, <2>4, <2>5, <2>6, <2>7
<1>2. OutboxInv /\ [Next]_vars => [\A u \in Users \ outlived : Settled(u) => row'[u] = row[u]]_vars
  BY <1>1
<1> QED BY <1>2, OutboxInvariance, PTL DEF Spec, SettledStays
=============================================================================
