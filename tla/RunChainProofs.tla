--------------------------- MODULE RunChainProofs ---------------------------
(***************************************************************************)
(* Proofs about the chain of appends of RunEvents (#withRunLock): until    *)
(* the executor leaves and the chain is forgotten, appends take turns, no  *)
(* number is taken twice, and the run's end is recorded.                   *)
(***************************************************************************)
EXTENDS RunEventsProofs

InFlight(w) == append[w].pc \in {"queued", "listed", "written"}
Numbered(w) == append[w].pc \in {"listed", "written"}

Kept == exec \notin {"ended", "lost"}

\* The calls in flight form one line, ranked from the one whose turn it is to
\* the tail, each waiting for the call one rank before it.
Ordered(rank) ==
    /\ rank \in [Writers -> Nat]
    /\ \A v \in Writers : InFlight(v) /\ append[v].after = None =>
         \A u \in Writers : InFlight(u) => rank[v] <= rank[u]
    /\ \A v, u \in Writers : InFlight(v) /\ append[v].after = u =>
         InFlight(u) /\ rank[v] = rank[u] + 1
    /\ \A u, v \in Writers : InFlight(u) /\ InFlight(v) /\ rank[u] = rank[v] => u = v
    /\ tail = None => \A v \in Writers : ~ InFlight(v)
    /\ tail # None => InFlight(tail) /\ \A u \in Writers : InFlight(u) => rank[u] <= rank[tail]
    /\ \A v \in Writers : Numbered(v) => append[v].after = None

Chained == Kept => \E rank : Ordered(rank)

CancelTyped ==
    cancel \in [Cancels -> {"new", "refused", "read", "signalled", "alone", "stopped", "done"}]

\* Until the executor leaves, the number an append holds is the journal's
\* length, and what it has written is there.
Lengths ==
    Kept => \A w \in Writers :
              /\ append[w].pc = "listed" => append[w].seq = Cardinality(log)
              /\ append[w].pc = "written" => RowOf(w) \in log

\* What an event of the executor's own says, the status says.
Fits(kind) == Agrees(kind) \/ swallowed \/ Overruled

\* The end of the run on its way into the journal.
Ending ==
    /\ exec \in {"closing", "ended"} => status \in TerminalStatuses \/ swallowed
    /\ exec \in {"starting", "emitting"} => append[Exec].kind \notin TerminalKinds
    /\ exec = "closing" =>
         /\ append[Exec].kind \in TerminalKinds
         /\ Fits(append[Exec].kind)
         /\ append[Exec].pc = "done" => \E r \in log : Terminal(r)
    /\ exec = "ended" => \E r \in log : Terminal(r) /\ (r.by = Exec => Fits(r.kind))

\* The executor's own terminal event is the last thing it appends.
OwnEnd ==
    \A r \in log :
        Terminal(r) /\ r.by = Exec =>
            \/ exec \in {"ended", "lost", "dead"}
            \/ /\ exec = "closing"
               /\ append[Exec].pc \in {"written", "done"}
               /\ append[Exec].kind = r.kind

\* Whoever is about to append has no append in flight.
Callers ==
    /\ exec \notin {"starting", "emitting", "closing", "ended", "lost", "dead"} => ~ InFlight(Exec)
    /\ \A c \in Cancels : cancel[c] # "done" => append[c].pc = "none"

LEMMA EnqueueOrders ==
    ASSUME RunConstants, JournalTyped, NEW rank, Ordered(rank),
           NEW w \in Writers, NEW kind \in Kinds, ~ InFlight(w), Enqueue(w, kind)
    PROVE  \E r : Ordered(r)'
<1> DEFINE top == IF tail = None THEN 0 ELSE rank[tail] + 1
<1>1. None \notin Writers
  BY DEF RunConstants
<1>2. rank \in [Writers -> Nat] /\ top \in Nat
  BY DEF Ordered, JournalTyped
<1>3. PICK r \in [Writers -> Nat] :
        r[w] = top /\ \A v \in Writers : v # w => r[v] = rank[v]
  <2>1. [rank EXCEPT ![w] = top] \in [Writers -> Nat]
    BY <1>2
  <2> QED BY <1>2, <2>1
<1>4. /\ append'[w].pc = "queued"
      /\ append'[w].after = tail
      /\ \A v \in Writers : v # w => append'[v] = append[v]
      /\ tail' = w
  BY DEF Enqueue, JournalTyped
<1>5. /\ InFlight(w)' /\ ~ Numbered(w)'
      /\ \A v \in Writers : v # w => (InFlight(v)' <=> InFlight(v)) /\ (Numbered(v)' <=> Numbered(v))
  BY <1>4 DEF InFlight, Numbered
<1>6. \A u \in Writers : InFlight(u) => u # w /\ rank[u] < top
  BY <1>2 DEF Ordered, JournalTyped
<1>7. ASSUME NEW v \in Writers, InFlight(v)', append'[v].after = None
      PROVE  \A u \in Writers : InFlight(u)' => r[v] <= r[u]
  <2>1. CASE v = w
    BY <1>2, <1>3, <1>4, <1>5, <1>7, <2>1 DEF Ordered
  <2>2. CASE v # w
    <3>1. InFlight(v) /\ append[v].after = None /\ r[v] = rank[v]
      BY <1>3, <1>4, <1>5, <1>7, <2>2
    <3>2. rank[v] \in Nat /\ rank[v] < top
      BY <1>2, <1>6, <3>1
    <3> QED BY <1>2, <1>3, <1>5, <3>1, <3>2 DEF Ordered
  <2> QED BY <2>1, <2>2
<1>8. ASSUME NEW v \in Writers, NEW u \in Writers, InFlight(v)', append'[v].after = u
      PROVE  InFlight(u)' /\ r[v] = r[u] + 1
  <2>1. CASE v = w
    <3>1. tail = u /\ tail # None
      BY <1>1, <1>4, <1>8, <2>1
    <3>2. InFlight(u) /\ u # w
      BY <1>6, <3>1 DEF Ordered
    <3> QED BY <1>3, <1>5, <2>1, <3>1, <3>2
  <2>2. CASE v # w
    <3>1. InFlight(v) /\ append[v].after = u
      BY <1>4, <1>5, <1>8, <2>2
    <3>2. InFlight(u) /\ rank[v] = rank[u] + 1
      BY <3>1 DEF Ordered
    <3> QED BY <1>3, <1>5, <1>6, <2>2, <3>2
  <2> QED BY <2>1, <2>2
<1>9. ASSUME NEW u \in Writers, NEW v \in Writers, InFlight(u)', InFlight(v)', r[u] = r[v]
      PROVE  u = v
  BY <1>2, <1>3, <1>5, <1>6, <1>9 DEF Ordered
<1>10. \A u \in Writers : InFlight(u)' => r[u] <= r[w]
  BY <1>2, <1>3, <1>5, <1>6
<1>11. \A v \in Writers : Numbered(v)' => append'[v].after = None
  BY <1>4, <1>5 DEF Ordered
<1>12. Ordered(r)'
  BY <1>1, <1>3, <1>4, <1>5, <1>7, <1>8, <1>9, <1>10, <1>11 DEF Ordered
<1> QED BY <1>12

\* When the first of the line settles, the second is first.
LEMMA SettleOrders ==
    ASSUME RunConstants, JournalTyped, NEW rank, Ordered(rank),
           NEW w \in Writers, NEW how \in {"done", "threw"},
           InFlight(w), append[w].after = None, Settle(w, how)
    PROVE  Ordered(rank)'
<1>1. None \notin Writers /\ rank \in [Writers -> Nat]
  BY DEF RunConstants, Ordered
<1>2. /\ ~ InFlight(w)' /\ ~ Numbered(w)'
      /\ \A v \in Writers : v # w =>
           /\ InFlight(v)' <=> InFlight(v)
           /\ Numbered(v)' <=> Numbered(v)
           /\ append'[v].after = IF append[v].after = w THEN None ELSE append[v].after
      /\ tail' = IF tail = w THEN None ELSE tail
  <2>1. append \in [Writers -> Calls] /\ append[w] \in Calls
    BY DEF JournalTyped
  <2>2. append'[w].pc = how
    BY <2>1 DEF Settle, Calls
  <2>3. ASSUME NEW v \in Writers, v # w
        PROVE  /\ append'[v].pc = append[v].pc
               /\ append'[v].after = IF append[v].after = w THEN None ELSE append[v].after
    <3>1. append[v] \in Calls
      BY <2>1
    <3>2. append'[v] = IF append[v].after = w THEN [append[v] EXCEPT !.after = None] ELSE append[v]
      BY <2>3 DEF Settle
    <3> QED BY <3>1, <3>2 DEF Calls
  <2>4. tail' = IF tail = w THEN None ELSE tail
    BY DEF Settle
  <2> QED BY <2>2, <2>3, <2>4 DEF InFlight, Numbered
<1>3. \A u \in Writers : InFlight(u) /\ u # w => rank[w] + 1 <= rank[u]
  BY <1>1 DEF Ordered
<1>4. ASSUME NEW v \in Writers, InFlight(v)', append'[v].after = None
      PROVE  \A u \in Writers : InFlight(u)' => rank[v] <= rank[u]
  <2>1. v # w /\ InFlight(v)
    BY <1>2, <1>4
  <2>2. CASE append[v].after = w
    <3>1. rank[v] = rank[w] + 1
      BY <2>1, <2>2 DEF Ordered
    <3> QED BY <1>1, <1>2, <1>3, <3>1
  <2>3. CASE append[v].after = None
    BY <1>1, <1>2, <2>1, <2>3 DEF Ordered
  <2> QED BY <1>2, <1>4, <2>1, <2>2, <2>3
<1>5. ASSUME NEW v \in Writers, NEW u \in Writers, InFlight(v)', append'[v].after = u
      PROVE  InFlight(u)' /\ rank[v] = rank[u] + 1
  <2>1. v # w /\ InFlight(v) /\ append[v].after = u /\ u # w
    BY <1>1, <1>2, <1>5
  <2>2. InFlight(u) /\ rank[v] = rank[u] + 1
    BY <2>1 DEF Ordered
  <2> QED BY <1>2, <2>1, <2>2
<1>6. \A u, v \in Writers : InFlight(u)' /\ InFlight(v)' /\ rank[u] = rank[v] => u = v
  BY <1>2 DEF Ordered
<1>7. ASSUME tail' = None PROVE \A v \in Writers : ~ InFlight(v)'
  <2>1. CASE tail = w
    <3>1. \A u \in Writers : InFlight(u) => rank[u] <= rank[w]
      BY <1>1, <2>1 DEF Ordered
    <3> QED BY <1>1, <1>2, <1>3, <3>1
  <2>2. CASE tail # w
    BY <1>2, <1>7, <2>2 DEF Ordered
  <2> QED BY <2>1, <2>2
<1>8. ASSUME tail' # None
      PROVE  InFlight(tail)' /\ \A u \in Writers : InFlight(u)' => rank[u] <= rank[tail']
  <2>1. tail # w /\ tail' = tail /\ tail # None
    BY <1>2, <1>8
  <2>2. tail \in Writers /\ InFlight(tail) /\ \A u \in Writers : InFlight(u) => rank[u] <= rank[tail]
    BY <2>1 DEF Ordered, JournalTyped
  <2>3. append'[tail'].pc \in {"queued", "listed", "written"}
    BY <2>1, <2>2 DEF Settle, InFlight, JournalTyped, Calls
  <2> QED BY <1>2, <2>1, <2>2, <2>3 DEF InFlight
<1>9. \A v \in Writers : Numbered(v)' => append'[v].after = None
  BY <1>1, <1>2 DEF Ordered
<1> QED BY <1>1, <1>4, <1>5, <1>6, <1>7, <1>8, <1>9 DEF Ordered

\* A step that moves nobody in the line, and numbers only the first.
LEMMA SameOrder ==
    ASSUME JournalTyped, NEW rank, Ordered(rank), tail' = tail,
           \A v \in Writers :
               /\ append'[v].after = append[v].after
               /\ InFlight(v)' <=> InFlight(v)
               /\ Numbered(v)' => append[v].after = None
    PROVE  Ordered(rank)'
<1>1. tail # None => InFlight(tail)'
  <2>1. tail # None => tail \in Writers /\ InFlight(tail)
    BY DEF Ordered, JournalTyped
  <2>2. tail # None => append'[tail].pc \in {"queued", "listed", "written"}
    BY <2>1 DEF InFlight
  <2> QED BY <2>2 DEF InFlight
<1> QED BY <1>1 DEF Ordered

\* Two calls past their turn are one.
LEMMA TurnsAlternate ==
    ASSUME JournalTyped, NEW rank, Ordered(rank), NEW u \in Writers, NEW v \in Writers,
           Numbered(u) \/ Turn(u), Numbered(v) \/ Turn(v)
    PROVE  u = v
<1>1. /\ InFlight(u) /\ append[u].after = None
      /\ InFlight(v) /\ append[v].after = None
  BY DEF Ordered, Numbered, Turn, InFlight
<1>2. rank[u] <= rank[v] /\ rank[v] <= rank[u] /\ rank[u] \in Nat /\ rank[v] \in Nat
  BY <1>1 DEF Ordered
<1>3. rank[u] = rank[v]
  BY <1>2
<1> QED BY <1>1, <1>3 DEF Ordered

-----------------------------------------------------------------------------
\* The steps that touch neither the calls nor the chain.
Elsewhere ==
    \/ Start \/ Started \/ Emitted \/ AgentEnds \/ SetRunningThrows \/ FinaliseThrows
    \/ \E c \in Cancels : ReadStatus(c) \/ Abort(c)
    \/ \E s \in Streams : StreamStep(s) \/ Drop(s)
    \/ UNCHANGED vars

LEMMA ElsewhereKeeps ==
    ASSUME Elsewhere
    PROVE  append' = append /\ tail' = tail /\ log' = log
BY DEF Elsewhere, Start, Started, Emitted, AgentEnds, SetRunningThrows, FinaliseThrows,
                ReadStatus, Abort, StreamStep, Drop,
       Open, Subscribe, Replay, Activate, Reconnect, Set, vars, journalVars

\* Next, sorted by what a step does to the calls.
LEMMA Steps ==
    ASSUME [Next]_vars
    PROVE  \/ Elsewhere
           \/ SetRunning \/ AgentEmits \/ Finalise \/ FinaliseForgets
           \/ Close \/ Disowned \/ Restart
           \/ \E w \in Writers : List(w) \/ Insert(w) \/ Broadcast(w) \/ AppendThrows(w)
           \/ \E p \in Posts : Post(p)
           \/ \E c \in Cancels : SetCancelled(c)
BY DEF Next, ExecStep, ExecThrows, AppendStep, CancelStep, Elsewhere

\* An executor that left does not come back.
LEMMA LeftForGood ==
    ASSUME [Next]_vars, Kept'
    PROVE  Kept
<1>1. CASE ExecStep
  BY <1>1 DEF ExecStep, Start, SetRunning, Started, AgentEmits, Emitted, AgentEnds, Finalise,
              FinalStatus, Close, Disowned, Leave, Kept
<1>2. CASE Restart \/ ExecThrows
  BY <1>2 DEF Restart, ExecThrows, SetRunningThrows, FinaliseThrows, FinaliseForgets, Kept
<1>3. CASE exec' = exec
  BY <1>3 DEF Kept
<1>4. CASE ~ ExecStep /\ ~ ExecThrows /\ ~ Restart
  <2>1. exec' = exec
    BY <1>4 DEF Next, AppendStep, List, Insert, Broadcast, AppendThrows, Post, CancelStep,
                ReadStatus, Abort, SetCancelled, StreamStep, Open, Subscribe, Replay, Activate,
                Reconnect, Drop, Set, vars
  <2> QED BY <1>3, <2>1
<1> QED BY <1>1, <1>2, <1>4

LEMMA ExecIsWriter == Exec \in Writers /\ Posts \subseteq Writers /\ Cancels \subseteq Writers
BY DEF Writers

LEMMA ExecKinds == TerminalKinds \subseteq Kinds /\ AgentKinds \subseteq Kinds
                   /\ ClientKinds \subseteq Kinds /\ "run.started" \in Kinds
BY DEF Kinds

LEMMA ChainKeeps ==
    ASSUME RunConstants, JournalTyped, Chained, Callers, [Next]_vars
    PROVE  Chained'
<1> SUFFICES ASSUME Kept' PROVE \E r : Ordered(r)'
  BY DEF Chained
<1>0. Kept
  BY LeftForGood
<1>1. PICK rank : Ordered(rank)
  BY <1>0 DEF Chained
<1>2. CASE Elsewhere
  <2>1. Ordered(rank)'
    BY <1>1, <1>2, ElsewhereKeeps, SameOrder DEF InFlight, Numbered, Ordered
  <2> QED BY <2>1
<1>3. CASE SetRunning \/ AgentEmits \/ Finalise \/ FinaliseForgets
  <2>1. ~ InFlight(Exec)
    BY <1>3 DEF SetRunning, AgentEmits, Finalise, FinaliseForgets, FinalStatus, Callers
  <2>2. PICK kind \in Kinds : Enqueue(Exec, kind)
    BY <1>3, ExecKinds DEF SetRunning, AgentEmits, Finalise, FinaliseForgets, FinalStatus, FinalEvent,
                    TerminalKinds
  <2> QED BY <1>1, <2>1, <2>2, ExecIsWriter, EnqueueOrders
<1>4. CASE Close \/ Disowned
  <2>1. append' = append /\ tail' = tail
    BY <1>4 DEF Close, Disowned, Leave, Kept
  <2>2. Ordered(rank)'
    BY <1>1, <2>1, SameOrder DEF InFlight, Numbered, Ordered
  <2> QED BY <2>2
<1>5. CASE Restart
  <2>1. tail' = None /\ \A v \in Writers : ~ InFlight(v)' /\ ~ Numbered(v)'
    BY <1>5 DEF Restart, JournalTyped, Calls, InFlight, Numbered
  <2>2. Ordered(rank)'
    BY <1>1, <2>1 DEF Ordered
  <2> QED BY <2>2
<1>6. ASSUME NEW w \in Writers, List(w) \/ Insert(w)
      PROVE  \E r : Ordered(r)'
  <2>1. CASE List(w) /\ Settle(w, "done")
    <3>1. InFlight(w) /\ append[w].after = None
      BY <2>1 DEF List, Turn, InFlight
    <3>2. Ordered(rank)'
      BY <1>1, <2>1, <3>1, SettleOrders
    <3> QED BY <3>2
  <2>2. CASE /\ append[w].after = None /\ InFlight(w)
             /\ \/ append' = [append EXCEPT ![w].pc = "listed", ![w].seq = Cardinality(log)]
                \/ append' = [append EXCEPT ![w].pc = "written"]
             /\ tail' = tail
    <3>1. \A v \in Writers :
            /\ append'[v].after = append[v].after
            /\ InFlight(v)' <=> InFlight(v)
            /\ Numbered(v)' => append[v].after = None
      BY <1>1, <2>2 DEF JournalTyped, Calls, InFlight, Numbered, Ordered
    <3>2. Ordered(rank)'
      BY <1>1, <2>2, <3>1, SameOrder
    <3> QED BY <3>2
  <2>3. Insert(w) => append[w].after = None /\ InFlight(w)
    BY <1>1 DEF Insert, Ordered, Numbered, InFlight
  <2>4. List(w) => append[w].after = None /\ InFlight(w)
    BY DEF List, Turn, InFlight
  <2> QED BY <1>6, <2>1, <2>2, <2>3, <2>4 DEF List, Insert
<1>7. ASSUME NEW w \in Writers, Broadcast(w) \/ AppendThrows(w)
      PROVE  \E r : Ordered(r)'
  <2>1. PICK how \in {"done", "threw"} : Settle(w, how)
    BY <1>7 DEF Broadcast, AppendThrows
  <2>2. InFlight(w) /\ append[w].after = None
    BY <1>1, <1>7 DEF Broadcast, AppendThrows, Turn, InFlight, Numbered, Ordered
  <2>3. Ordered(rank)'
    BY <1>1, <2>1, <2>2, SettleOrders
  <2> QED BY <2>3
<1>8. ASSUME NEW p \in Posts, Post(p)
      PROVE  \E r : Ordered(r)'
  <2>1. ~ InFlight(p)
    BY <1>8 DEF Post, InFlight
  <2>2. PICK kind \in Kinds : Enqueue(p, kind)
    BY <1>8, ExecKinds DEF Post
  <2> QED BY <1>1, <2>1, <2>2, ExecIsWriter, EnqueueOrders
<1>9. ASSUME NEW c \in Cancels, SetCancelled(c)
      PROVE  \E r : Ordered(r)'
  <2>1. CASE UNCHANGED <<append, tail>>
    <3>1. Ordered(rank)'
      BY <1>1, <2>1, SameOrder DEF InFlight, Numbered, Ordered
    <3> QED BY <3>1
  <2>2. CASE cancel[c] = "alone" /\ Enqueue(c, "run.cancelled")
    <3>1. ~ InFlight(c)
      BY <2>2 DEF Callers, InFlight
    <3>2. "run.cancelled" \in Kinds
      BY ExecKinds DEF TerminalKinds
    <3> QED BY <1>1, <2>2, <3>1, <3>2, ExecIsWriter, EnqueueOrders
  <2> QED BY <1>9, <2>1, <2>2 DEF SetCancelled
<1> QED BY <1>2, <1>3, <1>4, <1>5, <1>6, <1>7, <1>8, <1>9, Steps

\* A step of one call leaves the others where they are.
LEMMA CallKeeps ==
    ASSUME JournalTyped, NEW w \in Writers,
           List(w) \/ Insert(w) \/ Broadcast(w) \/ AppendThrows(w)
    PROVE  \A v \in Writers : v # w =>
               /\ append'[v].pc = append[v].pc
               /\ append'[v].seq = append[v].seq
               /\ append'[v].kind = append[v].kind
<1>1. ASSUME NEW how \in {"done", "threw"}, Settle(w, how), NEW v \in Writers, v # w
      PROVE  /\ append'[v].pc = append[v].pc
             /\ append'[v].seq = append[v].seq
             /\ append'[v].kind = append[v].kind
  BY <1>1 DEF Settle, JournalTyped, Calls
<1>2. CASE \/ append' = [append EXCEPT ![w].pc = "listed", ![w].seq = Cardinality(log)]
           \/ append' = [append EXCEPT ![w].pc = "written"]
  BY <1>2 DEF JournalTyped
<1> QED BY <1>1, <1>2 DEF List, Insert, Broadcast, AppendThrows

LEMMA CallersKeep ==
    ASSUME RunConstants, JournalTyped, CancelTyped, Callers, [Next]_vars
    PROVE  Callers'
<1>0. cancel = [c \in Cancels |-> cancel[c]]
  BY DEF CancelTyped
<1>1. ASSUME NEW c \in Cancels PROVE c \in Writers /\ c # Exec /\ c \notin Posts
  BY <1>1 DEF RunConstants, Writers
<1>2. CASE Elsewhere
  <2>1. append' = append
    BY <1>2, ElsewhereKeeps
  <2>2. \A c \in Cancels : cancel'[c] # "done" => cancel[c] # "done"
    BY <1>2 DEF CancelTyped, Elsewhere, Start, Started, Emitted, AgentEnds, SetRunningThrows,
                FinaliseThrows, ReadStatus, Abort, StreamStep,
                Drop, Open, Subscribe, Replay, Activate, Reconnect, Set, vars
  <2>3. exec' \notin {"starting", "emitting", "closing", "ended", "lost", "dead"} => ~ InFlight(Exec)
    BY <1>2 DEF Elsewhere, Start, Started, Emitted, AgentEnds, SetRunningThrows, FinaliseThrows,
                ReadStatus, Abort, StreamStep,
                Drop, Open, Subscribe, Replay, Activate, Reconnect, Set, vars, Callers, InFlight
  <2> QED BY <2>1, <2>2, <2>3 DEF Callers, InFlight
<1>3. CASE SetRunning \/ AgentEmits \/ Finalise \/ FinaliseForgets
  <2>1. PICK kind \in Kinds : Enqueue(Exec, kind)
    BY <1>3, ExecKinds DEF SetRunning, AgentEmits, Finalise, FinaliseForgets, FinalStatus, FinalEvent,
                    TerminalKinds
  <2>2. \A c \in Cancels : append'[c] = append[c]
    BY <1>1, <2>1 DEF Enqueue, JournalTyped
  <2>3. cancel' = cancel /\ exec' \in {"starting", "emitting", "closing"}
    BY <1>3 DEF SetRunning, AgentEmits, Finalise, FinaliseForgets
  <2> QED BY <2>2, <2>3 DEF Callers
<1>4. CASE Close \/ Disowned
  BY <1>4 DEF Close, Disowned, Leave, Callers, InFlight
<1>5. CASE Restart
  <2>1. \A w \in Writers : append[w].pc = "none" => append'[w].pc = "none"
    BY <1>5 DEF Restart, JournalTyped
  <2>2. \A c \in Cancels : cancel'[c] # "done" => cancel[c] # "done"
    BY <1>5 DEF Restart
  <2>3. exec' \in {"ended", "lost", "dead"}
    BY <1>5 DEF Restart
  <2> QED BY <1>1, <2>1, <2>2, <2>3 DEF Callers
<1>6. ASSUME NEW w \in Writers, List(w) \/ Insert(w) \/ Broadcast(w) \/ AppendThrows(w)
      PROVE  Callers'
  <2>1. exec' = exec /\ cancel' = cancel
    BY <1>6 DEF List, Insert, Broadcast, AppendThrows
  <2>2. InFlight(w)
    BY <1>6 DEF List, Insert, Broadcast, AppendThrows, Turn, InFlight
  <2>3. \A v \in Writers : v # w => append'[v].pc = append[v].pc
    BY <1>6, CallKeeps
  <2>4. \A c \in Cancels : cancel[c] # "done" => c # w
    BY <2>2 DEF Callers, InFlight
  <2>5. InFlight(Exec)' => InFlight(Exec)
    BY <2>2, <2>3, ExecIsWriter DEF InFlight
  <2> QED BY <1>1, <2>1, <2>3, <2>4, <2>5 DEF Callers
<1>7. ASSUME NEW p \in Posts, Post(p)
      PROVE  Callers'
  <2>1. p \in Writers /\ p # Exec
    BY DEF RunConstants, Writers
  <2>2. \A v \in Writers : v # p => append'[v] = append[v]
    BY <1>7, <2>1 DEF Post, Enqueue, JournalTyped
  <2>3. exec' = exec /\ cancel' = cancel
    BY <1>7 DEF Post
  <2> QED BY <1>1, <2>1, <2>2, <2>3, ExecIsWriter DEF Callers, InFlight
<1>8. ASSUME NEW c \in Cancels, SetCancelled(c)
      PROVE  Callers'
  <2>1. exec' = exec
    BY <1>8 DEF SetCancelled
  <2>2. CASE cancel[c] = "signalled" /\ UNCHANGED <<append, tail>>
             /\ cancel' = [cancel EXCEPT ![c] = "stopped"]
    BY <1>0, <2>1, <2>2 DEF Callers, InFlight
  <2>3. CASE Enqueue(c, "run.cancelled") /\ cancel' = [cancel EXCEPT ![c] = "done"]
    <3>1. \A v \in Writers : v # c => append'[v] = append[v]
      BY <2>3 DEF Enqueue, JournalTyped
    <3> QED BY <1>0, <1>1, <2>1, <2>3, <3>1, ExecIsWriter DEF Callers, InFlight
  <2> QED BY <1>8, <2>2, <2>3 DEF SetCancelled
<1> QED BY <1>2, <1>3, <1>4, <1>5, <1>6, <1>7, <1>8, Steps

LEMMA CancelTypedKeeps ==
    ASSUME CancelTyped, [Next]_vars
    PROVE  CancelTyped'
<1>1. CASE ExecStep
  BY <1>1 DEF ExecStep, Start, SetRunning, Started, AgentEmits, Emitted, AgentEnds, Finalise,
              Close, Disowned, CancelTyped
<1>2. CASE Restart \/ ExecThrows
  BY <1>2 DEF Restart, ExecThrows, SetRunningThrows, FinaliseThrows, FinaliseForgets, CancelTyped
<1>3. ASSUME NEW c \in Cancels, CancelStep(c)
      PROVE  CancelTyped'
  BY <1>3 DEF CancelStep, ReadStatus, Abort, SetCancelled, CancelTyped
<1>4. CASE cancel' = cancel
  BY <1>4 DEF CancelTyped
<1>5. CASE \/ \E w \in Writers : AppendStep(w) \/ AppendThrows(w)
           \/ \E p \in Posts : Post(p)
           \/ \E s \in Streams : StreamStep(s) \/ Drop(s)
           \/ UNCHANGED vars
  BY <1>4, <1>5 DEF AppendStep, List, Insert, Broadcast, AppendThrows, Post, StreamStep, Open,
              Subscribe, Replay, Activate, Reconnect, Drop, Set, vars
<1> QED BY <1>1, <1>2, <1>3, <1>5 DEF Next

\* Joining the chain and settling number nobody.
LEMMA EnqueueNumbers ==
    ASSUME JournalTyped, NEW w \in Writers, NEW kind, Enqueue(w, kind)
    PROVE  \A v \in Writers : Numbered(v)' => v # w /\ append'[v] = append[v]
BY DEF Enqueue, Numbered, JournalTyped

LEMMA SettleNumbers ==
    ASSUME JournalTyped, NEW w \in Writers, NEW how \in {"done", "threw"}, Settle(w, how)
    PROVE  \A v \in Writers : Numbered(v)' =>
               /\ v # w
               /\ append'[v].pc = append[v].pc
               /\ append'[v].seq = append[v].seq
               /\ append'[v].kind = append[v].kind
<1>1. ~ Numbered(w)'
  BY DEF Settle, Numbered, JournalTyped, Calls
<1>2. \A v \in Writers : v # w =>
        /\ append'[v].pc = append[v].pc
        /\ append'[v].seq = append[v].seq
        /\ append'[v].kind = append[v].kind
  BY DEF Settle, JournalTyped, Calls
<1> QED BY <1>1, <1>2

\* A step that writes nothing and numbers nobody.
LEMMA SameLengths ==
    ASSUME Kept, Lengths, log' = log,
           \A v \in Writers : Numbered(v)' =>
               /\ append'[v].pc = append[v].pc
               /\ append'[v].seq = append[v].seq
               /\ append'[v].kind = append[v].kind
    PROVE  Lengths'
<1> SUFFICES ASSUME NEW v \in Writers, Numbered(v)'
             PROVE  /\ append'[v].pc = "listed" => append'[v].seq = Cardinality(log)
                    /\ append'[v].pc = "written" => RowOf(v)' \in log
  BY DEF Lengths, Numbered
<1>1. RowOf(v)' = RowOf(v)
  BY DEF RowOf
<1> QED BY <1>1 DEF Lengths

LEMMA LengthsKeep ==
    ASSUME RunConstants, JournalInv, Chained, Lengths, [Next]_vars
    PROVE  Lengths'
<1> SUFFICES ASSUME Kept' PROVE Lengths'
  BY DEF Lengths
<1>0. Kept /\ JournalTyped /\ IsFiniteSet(log) /\ GapFree
  BY LeftForGood DEF JournalInv, JournalTyped, JournalExact
<1>1. PICK rank : Ordered(rank)
  BY <1>0 DEF Chained
<1>2. CASE Elsewhere
  BY <1>0, <1>2, ElsewhereKeeps, SameLengths
<1>3. CASE SetRunning \/ AgentEmits \/ Finalise \/ FinaliseForgets
  <2>1. PICK kind \in Kinds : Enqueue(Exec, kind)
    BY <1>3, ExecKinds DEF SetRunning, AgentEmits, Finalise, FinaliseForgets, FinalStatus, FinalEvent,
                    TerminalKinds
  <2>2. log' = log
    BY <1>3 DEF SetRunning, AgentEmits, Finalise, FinaliseForgets
  <2> QED BY <1>0, <2>1, <2>2, ExecIsWriter, EnqueueNumbers, SameLengths
<1>4. CASE Close \/ Disowned
  BY <1>0, <1>4, SameLengths DEF Close, Disowned
<1>5. CASE Restart
  <2>1. \A v \in Writers : ~ Numbered(v)'
    BY <1>0, <1>5 DEF Restart, JournalTyped, Calls, Numbered
  <2> QED BY <1>0, <1>5, <2>1, SameLengths DEF Restart
<1>6. ASSUME NEW w \in Writers, List(w)
      PROVE  Lengths'
  <2>1. CASE Settle(w, "done")
    BY <1>0, <1>6, <2>1, SettleNumbers, SameLengths DEF List
  <2>2. CASE append' = [append EXCEPT ![w].pc = "listed", ![w].seq = Cardinality(log)]
    <3>1. log' = log
      BY <1>6 DEF List
    <3>2. append'[w].pc = "listed" /\ append'[w].seq = Cardinality(log)
      BY <1>0, <2>2 DEF JournalTyped, Calls
    <3>3. ASSUME NEW v \in Writers, v # w
          PROVE  append'[v] = append[v] /\ RowOf(v)' = RowOf(v)
      BY <1>0, <2>2, <3>3 DEF JournalTyped, RowOf
    <3> QED BY <1>0, <3>1, <3>2, <3>3 DEF Lengths
  <2> QED BY <1>6, <2>1, <2>2 DEF List
<1>7. ASSUME NEW w \in Writers, Insert(w)
      PROVE  Lengths'
  <2>1. append[w].pc = "listed" /\ append[w].seq = Cardinality(log)
    BY <1>0, <1>7 DEF Insert, Lengths
  <2>2. Cardinality(log) \in Nat
    BY <1>0, FS_CardinalityType
  <2>3. ~ \E r \in log : r.seq = append[w].seq
    <3>1. \A r \in log : r.seq \in 0 .. (Cardinality(log) - 1)
      BY <1>0 DEF GapFree
    <3> QED BY <2>1, <2>2, <3>1
  <2>4. log' = log \cup {RowOf(w)}
    BY <1>7, <2>3 DEF Insert
  <2>5. /\ append'[w].pc = "written"
        /\ RowOf(w)' = RowOf(w)
        /\ \A v \in Writers : v # w => append'[v] = append[v]
    BY <1>0, <1>7 DEF Insert, RowOf, JournalTyped, Calls
  <2>6. \A v \in Writers : v # w => ~ Numbered(v)'
    <3>1. Numbered(w)
      BY <2>1 DEF Numbered
    <3>2. \A v \in Writers : Numbered(v) => v = w
      BY <1>0, <1>1, <3>1, TurnsAlternate
    <3> QED BY <2>5, <3>2 DEF Numbered
  <2> QED BY <2>4, <2>5, <2>6 DEF Lengths, Numbered
<1>8. ASSUME NEW w \in Writers, Broadcast(w) \/ AppendThrows(w)
      PROVE  Lengths'
  <2>1. PICK how \in {"done", "threw"} : Settle(w, how)
    BY <1>8 DEF Broadcast, AppendThrows
  <2>2. log' = log
    BY <1>8 DEF Broadcast, AppendThrows
  <2> QED BY <1>0, <2>1, <2>2, SettleNumbers, SameLengths
<1>9. ASSUME NEW p \in Posts, Post(p)
      PROVE  Lengths'
  <2>1. PICK kind \in Kinds : Enqueue(p, kind)
    BY <1>9, ExecKinds DEF Post
  <2>2. log' = log
    BY <1>9 DEF Post
  <2> QED BY <1>0, <2>1, <2>2, ExecIsWriter, EnqueueNumbers, SameLengths
<1>10. ASSUME NEW c \in Cancels, SetCancelled(c)
       PROVE  Lengths'
  <2>1. log' = log
    BY <1>10 DEF SetCancelled
  <2>2. CASE append' = append
    BY <1>0, <2>1, <2>2, SameLengths
  <2>3. CASE Enqueue(c, "run.cancelled")
    BY <1>0, <2>1, <2>3, ExecIsWriter, EnqueueNumbers, SameLengths
  <2> QED BY <1>10, <2>2, <2>3 DEF SetCancelled
<1> QED BY <1>2, <1>3, <1>4, <1>5, <1>6, <1>7, <1>8, <1>9, <1>10, Steps

\* A step of a call does not change what it appends; nor do posts and cancels
\* change what the executor appends.
LEMMA KindKeeps ==
    ASSUME JournalTyped, NEW w \in Writers,
           List(w) \/ Insert(w) \/ Broadcast(w) \/ AppendThrows(w)
    PROVE  append'[w].kind = append[w].kind
<1>1. ASSUME NEW how \in {"done", "threw"}, Settle(w, how)
      PROVE  append'[w].kind = append[w].kind
  BY <1>1 DEF Settle, JournalTyped, Calls
<1>2. CASE \/ append' = [append EXCEPT ![w].pc = "listed", ![w].seq = Cardinality(log)]
           \/ append' = [append EXCEPT ![w].pc = "written"]
  BY <1>2 DEF JournalTyped, Calls
<1> QED BY <1>1, <1>2 DEF List, Insert, Broadcast, AppendThrows

LEMMA OthersKeepExec ==
    ASSUME RunConstants, JournalTyped,
           \/ \E p \in Posts : Post(p)
           \/ \E c \in Cancels : SetCancelled(c)
    PROVE  append'[Exec] = append[Exec]
<1>1. ASSUME NEW p \in Posts, Post(p)
      PROVE  append'[Exec] = append[Exec]
  <2>1. p \in Writers /\ p # Exec
    BY DEF RunConstants, Writers
  <2> QED BY <1>1, <2>1, ExecIsWriter DEF Post, Enqueue, JournalTyped
<1>2. ASSUME NEW c \in Cancels, SetCancelled(c)
      PROVE  append'[Exec] = append[Exec]
  <2>1. c \in Writers /\ c # Exec
    BY DEF RunConstants, Writers
  <2> QED BY <1>2, <2>1, ExecIsWriter DEF SetCancelled, Enqueue, JournalTyped
<1> QED BY <1>1, <1>2

\* Once the executor has decided how the run ended, only a cancel handler
\* writes the status again.
LEMMA FitsKeeps ==
    ASSUME CancelTyped, [Next]_vars, exec \in {"closing", "ended"}
    PROVE  /\ \A kind : Fits(kind) => Fits(kind)'
           /\ status \in TerminalStatuses \/ swallowed => status' \in TerminalStatuses \/ swallowed'
<1>1. ASSUME NEW c \in Cancels, SetCancelled(c)
      PROVE  Overruled' /\ status' \in TerminalStatuses
  BY <1>1 DEF SetCancelled, CancelTyped, Overruled, TerminalStatuses
<1>2. CASE \A c \in Cancels : ~ SetCancelled(c)
  <2>1. status' = status /\ swallowed' = swallowed
    BY <1>2 DEF Next, ExecStep, Start, SetRunning, Started, AgentEmits, Emitted, AgentEnds,
                Finalise, Close, Disowned, Leave, ExecThrows, SetRunningThrows, FinaliseThrows,
                FinaliseForgets, AppendStep, List, Insert, Broadcast, AppendThrows, Post,
                CancelStep, ReadStatus, Abort, StreamStep, Open, Subscribe, Replay, Activate,
                Reconnect, Drop, Set, Restart, boundVars, vars, FinalStatus
  <2>2. ASSUME NEW c \in Cancels, cancel[c] \in {"stopped", "done"}
        PROVE  cancel'[c] = cancel[c]
    <3>1. CASE cancel' = cancel
      BY <3>1
    <3>2. CASE Restart
      BY <2>2, <3>2 DEF Restart
    <3>3. ASSUME NEW d \in Cancels, ReadStatus(d) \/ Abort(d)
          PROVE  cancel'[c] = cancel[c]
      BY <2>2, <3>3 DEF ReadStatus, Abort, CancelTyped
    <3>4. CASE ~ Restart /\ \A d \in Cancels : ~ CancelStep(d)
      <4>1. cancel' = cancel
        BY <3>4 DEF Next, ExecStep, Start, SetRunning, Started, AgentEmits, Emitted, AgentEnds,
                    Finalise, Close, Disowned, ExecThrows, SetRunningThrows, FinaliseThrows,
                    FinaliseForgets, AppendStep, List, Insert, Broadcast, AppendThrows, Post,
                    StreamStep, Open, Subscribe, Replay, Activate, Reconnect, Drop, Set, vars
      <4> QED BY <4>1
    <3> QED BY <1>2, <3>2, <3>3, <3>4 DEF CancelStep
  <2>3. Overruled => Overruled'
    BY <2>1, <2>2 DEF Overruled
  <2>4. \A kind : Agrees(kind) => Agrees(kind)'
    BY <2>1 DEF Agrees
  <2> QED BY <2>1, <2>3, <2>4 DEF Fits
<1> QED BY <1>1, <1>2 DEF Fits

\* The executor finds its end recorded: it, or somebody before it, wrote one.
LEMMA EndingKeeps ==
    ASSUME RunConstants, JournalInv, CancelTyped, Callers, Lengths, Ending, OwnEnd, [Next]_vars
    PROVE  Ending'
<1>0. JournalTyped /\ log \subseteq log'
  BY NextKeeps DEF JournalInv
<1>1. ASSUME exec \in {"closing", "ended"}, exec' = exec,
             append'[Exec].kind = append[Exec].kind,
             exec = "closing" /\ append'[Exec].pc = "done" => \E r \in log : Terminal(r)
      PROVE  Ending'
  <2>1. /\ \A kind : Fits(kind) => Fits(kind)'
        /\ status' \in TerminalStatuses \/ swallowed'
    BY <1>1, FitsKeeps DEF Ending
  <2>2. ASSUME exec = "closing"
        PROVE  Fits(append[Exec].kind)' /\ append'[Exec].kind \in TerminalKinds
    <3>1. PICK kind : kind = append[Exec].kind
      OBVIOUS
    <3>2. Fits(kind)' /\ kind \in TerminalKinds
      BY <2>1, <2>2, <3>1 DEF Ending
    <3>3. kind = append'[Exec].kind
      BY <1>1, <3>1
    <3> QED BY <3>2, <3>3 DEF Fits
  <2>3. ASSUME exec = "ended"
        PROVE  \E r \in log' : Terminal(r)' /\ (r.by = Exec => Fits(r.kind)')
    <3>1. PICK r \in log : Terminal(r) /\ (r.by = Exec => Fits(r.kind))
      BY <2>3 DEF Ending
    <3>2. PICK kind : kind = r.kind
      OBVIOUS
    <3>3. r.by = Exec => Fits(kind)'
      BY <2>1, <3>1, <3>2
    <3> QED BY <1>0, <3>1, <3>2, <3>3 DEF Terminal, Fits
  <2>4. exec' = "closing" /\ append'[Exec].pc = "done" => \E r \in log' : Terminal(r)'
    BY <1>0, <1>1 DEF Terminal
  <2> QED BY <1>1, <2>1, <2>2, <2>3, <2>4 DEF Ending
<1>2. CASE Elsewhere
  <2>1. append' = append /\ log' = log
    BY <1>2, ElsewhereKeeps
  <2>2. exec' \in {"closing", "ended", "starting", "emitting"} => exec' = exec
    BY <1>2 DEF Elsewhere, Start, Started, Caught, Emitted, AgentEnds, SetRunningThrows,
                FinaliseThrows, ReadStatus, Abort, StreamStep, Drop, Open, Subscribe, Replay,
                Activate, Reconnect, Set, vars
  <2> QED BY <1>1, <2>1, <2>2 DEF Ending
<1>3. CASE SetRunning \/ AgentEmits
  <2>1. PICK kind \in AgentKinds \cup {"run.started"} : Enqueue(Exec, kind)
    BY <1>3 DEF SetRunning, AgentEmits
  <2>2. append'[Exec].kind = kind /\ kind \notin TerminalKinds
    BY <1>0, <2>1, ExecIsWriter DEF Enqueue, JournalTyped, RunConstants, TerminalKinds
  <2>3. exec' \in {"starting", "emitting"}
    BY <1>3 DEF SetRunning, AgentEmits
  <2> QED BY <2>2, <2>3 DEF Ending
<1>4. CASE Finalise \/ FinaliseForgets
  <2>1. PICK how \in DOMAIN FinalStatus :
          Enqueue(Exec, FinalEvent[how]) /\ (status' = FinalStatus[how] \/ swallowed')
    BY <1>4 DEF Finalise, FinaliseForgets, FinalStatus
  <2>2. FinalEvent[how] \in TerminalKinds /\ FinalStatus[how] \in TerminalStatuses
    BY DEF FinalStatus, FinalEvent, TerminalKinds, TerminalStatuses
  <2>3. append'[Exec].kind = FinalEvent[how] /\ append'[Exec].pc = "queued"
    BY <1>0, <2>1, ExecIsWriter DEF Enqueue, JournalTyped
  <2>4. exec' = "closing"
    BY <1>4 DEF Finalise, FinaliseForgets
  <2>5. Fits(append[Exec].kind)'
    BY <2>1, <2>3 DEF Fits, Agrees
  <2> QED BY <2>1, <2>2, <2>3, <2>4, <2>5 DEF Ending
<1>5. CASE Close \/ Disowned
  <2>1. CASE exec' = "ended"
    <3>1. exec = "closing" /\ append[Exec].pc = "done" /\ log' = log
      BY <1>5, <2>1 DEF Close, Disowned, Leave, Caught
    <3>2. PICK r \in log : Terminal(r)
      BY <3>1 DEF Ending
    <3>3. r.by = Exec => Fits(r.kind)
      BY <3>1, <3>2 DEF OwnEnd, Ending
    <3>4. /\ \A kind : Fits(kind) => Fits(kind)'
          /\ status' \in TerminalStatuses \/ swallowed'
      BY <3>1, FitsKeeps DEF Ending
    <3>5. PICK kind : kind = r.kind
      OBVIOUS
    <3>6. r.by = Exec => Fits(kind)'
      BY <3>3, <3>4, <3>5
    <3>7. \E q \in log' : Terminal(q)' /\ (q.by = Exec => Fits(q.kind)')
      BY <3>1, <3>2, <3>5, <3>6 DEF Terminal, Fits
    <3> QED BY <2>1, <3>4, <3>7 DEF Ending
  <2>2. CASE exec' # "ended"
    <3>1. exec' \notin {"closing", "ended", "starting", "emitting"}
      BY <1>5, <2>2 DEF Close, Disowned, Leave, Caught
    <3> QED BY <3>1 DEF Ending
  <2> QED BY <2>1, <2>2
<1>6. CASE Restart
  <2>1. CASE exec = "ended"
    <3>1. append'[Exec].kind = append[Exec].kind
      BY <1>0, <1>6, ExecIsWriter DEF Restart, JournalTyped, Calls
    <3> QED BY <1>1, <1>6, <2>1, <3>1 DEF Restart
  <2>2. CASE exec # "ended"
    BY <1>6, <2>2 DEF Restart, Ending
  <2> QED BY <2>1, <2>2
<1>7. ASSUME NEW w \in Writers, List(w) \/ Insert(w) \/ Broadcast(w) \/ AppendThrows(w)
      PROVE  Ending'
  <2>1. exec' = exec
    BY <1>7 DEF List, Insert, Broadcast, AppendThrows
  <2>2. append'[Exec].kind = append[Exec].kind
    BY <1>0, <1>7, CallKeeps, KindKeeps, ExecIsWriter
  <2>3. ASSUME exec = "closing", append'[Exec].pc = "done"
        PROVE  \E r \in log : Terminal(r)
    <3>1. CASE append[Exec].pc = "done"
      BY <2>3, <3>1 DEF Ending
    <3>2. CASE append[Exec].pc # "done"
      <4>1. w = Exec
        BY <1>0, <1>7, <2>3, <3>2, CallKeeps, ExecIsWriter
      <4>2. CASE List(Exec)
        BY <1>0, <2>3, <4>2, ExecIsWriter DEF List, JournalTyped, Calls
      <4>3. CASE Insert(Exec)
        BY <1>0, <2>3, <4>3, ExecIsWriter DEF Insert, JournalTyped, Calls
      <4>4. CASE Broadcast(Exec)
        <5>1. RowOf(Exec) \in log
          BY <2>3, <4>4, ExecIsWriter DEF Broadcast, Lengths, Kept
        <5>2. RowOf(Exec).kind \in TerminalKinds
          BY <2>3 DEF RowOf, Ending
        <5> QED BY <5>1, <5>2 DEF Terminal
      <4>5. CASE AppendThrows(Exec)
        BY <1>0, <2>3, <4>5, ExecIsWriter DEF AppendThrows, Settle, JournalTyped, Calls
      <4> QED BY <1>7, <4>1, <4>2, <4>3, <4>4, <4>5
    <3> QED BY <3>1, <3>2
  <2>4. CASE exec \in {"closing", "ended"}
    BY <1>1, <2>1, <2>2, <2>3, <2>4
  <2>5. CASE exec \notin {"closing", "ended"}
    BY <2>1, <2>2, <2>5 DEF Ending
  <2> QED BY <2>4, <2>5
<1>8. ASSUME \/ \E p \in Posts : Post(p)
             \/ \E c \in Cancels : SetCancelled(c)
      PROVE  Ending'
  <2>1. append'[Exec] = append[Exec]
    BY <1>0, <1>8, OthersKeepExec
  <2>2. exec' = exec
    BY <1>8 DEF Post, SetCancelled
  <2>3. CASE exec \in {"closing", "ended"}
    BY <1>1, <2>1, <2>2, <2>3 DEF Ending
  <2>4. CASE exec \notin {"closing", "ended"}
    BY <2>1, <2>2, <2>4 DEF Ending
  <2> QED BY <2>3, <2>4
<1> QED BY <1>2, <1>3, <1>4, <1>5, <1>6, <1>7, <1>8, Steps

\* No terminal event of the executor's own is there while it may still change
\* its mind.
LEMMA OwnEndKeeps ==
    ASSUME RunConstants, JournalInv, Callers, Ending, OwnEnd, [Next]_vars
    PROVE  OwnEnd'
<1>0. JournalTyped
  BY DEF JournalInv
<1>1. ASSUME log' = log, append'[Exec].kind = append[Exec].kind,
             exec' = exec \/ exec \notin {"closing", "ended", "lost", "dead"}
                 \/ exec' \in {"ended", "lost", "dead"},
             append[Exec].pc \in {"written", "done"} => append'[Exec].pc \in {"written", "done"}
      PROVE  OwnEnd'
  BY <1>1 DEF OwnEnd, Terminal
<1>2. CASE Elsewhere
  <2>1. append' = append /\ log' = log
    BY <1>2, ElsewhereKeeps
  <2>2. exec' = exec \/ exec \notin {"closing", "ended", "lost", "dead"}
    BY <1>2 DEF Elsewhere, Start, Started, Caught, Emitted, AgentEnds, SetRunningThrows,
                FinaliseThrows, ReadStatus, Abort, StreamStep, Drop, Open, Subscribe, Replay,
                Activate, Reconnect, Set, vars
  <2> QED BY <1>1, <2>1, <2>2
<1>3. CASE SetRunning \/ AgentEmits \/ Finalise \/ FinaliseForgets
  <2>1. exec \notin {"closing", "ended", "lost", "dead"} /\ log' = log
    BY <1>3 DEF SetRunning, AgentEmits, Finalise, FinaliseForgets, FinalStatus
  <2> QED BY <2>1 DEF OwnEnd, Terminal
<1>4. CASE Close \/ Disowned
  <2>1. log' = log /\ append' = append
    BY <1>4 DEF Close, Disowned, Leave
  <2>2. CASE exec' \in {"ended", "lost"}
    BY <2>1, <2>2 DEF OwnEnd, Terminal
  <2>3. CASE exec' \notin {"ended", "lost"}
    <3>1. exec = "closing" /\ append[Exec].pc = "threw"
      BY <1>4, <2>3 DEF Close, Disowned, Leave
    <3> QED BY <2>1, <3>1 DEF OwnEnd, Terminal
  <2> QED BY <2>2, <2>3
<1>5. CASE Restart
  <2>1. exec' \in {"ended", "lost", "dead"} /\ log' = log
    BY <1>5 DEF Restart
  <2> QED BY <2>1 DEF OwnEnd, Terminal
<1>6. ASSUME NEW w \in Writers, List(w) \/ Insert(w) \/ Broadcast(w) \/ AppendThrows(w)
      PROVE  OwnEnd'
  <2>1. exec' = exec
    BY <1>6 DEF List, Insert, Broadcast, AppendThrows
  <2>2. append'[Exec].kind = append[Exec].kind
    BY <1>0, <1>6, CallKeeps, KindKeeps, ExecIsWriter
  <2>3. append[Exec].pc \in {"written", "done"} => append'[Exec].pc \in {"written", "done"}
    <3>1. CASE w = Exec
      BY <1>0, <1>6, <3>1, ExecIsWriter
      DEF List, Insert, Broadcast, AppendThrows, Turn, Settle, JournalTyped, Calls
    <3>2. CASE w # Exec
      BY <1>0, <1>6, <3>2, CallKeeps, ExecIsWriter
    <3> QED BY <3>1, <3>2
  <2>4. CASE log' = log
    BY <1>1, <2>1, <2>2, <2>3, <2>4
  <2>5. CASE Insert(w) /\ log' = log \cup {RowOf(w)}
    <3>1. CASE w # Exec
      <4>1. RowOf(w).by # Exec
        BY <3>1 DEF RowOf
      <4> QED BY <2>1, <2>2, <2>3, <2>5, <4>1 DEF OwnEnd, Terminal
    <3>2. CASE w = Exec
      <4>1. append'[Exec].pc = "written" /\ InFlight(Exec)
        BY <1>0, <2>5, <3>2, ExecIsWriter DEF Insert, JournalTyped, Calls, InFlight
      <4>2. RowOf(Exec).kind = append[Exec].kind
        BY DEF RowOf
      <4>3. exec \in {"starting", "emitting", "closing", "ended", "lost", "dead"}
        BY <4>1 DEF Callers
      <4>4. exec \in {"starting", "emitting"} => append[Exec].kind \notin TerminalKinds
        BY DEF Ending
      <4>5. ASSUME NEW r \in log', Terminal(r), r.by = Exec
            PROVE  exec \in {"ended", "lost", "dead"} \/ (exec = "closing" /\ append'[Exec].kind = r.kind)
        BY <2>2, <2>5, <3>2, <4>2, <4>3, <4>4, <4>5 DEF OwnEnd, Terminal
      <4> QED BY <2>1, <4>1, <4>5 DEF OwnEnd, Terminal
    <3> QED BY <3>1, <3>2
  <2> QED BY <1>6, <2>4, <2>5 DEF List, Insert, Broadcast, AppendThrows
<1>7. ASSUME \/ \E p \in Posts : Post(p)
             \/ \E c \in Cancels : SetCancelled(c)
      PROVE  OwnEnd'
  <2>1. append'[Exec] = append[Exec]
    BY <1>0, <1>7, OthersKeepExec
  <2>2. exec' = exec /\ log' = log
    BY <1>7 DEF Post, SetCancelled
  <2> QED BY <1>1, <2>1, <2>2
<1> QED BY <1>2, <1>3, <1>4, <1>5, <1>6, <1>7, Steps

-----------------------------------------------------------------------------
ChainInv == JournalInv /\ CancelTyped /\ Chained /\ Callers /\ Lengths /\ Ending /\ OwnEnd

LEMMA InitChain == Init => ChainInv
<1> SUFFICES ASSUME Init PROVE ChainInv
  OBVIOUS
<1>1. JournalInv
  BY InitJournal
<1>2. \A w \in Writers : ~ InFlight(w) /\ ~ Numbered(w) /\ append[w].pc = "none"
  BY DEF Init, InFlight, Numbered
<1>3. Chained
  <2>1. PICK rank : rank = [w \in Writers |-> 0]
    OBVIOUS
  <2>2. rank \in [Writers -> Nat] /\ tail = None
    BY <2>1 DEF Init
  <2>3. Ordered(rank)
    BY <1>2, <2>2 DEF Ordered
  <2> QED BY <2>3 DEF Chained
<1>4. Callers
  BY <1>2, ExecIsWriter DEF Callers
<1>5. CancelTyped
  BY DEF Init, CancelTyped
<1>6. Lengths
  BY <1>2 DEF Lengths
<1>7. Ending /\ OwnEnd
  BY DEF Init, Ending, OwnEnd
<1> QED BY <1>1, <1>3, <1>4, <1>5, <1>6, <1>7 DEF ChainInv

LEMMA ChainAlways == Spec => []ChainInv
<1>1. ChainInv /\ [Next]_vars => ChainInv'
  <2> SUFFICES ASSUME ChainInv, [Next]_vars PROVE ChainInv'
    OBVIOUS
  <2>1. JournalInv /\ JournalTyped /\ CancelTyped /\ Chained /\ Callers /\ Lengths /\ Ending /\ OwnEnd
    BY DEF ChainInv, JournalInv
  <2>2. JournalInv'
    BY <2>1, NextKeeps
  <2>3. CancelTyped'
    BY <2>1, CancelTypedKeeps
  <2>4. Chained' /\ Callers'
    BY <2>1, RunConstants, ChainKeeps, CallersKeep
  <2>5. Lengths' /\ Ending' /\ OwnEnd'
    BY <2>1, RunConstants, LengthsKeep, EndingKeeps, OwnEndKeeps
  <2> QED BY <2>2, <2>3, <2>4, <2>5 DEF ChainInv
<1> QED BY InitChain, <1>1, PTL DEF Spec

\* While the executor has the run, whatever an append is about to broadcast and
\* acknowledge is in the journal, with any number of posts and cancels in the
\* chain of #withRunLock, and whichever of them threw.
THEOREM AppendsAreStored == Spec => []AppendStored
<1>1. ChainInv => AppendStored
  BY DEF ChainInv, Lengths, Kept, AppendStored
<1> QED BY ChainAlways, <1>1, PTL

\* When #execute has returned without giving its end up (its status writes may
\* have been refused, and swallowed), a terminal event is in the journal; if it
\* is the executor's own, the status says the same, unless the write of it was
\* swallowed or a cancel handler has overruled it.
THEOREM EndIsRecorded == Spec => []FinishedIsRecorded
<1>1. ChainInv => FinishedIsRecorded
  BY DEF ChainInv, Ending, Fits, FinishedIsRecorded
<1> QED BY ChainAlways, <1>1, PTL
=============================================================================
