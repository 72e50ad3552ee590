--------------------------- MODULE RunStreamProofs --------------------------
(***************************************************************************)
(* Proofs about the streams of RunEvents: every variable keeps its type,   *)
(* and a client is sent exactly the journal, also across a replay, a flush *)
(* of what was kept back, a lost connection and a restart.                 *)
(***************************************************************************)
EXTENDS RunChainProofs, FunctionTheorems, WellFoundedInduction

-----------------------------------------------------------------------------
(* Induction along a sequence of events.  EmitAll is a fold, defined by a     *)
(* recursive function on sets of positions; what holds of each partial result *)
(* holds of the whole.                                                        *)

\* Every set of naturals that is not empty has a least member.
LEMMA Least ==
    ASSUME NEW S \in SUBSET Nat, S # {}
    PROVE  \E m \in S : \A k \in S : m <= k
<1> DEFINE R == {ss \in Nat \X Nat : ss[1] < ss[2]}
<1>1. IsWellFoundedOn(R, Nat)
  BY NatLessThanWellFounded DEF OpToRel
<1> HIDE DEF R
<1>2. PICK m \in S : \A k \in S : <<k, m>> \notin R
  BY <1>1, WFMin
<1>3. ASSUME NEW k \in S, k < m PROVE FALSE
  <2>1. <<k, m>> \in R
    BY <1>3 DEF R
  <2> QED BY <1>2, <2>1
<1> QED BY <1>3

\* So a set that has zero and each successor has them all.
LEMMA Induct ==
    ASSUME NEW S, 0 \in S, \A n \in Nat : n \in S => n + 1 \in S
    PROVE  \A n \in Nat : n \in S
<1> SUFFICES ASSUME NEW n \in Nat, n \notin S PROVE FALSE
  OBVIOUS
<1>1. PICK m \in Nat \ S : \A k \in Nat \ S : m <= k
  <2> DEFINE T == Nat \ S
  <2>1. T \in SUBSET Nat /\ T # {}
    OBVIOUS
  <2> HIDE DEF T
  <2>2. \E m \in T : \A k \in T : m <= k
    BY <2>1, Least
  <2> QED BY <2>2 DEF T
<1>2. m - 1 \in Nat /\ m - 1 \in S
  BY <1>1
<1> QED BY <1>1, <1>2

LEMMA TopOfRange ==
    ASSUME NEW n \in Nat, NEW s \in SUBSET (1 .. (n + 1)), n + 1 \in s
    PROVE  Max(s) = n + 1
<1>1. n + 1 \in s /\ \A y \in s : n + 1 >= y
  OBVIOUS
<1>2. \A x \in s : (\A y \in s : x >= y) => x = n + 1
  OBVIOUS
<1> QED BY <1>1, <1>2 DEF Max

\* The recursion FoldLeft makes over n events, and that it has a solution.
FoldOf(iter, st, events, n) ==
    iter = [s \in SUBSET (1 .. n) |->
              IF s = {} THEN st ELSE Emit(iter[s \ {Max(s)}], events[Max(s)])]

LEMMA FoldExists ==
    ASSUME NEW st, NEW events, NEW n \in Nat
    PROVE  \E iter : FoldOf(iter, st, events, n)
<1> DEFINE Next1(g, s) == IF s = {} THEN st ELSE Emit(g[s \ {Max(s)}], events[Max(s)])
           Solves(g, k) == g = [s \in SUBSET (1 .. k) |-> Next1(g, s)]
           S == {k \in Nat : \E g : Solves(g, k)}
<1>1. 0 \in S
  <2>1. SUBSET (1 .. 0) = {{}}
    OBVIOUS
  <2>2. PICK g : g = [s \in SUBSET (1 .. 0) |-> st]
    OBVIOUS
  <2>3. Solves(g, 0)
    BY <2>1, <2>2
  <2> QED BY <2>3
<1>2. ASSUME NEW k \in Nat, k \in S
      PROVE  k + 1 \in S
  <2>1. PICK g : Solves(g, k)
    BY <1>2
  <2> HIDE DEF Next1
  <2>2. PICK h : h = [s \in SUBSET (1 .. (k + 1)) |-> Next1(g, s)]
    OBVIOUS
  <2>3. \A s \in SUBSET (1 .. k) : h[s] = g[s]
    <3>1. \A s \in SUBSET (1 .. k) : s \in SUBSET (1 .. (k + 1))
      OBVIOUS
    <3>2. \A s \in SUBSET (1 .. k) : g[s] = Next1(g, s)
      BY <2>1
    <3> QED BY <2>2, <3>1, <3>2
  <2>4. ASSUME NEW s \in SUBSET (1 .. (k + 1))
        PROVE  Next1(g, s) = Next1(h, s)
    <3>1. s \ {Max(s)} \in SUBSET (1 .. k)
      <4>1. CASE k + 1 \in s
        <5>1. Max(s) = k + 1
          BY <4>1, TopOfRange
        <5> QED BY <5>1
      <4>2. CASE k + 1 \notin s
        <5>1. s \in SUBSET (1 .. k)
          BY <4>2
        <5> QED BY <5>1
      <4> QED BY <4>1, <4>2
    <3> QED BY <2>3, <3>1 DEF Next1
  <2>5. Solves(h, k + 1)
    BY <2>2, <2>4
  <2> HIDE DEF Solves
  <2> QED BY <2>5
<1>3. n \in S
  <2> HIDE DEF S
  <2> QED BY <1>1, <1>2, Induct
<1> QED BY <1>3 DEF FoldOf

\* What each event carries from Q[k] to Q[k + 1], the events carry to Q[n].
LEMMA EmitAllFolds ==
    ASSUME NEW st, NEW events, NEW n \in Nat, DOMAIN events = 1 .. n,
           NEW Q, st \in Q[0],
           \A k \in 0 .. (n - 1) : \A s \in Q[k] : Emit(s, events[k + 1]) \in Q[k + 1]
    PROVE  EmitAll(st, events) \in Q[n]
<1> DEFINE Iter == CHOOSE iter : FoldOf(iter, st, events, n)
<1>1. FoldOf(Iter, st, events, n)
  BY FoldExists
<1>2. EmitAll(st, events) = Iter[1 .. n]
  BY DEF EmitAll, FoldLeft, MapThenFoldSet, FoldOf
<1> HIDE DEF Iter
<1> DEFINE S == {k \in Nat : k <= n => Iter[1 .. k] \in Q[k]}
<1>3. 0 \in S
  BY <1>1 DEF FoldOf
<1>4. ASSUME NEW k \in Nat, k \in S
      PROVE  k + 1 \in S
  <2> SUFFICES ASSUME k + 1 <= n PROVE Iter[1 .. (k + 1)] \in Q[k + 1]
    OBVIOUS
  <2>1. k + 1 \in 1 .. (k + 1) /\ 1 .. (k + 1) \in SUBSET (1 .. n)
    OBVIOUS
  <2>2. Max(1 .. (k + 1)) = k + 1
    BY <2>1, TopOfRange
  <2>3. (1 .. (k + 1)) \ {k + 1} = 1 .. k
    OBVIOUS
  <2>4. Iter[1 .. (k + 1)] = Emit(Iter[1 .. k], events[k + 1])
    BY <1>1, <2>1, <2>2, <2>3 DEF FoldOf
  <2> QED BY <1>4, <2>4
<1>5. n \in S
  <2> HIDE DEF S
  <2> QED BY <1>3, <1>4, Induct
<1> QED BY <1>2, <1>5

-----------------------------------------------------------------------------
(* What a replay reads.                                                       *)

\* In a journal without a gap no number is taken twice.
LEMMA SeqsDiffer ==
    ASSUME JournalTyped, GapFree, NEW q \in log, NEW r \in log, q.seq = r.seq
    PROVE  q = r
<1> DEFINE f == [x \in log |-> x.seq]
           n == Cardinality(log)
<1>1. n \in Nat /\ IsFiniteSet(log)
  BY FS_CardinalityType DEF JournalTyped
<1>2. IsFiniteSet(0 .. (n - 1)) /\ Cardinality(0 .. (n - 1)) = n
  BY <1>1, FS_Interval
<1>3. {x.seq : x \in log} = 0 .. (n - 1)
  BY DEF GapFree
<1> HIDE DEF n
<1>4. f \in Surjection(log, 0 .. (n - 1))
  <2>1. f \in [log -> 0 .. (n - 1)]
    BY <1>3
  <2>2. \A i \in 0 .. (n - 1) : \E x \in log : f[x] = i
    BY <1>3
  <2> HIDE DEF f, n
  <2> QED BY <2>1, <2>2, Fun_IsSurj
<1>5. f \in Injection(log, 0 .. (n - 1))
  <2> HIDE DEF f
  <2> QED BY <1>1, <1>2, <1>4, FS_Surjection DEF n
<1>6. f[q] = f[r]
  OBVIOUS
<1> HIDE DEF f
<1> QED BY <1>5, <1>6, Fun_InjectionProperties

\* The rows between two numbers are as many as the numbers.
Between(a, b) == {r \in log : a <= r.seq /\ r.seq <= b}

LEMMA RowsBetween ==
    ASSUME JournalTyped, GapFree, NEW a \in Nat, NEW b \in Int, b < Cardinality(log)
    PROVE  Cardinality(Between(a, b)) = IF a > b THEN 0 ELSE b - a + 1
<1> DEFINE S == {r \in log : a <= r.seq /\ r.seq <= b}
           At(i) == CHOOSE r \in log : r.seq = i
           f == [i \in a .. b |-> At(i)]
<1>1. Cardinality(log) \in Nat
  BY FS_CardinalityType DEF JournalTyped
<1>2. ASSUME NEW i \in a .. b PROVE \E r \in log : r.seq = i
  <2>1. i \in 0 .. (Cardinality(log) - 1)
    BY <1>1
  <2> QED BY <2>1 DEF GapFree
<1>3. \A i \in a .. b : At(i) \in log /\ At(i).seq = i
  BY <1>2
<1> HIDE DEF At
<1>4. f \in Bijection(a .. b, S)
  <2>1. f \in [a .. b -> S]
    BY <1>3
  <2>2. \A i, j \in a .. b : f[i] = f[j] => i = j
    BY <1>3
  <2>3. ASSUME NEW r \in S
        PROVE  \E i \in a .. b : f[i] = r
    <3>1. r \in log /\ r.seq \in a .. b
      BY DEF JournalTyped, Rows
    <3>2. At(r.seq) = r
      BY <1>3, <3>1, SeqsDiffer
    <3> QED BY <3>1, <3>2
  <2> HIDE DEF f, S
  <2> QED BY <2>1, <2>2, <2>3, Fun_IsBij
<1>5. ExistsBijection(a .. b, S)
  BY <1>4 DEF ExistsBijection
<1> HIDE DEF S, f
<1>6. IsFiniteSet(a .. b) /\ Cardinality(a .. b) = IF a > b THEN 0 ELSE b - a + 1
  BY FS_Interval
<1>7. IsFiniteSet(S) /\ Cardinality(S) = Cardinality(a .. b)
  BY <1>5, <1>6, FS_Bijection
<1> QED BY <1>6, <1>7 DEF S, Between

\* A replay from a cursor is the rows that follow it, one after another.
LEMMA AfterIs ==
    ASSUME JournalTyped, GapFree, NEW cursor \in Int, -1 <= cursor
    PROVE  \E m \in Nat :
             /\ DOMAIN After(cursor) = 1 .. m
             /\ \A i \in 1 .. m : After(cursor)[i] \in log /\ After(cursor)[i].seq = cursor + i
             /\ cursor + m < Cardinality(log) \/ m = 0
             /\ Cardinality(log) <= MaxEvents => Cardinality(log) - 1 <= cursor + m
<1> DEFINE n == Cardinality(log)
           rows == {r \in log : r.seq > cursor}
           Rank(r) == Cardinality({q \in rows : q.seq <= r.seq})
           m == IF Cardinality(rows) < MaxEvents THEN Cardinality(rows) ELSE MaxEvents
           row(i) == CHOOSE r \in rows : Rank(r) = i
<1>1. n \in Nat /\ MaxEvents \in Nat /\ cursor + 1 \in Nat
  BY FS_CardinalityType, RunConstants DEF JournalTyped
<1>2. \A r \in log : r.seq \in Nat /\ r.seq <= n - 1
  BY <1>1 DEF GapFree
<1>3. Cardinality(rows) = IF cursor + 1 > n - 1 THEN 0 ELSE n - 1 - cursor
  <2>1. rows = Between(cursor + 1, n - 1)
    BY <1>1, <1>2 DEF Between
  <2>2. n - 1 \in Int /\ n - 1 < Cardinality(log)
    BY <1>1
  <2> HIDE DEF rows, n
  <2>3. Cardinality(rows) = IF cursor + 1 > n - 1 THEN 0 ELSE (n - 1) - (cursor + 1) + 1
    BY <1>1, <2>1, <2>2, RowsBetween
  <2> QED BY <1>1, <2>3
<1>4. ASSUME NEW r \in rows
      PROVE  Rank(r) = r.seq - cursor
  <2>1. r.seq \in Nat /\ r.seq <= n - 1 /\ r.seq > cursor
    BY <1>2
  <2>2. {q \in rows : q.seq <= r.seq} = Between(cursor + 1, r.seq)
    BY <1>2 DEF Between
  <2>3. r.seq < Cardinality(log)
    BY <1>1, <2>1
  <2> HIDE DEF rows, n
  <2>4. Cardinality(Between(cursor + 1, r.seq))
           = IF cursor + 1 > r.seq THEN 0 ELSE r.seq - (cursor + 1) + 1
    BY <1>1, <2>1, <2>3, RowsBetween
  <2>5. ~ (cursor + 1 > r.seq)
    BY <1>1, <2>1
  <2>6. r.seq - (cursor + 1) + 1 = r.seq - cursor
    BY <2>1
  <2> QED BY <2>2, <2>4, <2>5, <2>6 DEF rows
<1> HIDE DEF Rank
<1>5. m \in Nat /\ m <= Cardinality(rows)
  BY <1>1, <1>3
<1>6. ASSUME NEW i \in 1 .. m
      PROVE  row(i) \in log /\ row(i).seq = cursor + i
  <2>1. cursor + i \in 0 .. (n - 1)
    BY <1>1, <1>3, <1>5
  <2>2. PICK r \in log : r.seq = cursor + i
    BY <2>1 DEF GapFree
  <2>3. r \in rows /\ Rank(r) = i
    BY <1>4, <2>2
  <2>4. row(i) \in rows /\ Rank(row(i)) = i
    BY <2>3
  <2> QED BY <1>2, <1>4, <2>4
<1>7. After(cursor) = [i \in 1 .. m |-> row(i)]
  BY DEF After, Rank
<1> HIDE DEF rows, row, m
<1>8. DOMAIN After(cursor) = 1 .. m /\ \A i \in 1 .. m : After(cursor)[i] = row(i)
  BY <1>7
<1>9. cursor + m < n \/ m = 0
  BY <1>1, <1>3, <1>5
<1>10. n <= MaxEvents => n - 1 <= cursor + m
  BY <1>1, <1>3, <1>5 DEF m
<1> QED BY <1>5, <1>6, <1>8, <1>9, <1>10
-----------------------------------------------------------------------------
(* The types of a connection and of what is not in JournalTyped.              *)

\* A connection: where it is, what it was sent and what it keeps back.
Connections ==
    [pc : {"off", "opening", "catchup", "replayed", "live", "closed"}, settled : BOOLEAN,
     last : {i \in Int : -1 <= i}, pending : Seq(Rows), got : Seq(Rows)]

StreamTyped == stream \in [Streams -> Connections]

RunTyped ==
    /\ status \in {"pending", "running"} \cup TerminalStatuses
    /\ exec \in {"off", "owned", "starting", "agent", "emitting", "completing",
                 "cancelling", "failing", "closing", "ended", "lost", "dead"}
    /\ aborted \in BOOLEAN /\ swallowed \in BOOLEAN

\* What #emit, deliver and a replay make of a connection.
LEMMA EmitTyped ==
    ASSUME NEW st \in Connections, NEW e \in Rows
    PROVE  Emit(st, e) \in Connections
<1>1. e.seq \in Nat /\ st.got \in Seq(Rows)
  BY DEF Rows, Connections
<1>2. Append(st.got, e) \in Seq(Rows)
  BY <1>1
<1>3. CASE st.pc = "closed" \/ e.seq <= st.last
  BY <1>3 DEF Emit
<1>4. CASE ~ (st.pc = "closed" \/ e.seq <= st.last)
  <2> HIDE DEF Rows
  <2>1. st \in [pc : {"off", "opening", "catchup", "replayed", "live", "closed"}, settled : BOOLEAN,
                last : {i \in Int : -1 <= i}, pending : Seq(Rows), got : Seq(Rows)]
    BY DEF Connections
  <2>2. Emit(st, e) = [st EXCEPT !.last = e.seq, !.got = Append(@, e),
                                 !.pc = IF Terminal(e) THEN "closed" ELSE @]
    BY <1>4 DEF Emit
  <2>3. e.seq \in {i \in Int : -1 <= i}
    BY <1>1
  <2>4. (IF Terminal(e) THEN "closed" ELSE st.pc)
           \in {"off", "opening", "catchup", "replayed", "live", "closed"}
    BY <2>1
  <2> QED BY <1>2, <2>1, <2>2, <2>3, <2>4 DEF Connections
<1> QED BY <1>3, <1>4

LEMMA EmitAllTyped ==
    ASSUME NEW st \in Connections, NEW events, NEW n \in Nat, DOMAIN events = 1 .. n,
           \A i \in 1 .. n : events[i] \in Rows
    PROVE  EmitAll(st, events) \in Connections
<1> DEFINE Q == [k \in 0 .. n |-> Connections]
<1>1. st \in Q[0]
  OBVIOUS
<1>2. \A k \in 0 .. (n - 1) : \A s \in Q[k] : Emit(s, events[k + 1]) \in Q[k + 1]
  BY EmitTyped
<1>3. Q[n] = Connections
  OBVIOUS
<1> HIDE DEF Q
<1> QED BY <1>1, <1>2, <1>3, EmitAllFolds

LEMMA DeliverTyped ==
    ASSUME NEW st \in Connections, NEW e \in Rows
    PROVE  Deliver(st, e) \in Connections
<1>1. Emit(st, e) \in Connections
  BY EmitTyped
<1>2. st.pending \in Seq(Rows)
  BY DEF Connections
<1>3. Append(st.pending, e) \in Seq(Rows)
  BY <1>2
<1>4. [st EXCEPT !.pending = Append(@, e)] \in Connections
  BY <1>3 DEF Connections
<1> QED BY <1>1, <1>4 DEF Deliver

LEMMA RowOfTyped ==
    ASSUME JournalTyped, NEW w \in Writers
    PROVE  RowOf(w) \in Rows
BY DEF JournalTyped, Calls, RowOf, Rows

LEMMA CursorTyped ==
    ASSUME NEW st \in Connections
    PROVE  Cursor(st) \in {i \in Int : -1 <= i}
<1>1. st.got \in Seq(Rows)
  BY DEF Connections
<1>2. CASE st.got # <<>>
  <2>1. Len(st.got) \in 1 .. Len(st.got)
    BY <1>1, <1>2
  <2>2. st.got[Len(st.got)] \in Rows
    BY <1>1, <2>1
  <2> QED BY <1>2, <2>2 DEF Cursor, Last, Rows
<1> QED BY <1>2 DEF Cursor

\* A step of one connection.
LEMMA ConnectionTyped ==
    ASSUME JournalInv, StreamTyped, NEW s \in Streams, StreamStep(s) \/ Drop(s)
    PROVE  StreamTyped'
<1>1. stream[s] \in Connections /\ <<>> \in Seq(Rows)
  BY DEF StreamTyped
<1> SUFFICES \E st \in Connections : stream' = [stream EXCEPT ![s] = st]
  BY DEF StreamTyped
<1>2. CASE Replay(s)
  <2> DEFINE st == [stream[s] EXCEPT !.pc = "replayed"]
  <2>1. st \in Connections /\ stream[s].last \in Int /\ -1 <= stream[s].last
    BY <1>1 DEF Connections
  <2>2. PICK m \in Nat :
          /\ DOMAIN After(stream[s].last) = 1 .. m
          /\ \A i \in 1 .. m : After(stream[s].last)[i] \in log
    BY <2>1, AfterIs DEF JournalInv, JournalExact
  <2>3. \A i \in 1 .. m : After(stream[s].last)[i] \in Rows
    BY <2>2 DEF JournalInv, JournalTyped
  <2> HIDE DEF st
  <2>4. EmitAll(st, After(stream[s].last)) \in Connections
    BY <2>1, <2>2, <2>3, EmitAllTyped
  <2> QED BY <1>2, <2>4 DEF Replay, Set, st
<1>3. CASE Activate(s)
  <2> DEFINE st == [stream[s] EXCEPT !.pc = "live", !.pending = <<>>]
             events == stream[s].pending
  <2>1. st \in Connections /\ events \in Seq(Rows)
    BY <1>1 DEF Connections
  <2>2. /\ Len(events) \in Nat /\ DOMAIN events = 1 .. Len(events)
        /\ \A i \in 1 .. Len(events) : events[i] \in Rows
    BY <2>1
  <2> HIDE DEF st, events
  <2>3. EmitAll(st, events) \in Connections
    BY <2>1, <2>2, EmitAllTyped
  <2>4. [stream[s] EXCEPT !.pc = "closed", !.settled = FALSE, !.pending = <<>>] \in Connections
    BY <1>1 DEF Connections
  <2> QED BY <1>3, <2>3, <2>4 DEF Activate, Set, st, events
<1>4. CASE Subscribe(s)
  <2>1. Cursor(stream[s]) \in {i \in Int : -1 <= i}
    BY <1>1, CursorTyped
  <2>2. [stream[s] EXCEPT !.pc = "catchup", !.last = Cursor(stream[s]), !.pending = <<>>] \in Connections
    BY <1>1, <2>1 DEF Connections
  <2> QED BY <1>4, <2>2 DEF Subscribe, Set
<1>5. CASE Open(s)
  <2> DEFINE over == status \in TerminalStatuses
  <2>1. over \in BOOLEAN
    OBVIOUS
  <2> HIDE DEF over
  <2>2. [stream[s] EXCEPT !.pc = "opening", !.settled = over] \in Connections
    BY <1>1, <2>1 DEF Connections
  <2> QED BY <1>5, <2>2 DEF Open, Set, over
<1>6. CASE Drop(s)
  <2>1. [stream[s] EXCEPT !.pc = "off", !.settled = FALSE, !.pending = <<>>] \in Connections
    BY <1>1 DEF Connections
  <2> QED BY <1>6, <2>1 DEF Drop, Set
<1>7. CASE Reconnect(s)
  <2>1. [stream[s] EXCEPT !.pc = "off"] \in Connections
    BY <1>1 DEF Connections
  <2> QED BY <1>7, <2>1 DEF Reconnect, Set
<1> QED BY <1>2, <1>3, <1>4, <1>5, <1>6, <1>7 DEF StreamStep

\* Who moves a connection.
LEMMA StreamMoves ==
    ASSUME [Next]_vars
    PROVE  \/ stream' = stream
           \/ Restart
           \/ \E w \in Writers : Broadcast(w)
           \/ \E s \in Streams : StreamStep(s) \/ Drop(s)
<1>1. CASE ExecStep \/ ExecThrows
  BY <1>1 DEF ExecStep, Start, SetRunning, Started, AgentEmits, Emitted, AgentEnds, Finalise, Close,
              Disowned, ExecThrows, SetRunningThrows, FinaliseThrows, FinaliseForgets
<1>2. ASSUME NEW w \in Writers, List(w) \/ Insert(w) \/ AppendThrows(w)
      PROVE  stream' = stream
  BY <1>2 DEF List, Insert, AppendThrows
<1>3. CASE \/ \E p \in Posts : Post(p)
           \/ \E c \in Cancels : CancelStep(c)
           \/ UNCHANGED vars
  BY <1>3 DEF Post, CancelStep, ReadStatus, Abort, SetCancelled, vars
<1> QED BY <1>1, <1>2, <1>3 DEF Next, AppendStep

LEMMA RestartTyped ==
    ASSUME StreamTyped, Restart
    PROVE  StreamTyped'
<1>1. \A s \in Streams : stream[s] \in Connections /\ <<>> \in Seq(Rows)
  BY DEF StreamTyped
<1>2. \A s \in Streams : [stream[s] EXCEPT !.pc = "off", !.settled = FALSE, !.pending = <<>>] \in Connections
  BY <1>1 DEF Connections
<1> QED BY <1>1, <1>2 DEF Restart, StreamTyped

LEMMA StreamTypedKeeps ==
    ASSUME JournalInv, StreamTyped, [Next]_vars
    PROVE  StreamTyped'
<1>1. CASE stream' = stream
  BY <1>1 DEF StreamTyped
<1>2. ASSUME NEW w \in Writers, Broadcast(w)
      PROVE  StreamTyped'
  <2>1. RowOf(w) \in Rows
    BY RowOfTyped DEF JournalInv
  <2>2. \A s \in Streams : Deliver(stream[s], RowOf(w)) \in Connections
    BY <2>1, DeliverTyped DEF StreamTyped
  <2> QED BY <1>2, <2>2 DEF Broadcast, StreamTyped
<1> QED BY <1>1, <1>2, StreamMoves, RestartTyped, ConnectionTyped

LEMMA RunTypedKeeps ==
    ASSUME RunTyped, [Next]_vars
    PROVE  RunTyped'
<1>0. CASE Finalise
  <2>1. \A how \in DOMAIN FinalStatus : FinalStatus[how] \in TerminalStatuses
    BY DEF FinalStatus, TerminalStatuses
  <2> QED BY <1>0, <2>1 DEF Finalise, RunTyped, boundVars
<1>1. CASE (ExecStep \/ ExecThrows) /\ ~ Finalise
  BY <1>1 DEF ExecStep, Start, SetRunning, Started, AgentEmits, Emitted, AgentEnds, Close,
              Disowned, ExecThrows, SetRunningThrows, FinaliseThrows, FinaliseForgets, Leave,
              Caught, RunTyped, boundVars
<1>2. CASE Restart
  BY <1>2 DEF Restart, RunTyped
<1>3. ASSUME NEW c \in Cancels, CancelStep(c)
      PROVE  RunTyped'
  BY <1>3 DEF CancelStep, ReadStatus, Abort, SetCancelled, RunTyped, TerminalStatuses, boundVars
<1>4. CASE UNCHANGED <<status, exec, aborted, swallowed>>
  BY <1>4 DEF RunTyped
<1>5. CASE \/ \E w \in Writers : AppendStep(w) \/ AppendThrows(w)
           \/ \E p \in Posts : Post(p)
           \/ \E s \in Streams : StreamStep(s) \/ Drop(s)
           \/ UNCHANGED vars
  BY <1>4, <1>5 DEF AppendStep, AppendThrows, List, Insert, Broadcast, Post, StreamStep, Drop, Open,
                    Subscribe, Replay, Activate, Reconnect, Set, boundVars, vars
<1> QED BY <1>0, <1>1, <1>2, <1>3, <1>5 DEF Next

LEMMA InitTyped == Init => StreamTyped /\ RunTyped
<1> SUFFICES ASSUME Init PROVE StreamTyped /\ RunTyped
  OBVIOUS
<1>1. [pc |-> "off", settled |-> FALSE, last |-> -1, pending |-> <<>>, got |-> <<>>] \in Connections
  <2>1. <<>> \in Seq(Rows)
    OBVIOUS
  <2> HIDE DEF Rows
  <2> QED BY <2>1 DEF Connections
<1> QED BY <1>1 DEF Init, StreamTyped, RunTyped

LEMMA TypedAlways == Spec => [](StreamTyped /\ RunTyped)
<1>1. JournalInv /\ StreamTyped /\ RunTyped /\ [Next]_vars => (StreamTyped /\ RunTyped)'
  BY StreamTypedKeeps, RunTypedKeeps
<1> QED BY InitTyped, JournalAlways, <1>1, PTL DEF Spec

\* Every variable keeps its type, the connections and what they were sent
\* included (me-run-executor.ts, SseSubscriber and MeRunExecutor).
THEOREM RunIsTyped == Spec => []TypeOK
<1>1. ChainInv /\ StreamTyped /\ RunTyped => TypeOK
  <2> SUFFICES ASSUME ChainInv, StreamTyped, RunTyped PROVE TypeOK
    OBVIOUS
  <2>1. ASSUME NEW s \in Streams
        PROVE  /\ stream[s].pc \in {"off", "opening", "catchup", "replayed", "live", "closed"}
               /\ stream[s].last \in Int
               /\ Range(stream[s].pending) \cup Range(stream[s].got) \subseteq Rows
    <3>1. /\ stream[s].pc \in {"off", "opening", "catchup", "replayed", "live", "closed"}
          /\ stream[s].last \in Int
          /\ stream[s].pending \in Seq(Rows) /\ stream[s].got \in Seq(Rows)
      BY DEF StreamTyped, Connections
    <3> QED BY <3>1 DEF Range
  <2> QED BY <2>1 DEF TypeOK, ChainInv, JournalInv, CancelTyped, RunTyped
<1> QED BY ChainAlways, TypedAlways, <1>1, PTL
-----------------------------------------------------------------------------
(* What a connection was sent.                                                *)

\* The length of the journal without an event that is still to be broadcast.
Announced == IF \E w \in Writers : append[w].pc = "written" THEN Cardinality(log) - 1 ELSE Cardinality(log)

\* What was sent is the journal from its start, nothing after the end.
Exact(st, rows) == \A i \in DOMAIN st.got : st.got[i] \in rows /\ st.got[i].seq = i - 1
Unaware(st) == \A i \in DOMAIN st.got : ~ Terminal(st.got[i])
Sent(st, rows) ==
    /\ Exact(st, rows)
    /\ st.pc # "closed" => Unaware(st)
    /\ st.pc \in {"catchup", "replayed", "live"} => st.last = Len(st.got) - 1

\* While the executor is there, a stream misses nothing: what is kept back runs
\* up to the last broadcast, from where the replay stopped or before.
Following(st, rows, next) ==
    /\ st.pc = "live" => next <= st.last + 1
    /\ st.pc \in {"catchup", "replayed"} =>
         \A i \in DOMAIN st.pending :
             st.pending[i] \in rows /\ st.pending[i].seq = next - Len(st.pending) + i - 1
    /\ st.pc = "replayed" => next - Len(st.pending) <= st.last + 1

\* After the executor's end only a stream that has not been flushed is still to
\* learn of it, and what it keeps back leads there without a gap.
Finishing(st, rows) ==
    /\ st.pc # "live"
    /\ st.pc = "replayed" =>
         \E k \in DOMAIN st.pending :
             /\ Terminal(st.pending[k])
             /\ st.pending[k].seq - k <= st.last
             /\ \A i \in 1 .. k :
                  st.pending[i] \in rows /\ st.pending[i].seq = st.pending[k].seq - k + i

Good(st, rows, next, how) ==
    /\ how # "lost" => Sent(st, rows)
    /\ how \notin {"ended", "lost"} => Following(st, rows, next)
    /\ how = "ended" => Finishing(st, rows)

\* What is about to be broadcast is the journal's last event, and not its end
\* once the executor's own append is through.
WrittenLast ==
    Kept => \A w \in Writers : append[w].pc = "written" => append[w].seq = Cardinality(log) - 1
ClosingInv ==
    exec = "closing" /\ append[Exec].pc = "done" =>
        \A w \in Writers : append[w].pc = "written" => append[w].kind \notin TerminalKinds

StreamInv ==
    /\ WrittenLast
    /\ ClosingInv
    /\ \A s \in Streams : Good(stream[s], log, Announced, exec)

-----------------------------------------------------------------------------
(* Emitting events one after another.                                         *)

Distinct(rows) == \A q, r \in rows : q.seq = r.seq => q = r

\* A connection that can take the next event, and one that was sent the end.
Going(st, rows, where) ==
    st.pc = where /\ Exact(st, rows) /\ Unaware(st) /\ st.last = Len(st.got) - 1
Over(st, rows) == st.pc = "closed" /\ Exact(st, rows)

\* Whoever was sent everything up to the end knows of it.
LEMMA EndReached ==
    ASSUME NEW rows \in SUBSET Rows, Distinct(rows), NEW st \in Connections, NEW where,
           Going(st, rows, where), NEW t \in rows, Terminal(t), t.seq <= st.last
    PROVE  FALSE
<1>1. st.got \in Seq(Rows) /\ t.seq \in Nat
  BY DEF Connections, Rows
<1>2. t.seq + 1 \in DOMAIN st.got
  BY <1>1 DEF Going
<1>3. st.got[t.seq + 1] \in rows /\ st.got[t.seq + 1].seq = t.seq
  BY <1>1, <1>2 DEF Going, Exact
<1>4. st.got[t.seq + 1] = t
  BY <1>3 DEF Distinct
<1> QED BY <1>2, <1>4 DEF Going, Unaware

\* #emit of the next event.
LEMMA EmitNext ==
    ASSUME NEW rows \in SUBSET Rows, NEW st \in Connections, NEW where \in {"replayed", "live"},
           Going(st, rows, where), NEW e \in rows, e.seq = st.last + 1
    PROVE  \/ Over(Emit(st, e), rows)
           \/ Going(Emit(st, e), rows, where) /\ Emit(st, e).last = st.last + 1
<1> DEFINE new == Emit(st, e)
<1>1. /\ st.got \in Seq(Rows) /\ e \in Rows /\ st.last \in Int /\ Len(st.got) \in Nat
      /\ st.pc = where
  BY DEF Connections, Going
<1>2. ~ (st.pc = "closed" \/ e.seq <= st.last)
  BY <1>1
<1>3. new = [st EXCEPT !.last = e.seq, !.got = Append(@, e),
                       !.pc = IF Terminal(e) THEN "closed" ELSE @]
  BY <1>2 DEF Emit
<1>4. st \in [pc : {"off", "opening", "catchup", "replayed", "live", "closed"}, settled : BOOLEAN,
              last : {i \in Int : -1 <= i}, pending : Seq(Rows), got : Seq(Rows)]
  BY DEF Connections
<1>5. new.last = e.seq /\ new.got = Append(st.got, e) /\ new.pc = IF Terminal(e) THEN "closed" ELSE where
  BY <1>1, <1>3, <1>4
<1> HIDE DEF new
<1>6. /\ DOMAIN new.got = 1 .. (Len(st.got) + 1) /\ Len(new.got) = Len(st.got) + 1
      /\ \A i \in 1 .. Len(st.got) : new.got[i] = st.got[i]
      /\ new.got[Len(st.got) + 1] = e
  BY <1>1, <1>5
<1>7. e.seq = Len(st.got)
  BY <1>1 DEF Going
<1>8. Exact(new, rows)
  <2> SUFFICES ASSUME NEW i \in 1 .. (Len(st.got) + 1)
               PROVE  new.got[i] \in rows /\ new.got[i].seq = i - 1
    BY <1>6 DEF Exact
  <2>1. CASE i = Len(st.got) + 1
    BY <1>1, <1>6, <1>7, <2>1
  <2>2. CASE i \in 1 .. Len(st.got)
    BY <1>1, <1>6, <2>2, SMTT(20) DEF Going, Exact
  <2> QED BY <1>1, <2>1, <2>2
<1>9. ~ Terminal(e) => Unaware(new)
  BY <1>1, <1>6 DEF Going, Unaware
<1>10. CASE Terminal(e)
  BY <1>5, <1>8, <1>10 DEF Over, new
<1>11. CASE ~ Terminal(e)
  BY <1>1, <1>5, <1>6, <1>7, <1>8, <1>9, <1>11 DEF Going, new
<1> QED BY <1>10, <1>11

\* A connection that is closed takes nothing, and no other takes a number again.
LEMMA EmitAgain ==
    ASSUME NEW st, NEW e, st.pc = "closed" \/ e.seq <= st.last
    PROVE  Emit(st, e) = st
BY DEF Emit

\* Events without a gap, which begin where the connection stands or before, up to
\* the last of them or up to one that ends the run: they take it to the end or
\* at least as far as they go.
LEMMA EmitAllFollows ==
    ASSUME NEW rows \in SUBSET Rows, Distinct(rows),
           NEW st \in Connections, NEW where \in {"replayed", "live"}, Going(st, rows, where),
           NEW events, NEW n \in Nat, DOMAIN events = 1 .. n, \A i \in 1 .. n : events[i] \in Rows,
           NEW f \in Int, f <= st.last + 1,
           NEW k \in 0 .. n, k = n \/ (k \in 1 .. n /\ Terminal(events[k])),
           \A i \in 1 .. k : events[i] \in rows /\ events[i].seq = f + i - 1
    PROVE  /\ EmitAll(st, events) \in Connections
           /\ EmitAll(st, events).pending = st.pending
           /\ \/ Over(EmitAll(st, events), rows)
              \/ k = n /\ Going(EmitAll(st, events), rows, where) /\ f + n - 1 <= EmitAll(st, events).last
<1> DEFINE P(c, j) ==
             /\ c \in Connections /\ c.pending = st.pending
             /\ \/ Over(c, rows)
                \/ j <= k /\ Going(c, rows, where) /\ f + j - 1 <= c.last
           Q == [j \in 0 .. n |-> {c \in Connections : P(c, j)}]
<1>0. st.last \in Int /\ 0 \in 0 .. n /\ n \in 0 .. n
  BY DEF Connections
<1>1. st \in Q[0]
  BY <1>0
<1>2. ASSUME NEW j \in 0 .. (n - 1), NEW c \in Connections, P(c, j)
      PROVE  P(Emit(c, events[j + 1]), j + 1)
  <2> DEFINE e == events[j + 1]
  <2>1. j + 1 \in 1 .. n /\ j \in Int /\ c.last \in Int /\ e \in Rows /\ e.seq \in Nat
    BY DEF Connections, Rows
  <2>2. Emit(c, e) \in Connections
    BY <2>1, EmitTyped
  <2>3. Emit(c, e).pending = c.pending
    <3>1. c \in [pc : {"off", "opening", "catchup", "replayed", "live", "closed"}, settled : BOOLEAN,
                 last : {i \in Int : -1 <= i}, pending : Seq(Rows), got : Seq(Rows)]
      BY DEF Connections
    <3> QED BY <3>1 DEF Emit
  <2>4. CASE Over(c, rows)
    <3>1. Emit(c, e) = c
      BY <2>4, EmitAgain DEF Over
    <3> QED BY <1>2, <2>4, <3>1
  <2>5. CASE j <= k /\ Going(c, rows, where) /\ f + j - 1 <= c.last
    <3>1. j + 1 <= k
      <4> SUFFICES ASSUME k = j, Terminal(events[k]), k \in 1 .. n PROVE FALSE
        BY <2>1, <2>5
      <4>1. events[k] \in rows /\ events[k].seq <= c.last
        BY <2>5
      <4> QED BY <2>5, <4>1, EndReached
    <3>2. e \in rows /\ e.seq = f + j
      BY <2>1, <3>1
    <3>3. CASE e.seq <= c.last
      <4>1. Emit(c, e) = c
        BY <3>3, EmitAgain
      <4>2. f + (j + 1) - 1 <= c.last
        BY <2>1, <3>2, <3>3
      <4> QED BY <1>2, <2>5, <3>1, <4>1, <4>2
    <3>4. CASE ~ (e.seq <= c.last)
      <4>1. e.seq = c.last + 1
        BY <2>1, <2>5, <3>2, <3>4
      <4>2. \/ Over(Emit(c, e), rows)
            \/ Going(Emit(c, e), rows, where) /\ Emit(c, e).last = c.last + 1
        BY <2>5, <3>2, <4>1, EmitNext
      <4>3. f + (j + 1) - 1 <= c.last + 1
        BY <2>1, <3>2, <4>1
      <4> HIDE DEF e
      <4>4. P(Emit(c, e), j + 1)
        BY <1>2, <2>2, <2>3, <3>1, <4>2, <4>3
      <4> QED BY <4>4 DEF e
    <3> QED BY <3>3, <3>4
  <2> QED BY <1>2, <2>4, <2>5
<1>3. \A j \in 0 .. (n - 1) : \A c \in Q[j] : Emit(c, events[j + 1]) \in Q[j + 1]
  <2> HIDE DEF P
  <2> SUFFICES ASSUME NEW j \in 0 .. (n - 1), NEW c \in Q[j]
               PROVE  Emit(c, events[j + 1]) \in Q[j + 1]
    OBVIOUS
  <2>1. j \in 0 .. n /\ j + 1 \in 0 .. n
    OBVIOUS
  <2>2. P(Emit(c, events[j + 1]), j + 1)
    BY <1>2, <2>1
  <2>3. Emit(c, events[j + 1]) \in Connections
    BY <2>2 DEF P
  <2> QED BY <2>1, <2>2, <2>3
<1>4. EmitAll(st, events) \in Q[n]
  <2> HIDE DEF Q
  <2> QED BY <1>1, <1>3, EmitAllFolds
<1>5. P(EmitAll(st, events), n)
  <2> HIDE DEF P
  <2> QED BY <1>0, <1>4
<1>6. n <= k => k = n
  OBVIOUS
<1> QED BY <1>5, <1>6

-----------------------------------------------------------------------------
(* What the steps of a connection, a broadcast and the end make of it.        *)

LEMMA DistinctLog ==
    ASSUME JournalInv
    PROVE  Distinct(log) /\ log \in SUBSET Rows /\ Cardinality(log) \in Nat
BY SeqsDiffer, FS_CardinalityType DEF JournalInv, JournalTyped, JournalExact, Distinct

\* A replay that reaches the journal's length takes the connection to its end.
LEMMA ReplayFollows ==
    ASSUME JournalInv, NEW st \in Connections, st.pc = "catchup", Sent(st, log),
           NEW new, new = EmitAll([st EXCEPT !.pc = "replayed"], After(st.last))
    PROVE  /\ new \in Connections
           /\ new.pending = st.pending
           /\ \/ Over(new, log)
              \/ /\ Going(new, log, "replayed")
                 /\ Cardinality(log) <= MaxEvents => Cardinality(log) - 1 <= new.last
<1> DEFINE old == [st EXCEPT !.pc = "replayed"]
<1>1. /\ old \in Connections
      /\ old.pc = "replayed" /\ old.got = st.got /\ old.last = st.last /\ old.pending = st.pending
      /\ st.last \in Int /\ -1 <= st.last
  BY DEF Connections
<1> HIDE DEF old
<1>2. Going(old, log, "replayed")
  BY <1>1 DEF Sent, Going, Exact, Unaware
<1>3. PICK m \in Nat :
        /\ DOMAIN After(st.last) = 1 .. m
        /\ \A i \in 1 .. m : After(st.last)[i] \in log /\ After(st.last)[i].seq = st.last + i
        /\ st.last + m < Cardinality(log) \/ m = 0
        /\ Cardinality(log) <= MaxEvents => Cardinality(log) - 1 <= st.last + m
  BY <1>1, AfterIs DEF JournalInv, JournalExact
<1> DEFINE events == After(st.last)
           f == st.last + 1
<1>4. /\ Distinct(log) /\ log \in SUBSET Rows
      /\ \A i \in 1 .. m : events[i] \in Rows
      /\ f \in Int /\ f <= old.last + 1
      /\ m \in 0 .. m
      /\ \A i \in 1 .. m : events[i] \in log /\ events[i].seq = f + i - 1
      /\ DOMAIN events = 1 .. m
      /\ "replayed" \in {"replayed", "live"}
  BY <1>1, <1>3, DistinctLog
<1>5. f + m - 1 = st.last + m
  BY <1>1
<1> HIDE DEF events, f
<1>6. /\ EmitAll(old, events) \in Connections
      /\ EmitAll(old, events).pending = old.pending
      /\ \/ Over(EmitAll(old, events), log)
         \/ Going(EmitAll(old, events), log, "replayed") /\ f + m - 1 <= EmitAll(old, events).last
  BY <1>1, <1>2, <1>4, EmitAllFollows
<1>7. new = EmitAll(old, events)
  BY DEF old, events
<1>8. new.last \in Int /\ Cardinality(log) \in Nat
  BY <1>6, <1>7, DistinctLog DEF Connections
<1> QED BY <1>1, <1>3, <1>5, <1>6, <1>7, <1>8

LEMMA Flushing ==
    ASSUME NEW st \in Connections, NEW old, old = [st EXCEPT !.pc = "live", !.pending = <<>>]
    PROVE  /\ old \in Connections
           /\ old.pc = "live" /\ old.got = st.got /\ old.last = st.last
           /\ st.pending \in Seq(Rows) /\ Len(st.pending) \in Nat /\ st.last \in Int
<1>1. <<>> \in Seq(Rows)
  OBVIOUS
<1>2. st.pending \in Seq(Rows) /\ st.last \in Int
  BY DEF Connections
<1> HIDE DEF Rows
<1>3. old \in Connections
  BY <1>1 DEF Connections
<1>4. old.pc = "live" /\ old.got = st.got /\ old.last = st.last
  BY DEF Connections
<1> QED BY <1>2, <1>3, <1>4

\* The flush of what was kept back, while the executor is there.
LEMMA FlushFollows ==
    ASSUME NEW rows \in SUBSET Rows, Distinct(rows), NEW next \in Int, NEW st \in Connections,
           st.pc = "replayed", Sent(st, rows), Following(st, rows, next),
           NEW new, new = EmitAll([st EXCEPT !.pc = "live", !.pending = <<>>], st.pending)
    PROVE  Over(new, rows) \/ (Going(new, rows, "live") /\ next - 1 <= new.last)
<1> DEFINE old == [st EXCEPT !.pc = "live", !.pending = <<>>]
           events == st.pending
           n == Len(st.pending)
           f == next - Len(st.pending)
<1>1. /\ old \in Connections
      /\ old.pc = "live" /\ old.got = st.got /\ old.last = st.last
      /\ events \in Seq(Rows) /\ n \in Nat
  BY Flushing
<1>2. DOMAIN events = 1 .. n /\ \A i \in 1 .. n : events[i] \in Rows
  BY <1>1
<1>3. /\ f \in Int /\ f <= old.last + 1 /\ n \in 0 .. n
      /\ \A i \in 1 .. n : events[i] \in rows /\ events[i].seq = f + i - 1
      /\ f + n - 1 = next - 1
      /\ "live" \in {"replayed", "live"}
  BY <1>1, <1>2 DEF Following
<1>4. new = EmitAll(old, events)
  OBVIOUS
<1> HIDE DEF old, events, n, f
<1>5. Going(old, rows, "live")
  BY <1>1 DEF Sent, Going, Exact, Unaware
<1> QED BY <1>1, <1>2, <1>3, <1>4, <1>5, EmitAllFollows

\* The flush after the executor's end closes the connection.
LEMMA FlushFinishes ==
    ASSUME NEW rows \in SUBSET Rows, Distinct(rows), NEW st \in Connections,
           st.pc = "replayed", Sent(st, rows), Finishing(st, rows),
           NEW new, new = EmitAll([st EXCEPT !.pc = "live", !.pending = <<>>], st.pending)
    PROVE  Over(new, rows)
<1> DEFINE old == [st EXCEPT !.pc = "live", !.pending = <<>>]
           events == st.pending
           n == Len(st.pending)
<1>1. /\ old \in Connections
      /\ old.pc = "live" /\ old.got = st.got /\ old.last = st.last
      /\ events \in Seq(Rows) /\ n \in Nat
      /\ st.last \in Int
  BY Flushing
<1>2. DOMAIN events = 1 .. n /\ \A i \in 1 .. n : events[i] \in Rows
  BY <1>1
<1>3. PICK k \in 1 .. n :
        /\ Terminal(events[k])
        /\ events[k].seq - k <= st.last
        /\ \A i \in 1 .. k : events[i] \in rows /\ events[i].seq = events[k].seq - k + i
  BY <1>2 DEF Finishing
<1> DEFINE f == events[k].seq - k + 1
<1>4. events[k] \in Rows /\ events[k].seq \in Nat
  BY <1>2 DEF Rows
<1>5. /\ f \in Int /\ f <= old.last + 1 /\ k \in 0 .. n /\ k \in 1 .. n
      /\ \A i \in 1 .. k : events[i] \in rows /\ events[i].seq = f + i - 1
      /\ "live" \in {"replayed", "live"}
  BY <1>1, <1>2, <1>3, <1>4
<1>6. new = EmitAll(old, events)
  OBVIOUS
<1>7. f + k - 1 = events[k].seq
  BY <1>4
<1> HIDE DEF old, events, n, f
<1>8. Going(old, rows, "live")
  BY <1>1 DEF Sent, Going, Exact, Unaware
<1>9. /\ new \in Connections
      /\ \/ Over(new, rows)
         \/ k = n /\ Going(new, rows, "live") /\ f + n - 1 <= new.last
  <2>1. k = n \/ (k \in 1 .. n /\ Terminal(events[k]))
    BY <1>3
  <2>2. n \in Nat /\ old \in Connections
    BY <1>1
  <2> QED BY <1>2, <1>5, <1>6, <1>8, <2>1, <2>2, EmitAllFollows, SMTT(20)
<1>10. k = n /\ Going(new, rows, "live") /\ f + n - 1 <= new.last => FALSE
  <2> SUFFICES ASSUME Going(new, rows, "live"), events[k].seq <= new.last PROVE FALSE
    BY <1>7
  <2>1. events[k] \in rows /\ Terminal(events[k])
    BY <1>3, <1>5
  <2> QED BY <1>9, <2>1, EndReached
<1> QED BY <1>9, <1>10

\* A broadcast of the event that is due.
LEMMA DeliverFollows ==
    ASSUME NEW rows \in SUBSET Rows, NEW next \in Nat, NEW st \in Connections,
           Sent(st, rows), Following(st, rows, next), NEW e \in rows, e.seq = next,
           NEW new, new = Deliver(st, e)
    PROVE  Sent(new, rows) /\ Following(new, rows, next + 1)
<1>1. /\ st.pending \in Seq(Rows) /\ Len(st.pending) \in Nat /\ e \in Rows /\ st.last \in Int
      /\ st.pc \in {"off", "opening", "catchup", "replayed", "live", "closed"}
  BY DEF Connections
<1>2. CASE st.pc \in {"catchup", "replayed"}
  <2>1. new = [st EXCEPT !.pending = Append(@, e)]
    BY <1>2 DEF Deliver
  <2>2. /\ new.pc = st.pc /\ new.got = st.got /\ new.last = st.last
        /\ new.pending = Append(st.pending, e)
    BY <2>1 DEF Connections
  <2>3. Sent(new, rows)
    BY <2>2 DEF Sent, Exact, Unaware
  <2>4. PICK n \in Nat :
          /\ Len(st.pending) = n /\ DOMAIN st.pending = 1 .. n
          /\ DOMAIN new.pending = 1 .. (n + 1) /\ Len(new.pending) = n + 1
          /\ \A i \in 1 .. n : new.pending[i] = st.pending[i]
          /\ new.pending[n + 1] = e
    BY <1>1, <2>2
  <2>5. ASSUME NEW i \in 1 .. (n + 1)
        PROVE  new.pending[i] \in rows /\ new.pending[i].seq = (next + 1) - Len(new.pending) + i - 1
    <3>0. (next + 1) - Len(new.pending) + i - 1 = next - n + i - 1
      BY <2>4
    <3>1. CASE i \in 1 .. n
      <4>1. st.pending[i] \in rows /\ st.pending[i].seq = next - n + i - 1
        BY <1>2, <2>4, <3>1 DEF Following
      <4>2. new.pending[i] = st.pending[i]
        BY <2>4, <3>1
      <4> QED BY <3>0, <4>1, <4>2
    <3>2. CASE i = n + 1
      <4>1. new.pending[i] = e
        BY <2>4, <3>2
      <4>2. (next + 1) - Len(new.pending) + i - 1 = next
        BY <2>4, <3>2
      <4>3. new.pending[i].seq = next
        BY <4>1
      <4> QED BY <4>1, <4>2, <4>3
    <3>3. i \in 1 .. n \/ i = n + 1
      OBVIOUS
    <3> QED BY ONLY <3>1, <3>2, <3>3
  <2>6. st.pc = "replayed" => (next + 1) - Len(new.pending) <= new.last + 1
    BY <1>1, <2>2, <2>4 DEF Following
  <2> QED BY <1>2, <2>2, <2>3, <2>4, <2>5, <2>6 DEF Following
<1>3. CASE st.pc = "live"
  <2>1. new = Emit(st, e) /\ Going(st, rows, "live") /\ next <= st.last + 1
    BY <1>3 DEF Deliver, Sent, Following, Going
  <2>2. CASE e.seq <= st.last
    <3>1. new = st
      BY <2>1, <2>2, EmitAgain
    <3>2. next + 1 <= st.last + 1
      BY <1>1, <2>2
    <3>3. Following(st, rows, next + 1)
      BY <1>3, <3>2 DEF Following
    <3> QED BY <3>1, <3>3
  <2>3. CASE ~ (e.seq <= st.last)
    <3>1. e.seq = st.last + 1
      BY <1>1, <2>1, <2>3
    <3>2. \/ Over(new, rows)
          \/ Going(new, rows, "live") /\ new.last = st.last + 1
      BY <2>1, <3>1, EmitNext
    <3> QED BY <1>1, <3>1, <3>2 DEF Over, Going, Sent, Following
  <2> QED BY <2>2, <2>3
<1>4. CASE st.pc \in {"off", "opening", "closed"}
  BY <1>4 DEF Deliver, Following
<1> QED BY <1>1, <1>2, <1>3, <1>4

\* A broadcast after the executor's end, whatever it brings.
LEMMA DeliverFinishes ==
    ASSUME NEW rows \in SUBSET Rows, NEW st \in Connections,
           Sent(st, rows), Finishing(st, rows), NEW e \in Rows,
           NEW new, new = Deliver(st, e)
    PROVE  Sent(new, rows) /\ Finishing(new, rows)
<1>1. CASE st.pc \in {"catchup", "replayed"}
  <2>1. /\ new.pc = st.pc /\ new.got = st.got /\ new.last = st.last
        /\ new.pending = Append(st.pending, e)
    BY <1>1 DEF Deliver, Connections
  <2>2. st.pending \in Seq(Rows)
    BY DEF Connections
  <2>3. /\ \A i \in DOMAIN st.pending : i \in DOMAIN new.pending /\ new.pending[i] = st.pending[i]
        /\ \A k \in DOMAIN st.pending : \A i \in 1 .. k : i \in DOMAIN st.pending
    BY <2>1, <2>2
  <2>4. Sent(new, rows)
    BY <2>1 DEF Sent, Exact, Unaware
  <2>5. new.pc # "live"
    BY <2>1, <1>1
  <2>6. ASSUME new.pc = "replayed"
        PROVE  \E k \in DOMAIN new.pending :
                 /\ Terminal(new.pending[k])
                 /\ new.pending[k].seq - k <= new.last
                 /\ \A i \in 1 .. k :
                      new.pending[i] \in rows /\ new.pending[i].seq = new.pending[k].seq - k + i
    <3>1. PICK k \in DOMAIN st.pending :
            /\ Terminal(st.pending[k])
            /\ st.pending[k].seq - k <= st.last
            /\ \A i \in 1 .. k :
                 st.pending[i] \in rows /\ st.pending[i].seq = st.pending[k].seq - k + i
      BY <2>1, <2>6 DEF Finishing
    <3>2. k \in DOMAIN new.pending /\ new.pending[k] = st.pending[k]
      BY <2>3
    <3>3. \A i \in 1 .. k : new.pending[i] = st.pending[i]
      BY <2>3
    <3> QED BY <2>1, <3>1, <3>2, <3>3
  <2> QED BY <2>4, <2>5, <2>6 DEF Finishing
<1>2. CASE st.pc \notin {"catchup", "replayed"}
  BY <1>2 DEF Deliver, Finishing
<1> QED BY <1>1, <1>2

\* When the executor leaves with an end that was broadcast, no stream is live
\* without it, and whatever is kept back leads to it.
LEMMA FollowedFinishes ==
    ASSUME NEW rows \in SUBSET Rows, Distinct(rows), NEW next \in Int, NEW st \in Connections,
           Sent(st, rows), Following(st, rows, next),
           NEW t \in rows, Terminal(t), t.seq < next
    PROVE  Finishing(st, rows)
<1>1. /\ st.pending \in Seq(Rows) /\ Len(st.pending) \in Nat /\ st.last \in Int
      /\ DOMAIN st.pending = 1 .. Len(st.pending)
      /\ t.seq \in Nat
  BY DEF Connections, Rows
<1>2. ASSUME st.pc \in {"replayed", "live"}
      PROVE  ~ (t.seq <= st.last)
  <2>1. PICK where : where = st.pc
    OBVIOUS
  <2>2. Going(st, rows, where)
    BY <1>2, <2>1 DEF Sent, Going
  <2> QED BY <2>2, EndReached
<1>3. st.pc # "live"
  BY <1>1, <1>2 DEF Following
<1>4. ASSUME st.pc = "replayed"
      PROVE  \E k \in DOMAIN st.pending :
                 /\ Terminal(st.pending[k])
                 /\ st.pending[k].seq - k <= st.last
                 /\ \A i \in 1 .. k :
                      st.pending[i] \in rows /\ st.pending[i].seq = st.pending[k].seq - k + i
  <2> DEFINE f == next - Len(st.pending)
             k == t.seq - f + 1
  <2>1. f \in Int /\ f <= st.last + 1 /\ ~ (t.seq <= st.last)
    BY <1>1, <1>2, <1>4 DEF Following
  <2>2. k \in 1 .. Len(st.pending)
    BY <1>1, <2>1
  <2>3. \A i \in 1 .. Len(st.pending) : st.pending[i] \in rows /\ st.pending[i].seq = f + i - 1
    BY <1>1, <1>4 DEF Following
  <2>4. /\ f + k - 1 = t.seq /\ t.seq - k = f - 1
        /\ t.seq - k <= st.last
    BY <1>1, <2>1, SMTT(20)
  <2> HIDE DEF k, f
  <2>6. st.pending[k] \in rows /\ st.pending[k].seq = t.seq
    BY <2>2, <2>3, <2>4
  <2>7. st.pending[k] = t
    BY <2>6 DEF Distinct
  <2>8. ASSUME NEW i \in 1 .. k
        PROVE  st.pending[i] \in rows /\ st.pending[i].seq = t.seq - k + i
    <3>1. i \in 1 .. Len(st.pending)
      BY <1>1, <2>2
    <3>2. f + i - 1 = t.seq - k + i
      BY <2>1, <2>4
    <3> QED BY <2>3, <3>1, <3>2
  <2> QED BY <1>1, <2>2, <2>4, <2>7, <2>8
<1> QED BY <1>3, <1>4 DEF Finishing

-----------------------------------------------------------------------------
(* The calls that are still to broadcast.                                     *)

Written(w) == append[w].pc = "written"

\* A step that writes no row and completes no call that has written one.
Undisturbed ==
    /\ log' = log
    /\ \A v \in Writers :
         /\ Written(v)' <=> Written(v)
         /\ Written(v) => append'[v].seq = append[v].seq /\ append'[v].kind = append[v].kind

LEMMA EnqueueUndisturbed ==
    ASSUME JournalTyped, NEW w \in Writers, NEW kind, ~ InFlight(w), Enqueue(w, kind), log' = log
    PROVE  Undisturbed
<1>1. ~ Written(w) /\ ~ Written(w)'
  BY DEF InFlight, Written, Enqueue, JournalTyped
<1>2. \A v \in Writers : v # w => append'[v] = append[v]
  BY DEF Enqueue, JournalTyped
<1> QED BY <1>1, <1>2 DEF Undisturbed, Written

LEMMA WrittenSteps ==
    ASSUME ChainInv, [Next]_vars
    PROVE  \/ Undisturbed
           \/ Restart
           \/ \E w \in Writers : Insert(w) \/ Broadcast(w)
<1>0. JournalTyped /\ Callers
  BY DEF ChainInv, JournalInv
<1>1. CASE Elsewhere \/ Close \/ Disowned
  <2>1. append' = append /\ log' = log
    BY <1>1, ElsewhereKeeps DEF Close, Disowned
  <2> QED BY <2>1 DEF Undisturbed, Written
<1>2. CASE SetRunning \/ AgentEmits \/ Finalise \/ FinaliseForgets
  <2>1. PICK kind : Enqueue(Exec, kind)
    BY <1>2 DEF SetRunning, AgentEmits, Finalise, FinaliseForgets
  <2>2. log' = log /\ ~ InFlight(Exec)
    BY <1>0, <1>2 DEF SetRunning, AgentEmits, Finalise, FinaliseForgets, FinalStatus, Callers
  <2> QED BY <1>0, <2>1, <2>2, EnqueueUndisturbed, ExecIsWriter
<1>3. ASSUME NEW p \in Posts, Post(p)
      PROVE  Undisturbed
  <2>1. p \in Writers /\ ~ InFlight(p) /\ log' = log
    BY <1>3, ExecIsWriter DEF Post, InFlight
  <2>2. PICK kind : Enqueue(p, kind)
    BY <1>3 DEF Post
  <2> QED BY <1>0, <2>1, <2>2, EnqueueUndisturbed
<1>4. ASSUME NEW c \in Cancels, SetCancelled(c)
      PROVE  Undisturbed
  <2>1. c \in Writers /\ log' = log
    BY <1>4, ExecIsWriter DEF SetCancelled
  <2>2. CASE append' = append
    BY <2>1, <2>2 DEF Undisturbed, Written
  <2>3. CASE cancel[c] = "alone" /\ Enqueue(c, "run.cancelled")
    <3>1. ~ InFlight(c)
      BY <1>0, <2>3 DEF Callers, InFlight
    <3> QED BY <1>0, <2>1, <2>3, <3>1, EnqueueUndisturbed
  <2> QED BY <1>4, <2>2, <2>3 DEF SetCancelled
<1>5. ASSUME NEW w \in Writers, List(w) \/ AppendThrows(w)
      PROVE  Undisturbed
  <2>1. log' = log /\ ~ Written(w)
    BY <1>5 DEF List, AppendThrows, Turn, Written
  <2>2. append'[w].pc \in {"done", "threw", "listed"}
    BY <1>0, <1>5 DEF List, AppendThrows, Settle, JournalTyped, Calls
  <2>3. \A v \in Writers : v # w =>
          append'[v].pc = append[v].pc /\ append'[v].seq = append[v].seq /\ append'[v].kind = append[v].kind
    BY <1>0, <1>5, CallKeeps
  <2> QED BY <2>1, <2>2, <2>3 DEF Undisturbed, Written
<1> QED BY <1>1, <1>2, <1>3, <1>4, <1>5, Steps

\* Until the executor leaves, one call at a time.
LEMMA AloneInJournal ==
    ASSUME ChainInv, Kept, NEW w \in Writers, Turn(w) \/ Numbered(w), NEW v \in Writers, Written(v)
    PROVE  v = w
<1>1. JournalTyped /\ \E rank : Ordered(rank)
  BY DEF ChainInv, JournalInv, Chained
<1>2. PICK rank : Ordered(rank)
  BY <1>1
<1>3. Numbered(v)
  BY DEF Written, Numbered
<1> QED BY <1>1, <1>2, <1>3, TurnsAlternate

LEMMA InsertLengthens ==
    ASSUME ChainInv, Kept, NEW w \in Writers, Insert(w)
    PROVE  /\ Cardinality(log) \in Nat /\ Cardinality(log') = Cardinality(log) + 1
           /\ Written(w)' /\ append'[w].seq = Cardinality(log) /\ append'[w].kind = append[w].kind
           /\ \A v \in Writers : ~ Written(v)
           /\ \A v \in Writers : v # w => ~ Written(v)'
<1>0. /\ JournalTyped /\ GapFree /\ IsFiniteSet(log) /\ Cardinality(log) \in Nat
      /\ append[w].pc = "listed" /\ append[w].seq = Cardinality(log)
  BY FS_CardinalityType DEF ChainInv, JournalInv, JournalTyped, JournalExact, Lengths, Insert
<1>1. Numbered(w) /\ ~ Written(w)
  BY <1>0 DEF Numbered, Written
<1>2. \A v \in Writers : ~ Written(v)
  BY <1>1, AloneInJournal
<1>3. \A r \in log : r.seq # append[w].seq
  BY <1>0 DEF GapFree
<1>4. log' = log \cup {RowOf(w)} /\ RowOf(w) \notin log
  BY <1>3 DEF Insert, RowOf
<1>5. Cardinality(log') = Cardinality(log) + 1
  BY <1>0, <1>4, FS_AddElement
<1>6. append' = [append EXCEPT ![w].pc = "written"]
  BY DEF Insert
<1>7. Written(w)' /\ append'[w].seq = append[w].seq /\ append'[w].kind = append[w].kind
  BY <1>0, <1>6 DEF Written, JournalTyped, Calls
<1>8. \A v \in Writers : v # w => ~ Written(v)'
  BY <1>0, <1>2, <1>6 DEF Written, JournalTyped
<1> QED BY <1>0, <1>2, <1>5, <1>7, <1>8

LEMMA BroadcastEmpties ==
    ASSUME ChainInv, NEW w \in Writers, Broadcast(w)
    PROVE  /\ ~ Written(w)' /\ log' = log
           /\ \A v \in Writers : v # w =>
                 /\ Written(v)' <=> Written(v)
                 /\ append'[v].seq = append[v].seq /\ append'[v].kind = append[v].kind
<1>1. JournalTyped
  BY DEF ChainInv, JournalInv
<1>2. ~ Written(w)'
  BY <1>1 DEF Broadcast, Settle, Written, JournalTyped, Calls
<1> QED BY <1>1, <1>2, CallKeeps DEF Broadcast, Written

LEMMA RestartEmpties ==
    ASSUME ChainInv, Restart
    PROVE  /\ log' = log
           /\ \A v \in Writers : ~ Written(v)'
BY DEF ChainInv, JournalInv, JournalTyped, Calls, Restart, Written

LEMMA WrittenLastKeeps ==
    ASSUME ChainInv, WrittenLast, [Next]_vars
    PROVE  WrittenLast'
<1> SUFFICES ASSUME Kept', NEW v \in Writers, Written(v)'
             PROVE  append'[v].seq = Cardinality(log') - 1
  BY DEF WrittenLast, Written
<1>0. Kept
  BY LeftForGood
<1>1. CASE Undisturbed
  BY <1>0, <1>1 DEF Undisturbed, WrittenLast, Written
<1>2. CASE Restart
  BY <1>2, RestartEmpties
<1>3. ASSUME NEW w \in Writers, Insert(w)
      PROVE  append'[v].seq = Cardinality(log') - 1
  BY <1>0, <1>3, InsertLengthens
<1>4. ASSUME NEW w \in Writers, Broadcast(w)
      PROVE  append'[v].seq = Cardinality(log') - 1
  BY <1>0, <1>4, BroadcastEmpties DEF WrittenLast, Written
<1> QED BY <1>1, <1>2, <1>3, <1>4, WrittenSteps

\* The executor's append comes to its end in a turn of its own; after that a
\* terminal event is in the journal, and no other is written.
LEMMA ClosingKeeps ==
    ASSUME ChainInv, ClosingInv, [Next]_vars
    PROVE  ClosingInv'
<1> SUFFICES ASSUME exec' = "closing", append'[Exec].pc = "done", NEW v \in Writers, Written(v)',
                    append'[v].kind \in TerminalKinds
             PROVE  FALSE
  BY DEF ClosingInv, Written
<1>0. JournalTyped /\ Callers /\ Exec \in Writers
  BY ExecIsWriter DEF ChainInv, JournalInv
<1>1. CASE Restart
  BY <1>1, RestartEmpties
<1>2. CASE Finalise \/ FinaliseForgets
  <2>1. append'[Exec].pc = "queued"
    BY <1>0, <1>2 DEF Finalise, FinaliseForgets, Enqueue, JournalTyped
  <2> QED BY <2>1
<1>3. CASE ~ Restart /\ ~ Finalise /\ ~ FinaliseForgets
  <2>1. exec = "closing"
    <3>1. CASE ExecStep \/ ExecThrows
      BY <1>3, <3>1 DEF ExecStep, Start, SetRunning, Started, Caught, AgentEmits, Emitted,
                        AgentEnds, Close, Disowned, Leave, ExecThrows, SetRunningThrows,
                        FinaliseThrows
    <3>2. CASE exec' = exec
      BY <3>2
    <3>3. CASE ~ ExecStep /\ ~ ExecThrows
      <4>1. exec' = exec
        BY <1>3, <3>3 DEF Next, AppendStep, List, Insert, Broadcast, AppendThrows, Post, CancelStep,
                          ReadStatus, Abort, SetCancelled, StreamStep, Open, Subscribe, Replay,
                          Activate, Reconnect, Drop, Set, vars
      <4> QED BY <3>2, <4>1
    <3> QED BY <3>1, <3>3
  <2>2. Kept
    BY <2>1 DEF Kept
  <2>3. CASE append[Exec].pc = "done"
    <3>1. \A u \in Writers : Written(u) => append[u].kind \notin TerminalKinds
      BY <2>1, <2>3 DEF ClosingInv, Written
    <3>2. CASE Undisturbed
      BY <3>1, <3>2 DEF Undisturbed
    <3>3. ASSUME NEW w \in Writers, Broadcast(w)
          PROVE  FALSE
      BY <3>1, <3>3, BroadcastEmpties
    <3>4. ASSUME NEW w \in Writers, Insert(w)
          PROVE  FALSE
      <4>1. v = w /\ append[w].kind \in TerminalKinds
        BY <2>2, <3>4, InsertLengthens
      <4>2. PICK r \in log : Terminal(r)
        BY <2>1, <2>3 DEF ChainInv, Ending
      <4>3. /\ append[w].pc = "listed" /\ append[w].seq = Cardinality(log) /\ Cardinality(log) \in Nat
            /\ r.seq >= append[w].seq
        BY <2>2, <3>4, <4>1, <4>2, InsertLengthens DEF ChainInv, JournalInv, AppendInv, Lengths, Insert
      <4>4. r.seq \in 0 .. (Cardinality(log) - 1)
        BY <4>2 DEF ChainInv, JournalInv, JournalExact, GapFree
      <4> QED BY <4>3, <4>4
    <3> QED BY <1>1, <3>2, <3>3, <3>4, WrittenSteps
  <2>4. CASE append[Exec].pc # "done"
    <3>1. PICK w \in Writers :
            /\ List(w) \/ Insert(w) \/ Broadcast(w) \/ AppendThrows(w)
            /\ append'[Exec].pc # append[Exec].pc
      <4>1. ASSUME Elsewhere \/ Close \/ Disowned PROVE FALSE
        BY <2>4, <4>1, ElsewhereKeeps DEF Close, Disowned
      <4>2. ASSUME SetRunning \/ AgentEmits PROVE FALSE
        BY <2>1, <4>2 DEF SetRunning, AgentEmits
      <4>3. ASSUME NEW p \in Writers, NEW kind, Enqueue(p, kind) PROVE FALSE
        BY <1>0, <2>4, <4>3 DEF Enqueue, JournalTyped
      <4>4. ASSUME NEW p \in Posts, Post(p) PROVE FALSE
        BY <4>3, <4>4, ExecIsWriter DEF Post
      <4>5. ASSUME NEW c \in Cancels, SetCancelled(c) PROVE FALSE
        BY <2>4, <4>3, <4>5, ExecIsWriter DEF SetCancelled
      <4> QED BY <1>3, <2>4, <4>1, <4>2, <4>4, <4>5, Steps
    <3>2. w = Exec
      BY <1>0, <3>1, CallKeeps
    <3>3. Turn(Exec) \/ Numbered(Exec)
      BY <3>1, <3>2 DEF List, Insert, Broadcast, AppendThrows, Numbered
    <3>4. v # Exec
      BY DEF Written
    <3>5. Written(v)
      BY <1>0, <3>1, <3>2, <3>4, CallKeeps DEF Written
    <3> QED BY <1>0, <2>2, <3>3, <3>4, <3>5, AloneInJournal
  <2> QED BY <2>3, <2>4
<1> QED BY <1>1, <1>2, <1>3

-----------------------------------------------------------------------------
(* The invariant of the streams.                                              *)

LEMMA OverIsGood ==
    ASSUME NEW rows, NEW st, Over(st, rows), NEW next, NEW how
    PROVE  Good(st, rows, next, how)
BY DEF Over, Good, Sent, Following, Finishing

\* A connection that is not subscribed.
LEMMA OutIsGood ==
    ASSUME NEW rows, NEW st, st.pc \in {"off", "opening"}, Exact(st, rows), Unaware(st), NEW next, NEW how
    PROVE  Good(st, rows, next, how)
BY DEF Good, Sent, Following, Finishing

LEMMA GoodGrows ==
    ASSUME NEW rows, NEW more, rows \subseteq more, NEW st, NEW next, NEW how, Good(st, rows, next, how)
    PROVE  Good(st, more, next, how)
<1>1. Sent(st, rows) => Sent(st, more)
  BY DEF Sent, Exact
<1>2. Following(st, rows, next) => Following(st, more, next)
  BY DEF Following
<1>3. Finishing(st, rows) => Finishing(st, more)
  BY DEF Finishing
<1> QED BY <1>1, <1>2, <1>3 DEF Good

\* The cursor of a client is the number of the last event it was sent.
LEMMA CursorIs ==
    ASSUME NEW rows, NEW st \in Connections, Exact(st, rows)
    PROVE  Cursor(st) = Len(st.got) - 1
<1>1. st.got \in Seq(Rows) /\ Len(st.got) \in Nat /\ DOMAIN st.got = 1 .. Len(st.got)
  BY DEF Connections
<1>2. CASE st.got = <<>>
  BY <1>2 DEF Cursor
<1>3. CASE st.got # <<>>
  <2>1. Len(st.got) \in DOMAIN st.got
    BY <1>1, <1>3
  <2>2. st.got[Len(st.got)].seq = Len(st.got) - 1
    BY <2>1 DEF Exact
  <2> QED BY <1>3, <2>2 DEF Cursor, Last
<1> QED BY <1>2, <1>3

LEMMA AnnouncedIs ==
    ASSUME JournalInv
    PROVE  Announced \in Int /\ Announced <= Cardinality(log)
BY DistinctLog DEF Announced

\* The steps of the connection itself: the journal is as it was.
LEMMA ConnectionGood ==
    ASSUME ChainInv, StreamTyped, Cardinality(log) <= MaxEvents,
           NEW s \in Streams, Good(stream[s], log, Announced, exec), StreamStep(s) \/ Drop(s)
    PROVE  Good(stream'[s], log, Announced, exec)
<1> DEFINE st == stream[s]
           new == stream'[s]
<1>0. /\ JournalInv /\ st \in Connections /\ stream' = [stream EXCEPT ![s] = new]
      /\ Distinct(log) /\ log \in SUBSET Rows /\ Cardinality(log) \in Nat
      /\ Announced \in Int /\ Announced <= Cardinality(log)
  <2>1. JournalInv /\ st \in Connections
    BY DEF ChainInv, StreamTyped
  <2>2. stream' = [stream EXCEPT ![s] = new]
    BY DEF StreamTyped, StreamStep, Open, Subscribe, Replay, Activate, Reconnect, Drop, Set
  <2> QED BY <2>1, <2>2, DistinctLog, AnnouncedIs
<1>1. exec # "lost" => Sent(st, log)
  BY DEF Good
<1>2. SUFFICES ASSUME exec # "lost" PROVE Good(new, log, Announced, exec)
  BY DEF Good, Kept
<1>3. CASE Open(s) \/ Drop(s) \/ Reconnect(s)
  <2>1. new.got = st.got /\ new.pc \in {"off", "opening"}
    <3>1. CASE Open(s)
      <4> DEFINE over == status \in TerminalStatuses
      <4>1. new = [st EXCEPT !.pc = "opening", !.settled = over]
        BY <3>1 DEF StreamTyped, Open, Set
      <4> HIDE DEF over, new
      <4> QED BY <1>0, <4>1 DEF Connections
    <3>2. CASE Drop(s)
      <4>1. new = [st EXCEPT !.pc = "off", !.settled = FALSE, !.pending = <<>>]
        BY <3>2 DEF StreamTyped, Drop, Set
      <4> QED BY <1>0, <4>1 DEF Connections
    <3>3. CASE Reconnect(s)
      <4>1. new = [st EXCEPT !.pc = "off"]
        BY <3>3 DEF StreamTyped, Reconnect, Set
      <4> QED BY <1>0, <4>1 DEF Connections
    <3> QED BY <1>3, <3>1, <3>2, <3>3
  <2>2. Exact(new, log)
    BY <1>1, <1>2, <2>1 DEF Sent, Exact
  <2>3. Unaware(st)
    <3>1. CASE Reconnect(s)
      <4>1. ASSUME NEW i \in DOMAIN st.got PROVE st.got[i] \in Range(stream[s].got)
        BY DEF Range
      <4> QED BY <3>1, <4>1 DEF Reconnect, Learned, Unaware
    <3>2. CASE Open(s) \/ Drop(s)
      BY <1>1, <1>2, <3>2 DEF Open, Drop, Sent
    <3> QED BY <1>3, <3>1, <3>2
  <2>4. Unaware(new)
    BY <2>1, <2>3 DEF Unaware
  <2> HIDE DEF new
  <2> QED BY <2>1, <2>2, <2>4, OutIsGood
<1>4. CASE Subscribe(s)
  <2>1. new = [st EXCEPT !.pc = "catchup", !.last = Cursor(st), !.pending = <<>>] /\ st.pc = "opening"
    BY <1>4 DEF StreamTyped, Subscribe, Set
  <2>2. new.pc = "catchup" /\ new.last = Cursor(st) /\ new.pending = <<>> /\ new.got = st.got
    BY <1>0, <2>1 DEF Connections
  <2>3. Cursor(st) = Len(st.got) - 1
    BY <1>0, <1>1, <1>2, CursorIs DEF Sent
  <2>4. Sent(new, log)
    BY <1>1, <1>2, <2>1, <2>2, <2>3 DEF Sent, Exact, Unaware
  <2>5. Following(new, log, Announced) /\ Finishing(new, log)
    BY <2>2 DEF Following, Finishing
  <2> QED BY <2>4, <2>5 DEF Good
<1>5. CASE Replay(s)
  <2>1. st.pc = "catchup" /\ new = EmitAll([st EXCEPT !.pc = "replayed"], After(st.last))
    BY <1>5 DEF StreamTyped, Replay, Set
  <2>2. Sent(st, log)
    BY <1>1, <1>2
  <2> HIDE DEF st, new
  <2>3. /\ new \in Connections
        /\ new.pending = st.pending
        /\ \/ Over(new, log)
           \/ Going(new, log, "replayed") /\ Cardinality(log) - 1 <= new.last
    BY <1>0, <2>1, <2>2, ReplayFollows
  <2>4. CASE Over(new, log)
    BY <2>4, OverIsGood
  <2>5. CASE Going(new, log, "replayed") /\ Cardinality(log) - 1 <= new.last
    <3>1. Sent(new, log)
      BY <2>5 DEF Going, Sent
    <3>2. ASSUME exec \notin {"ended", "lost"}
          PROVE  Following(new, log, Announced)
      <4>1. Following(st, log, Announced)
        BY <3>2 DEF Good, st
      <4>2. Len(st.pending) \in Nat /\ new.last \in Int
        BY <1>0, <2>3 DEF Connections
      <4>3. Announced - Len(st.pending) <= new.last + 1
        BY <1>0, <2>5, <4>2
      <4> QED BY <2>1, <2>3, <2>5, <4>1, <4>3 DEF Following, Going
    <3>3. exec # "ended"
      <4> SUFFICES ASSUME exec = "ended" PROVE FALSE
        OBVIOUS
      <4>1. PICK t \in log : Terminal(t)
        BY DEF ChainInv, Ending
      <4>2. t.seq \in 0 .. (Cardinality(log) - 1)
        BY DEF ChainInv, JournalInv, JournalExact, GapFree
      <4>3. t.seq <= new.last
        BY <1>0, <2>3, <2>5, <4>2 DEF Connections
      <4> QED BY <1>0, <2>3, <2>5, <4>1, <4>3, EndReached
    <3> QED BY <3>1, <3>2, <3>3 DEF Good
  <2> QED BY <2>3, <2>4, <2>5 DEF new
<1>6. CASE Activate(s)
  <2>1. st.pc = "replayed" /\ Sent(st, log)
    BY <1>1, <1>2, <1>6 DEF Activate
  <2>2. CASE st.settled
    <3>1. new = [st EXCEPT !.pc = "closed", !.settled = FALSE, !.pending = <<>>]
      BY <1>6, <2>2 DEF StreamTyped, Activate, Set
    <3>2. new.pc = "closed" /\ new.got = st.got
      BY <1>0, <3>1 DEF Connections
    <3>3. Over(new, log)
      BY <2>1, <3>2 DEF Over, Sent, Exact
    <3> HIDE DEF new
    <3> QED BY <3>3, OverIsGood
  <2>3. CASE ~ st.settled
    <3>1. new = EmitAll([st EXCEPT !.pc = "live", !.pending = <<>>], st.pending)
      BY <1>6, <2>3 DEF StreamTyped, Activate, Set
    <3>2. exec \notin {"ended", "lost"} => Following(st, log, Announced)
      BY DEF Good
    <3>3. exec = "ended" => Finishing(st, log)
      BY DEF Good
    <3> HIDE DEF st, new
    <3>4. CASE exec = "ended"
      <4>1. Over(new, log)
        BY <1>0, <2>1, <3>1, <3>3, <3>4, FlushFinishes
      <4> QED BY <4>1, OverIsGood
    <3>5. CASE exec # "ended"
      <4>1. Over(new, log) \/ (Going(new, log, "live") /\ Announced - 1 <= new.last)
        BY <1>0, <1>2, <2>1, <3>1, <3>2, <3>5, FlushFollows
      <4>2. CASE Over(new, log)
        BY <4>2, OverIsGood
      <4>3. CASE Going(new, log, "live") /\ Announced - 1 <= new.last
        <5>1. Sent(new, log)
          BY <4>3 DEF Going, Sent
        <5>2. new.last \in Int
          <6>1. new \in Connections
            BY ConnectionTyped DEF StreamTyped, ChainInv, new
          <6> QED BY <6>1 DEF Connections
        <5>3. Following(new, log, Announced)
          BY <1>0, <4>3, <5>2 DEF Following, Going
        <5> QED BY <3>5, <5>1, <5>3 DEF Good
      <4> QED BY <4>1, <4>2, <4>3
    <3> QED BY <3>4, <3>5 DEF new
  <2> QED BY <2>2, <2>3
<1> QED BY <1>3, <1>4, <1>5, <1>6 DEF StreamStep

\* A step that is not of a connection leaves what is due as it is, or a
\* broadcast makes the next event due.
LEMMA AnnouncedStays ==
    ASSUME ChainInv, Kept, Undisturbed \/ \E w \in Writers : Insert(w)
    PROVE  Announced' = Announced
<1>1. CASE Undisturbed
  BY <1>1 DEF Undisturbed, Announced, Written
<1>2. ASSUME NEW w \in Writers, Insert(w)
      PROVE  Announced' = Announced
  <2>1. /\ Cardinality(log) \in Nat /\ Cardinality(log') = Cardinality(log) + 1
        /\ append'[w].pc = "written" /\ \A v \in Writers : append[v].pc # "written"
    BY <1>2, InsertLengthens DEF Written
  <2>2. Announced = Cardinality(log)
    BY <2>1 DEF Announced
  <2>3. Announced' = Cardinality(log') - 1
    BY <2>1 DEF Announced
  <2> QED BY <2>1, <2>2, <2>3
<1> QED BY <1>1, <1>2

LEMMA AnnouncedMoves ==
    ASSUME ChainInv, WrittenLast, Kept, NEW w \in Writers, Broadcast(w)
    PROVE  /\ RowOf(w) \in log /\ RowOf(w).seq = Announced
           /\ Announced \in Nat /\ Announced' = Announced + 1
<1>0. JournalInv /\ Cardinality(log) \in Nat /\ Written(w) /\ log \in SUBSET Rows
  BY DistinctLog DEF ChainInv, Broadcast, Written
<1>1. RowOf(w) \in log /\ RowOf(w).seq = Cardinality(log) - 1
  BY <1>0 DEF ChainInv, Lengths, WrittenLast, Written, RowOf
<1>2. Announced = Cardinality(log) - 1
  BY <1>0 DEF Announced, Written
<1>3. \A v \in Writers : ~ Written(v)'
  <2> SUFFICES ASSUME NEW v \in Writers, Written(v)' PROVE FALSE
    OBVIOUS
  <2>1. v # w /\ Written(v)
    BY BroadcastEmpties
  <2>2. Numbered(w)
    BY <1>0 DEF Written, Numbered
  <2> QED BY <2>1, <2>2, AloneInJournal
<1>4. Announced' = Cardinality(log)
  BY <1>3 DEF Announced, Written, Broadcast
<1>5. RowOf(w).seq \in Nat
  BY <1>0, <1>1 DEF Rows
<1> QED BY <1>0, <1>1, <1>2, <1>4, <1>5

\* How the executor comes to its end, and that it does not come back.
LEMMA EndedBy ==
    ASSUME [Next]_vars, exec' = "ended", exec # "ended"
    PROVE  Close /\ exec = "closing" /\ append[Exec].pc = "done"
<1>1. ExecStep
  <2>1. exec' # exec
    OBVIOUS
  <2>2. ~ Restart /\ ~ ExecThrows
    BY DEF Restart, ExecThrows, SetRunningThrows, FinaliseThrows, FinaliseForgets, Caught
  <2> QED BY <2>1, <2>2 DEF Next, AppendStep, List, Insert, Broadcast, AppendThrows, Post, CancelStep,
                            ReadStatus, Abort, SetCancelled, StreamStep, Open, Subscribe, Replay,
                            Activate, Reconnect, Drop, Set, vars
<1> QED BY <1>1 DEF ExecStep, Start, SetRunning, Started, Caught, AgentEmits, Emitted, AgentEnds,
                    Finalise, Close, Disowned, Leave

LEMMA LostForGood ==
    ASSUME [Next]_vars, exec = "lost"
    PROVE  exec' = "lost"
<1>1. ~ ExecStep /\ ~ ExecThrows
  BY DEF ExecStep, Start, SetRunning, Started, AgentEmits, Emitted, AgentEnds, Finalise,
         FinalStatus, Close, Disowned, ExecThrows, SetRunningThrows, FinaliseThrows, FinaliseForgets
<1> QED BY <1>1 DEF Next, Restart, AppendStep, List, Insert, Broadcast, AppendThrows, Post, CancelStep,
                    ReadStatus, Abort, SetCancelled, StreamStep, Open, Subscribe, Replay,
                    Activate, Reconnect, Drop, Set, vars

\* When the executor leaves, the end was broadcast.
LEMMA EndIsAnnounced ==
    ASSUME ChainInv, WrittenLast, ClosingInv, exec = "closing", append[Exec].pc = "done"
    PROVE  \E t \in log : Terminal(t) /\ t.seq < Announced
<1>0. JournalInv /\ Cardinality(log) \in Nat /\ Distinct(log)
  BY DistinctLog DEF ChainInv
<1>1. PICK t \in log : Terminal(t)
  BY DEF ChainInv, Ending
<1>2. t.seq \in 0 .. (Cardinality(log) - 1)
  BY DEF ChainInv, JournalInv, JournalExact, GapFree
<1>3. CASE \E w \in Writers : append[w].pc = "written"
  <2>1. PICK w \in Writers : append[w].pc = "written"
    BY <1>3
  <2>2. RowOf(w) \in log /\ RowOf(w).seq = Cardinality(log) - 1 /\ ~ Terminal(RowOf(w))
    BY <2>1 DEF ChainInv, Lengths, WrittenLast, ClosingInv, Kept, RowOf, Terminal
  <2>3. t.seq # Cardinality(log) - 1
    BY <1>0, <1>1, <2>2 DEF Distinct
  <2>4. Announced = Cardinality(log) - 1
    BY <2>1 DEF Announced
  <2> QED BY <1>0, <1>1, <1>2, <2>3, <2>4
<1>4. CASE ~ \E w \in Writers : append[w].pc = "written"
  <2>1. Announced = Cardinality(log)
    BY <1>4 DEF Announced
  <2> QED BY <1>0, <1>1, <1>2, <2>1
<1> QED BY <1>3, <1>4

LEMMA BroadcastGood ==
    ASSUME ChainInv, StreamTyped, WrittenLast, NEW s \in Streams, Good(stream[s], log, Announced, exec),
           NEW w \in Writers, Broadcast(w)
    PROVE  Good(stream'[s], log', Announced', exec')
<1>0. /\ JournalInv /\ JournalTyped /\ stream[s] \in Connections /\ log \in SUBSET Rows
      /\ log' = log /\ exec' = exec /\ stream'[s] = Deliver(stream[s], RowOf(w))
      /\ RowOf(w) \in Rows
  BY DistinctLog, RowOfTyped DEF ChainInv, JournalInv, StreamTyped, Broadcast
<1>1. CASE exec = "lost"
  BY <1>0, <1>1 DEF Good
<1>2. CASE exec = "ended"
  <2>1. Sent(stream'[s], log) /\ Finishing(stream'[s], log)
    BY <1>0, <1>2, DeliverFinishes DEF Good
  <2> QED BY <1>0, <1>2, <2>1 DEF Good
<1>3. CASE Kept
  <2>1. /\ RowOf(w) \in log /\ RowOf(w).seq = Announced
        /\ Announced \in Nat /\ Announced' = Announced + 1
    BY <1>3, AnnouncedMoves
  <2>2. Sent(stream[s], log) /\ Following(stream[s], log, Announced)
    BY <1>3 DEF Good, Kept
  <2>3. Sent(stream'[s], log) /\ Following(stream'[s], log, Announced + 1)
    BY <1>0, <2>1, <2>2, DeliverFollows
  <2> QED BY <1>0, <1>3, <2>1, <2>3 DEF Good, Kept
<1> QED BY <1>1, <1>2, <1>3 DEF Kept

LEMMA RestartGood ==
    ASSUME ChainInv, StreamTyped, NEW s \in Streams, Good(stream[s], log, Announced, exec), Restart
    PROVE  Good(stream'[s], log', Announced', exec')
<1>0. /\ stream[s] \in Connections /\ log' = log
      /\ exec' = "lost" \/ exec # "lost"
  BY DEF StreamTyped, Restart
<1>1. CASE exec' = "lost"
  BY <1>1 DEF Good
<1>2. CASE exec # "lost"
  <2>1. Sent(stream[s], log)
    BY <1>2 DEF Good
  <2>2. CASE stream[s].pc = "closed"
    <3>1. Over(stream[s], log) /\ stream'[s] = stream[s]
      BY <2>1, <2>2 DEF Restart, Over, Sent
    <3> QED BY <1>0, <3>1, OverIsGood
  <2>3. CASE stream[s].pc # "closed"
    <3>1. stream'[s].pc = "off" /\ stream'[s].got = stream[s].got
      BY <1>0, <2>3 DEF Restart, Connections
    <3>2. Exact(stream'[s], log) /\ Unaware(stream'[s])
      BY <2>1, <2>3, <3>1 DEF Sent, Exact, Unaware
    <3> QED BY <1>0, <3>1, <3>2, OutIsGood
  <2> QED BY <2>2, <2>3
<1> QED BY <1>0, <1>1, <1>2

\* The other writers and the executor.
LEMMA ElsewhereGood ==
    ASSUME ChainInv, StreamTyped, WrittenLast, ClosingInv, NEW s \in Streams,
           Good(stream[s], log, Announced, exec), [Next]_vars, stream' = stream,
           Undisturbed \/ \E w \in Writers : Insert(w)
    PROVE  Good(stream'[s], log', Announced', exec')
<1>0. log \subseteq log' /\ JournalInv
  BY NextKeeps DEF ChainInv
<1>1. CASE Kept'
  <2>1. Kept
    BY <1>1, LeftForGood
  <2>2. Announced' = Announced
    BY <2>1, AnnouncedStays
  <2>3. Good(stream[s], log, Announced, exec')
    BY <1>1, <2>1 DEF Good, Kept
  <2> QED BY <1>0, <2>2, <2>3, GoodGrows
<1>2. CASE exec' = "lost"
  BY <1>2 DEF Good
<1>3. CASE exec' = "ended" /\ exec = "ended"
  <2>1. Good(stream[s], log, Announced', exec')
    BY <1>3 DEF Good
  <2> QED BY <1>0, <2>1, GoodGrows
<1>4. CASE exec' = "ended" /\ exec # "ended"
  <2>1. Close /\ exec = "closing" /\ append[Exec].pc = "done"
    BY <1>4, EndedBy
  <2>2. PICK t \in log : Terminal(t) /\ t.seq < Announced
    BY <2>1, EndIsAnnounced
  <2>3. Sent(stream[s], log) /\ Following(stream[s], log, Announced)
    BY <2>1 DEF Good
  <2>4. stream[s] \in Connections /\ log \in SUBSET Rows /\ Distinct(log) /\ Announced \in Int
    BY <1>0, DistinctLog, AnnouncedIs DEF StreamTyped
  <2>5. Finishing(stream[s], log)
    BY <2>2, <2>3, <2>4, FollowedFinishes
  <2>6. Good(stream[s], log, Announced', exec')
    BY <1>4, <2>3, <2>5 DEF Good
  <2> QED BY <1>0, <2>6, GoodGrows
<1> QED BY <1>1, <1>2, <1>3, <1>4 DEF Kept

LEMMA StreamStepsGood ==
    ASSUME ChainInv, StreamTyped, Cardinality(log) <= MaxEvents,
           NEW s \in Streams, Good(stream[s], log, Announced, exec),
           NEW q \in Streams, StreamStep(q) \/ Drop(q)
    PROVE  Good(stream'[s], log', Announced', exec')
<1>1. log' = log /\ append' = append /\ exec' = exec
  BY DEF StreamStep, Open, Subscribe, Replay, Activate, Reconnect, Drop, Set, journalVars
<1>2. Announced' = Announced
  BY <1>1 DEF Announced
<1>3. q # s => stream'[s] = stream[s]
  BY DEF StreamTyped, StreamStep, Open, Subscribe, Replay, Activate, Reconnect, Drop, Set
<1>4. Good(stream'[s], log, Announced, exec)
  BY <1>3, ConnectionGood
<1> QED BY <1>1, <1>2, <1>4

LEMMA StreamInvKeeps ==
    ASSUME ChainInv, StreamTyped, StreamInv, Cardinality(log) <= MaxEvents, [Next]_vars
    PROVE  StreamInv'
<1>1. WrittenLast' /\ ClosingInv'
  BY WrittenLastKeeps, ClosingKeeps DEF StreamInv
<1>2. ASSUME NEW s \in Streams
      PROVE  Good(stream'[s], log', Announced', exec')
  <2>1. WrittenLast /\ ClosingInv /\ Good(stream[s], log, Announced, exec)
    BY DEF StreamInv
  <2>2. CASE Restart
    BY <2>1, <2>2, RestartGood
  <2>3. CASE \E w \in Writers : Broadcast(w)
    BY <2>1, <2>3, BroadcastGood
  <2>4. CASE \E q \in Streams : StreamStep(q) \/ Drop(q)
    BY <2>1, <2>4, StreamStepsGood
  <2>5. CASE stream' = stream /\ ~ Restart /\ ~ \E w \in Writers : Broadcast(w)
    <3>1. Undisturbed \/ \E w \in Writers : Insert(w)
      BY <2>5, WrittenSteps
    <3> QED BY <2>1, <2>5, <3>1, ElsewhereGood
  <2> QED BY <2>2, <2>3, <2>4, <2>5, StreamMoves
<1> QED BY <1>1, <1>2 DEF StreamInv

LEMMA InitStreams == Init => StreamInv
<1> SUFFICES ASSUME Init PROVE StreamInv
  OBVIOUS
<1>1. WrittenLast /\ ClosingInv
  BY DEF Init, WrittenLast, ClosingInv
<1>2. ASSUME NEW s \in Streams
      PROVE  Good(stream[s], log, Announced, exec)
  <2>1. stream[s].pc = "off" /\ stream[s].got = <<>>
    BY DEF Init
  <2>2. Exact(stream[s], log) /\ Unaware(stream[s])
    BY <2>1 DEF Exact, Unaware
  <2> QED BY <2>1, <2>2, OutIsGood
<1> QED BY <1>1, <1>2 DEF StreamInv

\* The stream invariant, as long as the journal fits one replay.
LEMMA StreamsAlways == Spec /\ [](Cardinality(log) <= MaxEvents) => []StreamInv
<1>1. /\ ChainInv /\ (StreamTyped /\ RunTyped) /\ StreamInv
      /\ Cardinality(log) <= MaxEvents /\ [Next]_vars
      => StreamInv'
  BY StreamInvKeeps
<1> QED BY InitStreams, ChainAlways, TypedAlways, <1>1, PTL DEF Spec

\* While the journal fits one replay (journalMaxEvents), every client has been
\* sent exactly the journal from its start, in order, whatever was cut,
\* replayed, kept back and flushed (SseSubscriber, the event-stream route),
\* unless the executor gave its end up.
THEOREM StreamsAreExact ==
    Spec /\ [](Cardinality(log) <= MaxEvents) => []StreamExact
<1>1. StreamInv => StreamExact
  <2> SUFFICES ASSUME StreamInv, exec # "lost", NEW s \in Streams, NEW i \in DOMAIN stream[s].got
               PROVE  stream[s].got[i].seq = i - 1 /\ stream[s].got[i] \in log
    BY DEF StreamExact
  <2>1. Exact(stream[s], log)
    BY DEF StreamInv, Good, Sent
  <2> QED BY <2>1 DEF Exact
<1> QED BY StreamsAlways, <1>1, PTL

\* The safety half of EveryClientLearns: once the executor has recorded its end
\* and left, no open stream waits for a broadcast to bring it (#activate).
THEOREM NobodyWaitsForTheEnd ==
    Spec /\ [](Cardinality(log) <= MaxEvents) =>
        [](exec = "ended" => \A s \in Streams : stream[s].pc # "live")
<1>1. StreamInv => (exec = "ended" => \A s \in Streams : stream[s].pc # "live")
  BY DEF StreamInv, Good, Finishing
<1> QED BY StreamsAlways, <1>1, PTL
=============================================================================
