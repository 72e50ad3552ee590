-------------------------- MODULE RunEventsProofs ---------------------------
(***************************************************************************)
(* Proofs about the event journal of RunEvents, for any number of posts,   *)
(* cancels and streams.  Nothing is assumed of the chain of appends: what  *)
(* keeps the journal exact is that an append inserts at the length it      *)
(* read, and that the insert is ignored if the number is taken.            *)
(***************************************************************************)
EXTENDS RunEvents, FiniteSetTheorems, TLAPS

\* What the steps of one append call may do to its record and the chain.
LEMMA SettleTyped ==
    ASSUME JournalTyped, NEW w \in Writers, NEW how \in {"done", "threw"}, Settle(w, how)
    PROVE  /\ append' \in [Writers -> Calls]
           /\ tail' \in Writers \cup {None}
           /\ \A v \in Writers : append'[v].pc = "listed" =>
                append[v].pc = "listed" /\ append'[v].seq = append[v].seq
                                        /\ append'[v].kind = append[v].kind
BY DEF Calls, JournalTyped, Settle

LEMMA EnqueueTyped ==
    ASSUME JournalTyped, NEW w \in Writers, NEW kind \in Kinds, Enqueue(w, kind)
    PROVE  /\ append' \in [Writers -> Calls]
           /\ tail' \in Writers \cup {None}
           /\ \A v \in Writers : append'[v].pc = "listed" =>
                append[v].pc = "listed" /\ append'[v].seq = append[v].seq
                                        /\ append'[v].kind = append[v].kind
BY DEF Calls, JournalTyped, Enqueue

\* A step that writes no row and numbers no call keeps the whole invariant.
JournalInv == JournalTyped /\ JournalExact /\ AppendInv

Quiet ==
    /\ log' = log
    /\ append' \in [Writers -> Calls]
    /\ tail' \in Writers \cup {None}
    /\ \A v \in Writers : append'[v].pc = "listed" =>
         append[v].pc = "listed" /\ append'[v].seq = append[v].seq /\ append'[v].kind = append[v].kind

LEMMA QuietKeeps ==
    ASSUME JournalInv, Quiet
    PROVE  JournalInv'
BY DEF JournalInv, Calls, JournalTyped, JournalExact, GapFree, OneTerminal, AppendInv, Terminal, Quiet

LEMMA SameJournal ==
    ASSUME JournalTyped, UNCHANGED journalVars
    PROVE  Quiet
BY DEF Calls, JournalTyped, journalVars, Quiet

\* The number an append reads is the length of the journal.
LEMMA ListKeeps ==
    ASSUME JournalInv, NEW w \in Writers, List(w)
    PROVE  JournalInv'
<1>1. CASE Settle(w, "done")
  BY <1>1, SettleTyped, QuietKeeps DEF List, JournalInv, Quiet
<1>2. CASE /\ ~ (append[w].kind \in TerminalKinds /\ \E r \in log : Terminal(r))
           /\ append' = [append EXCEPT ![w].pc = "listed", ![w].seq = Cardinality(log)]
           /\ tail' = tail
  <2>1. Cardinality(log) \in Nat
    BY FS_CardinalityType DEF JournalInv, Calls, JournalTyped
  <2>2. log' = log
    BY DEF List
  <2>3. JournalTyped'
    BY <1>2, <2>1, <2>2 DEF JournalInv, Calls, JournalTyped
  <2>4. JournalExact'
    BY <2>2 DEF JournalInv, JournalExact, GapFree, OneTerminal, Terminal
  <2>5. ASSUME NEW v \in Writers, append'[v].pc = "listed"
        PROVE  /\ append'[v].seq <= Cardinality(log)
               /\ append'[v].kind \in TerminalKinds =>
                    \A r \in log : Terminal(r) => r.seq >= append'[v].seq
    <3>1. CASE v = w
      <4>1. append'[w].seq = Cardinality(log) /\ append'[w].kind = append[w].kind
        BY <1>2 DEF JournalInv, Calls, JournalTyped
      <4> QED BY <1>2, <2>1, <3>1, <4>1
    <3>2. CASE v # w
      <4>1. append'[v] = append[v]
        BY <1>2, <3>2 DEF JournalInv, Calls, JournalTyped
      <4> QED BY <2>5, <4>1 DEF JournalInv, AppendInv
    <3> QED BY <3>1, <3>2
  <2>6. AppendInv'
    BY <2>2, <2>5 DEF AppendInv, Terminal
  <2> QED BY <2>3, <2>4, <2>6 DEF JournalInv
<1> QED BY <1>1, <1>2 DEF List

\* A free number that is at most the length is the length, so the row goes to
\* the end; and a terminal row finds no other one below it.
LEMMA InsertKeeps ==
    ASSUME JournalInv, NEW w \in Writers, Insert(w)
    PROVE  JournalInv'
<1> DEFINE n == Cardinality(log)
           row == RowOf(w)
<1>1. n \in Nat /\ IsFiniteSet(log)
  BY FS_CardinalityType DEF JournalInv, Calls, JournalTyped
<1>2. /\ append' = [append EXCEPT ![w].pc = "written"]
      /\ tail' = tail
      /\ append[w].pc = "listed"
  BY DEF Insert
<1>3. \A v \in Writers : append'[v].pc = "listed" => append'[v] = append[v] /\ v # w
  BY <1>2 DEF JournalInv, Calls, JournalTyped
<1>4. append' \in [Writers -> Calls]
  BY <1>2 DEF JournalInv, Calls, JournalTyped
<1>5. CASE \E r \in log : r.seq = append[w].seq
  <2>1. log' = log
    BY <1>5 DEF Insert
  <2>2. Quiet
    BY <1>2, <1>3, <1>4, <2>1 DEF Quiet, JournalInv, Calls, JournalTyped
  <2> QED BY <2>2, QuietKeeps
<1>6. CASE ~ \E r \in log : r.seq = append[w].seq
  <2>1. log' = log \cup {row}
    BY <1>6 DEF Insert
  <2>2. row \in Rows /\ row.seq = append[w].seq /\ row.kind = append[w].kind
    BY DEF RowOf, Rows, JournalInv, Calls, JournalTyped
  <2>3. row.seq \in Nat /\ row.seq <= n
    BY <1>2, <2>2 DEF Rows, JournalInv, AppendInv
  <2>4. \A r \in log : r.seq \in 0 .. (n - 1)
    BY DEF JournalInv, JournalExact, GapFree
  <2>5. \A i \in 0 .. (n - 1) : \E r \in log : r.seq = i
    BY DEF JournalInv, JournalExact, GapFree
  <2>6. row.seq = n
    <3>1. row.seq \notin 0 .. (n - 1)
      BY <1>6, <2>2, <2>5
    <3> QED BY <1>1, <2>3, <3>1
  <2>7. Cardinality(log') = n + 1 /\ IsFiniteSet(log')
    <3>1. row \notin log
      BY <1>6, <2>2
    <3> QED BY <1>1, <2>1, <3>1, FS_AddElement
  <2>8. JournalTyped'
    BY <1>2, <1>4, <2>1, <2>2, <2>7 DEF JournalInv, Calls, JournalTyped
  <2>9. GapFree'
    <3>1. \A r \in log' : r.seq \in 0 .. n
      BY <1>1, <2>1, <2>4, <2>6
    <3>2. \A i \in 0 .. n : \E r \in log' : r.seq = i
      <4> TAKE i \in 0 .. n
      <4>1. CASE i = n
        BY <2>1, <2>6, <4>1
      <4>2. CASE i # n
        BY <1>1, <2>1, <2>5, <4>2
      <4> QED BY <4>1, <4>2
    <3>3. {r.seq : r \in log'} = 0 .. n
      BY <3>1, <3>2
    <3> QED BY <1>1, <2>7, <3>3 DEF GapFree
  <2>10. ASSUME Terminal(row) PROVE \A r \in log : ~ Terminal(r)
    <3>1. \A r \in log : Terminal(r) => r.seq >= n
      BY <1>2, <2>2, <2>6, <2>10 DEF JournalInv, AppendInv, Terminal
    <3> QED BY <1>1, <2>4, <3>1
  <2>11. OneTerminal'
    BY <2>1, <2>10 DEF OneTerminal, Terminal, JournalInv, JournalExact
  <2>12. AppendInv'
    <3>1. ASSUME NEW v \in Writers, append'[v].pc = "listed"
          PROVE  /\ append'[v].seq <= n + 1
                 /\ append'[v].kind \in TerminalKinds =>
                      \A r \in log' : Terminal(r) => r.seq >= append'[v].seq
      <4>1. /\ append'[v] = append[v]
            /\ append[v].seq \in Nat
            /\ append[v].seq <= n
            /\ append[v].kind \in TerminalKinds =>
                 \A r \in log : Terminal(r) => r.seq >= append[v].seq
        BY <1>3, <3>1 DEF JournalInv, Calls, JournalTyped, AppendInv
      <4> QED BY <1>1, <2>1, <2>6, <4>1
    <3> QED BY <2>7, <3>1 DEF AppendInv, Terminal
  <2> QED BY <2>8, <2>9, <2>11, <2>12 DEF JournalInv, JournalExact
<1> QED BY <1>5, <1>6

-----------------------------------------------------------------------------
\* Joining the chain and leaving it write nothing.
LEMMA EnqueueQuiet ==
    ASSUME JournalTyped, NEW w \in Writers, NEW kind \in Kinds, Enqueue(w, kind), UNCHANGED log
    PROVE  Quiet
BY EnqueueTyped DEF Quiet

LEMMA SettleQuiet ==
    ASSUME JournalTyped, NEW w \in Writers, NEW how \in {"done", "threw"}, Settle(w, how),
           UNCHANGED log
    PROVE  Quiet
BY SettleTyped DEF Quiet

LEMMA ExecQuiet ==
    ASSUME JournalTyped, ExecStep
    PROVE  Quiet
<1>0. Exec \in Writers
  BY DEF Writers
<1>1. CASE Start \/ Started \/ Emitted \/ AgentEnds
  BY <1>1, SameJournal DEF Start, Started, Emitted, AgentEnds
<1>2. CASE SetRunning
  BY <1>0, <1>2, EnqueueQuiet DEF SetRunning, Kinds
<1>3. CASE AgentEmits
  BY <1>0, <1>3, EnqueueQuiet DEF AgentEmits, Kinds
<1>4. CASE Finalise
  <2>1. PICK kind \in TerminalKinds : Enqueue(Exec, kind)
    BY <1>4 DEF Finalise, FinalStatus, FinalEvent, TerminalKinds
  <2> QED BY <1>0, <1>4, <2>1, EnqueueQuiet DEF Finalise, Kinds
<1>5. CASE Close \/ Disowned
  <2>1. log' = log /\ append' = append /\ tail' \in {tail, None}
    BY <1>5 DEF Close, Disowned, Leave
  <2> QED BY <2>1 DEF Quiet, Calls, JournalTyped
<1> QED BY <1>1, <1>2, <1>3, <1>4, <1>5 DEF ExecStep

LEMMA ThrowQuiet ==
    ASSUME JournalTyped, ExecThrows
    PROVE  Quiet
<1>1. CASE SetRunningThrows \/ FinaliseThrows
  BY <1>1, SameJournal DEF SetRunningThrows, FinaliseThrows
<1>2. CASE FinaliseForgets
  <2>1. Exec \in Writers
    BY DEF Writers
  <2>2. PICK kind \in TerminalKinds : Enqueue(Exec, kind)
    BY <1>2 DEF FinaliseForgets, FinalEvent, TerminalKinds
  <2> QED BY <1>2, <2>1, <2>2, EnqueueQuiet DEF FinaliseForgets, Kinds
<1> QED BY <1>1, <1>2 DEF ExecThrows

LEMMA ClientQuiet ==
    ASSUME JournalTyped,
           \/ \E p \in Posts : Post(p)
           \/ \E c \in Cancels : CancelStep(c)
           \/ \E s \in Streams : StreamStep(s) \/ Drop(s)
    PROVE  Quiet
<1>1. CASE \E p \in Posts : Post(p)
  BY <1>1, EnqueueQuiet DEF Post, Writers, Kinds
<1>2. ASSUME NEW c \in Cancels, ReadStatus(c) \/ Abort(c)
      PROVE  Quiet
  BY <1>2, SameJournal DEF ReadStatus, Abort
<1>3. ASSUME NEW c \in Cancels, SetCancelled(c)
      PROVE  Quiet
  <2>1. c \in Writers /\ "run.cancelled" \in Kinds
    BY DEF Writers, Kinds, TerminalKinds
  <2>2. CASE Enqueue(c, "run.cancelled")
    BY <1>3, <2>1, <2>2, EnqueueQuiet DEF SetCancelled
  <2>3. CASE UNCHANGED <<append, tail>>
    BY <1>3, <2>3, SameJournal DEF SetCancelled, journalVars
  <2> QED BY <1>3, <2>2, <2>3 DEF SetCancelled
<1>4. ASSUME NEW s \in Streams, StreamStep(s) \/ Drop(s)
      PROVE  Quiet
  BY <1>4, SameJournal DEF StreamStep, Drop, Open, Subscribe, Replay, Activate, Reconnect, Set
<1> QED BY <1>1, <1>2, <1>3, <1>4 DEF CancelStep

LEMMA RestartQuiet ==
    ASSUME JournalTyped, Restart
    PROVE  Quiet
BY DEF Calls, JournalTyped, Restart, Quiet

LEMMA NextKeeps ==
    ASSUME JournalInv, [Next]_vars
    PROVE  JournalInv' /\ log \subseteq log'
<1>0. JournalTyped
  BY DEF JournalInv
<1>1. CASE Quiet
  BY <1>1, QuietKeeps DEF Quiet
<1>2. ASSUME NEW w \in Writers, List(w)
      PROVE  JournalInv' /\ log \subseteq log'
  BY <1>2, ListKeeps DEF List
<1>3. ASSUME NEW w \in Writers, Insert(w)
      PROVE  JournalInv' /\ log \subseteq log'
  BY <1>3, InsertKeeps DEF Insert
<1>4. ASSUME NEW w \in Writers, Broadcast(w) \/ AppendThrows(w)
      PROVE  Quiet
  BY <1>0, <1>4, SettleQuiet DEF Broadcast, AppendThrows
<1>5. CASE UNCHANGED vars
  BY <1>0, <1>1, <1>5, SameJournal DEF vars
<1> QED
  BY <1>0, <1>1, <1>2, <1>3, <1>4, <1>5, ExecQuiet, ThrowQuiet, ClientQuiet, RestartQuiet DEF Next, AppendStep

LEMMA InitJournal == Init => JournalInv
<1> SUFFICES ASSUME Init PROVE JournalInv
  OBVIOUS
<1>1. JournalTyped
  BY FS_EmptySet DEF Init, Calls, JournalTyped, Kinds
<1>2. JournalExact
  BY FS_EmptySet DEF Init, JournalExact, GapFree, OneTerminal
<1>3. AppendInv
  BY DEF Init, AppendInv
<1> QED BY <1>1, <1>2, <1>3 DEF JournalInv

LEMMA JournalAlways == Spec => []JournalInv
<1>1. JournalInv /\ [Next]_vars => JournalInv'
  BY NextKeeps
<1> QED BY InitJournal, <1>1, PTL DEF Spec

\* The journal is gap-free with at most one terminal event (appendEvent's
\* contract), whoever appends, cancels, fails or leaves, in whatever order.
THEOREM JournalIsExact == Spec => []JournalExact
<1>1. JournalInv => JournalExact
  BY DEF JournalInv
<1> QED BY JournalAlways, <1>1, PTL

\* The number an append holds never runs ahead of the journal, and no terminal
\* event is below the number of a terminal append (List and Insert).
THEOREM NumbersAreLengths == Spec => []AppendInv
<1>1. JournalInv => AppendInv
  BY DEF JournalInv
<1> QED BY JournalAlways, <1>1, PTL

\* No step of the executor, the handlers or the streams changes or removes an
\* event that is in the journal (appendUserRunEvent's INSERT OR IGNORE).
THEOREM JournalGrows == Spec => AppendOnly
<1>1. JournalInv /\ [Next]_vars => [log \subseteq log']_vars
  BY NextKeeps
<1> QED BY JournalAlways, <1>1, PTL DEF Spec, AppendOnly
=============================================================================
