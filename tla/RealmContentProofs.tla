------------------------- MODULE RealmContentProofs -------------------------
(***************************************************************************)
(* Proofs about RealmContent, for any columns and values, any number of    *)
(* calls in flight, releases, items, edits and restarts.                   *)
(***************************************************************************)
EXTENDS RealmContent, RealmMergeProofs

SeederPcs == {"append", "row", "baseline", "adopt", "record"}
Resolving == {"detail", "fetch", "diff", "rediff", "write", "undo", "ledger"}

\* What the record of a call holds at each of its statements.
Formed(k) ==
    /\ k.pc \in Resolving \cup {"lookup", "restore", "reopen"} => k.item \in Items
    /\ k.pc \in Resolving => k.action \in Actions
    /\ k.pc \in {"fetch", "diff", "rediff", "write", "undo"} => k.action = "adopt"
    /\ k.pc \in {"rediff", "write", "promote", "publish"} => k.seen \in Payloads
    /\ k.pc \in {"copy", "promote", "publish"} => k.action = "approved"
    /\ k.pc = "close" => k.action \in {"approved", "rejected"}

\* The reconcile and the requests have statements of their own.
Role(c, k) == IF c = Seeder THEN k.pc \in SeederPcs \cup {"idle"} ELSE k.pc \notin SeederPcs

\* No call is about an item that was never recorded.
About(k) == \A i \in Items : i = k.item \/ i \in k.todo => item[i].status # "absent"

Good(c, k) == k \in CallRecs /\ Formed(k) /\ Role(c, k) /\ About(k)

Forms == \A c \in Calls : Good(c, call[c])

\* Requests wait for boot, which publishes the first version; a reconcile in
\* progress has room for its item.
Boots ==
    /\ ~ serving => \A c \in Slots : At(c, "idle")
    /\ head = NoHash => ~ serving /\ At(Seeder, "append") /\ versions = {}
    /\ ~ At(Seeder, "idle") => nextItem <= ItemsOn[dialect]

\* On SQLite a call has the database to itself.
Serial ==
    dialect = "sqlite" =>
        \A c, d \in Calls : ~ At(c, "idle") /\ ~ At(d, "idle") => c = d

Fresh == \A i \in Items : i >= nextItem => item[i].status = "absent"

\* Everything but the calls.
Typed ==
    /\ dialect \in Dialects /\ policy \in Policies
    /\ release \in Releases /\ serving \in BOOLEAN
    /\ rec \in Rows /\ fork \in Rows
    /\ head \in Hashes /\ versions \subseteq Payloads
    /\ item \in [Items -> Details] /\ nextItem \in 1 .. MaxItems + 1
    /\ proposal \in {"none", "pending", "approved", "rejected"}
    /\ edits \in 0 .. EditsOn[dialect] /\ crashes \in 0 .. MaxCrashes
    /\ before \in [Items -> Rows \cup {None}]
    /\ torn \subseteq Items \cup {None}
    /\ promoted \in BOOLEAN

Shape ==
    /\ Typed
    /\ call \in [Calls -> CallRecs]
    /\ Forms /\ Boots /\ Serial /\ Fresh

-----------------------------------------------------------------------------
(* Constants and records.                                                  *)

LEMMA DefaultsTyped ==
    /\ 1 \in Releases
    /\ \A r \in Releases : Default[r] \in Payloads
BY RealmConstants DEF Releases

LEMMA BoundsTyped ==
    ASSUME NEW d \in Dialects
    PROVE  ItemsOn[d] \in 1 .. MaxItems /\ EditsOn[d] \in Nat /\ MaxItems \in Nat
BY RealmConstants

LEMMA BasedTyped ==
    ASSUME NEW content \in Payloads, NEW origin \in Hashes
    PROVE  Based(content, origin) \in Rows
BY DEF Based, Rows, Hashes

LEMMA NoRowTyped == NoRow \in Rows
BY DefaultsTyped DEF NoRow, Rows, Hashes

LEMMA IdleTyped == Idle \in CallRecs /\ Idle.pc = "idle"
BY NoRowTyped DEF Idle, CallRecs, Hashes

-----------------------------------------------------------------------------
(* One call moves.                                                         *)

\* The step is call c's, which has the right to take it; k is its new record.
Moves(c, k) ==
    /\ Good(c, k)
    /\ call' = [call EXCEPT ![c] = k]
    /\ ~ At(c, "idle") \/ MayStart

\* The step leaves all but the calls and the count of edits alone.
Reads ==
    /\ UNCHANGED <<config, serving, rec, log, queue, govern, crashes>>
    /\ edits' \in 0 .. EditsOn[dialect]

LEMMA IdleGood ==
    ASSUME NEW c \in Calls
    PROVE  Good(c, Idle)
BY IdleTyped, RealmConstants DEF Good, Formed, Role, About, Idle, Resolving, SeederPcs

LEMMA RecordTyped ==
    ASSUME Shape, NEW c \in Calls
    PROVE  call[c] \in CallRecs /\ Good(c, call[c])
BY DEF Shape, Forms

LEMMA EnterMoves ==
    ASSUME Shape, NEW c \in Calls, NEW pc, Enter(c, pc),
           \/ c = Seeder /\ pc = "append"
           \/ c # Seeder /\ pc \in {"approve", "reject"}
    PROVE  Reads /\ Moves(c, [call[c] EXCEPT !.pc = pc])
BY RecordTyped DEF Enter, Goto, Shape, Typed, Reads, bounds, Moves, Good, CallRecs, Formed, Role,
   About, Resolving, SeederPcs

LEMMA StartResolveMoves ==
    ASSUME Shape, NEW c \in Slots, NEW i \in Items, NEW action \in Actions,
           StartResolve(c, i, action)
    PROVE  Reads /\ Moves(c, [Idle EXCEPT !.pc = "detail", !.item = i, !.action = action])
BY IdleTyped, RealmConstants DEF StartResolve, Shape, Typed, Reads, bounds, Moves, Good, CallRecs,
   Formed, Role, About, Resolving, SeederPcs, Idle, Calls

LEMMA StartSweepMoves ==
    ASSUME Shape, NEW c \in Slots, StartSweep(c)
    PROVE  Reads /\ Moves(c, [Idle EXCEPT !.pc = "next", !.swept = TRUE,
                                          !.todo = {i \in Open : ~ item[i].p1}])
BY IdleTyped, RealmConstants DEF StartSweep, Shape, Typed, Reads, bounds, Moves, Good, CallRecs,
   Formed, Role, About, Resolving, SeederPcs, Idle, Calls, Open

LEMMA StartUndoMoves ==
    ASSUME Shape, NEW c \in Slots, NEW i \in Items, StartUndo(c, i)
    PROVE  Reads /\ Moves(c, [Idle EXCEPT !.pc = "lookup", !.item = i])
BY IdleTyped, RealmConstants DEF StartUndo, Shape, Typed, Reads, bounds, Moves, Good, CallRecs,
   Formed, Role, About, Resolving, SeederPcs, Idle, Calls

LEMMA StartMergeMoves ==
    ASSUME Shape, NEW c \in Slots, NEW pc \in {"mdiff", "fdiff"}, StartMerge(c, pc)
    PROVE  Reads /\ Moves(c, [call[c] EXCEPT !.pc = pc])
<1>1. edits' \in 0 .. EditsOn[dialect]
  <2>1. dialect \in Dialects /\ edits \in 0 .. EditsOn[dialect]
    BY DEF Shape, Typed
  <2>2. edits < EditsOn[dialect] /\ edits' = edits + 1 /\ dialect' = dialect
    BY DEF StartMerge, config
  <2>3. EditsOn[dialect] \in Nat
    BY <2>1, BoundsTyped
  <2> QED BY <2>1, <2>2, <2>3
<1>2. Moves(c, [call[c] EXCEPT !.pc = pc])
  <2> DEFINE k == [call[c] EXCEPT !.pc = pc]
  <2>1. Good(c, call[c]) /\ call[c] \in CallRecs /\ call[c].pc = "idle"
    BY RecordTyped DEF StartMerge, At, Calls
  <2>2. /\ k \in CallRecs
        /\ k.pc = pc /\ k.item = call[c].item /\ k.todo = call[c].todo
    BY <2>1 DEF CallRecs
  <2>3. call' = [call EXCEPT ![c] = k] /\ MayStart
    BY DEF StartMerge, Goto
  <2> HIDE DEF k
  <2>4. Good(c, k)
    BY <2>1, <2>2, RealmConstants DEF Good, Formed, Role, About, Resolving, SeederPcs, Calls
  <2>5. Moves(c, k)
    BY <2>1, <2>2, <2>3, <2>4 DEF Moves, Shape, Calls
  <2> QED BY <2>5 DEF k
<1> QED BY <1>1, <1>2 DEF StartMerge, Reads

LEMMA LeftGood ==
    ASSUME Shape, NEW c \in Slots
    PROVE  Good(c, Left(call[c]))
<1> DEFINE k == [Idle EXCEPT !.pc = "next", !.todo = call[c].todo, !.swept = TRUE]
<1>1. Good(c, call[c]) /\ call[c] \in CallRecs
  BY RecordTyped DEF Calls
<1>2. /\ k \in CallRecs
      /\ k.pc = "next" /\ k.item = None /\ k.todo = call[c].todo
  BY <1>1, IdleTyped DEF CallRecs, Idle
<1>3. Good(c, k)
  <2> HIDE DEF k
  <2> QED BY <1>1, <1>2, RealmConstants DEF Good, Formed, Role, About, Resolving, SeederPcs, Calls
<1> QED BY <1>3, IdleGood DEF Left, Calls

LEMMA SweepNextMoves ==
    ASSUME Shape, NEW c \in Slots, SweepNext(c)
    PROVE  Reads /\ \E k : Moves(c, k) /\ k.pc \in {"idle", "next", "detail"}
<1>1. At(c, "next") /\ Reads
  BY DEF SweepNext, Shape, Typed, Reads, bounds
<1>2. CASE End(c)
  BY <1>1, <1>2, IdleGood, IdleTyped DEF End, Moves, Calls, At
<1>3. CASE \E i \in call[c].todo : call' = [call EXCEPT ![c].todo = @ \ {i}]
  <2>1. PICK i \in call[c].todo : call' = [call EXCEPT ![c].todo = @ \ {i}]
    BY <1>3
  <2> DEFINE k == [call[c] EXCEPT !.todo = @ \ {i}]
  <2>2. Good(c, k) /\ k.pc = "next"
    BY <1>1, RecordTyped DEF Good, CallRecs, Formed, Role, About, Resolving, SeederPcs, Calls, At
  <2>3. call' = [call EXCEPT ![c] = k]
    BY <2>1 DEF Shape
  <2> QED BY <1>1, <2>2, <2>3 DEF Moves, At
<1>4. CASE \E i \in call[c].todo, action \in Actions :
             call' = [call EXCEPT ![c].todo = @ \ {i}, ![c].pc = "detail",
                                  ![c].item = i, ![c].action = action]
  <2>1. PICK i \in call[c].todo, action \in Actions :
             call' = [call EXCEPT ![c].todo = @ \ {i}, ![c].pc = "detail",
                                  ![c].item = i, ![c].action = action]
    BY <1>4
  <2> DEFINE k == [call[c] EXCEPT !.todo = @ \ {i}, !.pc = "detail", !.item = i, !.action = action]
  <2>2. i \in Items
    BY RecordTyped DEF CallRecs, Calls
  <2>3. Good(c, k) /\ k.pc = "detail"
    BY <1>1, <2>2, RecordTyped, ZenonT(30)
    DEF Good, CallRecs, Formed, Role, About, Resolving, SeederPcs, Calls, At
  <2>4. call' = [call EXCEPT ![c] = k]
    BY <2>1 DEF Shape
  <2> QED BY <1>1, <2>3, <2>4 DEF Moves, At
<1> QED BY <1>1, <1>2, <1>3, <1>4 DEF SweepNext

LEMMA GetDetailMoves ==
    ASSUME Shape, NEW c \in Slots, GetDetail(c)
    PROVE  Reads /\ Moves(c, IF item[call[c].item].status # "open" THEN Left(call[c])
                             ELSE [call[c] EXCEPT !.pc = IF call[c].action = "adopt"
                                                         THEN "fetch" ELSE "ledger"])
<1> DEFINE k == IF item[call[c].item].status # "open" THEN Left(call[c])
                             ELSE [call[c] EXCEPT !.pc = IF call[c].action = "adopt"
                                                         THEN "fetch" ELSE "ledger"]
<1>1. Reads /\ ~ At(c, "idle")
  BY DEF GetDetail, At, Shape, Typed, Reads, bounds
<1>2. Good(c, k)
  BY RecordTyped, LeftGood DEF GetDetail, At, Good, CallRecs, Formed, Role, About, Resolving,
     SeederPcs, Calls
<1>3. call' = [call EXCEPT ![c] = k]
  BY DEF GetDetail, Shape, Done, Goto
<1> QED BY <1>1, <1>2, <1>3 DEF Moves

LEMMA FetchRowMoves ==
    ASSUME Shape, NEW c \in Slots, FetchRow(c)
    PROVE  Reads /\ Moves(c, [call[c] EXCEPT !.pc = "diff", !.row = rec])
<1> DEFINE k == [call[c] EXCEPT !.pc = "diff", !.row = rec]
<1>1. Reads /\ ~ At(c, "idle")
  BY DEF FetchRow, At, Shape, Typed, Reads, bounds
<1>2. Good(c, call[c]) /\ call[c] \in CallRecs
  BY RecordTyped DEF Calls
<1>3. /\ k \in CallRecs
      /\ k.pc = "diff" /\ k.item = call[c].item /\ k.action = call[c].action /\ k.todo = call[c].todo
  BY <1>2 DEF CallRecs, Shape, Typed
<1>4. Good(c, k)
  <2> HIDE DEF k
  <2> QED BY <1>1, <1>2, <1>3, RealmConstants DEF FetchRow, At, Good, Formed, Role, About, Resolving, SeederPcs, Calls
<1>5. call' = [call EXCEPT ![c] = k]
  BY DEF FetchRow, Shape
<1> QED BY <1>1, <1>4, <1>5 DEF Moves

LEMMA LoadDiffMoves ==
    ASSUME Shape, NEW c \in Slots, LoadDiff(c)
    PROVE  Reads /\ Moves(c, [call[c] EXCEPT !.pc = "rediff", !.seen = head])
<1> DEFINE k == [call[c] EXCEPT !.pc = "rediff", !.seen = head]
<1>1. Reads /\ ~ At(c, "idle")
  BY DEF LoadDiff, At, Shape, Typed, Reads, bounds
<1>2. Good(c, call[c]) /\ call[c] \in CallRecs
  BY RecordTyped DEF Calls
<1>3. /\ k \in CallRecs
      /\ k.pc = "rediff" /\ k.seen = head /\ k.item = call[c].item /\ k.action = call[c].action /\ k.todo = call[c].todo
  BY <1>2 DEF CallRecs, Shape, Typed
<1>4. Good(c, k)
  <2> HIDE DEF k
  <2> QED BY <1>1, <1>2, <1>3, RealmConstants DEF LoadDiff, At, Good, Formed, Role, About, Resolving, SeederPcs, Calls,
            Shape, Typed, Boots, Hashes
<1>5. call' = [call EXCEPT ![c] = k]
  BY DEF LoadDiff, Shape
<1> QED BY <1>1, <1>4, <1>5 DEF Moves

LEMMA ReloadDiffMoves ==
    ASSUME Shape, NEW c \in Slots, ReloadDiff(c)
    PROVE  Reads /\ Moves(c, [call[c] EXCEPT !.pc = "write", !.base = head])
<1> DEFINE k == [call[c] EXCEPT !.pc = "write", !.base = head]
<1>1. Reads /\ ~ At(c, "idle")
  BY DEF ReloadDiff, At, Shape, Typed, Reads, bounds
<1>2. Good(c, call[c]) /\ call[c] \in CallRecs
  BY RecordTyped DEF Calls
<1>3. /\ k \in CallRecs
      /\ k.pc = "write" /\ k.seen = call[c].seen /\ k.item = call[c].item /\ k.action = call[c].action /\ k.todo = call[c].todo
  BY <1>2 DEF CallRecs, Shape, Typed
<1>4. Good(c, k)
  <2> HIDE DEF k
  <2> QED BY <1>1, <1>2, <1>3, RealmConstants DEF ReloadDiff, At, Good, Formed, Role, About, Resolving, SeederPcs, Calls
<1>5. call' = [call EXCEPT ![c] = k]
  BY DEF ReloadDiff, Shape
<1> QED BY <1>1, <1>4, <1>5 DEF Moves

LEMMA LookUpMoves ==
    ASSUME Shape, NEW c \in Slots, LookUp(c)
    PROVE  Reads /\ Moves(c, LET d == item[call[c].item] IN
                             CASE d.status = "open" -> Idle
                               [] d.status = "adopted" /\ d.undo # None ->
                                    [call[c] EXCEPT !.pc = "restore", !.row = d.undo]
                               [] OTHER -> [call[c] EXCEPT !.pc = "reopen"])
<1> DEFINE k == LET d == item[call[c].item] IN
                             CASE d.status = "open" -> Idle
                               [] d.status = "adopted" /\ d.undo # None ->
                                    [call[c] EXCEPT !.pc = "restore", !.row = d.undo]
                               [] OTHER -> [call[c] EXCEPT !.pc = "reopen"]
<1>1. Reads /\ ~ At(c, "idle")
  BY DEF LookUp, At, Shape, Typed, Reads, bounds
<1>2. Good(c, call[c]) /\ call[c] \in CallRecs /\ At(c, "lookup")
  BY RecordTyped DEF LookUp, Calls
<1>3. Good(c, k)
  <2> DEFINE d == item[call[c].item]
             r == [call[c] EXCEPT !.pc = "restore", !.row = d.undo]
             q == [call[c] EXCEPT !.pc = "reopen"]
  <2>1. d \in Details /\ call[c].item \in Items
    BY <1>2 DEF Shape, Typed, Good, Formed, At
  <2>2. d.status = "adopted" /\ d.undo # None =>
          /\ r \in CallRecs
          /\ r.pc = "restore" /\ r.item = call[c].item /\ r.todo = call[c].todo
    BY <1>2, <2>1 DEF CallRecs, Details
  <2>3. /\ q \in CallRecs
        /\ q.pc = "reopen" /\ q.item = call[c].item /\ q.todo = call[c].todo
    BY <1>2 DEF CallRecs
  <2>4. d.status = "adopted" /\ d.undo # None => Good(c, r)
    <3> HIDE DEF r, d
    <3> QED BY <1>2, <2>1, <2>2, RealmConstants
            DEF At, Good, Formed, Role, About, Resolving, SeederPcs, Calls
  <2>5. Good(c, q)
    <3> HIDE DEF q
    <3> QED BY <1>2, <2>1, <2>3, RealmConstants
            DEF At, Good, Formed, Role, About, Resolving, SeederPcs, Calls
  <2> HIDE DEF r, q
  <2>6. \/ k = Idle
        \/ k = r /\ d.status = "adopted" /\ d.undo # None
        \/ k = q
    BY DEF r, q
  <2> QED BY <2>4, <2>5, <2>6, IdleGood DEF Calls
<1>4. call' = [call EXCEPT ![c] = k]
  BY DEF LookUp, Shape
<1> QED BY <1>1, <1>3, <1>4 DEF Moves

LEMMA CopyForkMoves ==
    ASSUME Shape, NEW c \in Slots, CopyFork(c)
    PROVE  Reads /\ Moves(c, [call[c] EXCEPT !.pc = "promote", !.seen = fork.content])
<1> DEFINE k == [call[c] EXCEPT !.pc = "promote", !.seen = fork.content]
<1>1. Reads /\ ~ At(c, "idle")
  BY DEF CopyFork, At, Shape, Typed, Reads, bounds
<1>2. Good(c, call[c]) /\ call[c] \in CallRecs
  BY RecordTyped DEF Calls
<1>3. /\ k \in CallRecs
      /\ k.pc = "promote" /\ k.seen = fork.content /\ k.item = call[c].item /\ k.action = call[c].action /\ k.todo = call[c].todo
  BY <1>2 DEF Rows, Hashes, CallRecs, Shape, Typed
<1>4. Good(c, k)
  <2> HIDE DEF k
  <2> QED BY <1>1, <1>2, <1>3, RealmConstants DEF CopyFork, At, Good, Formed, Role, About, Resolving, SeederPcs, Calls,
            Shape, Typed, Rows
<1>5. call' = [call EXCEPT ![c] = k]
  BY DEF CopyFork, Shape
<1> QED BY <1>1, <1>4, <1>5 DEF Moves

LEMMA ReadProposalMoves ==
    ASSUME Shape, NEW c \in Slots, ReadProposal(c)
    PROVE  Reads /\ Moves(c, IF proposal # "pending" THEN Idle
                             ELSE [call[c] EXCEPT
                                     !.pc = IF @ = "approve" THEN "copy" ELSE "close",
                                     !.action = IF At(c, "approve") THEN "approved"
                                                                    ELSE "rejected"])
<1> DEFINE k == IF proposal # "pending" THEN Idle
                             ELSE [call[c] EXCEPT
                                     !.pc = IF @ = "approve" THEN "copy" ELSE "close",
                                     !.action = IF At(c, "approve") THEN "approved"
                                                                    ELSE "rejected"]
<1>1. Reads /\ ~ At(c, "idle")
  BY DEF ReadProposal, At, Shape, Typed, Reads, bounds
<1>2. Good(c, call[c]) /\ call[c] \in CallRecs
  BY RecordTyped DEF Calls
<1>3. Good(c, k)
  <2> DEFINE pc == IF At(c, "approve") THEN "copy" ELSE "close"
             action == IF At(c, "approve") THEN "approved" ELSE "rejected"
             r == [call[c] EXCEPT !.pc = pc, !.action = action]
  <2>1. /\ r \in CallRecs
        /\ r.pc = pc /\ r.item = call[c].item /\ r.todo = call[c].todo /\ r.action = action
    BY <1>2 DEF CallRecs
  <2>2. Good(c, r)
    <3> HIDE DEF r
    <3> QED BY <1>2, <2>1, RealmConstants
            DEF At, Good, Formed, Role, About, Resolving, SeederPcs, Calls
  <2>3. k = r \/ k = Idle
    BY DEF At
  <2> QED BY <2>2, <2>3, IdleGood DEF Calls
<1>4. call' = [call EXCEPT ![c] = k]
  BY DEF ReadProposal, Shape, End, At
<1> QED BY <1>1, <1>3, <1>4 DEF Moves

\* What LoadMerge leaves in a call: nothing, or the merged row on upstream.
MergedTo(k, pc, upstream) ==
    k = Idle \/ (k.pc = pc /\ k.row \in Rows /\ k.row.origin = upstream)

LEMMA LoadMergeMoves ==
    ASSUME Shape, NEW c \in Slots, NEW row \in Rows, NEW upstream \in Payloads,
           NEW pc \in {"mwrite", "fwrite"}, LoadMerge(c, row, upstream, pc), ~ At(c, "idle")
    PROVE  \E k : Moves(c, k) /\ MergedTo(k, pc, upstream)
<1>1. Good(c, call[c]) /\ call[c] \in CallRecs
  BY RecordTyped DEF Calls
<1>2. CASE End(c)
  BY <1>2, IdleGood DEF End, Moves, MergedTo, Calls
<1>3. CASE ~ End(c)
  <2>1. PICK chosen \in Choices :
          call' = [call EXCEPT ![c].pc = pc,
                     ![c].row = Based(Merge(BaseOf(row), row.content, upstream, chosen), upstream)]
    BY <1>3 DEF LoadMerge
  <2> DEFINE merged == Based(Merge(BaseOf(row), row.content, upstream, chosen), upstream)
             k == [call[c] EXCEPT !.pc = pc, !.row = merged]
  <2>2. merged \in Rows /\ merged.origin = upstream
    <3>1. \A f \in DOMAIN chosen : chosen[f] \in Values
      BY DEF Choices
    <3>2. Merge(BaseOf(row), row.content, upstream, chosen) \in Payloads
      BY <3>1, MergeTyped DEF Rows
    <3> QED BY <3>2 DEF Based, Rows, Hashes
  <2> HIDE DEF merged
  <2>3. /\ k \in CallRecs /\ k.row = merged
        /\ k.pc = pc /\ k.item = call[c].item /\ k.todo = call[c].todo
    BY <1>1, <2>2 DEF CallRecs
  <2>4. call' = [call EXCEPT ![c] = k]
    BY <2>1 DEF Shape, merged
  <2>5. Good(c, k)
    <3> HIDE DEF k
    <3> QED BY <1>1, <2>3, RealmConstants DEF Good, Formed, Role, About, Resolving, SeederPcs, Calls
  <2> HIDE DEF k
  <2> QED BY <2>2, <2>3, <2>4, <2>5 DEF Moves, MergedTo
<1> QED BY <1>2, <1>3

LEMMA MergeDiffMoves ==
    ASSUME Shape, NEW c \in Slots, MergeDiff(c)
    PROVE  Reads /\ \E k : Moves(c, k) /\ MergedTo(k, "mwrite", head)
<1>1. Reads /\ At(c, "mdiff") /\ LoadMerge(c, rec, head, "mwrite")
  BY DEF MergeDiff, Shape, Typed, Reads, bounds
<1>2. rec \in Rows /\ head \in Payloads
  BY <1>1 DEF At, Shape, Typed, Boots, Hashes
<1> QED BY <1>1, <1>2, LoadMergeMoves DEF At

LEMMA ForkDiffMoves ==
    ASSUME Shape, NEW c \in Slots, ForkDiff(c)
    PROVE  Reads /\ \E k : Moves(c, k) /\ MergedTo(k, "fwrite", rec.content)
<1>1. Reads /\ At(c, "fdiff") /\ LoadMerge(c, fork, rec.content, "fwrite")
  BY DEF ForkDiff, Shape, Typed, Reads, bounds
<1>2. fork \in Rows /\ rec.content \in Payloads
  BY DEF Shape, Typed, Rows
<1> QED BY <1>1, <1>2, LoadMergeMoves DEF At

LEMMA GotoMoves ==
    ASSUME Shape, NEW c \in Calls, NEW pc, Goto(c, pc),
           \/ c \in Slots /\ <<call[c].pc, pc>> \in {<<"write", "undo">>, <<"undo", "ledger">>,
                <<"restore", "reopen">>, <<"promote", "publish">>, <<"publish", "close">>}
           \/ c = Seeder /\ <<call[c].pc, pc>> \in {<<"append", "row">>, <<"adopt", "record">>}
    PROVE  Moves(c, [call[c] EXCEPT !.pc = pc])
<1> DEFINE k == [call[c] EXCEPT !.pc = pc]
<1>1. Good(c, call[c]) /\ call[c] \in CallRecs
  BY RecordTyped
<1>2. /\ k \in CallRecs /\ k.pc = pc /\ k.action = call[c].action /\ k.seen = call[c].seen
      /\ k.item = call[c].item /\ k.todo = call[c].todo
  BY <1>1 DEF CallRecs
<1>3. Good(c, k)
  <2> HIDE DEF k
  <2> QED BY <1>1, <1>2, RealmConstants DEF Good, Formed, Role, About, Resolving, SeederPcs, Calls
<1>4. call' = [call EXCEPT ![c] = k] /\ ~ At(c, "idle")
  BY DEF Goto, Shape, At
<1> QED BY <1>3, <1>4 DEF Moves

LEMMA EndMoves ==
    ASSUME Shape, NEW c \in Calls, End(c), ~ At(c, "idle")
    PROVE  Moves(c, Idle)
BY IdleGood DEF End, Moves

LEMMA DoneMoves ==
    ASSUME Shape, NEW c \in Slots, Done(c), ~ At(c, "idle")
    PROVE  Moves(c, Left(call[c]))
BY LeftGood DEF Done, Moves, Shape

\* The reconcile's course after the row was read.
AfterRead(k) ==
    /\ k.row = rec
    /\ LET drift == Drift(rec.origin, rec.content, Default[release]) IN
       k.pc = CASE rec.origin = NoHash -> "baseline"
                [] rec.origin # NoHash /\ Adopts(drift) -> "adopt"
                [] rec.origin # NoHash /\ Reviews(drift) -> "record"
                [] OTHER -> "idle"

LEMMA ReadRowMoves ==
    ASSUME Shape, ReadRow
    PROVE  \E k : Moves(Seeder, k) /\ AfterRead(k)
<1> DEFINE drift == Drift(rec.origin, rec.content, Default[release])
           p1 == Guarded \/ drift = "diverged"
           pc == CASE rec.origin = NoHash -> "baseline"
                   [] rec.origin # NoHash /\ Adopts(drift) -> "adopt"
                   [] rec.origin # NoHash /\ Reviews(drift) -> "record"
                   [] OTHER -> "idle"
           k == [call[Seeder] EXCEPT !.row = rec, !.p1 = p1, !.pc = pc]
<1>1. Good(Seeder, call[Seeder]) /\ call[Seeder] \in CallRecs
  BY RecordTyped DEF Calls
<1>2. pc \in {"baseline", "adopt", "record", "idle"} /\ p1 \in BOOLEAN
  BY RealmConstants
<1>3. AfterRead(k) <=> k.row = rec /\ k.pc = pc
  BY DEF AfterRead
<1>4. /\ At(Seeder, "row")
      /\ call' = [call EXCEPT ![Seeder].row = rec, ![Seeder].p1 = p1, ![Seeder].pc = pc]
  BY Zenon DEF ReadRow
<1> HIDE DEF pc, p1
<1>5. call' = [call EXCEPT ![Seeder] = k]
  BY <1>4 DEF Shape, Calls
<1>6. /\ k \in CallRecs /\ k.pc = pc /\ k.row = rec
      /\ k.item = call[Seeder].item /\ k.todo = call[Seeder].todo
  BY <1>1, <1>2 DEF CallRecs, Shape, Typed
<1>7. Good(Seeder, k)
  <2> HIDE DEF k
  <2> QED BY <1>1, <1>2, <1>6, RealmConstants
          DEF Good, Formed, Role, About, Resolving, SeederPcs, Calls
<1> QED BY <1>3, <1>4, <1>5, <1>6, <1>7 DEF Moves, At

-----------------------------------------------------------------------------
(* Shape is inductive.                                                     *)

Recorded == \A i \in Items : item'[i].status = "absent" => item[i].status = "absent"

LEMMA CallsKeep ==
    ASSUME Shape, NEW c \in Calls, NEW k, Moves(c, k), Recorded, dialect' = dialect
    PROVE  call' \in [Calls -> CallRecs] /\ Forms' /\ Serial'
<1>1. call' \in [Calls -> CallRecs] /\ \A d \in Calls : call'[d] = IF d = c THEN k ELSE call[d]
  BY DEF Shape, Moves, Good
<1>2. Forms'
  BY <1>1 DEF Shape, Moves, Forms, Good, About, Recorded
<1>3. Serial'
  <2> SUFFICES ASSUME dialect = "sqlite", NEW d \in Calls, NEW e \in Calls,
                      call'[d].pc # "idle", call'[e].pc # "idle"
               PROVE  d = e
    BY DEF Serial, At
  <2> QED BY <1>1 DEF Shape, Moves, Serial, MayStart, At
<1> QED BY <1>1, <1>2, <1>3

LEMMA SlotKeeps ==
    ASSUME Shape, NEW c \in Slots, NEW k, Moves(c, k), Recorded, Typed', Fresh',
           dialect' = dialect, serving' = serving, nextItem' = nextItem,
           head' = NoHash => head = NoHash
    PROVE  Shape'
<1>1. serving /\ head' # NoHash
  BY DEF Shape, Boots, Moves, MayStart
<1>2. call'[Seeder] = call[Seeder]
  BY RealmConstants DEF Shape, Moves
<1>3. Boots'
  BY <1>1, <1>2 DEF Shape, Boots, At
<1> QED BY <1>3, CallsKeep DEF Shape, Calls

LEMMA ReadsKeep ==
    ASSUME Shape, NEW c \in Slots, NEW k, Moves(c, k), Reads
    PROVE  Shape'
<1>1. Typed' /\ Fresh' /\ Recorded
  BY DEF Shape, Typed, Fresh, Recorded, Reads, config, log, queue, govern
<1> QED BY <1>1, SlotKeeps DEF Reads, config, log, queue

LEMMA StillKeeps ==
    ASSUME Shape, Typed', UNCHANGED <<dialect, serving, item, nextItem, call>>, MayStart,
           head' = head
    PROVE  Shape'
<1>1. Forms' /\ Boots' /\ Serial' /\ Fresh'
  BY DEF Shape, Forms, Good, About, Boots, Serial, At, Fresh, MayStart
<1> QED BY <1>1 DEF Shape


LEMMA StartShape ==
    ASSUME Shape, NEW c \in Slots, Start(c)
    PROVE  Shape'
<1>1. CASE StartSweep(c)
  BY <1>1, StartSweepMoves, ReadsKeep
<1>2. ASSUME NEW i \in Items, StartUndo(c, i) PROVE Shape'
  BY <1>2, StartUndoMoves, ReadsKeep
<1>3. ASSUME NEW i \in Items, NEW action \in Actions, StartResolve(c, i, action) PROVE Shape'
  BY <1>3, StartResolveMoves, ReadsKeep
<1>4. ASSUME NEW pc \in {"mdiff", "fdiff"}, StartMerge(c, pc) PROVE Shape'
  BY <1>4, StartMergeMoves, ReadsKeep
<1>5. ASSUME NEW pc \in {"approve", "reject"}, Enter(c, pc) PROVE Shape'
  BY <1>5, EnterMoves, ReadsKeep, RealmConstants DEF Calls
<1> QED BY <1>1, <1>2, <1>3, <1>4, <1>5 DEF Start

\* The steps of a request that write.
LEMMA WriteAdoptedShape ==
    ASSUME Shape, NEW c \in Slots, WriteAdopted(c)
    PROVE  Shape' /\ Moves(c, [call[c] EXCEPT !.pc = "undo"])
<1>1. Moves(c, [call[c] EXCEPT !.pc = "undo"])
  BY GotoMoves DEF WriteAdopted, At, Calls
<1>2. Good(c, call[c]) /\ call[c] \in CallRecs /\ call[c].pc = "write"
  BY RecordTyped DEF WriteAdopted, At, Calls
<1>3. call[c].seen \in Payloads /\ call[c].base \in Hashes
  BY <1>2 DEF Good, Formed, CallRecs
<1>4. rec' \in Rows
  BY <1>3, BasedTyped DEF WriteAdopted
<1>5. before' \in [Items -> Rows \cup {None}]
  BY DEF WriteAdopted, Shape, Typed
<1>6. Typed' /\ Fresh' /\ Recorded
  BY <1>4, <1>5
  DEF WriteAdopted, Shape, Typed, Fresh, Recorded, config, log, govern, bounds
<1> QED BY <1>1, <1>6, SlotKeeps DEF WriteAdopted, config, log

LEMMA SaveUndoShape ==
    ASSUME Shape, NEW c \in Slots, SaveUndo(c)
    PROVE  Shape' /\ Moves(c, [call[c] EXCEPT !.pc = "ledger"])
<1>1. Moves(c, [call[c] EXCEPT !.pc = "ledger"])
  BY GotoMoves DEF SaveUndo, At, Calls
<1>2. call[c] \in CallRecs
  BY RecordTyped DEF Calls
<1>3. call[c].row \in Rows
  BY <1>2 DEF CallRecs
<1>4. item' \in [Items -> Details] /\ \A i \in Items : item'[i].status = item[i].status
  BY <1>3 DEF SaveUndo, Shape, Typed, Details
<1>5. Typed' /\ Fresh' /\ Recorded
  BY <1>4 DEF SaveUndo, Shape, Typed, Fresh, Recorded, config, log, govern, bounds
<1> QED BY <1>1, <1>5, SlotKeeps DEF SaveUndo, config, log

LEMMA LedgerShape ==
    ASSUME Shape, NEW c \in Slots, Ledger(c)
    PROVE  Shape' /\ Moves(c, Left(call[c]))
<1>1. Moves(c, Left(call[c]))
  BY DoneMoves DEF Ledger, At
<1>2. Good(c, call[c]) /\ call[c].pc = "ledger"
  BY RecordTyped DEF Ledger, At, Calls
<1>3. Resolution[call[c].action] \in {"kept", "adopted", "deferred"}
  BY <1>2 DEF Good, Formed, Resolving, Resolution, Actions
<1>4. /\ item' \in [Items -> Details]
      /\ \A i \in Items : item'[i].status = IF i = call[c].item /\ item[i].status = "open"
                                            THEN Resolution[call[c].action]
                                            ELSE item[i].status
  <2> DEFINE status == Resolution[call[c].action]
  <2>1. item \in [Items -> Details]
    BY DEF Shape, Typed
  <2>2. item' = [item EXCEPT ![call[c].item].status = IF @ = "open" THEN status ELSE @]
    BY DEF Ledger
  <2>3. status \in {"kept", "adopted", "deferred"}
    BY <1>3
  <2> HIDE DEF status
  <2>4. item' \in [Items -> Details]
    BY <2>1, <2>2, <2>3 DEF Details
  <2>5. \A i \in Items : item'[i].status = IF i = call[c].item /\ item[i].status = "open"
                                          THEN status
                                          ELSE item[i].status
    BY <2>1, <2>2 DEF Details
  <2> QED BY <2>4, <2>5 DEF status
<1>5. Typed'
  BY <1>4 DEF Ledger, Shape, Typed, config, log, govern, bounds
<1>6. Fresh' /\ Recorded
  BY <1>3, <1>4 DEF Ledger, Shape, Fresh, Recorded
<1> QED BY <1>1, <1>5, <1>6, SlotKeeps DEF Ledger, config, log

LEMMA RestoreShape ==
    ASSUME Shape, NEW c \in Slots, Restore(c)
    PROVE  Shape' /\ Moves(c, [call[c] EXCEPT !.pc = "reopen"])
<1>1. Moves(c, [call[c] EXCEPT !.pc = "reopen"])
  BY GotoMoves DEF Restore, At, Calls
<1>2. call[c].row \in Rows
  BY RecordTyped DEF CallRecs, Calls
<1>3. Typed' /\ Fresh' /\ Recorded
  BY <1>2 DEF Restore, Shape, Typed, Fresh, Recorded, config, log, queue, govern, bounds
<1> QED BY <1>1, <1>3, SlotKeeps DEF Restore, config, log, queue

LEMMA ReopenShape ==
    ASSUME Shape, NEW c \in Slots, Reopen(c)
    PROVE  Shape' /\ Moves(c, Idle)
<1>1. Moves(c, Idle)
  BY EndMoves DEF Reopen, At, Calls
<1>2. Good(c, call[c]) /\ call[c].pc = "reopen"
  BY RecordTyped DEF Reopen, At, Calls
<1>3. call[c].item \in Items /\ item[call[c].item].status # "absent"
  BY <1>2 DEF Good, Formed, About
<1>4. /\ item' \in [Items -> Details]
      /\ \A i \in Items : item'[i].status = IF i = call[c].item THEN "open" ELSE item[i].status
  BY <1>3 DEF Reopen, Shape, Typed, Details
<1>5. before' \in [Items -> Rows \cup {None}]
  BY DEF Reopen, Shape, Typed
<1>6. Typed' /\ Fresh' /\ Recorded
  BY <1>3, <1>4, <1>5 DEF Reopen, Shape, Typed, Fresh, Recorded, config, log, govern, bounds
<1> QED BY <1>1, <1>6, SlotKeeps DEF Reopen, config, log

LEMMA MergeWriteShape ==
    ASSUME Shape, NEW c \in Slots, MergeWrite(c) \/ ForkWrite(c)
    PROVE  Shape' /\ Moves(c, Idle)
<1>1. Moves(c, Idle)
  BY EndMoves DEF MergeWrite, ForkWrite, At, Calls
<1>2. call[c].row \in Rows
  BY RecordTyped DEF CallRecs, Calls
<1>3. Typed' /\ Fresh' /\ Recorded
  BY <1>2
  DEF MergeWrite, ForkWrite, Shape, Typed, Fresh, Recorded, config, log, queue, govern, bounds
<1> QED BY <1>1, <1>3, SlotKeeps DEF MergeWrite, ForkWrite, config, log, queue

LEMMA PromoteShape ==
    ASSUME Shape, NEW c \in Slots, Promote(c)
    PROVE  Shape' /\ Moves(c, [call[c] EXCEPT !.pc = "publish"])
<1>1. Moves(c, [call[c] EXCEPT !.pc = "publish"])
  BY GotoMoves DEF Promote, At, Calls
<1>2. Good(c, call[c]) /\ call[c].pc = "promote"
  BY RecordTyped DEF Promote, At, Calls
<1>3. rec' \in Rows
  BY <1>2, BasedTyped DEF Promote, Good, Formed, Hashes
<1>4. Typed' /\ Fresh' /\ Recorded
  BY <1>3 DEF Promote, Shape, Typed, Fresh, Recorded, config, log, queue, bounds
<1> QED BY <1>1, <1>4, SlotKeeps DEF Promote, config, log, queue

LEMMA PublishPromotedShape ==
    ASSUME Shape, NEW c \in Slots, PublishPromoted(c)
    PROVE  Shape' /\ Moves(c, [call[c] EXCEPT !.pc = "close"])
<1>1. Moves(c, [call[c] EXCEPT !.pc = "close"])
  BY GotoMoves DEF PublishPromoted, At, Calls
<1>2. Good(c, call[c]) /\ call[c].pc = "publish"
  BY RecordTyped DEF PublishPromoted, At, Calls
<1>3. call[c].seen \in Payloads
  BY <1>2 DEF Good, Formed
<1>4. head' \in {head, call[c].seen} /\ versions' = versions \cup {call[c].seen}
  BY DEF PublishPromoted, AppendVersion
<1>5. Typed' /\ Fresh' /\ Recorded /\ (head' = NoHash => head = NoHash)
  BY <1>3, <1>4, NoHashIsNoPayload
  DEF PublishPromoted, Shape, Typed, Fresh, Recorded, config, queue, govern, bounds, Hashes, Payloads
<1> QED BY <1>1, <1>5, SlotKeeps DEF PublishPromoted, config, queue

LEMMA CloseProposalShape ==
    ASSUME Shape, NEW c \in Slots, CloseProposal(c)
    PROVE  Shape' /\ Moves(c, Idle)
<1>1. Moves(c, Idle)
  BY EndMoves DEF CloseProposal, At, Calls
<1>2. Good(c, call[c]) /\ call[c].pc = "close"
  BY RecordTyped DEF CloseProposal, At, Calls
<1>3. Typed' /\ Fresh' /\ Recorded
  BY <1>2
  DEF CloseProposal, Good, Formed, Shape, Typed, Fresh, Recorded, config, log, queue, bounds
<1> QED BY <1>1, <1>3, SlotKeeps DEF CloseProposal, config, log, queue

LEMMA StepShape ==
    ASSUME Shape, NEW c \in Slots, Step(c)
    PROVE  Shape'
<1>1. CASE SweepNext(c)
  BY <1>1, SweepNextMoves, ReadsKeep
<1>2. CASE GetDetail(c)
  BY <1>2, GetDetailMoves, ReadsKeep
<1>3. CASE FetchRow(c)
  BY <1>3, FetchRowMoves, ReadsKeep
<1>4. CASE LoadDiff(c)
  BY <1>4, LoadDiffMoves, ReadsKeep
<1>5. CASE ReloadDiff(c)
  BY <1>5, ReloadDiffMoves, ReadsKeep
<1>6. CASE LookUp(c)
  BY <1>6, LookUpMoves, ReadsKeep
<1>7. CASE MergeDiff(c)
  BY <1>7, MergeDiffMoves, ReadsKeep
<1>8. CASE ForkDiff(c)
  BY <1>8, ForkDiffMoves, ReadsKeep
<1>9. CASE ReadProposal(c)
  BY <1>9, ReadProposalMoves, ReadsKeep
<1>10. CASE CopyFork(c)
  BY <1>10, CopyForkMoves, ReadsKeep
<1> QED BY <1>1, <1>2, <1>3, <1>4, <1>5, <1>6, <1>7, <1>8, <1>9, <1>10,
           WriteAdoptedShape, SaveUndoShape, LedgerShape, RestoreShape, ReopenShape,
           MergeWriteShape, PromoteShape, PublishPromotedShape, CloseProposalShape
        DEF Step

\* The reconcile's steps.
LEMMA SeederKeeps ==
    ASSUME Shape, NEW k, Moves(Seeder, k), Recorded, Typed', Fresh', dialect' = dialect,
           serving \/ ~ At(Seeder, "idle"),
           serving => serving',
           head' = NoHash => head = NoHash /\ ~ serving' /\ k.pc = "append" /\ versions' = {},
           k.pc # "idle" => nextItem' <= ItemsOn[dialect]
    PROVE  Shape'
<1>1. /\ call'[Seeder] = k
      /\ \A c \in Slots : call'[c] = call[c]
  BY RealmConstants DEF Shape, Moves, Calls
<1>2. Boots'
  BY <1>1 DEF Shape, Boots, At
<1> QED BY <1>2, CallsKeep DEF Shape, Calls

LEMMA PublishDefaultShape ==
    ASSUME Shape, PublishDefault
    PROVE  Shape' /\ Moves(Seeder, [call[Seeder] EXCEPT !.pc = "row"])
<1>1. Moves(Seeder, [call[Seeder] EXCEPT !.pc = "row"]) /\ At(Seeder, "append")
  BY GotoMoves DEF PublishDefault, At, Calls
<1>2. Default[release] \in Payloads
  BY DefaultsTyped DEF Shape, Typed
<1>3. head' \in {head, Default[release]} /\ versions' = versions \cup {Default[release]}
  BY DEF PublishDefault, AppendVersion
<1>4. head' # NoHash
  BY <1>2, NoHashIsNoPayload DEF PublishDefault, AppendVersion, Shape, Boots, Payloads
<1>5. Typed' /\ Fresh' /\ Recorded
  BY <1>2, <1>3
  DEF PublishDefault, Shape, Typed, Fresh, Recorded, config, queue, govern, bounds, Hashes
<1> QED BY <1>1, <1>4, <1>5, SeederKeeps DEF PublishDefault, config, queue, Shape, Boots, At

LEMMA ReadRowShape ==
    ASSUME Shape, ReadRow
    PROVE  Shape'
<1>1. PICK k : Moves(Seeder, k) /\ AfterRead(k)
  BY ReadRowMoves
<1>2. At(Seeder, "row") /\ head # NoHash
  BY DEF ReadRow, Shape, Boots, At
<1>3. Typed' /\ Fresh' /\ Recorded /\ (serving => serving')
  BY DEF ReadRow, Shape, Typed, Fresh, Recorded, config, log, queue, govern, bounds
<1>4. nextItem <= ItemsOn[dialect]
  BY <1>2 DEF Shape, Boots, At
<1> QED BY <1>1, <1>2, <1>3, <1>4, SeederKeeps DEF ReadRow, config, log, queue, At

LEMMA BaselineShape ==
    ASSUME Shape, Baseline
    PROVE  Shape' /\ Moves(Seeder, Idle)
<1>1. Moves(Seeder, Idle) /\ At(Seeder, "baseline") /\ head # NoHash
  BY EndMoves DEF Baseline, At, Calls, Shape, Boots
<1>2. call[Seeder].row \in Rows
  BY RecordTyped DEF CallRecs, Calls
<1>3. rec' \in Rows
  BY <1>2 DEF Baseline, Shape, Typed, Rows, Hashes
<1>4. Typed' /\ Fresh' /\ Recorded
  BY <1>3 DEF Baseline, Shape, Typed, Fresh, Recorded, config, log, queue, govern, bounds
<1> QED BY <1>1, <1>4, IdleTyped, SeederKeeps DEF Baseline, config, log, queue, At

LEMMA AdoptDefaultShape ==
    ASSUME Shape, AdoptDefault
    PROVE  Shape' /\ Moves(Seeder, [call[Seeder] EXCEPT !.pc = "record"])
<1>1. /\ Moves(Seeder, [call[Seeder] EXCEPT !.pc = "record"])
      /\ At(Seeder, "adopt") /\ head # NoHash /\ nextItem <= ItemsOn[dialect]
  BY GotoMoves DEF AdoptDefault, At, Calls, Shape, Boots
<1>2. rec' \in Rows
  BY BasedTyped, DefaultsTyped DEF AdoptDefault, Shape, Typed, Hashes
<1>3. Typed' /\ Fresh' /\ Recorded
  BY <1>2 DEF AdoptDefault, Shape, Typed, Fresh, Recorded, config, log, queue, govern, bounds
<1> QED BY <1>1, <1>3, SeederKeeps DEF AdoptDefault, config, log, queue, At

\* A boot that is to record an item still has an item to record.
LEMMA NextItemInItems ==
    ASSUME Shape, At(Seeder, "record")
    PROVE  nextItem \in Items
<1>1. dialect \in Dialects /\ nextItem \in 1 .. MaxItems + 1
  BY DEF Shape, Typed
<1>2. nextItem <= ItemsOn[dialect]
  BY DEF Shape, Boots, At
<1>3. ItemsOn[dialect] \in 1 .. MaxItems /\ MaxItems \in Nat
  BY <1>1, BoundsTyped
<1> QED BY <1>1, <1>2, <1>3 DEF Items

LEMMA RecordShape ==
    ASSUME Shape, Record
    PROVE  Shape' /\ Moves(Seeder, Idle)
<1>1. Moves(Seeder, Idle) /\ At(Seeder, "record") /\ head # NoHash
  BY EndMoves DEF Record, At, Calls, Shape, Boots
<1>2. nextItem \in Items /\ call[Seeder].p1 \in BOOLEAN
  BY <1>1, NextItemInItems, RecordTyped DEF CallRecs, Calls
<1>3. /\ item' \in [Items -> Details]
      /\ \A i \in Items : item'[i].status = IF i = nextItem THEN "open" ELSE item[i].status
  BY <1>2 DEF Record, Shape, Typed, Details
<1>4. nextItem' \in 1 .. MaxItems + 1 /\ Fresh'
  BY <1>2, <1>3, RealmConstants DEF Record, Shape, Typed, Fresh, Items
<1>5. Typed' /\ Recorded
  BY <1>3, <1>4 DEF Record, Shape, Typed, Recorded, config, log, govern, bounds
<1> QED BY <1>1, <1>4, <1>5, IdleTyped, SeederKeeps DEF Record, config, log, At

LEMMA ApplyReconcileShape ==
    ASSUME Shape, ApplyReconcile
    PROVE  Shape' /\ Moves(Seeder, [call[Seeder] EXCEPT !.pc = "append"]) /\ Reads
<1>1. Moves(Seeder, [call[Seeder] EXCEPT !.pc = "append"]) /\ Reads
  BY EnterMoves DEF ApplyReconcile, Calls
<1>2. Typed' /\ Fresh' /\ Recorded
  BY <1>1 DEF Shape, Typed, Fresh, Recorded, Reads, config, log, queue, govern
<1>3. nextItem' <= ItemsOn[dialect] /\ serving
  BY DEF ApplyReconcile, Enter, MayStart, queue
<1>4. head # NoHash
  BY <1>3 DEF Shape, Boots
<1> QED BY <1>1, <1>2, <1>3, <1>4, SeederKeeps DEF Reads, config, log

-----------------------------------------------------------------------------
LEMMA RestartShape ==
    ASSUME Shape, NEW new \in Releases, Restart(new)
    PROVE  Shape'
<1> DEFINE k == [Idle EXCEPT !.pc = "append"]
<1>1. k \in CallRecs /\ k.pc = "append" /\ k.item = None /\ k.todo = {}
  BY IdleTyped DEF CallRecs, Idle
<1>2. call' = [c \in Calls |-> IF c = Seeder THEN k ELSE Idle]
  BY DEF Restart
<1> HIDE DEF k
<1>3. call' \in [Calls -> CallRecs]
  BY <1>1, <1>2, IdleTyped
<1>4. Forms' /\ Serial'
  BY <1>1, <1>2, IdleTyped, RealmConstants
  DEF Forms, Serial, Good, Formed, Role, About, Resolving, SeederPcs, At, Idle
<1>5. Boots'
  BY <1>1, <1>2, IdleTyped, RealmConstants
  DEF Restart, Boots, Shape, At, Calls, log
<1>6. torn' \subseteq Items \cup {None}
  <2>1. \A c \in Slots : call[c].item \in Items \cup {None}
    BY RecordTyped DEF CallRecs, Calls
  <2> QED BY <2>1 DEF Restart, Shape, Typed
<1>7. /\ UNCHANGED <<dialect, policy, rec, log, item, nextItem, before, govern, edits>>
      /\ release' \in Releases /\ serving' = FALSE
  BY DEF Restart
<1>8. crashes' \in 0 .. MaxCrashes
  BY RealmConstants DEF Restart, Shape, Typed
<1>9. Typed' /\ Fresh'
  BY <1>6, <1>7, <1>8 DEF Shape, Typed, Fresh, log, govern
<1> QED BY <1>3, <1>4, <1>5, <1>9 DEF Shape

LEMMA EditShape ==
    ASSUME Shape, NEW f \in Fields, NEW v \in Values, Edit(f, v)
    PROVE  Shape'
<1>1. rec' \in Rows /\ fork' \in Rows
  <2>1. \A row \in Rows : [row EXCEPT !.content[f] = v] \in Rows
    <3> SUFFICES ASSUME NEW row \in Rows PROVE [row EXCEPT !.content[f] = v] \in Rows
      OBVIOUS
    <3>1. row.content \in Payloads /\ [row.content EXCEPT ![f] = v] \in Payloads
      BY DEF Rows, Payloads
    <3> QED BY <3>1 DEF Rows
  <2> QED BY <2>1 DEF Edit, Shape, Typed
<1>2. Typed'
  BY <1>1, RealmConstants DEF Edit, Shape, Typed, config, log, queue
<1> QED BY <1>2, StillKeeps DEF Edit, config, log, queue

LEMMA ProposeShape ==
    ASSUME Shape, Propose
    PROVE  Shape'
<1>1. Typed'
  BY DEF Propose, Shape, Typed, config, log, queue, bounds
<1> QED BY <1>1, StillKeeps DEF Propose, config, log, queue

LEMMA PruneShape ==
    ASSUME Shape, Prune
    PROVE  Shape'
<1>1. Typed'
  BY DEF Prune, Shape, Typed, config, queue, govern, bounds, Hashes
<1> QED BY <1>1, StillKeeps DEF Prune, config, queue

LEMMA InitShape ==
    ASSUME Init
    PROVE  Shape
<1> DEFINE k == [Idle EXCEPT !.pc = "append"]
<1>1. k \in CallRecs /\ k.pc = "append" /\ k.item = None /\ k.todo = {}
  BY IdleTyped DEF CallRecs, Idle
<1>2. call = [c \in Calls |-> IF c = Seeder THEN k ELSE Idle]
  BY DEF Init
<1> HIDE DEF k
<1>3. call \in [Calls -> CallRecs] /\ Forms /\ Serial
  BY <1>1, <1>2, IdleTyped, RealmConstants
  DEF Forms, Serial, Good, Formed, Role, About, Resolving, SeederPcs, At, Idle
<1>4. Boots
  <2>1. nextItem = 1 /\ nextItem <= ItemsOn[dialect]
    BY BoundsTyped DEF Init
  <2> QED BY <1>1, <1>2, <2>1, IdleTyped, RealmConstants DEF Init, Boots, At, Calls
<1>5. rec \in Rows /\ fork \in Rows
  <2>1. PICK p \in Payloads : rec = [NoRow EXCEPT !.content = p]
    BY DEF Init
  <2>2. rec \in Rows /\ rec.content \in Payloads
    BY <2>1, NoRowTyped DEF Rows
  <2> QED BY <2>2, BasedTyped DEF Init, Hashes
<1>6. item \in [Items -> Details] /\ \A i \in Items : item[i].status = "absent"
  BY DEF Init, Details
<1>7. before \in [Items -> Rows \cup {None}] /\ nextItem \in 1 .. MaxItems + 1
  BY RealmConstants DEF Init
<1>8. edits \in 0 .. EditsOn[dialect] /\ crashes \in 0 .. MaxCrashes
  BY RealmConstants DEF Init
<1>9. Typed /\ Fresh
  BY <1>5, <1>6, <1>7, <1>8, DefaultsTyped DEF Init, Typed, Fresh, Hashes
<1> QED BY <1>3, <1>4, <1>9 DEF Shape

LEMMA NextShape ==
    ASSUME Shape, [Next]_vars
    PROVE  Shape'
<1>1. CASE UNCHANGED vars
  BY <1>1
  DEF vars, config, log, queue, govern, bounds, Shape, Typed, Forms, Good, About, Boots, Serial, At, Fresh
<1>2. CASE Next
  BY <1>2, PublishDefaultShape, ReadRowShape, BaselineShape, AdoptDefaultShape, RecordShape,
     ApplyReconcileShape, StartShape, StepShape, EditShape, ProposeShape, PruneShape, RestartShape
  DEF Next
<1> QED BY <1>1, <1>2

LEMMA ShapeInvariance == Spec => []Shape
BY InitShape, NextShape, PTL DEF Spec

\* Every reachable state is well typed, and the reconcile never runs out of
\* room for its item (realm-seed-reconcile.ts, upgrade-review.ts and
\* realm-governance.ts together).
THEOREM RealmTyping == Spec => []TypeOK
<1>1. Shape => TypeOK
  BY DEF Shape, Typed, TypeOK
<1> QED BY <1>1, ShapeInvariance, PTL

-----------------------------------------------------------------------------
(* Answers stand.                                                          *)

\* Two answers to one review item that race, on either database: the first
\* stands and is not replaced (resolveUpgradeDetail, upgrade-run-store.ts).
THEOREM FirstAnswerStands == Spec => AnswerStands
<1>1. Shape /\ [Next]_vars =>
        \A i \in Items : item[i].status \in {"kept", "adopted", "deferred"} =>
                             item'[i].status \in {item[i].status, "open"}
  <2> SUFFICES ASSUME Shape, [Next]_vars, NEW i \in Items,
                      item[i].status \in {"kept", "adopted", "deferred"}
               PROVE  item'[i].status \in {item[i].status, "open"}
    OBVIOUS
  <2>1. item[i] \in Details /\ item \in [Items -> Details]
    BY DEF Shape, Typed
  <2>2. CASE Record
    BY <2>1, <2>2 DEF Record, Details
  <2>3. ASSUME NEW c \in Slots, SaveUndo(c) PROVE item'[i].status = item[i].status
    BY <2>1, <2>3 DEF SaveUndo, Details
  <2>4. ASSUME NEW c \in Slots, Ledger(c) PROVE item'[i].status = item[i].status
    BY <2>1, <2>4 DEF Ledger, Details
  <2>5. ASSUME NEW c \in Slots, Reopen(c) PROVE item'[i].status \in {item[i].status, "open"}
    BY <2>1, <2>5 DEF Reopen, Details
  <2>6. CASE item' = item
    BY <2>6
  <2>7. ASSUME NEW c \in Slots, Start(c) PROVE item' = item
    BY <2>7 DEF Start, StartSweep, StartUndo, StartResolve, StartMerge, Enter, queue
  <2>8. ASSUME NEW c \in Slots, Step(c) PROVE SaveUndo(c) \/ Ledger(c) \/ Reopen(c) \/ item' = item
    BY <2>8 DEF Step, SweepNext, GetDetail, FetchRow, LoadDiff, ReloadDiff, WriteAdopted, LookUp,
       Restore, MergeDiff, MergeWrite, ForkDiff, ForkWrite, ReadProposal, CopyFork, Promote,
       PublishPromoted, CloseProposal, queue
  <2>9. CASE Next
    BY <2>2, <2>3, <2>4, <2>5, <2>6, <2>7, <2>8, <2>9
    DEF Next, PublishDefault, ReadRow, Baseline, AdoptDefault, ApplyReconcile, Enter, Edit,
        Propose, Prune, Restart, queue
  <2>10. CASE UNCHANGED vars
    BY <2>10 DEF vars, queue
  <2> QED BY <2>9, <2>10
<1> QED BY <1>1, ShapeInvariance, PTL DEF AnswerStands, Spec

-----------------------------------------------------------------------------
(* The proposal tells the truth.                                           *)

Governing == {"copy", "promote", "publish", "close"}

\* The call has promoted the fork and has still to say so.
Promoting(k) == k.pc = "publish" \/ (k.pc = "close" /\ k.action = "approved")

ProposalInv ==
    /\ proposal = "approved" => promoted
    /\ \A c \in Slots : Promoting(call[c]) => promoted
    /\ dialect = "sqlite" /\ None \notin torn =>
         /\ promoted => proposal = "approved" \/ \E c \in Slots : Promoting(call[c])
         /\ \A c \in Slots : call[c].pc \in Governing => proposal = "pending"

LEMMA SlotMoves ==
    ASSUME Shape, NEW c \in Slots, Start(c) \/ Step(c)
    PROVE  (\E k : Moves(c, k)) /\ UNCHANGED <<config, serving>>
<1>1. CASE Start(c)
  <2>1. \E k : Moves(c, k)
    BY <1>1, StartSweepMoves, StartUndoMoves, StartResolveMoves, StartMergeMoves, EnterMoves,
       RealmConstants DEF Start, Calls
  <2> QED BY <1>1, <2>1 DEF Start, StartSweep, StartUndo, StartResolve, StartMerge, Enter
<1>2. CASE Step(c)
  <2>1. \E k : Moves(c, k)
    BY <1>2, SweepNextMoves, GetDetailMoves, FetchRowMoves, LoadDiffMoves, ReloadDiffMoves,
       LookUpMoves, MergeDiffMoves, ForkDiffMoves, ReadProposalMoves, CopyForkMoves,
       WriteAdoptedShape, SaveUndoShape, LedgerShape, RestoreShape, ReopenShape,
       MergeWriteShape, PromoteShape, PublishPromotedShape, CloseProposalShape
    DEF Step
  <2>2. UNCHANGED <<config, serving>>
    BY <1>2 DEF Step, SweepNext, GetDetail, FetchRow, LoadDiff, ReloadDiff, WriteAdopted, SaveUndo,
       Ledger, LookUp, Restore, Reopen, MergeDiff, MergeWrite, ForkDiff, ForkWrite, ReadProposal,
       CopyFork, Promote, PublishPromoted, CloseProposal
  <2> QED BY <2>1, <2>2
<1> QED BY <1>1, <1>2

LEMMA LeftPc == \A k : Left(k).pc \in {"idle", "next"} /\ Idle.pc = "idle"
BY DEF Left, Idle

\* Requests that are not about the proposal.
Elsewhere(c) ==
    /\ Start(c) \/ Step(c)
    /\ ~ (ReadProposal(c) \/ CopyFork(c) \/ Promote(c) \/ PublishPromoted(c) \/ CloseProposal(c))

\* It takes no part in governance, and only two steps go on to write a base.
Plain(c, k) ==
    /\ k.pc \notin Governing
    /\ k.pc \in {"write", "mwrite"} => ReloadDiff(c) \/ MergeDiff(c)

LEMMA ElsewhereMoves ==
    ASSUME Shape, NEW c \in Slots, Elsewhere(c)
    PROVE  /\ call[c].pc \notin Governing /\ UNCHANGED <<proposal, promoted, torn, dialect>>
           /\ \E k : Moves(c, k) /\ Plain(c, k)
<1>1. call[c] \in CallRecs
  BY RecordTyped DEF Calls
<1>2. CASE Start(c)
  <2>1. At(c, "idle") /\ UNCHANGED <<proposal, promoted, torn, dialect>>
    BY <1>2 DEF Start, StartSweep, StartUndo, StartResolve, StartMerge, Enter, config, queue, govern
  <2>2. \E k : Moves(c, k) /\ Plain(c, k)
    <3>1. CASE StartSweep(c)
    <4> DEFINE k == [Idle EXCEPT !.pc = "next", !.swept = TRUE, !.todo = {i \in Open : ~ item[i].p1}]
    <4>1. Moves(c, k)
      BY <3>1, StartSweepMoves
    <4>2. Plain(c, k)
      BY IdleTyped DEF Plain, Governing, CallRecs, Idle
    <4> HIDE DEF k
    <4> QED BY <4>1, <4>2
    <3>2. ASSUME NEW i \in Items, StartUndo(c, i)
          PROVE  \E k : Moves(c, k) /\ Plain(c, k)
    <4> DEFINE k == [Idle EXCEPT !.pc = "lookup", !.item = i]
    <4>1. Moves(c, k)
      BY <3>2, StartUndoMoves
    <4>2. Plain(c, k)
      BY IdleTyped DEF Plain, Governing, CallRecs, Idle
    <4> HIDE DEF k
    <4> QED BY <4>1, <4>2
    <3>3. ASSUME NEW i \in Items, NEW action \in Actions, StartResolve(c, i, action)
          PROVE  \E k : Moves(c, k) /\ Plain(c, k)
    <4> DEFINE k == [Idle EXCEPT !.pc = "detail", !.item = i, !.action = action]
    <4>1. Moves(c, k)
      BY <3>3, StartResolveMoves
    <4>2. Plain(c, k)
      BY IdleTyped DEF Plain, Governing, CallRecs, Idle
    <4> HIDE DEF k
    <4> QED BY <4>1, <4>2
    <3>4. ASSUME NEW pc \in {"mdiff", "fdiff"}, StartMerge(c, pc)
          PROVE  \E k : Moves(c, k) /\ Plain(c, k)
    <4> DEFINE k == [call[c] EXCEPT !.pc = pc]
    <4>1. Moves(c, k)
      BY <3>4, StartMergeMoves
    <4>2. Plain(c, k)
      BY <1>1 DEF Plain, Governing, CallRecs, Idle
    <4> HIDE DEF k
    <4> QED BY <4>1, <4>2
    <3>5. ASSUME NEW pc \in {"approve", "reject"}, Enter(c, pc)
          PROVE  \E k : Moves(c, k) /\ Plain(c, k)
    <4> DEFINE k == [call[c] EXCEPT !.pc = pc]
    <4>1. Moves(c, k)
      BY <3>5, EnterMoves, RealmConstants DEF Calls
    <4>2. Plain(c, k)
      BY <1>1 DEF Plain, Governing, CallRecs, Idle
    <4> HIDE DEF k
    <4> QED BY <4>1, <4>2
    <3> QED BY <1>2, <3>1, <3>2, <3>3, <3>4, <3>5 DEF Start
  <2> QED BY <2>1, <2>2 DEF At, Governing
<1>3. CASE Step(c)
  <2>1. call[c].pc \notin Governing /\ UNCHANGED <<proposal, promoted, torn, dialect>>
    BY <1>3 DEF Elsewhere, Step, SweepNext, GetDetail, FetchRow, LoadDiff, ReloadDiff, WriteAdopted, SaveUndo,
       Ledger, LookUp, Restore, Reopen, MergeDiff, MergeWrite, ForkDiff, ForkWrite, At, Governing,
       config, queue, govern
  <2>2. CASE SweepNext(c)
    BY <2>1, <2>2, SweepNextMoves DEF Plain, Governing
  <2>3. CASE GetDetail(c)
    <3> DEFINE k == IF item[call[c].item].status # "open" THEN Left(call[c])
                    ELSE [call[c] EXCEPT !.pc = IF call[c].action = "adopt"
                                                THEN "fetch" ELSE "ledger"]
    <3>1. Moves(c, k)
      BY <2>3, GetDetailMoves
    <3>2. Plain(c, k)
      BY <1>1, LeftPc DEF Plain, Governing, CallRecs, Idle
    <3> HIDE DEF k
    <3> QED BY <2>1, <3>1, <3>2
  <2>4. CASE FetchRow(c)
    <3> DEFINE k == [call[c] EXCEPT !.pc = "diff", !.row = rec]
    <3>1. Moves(c, k)
      BY <2>4, FetchRowMoves
    <3>2. Plain(c, k)
      BY <1>1, LeftPc DEF Plain, Governing, CallRecs, Idle
    <3> HIDE DEF k
    <3> QED BY <2>1, <3>1, <3>2
  <2>5. CASE LoadDiff(c)
    <3> DEFINE k == [call[c] EXCEPT !.pc = "rediff", !.seen = head]
    <3>1. Moves(c, k)
      BY <2>5, LoadDiffMoves
    <3>2. Plain(c, k)
      BY <1>1, LeftPc DEF Plain, Governing, CallRecs, Idle
    <3> HIDE DEF k
    <3> QED BY <2>1, <3>1, <3>2
  <2>6. CASE ReloadDiff(c)
    <3> DEFINE k == [call[c] EXCEPT !.pc = "write", !.base = head]
    <3>1. Moves(c, k)
      BY <2>6, ReloadDiffMoves
    <3>2. Plain(c, k)
      BY <1>1, <2>6, LeftPc DEF Plain, Governing, CallRecs, Idle
    <3> HIDE DEF k
    <3> QED BY <2>1, <3>1, <3>2
  <2>7. CASE LookUp(c)
    <3> DEFINE k == LET d == item[call[c].item] IN
                    CASE d.status = "open" -> Idle
                      [] d.status = "adopted" /\ d.undo # None ->
                           [call[c] EXCEPT !.pc = "restore", !.row = d.undo]
                      [] OTHER -> [call[c] EXCEPT !.pc = "reopen"]
    <3>1. Moves(c, k)
      BY <2>7, LookUpMoves
    <3>2. Plain(c, k)
      BY <1>1, LeftPc DEF Plain, Governing, CallRecs, Idle
    <3> HIDE DEF k
    <3> QED BY <2>1, <3>1, <3>2
  <2>8. CASE WriteAdopted(c)
    <3> DEFINE k == [call[c] EXCEPT !.pc = "undo"]
    <3>1. Moves(c, k)
      BY <2>8, WriteAdoptedShape
    <3>2. Plain(c, k)
      BY <1>1, LeftPc DEF Plain, Governing, CallRecs, Idle
    <3> HIDE DEF k
    <3> QED BY <2>1, <3>1, <3>2
  <2>9. CASE SaveUndo(c)
    <3> DEFINE k == [call[c] EXCEPT !.pc = "ledger"]
    <3>1. Moves(c, k)
      BY <2>9, SaveUndoShape
    <3>2. Plain(c, k)
      BY <1>1, LeftPc DEF Plain, Governing, CallRecs, Idle
    <3> HIDE DEF k
    <3> QED BY <2>1, <3>1, <3>2
  <2>10. CASE Restore(c)
    <3> DEFINE k == [call[c] EXCEPT !.pc = "reopen"]
    <3>1. Moves(c, k)
      BY <2>10, RestoreShape
    <3>2. Plain(c, k)
      BY <1>1, LeftPc DEF Plain, Governing, CallRecs, Idle
    <3> HIDE DEF k
    <3> QED BY <2>1, <3>1, <3>2
  <2>11. CASE Ledger(c)
    BY <2>1, <2>11, LedgerShape, LeftPc DEF Plain, Governing
  <2>12. CASE Reopen(c) \/ MergeWrite(c) \/ ForkWrite(c)
    BY <2>1, <2>12, ReopenShape, MergeWriteShape, LeftPc DEF Plain, Governing
  <2>13. CASE MergeDiff(c) \/ ForkDiff(c)
    BY <2>1, <2>13, MergeDiffMoves, ForkDiffMoves, LeftPc DEF Plain, Governing, MergedTo
  <2> QED BY <1>3, <2>1, <2>2, <2>3, <2>4, <2>5, <2>6, <2>7, <2>8, <2>9, <2>10, <2>11, <2>12, <2>13
          DEF Step, Elsewhere
<1> QED BY <1>2, <1>3 DEF Elsewhere

\* No call gains or loses a part in the proposal.
LEMMA UntouchedProposal ==
    ASSUME ProposalInv, UNCHANGED <<proposal, promoted, torn, dialect>>,
           \A c \in Slots : \/ call'[c] = call[c]
                            \/ call'[c].pc \notin Governing /\ call[c].pc \notin Governing
    PROVE  ProposalInv'
BY DEF ProposalInv, Promoting, Governing

\* On SQLite, nobody but the call that moves has a part.
LEMMA Alone ==
    ASSUME Shape, NEW c \in Slots, NEW k, Moves(c, k), dialect = "sqlite"
    PROVE  \A d \in Calls \ {c} : At(d, "idle") /\ call'[d] = call[d]
BY DEF Shape, Serial, Moves, MayStart, Calls, At

LEMMA MovesTo ==
    ASSUME Shape, NEW c \in Calls, NEW k, Moves(c, k)
    PROVE  call'[c] = k /\ \A d \in Calls \ {c} : call'[d] = call[d]
BY DEF Shape, Moves

LEMMA NextProposal ==
    ASSUME Shape, ProposalInv, [Next]_vars
    PROVE  ProposalInv'
<1>1. ASSUME NEW c \in Slots, Elsewhere(c) PROVE ProposalInv'
  BY <1>1, ElsewhereMoves, MovesTo, UntouchedProposal DEF Plain, Calls
<1>2. ASSUME NEW c \in Slots, ReadProposal(c) PROVE ProposalInv'
  <2> DEFINE k == IF proposal # "pending" THEN Idle
                  ELSE [call[c] EXCEPT !.pc = IF @ = "approve" THEN "copy" ELSE "close",
                                       !.action = IF At(c, "approve") THEN "approved"
                                                                      ELSE "rejected"]
  <2>1. Moves(c, k) /\ call[c].pc \in {"approve", "reject"}
    BY <1>2, ReadProposalMoves DEF ReadProposal
  <2>2. call[c] \in CallRecs
    BY RecordTyped DEF Calls
  <2>3. k.pc \in Governing => proposal = "pending"
    BY LeftPc DEF Governing
  <2>4. ~ Promoting(k)
    BY <2>1, <2>2, LeftPc DEF Promoting, CallRecs, At
  <2>5. UNCHANGED <<proposal, promoted, torn, dialect>>
    BY <1>2 DEF ReadProposal, config, queue, govern
  <2> HIDE DEF k
  <2> QED BY <2>1, <2>3, <2>4, <2>5, MovesTo DEF ProposalInv, Promoting, Calls, Governing
<1>3. ASSUME NEW c \in Slots, CopyFork(c) PROVE ProposalInv'
  <2>1. call[c] \in CallRecs /\ call[c].pc = "copy"
    BY <1>3, RecordTyped DEF Calls, CopyFork, At
  <2>2. /\ call'[c].pc = "promote" /\ call'[c].action = call[c].action
        /\ \A d \in Slots \ {c} : call'[d] = call[d]
    <3> DEFINE k == [call[c] EXCEPT !.pc = "promote", !.seen = fork.content]
    <3>1. Moves(c, k)
      BY <1>3, CopyForkMoves
    <3>2. k.pc = "promote" /\ k.action = call[c].action
      BY <2>1 DEF CallRecs
    <3> HIDE DEF k
    <3> QED BY <3>1, <3>2, MovesTo DEF Calls
  <2>3. UNCHANGED <<proposal, promoted, torn, dialect>>
    BY <1>3 DEF CopyFork, config, queue, govern
  <2> QED BY <2>1, <2>2, <2>3 DEF ProposalInv, Promoting, Governing
<1>4. ASSUME NEW c \in Slots, Promote(c) PROVE ProposalInv'
  <2>1. call[c] \in CallRecs /\ call[c].pc = "promote"
    BY <1>4, RecordTyped DEF Calls, Promote, At
  <2>2. /\ call'[c].pc = "publish" /\ call'[c].action = call[c].action
        /\ \A d \in Slots \ {c} : call'[d] = call[d]
    <3> DEFINE k == [call[c] EXCEPT !.pc = "publish"]
    <3>1. Moves(c, k)
      BY <1>4, PromoteShape
    <3>2. k.pc = "publish" /\ k.action = call[c].action
      BY <2>1 DEF CallRecs
    <3> HIDE DEF k
    <3> QED BY <3>1, <3>2, MovesTo DEF Calls
  <2>3. promoted' /\ UNCHANGED <<proposal, torn, dialect>>
    BY <1>4 DEF Promote, config, queue
  <2> QED BY <2>1, <2>2, <2>3 DEF ProposalInv, Promoting, Governing
<1>5. ASSUME NEW c \in Slots, PublishPromoted(c) PROVE ProposalInv'
  <2>1. call[c] \in CallRecs /\ call[c].pc = "publish" /\ call[c].action = "approved"
    BY <1>5, RecordTyped DEF Calls, PublishPromoted, At, Good, Formed
  <2>2. /\ call'[c].pc = "close" /\ call'[c].action = call[c].action
        /\ \A d \in Slots \ {c} : call'[d] = call[d]
    <3> DEFINE k == [call[c] EXCEPT !.pc = "close"]
    <3>1. Moves(c, k)
      BY <1>5, PublishPromotedShape
    <3>2. k.pc = "close" /\ k.action = call[c].action
      BY <2>1 DEF CallRecs
    <3> HIDE DEF k
    <3> QED BY <3>1, <3>2, MovesTo DEF Calls
  <2>3. UNCHANGED <<proposal, promoted, torn, dialect>>
    BY <1>5 DEF PublishPromoted, config, queue, govern
  <2> QED BY <2>1, <2>2, <2>3 DEF ProposalInv, Promoting, Governing
<1>6. ASSUME NEW c \in Slots, CloseProposal(c) PROVE ProposalInv'
  <2>1. call[c].pc = "close" /\ call[c].action \in {"approved", "rejected"}
    BY <1>6, RecordTyped DEF Calls, CloseProposal, At, Good, Formed
  <2>2. Moves(c, Idle) /\ call'[c] = Idle /\ \A d \in Slots \ {c} : call'[d] = call[d]
    BY <1>6, CloseProposalShape, MovesTo DEF Calls
  <2>3. proposal' = call[c].action /\ UNCHANGED <<promoted, torn, dialect>>
    BY <1>6 DEF CloseProposal, config, queue
  <2>4. dialect = "sqlite" => \A d \in Slots \ {c} : call[d].pc = "idle"
    BY <2>2, Alone DEF Calls, At
  <2> QED BY <2>1, <2>2, <2>3, <2>4, LeftPc DEF ProposalInv, Promoting, Governing
<1>7. ASSUME NEW k, Moves(Seeder, k), UNCHANGED <<proposal, promoted, torn, dialect>>
      PROVE  ProposalInv'
  BY <1>7, MovesTo, UntouchedProposal, RealmConstants DEF Calls
<1>8. CASE PublishDefault \/ ReadRow \/ Baseline \/ AdoptDefault \/ Record \/ ApplyReconcile
  <2>1. \E k : Moves(Seeder, k)
    BY <1>8, PublishDefaultShape, ReadRowMoves, BaselineShape, AdoptDefaultShape, RecordShape,
       ApplyReconcileShape
  <2>2. UNCHANGED <<proposal, promoted, torn, dialect>>
    BY <1>8 DEF PublishDefault, ReadRow, Baseline, AdoptDefault, Record, ApplyReconcile, Enter,
       config, queue, govern
  <2> QED BY <1>7, <2>1, <2>2
<1>9. CASE Prune \/ \E f \in Fields, v \in Values : Edit(f, v)
  BY <1>9, UntouchedProposal DEF Prune, Edit, config, queue, govern
<1>10. CASE Propose
  <2>1. \A c \in Slots : dialect = "sqlite" => call[c].pc = "idle"
    BY <1>10 DEF Propose, MayStart, Calls, At
  <2> QED BY <1>10, <2>1 DEF Propose, ProposalInv, Promoting, Governing, config, queue
<1>11. ASSUME NEW new \in Releases, Restart(new) PROVE ProposalInv'
  <2>1. \A c \in Slots : call'[c] = Idle
    BY <1>11, RealmConstants DEF Restart, Calls
  <2>2. UNCHANGED <<proposal, promoted, dialect>>
    BY <1>11 DEF Restart, govern
  <2>3. None \notin torn' => None \notin torn /\ \A c \in Slots : ~ Promoting(call[c])
    BY <1>11 DEF Restart, Promoting
  <2> QED BY <2>1, <2>2, <2>3, LeftPc DEF ProposalInv, Promoting, Governing
<1>12. CASE UNCHANGED vars
  BY <1>12, UntouchedProposal DEF vars, config, queue, govern
<1> QED BY <1>1, <1>2, <1>3, <1>4, <1>5, <1>6, <1>8, <1>9, <1>10, <1>11, <1>12 DEF Next, Elsewhere

\* An approved proposal did promote the fork, on either database; a rejected
\* one changed nothing, on SQLite and if no crash cut an approval short
\* (approveRealmProposal, rejectRealmProposal).
THEOREM ProposalsAreTrue == Spec => []ProposalTruth
<1>1. Init => ProposalInv
  BY LeftPc, RealmConstants DEF Init, ProposalInv, Promoting, Governing, Calls
<1>2. Spec => []ProposalInv
  BY <1>1, NextProposal, ShapeInvariance, PTL DEF Spec
<1>3. Shape /\ ProposalInv => ProposalTruth
  BY RealmConstants DEF Shape, Typed, ProposalInv, ProposalTruth, Promoting, Governing
<1> QED BY <1>2, <1>3, ShapeInvariance, PTL

-----------------------------------------------------------------------------
(* The queue tells the truth, and undo restores.                           *)

Answering == {"fetch", "diff", "rediff", "write", "undo", "ledger"}

\* The call has overwritten the row and has still to say so.
HasAdopted(k) == k.pc = "undo" \/ (k.pc = "ledger" /\ k.action = "adopt")

\* What a call knows of its item.
LedgerCall(k) ==
    /\ k.pc \in Answering => item[k.item].status = "open"
    /\ k.pc \in {"diff", "rediff", "write"} => k.row = rec
    /\ k.item \notin torn =>
         /\ HasAdopted(k) => before[k.item] # None
         /\ k.pc \in {"undo", "restore"} => k.row = before[k.item]
         /\ k.pc = "ledger" /\ k.action = "adopt" => item[k.item].undo = before[k.item]

\* An item, if the call in flight is k.
ItemTrue(i, k) ==
    i \notin torn =>
        /\ item[i].status \in {"kept", "deferred"} => before[i] = None
        /\ item[i].status = "adopted" =>
             /\ before[i] # None
             /\ item[i].undo # None => item[i].undo = before[i]
        /\ before[i] # None => \/ item[i].status = "adopted"
                               \/ k.item = i /\ HasAdopted(k)

LedgerInv ==
    dialect = "sqlite" =>
        /\ \A c \in Slots : LedgerCall(call[c])
        /\ \A i \in Items : \/ ItemTrue(i, Idle)
                            \/ \E c \in Slots : ~ At(c, "idle") /\ ItemTrue(i, call[c])

LEMMA IdleLedger ==
    ASSUME NEW k, k.pc \in {"idle", "next", "detail", "lookup", "reopen", "mdiff", "mwrite", "fdiff",
                            "fwrite", "approve", "reject", "copy", "promote", "publish", "close"}
    PROVE  LedgerCall(k) /\ ~ HasAdopted(k)
BY DEF LedgerCall, HasAdopted, Answering

LEMMA IdleItem ==
    ASSUME NEW k, ~ HasAdopted(k), NEW i
    PROVE  ItemTrue(i, Idle) <=> ItemTrue(i, k)
BY LeftPc DEF ItemTrue, HasAdopted

\* On SQLite, the invariant is about the call that moves.
LEMMA LedgerBefore ==
    ASSUME Shape, LedgerInv, NEW c \in Slots, NEW k, Moves(c, k), dialect = "sqlite"
    PROVE  LedgerCall(call[c]) /\ \A i \in Items : ItemTrue(i, call[c])
<1>1. LedgerCall(call[c])
  BY DEF LedgerInv
<1>2. ASSUME NEW i \in Items PROVE ItemTrue(i, call[c])
  <2>1. CASE ItemTrue(i, Idle)
    BY <2>1, LeftPc DEF ItemTrue, HasAdopted
  <2>2. CASE \E d \in Slots : ~ At(d, "idle") /\ ItemTrue(i, call[d])
    BY <2>2, Alone DEF Calls
  <2> QED BY <2>1, <2>2 DEF LedgerInv
<1> QED BY <1>1, <1>2

LEMMA LedgerAfter ==
    ASSUME Shape, NEW c \in Slots, NEW k, Moves(c, k), dialect = "sqlite", dialect' = dialect,
           LedgerCall(k)', \A i \in Items : ItemTrue(i, k)'
    PROVE  LedgerInv'
<1>1. call'[c] = k /\ \A d \in Slots \ {c} : call'[d].pc = "idle"
  BY Alone, MovesTo DEF Calls, At
<1>2. \A d \in Slots : LedgerCall(call[d])'
  BY <1>1 DEF LedgerCall, HasAdopted, Answering
<1>3. ASSUME NEW i \in Items
      PROVE  (ItemTrue(i, Idle) \/ \E d \in Slots : ~ At(d, "idle") /\ ItemTrue(i, call[d]))'
  <2>1. CASE k.pc = "idle"
    <3>1. ~ HasAdopted(k)
      BY <2>1 DEF HasAdopted
    <3> QED BY <3>1 DEF ItemTrue
  <2>2. CASE k.pc # "idle"
    BY <1>1, <2>2 DEF At, ItemTrue
  <2> QED BY <2>1, <2>2
<1> QED BY <1>2, <1>3 DEF LedgerInv

LEMMA GetDetailLedger ==
    ASSUME Shape, LedgerInv, dialect = "sqlite", NEW c \in Slots, GetDetail(c)
    PROVE  LedgerInv'
<1>0. PICK k : k = IF item[call[c].item].status # "open" THEN Left(call[c])
                     ELSE [call[c] EXCEPT !.pc = IF call[c].action = "adopt"
                                                 THEN "fetch" ELSE "ledger"]
  OBVIOUS
<1>1. Moves(c, k) /\ UNCHANGED <<rec, item, before, torn, dialect>>
  BY <1>0, GetDetailMoves DEF GetDetail, config, queue
<1>2. call[c] \in CallRecs /\ Good(c, call[c])
  BY RecordTyped DEF Calls
<1>3. LedgerCall(call[c]) /\ \A i \in Items : ItemTrue(i, call[c])
  BY <1>1, LedgerBefore
<1>4. /\ call[c].pc = "detail"
      /\ \/ k.pc \in {"idle", "next"}
         \/ /\ k.item = call[c].item /\ k.action = call[c].action
            /\ item[call[c].item].status = "open"
            /\ k.pc = IF call[c].action = "adopt" THEN "fetch" ELSE "ledger"
  BY <1>0, <1>2, LeftPc DEF GetDetail, At, CallRecs
<1>5. LedgerCall(k)' /\ \A i \in Items : ItemTrue(i, k)'
  BY <1>1, <1>3, <1>4 DEF LedgerCall, ItemTrue, HasAdopted, Answering
<1> QED BY <1>1, <1>5, LedgerAfter

LEMMA FetchRowLedger ==
    ASSUME Shape, LedgerInv, dialect = "sqlite", NEW c \in Slots, FetchRow(c)
    PROVE  LedgerInv'
<1>0. PICK k : k = [call[c] EXCEPT !.pc = "diff", !.row = rec]
  OBVIOUS
<1>1. Moves(c, k) /\ UNCHANGED <<rec, item, before, torn, dialect>>
  BY <1>0, FetchRowMoves DEF FetchRow, config, queue
<1>2. call[c] \in CallRecs /\ Good(c, call[c])
  BY RecordTyped DEF Calls
<1>3. LedgerCall(call[c]) /\ \A i \in Items : ItemTrue(i, call[c])
  BY <1>1, LedgerBefore
<1>4. call[c].pc = "fetch" /\ k.pc = "diff" /\ k.row = rec /\ k.item = call[c].item
  BY <1>0, <1>2 DEF FetchRow, At, CallRecs
<1>5. LedgerCall(k)' /\ \A i \in Items : ItemTrue(i, k)'
  BY <1>1, <1>3, <1>4 DEF LedgerCall, ItemTrue, HasAdopted, Answering
<1> QED BY <1>1, <1>5, LedgerAfter

LEMMA LoadDiffLedger ==
    ASSUME Shape, LedgerInv, dialect = "sqlite", NEW c \in Slots, LoadDiff(c)
    PROVE  LedgerInv'
<1>0. PICK k : k = [call[c] EXCEPT !.pc = "rediff", !.seen = head]
  OBVIOUS
<1>1. Moves(c, k) /\ UNCHANGED <<rec, item, before, torn, dialect>>
  BY <1>0, LoadDiffMoves DEF LoadDiff, config, queue
<1>2. call[c] \in CallRecs /\ Good(c, call[c])
  BY RecordTyped DEF Calls
<1>3. LedgerCall(call[c]) /\ \A i \in Items : ItemTrue(i, call[c])
  BY <1>1, LedgerBefore
<1>4. /\ call[c].pc = "diff" /\ k.pc = "rediff"
      /\ k.row = call[c].row /\ k.item = call[c].item
  BY <1>0, <1>2 DEF LoadDiff, At, CallRecs
<1>5. LedgerCall(k)' /\ \A i \in Items : ItemTrue(i, k)'
  BY <1>1, <1>3, <1>4 DEF LedgerCall, ItemTrue, HasAdopted, Answering
<1> QED BY <1>1, <1>5, LedgerAfter

LEMMA ReloadDiffLedger ==
    ASSUME Shape, LedgerInv, dialect = "sqlite", NEW c \in Slots, ReloadDiff(c)
    PROVE  LedgerInv'
<1>0. PICK k : k = [call[c] EXCEPT !.pc = "write", !.base = head]
  OBVIOUS
<1>1. Moves(c, k) /\ UNCHANGED <<rec, item, before, torn, dialect>>
  BY <1>0, ReloadDiffMoves DEF ReloadDiff, config, queue
<1>2. call[c] \in CallRecs /\ Good(c, call[c])
  BY RecordTyped DEF Calls
<1>3. LedgerCall(call[c]) /\ \A i \in Items : ItemTrue(i, call[c])
  BY <1>1, LedgerBefore
<1>4. /\ call[c].pc = "rediff" /\ k.pc = "write"
      /\ k.row = call[c].row /\ k.item = call[c].item
  BY <1>0, <1>2 DEF ReloadDiff, At, CallRecs
<1>5. LedgerCall(k)' /\ \A i \in Items : ItemTrue(i, k)'
  BY <1>1, <1>3, <1>4 DEF LedgerCall, ItemTrue, HasAdopted, Answering
<1> QED BY <1>1, <1>5, LedgerAfter

LEMMA LookUpLedger ==
    ASSUME Shape, LedgerInv, dialect = "sqlite", NEW c \in Slots, LookUp(c)
    PROVE  LedgerInv'
<1>0. PICK k : k = LET d == item[call[c].item] IN
                     CASE d.status = "open" -> Idle
                       [] d.status = "adopted" /\ d.undo # None ->
                            [call[c] EXCEPT !.pc = "restore", !.row = d.undo]
                       [] OTHER -> [call[c] EXCEPT !.pc = "reopen"]
  OBVIOUS
<1>1. Moves(c, k) /\ UNCHANGED <<rec, item, before, torn, dialect>>
  BY <1>0, LookUpMoves DEF LookUp, config, queue
<1>2. call[c] \in CallRecs /\ Good(c, call[c])
  BY RecordTyped DEF Calls
<1>3. LedgerCall(call[c]) /\ \A i \in Items : ItemTrue(i, call[c])
  BY <1>1, LedgerBefore
<1>4. /\ call[c].pc = "lookup" /\ call[c].item \in Items
      /\ \/ k.pc \in {"idle", "reopen"}
         \/ /\ k.pc = "restore" /\ k.item = call[c].item /\ k.row = item[k.item].undo
            /\ item[k.item].status = "adopted" /\ item[k.item].undo # None
  BY <1>0, <1>2, LeftPc DEF LookUp, At, CallRecs, Good, Formed
<1>5. LedgerCall(k)' /\ \A i \in Items : ItemTrue(i, k)'
  BY <1>1, <1>3, <1>4 DEF LedgerCall, ItemTrue, HasAdopted, Answering
<1> QED BY <1>1, <1>5, LedgerAfter

LEMMA WriteAdoptedLedger ==
    ASSUME Shape, LedgerInv, dialect = "sqlite", NEW c \in Slots, WriteAdopted(c)
    PROVE  LedgerInv'
<1>0. PICK k : k = [call[c] EXCEPT !.pc = "undo"]
  OBVIOUS
<1>i. PICK i : i = call[c].item
  OBVIOUS
<1>1. Moves(c, k) /\ UNCHANGED <<item, torn, dialect>>
  BY <1>0, WriteAdoptedShape DEF WriteAdopted, config
<1>2. call[c] \in CallRecs /\ Good(c, call[c]) /\ call[c].pc = "write"
  BY RecordTyped DEF WriteAdopted, At, Calls
<1>3. LedgerCall(call[c]) /\ \A j \in Items : ItemTrue(j, call[c])
  BY <1>1, LedgerBefore
<1>4. k.pc = "undo" /\ k.item = i /\ k.row = call[c].row /\ i \in Items
  <2>1. k.pc = "undo" /\ k.item = i /\ k.row = call[c].row
    BY <1>0, <1>i, <1>2 DEF CallRecs
  <2>2. i \in Items
    BY <1>i, <1>2 DEF Good, Formed, Resolving
  <2> QED BY <2>1, <2>2
<1>5. item[i].status = "open" /\ call[c].row = rec /\ rec # None
  BY <1>i, <1>2, <1>3, RealmConstants DEF LedgerCall, Answering, Shape, Typed
<1>6. i \notin torn => before[i] = None
  BY <1>i, <1>2, <1>3, <1>4, <1>5 DEF ItemTrue, HasAdopted
<1>7. \A j \in Items : before'[j] = IF j = i /\ before[j] = None THEN rec ELSE before[j]
  BY <1>i, <1>4 DEF WriteAdopted, Shape, Typed
<1>8. LedgerCall(k)'
  BY <1>i, <1>1, <1>4, <1>5, <1>6, <1>7 DEF LedgerCall, HasAdopted, Answering
<1>9. \A j \in Items : ItemTrue(j, k)'
  BY <1>i, <1>1, <1>2, <1>3, <1>4, <1>5, <1>7 DEF ItemTrue, HasAdopted
<1> QED BY <1>1, <1>8, <1>9, LedgerAfter

LEMMA SaveUndoLedger ==
    ASSUME Shape, LedgerInv, dialect = "sqlite", NEW c \in Slots, SaveUndo(c)
    PROVE  LedgerInv'
<1>0. PICK k : k = [call[c] EXCEPT !.pc = "ledger"]
  OBVIOUS
<1>i. PICK i : i = call[c].item
  OBVIOUS
<1>1. Moves(c, k) /\ UNCHANGED <<before, torn, dialect>>
  BY <1>0, SaveUndoShape DEF SaveUndo, config
<1>2. call[c] \in CallRecs /\ Good(c, call[c]) /\ call[c].pc = "undo"
  BY RecordTyped DEF SaveUndo, At, Calls
<1>3. LedgerCall(call[c]) /\ \A j \in Items : ItemTrue(j, call[c])
  BY <1>1, LedgerBefore
<1>4. k.pc = "ledger" /\ k.item = i /\ k.action = "adopt" /\ i \in Items
  <2>1. k.pc = "ledger" /\ k.item = i /\ k.action = call[c].action
    BY <1>0, <1>i, <1>2 DEF CallRecs
  <2>2. i \in Items /\ call[c].action = "adopt"
    BY <1>i, <1>2 DEF Good, Formed, Resolving
  <2> QED BY <2>1, <2>2
<1>5. \A j \in Items : /\ item'[j].status = item[j].status
                       /\ item'[j].undo = IF j = i THEN call[c].row ELSE item[j].undo
  BY <1>i, <1>4 DEF SaveUndo, Shape, Typed, Details
<1>6. LedgerCall(k)'
  BY <1>i, <1>1, <1>2, <1>3, <1>4, <1>5 DEF LedgerCall, HasAdopted, Answering
<1>7. ASSUME NEW j \in Items PROVE ItemTrue(j, k)'
  <2>1. CASE j = i
    <3>1. item'[i].status = "open"
      BY <1>i, <1>2, <1>3, <1>4, <1>5 DEF LedgerCall, Answering
    <3> QED BY <1>4, <2>1, <3>1 DEF ItemTrue, HasAdopted
  <2>2. CASE j # i
    <3>1. ItemTrue(j, call[c])
      BY <1>3
    <3> QED BY <1>i, <1>1, <1>5, <2>2, <3>1 DEF ItemTrue
  <2> QED BY <2>1, <2>2
<1> QED BY <1>1, <1>6, <1>7, LedgerAfter

LEMMA LedgerLedger ==
    ASSUME Shape, LedgerInv, dialect = "sqlite", NEW c \in Slots, Ledger(c)
    PROVE  LedgerInv'
<1>0. PICK k : k = Left(call[c])
  OBVIOUS
<1>i. PICK i : i = call[c].item
  OBVIOUS
<1>1. Moves(c, k) /\ UNCHANGED <<before, torn, dialect>>
  BY <1>0, LedgerShape DEF Ledger, config
<1>2. Good(c, call[c]) /\ call[c].pc = "ledger"
  BY RecordTyped DEF Ledger, At, Calls
<1>3. LedgerCall(call[c]) /\ \A j \in Items : ItemTrue(j, call[c])
  BY <1>1, LedgerBefore
<1>4. k.pc \in {"idle", "next"} /\ i \in Items /\ call[c].action \in Actions
  BY <1>0, <1>i, <1>2, LeftPc DEF Good, Formed, Resolving
<1>5. item[i].status = "open"
  BY <1>i, <1>2, <1>3 DEF LedgerCall, Answering
<1>6. \A j \in Items : /\ item'[j].undo = item[j].undo
                       /\ item'[j].status = IF j = i THEN Resolution[call[c].action]
                                            ELSE item[j].status
  BY <1>i, <1>4, <1>5 DEF Ledger, Shape, Typed, Details
<1>7. Resolution[call[c].action] = IF call[c].action = "adopt" THEN "adopted"
                                   ELSE IF call[c].action = "keep" THEN "kept" ELSE "deferred"
  BY <1>i, <1>4 DEF Resolution, Actions
<1>8. LedgerCall(k)' /\ ~ HasAdopted(k)
  BY <1>i, <1>4 DEF LedgerCall, HasAdopted, Answering
<1>9. ASSUME NEW j \in Items PROVE ItemTrue(j, k)'
  <2>1. CASE j = i /\ call[c].action = "adopt"
    <3>1. i \notin torn => before[i] # None /\ item[i].undo = before[i]
      BY <1>i, <1>2, <1>3, <2>1 DEF LedgerCall, HasAdopted
    <3>2. item'[i].status = "adopted" /\ item'[i].undo = item[i].undo
      BY <1>4, <1>6, <1>7, <2>1
    <3> QED BY <1>1, <2>1, <3>1, <3>2 DEF ItemTrue
  <2>2. CASE j = i /\ call[c].action # "adopt"
    <3>1. i \notin torn => before[i] = None
      BY <1>2, <1>3, <1>4, <1>5, <2>2 DEF ItemTrue, HasAdopted
    <3>2. item'[i].status \in {"kept", "deferred"}
      BY <1>4, <1>6, <1>7, <2>2
    <3> QED BY <1>1, <2>2, <3>1, <3>2 DEF ItemTrue
  <2>3. CASE j # i
    <3>1. ItemTrue(j, call[c])
      BY <1>3
    <3> QED BY <1>i, <1>1, <1>6, <2>3, <3>1 DEF ItemTrue
  <2> QED BY <2>1, <2>2, <2>3
<1> QED BY <1>1, <1>8, <1>9, LedgerAfter

LEMMA RestoreLedger ==
    ASSUME Shape, LedgerInv, dialect = "sqlite", NEW c \in Slots, Restore(c)
    PROVE  LedgerInv'
<1>0. PICK k : k = [call[c] EXCEPT !.pc = "reopen"]
  OBVIOUS
<1>1. Moves(c, k) /\ UNCHANGED <<item, before, torn, dialect>>
  BY <1>0, RestoreShape DEF Restore, config, queue
<1>2. call[c] \in CallRecs /\ call[c].pc = "restore"
  BY RecordTyped DEF Restore, At, Calls
<1>3. \A j \in Items : ItemTrue(j, call[c])
  BY <1>1, LedgerBefore
<1>4. k.pc = "reopen"
  BY <1>0, <1>2 DEF CallRecs
<1>5. LedgerCall(k)' /\ \A j \in Items : ItemTrue(j, k)'
  BY <1>1, <1>2, <1>3, <1>4 DEF LedgerCall, HasAdopted, Answering, ItemTrue
<1> QED BY <1>1, <1>5, LedgerAfter

LEMMA ReopenLedger ==
    ASSUME Shape, LedgerInv, dialect = "sqlite", NEW c \in Slots, Reopen(c)
    PROVE  LedgerInv'
<1>i. PICK i : i = call[c].item
  OBVIOUS
<1>1. Moves(c, Idle) /\ UNCHANGED <<torn, dialect>>
  BY ReopenShape DEF Reopen, config
<1>2. Good(c, call[c]) /\ call[c].pc = "reopen"
  BY RecordTyped DEF Reopen, At, Calls
<1>3. \A j \in Items : ItemTrue(j, call[c])
  BY <1>1, LedgerBefore
<1>4. i \in Items
  BY <1>i, <1>2 DEF Good, Formed
<1>5. \A j \in Items :
        /\ item'[j].status = IF j = i THEN "open" ELSE item[j].status
        /\ j # i => item'[j].undo = item[j].undo
        /\ before'[j] = IF j = i THEN None ELSE before[j]
  BY <1>i, <1>4 DEF Reopen, Shape, Typed, Details
<1>6. LedgerCall(Idle)' /\ ~ HasAdopted(Idle)
  BY LeftPc DEF LedgerCall, HasAdopted, Answering
<1>7. \A j \in Items : ItemTrue(j, Idle)'
  BY <1>i, <1>1, <1>2, <1>3, <1>5 DEF ItemTrue, HasAdopted
<1> QED BY <1>1, <1>6, <1>7, LedgerAfter

\* Every other request leaves the queue alone.
Unanswered(c) ==
    /\ Start(c) \/ Step(c)
    /\ ~ (GetDetail(c) \/ FetchRow(c) \/ LoadDiff(c) \/ ReloadDiff(c) \/ WriteAdopted(c)
            \/ SaveUndo(c) \/ Ledger(c) \/ LookUp(c) \/ Restore(c) \/ Reopen(c))

Silent == {"idle", "next", "detail", "lookup", "reopen", "mdiff", "mwrite", "fdiff",
           "fwrite", "approve", "reject", "copy", "promote", "publish", "close"}

LEMMA UnansweredMoves ==
    ASSUME Shape, NEW c \in Slots, Unanswered(c)
    PROVE  /\ call[c].pc \in Silent /\ UNCHANGED <<item, before, torn, dialect>>
           /\ \E k : Moves(c, k) /\ k.pc \in Silent
<1>1. call[c] \in CallRecs
  BY RecordTyped DEF Calls
<1>2. CASE Start(c)
  <2>1. call[c].pc \in Silent /\ UNCHANGED <<item, before, torn, dialect>>
    BY <1>2 DEF Start, StartSweep, StartUndo, StartResolve, StartMerge, Enter, config, queue, At, Silent
  <2>2. \E k : Moves(c, k) /\ k.pc \in Silent
    <3>1. CASE StartSweep(c)
      <4> DEFINE k == [Idle EXCEPT !.pc = "next", !.swept = TRUE,
                                   !.todo = {i \in Open : ~ item[i].p1}]
      <4>1. Moves(c, k)
        BY <3>1, StartSweepMoves
      <4>2. k.pc \in Silent
        BY DEF Silent, Idle
      <4> HIDE DEF k
      <4> QED BY <4>1, <4>2
    <3>2. ASSUME NEW i \in Items, StartUndo(c, i) PROVE \E k : Moves(c, k) /\ k.pc \in Silent
      <4> DEFINE k == [Idle EXCEPT !.pc = "lookup", !.item = i]
      <4>1. Moves(c, k)
        BY <3>2, StartUndoMoves
      <4>2. k.pc \in Silent
        BY DEF Silent, Idle
      <4> HIDE DEF k
      <4> QED BY <4>1, <4>2
    <3>3. ASSUME NEW i \in Items, NEW action \in Actions, StartResolve(c, i, action)
          PROVE  \E k : Moves(c, k) /\ k.pc \in Silent
      <4> DEFINE k == [Idle EXCEPT !.pc = "detail", !.item = i, !.action = action]
      <4>1. Moves(c, k)
        BY <3>3, StartResolveMoves
      <4>2. k.pc \in Silent
        BY DEF Silent, Idle
      <4> HIDE DEF k
      <4> QED BY <4>1, <4>2
    <3>4. ASSUME NEW pc \in {"mdiff", "fdiff"}, StartMerge(c, pc)
          PROVE  \E k : Moves(c, k) /\ k.pc \in Silent
      <4> DEFINE k == [call[c] EXCEPT !.pc = pc]
      <4>1. Moves(c, k)
        BY <3>4, StartMergeMoves
      <4>2. k.pc \in Silent
        BY <1>1 DEF Silent, CallRecs
      <4> HIDE DEF k
      <4> QED BY <4>1, <4>2
    <3>5. ASSUME NEW pc \in {"approve", "reject"}, Enter(c, pc)
          PROVE  \E k : Moves(c, k) /\ k.pc \in Silent
      <4> DEFINE k == [call[c] EXCEPT !.pc = pc]
      <4>1. Moves(c, k)
        BY <3>5, EnterMoves, RealmConstants DEF Calls
      <4>2. k.pc \in Silent
        BY <1>1 DEF Silent, CallRecs
      <4> HIDE DEF k
      <4> QED BY <4>1, <4>2
    <3> QED BY <1>2, <3>1, <3>2, <3>3, <3>4, <3>5 DEF Start
  <2> QED BY <2>1, <2>2
<1>3. CASE Step(c)
  <2>1. call[c].pc \in Silent /\ UNCHANGED <<item, before, torn, dialect>>
    BY <1>3 DEF Unanswered, Step, SweepNext, MergeDiff, MergeWrite, ForkDiff, ForkWrite,
       ReadProposal, CopyFork, Promote, PublishPromoted, CloseProposal, At, Silent, config, queue
  <2>2. CASE SweepNext(c)
    BY <2>1, <2>2, SweepNextMoves DEF Silent
  <2>3. CASE MergeDiff(c) \/ ForkDiff(c)
    BY <2>1, <2>3, MergeDiffMoves, ForkDiffMoves, LeftPc DEF Silent, MergedTo
  <2>4. CASE MergeWrite(c) \/ ForkWrite(c) \/ CloseProposal(c)
    BY <2>1, <2>4, MergeWriteShape, CloseProposalShape, LeftPc DEF Silent
  <2>5. CASE ReadProposal(c)
    <3> DEFINE k == IF proposal # "pending" THEN Idle
                    ELSE [call[c] EXCEPT !.pc = IF @ = "approve" THEN "copy" ELSE "close",
                                         !.action = IF At(c, "approve") THEN "approved"
                                                                        ELSE "rejected"]
    <3>1. Moves(c, k)
      BY <2>5, ReadProposalMoves
    <3>2. k.pc \in Silent
      BY <1>1, LeftPc DEF Silent, CallRecs
    <3> HIDE DEF k
    <3> QED BY <2>1, <3>1, <3>2
  <2>6. CASE CopyFork(c)
    <3> DEFINE k == [call[c] EXCEPT !.pc = "promote", !.seen = fork.content]
    <3>1. Moves(c, k)
      BY <2>6, CopyForkMoves
    <3>2. k.pc \in Silent
      BY <1>1 DEF Silent, CallRecs
    <3> HIDE DEF k
    <3> QED BY <2>1, <3>1, <3>2
  <2>7. ASSUME NEW pc \in {"publish", "close"}, Moves(c, [call[c] EXCEPT !.pc = pc])
        PROVE  \E k : Moves(c, k) /\ k.pc \in Silent
    <3> DEFINE k == [call[c] EXCEPT !.pc = pc]
    <3>1. k.pc \in Silent
      BY <1>1 DEF Silent, CallRecs
    <3>2. Moves(c, k)
      BY <2>7
    <3> HIDE DEF k
    <3> QED BY <3>1, <3>2
  <2>8. CASE Promote(c) \/ PublishPromoted(c)
    BY <2>1, <2>7, <2>8, PromoteShape, PublishPromotedShape
  <2> QED BY <1>3, <2>2, <2>3, <2>4, <2>5, <2>6, <2>8 DEF Step, Unanswered
<1> QED BY <1>2, <1>3 DEF Unanswered

\* While no request has a part in the queue, it stays true.
LEMMA UntouchedLedger ==
    ASSUME LedgerInv, UNCHANGED <<item, before, torn, dialect>>,
           dialect = "sqlite" => \A c \in Slots : call[c].pc \in Silent /\ call'[c].pc \in Silent
    PROVE  LedgerInv'
<1> SUFFICES ASSUME dialect = "sqlite" PROVE LedgerInv'
  BY DEF LedgerInv
<1>1. \A c \in Slots : LedgerCall(call[c])'
  BY DEF Silent, LedgerCall, HasAdopted, Answering
<1>2. ASSUME NEW i \in Items PROVE ItemTrue(i, Idle)'
  <2>1. ItemTrue(i, Idle)
    BY LeftPc DEF LedgerInv, ItemTrue, HasAdopted, Silent
  <2> QED BY <2>1 DEF ItemTrue, HasAdopted
<1> QED BY <1>1, <1>2 DEF LedgerInv

LEMMA NextLedger ==
    ASSUME Shape, LedgerInv, [Next]_vars
    PROVE  LedgerInv'
<1>1. dialect' = dialect
  BY SlotMoves DEF Next, vars, config, PublishDefault, ReadRow, Baseline, AdoptDefault, Record,
     ApplyReconcile, Enter, Edit, Propose, Prune, Restart
<1> SUFFICES ASSUME dialect = "sqlite" PROVE LedgerInv'
  BY <1>1 DEF LedgerInv
<1>2. ASSUME NEW c \in Slots, Unanswered(c) PROVE LedgerInv'
  <2>1. PICK k : Moves(c, k) /\ k.pc \in Silent
    BY <1>2, UnansweredMoves
  <2>2. \A d \in Slots : call[d].pc \in Silent /\ call'[d].pc \in Silent
    BY <1>2, <2>1, UnansweredMoves, Alone, MovesTo DEF Calls, Silent, At
  <2> QED BY <1>2, <2>2, UnansweredMoves, UntouchedLedger
<1>3. ASSUME NEW k, Moves(Seeder, k)
      PROVE  \A c \in Slots : call[c].pc = "idle" /\ call'[c].pc = "idle"
  BY <1>3, MovesTo, RealmConstants DEF Shape, Serial, Moves, MayStart, Calls, At
<1>4. CASE PublishDefault \/ ReadRow \/ Baseline \/ AdoptDefault \/ ApplyReconcile
  <2>1. \A c \in Slots : call[c].pc = "idle" /\ call'[c].pc = "idle"
    BY <1>3, <1>4, PublishDefaultShape, ReadRowMoves, BaselineShape, AdoptDefaultShape, ApplyReconcileShape
  <2>2. UNCHANGED <<item, before, torn, dialect>>
    BY <1>4 DEF PublishDefault, ReadRow, Baseline, AdoptDefault, ApplyReconcile, Enter, config, queue
  <2> QED BY <2>1, <2>2, UntouchedLedger DEF Silent
<1>5. CASE Record
  <2>1. \A c \in Slots : call[c].pc = "idle" /\ call'[c].pc = "idle"
    BY <1>3, <1>5, RecordShape
  <2>2. \A i \in Items : ItemTrue(i, Idle)
    BY <2>1, LeftPc DEF LedgerInv, ItemTrue, HasAdopted, At
  <2>3. nextItem \in Items /\ item[nextItem].status = "absent"
    <3>1. nextItem \in Items
      BY <1>5, NextItemInItems DEF Record
    <3> QED BY <3>1 DEF Shape, Fresh, Items
  <2>4. \A i \in Items : i # nextItem => item'[i] = item[i]
    BY <1>5 DEF Record, Shape, Typed
  <2>5. item'[nextItem].status = "open" /\ UNCHANGED <<before, torn>>
    BY <1>5, <2>3 DEF Record, Shape, Typed
  <2>6. ASSUME NEW i \in Items PROVE ItemTrue(i, Idle)'
    <3>1. ItemTrue(i, Idle) /\ ~ HasAdopted(Idle)
      BY <2>2, LeftPc DEF HasAdopted
    <3> QED BY <2>3, <2>4, <2>5, <3>1 DEF ItemTrue, HasAdopted
  <2>7. \A c \in Slots : LedgerCall(call[c])'
    BY <2>1 DEF LedgerCall, HasAdopted, Answering
  <2> QED BY <2>6, <2>7 DEF LedgerInv
<1>6. CASE Propose \/ Prune \/ \E f \in Fields, v \in Values : Edit(f, v)
  <2>1. \A c \in Slots : call[c].pc = "idle" /\ call' = call
    BY <1>6 DEF Propose, Prune, Edit, MayStart, Calls, At
  <2>2. UNCHANGED <<item, before, torn, dialect>>
    BY <1>6 DEF Propose, Prune, Edit, config, queue
  <2> QED BY <2>1, <2>2, UntouchedLedger DEF Silent
<1>7. ASSUME NEW new \in Releases, Restart(new) PROVE LedgerInv'
  <2>1. \A c \in Slots : call'[c] = Idle
    BY <1>7, RealmConstants DEF Restart, Calls
  <2>2. UNCHANGED <<item, before>>
    BY <1>7 DEF Restart
  <2>3. ASSUME NEW c \in Slots, HasAdopted(call[c]) PROVE call[c].item \in torn'
    BY <1>7, <2>3 DEF Restart, HasAdopted, At
  <2>4. torn \subseteq torn'
    BY <1>7 DEF Restart
  <2>5. ASSUME NEW i \in Items PROVE ItemTrue(i, Idle)'
    <3>1. CASE ItemTrue(i, Idle)
      BY <2>2, <2>4, <3>1, LeftPc DEF ItemTrue, HasAdopted
    <3>2. CASE \E c \in Slots : ~ At(c, "idle") /\ ItemTrue(i, call[c])
      BY <2>2, <2>3, <2>4, <3>2 DEF ItemTrue
    <3> QED BY <3>1, <3>2 DEF LedgerInv
  <2>6. \A c \in Slots : LedgerCall(call[c])'
    BY <2>1, LeftPc DEF LedgerCall, HasAdopted, Answering
  <2> QED BY <2>5, <2>6 DEF LedgerInv
<1>8. CASE UNCHANGED vars
  BY <1>8 DEF vars, config, queue, LedgerInv, LedgerCall, ItemTrue, At
<1> QED BY <1>2, <1>4, <1>5, <1>6, <1>7, <1>8, GetDetailLedger, FetchRowLedger, LoadDiffLedger,
           ReloadDiffLedger, WriteAdoptedLedger, SaveUndoLedger, LedgerLedger, LookUpLedger,
           RestoreLedger, ReopenLedger
        DEF Next, Unanswered

LEMMA LedgerInvariance == Spec => []LedgerInv
<1>1. Init => LedgerInv
  <2> SUFFICES ASSUME Init PROVE LedgerInv
    OBVIOUS
  <2>1. \A c \in Slots : call[c] = Idle
    BY RealmConstants DEF Init, Calls
  <2>2. \A i \in Items : item[i].status = "absent" /\ before[i] = None
    BY DEF Init
  <2> QED BY <2>1, <2>2, LeftPc DEF LedgerInv, LedgerCall, ItemTrue, HasAdopted, Answering
<1> QED BY <1>1, NextLedger, ShapeInvariance, PTL DEF Spec

\* On SQLite, and but for adopts that a crash cut short: an item that was kept
\* or deferred never had its row overwritten, an adopted one did
\* (resolveReviewItem and undoReviewItem over the ledger).
THEOREM LedgerIsTrue == Spec => []LedgerTruth
<1>1. Shape /\ LedgerInv => LedgerTruth
  <2> SUFFICES ASSUME Shape, LedgerInv, dialect = "sqlite", NEW i \in Items \ torn
               PROVE  /\ item[i].status \in {"kept", "deferred"} => before[i] = None
                      /\ item[i].status = "adopted" => before[i] # None
    BY DEF LedgerTruth
  <2> QED BY DEF LedgerInv, ItemTrue
<1> QED BY <1>1, ShapeInvariance, LedgerInvariance, PTL

\* Whatever was decided, edited, merged, promoted or released in between,
\* undoing an adopt writes back the row as it was when the adopt replaced it
\* (undoReviewItem; SQLite, adopts cut short by a crash aside).
THEOREM UndoIsExact == Spec => UndoRestores
<1>1. ASSUME Shape, LedgerInv, [Next]_vars, NEW c \in Slots, At(c, "restore"), At(c, "reopen")',
             dialect = "sqlite", call[c].item \notin torn
      PROVE  rec' = before[call[c].item]
  <2>1. ASSUME NEW d \in Slots, Start(d) \/ Step(d) PROVE d = c
    BY <1>1, <2>1, SlotMoves, Alone DEF At, Calls
  <2>2. ~ Start(c)
    BY <1>1 DEF Start, StartSweep, StartUndo, StartResolve, StartMerge, Enter, At
  <2>3. CASE \E k : Moves(Seeder, k)
    BY <1>1, <2>3, MovesTo, RealmConstants DEF At, Calls
  <2>4. CASE PublishDefault \/ ReadRow \/ Baseline \/ AdoptDefault \/ Record \/ ApplyReconcile
    BY <2>3, <2>4, PublishDefaultShape, ReadRowMoves, BaselineShape, AdoptDefaultShape, RecordShape,
       ApplyReconcileShape, <1>1
  <2>5. ASSUME NEW new \in Releases, Restart(new) PROVE FALSE
    <3>1. call'[c] = Idle
      BY <2>5, RealmConstants DEF Restart, Calls
    <3> QED BY <1>1, <3>1, LeftPc DEF At
  <2>6. CASE call' = call
    BY <1>1, <2>6 DEF At
  <2>7. CASE Step(c)
    <3>1. Restore(c)
      BY <1>1, <2>7 DEF Step, At, SweepNext, GetDetail, FetchRow, LoadDiff, ReloadDiff, WriteAdopted,
         SaveUndo, Ledger, LookUp, Reopen, MergeDiff, MergeWrite, ForkDiff, ForkWrite, ReadProposal,
         CopyFork, Promote, PublishPromoted, CloseProposal
    <3>2. rec' = call[c].row
      BY <3>1 DEF Restore
    <3> QED BY <1>1, <3>2 DEF LedgerInv, LedgerCall, At
  <2> QED BY <1>1, <2>1, <2>2, <2>4, <2>5, <2>6, <2>7
          DEF Next, vars, Propose, Prune, Edit
<1>2. Shape /\ LedgerInv /\ [Next]_vars =>
        \A c \in Slots : At(c, "restore") /\ At(c, "reopen")' /\ dialect = "sqlite"
                           /\ call[c].item \notin torn => rec' = before[call[c].item]
  BY <1>1
<1> QED BY <1>2, ShapeInvariance, LedgerInvariance, PTL DEF UndoRestores, Spec

=============================================================================
