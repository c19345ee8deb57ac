--------------------------- MODULE CollectionProofs ---------------------------
(* Proofs about Collection, in layers, each of which uses the one before:     *)
(*   IInv  the log tailer's cursor never passes a line that was not enqueued; *)
(*   RInv  records and reports keep the order and the cycle they come from;   *)
(*   WInv  the tombstones of a full snapshot come after its entries, so that  *)
(*         a snapshot the manager finds complete hides nothing;               *)
(*   SInv  what was told of each entry is what the state file says, and the   *)
(*         last full snapshot is there, so that the dashboard shows it.       *)
EXTENDS Collection, FiniteSetTheorems, WellFoundedInduction, TLAPS

(* Sets of items and of records *)

LEMMA LinesGrow == ASSUME NEW A, NEW B, A \subseteq B
                   PROVE  Lines(A) \subseteq Lines(B)
  BY DEF Lines

\* An item that is not a line may go.
LEMMA LinesOnly == ASSUME NEW A, NEW i, i.kind # "line"
                   PROVE  Lines(A \ {i}) = Lines(A)
  BY DEF Lines

LEMMA LinesJoin == ASSUME NEW A, NEW B
                   PROVE  Lines(A \cup B) = Lines(A) \cup Lines(B)
  BY DEF Lines

LEMMA LinesOfRead == ASSUME NEW a, NEW b, NEW n \in a..b
                     PROVE  n \in Lines({Line(m) : m \in a..b})
<1>1. Line(n).kind = "line" /\ Line(n).line = n
  BY DEF Line
<1>2. Line(n) \in {Line(m) : m \in a..b}
  OBVIOUS
<1>. QED BY <1>1, <1>2 DEF Lines

LEMMA EventIsNoLine == Event.kind # "line"
  BY DEF Event

LEMMA CoveredGrows == ASSUME NEW a, NEW b, NEW A, NEW B, Lines(A) \subseteq Lines(B), Covered(a, b, A)
                      PROVE  Covered(a, b, B)
  BY DEF Covered

\* Two stretches of lines make one.
LEMMA CoveredTogether ==
  ASSUME NEW m \in Nat, NEW n \in Nat, NEW A, Covered(1, m, A), Covered(m + 1, n, A)
  PROVE  Covered(1, n, A)
<1>. SUFFICES ASSUME NEW l \in 1..n PROVE l \in Lines(A)
  BY DEF Covered
<1>1. l \in 1..m \/ l \in m + 1 .. n
  OBVIOUS
<1>. QED BY <1>1 DEF Covered

LEMMA ContentsGrow == ASSUME NEW A, NEW B, A \subseteq B
                      PROVE  Contents(A) \subseteq Contents(B)
  BY DEF Contents

LEMMA ContentsJoin == ASSUME NEW A, NEW B
                      PROVE  Contents(A \cup B) = Contents(A) \cup Contents(B)
  BY DEF Contents

LEMMA ContentsOfOne == ASSUME NEW r PROVE Contents({r}) = r.items
  BY DEF Contents

-------------------------------------------------------------------------------
(* Due, and what a cycle does to the agent's fields *)

\* A collector that is due stays due as time goes on.
LEMMA DueStays ==
  ASSUME NEW m \in Memories, NEW c \in Collectors, NEW now \in Nat, DueWith(m, c, now)
  PROVE  DueWith(m, c, now + 1)
<1>1. m.collected[c] \in Nat
  BY DEF Memories
<1>2. Patience(m, c) \in Nat
  BY CollectionAssumption DEF Patience
<1>. QED BY <1>1, <1>2 DEF DueWith

LEMMA Notes ==
  ASSUME memory \in Memories, NEW now \in Nat, NEW failed \in SUBSET Collectors, NEW due \in SUBSET Collectors
  PROVE  Noted(failed, now, due) \in Memories
  BY DEF Noted, Memories

LEMMA Filters ==
  ASSUME host \in Inventories, NEW now \in Nat, NEW noted \in Memories
  PROVE  Filtered(noted, now) \in Memories
<1>1. (noted.dirty \/ FullDue(now) \/ memory.cache # host) \in BOOLEAN
  OBVIOUS
<1>. QED BY <1>1 DEF Filtered, Memories

LEMMA PageEndOK == ASSUME TypeOK
                   PROVE  PageEnd \in cursor..written
  BY CollectionAssumption DEF TypeOK, PageEnd

LEMMA InitialMemory == Empty \in Inventories
  BY DEF Empty, Inventories

LEMMA LoadedOK == ASSUME TypeOK PROVE Loaded \in Memories
  BY DEF TypeOK, Loaded, Memories, Never

-------------------------------------------------------------------------------
(* Type correctness *)

LEMMA TypeInit == Init => TypeOK
<1>. SUFFICES ASSUME Init PROVE TypeOK
  OBVIOUS
<1>1. memory \in Memories
  BY InitialMemory DEF Init, Memories, Never
<1>. QED BY <1>1, InitialMemory DEF Init, TypeOK, Never, NoCursor

LEMMA TypeNext == ASSUME TypeOK, [Next]_vars PROVE TypeOK'
<1>. USE DEF TypeOK
<1>1. ASSUME NEW failed \in SUBSET Collectors, Collect(failed) PROVE TypeOK'
  <2>. DEFINE due == {c \in Collectors : Due(c, cycle + 1)}
              noted == Noted(failed, cycle + 1, due)
  <2>1. noted \in Memories
    BY Notes
  <2>2. Filtered(noted, cycle + 1) \in Memories
    BY <2>1, Filters
  <2>3. memory' = IF "inventory" \in due \ failed THEN Filtered(noted, cycle + 1) ELSE noted
    BY <1>1 DEF Collect
  <2>4. memory' \in Memories
    BY <2>1, <2>2, <2>3
  <2>5. pending' \in (cursor + 1 .. written) \cup {NoCursor}
    BY <1>1, PageEndOK DEF Collect
  <2>. HIDE DEF due, noted
  <2>. QED BY <1>1, <2>4, <2>5 DEF Collect, env, disk, log
<1>2. CASE Unchunkable
  BY <1>2 DEF Unchunkable, TakeBack, env, log, disk, spool
<1>3. CASE Push
  BY <1>3 DEF Push, env, log, disk
<1>4. CASE PushFails
  BY <1>4 DEF PushFails, env, log, disk
<1>5. CASE Undo
  BY <1>5 DEF Undo, TakeBack, env, log, disk
<1>6. CASE Save
  <2>1. memory' \in Memories
    BY <1>6 DEF Save, Memories
  <2>2. stateFile'.cache \in Inventories /\ stateFile'.full \in Nat
    BY <1>6 DEF Save, Memories
  <2>. QED BY <1>6, <2>1, <2>2 DEF Save, env, log
<1>7. CASE SaveFails
  <2>1. stateFile'.cache \in Inventories /\ stateFile'.full \in Nat
    BY <1>7 DEF SaveFails, Memories
  <2>. QED BY <1>7, <2>1 DEF SaveFails, env, log
<1>8. CASE Commit
  BY <1>8 DEF Commit, Return, env, NoCursor
<1>9. CASE CommitFails
  BY <1>9 DEF CommitFails, Return, env, log, disk
<1>10. CASE Peek \/ SendFails \/ Deliver \/ DeliverUnacknowledged \/ Refuse
  BY <1>10 DEF Peek, SendFails, Deliver, DeliverUnacknowledged, Refuse, env, log, run, disk
<1>11. CASE Crash
  <2>1. Loaded \in Memories
    BY LoadedOK
  <2>. QED BY <1>11, <2>1 DEF Crash, env, disk
<1>12. CASE HostChanges
  <2>1. host' \in Inventories
    BY <1>12 DEF HostChanges, Inventories
  <2>. QED BY <1>12, <2>1 DEF HostChanges, log, run, disk
<1>13. CASE LogGrows
  BY <1>13 DEF LogGrows, log, run, disk
<1>14. CASE Merge
  BY <1>14 DEF Merge, env, log, run, disk
<1>15. CASE UNCHANGED vars
  BY <1>15 DEF vars, env, log, run, disk
<1>. QED BY <1>1, <1>2, <1>3, <1>4, <1>5, <1>6, <1>7, <1>8, <1>9, <1>10, <1>11, <1>12, <1>13, <1>14, <1>15 DEF Next

(* Every value the variables take is of the shape TypeOK gives, and the log   *)
(* tailer's two cursors agree and stay within the log (CommitPendingCursor).  *)
THEOREM TypeCorrect == Spec => []TypeOK
<1>. QED BY TypeInit, TypeNext, PTL DEF Spec

-------------------------------------------------------------------------------
(* The inductive invariant *)

LEMMA KeptEnqueued == Kept \subseteq Enqueued
  BY DEF Kept, Enqueued, Contents

\* Outside a cycle all that was enqueued is kept.
LEMMA KeptIsEnqueued == ASSUME at \notin {"push", "undo", "save"}
                        PROVE  Kept = Enqueued
<1>1. {r \in queue : at \in {"push", "undo", "save"} => r.cycle # cycle} = queue
  OBVIOUS
<1>2. dead \cup queue = queue \cup dead
  OBVIOUS
<1>. QED BY <1>1, <1>2 DEF Kept, Enqueued

\* What a pending cursor is behind stays behind it when lines only come.
LEMMA CursorGrows == ASSUME CursorBehind, cursor' = cursor, Lines(Kept) \subseteq Lines(Kept')
                     PROVE  CursorBehind'
  BY DEF CursorBehind, Covered

LEMMA IInit == Init => IInv
<1>. SUFFICES ASSUME Init PROVE IInv
  OBVIOUS
<1>1. TypeOK
  BY TypeInit
<1>2. CursorBehind
  BY DEF Init, CursorBehind, Covered
<1>3. PendingBehind
  BY DEF Init, PendingBehind, NoCursor
<1>4. RecordsPast /\ TodoDone
  BY DEF Init, RecordsPast, TodoDone
<1>. QED BY <1>1, <1>2, <1>3, <1>4 DEF IInv

(* One lemma for each action that does more than leave the lines alone *)

LEMMA CollectKeeps ==
  ASSUME IInv, NEW failed \in SUBSET Collectors, Collect(failed), TypeOK'
  PROVE  IInv'
<1>. DEFINE due == {c \in Collectors : Due(c, cycle + 1)}
            new == {Line(n) : n \in cursor + 1 .. PageEnd}
<1>1. /\ cycle' = cycle + 1 /\ before' = memory /\ at' = "push" /\ at = "idle" /\ cursor' = cursor
      /\ pending' = IF "log" \notin due THEN pending
                    ELSE IF "log" \in failed \/ PageEnd = cursor THEN NoCursor ELSE PageEnd
      /\ rows' = rows /\ dead' = dead /\ queue' = queue /\ unindexed' = unindexed
  BY DEF Collect, spool, arrived
<1>2. /\ cycle \in Nat
      /\ \A r \in queue \cup unindexed : r.cycle \in 0..cycle
  BY DEF IInv, TypeOK, RecordsPast
<1>3. Kept' = Kept
  <2>1. \A r \in queue : r.cycle # cycle + 1
    BY <1>2
  <2>2. {r \in queue : at \in {"push", "undo", "save"} => r.cycle # cycle} = queue
    BY <1>1
  <2>3. {r \in queue' : at' \in {"push", "undo", "save"} => r.cycle # cycle'} = queue
    BY <1>1, <2>1
  <2>. QED BY <1>1, <2>2, <2>3 DEF Kept, Contents
<1>4. CursorBehind'
  BY <1>1, <1>3, CursorGrows DEF IInv
<1>5. RecordsPast' /\ TodoDone'
  BY <1>1, <1>2 DEF RecordsPast, TodoDone
<1>6. PendingBehind'
  <2>1. SUFFICES ASSUME pending' # NoCursor
                 PROVE  /\ Covered(cursor + 1, pending', (todo \cup Enqueued)')
                        /\ DueWith(memory, "log", cycle + 1) \/ Covered(cursor + 1, pending', Kept)
    BY <1>1, <1>3 DEF PendingBehind
  <2>2. CASE "log" \in due
    <3>1. DueWith(memory, "log", cycle + 1)
      BY <2>2 DEF Due
    <3>2. "log" \notin failed /\ pending' = PageEnd
      BY <1>1, <2>1, <2>2
    <3>3. PageEnd # cursor /\ PageEnd \in cursor..written /\ cursor \in Nat
      BY <1>1, <2>1, <2>2, PageEndOK DEF IInv, TypeOK
    <3>4. cursor + 1 \in cursor + 1 .. PageEnd
      BY <3>3 DEF IInv, TypeOK
    <3>5. new # {}
      BY <3>4
    <3>6. PICK late \in {0, 1} :
            LET items == (IF failed = {} THEN {} ELSE {Event})
                           \cup (IF "inventory" \in due \ failed THEN Reports(host, cycle + 1, late) ELSE {})
                           \cup (IF "log" \in due \ failed THEN new ELSE {})
            IN  todo' = IF items = {} THEN {Event} ELSE items
      BY DEF Collect
    <3>7. new \subseteq todo'
      BY <2>2, <3>2, <3>5, <3>6
    <3>8. Covered(cursor + 1, PageEnd, new)
      BY LinesOfRead DEF Covered
    <3>9. Lines(new) \subseteq Lines((todo \cup Enqueued)')
      BY <3>7, LinesGrow
    <3>. QED BY <3>1, <3>2, <3>8, <3>9, CoveredGrows
  <2>3. CASE "log" \notin due
    <3>1. pending' = pending /\ ~ Due("log", cycle + 1)
      BY <1>1, <2>3 DEF Collectors
    <3>2. Covered(cursor + 1, pending, Kept)
      BY <1>1, <2>1, <3>1 DEF IInv, PendingBehind
    <3>3. Kept \subseteq (todo \cup Enqueued)'
      BY <1>3, KeptEnqueued, <1>1 DEF Enqueued
    <3>. QED BY <3>1, <3>2, <3>3, LinesGrow, CoveredGrows
  <2>. QED BY <2>2, <2>3
<1>. QED BY <1>4, <1>5, <1>6 DEF IInv

\* TakeBack makes the log as due as it was when the cycle began.
LEMMA TakenBack ==
  ASSUME IInv, TypeOK', TakeBack, at \in {"push", "undo"},
         cursor' = cursor, pending' = pending, cycle' = cycle,
         Lines(Kept) \subseteq Lines(Kept'), RecordsPast'
  PROVE  IInv'
<1>1. at' = "idle" /\ memory' = before /\ todo' = {}
  BY DEF TakeBack
<1>2. before \in Memories /\ cycle \in Nat
  BY DEF IInv, TypeOK
<1>3. PendingBehind'
  <2>1. SUFFICES ASSUME pending # NoCursor
                 PROVE  DueWith(before, "log", cycle + 1) \/ Covered(cursor + 1, pending, Kept')
    BY <1>1 DEF PendingBehind, Due
  <2>2. DueWith(before, "log", cycle) \/ Covered(cursor + 1, pending, Kept)
    BY <2>1 DEF IInv, PendingBehind
  <2>3. "log" \in Collectors
    BY DEF Collectors
  <2>. QED BY <1>2, <2>2, <2>3, DueStays, CoveredGrows
<1>. QED BY <1>1, <1>3, CursorGrows DEF IInv, TodoDone

\* A step within the cycle that takes no line away, and leaves all else alone.
LEMMA LinesMove ==
  ASSUME IInv, TypeOK', RecordsPast', TodoDone',
         UNCHANGED <<cursor, pending, cycle, before, memory>>,
         at' = at \/ <<at, at'>> \in {<<"push", "save">>, <<"push", "undo">>, <<"save", "undo">>},
         Lines(Kept) \subseteq Lines(Kept'),
         at' # "undo" => Lines(todo \cup Enqueued) \subseteq Lines((todo \cup Enqueued)')
  PROVE  IInv'
<1>1. CursorBehind'
  BY CursorGrows DEF IInv
<1>2. PendingBehind'
  <2>1. SUFFICES ASSUME pending # NoCursor
        PROVE  /\ at' \in {"push", "save", "commit"} => Covered(cursor + 1, pending, (todo \cup Enqueued)')
               /\ at' = "idle" => Due("log", cycle + 1) \/ Covered(cursor + 1, pending, Kept')
               /\ at' \in {"push", "undo", "save"} =>
                    DueWith(before, "log", cycle) \/ Covered(cursor + 1, pending, Kept')
    BY DEF PendingBehind, Due, DueWith, Patience
  <2>2. ASSUME at' \in {"push", "save", "commit"} PROVE Covered(cursor + 1, pending, (todo \cup Enqueued)')
    <3>1. at \in {"push", "save", "commit"} /\ at' # "undo"
      BY <2>2
    <3>. QED BY <2>1, <3>1, CoveredGrows DEF IInv, PendingBehind
  <2>3. ASSUME at' = "idle" PROVE Due("log", cycle + 1) \/ Covered(cursor + 1, pending, Kept')
    BY <2>1, <2>3, CoveredGrows DEF IInv, PendingBehind
  <2>4. ASSUME at' \in {"push", "undo", "save"}
        PROVE  DueWith(before, "log", cycle) \/ Covered(cursor + 1, pending, Kept')
    <3>1. at \in {"push", "undo", "save"}
      BY <2>4
    <3>. QED BY <2>1, <3>1, CoveredGrows DEF IInv, PendingBehind
  <2>. QED BY <2>2, <2>3, <2>4
<1>. QED BY <1>1, <1>2 DEF IInv

\* What is in the records of a set.
LEMMA InContents == ASSUME NEW A, NEW i PROVE i \in Contents(A) <=> \E r \in A : i \in r.items
  BY DEF Contents

\* The lines of a record that leaves the queue for the server or the dead
\* letters are kept, whichever cycle the record is of.
LEMMA Leaves ==
  ASSUME NEW r, cycle' = cycle, at' = at,
         \A i \in rows : i.kind = "line" => i \in rows',
         dead \subseteq dead', queue \ {r} \subseteq queue',
         r \in queue \ queue' => \A i \in r.items : i.kind = "line" => i \in rows' \cup Contents(dead')
  PROVE  /\ Lines(Kept) \subseteq Lines(Kept')
         /\ Lines(Enqueued) \subseteq Lines(Enqueued')
<1>. DEFINE Q == {s \in queue : at \in {"push", "undo", "save"} => s.cycle # cycle}
            R == {s \in queue' : at \in {"push", "undo", "save"} => s.cycle # cycle}
<1>1. Kept = rows \cup Contents(dead \cup Q) /\ Kept' = rows' \cup Contents(dead' \cup R)
  BY DEF Kept, Contents
<1>2. Enqueued = rows \cup Contents(queue \cup dead) /\ Enqueued' = rows' \cup Contents(queue' \cup dead')
  BY DEF Enqueued, Contents
<1>3. Q \subseteq queue /\ R \subseteq queue' /\ Q \ {r} \subseteq R /\ (r \in Q /\ r \in queue' => r \in R)
  OBVIOUS
<1>4. Contents(dead') \subseteq Kept' /\ Contents(dead') \subseteq Enqueued'
  BY <1>1, <1>2 DEF Contents
<1>5. ASSUME NEW i \in Kept, i.kind = "line" PROVE i \in Kept'
  <2>1. CASE i \in rows
    BY <1>1, <1>5, <2>1
  <2>2. CASE \E s \in dead : i \in s.items
    BY <1>4, <2>2, InContents
  <2>3. ASSUME NEW s \in Q, i \in s.items PROVE i \in Kept'
    <3>1. CASE s \in R
      <4>1. i \in Contents(dead' \cup R)
        BY <2>3, <3>1, InContents
      <4>. QED BY <1>1, <4>1
    <3>2. CASE s \notin R
      <4>1. s = r /\ r \in queue \ queue'
        BY <1>3, <3>2
      <4>. QED BY <1>1, <1>4, <1>5, <2>3, <4>1
    <3>. QED BY <3>1, <3>2
  <2>4. i \in rows \/ \E s \in dead \cup Q : i \in s.items
    BY <1>1, InContents
  <2>. QED BY <2>1, <2>2, <2>3, <2>4
<1>6. ASSUME NEW i \in Enqueued, i.kind = "line" PROVE i \in Enqueued'
  <2>1. CASE i \in rows
    BY <1>2, <1>6, <2>1
  <2>2. CASE \E s \in dead : i \in s.items
    BY <1>4, <2>2, InContents
  <2>3. ASSUME NEW s \in queue, i \in s.items PROVE i \in Enqueued'
    <3>1. CASE s \in queue'
      <4>1. i \in Contents(queue' \cup dead')
        BY <2>3, <3>1, InContents
      <4>. QED BY <1>2, <4>1
    <3>2. CASE s \notin queue'
      BY <1>2, <1>4, <1>6, <2>3, <3>2
    <3>. QED BY <3>1, <3>2
  <2>4. i \in rows \/ \E s \in queue \cup dead : i \in s.items
    BY <1>2, InContents
  <2>. QED BY <2>1, <2>2, <2>3, <2>4
<1>. QED BY <1>5, <1>6 DEF Lines

\* A record that is added takes none away.
LEMMA Arrives ==
  ASSUME rows' = rows, dead' = dead, cycle' = cycle, queue \subseteq queue',
         at' \in {"push", "undo", "save"} => at \in {"push", "undo", "save"}
  PROVE  /\ Lines(Kept) \subseteq Lines(Kept')
         /\ Lines(Enqueued) \subseteq Lines(Enqueued')
<1>1. Kept \subseteq Kept' /\ Enqueued \subseteq Enqueued'
  BY DEF Kept, Enqueued, Contents
<1>. QED BY <1>1, LinesGrow

LEMMA LinesAreLines == ASSUME NEW A, NEW i \in A, i.kind = "line"
                       PROVE  i.line \in Lines(A)
  BY DEF Lines

LEMMA PushKeeps == ASSUME IInv, TypeOK', Push PROVE IInv'
<1>1. PICK c \in Chunks : queue' = queue \cup {NextRecord(c)} /\ todo' = todo \ c
  BY DEF Push
<1>2. /\ at = "push" /\ at' \in {"push", "save"} /\ (at' = "save" => todo' = {})
      /\ UNCHANGED <<cursor, pending, cycle, before, memory, rows, dead, unindexed>>
  BY DEF Push, log, arrived
<1>3. NextRecord(c).cycle = cycle /\ NextRecord(c).items = c
  BY DEF NextRecord
<1>4. RecordsPast' /\ TodoDone'
  BY <1>1, <1>2, <1>3 DEF IInv, TypeOK, RecordsPast, TodoDone
<1>5. Lines(Kept) \subseteq Lines(Kept')
  BY <1>1, <1>2, Arrives
<1>6. todo \cup Enqueued \subseteq (todo \cup Enqueued)'
  <2>1. c \subseteq Enqueued' /\ Enqueued \subseteq Enqueued'
    BY <1>1, <1>2, <1>3 DEF Enqueued, Contents
  <2>. QED BY <1>1, <2>1
<1>7. Lines(todo \cup Enqueued) \subseteq Lines((todo \cup Enqueued)')
  BY <1>6, LinesGrow
<1>. QED BY <1>2, <1>4, <1>5, <1>7, LinesMove

LEMMA UndoKeeps == ASSUME IInv, TypeOK', Undo PROVE IInv'
<1>. DEFINE pushed == {r \in queue : r.cycle = cycle}
<1>1. /\ at = "undo" /\ at' = "idle" /\ TakeBack /\ queue \ pushed \subseteq queue' /\ queue' \subseteq queue
      /\ UNCHANGED <<cursor, pending, cycle, rows, dead, unindexed>>
  <2>1. queue' = queue \ pushed \/ \E r \in pushed : queue' = queue \ {s \in pushed : Older(s, r)}
    BY DEF Undo
  <2>. QED BY <2>1 DEF Undo, TakeBack, log, arrived
<1>2. Kept \subseteq Kept'
  BY <1>1 DEF Kept, Contents
<1>3. Lines(Kept) \subseteq Lines(Kept')
  BY <1>2, LinesGrow
<1>4. RecordsPast'
  BY <1>1 DEF IInv, RecordsPast
<1>. QED BY <1>1, <1>3, <1>4, TakenBack

LEMMA UnchunkableKeeps == ASSUME IInv, TypeOK', Unchunkable PROVE IInv'
<1>1. /\ at = "push" /\ at' = "idle" /\ TakeBack
      /\ UNCHANGED <<cursor, pending, cycle, rows, dead, queue, unindexed>>
  BY DEF Unchunkable, TakeBack, log, arrived, spool
<1>2. Lines(Kept) \subseteq Lines(Kept')
  BY <1>1, Arrives
<1>3. RecordsPast'
  BY <1>1 DEF IInv, RecordsPast
<1>. QED BY <1>1, <1>2, <1>3, TakenBack

LEMMA PushFailsKeeps == ASSUME IInv, TypeOK', PushFails PROVE IInv'
<1>1. /\ at = "push" /\ at' = "undo"
      /\ UNCHANGED <<cursor, pending, cycle, before, memory, rows, dead, queue, todo>>
  BY DEF PushFails, log, arrived
<1>2. unindexed' = unindexed \/ \E c \in Chunks : unindexed' = unindexed \cup {NextRecord(c)}
  BY DEF PushFails
<1>3. RecordsPast' /\ TodoDone'
  BY <1>1, <1>2 DEF IInv, TypeOK, RecordsPast, TodoDone, NextRecord
<1>4. Lines(Kept) \subseteq Lines(Kept')
  BY <1>1, Arrives
<1>. QED BY <1>1, <1>3, <1>4, LinesMove

LEMMA SaveFailsKeeps == ASSUME IInv, TypeOK', SaveFails PROVE IInv'
<1>1. /\ at = "save" /\ at' = "undo"
      /\ UNCHANGED <<cursor, pending, cycle, before, memory, rows, dead, queue, unindexed, todo>>
  BY DEF SaveFails, log, arrived, spool
<1>2. RecordsPast' /\ TodoDone'
  BY <1>1 DEF IInv, RecordsPast, TodoDone
<1>3. Lines(Kept) \subseteq Lines(Kept')
  BY <1>1, Arrives
<1>. QED BY <1>1, <1>2, <1>3, LinesMove

\* Once the cycle cannot be undone its records count.
LEMMA SaveKeeps == ASSUME IInv, TypeOK', Save PROVE IInv'
<1>1. /\ at = "save" /\ at' = "commit"
      /\ UNCHANGED <<cursor, pending, cycle, before, rows, dead, queue, unindexed, todo>>
  BY DEF Save, log, arrived, spool
<1>2. RecordsPast' /\ TodoDone'
  BY <1>1 DEF IInv, RecordsPast, TodoDone
<1>3. Lines(Kept) \subseteq Lines(Kept')
  BY <1>1, Arrives
<1>4. PendingBehind'
  <2>1. (todo \cup Enqueued)' = todo \cup Enqueued
    BY <1>1 DEF Enqueued, Contents
  <2>. QED BY <1>1, <2>1 DEF IInv, PendingBehind, Covered
<1>. QED BY <1>1, <1>2, <1>3, <1>4, CursorGrows DEF IInv

\* The end of a cycle: every line of it is in the queue or further on.
LEMMA CommitKeeps == ASSUME IInv, TypeOK', Commit \/ CommitFails PROVE IInv'
<1>1. /\ at = "commit" /\ at' = "idle" /\ todo = {} /\ todo' = todo
      /\ UNCHANGED <<cycle, rows, dead, queue, unindexed>>
  BY DEF Commit, CommitFails, Return, IInv, TodoDone, spool, arrived
<1>2. Kept' = Kept /\ Kept = Enqueued
  <2>1. Kept' = Enqueued' /\ Kept = Enqueued
    BY <1>1, KeptIsEnqueued DEF Kept, Enqueued, Contents
  <2>. QED BY <1>1, <2>1 DEF Enqueued, Contents
<1>3. RecordsPast' /\ TodoDone'
  BY <1>1 DEF IInv, RecordsPast, TodoDone
<1>4. pending # NoCursor => Covered(cursor + 1, pending, Kept)
  <2>1. todo \cup Enqueued = Kept
    BY <1>1, <1>2
  <2>. QED BY <1>1, <2>1 DEF IInv, PendingBehind
<1>5. CASE Commit
  <2>1. pending' = NoCursor /\ cursor' = IF pending = NoCursor THEN cursor ELSE pending
    BY <1>5 DEF Commit
  <2>2. Covered(1, cursor', Kept)
    <3>1. CASE pending = NoCursor
      BY <2>1, <3>1 DEF IInv, CursorBehind
    <3>2. CASE pending # NoCursor
      <4>1. cursor \in Nat /\ pending \in Nat
        BY <3>2 DEF IInv, TypeOK
      <4>2. Covered(1, cursor, Kept) /\ Covered(cursor + 1, pending, Kept)
        BY <1>4, <3>2 DEF IInv, CursorBehind
      <4>. QED BY <2>1, <3>2, <4>1, <4>2, CoveredTogether
    <3>. QED BY <3>1, <3>2
  <2>. QED BY <1>1, <1>2, <1>3, <2>1, <2>2 DEF IInv, CursorBehind, PendingBehind
<1>6. CASE CommitFails
  <2>1. cursor' = cursor /\ pending' = pending
    BY <1>6 DEF CommitFails, log
  <2>. QED BY <1>1, <1>2, <1>3, <1>4, <2>1 DEF IInv, CursorBehind, PendingBehind
<1>. QED BY <1>5, <1>6

\* What FlushPending, the host and the store do.
LEMMA OthersKeep ==
  ASSUME IInv, TypeOK',
         Peek \/ SendFails \/ Deliver \/ DeliverUnacknowledged \/ Refuse \/ HostChanges \/ LogGrows \/ Merge
  PROVE  IInv'
<1>1. /\ UNCHANGED <<cursor, pending, cycle, at, before, memory, unindexed, todo>>
      /\ queue' \subseteq queue
  BY DEF Peek, SendFails, Deliver, DeliverUnacknowledged, Refuse, HostChanges, LogGrows, Merge, log, run, spool
<1>2. RecordsPast' /\ TodoDone'
  BY <1>1 DEF IInv, RecordsPast, TodoDone
<1>3. Lines(Kept) \subseteq Lines(Kept') /\ Lines(Enqueued) \subseteq Lines(Enqueued')
  <2>1. CASE Peek \/ SendFails \/ HostChanges \/ LogGrows
    BY <1>1, <2>1, Arrives DEF Peek, SendFails, HostChanges, LogGrows, spool, arrived
  <2>2. CASE Deliver \/ DeliverUnacknowledged
    <3>. DEFINE r == Oldest(peeked)
    <3>1. /\ rows' = rows \cup (r.items \ {Event}) /\ dead' = dead
          /\ queue' = queue \ {r} \/ queue' = queue
      BY <2>2 DEF Deliver, DeliverUnacknowledged, spool
    <3>. HIDE DEF r
    <3>. QED BY <1>1, <3>1, EventIsNoLine, Leaves
  <2>3. CASE Refuse
    <3>. DEFINE r == Oldest(peeked)
    <3>1. /\ rows' = rows
          /\ \/ queue' = queue \ {r} /\ dead' = dead \cup {r}
             \/ queue' = queue /\ dead' = dead
      BY <2>3 DEF Refuse
    <3>2. r \in dead' => r.items \subseteq Contents(dead')
      BY DEF Contents
    <3>. HIDE DEF r
    <3>. QED BY <1>1, <3>1, <3>2, Leaves
  <2>4. CASE Merge
    <3>1. PICK r \in States(rows) : rows' = rows \ {r}
      BY <2>4 DEF Merge
    <3>2. \A i \in rows : i.kind = "line" => i \in rows'
      BY <3>1 DEF States
    <3>3. dead' = dead /\ queue' = queue
      BY <2>4 DEF Merge, spool
    <3>. QED BY <1>1, <3>2, <3>3, Leaves
  <2>. QED BY <2>1, <2>2, <2>3, <2>4
<1>4. Lines(todo \cup Enqueued) \subseteq Lines((todo \cup Enqueued)')
  <2>1. Lines(todo \cup Enqueued) = Lines(todo) \cup Lines(Enqueued)
    BY LinesJoin
  <2>2. Lines(todo' \cup Enqueued') = Lines(todo') \cup Lines(Enqueued')
    BY LinesJoin
  <2>. QED BY <1>1, <1>3, <2>1, <2>2
<1>. QED BY <1>1, <1>2, <1>3, <1>4, LinesMove

\* A crash forgets the pending cursor and finds the records that were not indexed.
LEMMA CrashKeeps == ASSUME IInv, TypeOK', Crash PROVE IInv'
<1>1. /\ at' = "idle" /\ cursor' = cursorFile /\ cursorFile = cursor /\ pending' = NoCursor
      /\ queue' = queue \cup unindexed /\ unindexed' = {} /\ UNCHANGED <<cycle, rows, dead>>
  BY DEF Crash, arrived, IInv, TypeOK
<1>2. Lines(Kept) \subseteq Lines(Kept')
  BY <1>1, Arrives
<1>. QED BY <1>1, <1>2, CursorGrows DEF IInv, PendingBehind, RecordsPast, TodoDone

LEMMA IIStutter == ASSUME IInv, UNCHANGED vars PROVE IInv'
  BY DEF IInv, TypeOK, CursorBehind, PendingBehind, RecordsPast, TodoDone, Kept, Enqueued, Contents, Covered, Lines,
         Due, DueWith, Patience, vars, env, log, run, disk, spool, arrived, history, bounds

LEMMA IStep == ASSUME IInv, [Next]_vars PROVE IInv'
<1>1. TypeOK'
  BY TypeNext DEF IInv
<1>2. ASSUME NEW failed \in SUBSET Collectors, Collect(failed) PROVE IInv'
  BY <1>1, <1>2, CollectKeeps
<1>3. CASE Unchunkable \/ Push \/ PushFails \/ Undo \/ Save \/ SaveFails \/ Commit \/ CommitFails
  BY <1>1, <1>3, UnchunkableKeeps, PushKeeps, PushFailsKeeps, UndoKeeps, SaveKeeps, SaveFailsKeeps, CommitKeeps
<1>4. CASE Peek \/ SendFails \/ Deliver \/ DeliverUnacknowledged \/ Refuse \/ HostChanges \/ LogGrows \/ Merge
  BY <1>1, <1>4, OthersKeep
<1>5. CASE Crash
  BY <1>1, <1>5, CrashKeeps
<1>6. CASE UNCHANGED vars
  BY <1>6, IIStutter
<1>. QED BY <1>2, <1>3, <1>4, <1>5, <1>6 DEF Next

(* The inductive invariant: a cursor, committed or pending, is behind lines   *)
(* that are enqueued, or being enqueued, or will be read again before it is   *)
(* committed (CollectOnce with Collect and CommitPendingCursor).              *)
THEOREM Inductive == Spec => []IInv
<1>. QED BY IInit, IStep, PTL DEF Spec

(* Whatever fails and whenever the agent dies, the cursor in the file never   *)
(* passes a line that is not in the queue, a dead letter or the store.        *)
THEOREM NoGap == Spec => []NoLineSkipped
<1>1. IInv => NoLineSkipped
  <2>1. ASSUME IInv PROVE NoLineSkipped
    <3>1. cursorFile = cursor /\ Covered(1, cursor, Kept)
      BY <2>1 DEF IInv, TypeOK, CursorBehind
    <3>2. Lines(Kept) \subseteq Lines(Enqueued)
      BY KeptEnqueued, LinesGrow
    <3>. QED BY <3>1, <3>2 DEF NoLineSkipped, Covered
  <2>. QED BY <2>1
<1>. QED BY <1>1, Inductive, PTL

-------------------------------------------------------------------------------
(* Records and reports: their cycles, their order, where they come from *)

Records == queue \cup dead \cup unindexed \cup peeked
Waiting == queue \cup unindexed \cup peeked

\* The time of a report is that of its cycle.
Stamp(i) == i.time \in Nat /\ Batch(i) \in Nat /\ (~ SplitInstant => i.time = 2 * Batch(i))

Stamped ==
  /\ \A r \in Records : /\ r.cycle \in 1..cycle /\ r.index \in Nat
                        /\ \A i \in States(r.items) : Stamp(i) /\ Batch(i) = r.cycle
  /\ \A i \in States(rows) : Stamp(i) /\ Batch(i) \in 1..cycle
  /\ \A i \in States(todo) : Stamp(i) /\ Batch(i) = cycle

\* A record is known by its cycle and its number.
Single(S) == \A r, s \in S : r.cycle = s.cycle /\ r.index = s.index => r = s
Numbered ==
  /\ Single(Waiting)
  /\ at = "push" => \A r \in Waiting : r.cycle = cycle => r.index < index

\* What FlushPending has read is in the queue or was taken back, and nothing older
\* of the same cycle escaped it; what Push has left on disk is of a failed cycle.
FromQueue ==
  /\ \A r \in peeked : r \in queue \/ r.cycle \in aborted
  /\ \A r \in unindexed : r.cycle \in aborted \/ (r.cycle = cycle /\ at = "undo")
  /\ \A r \in peeked, s \in queue : s.cycle = r.cycle /\ s.index < r.index /\ r \in queue => s \in peeked

Cycles ==
  /\ aborted \subseteq 0..cycle /\ (at = "idle" => todo = {}) /\ (at # "idle" => cycle \notin aborted /\ cycle >= 1)
  /\ merges \in Nat /\ cycle \in 0..MaxCycles /\ collected \in [1..MaxCycles -> SUBSET Keys]

RInv == IInv /\ Stamped /\ Numbered /\ FromQueue /\ Cycles

\* A set of numbers has a least one.
LEMMA Least ==
  ASSUME NEW N, N \subseteq Nat, N # {}
  PROVE  \E n \in N : \A m \in N : n <= m
<1> DEFINE Below == {p \in Nat \X Nat : p[1] < p[2]}
<1>1. IsWellFoundedOn(Below, Nat)
  BY NatLessThanWellFounded DEF OpToRel
<1>2. PICK n \in N : \A m \in N : ~ (<<m, n>> \in Below)
  BY <1>1, WFMin
<1>3. ASSUME NEW m \in N PROVE n <= m
  <2>1. m \in Nat /\ n \in Nat
    OBVIOUS
  <2>2. m < n => <<m, n>> \in Below
    BY <2>1
  <2>. QED BY <1>2, <2>1, <2>2
<1>. QED BY <1>3

LEMMA OldestOK ==
  ASSUME NEW S, S # {}, \A r \in S : r.cycle \in Nat /\ r.index \in Nat, Single(S)
  PROVE  Oldest(S) \in S /\ \A s \in S \ {Oldest(S)} : Older(Oldest(S), s)
<1>1. PICK c \in {r.cycle : r \in S} : \A d \in {r.cycle : r \in S} : c <= d
  <2>. {r.cycle : r \in S} \subseteq Nat /\ {r.cycle : r \in S} # {}
    OBVIOUS
  <2>. QED BY Least
<1> DEFINE C == {r \in S : r.cycle = c}
<1>2. PICK n \in {r.index : r \in C} : \A m \in {r.index : r \in C} : n <= m
  <2>. {r.index : r \in C} \subseteq Nat /\ {r.index : r \in C} # {}
    OBVIOUS
  <2>. QED BY Least
<1>3. PICK r \in S : r.cycle = c /\ r.index = n
  BY <1>2
<1>4. \A s \in S \ {r} : Older(r, s)
  <2>. TAKE s \in S \ {r}
  <2>1. s.cycle >= r.cycle /\ (s.cycle = r.cycle => s.index >= r.index)
    BY <1>1, <1>2, <1>3
  <2>2. ~ (s.cycle = r.cycle /\ s.index = r.index)
    BY <1>3 DEF Single
  <2>. QED BY <1>3, <2>1, <2>2 DEF Older
<1>. QED BY <1>3, <1>4 DEF Oldest

(* What the steps outside of CollectOnce do *)

Still == UNCHANGED <<cycle, at, todo, index, memory, before, stateFile, savedAt, aborted, fullAt, collected, reported,
                     merges, unindexed, cursorFile>>
Looks == UNCHANGED <<rows, dead, queue>> /\ (peeked' = peeked \/ peeked' = {} \/ (peeked = {} /\ peeked' = queue))
Delivers(r) ==
  /\ rows' = rows \cup (r.items \ {Event}) /\ dead' = dead
  /\ \/ queue' = queue \ {r} /\ peeked' = peeked \ {r}
     \/ queue' = queue /\ peeked' = {}
Refuses(r) ==
  /\ r \in queue /\ rows' = rows /\ dead' = dead \cup {r} /\ queue' = queue \ {r} /\ peeked' = peeked \ {r}
First(r) == r \in peeked /\ \A s \in peeked \ {r} : Older(r, s)

Flushes == Peek \/ SendFails \/ Deliver \/ DeliverUnacknowledged \/ Refuse \/ HostChanges \/ LogGrows

LEMMA FlushDoes ==
  ASSUME RInv, Flushes \/ UNCHANGED vars
  PROVE  Still /\ (Looks \/ \E r : First(r) /\ (Delivers(r) \/ Refuses(r)))
<1>1. Still
  BY DEF Flushes, Peek, SendFails, Deliver, DeliverUnacknowledged, Refuse, HostChanges, LogGrows, vars, env, log, run, disk,
         spool, arrived, history, bounds, Still
<1>2. CASE Peek \/ SendFails \/ HostChanges \/ LogGrows \/ UNCHANGED vars
  BY <1>1, <1>2 DEF Peek, SendFails, HostChanges, LogGrows, vars, spool, arrived, Looks
<1>3. CASE Deliver \/ DeliverUnacknowledged \/ Refuse
  <2>1. peeked # {}
    BY <1>3 DEF Deliver, DeliverUnacknowledged, Refuse
  <2>2. \A r \in peeked : r.cycle \in Nat /\ r.index \in Nat
    BY DEF RInv, Stamped, Records
  <2>3. Single(peeked)
    BY DEF RInv, Numbered, Waiting, Single
  <2>4. PICK r : r = Oldest(peeked) /\ First(r)
    BY <2>1, <2>2, <2>3, OldestOK DEF First
  <2>5. CASE Deliver
    BY <1>1, <2>4, <2>5 DEF Deliver, Delivers
  <2>6. CASE DeliverUnacknowledged
    BY <1>1, <2>4, <2>6 DEF DeliverUnacknowledged, Delivers, spool
  <2>7. CASE Refuse
    BY <1>1, <2>4, <2>7 DEF Refuse, Refuses, Looks
  <2>. QED BY <1>3, <2>5, <2>6, <2>7
<1>. QED BY <1>2, <1>3 DEF Flushes

(* What a cycle collects *)

\* A report of the cycle that Collect begins.
IsReport(i, now) ==
  /\ i.key \in Keys /\ i.full = FullDue(now) /\ i.count = Cardinality(Present(host)) /\ i.payload = host[i.key]
  /\ (FullDue(now) /\ i.payload # Gone) \/ memory.cache[i.key] # host[i.key]
  /\ Stamp(i) /\ Batch(i) = now

LEMMA HalfOK == ASSUME NEW n \in Nat PROVE (2 * n) \div 2 = n /\ (2 * n + 1) \div 2 = n
  OBVIOUS

LEMMA StateOK ==
  ASSUME NEW k, NEW p, NEW full, NEW count, NEW now \in Nat, NEW late \in {0, 1}, late = 1 => SplitInstant
  PROVE  LET i == State(k, p, full, count, 2 * now + late) IN
         /\ i.kind = "state" /\ i.key = k /\ i.payload = p /\ i.full = full /\ i.count = count
         /\ Stamp(i) /\ Batch(i) = now
<1>1. (2 * now + late) \div 2 = now /\ 2 * now + late \in Nat
  BY HalfOK
<1>. QED BY <1>1 DEF State, Stamp, Batch

\* Whether the inventory is collected in the cycle that begins.
Counts(failed) == "inventory" \in {c \in Collectors : Due(c, cycle + 1)} \ failed

LEMMA CollectItems ==
  ASSUME TypeOK, NEW failed \in SUBSET Collectors, Collect(failed)
  PROVE  /\ ~ Counts(failed) => States(todo') = {}
         /\ Counts(failed) => /\ \A i \in States(todo') : IsReport(i, cycle + 1)
                              /\ \A k \in Keys : memory.cache[k] # host[k] \/ (FullDue(cycle + 1) /\ host[k] # Gone) =>
                                   \E i \in States(todo') : i.key = k
<1> DEFINE now == cycle + 1
           due == {c \in Collectors : Due(c, now)}
           A   == IF failed = {} THEN {} ELSE {Event}
           C   == IF "log" \in due \ failed THEN {Line(n) : n \in cursor + 1 .. PageEnd} ELSE {}
<1>1. PICK late \in IF SplitInstant THEN {0, 1} ELSE {0} :
        LET items == A \cup (IF Counts(failed) THEN Reports(host, now, late) ELSE {}) \cup C
        IN  todo' = IF items = {} THEN {Event} ELSE items
  BY DEF Collect, Counts
<1>2. late \in {0, 1} /\ (late = 1 => SplitInstant) /\ now \in Nat
  BY DEF TypeOK
<1>3. \A i \in A \cup C \cup {Event} : i.kind # "state"
  BY DEF Event, Line
<1>4. CASE ~ Counts(failed)
  <2>1. todo' \subseteq A \cup C \cup {Event}
    BY <1>1, <1>4
  <2>. QED BY <1>3, <1>4, <2>1 DEF States
<1>5. CASE Counts(failed)
  <2> DEFINE B == Reports(host, now, late)
             live(k) == State(k, host[k], FullDue(now), Cardinality(Present(host)), 2 * now)
             tomb(k) == State(k, Gone, FullDue(now), Cardinality(Present(host)), 2 * now + late)
  <2>1. /\ \A i \in B : \/ \E k \in {l \in Present(host) : FullDue(now) \/ memory.cache[l] # host[l]} : i = live(k)
                        \/ \E k \in Present(memory.cache) \ Present(host) : i = tomb(k)
        /\ \A k \in {l \in Present(host) : FullDue(now) \/ memory.cache[l] # host[l]} : live(k) \in B
        /\ \A k \in Present(memory.cache) \ Present(host) : tomb(k) \in B
    BY DEF Reports
  <2>2. \A i \in States(todo') : i \in B
    BY <1>1, <1>3, <1>5 DEF States
  <2>3. B \subseteq todo'
    BY <1>1, <1>5
  <2>4. ASSUME NEW k PROVE /\ live(k).kind = "state" /\ live(k).key = k /\ live(k).payload = host[k] /\ live(k).full = FullDue(now)
                           /\ live(k).count = Cardinality(Present(host)) /\ Stamp(live(k)) /\ Batch(live(k)) = now
    <3>1. 2 * now + 0 = 2 * now
      BY <1>2
    <3>. QED BY <1>2, <3>1, StateOK
  <2>5. ASSUME NEW k PROVE /\ tomb(k).kind = "state" /\ tomb(k).key = k /\ tomb(k).payload = Gone /\ tomb(k).full = FullDue(now)
                           /\ tomb(k).count = Cardinality(Present(host)) /\ Stamp(tomb(k)) /\ Batch(tomb(k)) = now
    BY <1>2, StateOK
  <2> HIDE DEF live, tomb, B
  <2>6. ASSUME NEW i \in States(todo') PROVE IsReport(i, now)
    <3>1. CASE \E k \in {l \in Present(host) : FullDue(now) \/ memory.cache[l] # host[l]} : i = live(k)
      BY <2>4, <3>1 DEF IsReport, Present
    <3>2. CASE \E k \in Present(memory.cache) \ Present(host) : i = tomb(k)
      BY <2>5, <3>2 DEF IsReport, Present
    <3>. QED BY <2>1, <2>2, <2>6, <3>1, <3>2
  <2>7. ASSUME NEW k \in Keys, memory.cache[k] # host[k] \/ (FullDue(now) /\ host[k] # Gone)
        PROVE  \E i \in States(todo') : i.key = k
    <3>1. CASE host[k] # Gone
      BY <2>1, <2>3, <2>4, <2>7, <3>1 DEF Present, States
    <3>2. CASE host[k] = Gone
      BY <2>1, <2>3, <2>5, <2>7, <3>2 DEF Present, States
    <3>. QED BY <3>1, <3>2
  <2>. QED BY <1>5, <2>6, <2>7
<1>. QED BY <1>4, <1>5

-------------------------------------------------------------------------------
(* One lemma for each kind of step: records keep their cycles and their order *)

LEMMA RInit == Init => RInv
<1>. SUFFICES ASSUME Init PROVE RInv
  OBVIOUS
<1>1. IInv
  BY IInit
<1>2. Stamped
  BY DEF Init, Stamped, Records, States
<1>3. Numbered /\ FromQueue
  BY DEF Init, Numbered, Single, Waiting, FromQueue
<1>4. Cycles
  BY CollectionAssumption DEF Init, Cycles
<1>. QED BY <1>1, <1>2, <1>3, <1>4 DEF RInv

LEMMA RCollect == ASSUME RInv, IInv', NEW failed \in SUBSET Collectors, Collect(failed) PROVE RInv'
<1>1. /\ cycle' = cycle + 1 /\ at = "idle" /\ at' = "push" /\ index' = 0 /\ cycle < MaxCycles
      /\ UNCHANGED <<queue, unindexed, peeked, rows, dead, aborted, merges, collected>>
  BY DEF Collect, spool, arrived, history
<1>2. cycle \in Nat /\ cycle' \in Nat
  BY <1>1 DEF RInv, Cycles
<1>3. \A i \in States(todo') : Stamp(i) /\ Batch(i) = cycle'
  <2>1. TypeOK
    BY DEF RInv, IInv
  <2>2. \A i \in States(todo') : IsReport(i, cycle + 1)
    BY <2>1, CollectItems
  <2>. QED BY <1>1, <2>2 DEF IsReport
<1>4. Stamped'
  <2>1. \A r \in Records' : /\ r.cycle \in 1..cycle' /\ r.index \in Nat
                            /\ \A i \in States(r.items) : Stamp(i) /\ Batch(i) = r.cycle
    BY <1>1, <1>2 DEF RInv, Stamped, Records
  <2>2. \A i \in States(rows') : Stamp(i) /\ Batch(i) \in 1..cycle'
    BY <1>1, <1>2 DEF RInv, Stamped
  <2>. QED BY <1>3, <2>1, <2>2 DEF Stamped, States
<1>5. Numbered'
  <2>1. \A r \in Waiting : r.cycle \in 1..cycle
    BY DEF RInv, Stamped, Records, Waiting
  <2>2. Waiting' = Waiting
    BY <1>1 DEF Waiting
  <2>3. \A r \in Waiting' : r.cycle # cycle'
    BY <1>1, <1>2, <2>1, <2>2
  <2>4. Single(Waiting')
    BY <2>2 DEF RInv, Numbered
  <2>. QED BY <2>3, <2>4 DEF Numbered, Single
<1>6. FromQueue'
  BY <1>1 DEF RInv, FromQueue
<1>7. Cycles'
  BY <1>1, <1>2, CollectionAssumption DEF RInv, Cycles
<1>. QED BY <1>4, <1>5, <1>6, <1>7 DEF RInv

LEMMA RTakeBack ==
  ASSUME RInv, IInv', TakeBack, at \in {"push", "undo"}, queue' \subseteq queue,
         \A r \in queue \ queue' : r.cycle = cycle,
         UNCHANGED <<cycle, unindexed, peeked, rows, dead, merges, collected>>
  PROVE  RInv'
<1>1. at' = "idle" /\ todo' = {} /\ aborted' = aborted \cup {cycle}
  BY DEF TakeBack
<1>2. Stamped'
  <2>1. Records' \subseteq Records
    BY DEF Records
  <2>2. \A r \in Records' : /\ r.cycle \in 1..cycle' /\ r.index \in Nat
                            /\ \A i \in States(r.items) : Stamp(i) /\ Batch(i) = r.cycle
    BY <2>1 DEF RInv, Stamped
  <2>3. \A i \in States(rows') : Stamp(i) /\ Batch(i) \in 1..cycle'
    BY DEF RInv, Stamped
  <2>. QED BY <1>1, <2>2, <2>3 DEF Stamped, States
<1>3. Numbered'
  <2>1. Waiting' \subseteq Waiting
    BY DEF Waiting
  <2>. QED BY <1>1, <2>1 DEF RInv, Numbered, Single
<1>4. FromQueue'
  BY <1>1 DEF RInv, FromQueue
<1>5. Cycles'
  BY <1>1 DEF RInv, Cycles
<1>. QED BY <1>2, <1>3, <1>4, <1>5 DEF RInv

LEMMA UndoTakes ==
  ASSUME Undo
  PROVE  /\ TakeBack /\ at = "undo" /\ queue' \subseteq queue /\ \A r \in queue \ queue' : r.cycle = cycle
         /\ UNCHANGED <<cycle, before, unindexed, peeked, rows, dead, merges, collected, reported, fullAt, savedAt, stateFile>>
  BY DEF Undo, arrived, disk

LEMMA UnchunkableTakes ==
  ASSUME Unchunkable
  PROVE  /\ TakeBack /\ at = "push" /\ index = 0
         /\ UNCHANGED <<queue, cycle, before, unindexed, peeked, rows, dead, merges, collected, reported, fullAt, savedAt, stateFile>>
  BY DEF Unchunkable, spool, arrived, disk

\* The next record of a cycle is a new one.
LEMMA NextIsNew ==
  ASSUME RInv, at = "push", NEW c \in Chunks
  PROVE  /\ c \subseteq todo
         /\ NextRecord(c).cycle = cycle /\ NextRecord(c).index = index /\ NextRecord(c).items = c
         /\ cycle \in 1..cycle /\ index \in Nat
         /\ \A i \in States(c) : Stamp(i) /\ Batch(i) = cycle
         /\ \A r \in Waiting : r.cycle = cycle => r.index < index
         /\ Single(Waiting \cup {NextRecord(c)})
         /\ NextRecord(c) \notin Waiting
<1>1. c \subseteq todo
  BY DEF Chunks
<1>2. NextRecord(c).cycle = cycle /\ NextRecord(c).index = index /\ NextRecord(c).items = c
  BY DEF NextRecord
<1>3. cycle \in 1..cycle /\ index \in Nat
  BY DEF RInv, Cycles, IInv, TypeOK
<1>4. \A i \in States(c) : Stamp(i) /\ Batch(i) = cycle
  BY <1>1 DEF RInv, Stamped, States
<1>5. \A r \in Waiting : r.cycle = cycle => r.index < index
  BY DEF RInv, Numbered
<1>6. NextRecord(c) \notin Waiting
  BY <1>2, <1>3, <1>5
<1>7. Single(Waiting \cup {NextRecord(c)})
  BY <1>2, <1>3, <1>5 DEF RInv, Numbered, Single
<1>. QED BY <1>1, <1>2, <1>3, <1>4, <1>5, <1>6, <1>7

LEMMA RPush == ASSUME RInv, IInv', Push PROVE RInv'
<1>1. PICK c \in Chunks : queue' = queue \cup {NextRecord(c)} /\ todo' = todo \ c
  BY DEF Push
<1>2. PICK n : n = NextRecord(c)
  OBVIOUS
<1>3. /\ at = "push" /\ at' \in {"push", "save"} /\ index' = index + 1
      /\ UNCHANGED <<cycle, unindexed, peeked, rows, dead, aborted, merges, collected>>
  BY DEF Push, arrived, history
<1>4. /\ n.cycle = cycle /\ n.index = index /\ n.items = c /\ cycle \in 1..cycle /\ index \in Nat
      /\ \A i \in States(c) : Stamp(i) /\ Batch(i) = cycle
      /\ \A r \in Waiting : r.cycle = cycle => r.index < index
      /\ Single(Waiting \cup {n}) /\ n \notin Waiting
  BY <1>2, <1>3, NextIsNew
<1>5. queue' = queue \cup {n}
  BY <1>1, <1>2
<1>6. Stamped'
  <2>1. Records' = Records \cup {n}
    BY <1>3, <1>5 DEF Records
  <2>2. \A r \in Records' : /\ r.cycle \in 1..cycle' /\ r.index \in Nat
                            /\ \A i \in States(r.items) : Stamp(i) /\ Batch(i) = r.cycle
    <3>. TAKE r \in Records'
    <3>1. CASE r = n
      BY <1>3, <1>4, <3>1
    <3>2. CASE r \in Records
      BY <1>3, <3>2 DEF RInv, Stamped
    <3>. QED BY <2>1, <3>1, <3>2
  <2>3. \A i \in States(rows') : Stamp(i) /\ Batch(i) \in 1..cycle'
    BY <1>3 DEF RInv, Stamped
  <2>4. \A i \in States(todo') : Stamp(i) /\ Batch(i) = cycle'
    BY <1>1, <1>3 DEF RInv, Stamped, States
  <2>. QED BY <2>2, <2>3, <2>4 DEF Stamped, States
<1>7. Numbered'
  <2>1. Waiting' = Waiting \cup {n}
    BY <1>3, <1>5 DEF Waiting
  <2>2. \A r \in Waiting' : r.cycle = cycle => r.index < index + 1
    <3>. TAKE r \in Waiting'
    <3>1. CASE r = n
      BY <1>4, <3>1
    <3>2. ASSUME r \in Waiting, r.cycle = cycle PROVE r.index < index + 1
      <4>1. r.index < index /\ r.index \in Nat
        BY <1>4, <3>2 DEF RInv, Stamped, Records, Waiting
      <4>. QED BY <1>4, <4>1
    <3>. QED BY <2>1, <3>1, <3>2
  <2>. QED BY <1>3, <1>4, <2>1, <2>2 DEF Numbered, Single
<1>8. FromQueue'
  <2>1. \A r \in peeked' : r \in queue' \/ r.cycle \in aborted'
    BY <1>3, <1>5 DEF RInv, FromQueue
  <2>2. \A r \in unindexed' : r.cycle \in aborted' \/ (r.cycle = cycle' /\ at' = "undo")
    BY <1>3 DEF RInv, FromQueue
  <2>3. ASSUME NEW r \in peeked', NEW s \in queue', s.cycle = r.cycle, s.index < r.index, r \in queue'
        PROVE  s \in peeked'
    <3>1. r \in peeked /\ r \in Waiting /\ r \in queue
      BY <1>3, <1>4, <1>5, <2>3 DEF Waiting
    <3>2. r.index \in Nat
      BY <3>1 DEF RInv, Stamped, Records, Waiting
    <3>3. s # n
      BY <1>4, <2>3, <3>1, <3>2
    <3>. QED BY <1>3, <1>5, <2>3, <3>1, <3>3 DEF RInv, FromQueue
  <2>. QED BY <2>1, <2>2, <2>3 DEF FromQueue
<1>9. Cycles'
  BY <1>3 DEF RInv, Cycles
<1>. QED BY <1>6, <1>7, <1>8, <1>9 DEF RInv

LEMMA RPushFails == ASSUME RInv, IInv', PushFails PROVE RInv'
<1>1. /\ at = "push" /\ at' = "undo"
      /\ UNCHANGED <<cycle, todo, queue, peeked, rows, dead, aborted, merges, collected>>
  BY DEF PushFails, arrived, history
<1>2. PICK N : /\ unindexed' = unindexed \cup N
               /\ N = {} \/ \E c \in Chunks : N = {NextRecord(c)}
  <2>1. CASE unindexed' = unindexed
    BY <2>1
  <2>2. CASE \E c \in Chunks : unindexed' = unindexed \cup {NextRecord(c)}
    BY <2>2
  <2>. QED BY <2>1, <2>2 DEF PushFails
<1>3. /\ \A n \in N : /\ n.cycle = cycle /\ n.index \in Nat /\ cycle \in 1..cycle
                      /\ \A i \in States(n.items) : Stamp(i) /\ Batch(i) = cycle
      /\ Single(Waiting \cup N)
  <2>1. CASE N = {}
    BY <2>1 DEF RInv, Numbered
  <2>2. ASSUME NEW c \in Chunks, N = {NextRecord(c)}
        PROVE  /\ \A n \in N : /\ n.cycle = cycle /\ n.index \in Nat /\ cycle \in 1..cycle
                               /\ \A i \in States(n.items) : Stamp(i) /\ Batch(i) = cycle
               /\ Single(Waiting \cup N)
    BY <1>1, <2>2, NextIsNew
  <2>. QED BY <1>2, <2>1, <2>2
<1>4. Stamped'
  <2>1. Records' = Records \cup N
    BY <1>1, <1>2 DEF Records
  <2>2. \A r \in Records' : /\ r.cycle \in 1..cycle' /\ r.index \in Nat
                            /\ \A i \in States(r.items) : Stamp(i) /\ Batch(i) = r.cycle
    <3>. TAKE r \in Records'
    <3>1. CASE r \in N
      BY <1>1, <1>3, <3>1
    <3>2. CASE r \in Records
      BY <1>1, <3>2 DEF RInv, Stamped
    <3>. QED BY <2>1, <3>1, <3>2
  <2>3. \A i \in States(rows') : Stamp(i) /\ Batch(i) \in 1..cycle'
    BY <1>1 DEF RInv, Stamped
  <2>4. \A i \in States(todo') : Stamp(i) /\ Batch(i) = cycle'
    BY <1>1 DEF RInv, Stamped
  <2>. QED BY <2>2, <2>3, <2>4 DEF Stamped, States
<1>5. Numbered'
  <2>1. Waiting' = Waiting \cup N
    BY <1>1, <1>2 DEF Waiting
  <2>. QED BY <1>1, <1>3, <2>1 DEF Numbered, Single
<1>6. FromQueue'
  BY <1>1, <1>2, <1>3 DEF RInv, FromQueue
<1>7. Cycles'
  BY <1>1 DEF RInv, Cycles
<1>. QED BY <1>4, <1>5, <1>6, <1>7 DEF RInv

\* Saving and committing leave the records alone.
LEMMA REnds == ASSUME RInv, IInv', Save \/ SaveFails \/ Commit \/ CommitFails PROVE RInv'
<1>1. /\ at \in {"save", "commit"} /\ at' \in {"undo", "commit", "idle"}
      /\ UNCHANGED <<cycle, todo, queue, unindexed, peeked, rows, dead, aborted, merges>>
      /\ collected' = collected \/ collected' = [collected EXCEPT ![cycle] = Present(memory.cache)]
  BY DEF Save, SaveFails, Commit, CommitFails, Return, Committed, spool, arrived, history
<1>2. Stamped'
  <2>1. \A r \in Records' : /\ r.cycle \in 1..cycle' /\ r.index \in Nat
                            /\ \A i \in States(r.items) : Stamp(i) /\ Batch(i) = r.cycle
    BY <1>1 DEF RInv, Stamped, Records
  <2>2. \A i \in States(rows') : Stamp(i) /\ Batch(i) \in 1..cycle'
    BY <1>1 DEF RInv, Stamped
  <2>3. \A i \in States(todo') : Stamp(i) /\ Batch(i) = cycle'
    BY <1>1 DEF RInv, Stamped
  <2>. QED BY <2>1, <2>2, <2>3 DEF Stamped, States
<1>3. Numbered' /\ FromQueue'
  BY <1>1 DEF RInv, Numbered, Single, Waiting, FromQueue
<1>4. Cycles'
  <2>1. Present(memory.cache) \subseteq Keys
    BY DEF Present
  <2>. QED BY <1>1, <2>1 DEF RInv, Cycles, IInv, TodoDone
<1>. QED BY <1>2, <1>3, <1>4 DEF RInv

LEMMA RFlush == ASSUME RInv, IInv', Flushes \/ UNCHANGED vars PROVE RInv'
<1>1. Still /\ (Looks \/ \E r : First(r) /\ (Delivers(r) \/ Refuses(r)))
  BY FlushDoes
<1>2. Records' \subseteq Records /\ Waiting' \subseteq Waiting
  BY <1>1 DEF Still, Looks, Delivers, Refuses, First, Records, Waiting
<1>3. \A i \in States(rows') : i \in States(rows) \/ \E r \in Records : i \in States(r.items)
  BY <1>1 DEF Looks, Delivers, Refuses, First, Records, States
<1>4. Stamped'
  <2>1. \A r \in Records' : /\ r.cycle \in 1..cycle' /\ r.index \in Nat
                            /\ \A i \in States(r.items) : Stamp(i) /\ Batch(i) = r.cycle
    BY <1>1, <1>2 DEF RInv, Stamped, Still
  <2>2. \A i \in States(rows') : Stamp(i) /\ Batch(i) \in 1..cycle'
    BY <1>1, <1>3 DEF RInv, Stamped, Still
  <2>3. \A i \in States(todo') : Stamp(i) /\ Batch(i) = cycle'
    BY <1>1 DEF RInv, Stamped, Still
  <2>. QED BY <2>1, <2>2, <2>3 DEF Stamped, States
<1>5. Numbered'
  BY <1>1, <1>2 DEF RInv, Numbered, Single, Still
<1>6. FromQueue'
  <2>1. CASE Looks
    BY <1>1, <2>1 DEF RInv, FromQueue, Looks, Still
  <2>2. ASSUME NEW r, First(r), Delivers(r) \/ Refuses(r) PROVE FromQueue'
    BY <1>1, <2>2 DEF RInv, FromQueue, First, Delivers, Refuses, Still
  <2>. QED BY <1>1, <2>1, <2>2
<1>7. Cycles'
  BY <1>1 DEF RInv, Cycles, Still
<1>. QED BY <1>4, <1>5, <1>6, <1>7 DEF RInv

LEMMA RCrash == ASSUME RInv, IInv', Crash PROVE RInv'
<1>1. /\ at' = "idle" /\ todo' = {} /\ peeked' = {} /\ queue' = queue \cup unindexed /\ unindexed' = {}
      /\ aborted' = IF at \in {"push", "save", "undo"} THEN aborted \cup {cycle} ELSE aborted
      /\ UNCHANGED <<cycle, rows, dead, merges, collected>>
  BY DEF Crash, arrived
<1>2. Stamped'
  <2>1. Records' \subseteq Records
    BY <1>1 DEF Records
  <2>2. \A r \in Records' : /\ r.cycle \in 1..cycle' /\ r.index \in Nat
                            /\ \A i \in States(r.items) : Stamp(i) /\ Batch(i) = r.cycle
    BY <1>1, <2>1 DEF RInv, Stamped
  <2>3. \A i \in States(rows') : Stamp(i) /\ Batch(i) \in 1..cycle'
    BY <1>1 DEF RInv, Stamped
  <2>. QED BY <1>1, <2>2, <2>3 DEF Stamped, States
<1>3. Numbered'
  <2>1. Waiting' \subseteq Waiting
    BY <1>1 DEF Waiting
  <2>. QED BY <1>1, <2>1 DEF RInv, Numbered, Single
<1>4. FromQueue'
  BY <1>1 DEF RInv, FromQueue
<1>5. Cycles'
  BY <1>1 DEF RInv, Cycles, IInv, TypeOK
<1>. QED BY <1>2, <1>3, <1>4, <1>5 DEF RInv

LEMMA MergeDoes ==
  ASSUME Merge
  PROVE  /\ merges' = merges + 1
         /\ \E r, s \in States(rows) : r.key = s.key /\ r.time < s.time /\ rows' = rows \ {r}
         /\ UNCHANGED <<cycle, at, todo, index, memory, before, stateFile, savedAt, aborted, fullAt, collected, reported,
                        unindexed, cursorFile, queue, peeked, dead>>
  BY DEF Merge, log, run, disk, spool

LEMMA RMerge == ASSUME RInv, IInv', Merge PROVE RInv'
<1>1. merges' = merges + 1 /\ rows' \subseteq rows
  BY MergeDoes
<1>2. UNCHANGED <<cycle, at, todo, index, queue, unindexed, peeked, dead, aborted, collected>>
  BY MergeDoes
<1>3. Stamped'
  <2>1. \A r \in Records' : /\ r.cycle \in 1..cycle' /\ r.index \in Nat
                            /\ \A i \in States(r.items) : Stamp(i) /\ Batch(i) = r.cycle
    BY <1>2 DEF RInv, Stamped, Records
  <2>2. \A i \in States(rows') : Stamp(i) /\ Batch(i) \in 1..cycle'
    BY <1>1, <1>2 DEF RInv, Stamped, States
  <2>3. \A i \in States(todo') : Stamp(i) /\ Batch(i) = cycle'
    BY <1>2 DEF RInv, Stamped
  <2>. QED BY <2>1, <2>2, <2>3 DEF Stamped, States
<1>4. Numbered' /\ FromQueue' /\ Cycles'
  BY <1>1, <1>2 DEF RInv, Numbered, Single, Waiting, FromQueue, Cycles
<1>. QED BY <1>3, <1>4 DEF RInv

LEMMA RStep == ASSUME RInv, [Next]_vars PROVE RInv'
<1>1. IInv'
  BY IStep DEF RInv
<1>2. ASSUME NEW failed \in SUBSET Collectors, Collect(failed) PROVE RInv'
  BY <1>1, <1>2, RCollect
<1>3. CASE Unchunkable
  BY <1>1, <1>3, UnchunkableTakes, RTakeBack
<1>4. CASE Undo
  BY <1>1, <1>4, UndoTakes, RTakeBack
<1>5. CASE Push \/ PushFails
  BY <1>1, <1>5, RPush, RPushFails
<1>6. CASE Save \/ SaveFails \/ Commit \/ CommitFails
  BY <1>1, <1>6, REnds
<1>7. CASE Flushes \/ UNCHANGED vars
  BY <1>1, <1>7, RFlush
<1>8. CASE Crash \/ Merge
  BY <1>1, <1>8, RCrash, RMerge
<1>. QED BY <1>2, <1>3, <1>4, <1>5, <1>6, <1>7, <1>8 DEF Next, Flushes

-------------------------------------------------------------------------------
(* Full snapshots: what they count, and that their tombstones come last *)

Running == at \in {"push", "undo", "save"}

\* The entries of the inventory that cycle b collected, if it is not taken back.
PresentAt(b) == IF b = cycle /\ at \in {"push", "save"} THEN Present(memory.cache) ELSE collected[b]
Counting(b) == b \notin aborted /\ (at = "undo" => b # cycle) /\ b >= 1
Reported == todo \cup Enqueued

Uncounted == \A b \in 1..MaxCycles : b > cycle \/ (b = cycle /\ Running) => collected[b] = {}

FullCounts ==
  \A i \in States(Reported) : i.full /\ Counting(Batch(i)) =>
    /\ i.count = Cardinality(PresentAt(Batch(i)))
    /\ i.payload # Gone => i.key \in PresentAt(Batch(i))

Arrived(k, b) == \E r \in States(rows) : r.key = k /\ r.time >= 2 * b
Tomb(i, b) == i.kind = "state" /\ i.full /\ i.payload = Gone /\ Batch(i) = b
Live(i, k, b) == i.kind = "state" /\ i.full /\ i.payload # Gone /\ i.key = k /\ Batch(i) = b

\* Where a tombstone of a full snapshot is, each entry of it is or has been, or
\* something newer.
TombInRows(k, b) == (\E i \in rows : Tomb(i, b)) => Arrived(k, b)
TombInQueue(k, b) ==
  \A s \in queue : (\E i \in s.items : Tomb(i, b)) =>
     Arrived(k, b) \/ \E r \in queue : r.cycle = b /\ r.index <= s.index /\ \E i \in r.items : Live(i, k, b)
TombToCome(k, b) ==
  (\E i \in todo : Tomb(i, b)) => Arrived(k, b) \/ \E i \in todo \cup Contents(queue) : Live(i, k, b)
Ordered ==
  \A b \in 1..cycle : Counting(b) /\ (\A d \in dead : d.cycle # b) =>
    \A k \in PresentAt(b) : TombInRows(k, b) /\ TombInQueue(k, b) /\ TombToCome(k, b)

WInv == RInv /\ Uncounted /\ FullCounts /\ Ordered

LEMMA WInit == Init => WInv
<1>. SUFFICES ASSUME Init PROVE WInv
  OBVIOUS
<1>1. Reported = {} /\ cycle = 0 /\ todo = {} /\ queue = {} /\ rows = {} /\ collected = [c \in 1..MaxCycles |-> {}]
  BY DEF Init, Reported, Enqueued, Contents
<1>2. Uncounted
  BY <1>1 DEF Uncounted
<1>3. FullCounts
  BY <1>1 DEF FullCounts, States
<1>4. Ordered
  BY <1>1 DEF Ordered
<1>. QED BY RInit, <1>2, <1>3, <1>4 DEF WInv

\* The batches of what is in the queue and in the store.
LEMMA BatchOf ==
  ASSUME RInv
  PROVE  /\ \A r \in Records : \A i \in r.items : i.kind = "state" => Batch(i) = r.cycle /\ Stamp(i)
         /\ \A i \in rows : i.kind = "state" => Batch(i) \in 1..cycle /\ Stamp(i)
         /\ \A i \in todo : i.kind = "state" => Batch(i) = cycle /\ Stamp(i)
  BY DEF RInv, Stamped, States

LEMMA InEnqueued == ASSUME NEW i
                    PROVE  i \in Enqueued <=> i \in rows \/ \E r \in queue \cup dead : i \in r.items
  BY DEF Enqueued, Contents

\* A row of a batch is as new as the batch.
LEMMA StampedNew == ASSUME NEW i, Stamp(i) PROVE i.time \in Nat /\ i.time >= 2 * Batch(i) /\ i.time <= 2 * Batch(i) + 1
<1>. QED BY DEF Stamp, Batch

LEMMA LiveArrives == ASSUME NEW i \in rows', NEW k, NEW b, Live(i, k, b), Stamp(i) PROVE Arrived(k, b)'
  BY StampedNew DEF Live, Arrived, States

LEMMA ArrivedStays == ASSUME rows \subseteq rows', NEW k, NEW b, Arrived(k, b) PROVE Arrived(k, b)'
  BY DEF Arrived, States

\* What is reported and counts is still reported and counted, or it is new.
LEMMA WCollect == ASSUME WInv, RInv', NEW failed \in SUBSET Collectors, Collect(failed) PROVE WInv'
<1>. USE DEF WInv
<1>1. /\ cycle' = cycle + 1 /\ at = "idle" /\ at' = "push" /\ cycle \in Nat /\ cycle < MaxCycles
      /\ UNCHANGED <<queue, rows, dead, aborted, collected>>
  BY DEF Collect, spool, arrived, history, RInv, Cycles
<1>2. /\ ~ Counts(failed) => States(todo') = {}
      /\ Counts(failed) => /\ \A i \in States(todo') : IsReport(i, cycle + 1)
                           /\ \A k \in Keys : FullDue(cycle + 1) /\ host[k] # Gone => \E i \in States(todo') : i.key = k
  BY CollectItems DEF RInv, IInv
<1>3. Counts(failed) => memory'.cache = host
  BY DEF Collect, Counts, Filtered, Noted
<1>4. \A b \in 1..cycle : (Counting(b)' <=> Counting(b)) /\ PresentAt(b)' = PresentAt(b)
  BY <1>1 DEF Counting, PresentAt
<1>5. Enqueued' = Enqueued
  BY <1>1 DEF Enqueued, Contents
<1>6. Uncounted'
  BY <1>1 DEF Uncounted
<1>7. FullCounts'
  <2>. SUFFICES ASSUME NEW i, i \in States(Reported'), i.full, Counting(Batch(i))'
                PROVE  /\ i.count = Cardinality(PresentAt(Batch(i))')
                       /\ i.payload # Gone => i.key \in PresentAt(Batch(i))'
    BY DEF FullCounts
  <2>1. CASE i \in todo'
    <3>1. i \in States(todo')
      BY <2>1 DEF States
    <3>2. Counts(failed) /\ IsReport(i, cycle + 1)
      BY <1>2, <3>1
    <3>3. PresentAt(Batch(i))' = Present(host)
      BY <1>1, <1>3, <3>2 DEF IsReport, PresentAt
    <3>. QED BY <3>2, <3>3 DEF IsReport, Present
  <2>2. CASE i \in Enqueued
    <3>1. Batch(i) \in 1..cycle
      <4>1. i.kind = "state"
        BY DEF States
      <4>2. \A r \in queue \cup dead : r.cycle \in 1..cycle
        BY DEF RInv, Stamped, Records
      <4>. QED BY <2>2, <4>1, <4>2, InEnqueued, BatchOf DEF Records
    <3>2. Counting(Batch(i)) /\ PresentAt(Batch(i))' = PresentAt(Batch(i))
      BY <1>4, <3>1
    <3>3. i \in States(Reported)
      BY <2>2 DEF States, Reported
    <3>. QED BY <3>2, <3>3 DEF FullCounts
  <2>. QED BY <1>5, <2>1, <2>2 DEF States, Reported
<1>8. Ordered'
  <2>. SUFFICES ASSUME NEW b \in 1..cycle', Counting(b)', \A d \in dead' : d.cycle # b, NEW k \in PresentAt(b)'
                PROVE  (TombInRows(k, b) /\ TombInQueue(k, b) /\ TombToCome(k, b))'
    BY DEF Ordered
  <2>1. CASE b \in 1..cycle
    <3>1. TombInRows(k, b) /\ TombInQueue(k, b)
      BY <1>1, <1>4, <2>1 DEF Ordered
    <3>2. \A i \in todo' : ~ Tomb(i, b)
      <4>1. \A i \in States(todo') : Batch(i) = cycle'
        BY DEF RInv, Stamped
      <4>. QED BY <1>1, <2>1, <4>1 DEF Tomb, States
    <3>. QED BY <1>1, <3>1, <3>2 DEF TombInRows, TombInQueue, TombToCome, Arrived
  <2>2. CASE b = cycle + 1
    <3>1. (\A i \in rows : ~ Tomb(i, b)) /\ (\A s \in queue : \A i \in s.items : ~ Tomb(i, b))
      <4>1. \A r \in queue : r.cycle \in 1..cycle
        BY DEF RInv, Stamped, Records
      <4>. QED BY <1>1, <2>2, <4>1, BatchOf DEF Tomb, Records
    <3>2. ASSUME NEW i \in todo', Tomb(i, b) PROVE \E j \in todo' : Live(j, k, b)
      <4>1. i \in States(todo')
        BY <3>2 DEF Tomb, States
      <4>2. Counts(failed) /\ IsReport(i, cycle + 1) /\ i.full
        BY <1>2, <3>2, <4>1 DEF Tomb
      <4>3. FullDue(cycle + 1)
        BY <4>2 DEF IsReport
      <4>4. k \in Keys /\ host[k] # Gone
        BY <1>1, <1>3, <2>2, <4>2 DEF PresentAt, Present
      <4>5. PICK j \in States(todo') : j.key = k
        BY <1>2, <4>2, <4>3, <4>4
      <4>6. IsReport(j, cycle + 1)
        BY <1>2, <4>2
      <4>7. j.full /\ j.payload # Gone /\ Batch(j) = b
        BY <2>2, <4>3, <4>4, <4>5, <4>6 DEF IsReport
      <4>. QED BY <4>5, <4>7 DEF Live, States
    <3>3. TombInRows(k, b)' /\ TombInQueue(k, b)'
      BY <1>1, <3>1 DEF TombInRows, TombInQueue
    <3>4. TombToCome(k, b)'
      BY <3>2 DEF TombToCome
    <3>. QED BY <3>3, <3>4
  <2>. QED BY <1>1, <2>1, <2>2
<1>. QED BY <1>6, <1>7, <1>8

\* A batch that counts after a step within or at the end of a cycle counted
\* before it, and has the same entries.
SameCounts == \A b \in 1..cycle : Counting(b)' => Counting(b) /\ PresentAt(b)' = PresentAt(b)

LEMMA CountsSame ==
  ASSUME RInv, cycle' = cycle, aborted \subseteq aborted',
         \/ at' = at /\ memory' = memory /\ collected' = collected
         \/ at = "push" /\ at' = "save" /\ memory' = memory /\ collected' = collected
         \/ at = "commit" /\ at' = "idle" /\ collected' = collected
         \/ at' = "undo" /\ collected' = collected
         \/ at' = "idle" /\ collected' = collected /\ (Running => cycle \in aborted')
         \/ at = "save" /\ at' = "commit" /\ collected' = [collected EXCEPT ![cycle] = Present(memory.cache)]
  PROVE  SameCounts
<1>. SUFFICES ASSUME NEW b \in 1..cycle, Counting(b)' PROVE Counting(b) /\ PresentAt(b)' = PresentAt(b)
  BY DEF SameCounts
<1>1. Counting(b)
  BY DEF Counting, Running
<1>2. collected \in [1..MaxCycles -> SUBSET Keys] /\ cycle \in 0..MaxCycles
  BY DEF RInv, Cycles
<1>3. b \in 1..MaxCycles
  BY <1>2, CollectionAssumption
<1>. QED BY <1>1, <1>2, <1>3 DEF Counting, PresentAt, Running

\* Steps that report nothing new.
LEMMA FullCountsStay ==
  ASSUME RInv, FullCounts, cycle' = cycle, SameCounts,
         \A i \in Reported' : i \in Reported \/ (i.kind = "state" => Batch(i) \in aborted'),
         \A i \in Reported : i.kind = "state" => Batch(i) \in 1..cycle
  PROVE  FullCounts'
<1>. SUFFICES ASSUME NEW i, i \in States(Reported'), i.full, Counting(Batch(i))'
              PROVE  /\ i.count = Cardinality(PresentAt(Batch(i))')
                     /\ i.payload # Gone => i.key \in PresentAt(Batch(i))'
  BY DEF FullCounts
<1>1. i.kind = "state" /\ i \in Reported
  BY DEF States, Counting
<1>2. Counting(Batch(i)) /\ PresentAt(Batch(i))' = PresentAt(Batch(i))
  BY <1>1 DEF SameCounts
<1>3. i \in States(Reported)
  BY <1>1 DEF States
<1>. QED BY <1>2, <1>3 DEF FullCounts

LEMMA ReportedPast == ASSUME RInv PROVE \A i \in Reported : i.kind = "state" => Batch(i) \in 1..cycle
<1>1. \A r \in queue \cup dead : r.cycle \in 1..cycle
  BY DEF RInv, Stamped, Records
<1>2. todo # {} => cycle \in 1..cycle
  BY DEF RInv, Cycles
<1>. QED BY <1>1, <1>2, BatchOf, InEnqueued DEF Reported, Records

\* Steps that leave the store and the dead letters alone, and take from the queue
\* or add to it what does not count.
LEMMA OrderedRests ==
  ASSUME RInv, Ordered, SameCounts, UNCHANGED <<cycle, rows, dead>>, todo' = todo \/ todo' = {},
         todo' # {} => queue \subseteq queue',
         \A r \in queue \ queue' : r.cycle \in aborted',
         \A r \in queue' \ queue : r \in Records /\ r.cycle \in aborted'
  PROVE  Ordered'
<1>. SUFFICES ASSUME NEW b \in 1..cycle', Counting(b)', \A d \in dead' : d.cycle # b, NEW k \in PresentAt(b)'
              PROVE  (TombInRows(k, b) /\ TombInQueue(k, b) /\ TombToCome(k, b))'
  BY DEF Ordered
<1>1. b \notin aborted' /\ Counting(b) /\ k \in PresentAt(b)
  BY DEF Counting, SameCounts
<1>2. TombInRows(k, b) /\ TombInQueue(k, b) /\ TombToCome(k, b)
  BY <1>1 DEF Ordered
<1>3. Arrived(k, b)' <=> Arrived(k, b)
  BY DEF Arrived
<1>4. TombInRows(k, b)'
  BY <1>2, <1>3 DEF TombInRows
<1>5. TombInQueue(k, b)'
  <2>. SUFFICES ASSUME NEW s \in queue', NEW i \in s.items, Tomb(i, b), ~ Arrived(k, b)
                PROVE  \E r \in queue' : r.cycle = b /\ r.index <= s.index /\ \E j \in r.items : Live(j, k, b)
    BY <1>3 DEF TombInQueue
  <2>1. s \in queue
    BY <1>1, BatchOf DEF Tomb
  <2>2. PICK r \in queue : r.cycle = b /\ r.index <= s.index /\ \E j \in r.items : Live(j, k, b)
    BY <1>2, <2>1 DEF TombInQueue
  <2>3. r \in queue'
    BY <1>1, <2>2
  <2>. QED BY <2>2, <2>3
<1>6. TombToCome(k, b)'
  <2>1. CASE todo' = {}
    BY <2>1 DEF TombToCome
  <2>2. CASE todo' = todo /\ todo' # {}
    BY <1>2, <1>3, <2>2 DEF TombToCome, Contents
  <2>. QED BY <2>1, <2>2
<1>. QED BY <1>4, <1>5, <1>6

LEMMA WRests ==
  ASSUME WInv, RInv', UNCHANGED <<cycle, rows, dead>>, todo' = todo \/ todo' = {}, aborted \subseteq aborted',
         todo' # {} => queue \subseteq queue',
         \A r \in queue \ queue' : r.cycle \in aborted',
         \A r \in queue' \ queue : r \in Records /\ r.cycle \in aborted',
         \/ at = "commit" /\ at' = "idle" /\ collected' = collected
         \/ Running /\ at' = "undo" /\ collected' = collected
         \/ at' = "idle" /\ collected' = collected /\ (Running => cycle \in aborted')
         \/ at = "save" /\ at' = "commit" /\ collected' = [collected EXCEPT ![cycle] = Present(memory.cache)]
  PROVE  WInv'
<1>1. SameCounts
  BY CountsSame DEF WInv
<1>2. Ordered'
  BY <1>1, OrderedRests DEF WInv
<1>3. \A i \in Reported' : i \in Reported \/ (i.kind = "state" => Batch(i) \in aborted')
  <2>. TAKE i \in Reported'
  <2>1. CASE i \in todo' \/ i \in rows' \/ \E r \in dead' : i \in r.items
    BY <2>1, InEnqueued DEF Reported
  <2>2. ASSUME NEW r \in queue', i \in r.items PROVE i \in Reported \/ (i.kind = "state" => Batch(i) \in aborted')
    <3>1. CASE r \in queue
      BY <2>2, <3>1, InEnqueued DEF Reported
    <3>2. CASE r \notin queue
      BY <2>2, <3>2, BatchOf DEF WInv
    <3>. QED BY <3>1, <3>2
  <2>3. Enqueued' = rows' \cup Contents(queue' \cup dead')
    BY DEF Enqueued, Contents
  <2>. QED BY <2>1, <2>2, <2>3 DEF Reported, Contents
<1>4. FullCounts'
  BY <1>1, <1>3, ReportedPast, FullCountsStay DEF WInv
<1>5. Uncounted'
  <2>. SUFFICES ASSUME NEW b \in 1..MaxCycles, b > cycle' \/ (b = cycle' /\ Running') PROVE collected'[b] = {}
    BY DEF Uncounted
  <2>1. collected[b] = {}
    BY DEF WInv, Uncounted, Running
  <2>2. b # cycle \/ collected' = collected
    BY DEF Running, WInv, RInv, Cycles
  <2>. QED BY <2>1, <2>2 DEF WInv, RInv, Cycles
<1>. QED BY <1>2, <1>4, <1>5 DEF WInv

LEMMA WPush == ASSUME WInv, RInv', Push PROVE WInv'
<1>. USE DEF WInv
<1>1. PICK c \in Chunks : queue' = queue \cup {NextRecord(c)} /\ todo' = todo \ c
  BY DEF Push
<1>2. PICK n : n = NextRecord(c)
  OBVIOUS
<1>3. /\ at = "push" /\ at' \in {"push", "save"}
      /\ UNCHANGED <<cycle, memory, rows, dead, aborted, collected>>
  BY DEF Push, arrived, history
<1>4. /\ c \subseteq todo /\ n.cycle = cycle /\ n.index = index /\ n.items = c /\ index \in Nat
      /\ \A r \in Waiting : r.cycle = cycle => r.index < index
  BY <1>2, <1>3, NextIsNew
<1>5. queue' = queue \cup {n}
  BY <1>1, <1>2
<1>6. SameCounts
  BY <1>3, CountsSame
<1>7. FullCounts'
  <2>1. Reported' \subseteq Reported
    <3>1. Enqueued' = rows' \cup Contents(queue' \cup dead')
      BY DEF Enqueued, Contents
    <3>2. \A i \in Contents(queue' \cup dead') : i \in c \/ i \in Contents(queue \cup dead)
      BY <1>3, <1>4, <1>5 DEF Contents
    <3>. QED BY <1>1, <1>3, <1>4, <3>1, <3>2 DEF Reported, Enqueued
  <2>. QED BY <1>3, <1>6, <2>1, ReportedPast, FullCountsStay
<1>8. Uncounted'
  BY <1>3 DEF Uncounted, Running
<1>9. Ordered'
  <2>. SUFFICES ASSUME NEW b \in 1..cycle', Counting(b)', \A d \in dead' : d.cycle # b, NEW k \in PresentAt(b)'
                PROVE  (TombInRows(k, b) /\ TombInQueue(k, b) /\ TombToCome(k, b))'
    BY DEF Ordered
  <2>1. Counting(b) /\ k \in PresentAt(b)
    BY <1>3, <1>6 DEF SameCounts
  <2>2. TombInRows(k, b) /\ TombInQueue(k, b) /\ TombToCome(k, b)
    BY <1>3, <2>1 DEF Ordered
  <2>3. Arrived(k, b)' <=> Arrived(k, b)
    BY <1>3 DEF Arrived
  <2>4. TombInRows(k, b)'
    BY <1>3, <2>2, <2>3 DEF TombInRows
  <2>5. TombInQueue(k, b)'
    <3>. SUFFICES ASSUME NEW s \in queue', NEW i \in s.items, Tomb(i, b), ~ Arrived(k, b)
                  PROVE  \E r \in queue' : r.cycle = b /\ r.index <= s.index /\ \E j \in r.items : Live(j, k, b)
      BY <2>3 DEF TombInQueue
    <3>1. CASE s \in queue
      BY <1>5, <2>2, <3>1 DEF TombInQueue
    <3>2. CASE s = n
      <4>1. i \in c /\ i \in todo
        BY <1>4, <3>2
      <4>2. b = cycle
        BY <4>1, BatchOf DEF Tomb
      <4>3. PICK j \in todo \cup Contents(queue) : Live(j, k, b)
        BY <2>2, <4>1 DEF TombToCome
      <4>4. CASE j \in todo
        <5>1. Rank(i) = 2 /\ Rank(j) = 1
          BY <4>3 DEF Rank, Tomb, Live
        <5>2. j \in c
          BY <4>1, <4>4, <5>1 DEF Chunks
        <5>. QED BY <1>4, <1>5, <3>2, <4>2, <4>3, <5>2
      <4>5. ASSUME NEW r \in queue, j \in r.items
            PROVE  \E q \in queue' : q.cycle = b /\ q.index <= s.index /\ \E l \in q.items : Live(l, k, b)
        <5>1. r.cycle = b
          BY <4>3, <4>5, BatchOf DEF Live, Records
        <5>2. r.index < index /\ r.index \in Nat
          BY <1>4, <4>2, <4>5, <5>1 DEF Waiting, Records, RInv, Stamped
        <5>. QED BY <1>4, <1>5, <3>2, <4>3, <4>5, <5>1, <5>2
      <4>. QED BY <4>4, <4>5 DEF Contents
    <3>. QED BY <1>5, <3>1, <3>2
  <2>6. TombToCome(k, b)'
    <3>1. todo \cup Contents(queue) \subseteq todo' \cup Contents(queue')
      BY <1>1, <1>4, <1>5 DEF Contents
    <3>. QED BY <1>1, <2>2, <2>3, <3>1 DEF TombToCome
  <2>. QED BY <2>4, <2>5, <2>6
<1>. QED BY <1>7, <1>8, <1>9

LEMMA WFlush == ASSUME WInv, RInv', Flushes \/ UNCHANGED vars PROVE WInv'
<1>. USE DEF WInv
<1>1. Still /\ (Looks \/ \E r : First(r) /\ (Delivers(r) \/ Refuses(r)))
  BY FlushDoes
<1>2. SameCounts
  BY <1>1, CountsSame DEF Still
<1>3. Uncounted'
  BY <1>1 DEF Uncounted, Running, Still
<1>4. CASE Looks
  <2>1. Reported' = Reported
    BY <1>1, <1>4 DEF Still, Looks, Reported, Enqueued, Contents
  <2>2. FullCounts'
    BY <1>1, <1>2, <2>1, ReportedPast, FullCountsStay DEF Still
  <2>3. Ordered'
    BY <1>1, <1>2, <1>4, OrderedRests DEF Still, Looks
  <2>. QED BY <1>3, <2>2, <2>3
<1>5. ASSUME NEW r, First(r), Delivers(r) PROVE WInv'
  <2>1. /\ rows' = rows \cup (r.items \ {Event}) /\ dead' = dead /\ queue \ {r} \subseteq queue' /\ queue' \subseteq queue
        /\ r \in peeked /\ r \in Records /\ (r \in queue \/ r.cycle \in aborted)
        /\ UNCHANGED <<cycle, todo, aborted, memory, at>>
    BY <1>1, <1>5 DEF First, Delivers, Records, RInv, FromQueue, Still
  <2>2. FullCounts'
    <3>1. ASSUME NEW i \in Reported' PROVE i \in Reported \/ (i.kind = "state" => Batch(i) \in aborted')
      <4>1. CASE i \in r.items
        <5>1. CASE r \in queue
          BY <4>1, <5>1, InEnqueued DEF Reported
        <5>2. CASE r.cycle \in aborted
          BY <2>1, <4>1, <5>2, BatchOf
        <5>. QED BY <2>1, <5>1, <5>2
      <4>2. CASE i \notin r.items
        <5>1. i \in todo' \/ i \in rows' \/ i \in Contents(queue' \cup dead')
          BY DEF Reported, Enqueued, Contents
        <5>2. i \in todo \/ i \in rows \/ i \in Contents(queue \cup dead)
          BY <2>1, <4>2, <5>1 DEF Contents
        <5>. QED BY <5>2 DEF Reported, Enqueued
      <4>. QED BY <4>1, <4>2
    <3>. QED BY <1>2, <2>1, <3>1, ReportedPast, FullCountsStay
  <2>3. Ordered'
    <3>. SUFFICES ASSUME NEW b \in 1..cycle', Counting(b)', \A d \in dead' : d.cycle # b, NEW k \in PresentAt(b)'
                  PROVE  (TombInRows(k, b) /\ TombInQueue(k, b) /\ TombToCome(k, b))'
      BY DEF Ordered
    <3>1. Counting(b) /\ k \in PresentAt(b) /\ b \notin aborted
      BY <1>2, <2>1 DEF SameCounts, Counting
    <3>2. TombInRows(k, b) /\ TombInQueue(k, b) /\ TombToCome(k, b)
      BY <2>1, <3>1 DEF Ordered
    <3>3. Arrived(k, b) => Arrived(k, b)'
      BY <2>1, ArrivedStays
    <3>4. ASSUME NEW i \in r.items, Live(i, k, b) PROVE Arrived(k, b)'
      <4>1. i \in rows'
        BY <2>1, <3>4 DEF Live, Event
      <4>2. Stamp(i)
        BY <2>1, <3>4, BatchOf DEF Live
      <4>. QED BY <3>4, <4>1, <4>2, LiveArrives
    <3>5. ASSUME NEW i \in r.items, Tomb(i, b) PROVE Arrived(k, b)'
      <4>1. r.cycle = b /\ r \in queue
        BY <2>1, <3>1, <3>5, BatchOf DEF Tomb
      <4>2. CASE Arrived(k, b)
        BY <3>3, <4>2
      <4>3. ASSUME NEW q \in queue, q.cycle = b, q.index <= r.index, NEW j \in q.items, Live(j, k, b)
            PROVE  Arrived(k, b)'
        <5>1. q.index \in Nat /\ r.index \in Nat
          BY <4>1 DEF RInv, Stamped, Records
        <5>2. CASE q.index = r.index
          <6>1. q = r
            BY <4>1, <4>3, <5>2 DEF RInv, Numbered, Single, Waiting
          <6>. QED BY <3>4, <4>3, <6>1
        <5>3. CASE q.index < r.index
          <6>1. q \in peeked /\ q # r
            BY <2>1, <4>1, <4>3, <5>1, <5>3 DEF RInv, FromQueue
          <6>2. Older(r, q)
            BY <1>5, <6>1 DEF First
          <6>3. b \in Nat
            BY <2>1 DEF RInv, IInv, TypeOK
          <6>. QED BY <4>1, <4>3, <5>1, <5>3, <6>2, <6>3 DEF Older
        <5>. QED BY <4>3, <5>1, <5>2, <5>3
      <4>. QED BY <3>2, <3>5, <4>1, <4>2, <4>3 DEF TombInQueue
    <3>6. TombInRows(k, b)'
      BY <2>1, <3>2, <3>3, <3>5 DEF TombInRows
    <3>7. TombInQueue(k, b)'
      <4>. SUFFICES ASSUME NEW s \in queue', NEW i \in s.items, Tomb(i, b), ~ Arrived(k, b)'
                    PROVE  \E q \in queue' : q.cycle = b /\ q.index <= s.index /\ \E j \in q.items : Live(j, k, b)
        BY DEF TombInQueue
      <4>1. PICK q \in queue : q.cycle = b /\ q.index <= s.index /\ \E j \in q.items : Live(j, k, b)
        BY <2>1, <3>2, <3>3 DEF TombInQueue
      <4>2. q # r
        BY <3>4, <4>1
      <4>. QED BY <2>1, <4>1, <4>2
    <3>8. TombToCome(k, b)'
      <4>. SUFFICES ASSUME NEW i \in todo', Tomb(i, b), ~ Arrived(k, b)'
                    PROVE  \E j \in todo' \cup Contents(queue') : Live(j, k, b)
        BY DEF TombToCome
      <4>1. PICK j \in todo \cup Contents(queue) : Live(j, k, b)
        BY <2>1, <3>2, <3>3 DEF TombToCome
      <4>2. j \notin r.items
        BY <3>4, <4>1
      <4>3. j \in todo \cup Contents(queue')
        BY <2>1, <4>1, <4>2 DEF Contents
      <4>. QED BY <2>1, <4>1, <4>3
    <3>. QED BY <3>6, <3>7, <3>8
  <2>. QED BY <1>3, <2>2, <2>3
<1>6. ASSUME NEW r, First(r), Refuses(r) PROVE WInv'
  <2>1. /\ r \in queue /\ rows' = rows /\ dead' = dead \cup {r} /\ queue' = queue \ {r}
        /\ UNCHANGED <<cycle, todo, aborted, memory, at>>
    BY <1>1, <1>6 DEF Refuses, Still
  <2>2. FullCounts'
    <3>1. queue' \cup dead' = queue \cup dead
      BY <2>1
    <3>2. Reported' = Reported
      BY <2>1, <3>1 DEF Reported, Enqueued, Contents
    <3>. QED BY <1>2, <2>1, <3>2, ReportedPast, FullCountsStay
  <2>3. Ordered'
    <3>. SUFFICES ASSUME NEW b \in 1..cycle', Counting(b)', \A d \in dead' : d.cycle # b, NEW k \in PresentAt(b)'
                  PROVE  (TombInRows(k, b) /\ TombInQueue(k, b) /\ TombToCome(k, b))'
      BY DEF Ordered
    <3>1. Counting(b) /\ k \in PresentAt(b) /\ r.cycle # b
      BY <1>2, <2>1 DEF SameCounts
    <3>2. TombInRows(k, b) /\ TombInQueue(k, b) /\ TombToCome(k, b)
      BY <2>1, <3>1 DEF Ordered
    <3>3. Arrived(k, b)' <=> Arrived(k, b)
      BY <2>1 DEF Arrived
    <3>4. TombInRows(k, b)'
      BY <2>1, <3>2, <3>3 DEF TombInRows
    <3>5. TombInQueue(k, b)'
      <4>. SUFFICES ASSUME NEW s \in queue', NEW i \in s.items, Tomb(i, b), ~ Arrived(k, b)
                    PROVE  \E q \in queue' : q.cycle = b /\ q.index <= s.index /\ \E j \in q.items : Live(j, k, b)
        BY <3>3 DEF TombInQueue
      <4>1. PICK q \in queue : q.cycle = b /\ q.index <= s.index /\ \E j \in q.items : Live(j, k, b)
        BY <2>1, <3>2 DEF TombInQueue
      <4>. QED BY <2>1, <3>1, <4>1
    <3>6. TombToCome(k, b)'
      <4>. SUFFICES ASSUME NEW i \in todo', Tomb(i, b), ~ Arrived(k, b)
                    PROVE  \E j \in todo' \cup Contents(queue') : Live(j, k, b)
        BY <3>3 DEF TombToCome
      <4>1. PICK j \in todo \cup Contents(queue) : Live(j, k, b)
        BY <2>1, <3>2 DEF TombToCome
      <4>2. j \notin r.items
        BY <2>1, <3>1, <4>1, BatchOf DEF Live, Records
      <4>3. j \in todo \cup Contents(queue')
        BY <2>1, <4>1, <4>2 DEF Contents
      <4>. QED BY <2>1, <4>1, <4>3
    <3>. QED BY <3>4, <3>5, <3>6
  <2>. QED BY <1>3, <2>2, <2>3
<1>. QED BY <1>1, <1>4, <1>5, <1>6

LEMMA WMerge == ASSUME WInv, RInv', Merge PROVE WInv'
<1>. USE DEF WInv
<1>1. PICK r, s \in States(rows) : r.key = s.key /\ r.time < s.time /\ rows' = rows \ {r}
  BY MergeDoes
<1>2. UNCHANGED <<cycle, at, todo, memory, aborted, collected, queue, dead>>
  BY MergeDoes
<1>3. SameCounts
  BY <1>2, CountsSame
<1>4. Uncounted'
  BY <1>2 DEF Uncounted, Running
<1>5. FullCounts'
  <2>1. Reported' \subseteq Reported
    BY <1>1, <1>2 DEF Reported, Enqueued, Contents
  <2>. QED BY <1>2, <1>3, <2>1, ReportedPast, FullCountsStay
<1>6. Ordered'
  <2>. SUFFICES ASSUME NEW b \in 1..cycle', Counting(b)', \A d \in dead' : d.cycle # b, NEW k \in PresentAt(b)'
                PROVE  (TombInRows(k, b) /\ TombInQueue(k, b) /\ TombToCome(k, b))'
    BY DEF Ordered
  <2>1. Counting(b) /\ k \in PresentAt(b) /\ b \in Nat
    BY <1>2, <1>3 DEF SameCounts
  <2>2. TombInRows(k, b) /\ TombInQueue(k, b) /\ TombToCome(k, b)
    BY <1>2, <2>1 DEF Ordered
  <2>3. Arrived(k, b) => Arrived(k, b)'
    <3>. SUFFICES ASSUME NEW q \in States(rows), q.key = k, q.time >= 2 * b PROVE Arrived(k, b)'
      BY DEF Arrived
    <3>1. q.time \in Nat /\ r.time \in Nat /\ s.time \in Nat
      BY DEF RInv, Stamped, Stamp
    <3>2. s \in rows' /\ s \in States(rows')
      BY <1>1, <3>1 DEF States
    <3>3. CASE q = r
      <4>1. s.time >= 2 * b
        BY <1>1, <2>1, <3>1, <3>3
      <4>. QED BY <1>1, <3>2, <3>3, <4>1 DEF Arrived
    <3>4. CASE q # r
      BY <1>1, <3>4 DEF Arrived, States
    <3>. QED BY <3>3, <3>4
  <2>4. TombInRows(k, b)'
    BY <1>1, <2>2, <2>3 DEF TombInRows
  <2>. QED BY <1>2, <2>2, <2>3, <2>4 DEF TombInQueue, TombToCome, Contents
<1>. QED BY <1>4, <1>5, <1>6

LEMMA WStep == ASSUME WInv, [Next]_vars PROVE WInv'
<1>1. RInv'
  BY RStep DEF WInv
<1>2. ASSUME NEW failed \in SUBSET Collectors, Collect(failed) PROVE WInv'
  BY <1>1, <1>2, WCollect
<1>3. CASE Unchunkable \/ Undo
  <2>1. UNCHANGED <<cycle, rows, dead, collected>> /\ queue' \subseteq queue /\ \A r \in queue \ queue' : r.cycle = cycle
    BY <1>3, UndoTakes, UnchunkableTakes
  <2>2. at' = "idle" /\ todo' = {} /\ aborted' = aborted \cup {cycle} /\ Running
    BY <1>3, UndoTakes, UnchunkableTakes DEF TakeBack, Running
  <2>. QED BY <1>1, <2>1, <2>2, WRests
<1>4. CASE PushFails \/ SaveFails \/ Save \/ Commit \/ CommitFails
  <2>1. UNCHANGED <<cycle, rows, dead, queue, todo, aborted>>
    BY <1>4 DEF PushFails, SaveFails, Save, Commit, CommitFails, Return, Committed, arrived, spool, history
  <2>2. \/ at = "commit" /\ at' = "idle" /\ collected' = collected
        \/ Running /\ at' = "undo" /\ collected' = collected
        \/ at = "save" /\ at' = "commit" /\ collected' = [collected EXCEPT ![cycle] = Present(memory.cache)]
    BY <1>4 DEF PushFails, SaveFails, Save, Commit, CommitFails, Return, Committed, history, Running
  <2>. QED BY <1>1, <2>1, <2>2, WRests
<1>5. CASE Push
  BY <1>1, <1>5, WPush
<1>6. CASE Crash
  <2>1. /\ at' = "idle" /\ todo' = {} /\ queue' = queue \cup unindexed /\ UNCHANGED <<cycle, rows, dead, collected>>
        /\ aborted' = IF Running THEN aborted \cup {cycle} ELSE aborted
    BY <1>6 DEF Crash, arrived, Running
  <2>2. \A r \in queue' \ queue : r \in Records /\ r.cycle \in aborted'
    BY <2>1 DEF WInv, RInv, FromQueue, Records, Running
  <2>. QED BY <1>1, <2>1, <2>2, WRests
<1>7. CASE Flushes \/ UNCHANGED vars
  BY <1>1, <1>7, WFlush
<1>8. CASE Merge
  BY <1>1, <1>8, WMerge
<1>. QED BY <1>2, <1>3, <1>4, <1>5, <1>6, <1>7, <1>8 DEF Next, Flushes

LEMMA WIsWhole == ASSUME WInv PROVE WatermarkWhole
<1>. SUFFICES ASSUME NEW b \in 1..cycle, Complete(b), b \notin aborted, \A d \in dead : d.cycle # b, NEW k \in collected[b]
              PROVE  \E r \in States(rows) : r.key = k /\ r.time >= 2 * b
  BY DEF WatermarkWhole
<1>1. b \in 1..MaxCycles /\ collected \in [1..MaxCycles -> SUBSET Keys]
  BY CollectionAssumption DEF WInv, RInv, Cycles
<1>2. Counting(b) /\ PresentAt(b) = collected[b]
  <2>1. ~ (b = cycle /\ Running)
    BY <1>1 DEF WInv, Uncounted
  <2>. QED BY <2>1 DEF Counting, PresentAt, Running
<1>3. CASE \E i \in Snapshot(b) : i.payload = Gone
  <2>1. \E i \in rows : Tomb(i, b)
    BY <1>3 DEF Snapshot, States, Tomb
  <2>2. Arrived(k, b)
    BY <1>2, <2>1 DEF WInv, Ordered, TombInRows
  <2>. QED BY <2>2 DEF Arrived
<1>4. CASE \A i \in Snapshot(b) : i.payload # Gone
  <2>. DEFINE K == {s.key : s \in Snapshot(b)}
  <2>1. \A i \in Snapshot(b) : i \in States(Reported) /\ i.full /\ Batch(i) = b
    BY DEF Snapshot, States, Reported, Enqueued
  <2>2. \A i \in Snapshot(b) : i.count = Cardinality(collected[b]) /\ i.key \in collected[b]
    BY <1>2, <1>4, <2>1 DEF WInv, FullCounts
  <2>3. PICK r \in Snapshot(b) : Cardinality(K) >= r.count
    BY DEF Complete
  <2>4. IsFiniteSet(collected[b])
    BY <1>1, CollectionAssumption, FS_Subset
  <2>5. K \subseteq collected[b]
    BY <2>2
  <2>6. Cardinality(K) <= Cardinality(collected[b]) /\ Cardinality(K) \in Nat /\ Cardinality(collected[b]) \in Nat
    BY <2>4, <2>5, FS_Subset, FS_CardinalityType
  <2>7. Cardinality(K) = Cardinality(collected[b])
    BY <2>2, <2>3, <2>6
  <2>8. K = collected[b]
    BY <2>4, <2>5, <2>7, FS_Subset
  <2>9. PICK i \in Snapshot(b) : i.key = k
    BY <2>8
  <2>10. i \in States(rows) /\ Stamp(i) /\ Batch(i) = b
    BY DEF Snapshot, WInv, RInv, Stamped
  <2>. QED BY <2>9, <2>10, StampedNew
<1>. QED BY <1>3, <1>4

(* A full snapshot that the manager takes as its watermark hides nothing it   *)
(* does not replace (queryDashboardStateRowsByType, filterStateChanges).      *)
THEOREM SnapshotsWhole == Spec => []WatermarkWhole
<1>. QED BY WInit, WStep, WIsWhole, PTL DEF Spec

-------------------------------------------------------------------------------
(* What is told of each entry, and what the state file says of it *)

Saves ==
  /\ savedAt \in 0..cycle /\ (Running => savedAt < cycle)
  /\ fullAt \in 0..savedAt /\ fullAt \notin aborted \ {Never}
  /\ memory.full <= cycle /\ before.full <= cycle /\ stateFile.full <= cycle

CacheSaved ==
  /\ reported = stateFile.cache
  /\ ~ Running => ~ memory.dirty /\ memory.cache = stateFile.cache
  /\ Running => ~ before.dirty /\ before.cache = stateFile.cache

\* Nothing counts but what was told before the last save and by the running cycle.
Counted == \A i \in States(Enqueued) : Batch(i) \notin aborted => Batch(i) <= savedAt \/ (Batch(i) = cycle /\ Running)
Keyed == \A i \in States(Reported) : Batch(i) \notin aborted => i.key \in Keys

\* The running cycle reports its cache where it differs from the one before.
Reporting ==
  at \in {"push", "save"} =>
    /\ \A i \in States(Reported) : Batch(i) = cycle => i.payload = memory.cache[i.key] /\ memory.dirty
    /\ \A k \in Keys : memory.cache[k] # before.cache[k] \/ (memory.full = cycle /\ memory.cache[k] # Gone) =>
         \E i \in States(Reported) : i.key = k /\ Batch(i) = cycle
    /\ memory.full = cycle => memory.dirty

\* What was told of entry k and stands: the newest of it is of batch n, unless it
\* was replaced by something that does not stand.
Told(k) == {i \in States(Enqueued) : i.key = k /\ Batch(i) <= savedAt /\ Batch(i) \notin aborted}
LastSaid(k, n) ==
  /\ \A i \in Told(k) : Batch(i) <= n /\ (Batch(i) = n => i.payload = stateFile.cache[k])
  /\ n = 0 => stateFile.cache[k] = Gone
  /\ n # 0 => (\E i \in Told(k) : Batch(i) = n) \/ (merges # 0 /\ \E s \in States(rows) : s.key = k /\ Batch(s) > n)
  /\ stateFile.cache[k] # Gone => n >= fullAt
Honest == \A k \in Keys : \E n \in 0..savedAt : LastSaid(k, n)

\* Whether the running cycle will count as a full one once it is saved.
Filling == at \in {"push", "save"} /\ memory.full = cycle /\ {memory.cache, before.cache} # {Empty}
FullsPast ==
  \A i \in States(Reported) : i.full /\ Counting(Batch(i)) => Batch(i) <= fullAt \/ (Batch(i) = cycle /\ Filling)

\* The last full snapshot, and the one the running cycle makes, are all there.
FullThere ==
  merges = 0 /\ fullAt # Never =>
    /\ \E i \in States(Enqueued) : i.full /\ Batch(i) = fullAt
    /\ \A k \in collected[fullAt] : \E i \in States(Enqueued) : i.full /\ Batch(i) = fullAt /\ i.key = k
FillingThere ==
  merges = 0 /\ Filling =>
    /\ \E i \in States(Reported) : i.full /\ Batch(i) = cycle
    /\ \A k \in Present(memory.cache) : \E i \in States(Reported) : i.full /\ Batch(i) = cycle /\ i.key = k

Sayings == Saves /\ CacheSaved /\ Counted /\ Keyed /\ Reporting /\ Honest /\ FullsPast /\ FullThere /\ FillingThere
SInv == WInv /\ Sayings

LEMMA SInit == Init => SInv
<1>. SUFFICES ASSUME Init PROVE SInv
  OBVIOUS
<1>1. Reported = {} /\ Enqueued = {} /\ cycle = 0 /\ fullAt = 0 /\ savedAt = 0 /\ aborted = {} /\ at = "idle"
  BY DEF Init, Reported, Enqueued, Contents, Never
<1>2. memory.full = 0 /\ memory.cache = Empty /\ ~ memory.dirty /\ before = memory /\ stateFile.full = 0
      /\ stateFile.cache = Empty /\ reported = Empty
  BY DEF Init, Never
<1>3. Saves /\ CacheSaved
  BY <1>1, <1>2 DEF Saves, CacheSaved, Running
<1>4. Counted /\ Keyed /\ Reporting /\ FullsPast
  BY <1>1 DEF Counted, Keyed, Reporting, FullsPast, States
<1>5. Honest
  <2>. SUFFICES ASSUME NEW k \in Keys PROVE LastSaid(k, 0)
    BY <1>1 DEF Honest
  <2>1. Told(k) = {}
    BY <1>1 DEF Told, States
  <2>2. stateFile.cache[k] = Gone
    BY <1>2 DEF Empty
  <2>. QED BY <2>1, <2>2 DEF LastSaid
<1>6. FullThere /\ FillingThere
  BY <1>1 DEF FullThere, FillingThere, Filling, Never
<1>. QED BY WInit, <1>3, <1>4, <1>5, <1>6 DEF SInv, Sayings

\* A step that tells nothing new and forgets nothing that stands.
Quiet ==
  /\ UNCHANGED <<cycle, stateFile, savedAt, fullAt, collected, reported, merges>>
  /\ \/ UNCHANGED <<at, memory, before, aborted>>
     \/ at = "push" /\ at' = "save" /\ UNCHANGED <<memory, before, aborted>>
     \/ at \in {"push", "save"} /\ at' = "undo" /\ UNCHANGED <<memory, before, aborted>>
     \/ at = "commit" /\ at' = "idle" /\ before' = memory /\ UNCHANGED <<memory, aborted>>
     \/ Running /\ at' = "idle" /\ memory' = before /\ before' = before /\ aborted' = aborted \cup {cycle}
     \/ at' = "idle" /\ memory' = Loaded /\ before' = Loaded /\ aborted' = IF Running THEN aborted \cup {cycle} ELSE aborted
  /\ \A i \in rows : i.kind = "state" => i \in rows'
  /\ \A i \in Enqueued : i.kind = "state" /\ Batch(i) \notin aborted' => i \in Enqueued'
  /\ \A i \in Enqueued' : i.kind = "state" /\ Batch(i) \notin aborted' => i \in Enqueued \/ i \in todo
  /\ \A i \in Reported' : i.kind = "state" /\ Batch(i) \notin aborted' => i \in Reported
  /\ at' \in {"push", "save"} => \A i \in Reported : i.kind = "state" => i \in Reported'

LEMMA InEnqueuedNext == ASSUME NEW i
                        PROVE  i \in Enqueued' <=> i \in rows' \/ \E r \in queue' \cup dead' : i \in r.items
  BY DEF Enqueued, Contents

LEMMA QuietPush == ASSUME RInv, Push PROVE Quiet
<1>1. PICK c \in Chunks : queue' = queue \cup {NextRecord(c)} /\ todo' = todo \ c
  BY DEF Push
<1>2. PICK n : n = NextRecord(c)
  OBVIOUS
<1>3. /\ at = "push" /\ at' \in {"push", "save"} /\ UNCHANGED <<memory, before, aborted, rows, dead>>
      /\ UNCHANGED <<cycle, stateFile, savedAt, fullAt, collected, reported, merges>>
  BY DEF Push, arrived, history, disk
<1>4. c \subseteq todo /\ n.items = c /\ queue' = queue \cup {n}
  BY <1>1, <1>2, <1>3, NextIsNew
<1>5. \A i : i \in Enqueued' <=> i \in Enqueued \/ i \in c
  BY <1>3, <1>4, InEnqueued, InEnqueuedNext
<1>6. \A i : i \in Reported' <=> i \in Reported
  BY <1>1, <1>4, <1>5 DEF Reported
<1>. QED BY <1>3, <1>4, <1>5, <1>6 DEF Quiet

LEMMA QuietFlush == ASSUME RInv, Flushes \/ UNCHANGED vars PROVE Quiet
<1>1. Still /\ (Looks \/ \E r : First(r) /\ (Delivers(r) \/ Refuses(r)))
  BY FlushDoes
<1>2. /\ UNCHANGED <<at, memory, before, aborted, todo>>
      /\ UNCHANGED <<cycle, stateFile, savedAt, fullAt, collected, reported, merges>>
  BY <1>1 DEF Still
<1>3. CASE Looks
  <2>1. Enqueued' = Enqueued
    BY <1>3 DEF Looks, Enqueued, Contents
  <2>2. Reported' = Reported
    BY <1>2, <2>1 DEF Reported
  <2>. QED BY <1>2, <1>3, <2>1, <2>2 DEF Quiet, Looks
<1>4. ASSUME NEW r, First(r), Delivers(r) \/ Refuses(r) PROVE Quiet
  <2>1. r \in Records /\ (r \in queue \/ r.cycle \in aborted)
    BY <1>4 DEF First, Records, RInv, FromQueue
  <2>2. \A i \in r.items : i.kind = "state" => Batch(i) = r.cycle /\ i # Event
    BY <2>1, BatchOf DEF Event
  <2>3. \A i \in rows : i.kind = "state" => i \in rows'
    BY <1>4 DEF Delivers, Refuses
  <2>4. \A i \in Enqueued : i.kind = "state" => i \in Enqueued'
    <3>1. CASE Delivers(r)
      <4>1. /\ rows' = rows \cup (r.items \ {Event}) /\ dead' = dead /\ queue \ {r} \subseteq queue'
        BY <3>1 DEF Delivers
      <4>. QED BY <2>2, <4>1, InEnqueued, InEnqueuedNext
    <3>2. CASE Refuses(r)
      BY <3>2, InEnqueued, InEnqueuedNext DEF Refuses
    <3>. QED BY <1>4, <3>1, <3>2
  <2>5. \A i \in Enqueued' : i.kind = "state" /\ Batch(i) \notin aborted => i \in Enqueued
    <3>1. CASE Delivers(r)
      <4>1. /\ rows' = rows \cup (r.items \ {Event}) /\ dead' = dead /\ queue' \subseteq queue
        BY <3>1 DEF Delivers
      <4>. QED BY <2>1, <2>2, <4>1, InEnqueued, InEnqueuedNext
    <3>2. CASE Refuses(r)
      BY <3>2, InEnqueued, InEnqueuedNext DEF Refuses
    <3>. QED BY <1>4, <3>1, <3>2
  <2>. QED BY <1>2, <2>3, <2>4, <2>5 DEF Quiet, Reported
<1>. QED BY <1>1, <1>3, <1>4

LEMMA QuietTakeBack == ASSUME RInv, Undo \/ Unchunkable PROVE Quiet
<1>1. /\ Running /\ at' = "idle" /\ memory' = before /\ todo' = {} /\ aborted' = aborted \cup {cycle}
      /\ UNCHANGED <<before, rows, dead>> /\ queue' \subseteq queue /\ \A r \in queue \ queue' : r.cycle = cycle
      /\ UNCHANGED <<cycle, stateFile, savedAt, fullAt, collected, reported, merges>>
  BY UndoTakes, UnchunkableTakes DEF TakeBack, Running
<1>2. ASSUME NEW i \in Enqueued, i.kind = "state", Batch(i) \notin aborted' PROVE i \in Enqueued'
  <2>1. \A r \in queue : i \in r.items => r \in queue'
    BY <1>1, <1>2, BatchOf DEF Records
  <2>. QED BY <1>1, <2>1, InEnqueued, InEnqueuedNext
<1>3. \A i \in Enqueued' : i \in Enqueued
  BY <1>1, InEnqueued, InEnqueuedNext
<1>4. \A i \in Reported' : i \in Reported
  BY <1>1, <1>3 DEF Reported
<1>. QED BY <1>1, <1>2, <1>3, <1>4 DEF Quiet

LEMMA QuietFails ==
  ASSUME RInv, PushFails \/ SaveFails \/ Commit \/ CommitFails, StateSyncFails = FALSE
  PROVE  Quiet
<1>1. /\ UNCHANGED <<rows, dead, queue, todo, aborted>>
      /\ UNCHANGED <<cycle, stateFile, savedAt, fullAt, collected, reported, merges>>
  BY DEF PushFails, SaveFails, Commit, CommitFails, Return, arrived, spool, history, disk
<1>2. \/ at \in {"push", "save"} /\ at' = "undo" /\ UNCHANGED <<memory, before>>
      \/ at = "commit" /\ at' = "idle" /\ before' = memory /\ UNCHANGED memory
  BY DEF PushFails, SaveFails, Commit, CommitFails, Return
<1>3. Enqueued' = Enqueued /\ Reported' = Reported
  BY <1>1 DEF Enqueued, Reported, Contents
<1>. QED BY <1>1, <1>2, <1>3 DEF Quiet

LEMMA QuietCrash == ASSUME RInv, Crash PROVE Quiet
<1>1. /\ at' = "idle" /\ memory' = Loaded /\ before' = Loaded /\ todo' = {} /\ queue' = queue \cup unindexed
      /\ aborted' = IF Running THEN aborted \cup {cycle} ELSE aborted
      /\ UNCHANGED <<cycle, stateFile, savedAt, fullAt, collected, reported, merges, rows, dead>>
  BY DEF Crash, arrived, disk, Running
<1>2. \A r \in unindexed : r.cycle \in aborted'
  BY <1>1 DEF RInv, FromQueue, Running
<1>3. \A i \in Enqueued : i \in Enqueued'
  BY <1>1, InEnqueued, InEnqueuedNext
<1>4. ASSUME NEW i \in Enqueued', i.kind = "state", Batch(i) \notin aborted' PROVE i \in Enqueued
  <2>1. \A r \in unindexed : i \notin r.items
    BY <1>2, <1>4, BatchOf DEF Records
  <2>. QED BY <1>1, <2>1, InEnqueued, InEnqueuedNext
<1>. QED BY <1>1, <1>3, <1>4 DEF Quiet, Reported

\* What stands after a quiet step stood before it, and is of the same batch.
LEMMA QuietFacts ==
  ASSUME SInv, Quiet
  PROVE  /\ aborted \subseteq aborted' /\ aborted' \subseteq aborted \cup {cycle} /\ cycle' = cycle
         /\ cycle \in aborted' \ aborted => Running /\ savedAt < cycle
         /\ savedAt \in Nat /\ cycle \in Nat /\ fullAt \in Nat
         /\ Running' => Running
         /\ at' \in {"push", "save"} => at \in {"push", "save"} /\ memory' = memory /\ before' = before
         /\ \A i \in States(Reported) : Batch(i) \in 1..cycle
<1>1. savedAt \in Nat /\ cycle \in Nat /\ fullAt \in Nat /\ (Running => savedAt < cycle)
  BY DEF SInv, Sayings, Saves, WInv, RInv, Cycles
<1>2. \A i \in States(Reported) : Batch(i) \in 1..cycle
  BY ReportedPast DEF SInv, WInv, States
<1>. QED BY <1>1, <1>2 DEF Quiet, Running

LEMMA QuietTold == ASSUME SInv, Quiet, NEW k PROVE Told(k)' = Told(k)
<1>1. /\ aborted \subseteq aborted' /\ aborted' \subseteq aborted \cup {cycle}
      /\ cycle \in aborted' \ aborted => savedAt < cycle
      /\ savedAt \in Nat /\ cycle \in Nat /\ savedAt' = savedAt
  BY QuietFacts DEF Quiet
<1>2. ASSUME NEW i \in Told(k) PROVE i \in Told(k)'
  <2>1. i \in Enqueued /\ i.kind = "state" /\ i.key = k /\ Batch(i) <= savedAt /\ Batch(i) \notin aborted
    BY DEF Told, States
  <2>2. Batch(i) \notin aborted'
    BY <1>1, <2>1
  <2>3. i \in Enqueued'
    BY <2>1, <2>2 DEF Quiet
  <2>. QED BY <1>1, <2>1, <2>2, <2>3 DEF Told, States
<1>3. ASSUME NEW i \in Told(k)' PROVE i \in Told(k)
  <2>1. i \in Enqueued' /\ i.kind = "state" /\ i.key = k /\ Batch(i) <= savedAt /\ Batch(i) \notin aborted'
    BY <1>1 DEF Told, States
  <2>2. CASE i \in todo
    <3>1. Batch(i) = cycle
      BY <2>1, <2>2, BatchOf DEF SInv, WInv
    <3>2. Running
      BY <2>2 DEF SInv, WInv, RInv, IInv, TypeOK, TodoDone, Cycles, Running
    <3>. QED BY <1>1, <2>1, <3>1, <3>2 DEF SInv, Sayings, Saves
  <2>3. CASE i \in Enqueued
    BY <1>1, <2>1, <2>3 DEF Told, States
  <2>. QED BY <2>1, <2>2, <2>3 DEF Quiet
<1>. QED BY <1>2, <1>3

LEMMA QuietKeeps == ASSUME SInv, Quiet, WInv' PROVE SInv'
<1>1. /\ aborted \subseteq aborted' /\ aborted' \subseteq aborted \cup {cycle} /\ cycle' = cycle
      /\ cycle \in aborted' \ aborted => Running /\ savedAt < cycle
      /\ savedAt \in Nat /\ cycle \in Nat /\ fullAt \in Nat
      /\ Running' => Running
      /\ at' \in {"push", "save"} => at \in {"push", "save"} /\ memory' = memory /\ before' = before
      /\ \A i \in States(Reported) : Batch(i) \in 1..cycle
  BY QuietFacts
<1>2. UNCHANGED <<stateFile, savedAt, fullAt, collected, reported, merges>>
  BY DEF Quiet
<1>3. Saves'
  <2>1. fullAt \notin aborted' \ {Never}
    BY <1>1 DEF SInv, Sayings, Saves
  <2>2. memory.full <= cycle /\ before.full <= cycle /\ stateFile.full <= cycle
    BY DEF SInv, Sayings, Saves
  <2>3. memory'.full <= cycle /\ before'.full <= cycle
    BY <2>2 DEF Quiet, Loaded
  <2>. QED BY <1>1, <1>2, <2>1, <2>2, <2>3 DEF SInv, Sayings, Saves
<1>4. CacheSaved'
  <2>1. CacheSaved
    BY DEF SInv, Sayings
  <2>2. Loaded.cache = stateFile.cache /\ ~ Loaded.dirty
    BY DEF Loaded
  <2>. QED BY <1>2, <2>1, <2>2 DEF Quiet, CacheSaved, Running
<1>5. Counted'
  <2>. SUFFICES ASSUME NEW i \in States(Enqueued'), Batch(i) \notin aborted'
                PROVE  Batch(i) <= savedAt \/ (Batch(i) = cycle /\ Running')
    BY <1>1, <1>2 DEF Counted
  <2>1. i \in Enqueued \/ i \in todo
    BY DEF States, Quiet
  <2>2. Batch(i) <= savedAt \/ (Batch(i) = cycle /\ Running)
    <3>1. CASE i \in Enqueued
      BY <1>1, <3>1 DEF SInv, Sayings, Counted, States
    <3>2. CASE i \in todo
      <4>1. Batch(i) = cycle
        BY <3>2, BatchOf DEF SInv, WInv, States
      <4>2. Running
        BY <3>2 DEF SInv, WInv, RInv, IInv, TypeOK, TodoDone, Cycles, Running
      <4>. QED BY <4>1, <4>2
    <3>. QED BY <2>1, <3>1, <3>2
  <2>3. CASE Running /\ ~ Running'
    <3>1. cycle \in aborted'
      BY <2>3 DEF Quiet, Running
    <3>. QED BY <2>2, <3>1
  <2>. QED BY <2>2, <2>3
<1>6. \A i \in States(Reported') : Batch(i) \notin aborted' => i \in States(Reported) /\ Batch(i) \notin aborted
  BY <1>1 DEF Quiet, States
<1>7. Keyed'
  BY <1>6 DEF SInv, Sayings, Keyed
<1>8. at' \in {"push", "save"} => \A i \in States(Reported) : i \in States(Reported')
  BY DEF Quiet, States
<1>9. Reporting'
  <2>. SUFFICES ASSUME at' \in {"push", "save"}
                PROVE  /\ \A i \in States(Reported') : Batch(i) = cycle => i.payload = memory.cache[i.key] /\ memory.dirty
                       /\ \A k \in Keys : memory.cache[k] # before.cache[k] \/ (memory.full = cycle /\ memory.cache[k] # Gone) =>
                            \E i \in States(Reported') : i.key = k /\ Batch(i) = cycle
                       /\ memory.full = cycle => memory.dirty
    BY <1>1 DEF Reporting
  <2>1. cycle \notin aborted'
    BY DEF SInv, WInv, RInv, Cycles, Quiet, Running
  <2>2. Reporting /\ at \in {"push", "save"}
    BY <1>1 DEF SInv, Sayings
  <2>. QED BY <1>6, <1>8, <2>1, <2>2 DEF Reporting
<1>10. Honest'
  <2>. SUFFICES ASSUME NEW k \in Keys PROVE \E n \in 0..savedAt : LastSaid(k, n)'
    BY <1>2 DEF Honest
  <2>1. PICK n \in 0..savedAt : LastSaid(k, n)
    BY DEF SInv, Sayings, Honest
  <2>2. \A s \in States(rows) : s \in States(rows')
    BY DEF Quiet, States
  <2>3. Told(k)' = Told(k)
    BY QuietTold
  <2>4. LastSaid(k, n)'
    BY <1>2, <2>1, <2>2, <2>3 DEF LastSaid
  <2>. QED BY <2>4
<1>11. FullsPast'
  <2>. SUFFICES ASSUME NEW i \in States(Reported'), i.full, Counting(Batch(i))'
                PROVE  Batch(i) <= fullAt \/ (Batch(i) = cycle /\ Filling')
    BY <1>1, <1>2 DEF FullsPast
  <2>1. Batch(i) \notin aborted' /\ i \in States(Reported) /\ Batch(i) \notin aborted
    BY <1>6 DEF Counting
  <2>2. Counting(Batch(i))
    <3>1. Batch(i) >= 1
      BY <1>1, <2>1
    <3>2. at = "undo" => Batch(i) # cycle
      BY <1>1, <2>1 DEF Quiet, Counting, Running
    <3>. QED BY <2>1, <3>1, <3>2 DEF Counting
  <2>3. Batch(i) <= fullAt \/ (Batch(i) = cycle /\ Filling)
    BY <2>1, <2>2 DEF SInv, Sayings, FullsPast
  <2>4. CASE Batch(i) = cycle /\ Filling
    <3>1. at \in {"push", "save"} /\ at' # "undo" /\ cycle \notin aborted'
      BY <1>1, <2>1, <2>4 DEF Filling, Counting
    <3>2. at' \in {"push", "save"} /\ UNCHANGED <<memory, before>>
      BY <3>1 DEF Quiet, Running
    <3>. QED BY <1>1, <2>4, <3>2 DEF Filling
  <2>. QED BY <2>3, <2>4
<1>12. FullThere'
  <2>. SUFFICES ASSUME merges = 0, fullAt # Never
                PROVE  /\ \E i \in States(Enqueued') : i.full /\ Batch(i) = fullAt
                       /\ \A k \in collected[fullAt] : \E i \in States(Enqueued') : i.full /\ Batch(i) = fullAt /\ i.key = k
    BY <1>2 DEF FullThere
  <2>1. fullAt \notin aborted'
    BY <1>3, <1>2 DEF Saves
  <2>2. \A i \in States(Enqueued) : Batch(i) = fullAt => i \in States(Enqueued')
    BY <2>1 DEF Quiet, States
  <2>. QED BY <2>2 DEF SInv, Sayings, FullThere
<1>13. FillingThere'
  <2>. SUFFICES ASSUME merges = 0, Filling'
                PROVE  /\ \E i \in States(Reported') : i.full /\ Batch(i) = cycle
                       /\ \A k \in Present(memory.cache) : \E i \in States(Reported') : i.full /\ Batch(i) = cycle /\ i.key = k
    <3>1. Filling' => memory' = memory
      BY <1>1 DEF Filling
    <3>. QED BY <1>1, <1>2, <3>1 DEF FillingThere, Present
  <2>1. Filling /\ at' \in {"push", "save"}
    BY <1>1 DEF Filling
  <2>. QED BY <1>8, <2>1 DEF SInv, Sayings, FillingThere
<1>. QED BY <1>3, <1>4, <1>5, <1>7, <1>9, <1>10, <1>11, <1>12, <1>13 DEF SInv, Sayings

LEMMA SCollect == ASSUME SInv, WInv', NEW failed \in SUBSET Collectors, Collect(failed) PROVE SInv'
<1>. DEFINE now == cycle + 1
<1>1. /\ cycle' = now /\ at = "idle" /\ at' = "push" /\ before' = memory
      /\ UNCHANGED <<stateFile, savedAt, fullAt, collected, reported, merges, aborted, rows, dead, queue>>
  BY DEF Collect, history, spool, arrived, disk
<1>2. savedAt \in Nat /\ cycle \in Nat /\ fullAt \in Nat /\ savedAt <= cycle /\ now # fullAt /\ memory.full \in Nat
  BY DEF SInv, Sayings, Saves, WInv, RInv, Cycles, IInv, TypeOK, Memories
<1>3. Enqueued' = Enqueued /\ todo = {} /\ Reported = Enqueued
  BY <1>1 DEF Enqueued, Reported, Contents, SInv, WInv, RInv, Cycles
<1>4. \A i \in States(Enqueued) : Batch(i) \in 1..cycle
  BY <1>3, ReportedPast DEF SInv, WInv, States
<1>5. TypeOK /\ ~ Running /\ ~ memory.dirty /\ memory.cache = stateFile.cache
  BY <1>1 DEF SInv, WInv, RInv, IInv, Sayings, CacheSaved, Running
<1>6. /\ ~ Counts(failed) => States(todo') = {}
      /\ Counts(failed) => /\ \A i \in States(todo') : IsReport(i, now)
                           /\ \A k \in Keys : memory.cache[k] # host[k] \/ (FullDue(now) /\ host[k] # Gone) =>
                                \E i \in States(todo') : i.key = k
  BY <1>5, CollectItems
<1>7. \A i \in States(Reported') : i \in States(Enqueued) \/ i \in States(todo')
  BY <1>3 DEF Reported, States
<1>8. \A i \in States(todo') : Counts(failed) /\ IsReport(i, now) /\ i \in States(Reported')
  BY <1>6 DEF Reported, States
<1>9. /\ Counts(failed) => /\ memory'.cache = host
                           /\ memory'.full = IF FullDue(now) THEN now ELSE memory.full
                           /\ memory'.dirty = (memory.dirty \/ FullDue(now) \/ memory.cache # host)
      /\ ~ Counts(failed) => memory'.cache = memory.cache /\ memory'.full = memory.full
  BY DEF Collect, Counts, Filtered, Noted
<1>10. memory'.full = now => Counts(failed) /\ FullDue(now)
  BY <1>2, <1>9 DEF SInv, Sayings, Saves
<1>11. Saves'
  <2>1. memory'.full <= now
    BY <1>2, <1>9 DEF SInv, Sayings, Saves
  <2>2. stateFile.full \in Nat /\ stateFile.full <= cycle /\ memory.full <= cycle
    BY <1>5 DEF SInv, Sayings, Saves, TypeOK
  <2>. QED BY <1>1, <1>2, <2>1, <2>2 DEF SInv, Sayings, Saves, Running
<1>12. CacheSaved'
  BY <1>1, <1>5 DEF SInv, Sayings, CacheSaved, Running
<1>13. Counted'
  <2>1. \A i \in States(Enqueued) : Batch(i) \notin aborted => Batch(i) <= savedAt
    BY <1>5 DEF SInv, Sayings, Counted
  <2>. QED BY <1>1, <1>3, <2>1 DEF Counted
<1>14. Keyed'
  <2>1. \A i \in States(todo') : i.key \in Keys
    BY <1>8 DEF IsReport
  <2>2. \A i \in States(Enqueued) : Batch(i) \notin aborted => i.key \in Keys
    BY <1>3 DEF SInv, Sayings, Keyed
  <2>. QED BY <1>1, <1>7, <2>1, <2>2 DEF Keyed
<1>15. Reporting'
  <2>1. ASSUME NEW i \in States(Reported'), Batch(i) = now PROVE i.payload = memory'.cache[i.key] /\ memory'.dirty
    <3>1. i \in States(todo')
      BY <1>2, <1>4, <1>7, <2>1
    <3>2. Counts(failed) /\ IsReport(i, now)
      BY <1>8, <3>1
    <3>. QED BY <1>9, <3>2 DEF IsReport
  <2>2. ASSUME NEW k \in Keys, memory'.cache[k] # memory.cache[k] \/ (memory'.full = now /\ memory'.cache[k] # Gone)
        PROVE  \E i \in States(Reported') : i.key = k /\ Batch(i) = now
    <3>1. Counts(failed) /\ (memory.cache[k] # host[k] \/ (FullDue(now) /\ host[k] # Gone))
      BY <1>9, <1>10, <2>2
    <3>2. PICK i \in States(todo') : i.key = k
      BY <1>6, <3>1
    <3>. QED BY <1>8, <3>2 DEF IsReport
  <2>3. memory'.full = now => memory'.dirty
    BY <1>9, <1>10
  <2>. QED BY <1>1, <2>1, <2>2, <2>3 DEF Reporting
<1>16. Honest'
  <2>. SUFFICES ASSUME NEW k \in Keys PROVE \E n \in 0..savedAt : LastSaid(k, n)'
    BY <1>1 DEF Honest
  <2>1. PICK n \in 0..savedAt : LastSaid(k, n)
    BY DEF SInv, Sayings, Honest
  <2>2. Told(k)' = Told(k)
    BY <1>1, <1>3 DEF Told, States
  <2>3. LastSaid(k, n)'
    BY <1>1, <2>1, <2>2 DEF LastSaid, States
  <2>. QED BY <2>3
<1>17. \A i \in States(todo') : i.full => FullDue(now) /\ Filling'
  <2>. SUFFICES ASSUME NEW i \in States(todo'), i.full PROVE FullDue(now) /\ Filling'
    OBVIOUS
  <2>1. Counts(failed) /\ IsReport(i, now)
    BY <1>8
  <2>2. FullDue(now) /\ i.key \in Keys /\ (host[i.key] # Gone \/ memory.cache[i.key] # host[i.key])
    BY <2>1 DEF IsReport
  <2>3. Empty[i.key] = Gone
    BY <2>2 DEF Empty
  <2>4. {host, memory.cache} # {Empty}
    BY <2>2, <2>3
  <2>. QED BY <1>1, <1>9, <2>1, <2>2, <2>4 DEF Filling
<1>18. FullsPast'
  <2>. SUFFICES ASSUME NEW i \in States(Reported'), i.full, Counting(Batch(i))'
                PROVE  Batch(i) <= fullAt \/ (Batch(i) = now /\ Filling')
    BY <1>1 DEF FullsPast
  <2>1. CASE i \in States(todo')
    BY <1>8, <1>17, <2>1 DEF IsReport
  <2>2. CASE i \in States(Enqueued)
    <3>1. Counting(Batch(i)) /\ i \in States(Reported)
      BY <1>1, <1>3, <2>2 DEF Counting
    <3>2. ~ Filling
      BY <1>1 DEF Filling
    <3>. QED BY <3>1, <3>2 DEF SInv, Sayings, FullsPast
  <2>. QED BY <1>7, <2>1, <2>2
<1>19. FullThere'
  BY <1>1, <1>3 DEF SInv, Sayings, FullThere, States
<1>20. FillingThere'
  <2>. SUFFICES ASSUME Filling'
                PROVE  /\ \E i \in States(Reported') : i.full /\ Batch(i) = now
                       /\ \A k \in Present(memory'.cache) : \E i \in States(Reported') : i.full /\ Batch(i) = now /\ i.key = k
    BY <1>1 DEF FillingThere, Present
  <2>1. Counts(failed) /\ FullDue(now) /\ memory'.cache = host
    BY <1>1, <1>9, <1>10 DEF Filling
  <2>2. ASSUME NEW k \in Keys, memory.cache[k] # host[k] \/ host[k] # Gone
        PROVE  \E i \in States(Reported') : i.full /\ Batch(i) = now /\ i.key = k
    <3>1. PICK i \in States(todo') : i.key = k
      BY <1>6, <2>1, <2>2
    <3>. QED BY <1>8, <2>1, <3>1 DEF IsReport
  <2>3. host # Empty \/ memory.cache # Empty
    BY <1>1, <2>1 DEF Filling
  <2>4. \E k \in Keys : memory.cache[k] # Gone \/ host[k] # Gone
    BY <1>5, <2>3 DEF TypeOK, Memories, Inventories, Empty
  <2>5. \E k \in Keys : memory.cache[k] # host[k] \/ host[k] # Gone
    BY <2>4
  <2>. QED BY <2>1, <2>2, <2>5 DEF Present
<1>. QED BY <1>11, <1>12, <1>13, <1>14, <1>15, <1>16, <1>18, <1>19, <1>20 DEF SInv, Sayings

LEMMA SSave == ASSUME SInv, WInv', Save PROVE SInv'
<1>1. /\ at = "save" /\ at' = "commit" /\ Committed /\ memory' = [memory EXCEPT !.dirty = FALSE]
      /\ UNCHANGED <<cycle, before, aborted, merges, rows, dead, queue, todo>>
      /\ memory.dirty => stateFile' = [cache |-> memory.cache, full |-> memory.full] /\ savedAt' = cycle
      /\ ~ memory.dirty => stateFile' = stateFile /\ savedAt' = savedAt
  BY DEF Save, Committed, spool, arrived
<1>2. /\ reported' = memory.cache
      /\ collected' = [collected EXCEPT ![cycle] = Present(memory.cache)]
      /\ fullAt' = IF Filling THEN cycle ELSE fullAt
  BY <1>1 DEF Committed, Filling
<1>3. Enqueued' = Enqueued /\ Reported = Enqueued /\ Reported' = Enqueued
  BY <1>1 DEF Enqueued, Contents, Reported, SInv, WInv, RInv, IInv, TodoDone
<1>4. /\ savedAt \in Nat /\ fullAt \in Nat /\ savedAt < cycle /\ fullAt <= savedAt /\ cycle \notin aborted
      /\ cycle \in 1..MaxCycles /\ collected \in [1..MaxCycles -> SUBSET Keys] /\ merges \in Nat
      /\ Running /\ ~ before.dirty /\ before.cache = stateFile.cache
  BY <1>1, CollectionAssumption DEF SInv, Sayings, Saves, CacheSaved, WInv, RInv, Cycles, Running
<1>5. memory.cache \in Inventories /\ stateFile.cache \in Inventories
  BY DEF SInv, WInv, RInv, IInv, TypeOK, Memories
<1>6. memory'.cache = memory.cache /\ memory'.full = memory.full /\ ~ memory'.dirty
  BY <1>1 DEF SInv, WInv, RInv, IInv, TypeOK, Memories
<1>7. Reporting
  BY DEF SInv, Sayings
<1>8. ~ memory.dirty => /\ \A i \in States(Enqueued) : Batch(i) # cycle
                        /\ memory.cache = stateFile.cache /\ ~ Filling
  <2>. SUFFICES ASSUME ~ memory.dirty
                PROVE  (\A i \in States(Enqueued) : Batch(i) # cycle) /\ memory.cache = stateFile.cache /\ ~ Filling
    OBVIOUS
  <2>1. \A i \in States(Enqueued) : Batch(i) # cycle
    BY <1>1, <1>3, <1>7 DEF Reporting
  <2>2. \A k \in Keys : memory.cache[k] = stateFile.cache[k]
    BY <1>1, <1>3, <1>4, <1>7, <2>1 DEF Reporting
  <2>3. memory.cache = stateFile.cache
    BY <1>5, <2>2 DEF Inventories
  <2>. QED BY <1>1, <1>7, <2>1, <2>3 DEF Reporting, Filling
<1>9. Saves'
  <2>1. Filling => memory.dirty
    BY <1>8
  <2>2. stateFile'.full <= cycle
    BY <1>1 DEF SInv, Sayings, Saves
  <2>. QED BY <1>1, <1>2, <1>4, <1>6, <2>1, <2>2 DEF SInv, Sayings, Saves, Running
<1>10. CacheSaved'
  BY <1>1, <1>2, <1>6, <1>8 DEF CacheSaved, Running
<1>11. \A i \in States(Enqueued) : Batch(i) \notin aborted => Batch(i) <= savedAt \/ Batch(i) = cycle
  BY DEF SInv, Sayings, Counted
<1>past. \A i \in States(Enqueued) : Batch(i) \in Nat
  BY <1>3, <1>4, ReportedPast DEF SInv, WInv, States
<1>12. Counted'
  <2>. SUFFICES ASSUME NEW i \in States(Enqueued'), Batch(i) \notin aborted' PROVE Batch(i) <= savedAt'
    BY DEF Counted
  <2>1. i \in States(Enqueued) /\ Batch(i) \notin aborted
    BY <1>1, <1>3
  <2>2. Batch(i) <= savedAt \/ Batch(i) = cycle
    BY <1>11, <2>1
  <2>3. savedAt' = cycle \/ (savedAt' = savedAt /\ Batch(i) # cycle)
    BY <1>1, <1>8, <2>1
  <2>4. Batch(i) \in Nat
    BY <1>past, <2>1
  <2>. QED BY <1>4, <2>2, <2>3, <2>4
<1>13. Keyed' /\ Reporting'
  BY <1>1, <1>3 DEF SInv, Sayings, Keyed, Reporting
<1>14. Honest'
  <2>. SUFFICES ASSUME NEW k \in Keys PROVE \E n \in 0..savedAt' : LastSaid(k, n)'
    BY DEF Honest
  <2>1. CASE \E i \in States(Enqueued) : i.key = k /\ Batch(i) = cycle
    <3>1. memory.dirty
      BY <1>8, <2>1
    <3>2. savedAt' = cycle /\ stateFile'.cache = memory.cache
      BY <1>1, <3>1
    <3>3. \A i \in Told(k)' : Batch(i) <= cycle /\ (Batch(i) = cycle => i.payload = stateFile'.cache[k])
      <4>. TAKE i \in Told(k)'
      <4>1. i \in States(Enqueued) /\ i.key = k /\ Batch(i) <= cycle
        BY <1>3, <3>2 DEF Told, States
      <4>. QED BY <1>1, <1>3, <1>7, <3>2, <4>1 DEF Reporting
    <3>4. \E i \in Told(k)' : Batch(i) = cycle
      BY <1>1, <1>3, <1>4, <2>1, <3>2 DEF Told, States
    <3>5. cycle >= fullAt' /\ cycle # 0
      BY <1>2, <1>4
    <3>6. PICK c \in 0..savedAt' : c = cycle
      BY <1>4, <3>2
    <3>7. LastSaid(k, c)'
      BY <3>3, <3>4, <3>5, <3>6 DEF LastSaid
    <3>. QED BY <3>6, <3>7
  <2>2. CASE ~ \E i \in States(Enqueued) : i.key = k /\ Batch(i) = cycle
    <3>1. PICK n \in 0..savedAt : LastSaid(k, n)
      BY DEF SInv, Sayings, Honest
    <3>2. memory.cache[k] = stateFile.cache[k] /\ (memory.full = cycle => memory.cache[k] = Gone)
      BY <1>1, <1>3, <1>4, <1>7, <2>2 DEF Reporting
    <3>3. stateFile'.cache[k] = stateFile.cache[k]
      BY <1>1, <3>2
    <3>4. Told(k)' = Told(k)
      <4>1. \A i \in States(Enqueued) : i.key = k /\ Batch(i) \notin aborted => (Batch(i) <= savedAt <=> Batch(i) <= savedAt')
        BY <1>1, <1>4, <1>11, <1>past, <2>2
      <4>. QED BY <1>1, <1>3, <4>1 DEF Told, States
    <3>5. stateFile.cache[k] # Gone => n >= fullAt'
      BY <1>2, <3>1, <3>2 DEF LastSaid, Filling
    <3>6. LastSaid(k, n)'
      BY <1>1, <3>1, <3>3, <3>4, <3>5 DEF LastSaid, States
    <3>7. n \in 0..savedAt'
      BY <1>1, <1>4
    <3>. QED BY <3>6, <3>7
  <2>. QED BY <2>1, <2>2
<1>15. FullsPast'
  <2>. SUFFICES ASSUME NEW i \in States(Reported'), i.full, Counting(Batch(i))'
                PROVE  Batch(i) <= fullAt'
    BY DEF FullsPast
  <2>1. i \in States(Reported) /\ Counting(Batch(i))
    BY <1>1, <1>3 DEF Counting
  <2>2. Batch(i) <= fullAt \/ (Batch(i) = cycle /\ Filling)
    BY <2>1 DEF SInv, Sayings, FullsPast
  <2>3. Batch(i) \in Nat
    BY <1>4, <2>1, ReportedPast DEF SInv, WInv, States
  <2>. QED BY <1>2, <1>4, <2>2, <2>3
<1>16. FullThere'
  <2>. SUFFICES ASSUME merges = 0, fullAt' # Never
                PROVE  /\ \E i \in States(Enqueued) : i.full /\ Batch(i) = fullAt'
                       /\ \A k \in collected'[fullAt'] : \E i \in States(Enqueued) : i.full /\ Batch(i) = fullAt' /\ i.key = k
    BY <1>1, <1>3 DEF FullThere, States
  <2>1. CASE Filling
    <3>1. fullAt' = cycle /\ collected'[cycle] = Present(memory.cache)
      BY <1>2, <1>4, <2>1
    <3>. QED BY <1>3, <2>1, <3>1 DEF SInv, Sayings, FillingThere
  <2>2. CASE ~ Filling
    <3>1. fullAt' = fullAt /\ collected'[fullAt] = collected[fullAt]
      BY <1>2, <1>4, <2>2
    <3>. QED BY <2>2, <3>1 DEF SInv, Sayings, FullThere
  <2>. QED BY <2>1, <2>2
<1>17. FillingThere'
  BY <1>1 DEF FillingThere, Filling
<1>. QED BY <1>9, <1>10, <1>12, <1>13, <1>14, <1>15, <1>16, <1>17 DEF SInv, Sayings

LEMMA SMerge == ASSUME SInv, WInv', Merge PROVE SInv'
<1>1. PICK r, s \in States(rows) : r.key = s.key /\ r.time < s.time /\ rows' = rows \ {r}
  BY MergeDoes
<1>2. /\ merges' = merges + 1
      /\ UNCHANGED <<cycle, at, todo, memory, before, stateFile, savedAt, aborted, fullAt, collected, reported, queue, dead>>
  BY MergeDoes
<1>3. r.time \in Nat /\ s.time \in Nat /\ Batch(r) \in Nat /\ Batch(s) \in Nat /\ s \in States(rows') /\ Batch(r) <= Batch(s)
  <2>1. Stamp(r) /\ Stamp(s)
    BY DEF SInv, WInv, RInv, Stamped
  <2>2. r.time \in Nat /\ s.time \in Nat /\ Batch(r) \in Nat /\ Batch(s) \in Nat
    BY <2>1 DEF Stamp
  <2>3. s \in States(rows')
    BY <1>1, <2>2 DEF States
  <2>4. Batch(r) <= Batch(s)
    BY <1>1, <2>2 DEF Batch
  <2>. QED BY <2>2, <2>3, <2>4
<1>4. /\ \A i \in Enqueued' : i \in Enqueued
      /\ \A i \in Reported' : i \in Reported
      /\ \A i \in Enqueued : i \in Enqueued' \/ i = r
      /\ \A i \in Reported : i \in Reported' \/ i = r
      /\ s \in Enqueued' /\ s \in Reported' /\ s.kind = "state"
  <2>1. \A i \in Enqueued' : i \in Enqueued
    BY <1>1, <1>2, InEnqueued, InEnqueuedNext
  <2>2. \A i \in Enqueued : i \in Enqueued' \/ i = r
    BY <1>1, <1>2, InEnqueued, InEnqueuedNext
  <2>3. s \in Enqueued' /\ s.kind = "state"
    BY <1>3, InEnqueuedNext DEF States
  <2>. QED BY <1>2, <2>1, <2>2, <2>3 DEF Reported
<1>5. merges \in Nat /\ merges' # 0
  BY <1>2 DEF SInv, WInv, RInv, Cycles
<1>6. Saves' /\ CacheSaved'
  BY <1>2 DEF SInv, Sayings, Saves, CacheSaved, Running
<1>7. Counted' /\ Keyed'
  BY <1>2, <1>4 DEF SInv, Sayings, Counted, Keyed, Running, States
<1>8. Reporting'
  <2>. SUFFICES ASSUME at \in {"push", "save"}
                PROVE  /\ \A i \in States(Reported') : Batch(i) = cycle => i.payload = memory.cache[i.key] /\ memory.dirty
                       /\ \A k \in Keys : memory.cache[k] # before.cache[k] \/ (memory.full = cycle /\ memory.cache[k] # Gone) =>
                            \E i \in States(Reported') : i.key = k /\ Batch(i) = cycle
                       /\ memory.full = cycle => memory.dirty
    BY <1>2 DEF Reporting
  <2>1. Reporting
    BY DEF SInv, Sayings
  <2>2. \A i \in States(Reported') : i \in States(Reported)
    BY <1>4 DEF States
  <2>3. ASSUME NEW k \in Keys, NEW i \in States(Reported), i.key = k, Batch(i) = cycle
        PROVE  \E j \in States(Reported') : j.key = k /\ Batch(j) = cycle
    <3>1. CASE i = r
      <4>1. Batch(s) <= cycle
        BY DEF SInv, WInv, RInv, Stamped
      <4>2. Batch(s) = cycle
        BY <1>3, <2>3, <3>1, <4>1
      <4>. QED BY <1>1, <1>4, <2>3, <3>1, <4>2 DEF States
    <3>2. CASE i # r
      BY <1>4, <2>3, <3>2 DEF States
    <3>. QED BY <3>1, <3>2
  <2>. QED BY <2>1, <2>2, <2>3 DEF Reporting
<1>9. Honest'
  <2>. SUFFICES ASSUME NEW k \in Keys PROVE \E n \in 0..savedAt : LastSaid(k, n)'
    BY <1>2 DEF Honest
  <2>1. PICK n \in 0..savedAt : LastSaid(k, n)
    BY DEF SInv, Sayings, Honest
  <2>2. \A i \in Told(k)' : i \in Told(k)
    BY <1>2, <1>4 DEF Told, States
  <2>3. \A i \in Told(k) : i \in Told(k)' \/ i = r
    BY <1>2, <1>4 DEF Told, States
  <2>4. n # 0 => (\E i \in Told(k)' : Batch(i) = n) \/ \E q \in States(rows') : q.key = k /\ Batch(q) > n
    <3>. SUFFICES ASSUME n # 0
                  PROVE  (\E i \in Told(k)' : Batch(i) = n) \/ \E q \in States(rows') : q.key = k /\ Batch(q) > n
      OBVIOUS
    <3>1. CASE \E i \in Told(k) : Batch(i) = n
      <4>1. PICK i \in Told(k) : Batch(i) = n
        BY <3>1
      <4>2. CASE i \in Told(k)'
        BY <4>1, <4>2
      <4>3. CASE i = r
        <5>1. r.key = k /\ n <= savedAt /\ n \notin aborted
          BY <4>1, <4>3 DEF Told
        <5>2. CASE Batch(s) = n
          BY <1>1, <1>2, <1>4, <5>1, <5>2 DEF Told, States
        <5>3. CASE Batch(s) > n
          BY <1>1, <1>3, <5>1, <5>3
        <5>. QED BY <1>3, <4>1, <4>3, <5>2, <5>3
      <4>. QED BY <2>3, <4>2, <4>3
    <3>2. CASE \E q \in States(rows) : q.key = k /\ Batch(q) > n
      <4>1. PICK q \in States(rows) : q.key = k /\ Batch(q) > n
        BY <3>2
      <4>2. CASE q = r
        BY <1>1, <1>3, <4>1, <4>2
      <4>3. CASE q # r
        BY <1>1, <4>1, <4>3 DEF States
      <4>. QED BY <4>2, <4>3
    <3>. QED BY <2>1, <3>1, <3>2 DEF LastSaid
  <2>5. LastSaid(k, n)'
    BY <1>2, <1>5, <2>1, <2>2, <2>4 DEF LastSaid
  <2>. QED BY <2>5
<1>10. FullsPast'
  BY <1>2, <1>4 DEF SInv, Sayings, FullsPast, Counting, Filling, States
<1>11. FullThere' /\ FillingThere'
  BY <1>5 DEF FullThere, FillingThere
<1>. QED BY <1>6, <1>7, <1>8, <1>9, <1>10, <1>11 DEF SInv, Sayings

LEMMA SStep == ASSUME SInv, [Next]_vars, StateSyncFails = FALSE PROVE SInv'
<1>1. WInv'
  BY WStep DEF SInv
<1>2. RInv
  BY DEF SInv, WInv
<1>3. ASSUME NEW failed \in SUBSET Collectors, Collect(failed) PROVE SInv'
  BY <1>1, <1>3, SCollect
<1>4. CASE Save
  BY <1>1, <1>4, SSave
<1>5. CASE Merge
  BY <1>1, <1>5, SMerge
<1>6. CASE Push \/ Undo \/ Unchunkable \/ PushFails \/ SaveFails \/ Commit \/ CommitFails \/ Crash \/ Flushes \/ UNCHANGED vars
  <2>1. Quiet
    BY <1>2, <1>6, QuietPush, QuietTakeBack, QuietFails, QuietCrash, QuietFlush
  <2>. QED BY <1>1, <2>1, QuietKeeps
<1>. QED BY <1>3, <1>4, <1>5, <1>6 DEF Next, Flushes

LEMMA SIsHonest == ASSUME SInv PROVE FileHonest
<1>. SUFFICES ASSUME merges = 0, NEW k \in Keys PROVE stateFile.cache[k] = Said(k, savedAt)
  BY DEF FileHonest
<1>1. PICK n \in 0..savedAt : LastSaid(k, n)
  BY DEF SInv, Sayings, Honest
<1>2. Told(k) = {r \in States(Enqueued) : r.key = k /\ Batch(r) <= savedAt /\ Batch(r) \notin aborted}
  BY DEF Told
<1>3. \A i \in Told(k) : Batch(i) \in Nat /\ Batch(i) >= 1 /\ Stamp(i)
  <2>. TAKE i \in Told(k)
  <2>1. i \in Enqueued /\ i.kind = "state"
    BY DEF Told, States
  <2>2. Batch(i) \in 1..cycle
    BY <2>1, ReportedPast DEF SInv, WInv, Reported
  <2>3. Stamp(i)
    BY <2>1, BatchOf, InEnqueued DEF SInv, WInv, Records
  <2>. QED BY <2>2, <2>3
<1>4. savedAt \in Nat /\ n \in Nat
  BY DEF SInv, Sayings, Saves
<1>5. CASE Told(k) = {}
  <2>1. stateFile.cache[k] = Gone
    BY <1>1, <1>5 DEF LastSaid
  <2>. QED BY <1>2, <1>5, <2>1 DEF Said
<1>6. CASE Told(k) # {}
  <2>1. n # 0
    BY <1>1, <1>3, <1>4, <1>6 DEF LastSaid
  <2>2. PICK j \in Told(k) : Batch(j) = n
    BY <1>1, <2>1 DEF LastSaid
  <2>3. \A i \in Told(k) : i.time \in Nat /\ (Batch(i) = n => i.time \in {2 * n, 2 * n + 1}) /\ i.time <= 2 * n + 1
    <3>. TAKE i \in Told(k)
    <3>1. i.time \in Nat /\ i.time >= 2 * Batch(i) /\ i.time <= 2 * Batch(i) + 1 /\ Batch(i) \in Nat
      BY <1>3, StampedNew
    <3>2. Batch(i) <= n
      BY <1>1 DEF LastSaid
    <3>. QED BY <1>4, <3>1, <3>2
  <2>4. \E r \in Told(k) : \A s \in Told(k) : s.time <= r.time
    <3>1. CASE \E r \in Told(k) : r.time = 2 * n + 1
      BY <2>3, <3>1
    <3>2. CASE \A r \in Told(k) : r.time # 2 * n + 1
      <4>1. j.time = 2 * n
        BY <2>2, <2>3, <3>2
      <4>. QED BY <1>4, <2>3, <3>2, <4>1
    <3>. QED BY <3>1, <3>2
  <2>. DEFINE r == CHOOSE q \in Told(k) : \A s \in Told(k) : s.time <= q.time
  <2>5. r \in Told(k) /\ \A s \in Told(k) : s.time <= r.time
    BY <2>4
  <2>6. Said(k, savedAt) = r.payload
    BY <1>2, <1>6 DEF Said
  <2>. HIDE DEF r
  <2>7. Batch(r) = n
    <3>1. r.time >= j.time /\ j.time >= 2 * n
      BY <1>3, <2>2, <2>5, StampedNew
    <3>2. Batch(r) <= n /\ Batch(r) \in Nat /\ r.time <= 2 * Batch(r) + 1 /\ r.time \in Nat /\ j.time \in Nat
      BY <1>1, <1>3, <2>5, StampedNew DEF LastSaid
    <3>. QED BY <1>4, <3>1, <3>2
  <2>. QED BY <1>1, <2>5, <2>6, <2>7 DEF LastSaid
<1>. QED BY <1>5, <1>6

(* Unless the sync of the directory fails after the renaming, the state file  *)
(* holds what was reported and nothing else (savePersistentState after the    *)
(* last Push; restore on every error).                                        *)
THEOREM FileTells == ASSUME StateSyncFails = FALSE PROVE Spec => []FileHonest
<1>1. SInv /\ [Next]_vars => SInv'
  BY SStep
<1>2. SInv => FileHonest
  BY SIsHonest
<1>. QED BY SInit, <1>1, <1>2, PTL DEF Spec

-------------------------------------------------------------------------------
(* What the dashboard shows *)

\* The newest row of a key among those since the watermark.
Recent(k) == {r \in States(rows) : r.key = k /\ r.time >= LatestFull}

\* A row that stands was told, and a full one is no newer than the last full snapshot.
LEMMA RowTold ==
  ASSUME SInv, at = "idle", NEW r \in States(rows), Batch(r) \notin aborted
  PROVE  /\ r \in Told(r.key) /\ r.key \in Keys /\ Batch(r) \in Nat
         /\ r.full => Batch(r) <= fullAt /\ Counting(Batch(r))
<1>1. r \in States(Enqueued) /\ r \in States(Reported)
  BY DEF States, Enqueued, Reported
<1>2. Batch(r) \in 1..cycle
  BY <1>1, ReportedPast DEF SInv, WInv, States
<1>3. Batch(r) <= savedAt
  BY <1>1 DEF SInv, Sayings, Counted, Running
<1>4. Counting(Batch(r))
  BY <1>2 DEF Counting
<1>5. r.full => Batch(r) <= fullAt
  BY <1>1, <1>4 DEF SInv, Sayings, FullsPast, Filling
<1>. QED BY <1>1, <1>2, <1>3, <1>4, <1>5 DEF Told, SInv, Sayings, Keyed

LEMMA MaxOK == ASSUME NEW S, NEW m \in S, \A y \in S : m >= y, S \subseteq Nat PROVE Max(S) = m
<1>1. Max(S) \in S /\ \A y \in S : Max(S) >= y
  BY DEF Max
<1>2. Max(S) \in Nat /\ m \in Nat
  BY <1>1
<1>. QED BY <1>1, <1>2

\* The times of the full snapshots that the manager finds complete.
FullTimes == UNION {{r.time : r \in Snapshot(b)} : b \in {c \in 1..cycle : Complete(c)}}

LEMMA LatestIs == LatestFull = IF FullTimes = {} THEN Never ELSE Max(FullTimes)
  BY DEF LatestFull, FullTimes

LEMMA InFullTimes ==
  ASSUME NEW t
  PROVE  t \in FullTimes <=> \E b \in 1..cycle : Complete(b) /\ \E r \in Snapshot(b) : r.time = t
  BY DEF FullTimes

LEMMA RowStamp == ASSUME SInv, SplitInstant = FALSE, NEW r \in States(rows)
                  PROVE  Batch(r) \in Nat /\ r.time = 2 * Batch(r) /\ Batch(r) \in 1..cycle
  BY DEF SInv, WInv, RInv, Stamped, Stamp

\* Without anything unhealed the watermark is at most the last full snapshot, as
\* it is then the newest that counts.
LEMMA LatestPast ==
  ASSUME SInv, SplitInstant = FALSE, at = "idle",
         \A r \in States(rows) : Batch(r) \in aborted => Batch(r) < fullAt
  PROVE  (\A t \in FullTimes : t \in Nat /\ t <= 2 * fullAt) /\ LatestFull \in Nat /\ LatestFull <= 2 * fullAt
<1>1. fullAt \in Nat
  BY DEF SInv, Sayings, Saves
<1>2. ASSUME NEW t \in FullTimes PROVE t \in Nat /\ t <= 2 * fullAt
  <2>1. PICK b \in 1..cycle : \E r \in Snapshot(b) : r.time = t
    BY InFullTimes
  <2>4. PICK r \in Snapshot(b) : r.time = t
    BY <2>1
  <2>2. r \in States(rows) /\ r.full /\ Batch(r) \in Nat /\ r.time = 2 * Batch(r)
    BY <2>4, RowStamp DEF Snapshot
  <2>3. Batch(r) <= fullAt
    BY <1>1, <2>2, RowTold
  <2>. QED BY <1>1, <2>4, <2>2, <2>3
<1>3. CASE FullTimes = {}
  BY <1>1, <1>2, <1>3, LatestIs DEF Never
<1>4. CASE FullTimes # {}
  <2>1. \E m \in FullTimes : \A t \in FullTimes : m >= t
    <3>. DEFINE D == {n \in Nat : \A t \in FullTimes : t <= n}
    <3>1. PICK d \in D : \A n \in D : d <= n
      <4>1. 2 * fullAt \in D
        BY <1>1, <1>2
      <4>. QED BY <4>1, Least
    <3>2. CASE d \in FullTimes
      BY <1>2, <3>1, <3>2
    <3>3. CASE d \notin FullTimes
      <4>1. \A t \in FullTimes : t \in Nat /\ t < d
        BY <1>2, <3>1, <3>3
      <4>2. d # 0 /\ d \in Nat
        BY <1>4, <3>1, <4>1
      <4>3. d - 1 \in D
        BY <4>1, <4>2
      <4>. QED BY <3>1, <4>2, <4>3
    <3>. QED BY <3>2, <3>3
  <2>2. PICK m \in FullTimes : \A t \in FullTimes : m >= t
    BY <2>1
  <2>3. LatestFull = m
    BY <1>2, <1>4, <2>2, LatestIs, MaxOK
  <2>. QED BY <1>2, <2>2, <2>3
<1>. QED BY <1>2, <1>3, <1>4

\* As long as no merge dropped a row of it, the last full snapshot is the watermark.
LEMMA LatestWhole ==
  ASSUME SInv, SplitInstant = FALSE, at = "idle", queue = {}, merges = 0, fullAt # Never,
         \A i \in Unhealed : Batch(i) < fullAt
  PROVE  LatestFull = 2 * fullAt
<1>1. fullAt \in 1..cycle /\ fullAt \in Nat /\ fullAt \notin aborted /\ fullAt \in 1..MaxCycles
  BY CollectionAssumption DEF SInv, Sayings, Saves, Never, WInv, RInv, Cycles
<1>2. \A i \in States(Enqueued) : Batch(i) = fullAt => i \in States(rows)
  <2>1. \A i \in Enqueued : i \in rows \/ i \in Contents(dead)
    BY DEF Enqueued, Contents
  <2>. QED BY <1>1, <2>1 DEF Unhealed, States
<1>3. FullThere
  BY DEF SInv, Sayings
<1>4. PICK i \in States(Enqueued) : i.full /\ Batch(i) = fullAt
  BY <1>3 DEF FullThere
<1>5. i \in Snapshot(fullAt)
  BY <1>2, <1>4 DEF Snapshot
<1>6. Complete(fullAt)
  <2>. DEFINE K == {s.key : s \in Snapshot(fullAt)}
  <2>1. \A s \in Snapshot(fullAt) : s \in States(rows) /\ s.full /\ Batch(s) = fullAt
    BY DEF Snapshot
  <2>2. \A s \in Snapshot(fullAt) : s.key \in Keys /\ Counting(fullAt)
    BY <1>1, <2>1, RowTold
  <2>3. IsFiniteSet(K)
    BY <2>2, CollectionAssumption, FS_Subset
  <2>4. collected[fullAt] \subseteq K
    <3>. SUFFICES ASSUME NEW k \in collected[fullAt] PROVE k \in K
      OBVIOUS
    <3>1. PICK s \in States(Enqueued) : s.full /\ Batch(s) = fullAt /\ s.key = k
      BY <1>3 DEF FullThere
    <3>. QED BY <1>2, <3>1 DEF Snapshot
  <2>5. Cardinality(collected[fullAt]) <= Cardinality(K)
    BY <2>3, <2>4, FS_Subset
  <2>6. ASSUME NEW s \in Snapshot(fullAt) PROVE s.count = Cardinality(collected[fullAt])
    <3>1. s \in States(Reported)
      BY <2>1 DEF States, Reported, Enqueued
    <3>2. s.count = Cardinality(PresentAt(fullAt))
      BY <2>1, <2>2, <3>1 DEF SInv, WInv, FullCounts
    <3>. QED BY <3>2 DEF PresentAt
  <2>7. Cardinality(K) \in Nat /\ Cardinality(collected[fullAt]) \in Nat
    BY <2>3, <2>4, FS_Subset, FS_CardinalityType
  <2>8. Cardinality(K) >= Cardinality(collected[fullAt])
    BY <2>5, <2>7
  <2>. QED BY <1>5, <2>6, <2>8 DEF Complete
<1>7. 2 * fullAt \in FullTimes
  <2>1. i.time = 2 * fullAt
    BY <1>2, <1>4, RowStamp
  <2>. QED BY <1>1, <1>5, <1>6, <2>1, InFullTimes
<1>8. \A t \in FullTimes : t \in Nat /\ t <= 2 * fullAt
  BY LatestPast DEF Unhealed
<1>9. PICK m \in FullTimes : m = 2 * fullAt
  BY <1>7
<1>. QED BY <1>8, <1>9, LatestIs, MaxOK

LEMMA SIsShown == ASSUME SInv, SplitInstant = FALSE PROVE DashboardTrue
<1>. SUFFICES ASSUME at = "idle", queue \cup unindexed \cup peeked = {}, fullAt # Never,
                     \A i \in Unhealed : Batch(i) < fullAt /\ merges = 0
              PROVE  View = reported
  BY DEF DashboardTrue
<1>1. queue = {} /\ fullAt \in Nat /\ fullAt >= 1
  BY DEF SInv, Sayings, Saves, Never
<1>2. LatestFull \in Nat /\ LatestFull <= 2 * fullAt
  BY LatestPast DEF Unhealed
<1>3. reported = stateFile.cache /\ reported \in Inventories
  BY DEF SInv, Sayings, CacheSaved, WInv, RInv, IInv, TypeOK
<1>4. merges = 0 => LatestFull = 2 * fullAt
  BY <1>1, LatestWhole
<1>5. merges # 0 => Unhealed = {}
  OBVIOUS
<1>6. ASSUME NEW k \in Keys, NEW r \in Recent(k) PROVE r \in Told(k) /\ r \in States(rows) /\ r.time = 2 * Batch(r) /\ Batch(r) \in Nat
  <2>1. r \in States(rows) /\ r.key = k /\ r.time >= LatestFull
    BY DEF Recent
  <2>2. r.time = 2 * Batch(r) /\ Batch(r) \in Nat
    BY <2>1, RowStamp
  <2>3. Batch(r) \notin aborted
    BY <1>1, <1>4, <2>1, <2>2 DEF Unhealed
  <2>. QED BY <2>1, <2>2, <2>3, RowTold
<1>7. ASSUME NEW k \in Keys, NEW n \in 0..savedAt, LastSaid(k, n), n # 0, 2 * n >= LatestFull
      PROVE  \E j \in Recent(k) : Batch(j) = n
  <2>1. n \in Nat
    BY DEF SInv, Sayings, Saves
  <2>2. ASSUME NEW s \in States(rows), s.key = k, Batch(s) > n, merges # 0 PROVE FALSE
    <3>1. s \in Told(k) /\ Batch(s) \in Nat
      BY <1>5, <2>2, RowTold, RowStamp DEF Unhealed
    <3>. QED BY <1>7, <2>1, <2>2, <3>1 DEF LastSaid
  <2>3. PICK j \in Told(k) : Batch(j) = n
    BY <1>7, <2>2 DEF LastSaid
  <2>4. j \in rows
    <3>1. j \in rows \/ j \in States(Contents(dead))
      BY <1>1 DEF Told, States, Enqueued, Contents
    <3>2. j \notin Unhealed
      <4>1. merges = 0 => n >= fullAt
        BY <1>1, <1>4, <1>7, <2>1
      <4>. QED BY <1>1, <1>5, <2>1, <2>3, <4>1
    <3>. QED BY <3>1, <3>2 DEF Unhealed
  <2>5. j \in States(rows) /\ j.key = k
    BY <2>4 DEF Told, States
  <2>6. j.time = 2 * n
    BY <2>3, <2>5, RowStamp
  <2>. QED BY <1>7, <2>3, <2>5, <2>6 DEF Recent
<1>8. ASSUME NEW k \in Keys PROVE View[k] = reported[k]
  <2>1. PICK n \in 0..savedAt : LastSaid(k, n)
    BY DEF SInv, Sayings, Honest
  <2>2. n \in Nat
    BY DEF SInv, Sayings, Saves
  <2>3. View[k] = IF Recent(k) = {} THEN Gone
                  ELSE (CHOOSE r \in Recent(k) : \A s \in Recent(k) : s.time <= r.time).payload
    BY DEF View, Recent
  <2>4. CASE Recent(k) = {}
    <3>1. ASSUME reported[k] # Gone PROVE FALSE
      <4>1. n >= fullAt /\ n # 0
        BY <1>1, <1>3, <2>1, <2>2, <3>1 DEF LastSaid
      <4>2. 2 * n >= LatestFull
        BY <1>1, <1>2, <2>2, <4>1
      <4>. QED BY <1>7, <2>1, <2>4, <4>1, <4>2
    <3>. QED BY <2>3, <2>4, <3>1
  <2>5. CASE Recent(k) # {}
    <3>1. PICK s \in Recent(k) : TRUE
      BY <2>5
    <3>2. s \in Told(k) /\ s \in States(rows) /\ s.time = 2 * Batch(s) /\ Batch(s) \in Nat /\ s.time >= LatestFull
      BY <1>6 DEF Recent
    <3>3. Batch(s) >= 1
      <4>1. Batch(s) \in 1..cycle
        BY <3>2, RowStamp
      <4>. QED BY <4>1
    <3>4. n # 0 /\ 2 * n >= LatestFull
      BY <1>2, <2>1, <2>2, <3>2, <3>3 DEF LastSaid
    <3>5. PICK j \in Recent(k) : Batch(j) = n
      BY <1>7, <2>1, <3>4
    <3>6. \A q \in Recent(k) : q.time <= j.time /\ q.time \in Nat /\ j.time \in Nat
      <4>. TAKE q \in Recent(k)
      <4>1. q \in Told(k) /\ q.time = 2 * Batch(q) /\ Batch(q) \in Nat /\ j.time = 2 * Batch(j) /\ Batch(j) \in Nat
        BY <1>6
      <4>2. Batch(q) <= n
        BY <2>1, <4>1 DEF LastSaid
      <4>. QED BY <2>2, <3>5, <4>1, <4>2
    <3>. DEFINE r == CHOOSE q \in Recent(k) : \A p \in Recent(k) : p.time <= q.time
    <3>7. r \in Recent(k) /\ \A p \in Recent(k) : p.time <= r.time
      BY <3>6
    <3>8. View[k] = r.payload
      BY <2>3, <2>5
    <3>. HIDE DEF r
    <3>9. r \in Told(k) /\ r.time = 2 * Batch(r) /\ Batch(r) \in Nat /\ j.time = 2 * n
      BY <1>6, <3>5, <3>7
    <3>10. j.time <= r.time /\ Batch(r) <= n
      BY <2>1, <3>7, <3>9 DEF LastSaid
    <3>11. Batch(r) = n
      BY <2>2, <3>9, <3>10
    <3>. QED BY <1>3, <2>1, <3>8, <3>9, <3>11 DEF LastSaid
  <2>. QED BY <2>4, <2>5
<1>9. View = [k \in Keys |-> View[k]]
  BY DEF View
<1>10. reported = [k \in Keys |-> reported[k]]
  BY <1>3 DEF Inventories
<1>. QED BY <1>8, <1>9, <1>10

(* When all is delivered the dashboard shows the inventory that was last      *)
(* collected: whatever went wrong before the last full snapshot is healed by  *)
(* it (filterStateChanges with queryDashboardStateRowsByType), provided both  *)
(* readings of a cycle's clock agree.                                         *)
THEOREM DashboardShows ==
  ASSUME StateSyncFails = FALSE, SplitInstant = FALSE
  PROVE  Spec => []DashboardTrue
<1>1. SInv /\ [Next]_vars => SInv'
  BY SStep
<1>2. SInv => DashboardTrue
  BY SIsShown
<1>. QED BY SInit, <1>1, <1>2, PTL DEF Spec
===============================================================================
