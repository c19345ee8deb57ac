------------------------------ MODULE Collection ------------------------------
(* The agent's runtime (agent/internal/agent): CollectOnce asks the due       *)
(* collectors, reduces an inventory to its changes, cuts the cycle's items    *)
(* into chunks, enqueues them all, saves the cache the changes were computed  *)
(* from and lets the log tailer commit its cursor; FlushPending sends what is *)
(* queued, in another goroutine.  The two files and the queue are three       *)
(* separate places: a step that fails takes the cycle back, a crash does not. *)
(*                                                                            *)
(* What arrives becomes rows of manager_state_snapshots, and the manager      *)
(* shows an inventory from the rows alone: the query is the operator View.    *)
(*                                                                            *)
(* Two collectors stand for the two kinds there are: "inventory" reports      *)
(* states of one type and is subject to the delta filter, "log" reads lines   *)
(* behind a cursor.  The queue is a set of records, its operations atomic:    *)
(* module Spool has their steps.  Time is counted in cycles.                  *)
EXTENDS Integers, FiniteSets, FiniteSetsExt, TLC

CONSTANTS
  Keys, Payloads,  \* what an inventory is made of
  Gone,            \* no entry for a key, or a tombstone
  MaxItems,        \* MaxBatchItems
  PageLines,       \* lines the log tailer reads at once
  Interval,        \* CollectorIntervals, by collector
  RetryInterval,   \* collectorFailureRetryInterval
  FullInterval,    \* CollectorFullIntervals of the inventory
  SplitInstant,    \* whether a cycle may read its two clocks in different milliseconds
  StateSyncFails,  \* whether the directory sync may fail after the state file was renamed
  MaxCycles, MaxLines, MaxChanges, MaxFaults, MaxCrashes, MaxMerges  \* bounds

Collectors == {"inventory", "log"}
\* For TLC: the log is read in every second cycle only; keys are alike.
LogSeldom == [c \in Collectors |-> IF c = "log" THEN 2 ELSE 1]
KeysAlike == Permutations(Keys)
Never == 0
NoCursor == -1

ASSUME CollectionAssumption ==
  /\ IsFiniteSet(Keys) /\ Gone \notin Payloads
  /\ MaxItems \in Nat \ {0} /\ PageLines \in Nat \ {0}
  /\ Interval \in [Collectors -> Nat \ {0}] /\ RetryInterval \in Nat \ {0}
  /\ FullInterval \in Nat \ {0}
  /\ SplitInstant \in BOOLEAN /\ StateSyncFails \in BOOLEAN
  /\ MaxCycles \in Nat /\ MaxLines \in Nat /\ MaxChanges \in Nat
  /\ MaxFaults \in Nat /\ MaxCrashes \in Nat /\ MaxMerges \in Nat

VARIABLES
  host, written,    \* the host: its inventory and the lines of its log
  cycle, at,        \* the number of the cycle, and where in CollectOnce it is
  todo, index,      \* items of the cycle not yet enqueued; chunks enqueued
  memory, before,   \* the fields of Agent a cycle may change; their values at its start
  cursor, pending,  \* the log tailer's committed and pending cursor
  stateFile, cursorFile, queue,  \* the files
  unindexed,        \* records whose Push failed when they were already on disk
  peeked,           \* what FlushPending has read and not yet handled
  rows, dead,       \* what was delivered; the dead letters
  reported, fullAt, collected, savedAt, aborted, merges,  \* history
  changes, faults, crashes

env     == <<host, written, changes>>
log     == <<cursor, pending>>
run     == <<cycle, at, todo, index, before>>
disk    == <<stateFile, cursorFile>>
spool   == <<queue, unindexed>>
arrived == <<rows, dead>>
history == <<reported, fullAt, collected, savedAt, aborted, merges>>
bounds  == <<faults, crashes>>
vars == <<env, log, run, memory, disk, spool, peeked, arrived, history, bounds>>

-------------------------------------------------------------------------------
(* Items, records, and the inventories they describe *)

Inventories == [Keys -> Payloads \cup {Gone}]
Empty == [k \in Keys |-> Gone]
Present(inv) == {k \in Keys : inv[k] # Gone}

\* time is the observed_at of the row, in half milliseconds so to speak: both
\* readings of cycle c are 2c unless a millisecond ends between them.
State(k, p, full, count, time) ==
  [kind |-> "state", key |-> k, payload |-> p, full |-> full, count |-> count, time |-> time]
Line(n) == [kind |-> "line", line |-> n]
Event == [kind |-> "event"]    \* a heartbeat, or a collector_error

States(items) == {i \in items : i.kind = "state"}
Lines(items)  == {i.line : i \in {j \in items : j.kind = "line"}}
Batch(row)    == row.time \div 2   \* the cycle, which snapshot_id stands for

Contents(records) == UNION {r.items : r \in records}
Older(r, s) == r.cycle < s.cycle \/ (r.cycle = s.cycle /\ r.index < s.index)
Oldest(records) == CHOOSE r \in records : \A s \in records \ {r} : Older(r, s)

\* Everything the agent ever enqueued and did not take back.
Enqueued == rows \cup Contents(queue \cup dead)

-------------------------------------------------------------------------------
(* CollectOnce *)

Fault == faults < MaxFaults /\ faults' = faults + 1 /\ UNCHANGED crashes

\* collectorDue: a collector that failed is asked again sooner.
Patience(m, c) == IF c \in m.failed /\ Interval[c] > RetryInterval THEN RetryInterval
                                                                   ELSE Interval[c]
DueWith(m, c, now) == m.collected[c] = Never \/ now - m.collected[c] >= Patience(m, c)
Due(c, now) == DueWith(memory, c, now)

\* filterStateChanges
FullDue(now) == \/ memory.cache = Empty \/ memory.full = Never
                \/ now - memory.full >= FullInterval
\* A mutant: a delta without tombstones.
ReportsFullGone(inv, now, late) ==
  {State(k, inv[k], FullDue(now), Cardinality(Present(inv)), 2 * now) :
     k \in {l \in Present(inv) : FullDue(now) \/ memory.cache[l] # inv[l]}}
  \cup {State(k, Gone, TRUE, Cardinality(Present(inv)), 2 * now + late) :
          k \in {l \in Present(memory.cache) \ Present(inv) : FullDue(now)}}
Reports(inv, now, late) ==
  LET full == FullDue(now)
      count == Cardinality(Present(inv))
  IN  {State(k, inv[k], full, count, 2 * now) :
         k \in {l \in Present(inv) : full \/ memory.cache[l] # inv[l]}}
      \cup {State(k, Gone, full, count, 2 * now + late) :
              k \in Present(memory.cache) \ Present(inv)}

\* A mutant: the cursor is put behind a line end that is still to be written.
PageBeyond == IF written > cursor THEN written + 1 ELSE cursor

\* collectIncrementalFilePage reads a page of lines behind the committed cursor.
PageEnd == IF written - cursor > PageLines THEN cursor + PageLines ELSE written

Noted(failed, now, due) ==
  [memory EXCEPT !.collected = [c \in Collectors |-> IF c \in due THEN now ELSE @[c]],
                 !.failed = (@ \ due) \cup failed]
Filtered(noted, now) ==
  [noted EXCEPT !.cache = host, !.full = IF FullDue(now) THEN now ELSE @,
                !.dirty = @ \/ FullDue(now) \/ memory.cache # host]

\* The collectors are asked one after the other; what they read and leave in
\* memory concerns nobody else, so all of them together are one step.  failed
\* are those that return an error: their cache and the cursor stay.
Collect(failed) ==
  LET now == cycle + 1
      due == {c \in Collectors : Due(c, now)}
      noted == Noted(failed, now, due)
  IN  /\ at = "idle" /\ cycle < MaxCycles /\ failed \subseteq due
      /\ IF failed = {} THEN UNCHANGED bounds ELSE Fault
      /\ cycle' = now /\ before' = memory /\ at' = "push" /\ index' = 0
      /\ memory' = IF "inventory" \in due \ failed THEN Filtered(noted, now) ELSE noted
      /\ pending' = IF "log" \notin due THEN pending
                    ELSE IF "log" \in failed \/ PageEnd = cursor THEN NoCursor ELSE PageEnd
      /\ \E late \in IF SplitInstant THEN {0, 1} ELSE {0} :
           LET items == (IF failed = {} THEN {} ELSE {Event})
                 \cup (IF "inventory" \in due \ failed THEN Reports(host, now, late) ELSE {})
                 \cup (IF "log" \in due \ failed THEN {Line(n) : n \in cursor + 1 .. PageEnd} ELSE {})
           IN  todo' = IF items = {} THEN {Event} ELSE items
      /\ UNCHANGED <<env, cursor, disk, spool, peeked, arrived, history>>

\* Two mutants: the times of the cycle stay, or its cache stays.
TakeBackCache ==
  /\ memory' = [before EXCEPT !.collected = memory.collected]
  /\ at' = "idle" /\ todo' = {} /\ index' = 0 /\ aborted' = aborted \cup {cycle}
TakeBackTimes ==
  /\ memory' = [memory EXCEPT !.collected = before.collected, !.failed = before.failed]
  /\ at' = "idle" /\ todo' = {} /\ index' = 0 /\ aborted' = aborted \cup {cycle}

\* An error takes back what the cycle did to the agent's fields; the log tailer
\* keeps its pending cursor.
TakeBack ==
  /\ memory' = before /\ at' = "idle" /\ todo' = {} /\ index' = 0
  /\ aborted' = aborted \cup {cycle}

\* chunkBatch finds an item that is too large: nothing was enqueued.
Unchunkable ==
  /\ at = "push" /\ index = 0 /\ Fault /\ TakeBack
  /\ UNCHANGED <<env, log, cycle, before, disk, spool, peeked, arrived,
                 reported, fullAt, collected, savedAt, merges>>

\* A mutant: the tombstones come first.
RankGoneFirst(i) == CASE i.kind = "event" -> 0
                      [] i.kind = "line"  -> 2 + i.line
                      [] i.kind = "state" -> IF i.payload = Gone THEN 1 ELSE 2

\* The order of the items: the inventory, in any order, its tombstones, the log.
Rank(i) == CASE i.kind = "event" -> 0
             [] i.kind = "line"  -> 2 + i.line
             [] i.kind = "state" -> IF i.payload = Gone THEN 2 ELSE 1

Chunks == {c \in SUBSET todo : /\ Cardinality(c) = IF Cardinality(todo) < MaxItems
                                                   THEN Cardinality(todo) ELSE MaxItems
                               /\ \A i \in c, j \in todo \ c : Rank(i) <= Rank(j)}

NextRecord(chunk) == [cycle |-> cycle, index |-> index, items |-> chunk]

Push ==
  /\ at = "push" /\ \E c \in Chunks : queue' = queue \cup {NextRecord(c)} /\ todo' = todo \ c
  /\ index' = index + 1 /\ at' = IF todo' = {} THEN "save" ELSE "push"
  /\ UNCHANGED <<env, log, cycle, before, memory, disk, unindexed, peeked, arrived, history, bounds>>

\* Push returns an error, possibly after the record was renamed into place.
PushFails ==
  /\ at = "push" /\ Fault /\ at' = "undo"
  /\ \/ UNCHANGED unindexed
     \/ \E c \in Chunks : unindexed' = unindexed \cup {NextRecord(c)}
  /\ UNCHANGED <<env, log, cycle, todo, index, before, memory, disk, queue, peeked, arrived, history>>

\* rollbackPushed: Ack removes the records of the cycle, the oldest first,
\* unless one of the removals fails.  The sender may have taken them already.
Undo ==
  LET pushed == {r \in queue : r.cycle = cycle}
  IN  /\ at = "undo" /\ TakeBack
      /\ \/ queue' = queue \ pushed /\ UNCHANGED bounds
         \/ \E r \in pushed : queue' = queue \ {s \in pushed : Older(s, r)} /\ Fault
      /\ UNCHANGED <<env, log, cycle, before, disk, unindexed, peeked, arrived,
                     reported, fullAt, collected, savedAt, merges>>

\* The cycle counts from here on: the cache is in the file, if it changed.
Committed ==
  /\ reported' = memory.cache
  /\ collected' = [collected EXCEPT ![cycle] = Present(memory.cache)]
  /\ fullAt' = IF memory.full = cycle /\ {memory.cache, before.cache} # {Empty}
               THEN cycle ELSE fullAt
  /\ UNCHANGED <<aborted, merges>>

Save ==
  /\ at = "save" /\ at' = "commit" /\ Committed
  /\ IF memory.dirty THEN /\ stateFile' = [cache |-> memory.cache, full |-> memory.full]
                          /\ savedAt' = cycle
                     ELSE UNCHANGED <<stateFile, savedAt>>
  /\ memory' = [memory EXCEPT !.dirty = FALSE]
  /\ UNCHANGED <<env, log, cycle, todo, index, before, cursorFile, spool, peeked, arrived, bounds>>

\* savePersistentState fails, at worst when the new file is in place.
SaveFails ==
  /\ at = "save" /\ memory.dirty /\ Fault /\ at' = "undo"
  /\ \/ UNCHANGED <<stateFile, savedAt>>
     \/ /\ StateSyncFails /\ savedAt' = cycle
        /\ stateFile' = [cache |-> memory.cache, full |-> memory.full]
  /\ UNCHANGED <<env, log, cycle, todo, index, before, memory, cursorFile, spool, peeked, arrived,
                 reported, fullAt, collected, aborted, merges>>

\* The cycle is over, and its variables with it.
Return == at' = "idle" /\ index' = 0 /\ before' = memory

\* CommitPendingCursor, whether or not the log was read in this cycle.
Commit ==
  /\ at = "commit" /\ Return
  /\ IF pending = NoCursor THEN UNCHANGED <<cursor, cursorFile>>
     ELSE cursor' = pending /\ cursorFile' = pending
  /\ pending' = NoCursor
  /\ UNCHANGED <<env, cycle, todo, memory, stateFile, spool, peeked, arrived, history, bounds>>

CommitFails ==
  /\ at = "commit" /\ pending # NoCursor /\ Fault /\ Return
  /\ UNCHANGED <<env, log, cycle, todo, memory, disk, spool, peeked, arrived, history>>

-------------------------------------------------------------------------------
(* FlushPending, in its own goroutine *)

Peek ==
  /\ peeked = {} /\ queue # {} /\ peeked' = queue
  /\ UNCHANGED <<env, log, run, memory, disk, spool, arrived, history, bounds>>

\* The record is sent and acknowledged; it may have left the queue before.
Deliver ==
  /\ peeked # {}
  /\ LET r == Oldest(peeked)
     IN  rows' = rows \cup (r.items \ {Event}) /\ queue' = queue \ {r} /\ peeked' = peeked \ {r}
  /\ UNCHANGED <<env, log, run, memory, disk, unindexed, dead, history, bounds>>

\* The server took the record, but the reply is lost or Ack fails.
DeliverUnacknowledged ==
  /\ peeked # {} /\ Fault
  /\ rows' = rows \cup (Oldest(peeked).items \ {Event}) /\ peeked' = {}
  /\ UNCHANGED <<env, log, run, memory, disk, spool, dead, history>>

\* The error is permanent: Reject moves the record, if it is still there.
Refuse ==
  /\ peeked # {} /\ Fault
  /\ LET r == Oldest(peeked)
     IN  IF r \in queue THEN dead' = dead \cup {r} /\ queue' = queue \ {r} /\ peeked' = peeked \ {r}
                        ELSE peeked' = {} /\ UNCHANGED <<dead, queue>>
  /\ UNCHANGED <<env, log, run, memory, disk, unindexed, rows, history>>

\* The error is transient: the next call begins with a new Peek.
SendFails ==
  /\ peeked # {} /\ peeked' = {}
  /\ UNCHANGED <<env, log, run, memory, disk, spool, arrived, history, bounds>>

-------------------------------------------------------------------------------
(* The agent's death and restart (New, loadPersistentState, spool.Open) *)

Loaded == [cache |-> stateFile.cache, full |-> stateFile.full, dirty |-> FALSE,
           collected |-> [c \in Collectors |-> Never], failed |-> {}]

Crash ==
  /\ crashes < MaxCrashes /\ crashes' = crashes + 1 /\ UNCHANGED faults
  /\ memory' = Loaded /\ before' = Loaded /\ cursor' = cursorFile /\ pending' = NoCursor
  /\ at' = "idle" /\ todo' = {} /\ index' = 0 /\ peeked' = {}
  /\ queue' = queue \cup unindexed /\ unindexed' = {}
  /\ aborted' = IF at \in {"push", "save", "undo"} THEN aborted \cup {cycle} ELSE aborted
  /\ UNCHANGED <<env, cycle, disk, arrived, reported, fullAt, collected, savedAt, merges>>

-------------------------------------------------------------------------------
(* The host and the store, which are external.  Only Collect looks at the     *)
(* host: a change during a cycle is as good as one after it.                  *)

HostChanges ==
  /\ at = "idle" /\ changes < MaxChanges /\ changes' = changes + 1
  /\ \E k \in Keys, p \in Payloads \cup {Gone} :
       p # host[k] /\ host' = [host EXCEPT ![k] = p]
  /\ UNCHANGED <<written, log, run, memory, disk, spool, peeked, arrived, history, bounds>>

LogGrows ==
  /\ at = "idle" /\ written < MaxLines /\ written' = written + 1
  /\ UNCHANGED <<host, changes, log, run, memory, disk, spool, peeked, arrived, history, bounds>>

\* ReplacingMergeTree(observed_at): a merge drops a row that has been replaced.
Merge ==
  /\ merges < MaxMerges /\ merges' = merges + 1
  /\ \E r, s \in States(rows) : r.key = s.key /\ r.time < s.time /\ rows' = rows \ {r}
  /\ UNCHANGED <<env, log, run, memory, disk, spool, peeked, dead,
                 reported, fullAt, collected, savedAt, aborted, bounds>>

-------------------------------------------------------------------------------
Init ==
  /\ host \in Inventories /\ written = 0 /\ changes = 0
  /\ cycle = 0 /\ at = "idle" /\ todo = {} /\ index = 0
  /\ memory = [cache |-> Empty, full |-> Never, dirty |-> FALSE,
               collected |-> [c \in Collectors |-> Never], failed |-> {}]
  /\ before = memory /\ cursor = 0 /\ pending = NoCursor
  /\ stateFile = [cache |-> Empty, full |-> Never] /\ cursorFile = 0
  /\ queue = {} /\ unindexed = {} /\ peeked = {} /\ rows = {} /\ dead = {}
  /\ reported = Empty /\ fullAt = Never /\ savedAt = Never /\ aborted = {}
  /\ collected = [c \in 1..MaxCycles |-> {}] /\ merges = 0
  /\ faults = 0 /\ crashes = 0

Next == \/ \E failed \in SUBSET Collectors : Collect(failed)
        \/ Unchunkable \/ Push \/ PushFails \/ Undo \/ Save \/ SaveFails \/ Commit \/ CommitFails
        \/ Peek \/ Deliver \/ DeliverUnacknowledged \/ Refuse \/ SendFails
        \/ Crash \/ HostChanges \/ LogGrows \/ Merge

Spec == Init /\ [][Next]_vars

-------------------------------------------------------------------------------
(* The manager's query (ClickHouseClient.queryDashboardStateRowsByType) *)

Snapshot(b) == {r \in States(rows) : r.full /\ Batch(r) = b}
Complete(b) == /\ Snapshot(b) # {}
               /\ \A r \in Snapshot(b) : Cardinality({s.key : s \in Snapshot(b)}) >= r.count

\* complete_full_snapshots and latest_full: the newest time of a row of a
\* complete full snapshot.
LatestFull ==
  LET times == UNION {{r.time : r \in Snapshot(b)} : b \in {c \in 1..cycle : Complete(c)}}
  IN  IF times = {} THEN Never ELSE Max(times)

\* current_states: argMax(state_json, observed_at) of the rows since then.
View ==
  [k \in Keys |->
    LET recent == {r \in States(rows) : r.key = k /\ r.time >= LatestFull}
    IN  IF recent = {} THEN Gone
        ELSE (CHOOSE r \in recent : \A s \in recent : s.time <= r.time).payload]

-------------------------------------------------------------------------------
(* Properties *)

Memories == [cache : Inventories, full : Nat, dirty : BOOLEAN,
             collected : [Collectors -> Nat], failed : SUBSET Collectors]

\* The shape of the state, and that both cursors of the log tailer agree and
\* never run ahead of the log.
TypeOK ==
  /\ host \in Inventories /\ written \in Nat /\ cycle \in Nat /\ index \in Nat
  /\ at \in {"idle", "push", "undo", "save", "commit"}
  /\ memory \in Memories /\ before \in Memories
  /\ cursor \in 0..written /\ pending \in (cursor + 1 .. written) \cup {NoCursor}
  /\ cursorFile = cursor
  /\ stateFile.cache \in Inventories /\ stateFile.full \in Nat

\* The log tailer's cursor never passes a line that is not in the queue, in a
\* dead letter or with the server: replay is possible, a gap is not.
NoLineSkipped == \A n \in 1..cursorFile : n \in Lines(Enqueued)

\* What no step of the running cycle takes away again: a cycle that may still
\* be undone counts with what has left the queue only.
Kept == rows \cup Contents(dead \cup {r \in queue : at \in {"push", "undo", "save"} => r.cycle # cycle})
Covered(from, to, items) == \A n \in from..to : n \in Lines(items)

\* The inductive invariant behind NoLineSkipped (proved in CollectionProofs).  A
\* pending cursor is behind lines that are being enqueued or already are; where
\* it is neither, the log is due before the next commit, and reading the log
\* begins with a new pending cursor.
CursorBehind == Covered(1, cursor, Kept)
PendingBehind ==
  pending # NoCursor =>
    /\ at \in {"push", "save", "commit"} => Covered(cursor + 1, pending, todo \cup Enqueued)
    /\ at = "idle" => Due("log", cycle + 1) \/ Covered(cursor + 1, pending, Kept)
    /\ at \in {"push", "undo", "save"} =>
         DueWith(before, "log", cycle) \/ Covered(cursor + 1, pending, Kept)
RecordsPast == \A r \in queue \cup unindexed : r.cycle \in 0..cycle
TodoDone == at \in {"save", "commit"} => todo = {}
IInv == TypeOK /\ CursorBehind /\ PendingBehind /\ RecordsPast /\ TodoDone

\* What the newest report on k says, among those of cycles up to c that were
\* not taken back.
Said(k, c) ==
  LET about == {r \in States(Enqueued) : r.key = k /\ Batch(r) <= c /\ Batch(r) \notin aborted}
  IN  IF about = {} THEN Gone ELSE (CHOOSE r \in about : \A s \in about : s.time <= r.time).payload

\* The state file holds what was reported and nothing else, so that an agent
\* that starts from it reports every change there has been since.
FileHonest == merges = 0 => \A k \in Keys : stateFile.cache[k] = Said(k, savedAt)

\* A full snapshot that the manager takes as its watermark has arrived whole,
\* as long as its cycle was not taken back and none of it refused: while it is
\* on its way it hides nothing it does not replace.
WatermarkWhole ==
  \A b \in 1..cycle :
    (Complete(b) /\ b \notin aborted /\ \A d \in dead : d.cycle # b)
    => \A k \in collected[b] : \E r \in States(rows) : r.key = k /\ r.time >= 2 * b

\* What no later delta heals: refused reports, and reports of a cycle taken back.
Unhealed == States(Contents(dead)) \cup {r \in States(rows) : Batch(r) \in aborted}

\* When all is delivered the dashboard shows the inventory the agent last
\* collected: whatever went wrong before the last full snapshot is healed by
\* it, until a merge drops a row of that snapshot, which then no longer counts
\* as complete.
DashboardTrue ==
  (/\ at = "idle" /\ queue \cup unindexed \cup peeked = {} /\ fullAt # Never
   /\ \A i \in Unhealed : Batch(i) < fullAt /\ merges = 0)
  => View = reported
===============================================================================
