-------------------------------- MODULE Spool --------------------------------
(***************************************************************************)
(* The agent's durable queue (src/agent/internal/spool/spool.go): one JSON *)
(* file per record under queue/, dead letters under deadletter/, and an    *)
(* in-memory index rebuilt from the two directories at every start.        *)
(*                                                                         *)
(* A call holds q.mu from its first step to its return, so at most one     *)
(* call is in progress (op); each file operation is a step of its own, and *)
(* the process may die, or a file may be damaged, between any two of them. *)
(* The callers are the collection loop, which pushes a batch and removes   *)
(* it again when the batch cannot be completed, and the sender loop, which *)
(* peeks and disposes of what it was handed (agent.go).                    *)
(*                                                                         *)
(* A record's name starts with the time it was created, so identifiers are *)
(* numbers: their order is the order of the file names, and Stamp gives    *)
(* the creation time.  The clock does not move while a call runs; it may   *)
(* step backwards only while the process is down (Go compares two readings *)
(* of one process by its monotonic clock).                                 *)
(***************************************************************************)
EXTENDS Integers, FiniteSets, FiniteSetsExt

CONSTANTS
  Ids,          \* every name newID can return, in file-name order
  DiagIds,      \* those kept for diagnostics of damaged records
  LegacyIds,    \* the records of a queue.ndjson left by an older agent
  Stamp,        \* Stamp[id]: the clock reading a name was generated at
  Size,         \* Size[id]: bytes of the record stored under that name
  ReasonBytes,  \* bytes a dead letter's reason adds to its record
  MaxAge, MaxRecords, MaxBytes,   \* Options
  PeekLimit,    \* the limit FlushPending passes to Peek
  CompactAt,    \* skipped entries before the order slice is compacted (1024)
  Poison,       \* records the server refuses for good
  Corruptible,  \* records whose file may be damaged at rest
  MaxClock, MaxCrashes,           \* bounds of the instance
  Faults        \* whether file operations may fail

ASSUME SpoolAssumption ==
  /\ Ids \subseteq Nat \ {0} /\ IsFiniteSet(Ids)
  /\ DiagIds \subseteq Ids /\ LegacyIds \subseteq Ids \ DiagIds
  /\ Stamp \in [Ids -> Nat \ {0}] /\ Size \in [Ids -> Nat \ {0}]
  /\ ReasonBytes \in Nat
  /\ MaxAge \in Nat \ {0} /\ MaxRecords \in Nat \ {0} /\ MaxBytes \in Nat \ {0}
  /\ PeekLimit \in Nat \ {0} /\ CompactAt \in Nat
  /\ Poison \subseteq Ids /\ Corruptible \subseteq Ids
  /\ MaxClock \in Nat \ {0} /\ MaxCrashes \in Nat /\ Faults \in BOOLEAN

Records == Ids \ DiagIds
Times   == Nat          \* 0 is Go's zero time
NoId    == 0

VARIABLES
  queueDir,   \* names with a file in queue/
  corrupt,    \* those of them readRecord refuses
  queueTmp,   \* names with a .tmp file in queue/
  deadDir,    \* modification time of each file in deadletter/ (0: none)
  deadTmp,    \* names with a .tmp file in deadletter/
  legacy,     \* records of queue.ndjson ({}: there is no such file)
  idx,        \* the fields of Queue that index the two directories
  op,         \* the call that holds q.mu
  run,        \* "up" once Open has returned, else "down"
  now,
  handed,     \* what the sender still holds of its last Peek
  batch,      \* what the collection loop has pushed in this cycle
  aborted,    \* whether a Push of the cycle failed, so the batch must go
  used,       \* names generated so far
  accepted,   \* records whose Push has returned, and those of queue.ndjson
  acked,      \* records whose file an Ack removed
  discarded,  \* dead letters removed for age or for room
  diagOf,     \* diagOf[id]: the diagnostic last written for a damaged record
  crashes

disk    == <<queueDir, corrupt, queueTmp, deadDir, deadTmp, legacy>>
callers == <<handed, batch, aborted>>
history == <<used, accepted, acked, discarded, diagOf>>
vars == <<disk, idx, op, run, now, callers, history, crashes>>

DeadFiles == {id \in Ids : deadDir[id] # 0}

------------------------------------------------------------------------------
(* The index.  order is activeOrder, a strictly sorted slice, hence a set;  *)
(* passed is the part of it before activeHead.                              *)

EmptyIndex == [active |-> {}, order |-> {}, passed |-> {}, oldest |-> 0,
               dead |-> [id \in Ids |-> 0], oldestDead |-> 0]

DeadIds(ix) == {id \in Ids : ix.dead[id] # 0}

Earlier(t, u) == IF t = 0 \/ u < t THEN u ELSE t

\* Variant: the head keeps its position, so a name inserted before it is passed.
InsertActiveBehindHead(ix, id) ==
  [ix EXCEPT !.active = @ \cup {id}, !.order = @ \cup {id},
             !.passed = IF \E j \in @ : j > id THEN (@ \cup {id}) \ {Max(@)} ELSE @,
             !.oldest = Earlier(@, Stamp[id])]

\* A name generated before the head (the clock was set back) rewinds the head.
InsertActive(ix, id) ==
  [ix EXCEPT !.active = @ \cup {id},
             !.order = @ \cup {id},
             !.passed = {j \in @ : j < id},
             !.oldest = Earlier(@, Stamp[id])]

\* The head moves over every leading name that is no longer active, and the
\* age of the queue is then read from the record it stops at.
RemoveActive(ix, id) ==
  LET active == ix.active \ {id}
      passed == ix.passed \cup {j \in ix.order :
                  \A a \in active : a \in ix.order \ ix.passed => j < a}
      ahead  == active \cap (ix.order \ passed)
  IN  IF id \notin ix.active THEN ix
      ELSE [ix EXCEPT !.active = active, !.passed = passed,
              !.oldest = IF @ # Stamp[id] THEN @
                         ELSE IF ahead = {} THEN 0 ELSE Stamp[Min(ahead)]]

Compact(ix) ==
  IF Cardinality(ix.passed) < CompactAt
     \/ Cardinality(ix.passed) * 2 < Cardinality(ix.order)
  THEN ix
  ELSE [ix EXCEPT !.order = ix.active \cap (@ \ ix.passed), !.passed = {}]

InsertDead(ix, id, t) ==
  [ix EXCEPT !.dead[id] = t, !.oldestDead = Earlier(@, t)]

RemoveDead(ix, id) ==
  LET left == DeadIds(ix) \ {id}
  IN  [ix EXCEPT !.dead[id] = 0,
         !.oldestDead = IF @ # ix.dead[id] THEN @
                        ELSE IF left = {} THEN 0
                        ELSE Min({ix.dead[j] : j \in left})]

\* Variant: a restart begins with an empty index.
RebuiltEmpty == EmptyIndex

\* What rebuildIndex reads off the two directories.
Rebuilt ==
  LET readable == queueDir \ corrupt IN
  [active |-> readable, order |-> readable, passed |-> {},
   oldest |-> IF readable = {} THEN 0 ELSE Min({Stamp[id] : id \in readable}),
   dead |-> deadDir,
   oldestDead |-> IF DeadFiles = {} THEN 0
                  ELSE Min({deadDir[id] : id \in DeadFiles})]

DeadSize(id) == Size[id] + ReasonBytes

\* The size of some records, counted byte by byte.
ByteSet(ids, extra) == UNION {{id} \X (1 .. Size[id] + extra) : id \in ids}
Bytes(ids, extra)   == Cardinality(ByteSet(ids, extra))

TotalRecords(ix) == Cardinality(ix.active) + Cardinality(DeadIds(ix))
TotalBytes(ix)   == Bytes(ix.active, 0) + Bytes(DeadIds(ix), ReasonBytes)

Fits(ix, records, bytes) == /\ TotalRecords(ix) + records <= MaxRecords
                            /\ TotalBytes(ix) + bytes <= MaxBytes

\* Variant: nothing expires while any record is young enough.
OverdueTogether(ix) ==
  IF \E id \in ix.active : now - Stamp[id] <= MaxAge THEN {}
  ELSE {id \in ix.active \cap (ix.order \ ix.passed) : now - Stamp[id] > MaxAge}

Overdue(ix) ==
  IF ix.oldest = 0 \/ now - ix.oldest <= MaxAge THEN {}
  ELSE {id \in ix.active \cap (ix.order \ ix.passed) : now - Stamp[id] > MaxAge}

Aged(ix) ==
  IF ix.oldestDead = 0 \/ now - ix.oldestDead <= MaxAge THEN {}
  ELSE {id \in DeadIds(ix) : now - ix.dead[id] > MaxAge}

------------------------------------------------------------------------------
(* A call in progress: which call, the step it is at, the record it works   *)
(* on, the name of the file it writes (another name when a damaged record  *)
(* is quarantined), where to resume, what is left to visit, what was read.  *)

NoOp == [call |-> "none", at |-> "idle", id |-> NoId, w |-> NoId,
         back |-> "idle", todo |-> {}, got |-> {}]

Calls  == {"none", "push", "peek", "stats", "ack", "rollback", "reject", "open"}
Places == {"idle", "expire", "prune", "room", "create", "rename", "unlink",
           "tidy", "scan", "read", "ack", "migrate", "retire", "index"}

Goto(at)   == op' = [op EXCEPT !.at = at]
Quarantining == op.id # op.w
Moving     == op.back \notin {"push", "migrate"}   \* into deadletter/

\* A call returns and the mutex is released.
Return == op' = NoOp

\* It returns an error.  After a failed Open there is no queue; the sender
\* drops what it holds; the collection loop takes its batch back.
Fail == /\ Return
        /\ run' = IF op.call = "open" THEN "down" ELSE run
        /\ handed' = IF op.call \in {"ack", "reject"} THEN {} ELSE handed
        /\ aborted' = (aborted \/ (op.call = "push" /\ batch # {}))

Idle == run = "up" /\ op.call = "none"

\* Push, Peek and Stats begin with expireLocked.
StartExpiring(call) ==
  op' = [NoOp EXCEPT !.call = call, !.at = "expire", !.todo = Overdue(idx)]

Fresh(names) == {id \in names \ used : Stamp[id] = now}

\* readRecord, and what its callers do when it fails.
Visit(id, back, rest) ==
  IF id \in corrupt
  THEN \E w \in Fresh(DiagIds) :
         op' = [op EXCEPT !.at = "room", !.id = id, !.w = w,
                          !.back = back, !.todo = rest]
  ELSE op' = [op EXCEPT !.at = "create", !.id = id, !.w = id,
                        !.back = back, !.todo = rest]

------------------------------------------------------------------------------
(* Open                                                                     *)

StartOpen ==
  /\ run = "down" /\ op.call = "none"
  /\ op' = [NoOp EXCEPT !.call = "open", !.todo = legacy, !.back = "migrate",
              !.at = IF legacy = {} THEN "index" ELSE "migrate"]
  /\ idx' = EmptyIndex
  /\ UNCHANGED <<disk, run, now, callers, history, crashes>>

\* Variant: the legacy file is removed after its first record.
MigrateFirst ==
  /\ op.at = "migrate"
  /\ IF op.todo # legacy THEN Goto("retire")
     ELSE LET id == Min(op.todo) IN
          op' = [op EXCEPT !.at = "create", !.id = id, !.w = id, !.todo = @ \ {id}]
  /\ UNCHANGED <<disk, idx, run, now, callers, history, crashes>>

\* migrateLegacy writes every record of queue.ndjson, then removes the file.
Migrate ==
  /\ op.at = "migrate"
  /\ IF op.todo = {} THEN Goto("retire")
     ELSE LET id == Min(op.todo) IN
          op' = [op EXCEPT !.at = "create", !.id = id, !.w = id,
                           !.todo = @ \ {id}]
  /\ UNCHANGED <<disk, idx, run, now, callers, history, crashes>>

Retire ==
  /\ op.at = "retire"
  /\ legacy' = {}
  /\ Goto("index")
  /\ UNCHANGED <<queueDir, corrupt, queueTmp, deadDir, deadTmp, idx, run, now,
                 callers, history, crashes>>

\* rebuildIndex: index what is readable, quarantine the rest one by one.
Rebuild ==
  /\ op.at = "index" /\ op.back = "migrate"
  /\ idx' = Rebuilt
  /\ op' = [op EXCEPT !.back = "index", !.todo = corrupt]
  /\ UNCHANGED <<disk, run, now, callers, history, crashes>>

QuarantineUnindexed ==
  /\ op.at = "index" /\ op.back = "index"
  /\ IF op.todo = {} THEN Goto("prune")
     ELSE Visit(Min(op.todo), "index", op.todo \ {Min(op.todo)})
  /\ UNCHANGED <<disk, idx, run, now, callers, history, crashes>>

------------------------------------------------------------------------------
(* The calls                                                                *)

\* The collection loop enqueues the next chunk of its batch.
StartPush == /\ Idle
             /\ ~aborted
             /\ Fresh(Records \ LegacyIds) # {}
             /\ StartExpiring("push")
             /\ UNCHANGED <<disk, idx, run, now, callers, history, crashes>>

StartPeek == /\ Idle
             /\ handed = {}
             /\ StartExpiring("peek")
             /\ UNCHANGED <<disk, idx, run, now, callers, history, crashes>>

StartStats == /\ Idle
              /\ StartExpiring("stats")
              /\ UNCHANGED <<disk, idx, run, now, callers, history, crashes>>

StartAck(call, ids) ==
  /\ Idle
  /\ op' = [NoOp EXCEPT !.call = call, !.at = "ack", !.todo = ids]

\* The sender acknowledges the record it has just delivered.
StartAckHanded ==
  /\ handed # {} /\ Min(handed) \notin Poison
  /\ StartAck("ack", {Min(handed)})
  /\ handed' = handed \ {Min(handed)}
  /\ UNCHANGED <<disk, idx, run, now, batch, aborted, history, crashes>>

\* The collection loop takes back a batch it could not complete.
StartRollback ==
  /\ batch # {}
  /\ StartAck("rollback", batch)
  /\ batch' = {} /\ aborted' = FALSE
  /\ UNCHANGED <<disk, idx, run, now, handed, history, crashes>>

\* The server refused the record for good, or it is not a batch at all.
StartReject ==
  /\ Idle
  /\ handed # {} /\ Min(handed) \in Poison
  /\ handed' = handed \ {Min(handed)}
  /\ op' = [NoOp EXCEPT !.call = "reject", !.at = "read", !.id = Min(handed),
                        !.w = Min(handed), !.back = "prune"]
  /\ UNCHANGED <<disk, idx, run, now, batch, aborted, history, crashes>>

\* A delivery failed for now: the sender drops what it still holds.
DropHanded ==
  /\ Idle /\ handed # {}
  /\ handed' = {}
  /\ UNCHANGED <<disk, idx, op, run, now, batch, aborted, history, crashes>>

\* The batch is complete: there is nothing left to take back.
CommitBatch ==
  /\ Idle /\ batch # {} /\ ~aborted
  /\ batch' = {}
  /\ UNCHANGED <<disk, idx, op, run, now, handed, aborted, history, crashes>>

------------------------------------------------------------------------------
(* expireLocked                                                             *)

Expire ==
  /\ op.at = "expire"
  /\ IF op.todo = {}
     THEN /\ idx' = Compact(idx)
          /\ Goto("prune")
     ELSE /\ Visit(Min(op.todo), "expire", op.todo \ {Min(op.todo)})
          /\ UNCHANGED idx
  /\ UNCHANGED <<disk, run, now, callers, history, crashes>>

------------------------------------------------------------------------------
(* pruneDeadLocked and makeRoomLocked                                       *)

\* What a record about to be written adds.  One that replaces an indexed
\* damaged record frees that record's share first.
ReserveRecords ==
  IF op.at # "room" \/ (Quarantining /\ op.id \in idx.active) THEN 0 ELSE 1

ReserveBytes ==
  LET needed == IF Quarantining THEN DeadSize(op.w) ELSE Size[op.w] IN
  IF op.at # "room" THEN 0
  ELSE IF ~(Quarantining /\ op.id \in idx.active) THEN needed
  ELSE IF needed <= Size[op.id] THEN 0 ELSE needed - Size[op.id]

RoomLeft == Fits(idx, ReserveRecords, ReserveBytes)

\* Every dead letter over age goes, then the lowest-named until there is room.
Victims == IF Aged(idx) # {} THEN Aged(idx)
           ELSE IF RoomLeft THEN {} ELSE DeadIds(idx)

PruneOne ==
  /\ op.at \in {"prune", "room", "tidy"}
  /\ Victims # {}
  /\ LET id == Min(Victims) IN
       /\ deadDir' = [deadDir EXCEPT ![id] = 0]
       /\ idx' = RemoveDead(idx, id)
       /\ discarded' = discarded \cup {id}
  /\ UNCHANGED <<queueDir, corrupt, queueTmp, deadTmp, legacy, op, run, now,
                 callers, used, accepted, acked, diagOf, crashes>>

\* Each call's last prune, except that Push and Peek go on from theirs.
Pruned ==
  /\ op.at = "prune" /\ Victims = {}
  /\ CASE op.call = "push" ->
            /\ \E id \in Fresh(Records \ LegacyIds) :
                 op' = [op EXCEPT !.at = "room", !.id = id, !.w = id,
                                  !.back = "push"]
            /\ UNCHANGED run
       [] op.call = "peek" ->
            /\ op' = [op EXCEPT !.at = "scan", !.todo = idx.order \ idx.passed]
            /\ UNCHANGED run
       [] OTHER -> Return /\ run' = "up"
  /\ UNCHANGED <<disk, idx, now, callers, history, crashes>>

Tidied ==
  /\ op.at = "tidy" /\ Victims = {}
  /\ Goto(op.back)
  /\ UNCHANGED <<disk, idx, run, now, callers, history, crashes>>

\* makeRoomLocked: with no dead letter left to discard, ErrQueueFull.
RoomMade ==
  /\ op.at = "room" /\ Victims = {}
  /\ IF RoomLeft
     THEN /\ op' = [op EXCEPT !.at = "create"]
          /\ used' = used \cup {op.w}
          /\ UNCHANGED <<run, handed, aborted>>
     ELSE Fail /\ UNCHANGED used
  /\ UNCHANGED <<disk, idx, now, batch, accepted, acked, discarded, diagOf,
                 crashes>>

------------------------------------------------------------------------------
(* writeRecordLocked, and the removal that completes a move                 *)

\* The caller indexes what it wrote: a pushed record as active (and Push
\* returns), a dead letter as dead.  A migrated one waits for rebuildIndex.
Written ==
  CASE op.back = "push" ->
         /\ idx' = InsertActive(idx, op.w)
         /\ Return
         /\ batch' = batch \cup {op.w}
         /\ accepted' = accepted \cup {op.w}
         /\ UNCHANGED diagOf
    [] op.back = "migrate" ->
         /\ Goto("migrate")
         /\ UNCHANGED <<idx, batch, accepted, diagOf>>
    [] OTHER ->
         /\ idx' = InsertDead(idx, op.w, now)
         /\ Goto("unlink")
         /\ diagOf' = IF Quarantining THEN [diagOf EXCEPT ![op.id] = op.w]
                      ELSE diagOf
         /\ UNCHANGED <<batch, accepted>>

\* Variant: a temporary file left behind counts as an earlier attempt.
TempCounts ==
  IF Moving THEN op.w \in DeadFiles \cup deadTmp ELSE op.w \in queueDir \cup queueTmp

FinalExists == IF Moving THEN op.w \in DeadFiles ELSE op.w \in queueDir
TempExists  == IF Moving THEN op.w \in deadTmp ELSE op.w \in queueTmp

\* os.OpenFile with O_EXCL: a temporary file left behind makes it fail.
CreateTemp ==
  /\ op.at = "create" /\ ~FinalExists
  /\ IF TempExists
     THEN Fail /\ UNCHANGED <<queueTmp, deadTmp>>
     ELSE /\ Goto("rename")
          /\ UNCHANGED <<run, handed, aborted>>
          /\ IF Moving THEN deadTmp' = deadTmp \cup {op.w} /\ UNCHANGED queueTmp
                       ELSE queueTmp' = queueTmp \cup {op.w} /\ UNCHANGED deadTmp
  /\ UNCHANGED <<queueDir, corrupt, deadDir, legacy, idx, now, batch, history,
                 crashes>>

\* os.Stat finds the file of an earlier attempt: nothing is written.
AlreadyWritten ==
  /\ op.at = "create" /\ FinalExists
  /\ Written
  /\ UNCHANGED <<disk, run, now, handed, aborted, used, acked, discarded, crashes>>

RenameTemp ==
  /\ op.at = "rename"
  /\ IF Moving
     THEN /\ deadTmp' = deadTmp \ {op.w}
          /\ deadDir' = [deadDir EXCEPT ![op.w] = now]
          /\ UNCHANGED <<queueDir, queueTmp>>
     ELSE /\ queueTmp' = queueTmp \ {op.w}
          /\ queueDir' = queueDir \cup {op.w}
          /\ UNCHANGED <<deadDir, deadTmp>>
  /\ Written
  /\ UNCHANGED <<corrupt, legacy, run, now, handed, aborted, used, acked,
                 discarded, crashes>>

\* Variant: the file is forgotten, not removed.
KeepQueueFile(id) == UNCHANGED queueDir /\ corrupt' = corrupt \ {id}

\* Variant: the file goes, the verdict on its contents stays.
KeepVerdict(id) == queueDir' = queueDir \ {id} /\ UNCHANGED corrupt

RemoveQueueFile(id) == queueDir' = queueDir \ {id} /\ corrupt' = corrupt \ {id}

\* The record now lives in deadletter/: its queue file goes.
Unlink ==
  /\ op.at = "unlink"
  /\ RemoveQueueFile(op.id)
  /\ LET left == RemoveActive(idx, op.id) IN
     idx' = IF op.call = "reject" THEN Compact(left) ELSE left
  /\ Goto(IF Quarantining THEN "tidy" ELSE op.back)
  /\ UNCHANGED <<queueTmp, deadDir, deadTmp, legacy, run, now, callers, history,
                 crashes>>

------------------------------------------------------------------------------
(* Peek, Ack and Reject                                                     *)

Scan ==
  /\ op.at = "scan"
  /\ LET ahead == op.todo \cap idx.active IN
     IF ahead = {} \/ Cardinality(op.got) = PeekLimit
     THEN /\ idx' = Compact(idx)
          /\ Return
          /\ handed' = op.got
     ELSE LET id == Min(ahead) IN
          /\ IF id \in corrupt
             THEN Visit(id, "scan", op.todo \ {id})
             ELSE op' = [op EXCEPT !.todo = @ \ {id}, !.got = @ \cup {id}]
          /\ UNCHANGED <<idx, handed>>
  /\ UNCHANGED <<disk, run, now, batch, aborted, history, crashes>>

Ack ==
  /\ op.at = "ack"
  /\ IF op.todo = {}
     THEN /\ idx' = Compact(idx)
          /\ Return
          /\ UNCHANGED <<queueDir, corrupt, acked>>
     ELSE LET id == Min(op.todo) IN
          /\ RemoveQueueFile(id)
          /\ idx' = RemoveActive(idx, id)
          /\ acked' = IF id \in queueDir THEN acked \cup {id} ELSE acked
          /\ op' = [op EXCEPT !.todo = @ \ {id}]
  /\ UNCHANGED <<queueTmp, deadDir, deadTmp, legacy, run, now, callers, used,
                 accepted, discarded, diagOf, crashes>>

\* Reject cannot read a record that is damaged, or that a rollback removed
\* since the sender peeked at it.
Read ==
  /\ op.at = "read"
  /\ IF op.id \in queueDir \ corrupt
     THEN Goto("create") /\ UNCHANGED <<run, handed, aborted>>
     ELSE Fail
  /\ UNCHANGED <<disk, idx, now, batch, history, crashes>>

------------------------------------------------------------------------------
(* The environment                                                          *)

Crash ==
  /\ crashes < MaxCrashes
  /\ crashes' = crashes + 1
  /\ run' = "down"
  /\ op' = NoOp
  /\ idx' = EmptyIndex
  /\ handed' = {} /\ batch' = {} /\ aborted' = FALSE
  /\ UNCHANGED <<disk, now, history>>

Damage(id) ==
  /\ id \in queueDir \ corrupt
  /\ corrupt' = corrupt \cup {id}
  /\ UNCHANGED <<queueDir, queueTmp, deadDir, deadTmp, legacy, idx, op, run, now,
                 callers, history, crashes>>

\* A file operation fails: the call returns the error, after removing the
\* temporary file it was writing.
IOError ==
  /\ Faults
  /\ op.call # "none"
  /\ queueTmp' = IF op.at = "rename" THEN queueTmp \ {op.w} ELSE queueTmp
  /\ deadTmp' = IF op.at = "rename" THEN deadTmp \ {op.w} ELSE deadTmp
  /\ Fail
  /\ UNCHANGED <<queueDir, corrupt, deadDir, legacy, idx, now, batch, history,
                 crashes>>

\* The rename is done but the directory cannot be synced: the file is there
\* and the caller, told that it failed, does not index it.
SyncError ==
  /\ Faults
  /\ op.at = "rename"
  /\ IF Moving
     THEN /\ deadTmp' = deadTmp \ {op.w}
          /\ deadDir' = [deadDir EXCEPT ![op.w] = now]
          /\ UNCHANGED <<queueDir, queueTmp>>
     ELSE /\ queueTmp' = queueTmp \ {op.w}
          /\ queueDir' = queueDir \cup {op.w}
          /\ UNCHANGED <<deadDir, deadTmp>>
  /\ Fail
  /\ UNCHANGED <<corrupt, legacy, idx, now, batch, history, crashes>>

Tick ==
  /\ op.call = "none"
  /\ now < MaxClock
  /\ now' = now + 1
  /\ UNCHANGED <<disk, idx, op, run, callers, history, crashes>>

SetBack ==
  /\ run = "down" /\ op.call = "none"
  /\ now' \in 1 .. now - 1
  /\ UNCHANGED <<disk, idx, op, run, callers, history, crashes>>

------------------------------------------------------------------------------
Init ==
  /\ queueDir = {} /\ corrupt = {} /\ queueTmp = {}
  /\ deadDir = [id \in Ids |-> 0] /\ deadTmp = {}
  /\ legacy = LegacyIds
  /\ idx = EmptyIndex
  /\ op = NoOp /\ run = "down" /\ now = 1
  /\ handed = {} /\ batch = {} /\ aborted = FALSE
  /\ used = LegacyIds /\ accepted = LegacyIds /\ acked = {} /\ discarded = {}
  /\ diagOf = [id \in Ids |-> NoId]
  /\ crashes = 0

Collecting == StartPush \/ StartRollback \/ CommitBatch

Sending == StartPeek \/ StartAckHanded \/ StartReject \/ DropHanded

\* The steps of the call that holds the mutex.
Working == \/ Migrate \/ Retire \/ Rebuild \/ QuarantineUnindexed
           \/ Expire \/ PruneOne \/ Pruned \/ Tidied \/ RoomMade
           \/ CreateTemp \/ AlreadyWritten \/ RenameTemp \/ Unlink
           \/ Scan \/ Ack \/ Read

Environment == \/ Crash \/ IOError \/ SyncError \/ Tick \/ SetBack
               \/ \E id \in Corruptible : Damage(id)

Next == StartOpen \/ Working \/ Collecting \/ Sending \/ StartStats \/ Environment

Spec == Init /\ [][Next]_vars

\* A call that holds the mutex goes on, a process that is down is started, time
\* passes, and the sender loop, which competes with the other loops for the
\* mutex, gets it again and again and reaches the server again and again.
LivenessSpec == /\ Spec
                /\ WF_vars(Working) /\ WF_vars(StartOpen)
                /\ SF_vars(Tick) /\ SF_vars(StartPeek)
                /\ SF_vars(StartAckHanded) /\ SF_vars(StartReject)

------------------------------------------------------------------------------
(* Properties                                                               *)

IndexType == [active : SUBSET Ids, order : SUBSET Ids, passed : SUBSET Ids,
              oldest : Times, dead : [Ids -> Times], oldestDead : Times]

Resumptions == {"idle", "push", "expire", "scan", "index", "migrate", "prune"}

OpType == [call : Calls, at : Places, id : Ids \cup {NoId}, w : Ids \cup {NoId},
           back : Resumptions, todo : SUBSET Ids, got : SUBSET Ids]

\* Every variable has its type, and only a file of queue/ is damaged.
TypeOK ==
  /\ queueDir \subseteq Ids /\ corrupt \subseteq queueDir
  /\ queueTmp \subseteq Ids /\ deadTmp \subseteq Ids
  /\ deadDir \in [Ids -> Times] /\ legacy \subseteq LegacyIds
  /\ idx \in IndexType /\ op \in OpType
  /\ run \in {"up", "down"} /\ now \in Times \ {0}
  /\ handed \subseteq Ids /\ batch \subseteq Ids /\ aborted \in BOOLEAN
  /\ used \subseteq Ids /\ accepted \subseteq Ids /\ acked \subseteq Ids
  /\ discarded \subseteq Ids /\ diagOf \in [Ids -> Ids \cup {NoId}]
  /\ crashes \in Nat

\* Where a record is: a copy the queue can still deliver, or a final outcome.
Buried(id)    == id \in DeadFiles \/ diagOf[id] \in DeadFiles
WrittenOff(id) == id \in discarded \/ diagOf[id] \in discarded

\* A record whose Push has returned is never lost in silence: whatever crashes,
\* failures and damage come between the steps of the calls that move it, there
\* is a file that holds it (or a diagnostic of it), or it was acknowledged, or
\* it was a dead letter the retention policy discarded.
NoSilentLoss ==
  \A id \in accepted : \/ id \in queueDir \cup legacy \cup acked
                       \/ Buried(id) \/ WrittenOff(id)

\* Nothing is stranded: the index lists exactly the readable files while no call
\* runs, and Peek, which starts at the head, can still reach every active record
\* whatever the head skipped, a restart rebuilt or a clock set back inserted.
NothingStranded ==
  /\ idx.active \subseteq idx.order \ idx.passed
  /\ idx.active \subseteq queueDir /\ DeadIds(idx) \subseteq DeadFiles
  /\ (run = "up" /\ op.call = "none" /\ ~Faults) =>
        queueDir = idx.active /\ DeadFiles = DeadIds(idx)

\* What a step of a call may rely on: the names it works on, where it resumes,
\* and that the file it is about to remove has been written elsewhere (a move
\* to its dead letter, a migration to the queue).
StepsOK ==
  /\ op.at \in {"room", "create", "rename", "unlink", "tidy", "read"} =>
       op.id \in Ids /\ op.w \in Ids /\ op.back # "idle"
  /\ op.at = "read" => op.back = "prune" /\ op.id = op.w
  /\ op.at = "room" => op.back # "migrate"
  /\ op.at \in {"unlink", "tidy"} => Moving
  /\ op.at = "unlink" =>
       /\ op.w \in DeadFiles
       /\ op.w = op.id \/ diagOf[op.id] = op.w
  /\ op.at = "migrate" => legacy \subseteq queueDir \cup op.todo
  /\ (op.at \in {"create", "rename"} /\ op.back = "migrate") =>
       legacy \subseteq queueDir \cup op.todo \cup {op.w}
  /\ op.at = "retire" => legacy \subseteq queueDir

\* Which calls run when, and which steps are theirs.
CallsOK ==
  /\ run = "up" => op.call # "open"
  /\ run = "down" => op.call \in {"none", "open"}
  /\ op.call = "none" => op.at = "idle"
  /\ op.call = "open" => /\ op.back \in {"migrate", "index"}
                         /\ op.at \notin {"idle", "expire", "scan", "ack", "read"}
  /\ op.call # "open" => /\ op.back \notin {"migrate", "index"}
                         /\ op.at \notin {"migrate", "retire", "index"}
  /\ op.at \in {"migrate", "retire"} => op.back = "migrate"
  /\ (op.call = "open" /\ op.at = "prune") => op.back = "index"
  /\ op.back = "push" => op.call = "push" /\ op.at \in {"room", "create", "rename"}

\* Unless a failed file operation left something behind, the index misses no
\* file, except those Open has still to quarantine.
Indexed ==
  /\ (run = "up" /\ ~Faults) => queueDir = idx.active /\ DeadFiles = DeadIds(idx)
  /\ (op.call = "open" /\ op.back = "index" /\ ~Faults) =>
       /\ DeadFiles = DeadIds(idx)
       /\ queueDir \subseteq idx.active \cup
            IF op.at = "prune" THEN {}
            ELSE IF op.at \in {"index", "tidy"} THEN op.todo
            ELSE op.todo \cup {op.id}

\* The inductive invariant: what the proofs carry from step to step.
IInv == /\ TypeOK /\ StepsOK /\ CallsOK /\ Indexed
        /\ NoSilentLoss /\ NothingStranded

\* The files on disk stay within MaxRecords and MaxBytes between calls, dead
\* letters and diagnostics included, as long as no move was cut short.
DiskUse == Bytes(queueDir, 0) + Bytes(DeadFiles, ReasonBytes)
DiskBounded ==
  (run = "up" /\ op.call = "none" /\ deadTmp = {}) =>
     /\ Cardinality(queueDir) + Cardinality(DeadFiles) <= MaxRecords
     /\ DiskUse <= MaxBytes

\* Peek hands out the oldest names first and skips none that can be delivered,
\* including one created after the clock was set back behind the head.
OldestFirst ==
  [][\A h \in handed' \ handed, j \in accepted \ handed' :
        (j < h /\ j \in queueDir) => j \in corrupt]_vars

\* A record older than MaxAge is never handed to the sender.
FreshOnly == [][\A h \in handed' \ handed : now - Stamp[h] <= MaxAge]_vars

\* The queue implements its contract: every step changes the standing of at
\* most one record, and an outcome, once reached, is never taken back.
StatusOf(id) ==
  IF id \in legacy \cup queueDir THEN "pending"
  ELSE IF id \in acked THEN "delivered"
  ELSE IF Buried(id) THEN "dead"
  ELSE IF WrittenOff(id) THEN "discarded" ELSE "new"

Contract == INSTANCE SpoolContract WITH status <- [id \in Records |-> StatusOf(id)]
ImplementsContract == Contract!Spec

\* As long as the sender keeps calling and keeps reaching the server, every
\* durable record leaves the queue, delivered, refused or damaged, and a crash at any
\* step delays it only: Open rebuilds the index and the sender drains it.  Excepted is
\* a crash that leaves the temporary file of a dead letter (PoisonBuried) or of a record
\* of queue.ndjson: Open finds its name taken and fails for ever.
Drains == [](run = "down" /\ op.call = "none" => deadTmp = {} /\ queueTmp \cap LegacyIds = {}) =>
            \A id \in Records : (id \in queueDir) ~> (id \notin queueDir)

\* A record the server refuses for good is moved to the dead-letter queue
\* (README: it must not stay at the head of the queue).
PoisonBuried == \A id \in Poison : (id \in queueDir) ~> (id \notin queueDir)

------------------------------------------------------------------------------
(* Instances: names are numbers in file-name order, so a table lists the    *)
(* creation times and the sizes of names 1, 2, 3...                         *)

McStamp == [id \in Ids |-> <<1, 1, 2, 2, 3, 3>>[id]]
McSize  == [id \in Ids |-> <<2, 1, 1, 2, 1, 1, 1>>[id]]

\* Records 1 and 2 come from queue.ndjson; a quarantine may start three times.
LegacyStamp == [id \in Ids |-> <<1, 1, 1, 1, 1, 2, 2, 2, 2>>[id]]
LegacySize  == [id \in Ids |-> 1]
==============================================================================
