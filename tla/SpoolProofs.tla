----------------------------- MODULE SpoolProofs -----------------------------
EXTENDS Spool, FiniteSetTheorems, WellFoundedInduction, TLAPS

Below == {p \in Nat \X Nat : p[1] < p[2]}

\* The order of the natural numbers is well founded.
LEMMA BelowWellFounded == IsWellFoundedOn(Below, Nat)
  BY NatLessThanWellFounded DEF OpToRel, Below

\* A non-empty set of names has a least one.
LEMMA MinInSet == ASSUME NEW S, S \subseteq Nat, S # {}
                  PROVE  /\ Min(S) \in S
                         /\ \A y \in S : Min(S) <= y
<1>1. PICK x \in S : \A y \in S : ~ (<<y, x>> \in Below)
  BY WFMin, BelowWellFounded
<1>2. ASSUME NEW y \in S PROVE x <= y
  <2>1. x \in Nat /\ y \in Nat
    OBVIOUS
  <2>2. ~ (<<y, x>> \in Below)
    BY <1>1
  <2>3. ~ (y < x)
    BY <2>1, <2>2 DEF Below
  <2>. QED BY <2>1, <2>3
<1>. QED BY <1>2 DEF Min

Reachable(ix) == ix.active \subseteq ix.order \ ix.passed

LEMMA NamesAreNumbers == Ids \subseteq Nat /\ NoId \notin Ids
  BY SpoolAssumption DEF NoId

LEMMA LeastName == ASSUME NEW S, S \subseteq Ids, S # {}
                   PROVE  Min(S) \in S
  BY MinInSet, NamesAreNumbers

LEMMA LeastTime == ASSUME NEW S, S \subseteq Times, S # {}
                   PROVE  Min(S) \in Times
  BY MinInSet DEF Times

\* Indexing a record leaves it, and every record active before, ahead of the
\* head, even when its name sorts before the head.
LEMMA InsertActiveOK ==
  ASSUME NEW ix \in IndexType, NEW id \in Ids
  PROVE  /\ InsertActive(ix, id) \in IndexType
         /\ InsertActive(ix, id).active = ix.active \cup {id}
         /\ InsertActive(ix, id).dead = ix.dead
         /\ Reachable(ix) => Reachable(InsertActive(ix, id))
<1>1. Stamp[id] \in Times
  BY SpoolAssumption DEF Times
<1>2. Earlier(ix.oldest, Stamp[id]) \in Times
  BY <1>1 DEF Earlier, IndexType
<1>3. InsertActive(ix, id) \in IndexType
  BY <1>2 DEF InsertActive, IndexType
<1>4. ~ (id < id)
  BY SpoolAssumption
<1>. QED BY <1>3, <1>4 DEF InsertActive, IndexType, Reachable

\* Removing a record moves the head over no active one.
LEMMA RemoveActiveOK ==
  ASSUME NEW ix \in IndexType, NEW id \in Ids
  PROVE  /\ RemoveActive(ix, id) \in IndexType
         /\ RemoveActive(ix, id).active = ix.active \ {id}
         /\ RemoveActive(ix, id).dead = ix.dead
         /\ Reachable(ix) => Reachable(RemoveActive(ix, id))
<1>1. CASE id \notin ix.active
  BY <1>1 DEF RemoveActive
<1>2. CASE id \in ix.active
  <2> DEFINE active == ix.active \ {id}
             passed == ix.passed \cup {j \in ix.order :
                         \A a \in active : a \in ix.order \ ix.passed => j < a}
             ahead  == active \cap (ix.order \ passed)
             oldest == IF ix.oldest # Stamp[id] THEN ix.oldest
                       ELSE IF ahead = {} THEN 0 ELSE Stamp[Min(ahead)]
  <2>1. RemoveActive(ix, id) = [ix EXCEPT !.active = active, !.passed = passed,
                                          !.oldest = oldest]
    BY <1>2 DEF RemoveActive
  <2>2. active \subseteq Ids /\ passed \subseteq Ids /\ ahead \subseteq Ids
    BY DEF IndexType
  <2>3. ahead # {} => Min(ahead) \in Ids
    BY <2>2, LeastName
  <2>4. oldest \in Times
    BY <2>3, SpoolAssumption DEF IndexType, Times
  <2>5. RemoveActive(ix, id) \in IndexType
    <3> HIDE DEF active, passed, ahead, oldest
    <3>. QED BY <2>1, <2>2, <2>4 DEF IndexType
  <2>6. RemoveActive(ix, id).active = active /\ RemoveActive(ix, id).dead = ix.dead
        /\ RemoveActive(ix, id).passed = passed /\ RemoveActive(ix, id).order = ix.order
    <3> HIDE DEF active, passed, ahead, oldest
    <3>. QED BY <2>1 DEF IndexType
  <2>7. ASSUME Reachable(ix), NEW a \in active
        PROVE  a \in ix.order \ passed
    <3>1. a \in ix.order \ ix.passed
      BY <2>7 DEF Reachable
    <3>2. a \in Nat
      BY <2>2, NamesAreNumbers
    <3>3. ~ (a < a)
      BY <3>2
    <3>. QED BY <3>1, <3>3
  <2>. QED BY <2>5, <2>6, <2>7 DEF Reachable
<1>. QED BY <1>1, <1>2

LEMMA CompactOK ==
  ASSUME NEW ix \in IndexType
  PROVE  /\ Compact(ix) \in IndexType
         /\ Compact(ix).active = ix.active
         /\ Compact(ix).dead = ix.dead
         /\ Reachable(ix) => Reachable(Compact(ix))
<1> DEFINE short == \/ Cardinality(ix.passed) < CompactAt
                    \/ Cardinality(ix.passed) * 2 < Cardinality(ix.order)
<1>1. Compact(ix) = IF short THEN ix
                    ELSE [ix EXCEPT !.order = ix.active \cap (ix.order \ ix.passed),
                                    !.passed = {}]
  BY DEF Compact
<1> HIDE DEF short
<1>. QED BY <1>1 DEF IndexType, Reachable

LEMMA InsertDeadOK ==
  ASSUME NEW ix \in IndexType, NEW id \in Ids, NEW t \in Times \ {0}
  PROVE  /\ InsertDead(ix, id, t) \in IndexType
         /\ InsertDead(ix, id, t).active = ix.active
         /\ DeadIds(InsertDead(ix, id, t)) = DeadIds(ix) \cup {id}
         /\ Reachable(ix) => Reachable(InsertDead(ix, id, t))
<1>1. Earlier(ix.oldestDead, t) \in Times
  BY DEF Earlier, IndexType
<1>2. InsertDead(ix, id, t) = [ix EXCEPT !.dead = [ix.dead EXCEPT ![id] = t],
                                         !.oldestDead = Earlier(ix.oldestDead, t)]
  BY DEF InsertDead, IndexType
<1>3. [ix.dead EXCEPT ![id] = t] \in [Ids -> Times]
  BY DEF IndexType
<1>4. InsertDead(ix, id, t) \in IndexType
  BY <1>1, <1>2, <1>3 DEF IndexType
<1>5. InsertDead(ix, id, t).dead = [ix.dead EXCEPT ![id] = t]
  BY <1>2 DEF IndexType
<1>6. DeadIds(InsertDead(ix, id, t)) = DeadIds(ix) \cup {id}
  BY <1>5 DEF DeadIds, IndexType
<1>. QED BY <1>2, <1>4, <1>6 DEF IndexType, Reachable

LEMMA RemoveDeadOK ==
  ASSUME NEW ix \in IndexType, NEW id \in Ids
  PROVE  /\ RemoveDead(ix, id) \in IndexType
         /\ RemoveDead(ix, id).active = ix.active
         /\ DeadIds(RemoveDead(ix, id)) = DeadIds(ix) \ {id}
         /\ Reachable(ix) => Reachable(RemoveDead(ix, id))
<1> DEFINE left == DeadIds(ix) \ {id}
           times == {ix.dead[j] : j \in left}
           oldest == IF ix.oldestDead # ix.dead[id] THEN ix.oldestDead
                     ELSE IF left = {} THEN 0 ELSE Min(times)
<1>1. times \subseteq Times /\ (left # {} => times # {})
  BY DEF DeadIds, IndexType
<1>2. left # {} => Min(times) \in Times
  BY <1>1, LeastTime
<1>3. oldest \in Times
  BY <1>2 DEF IndexType, Times
<1>4. RemoveDead(ix, id) = [ix EXCEPT !.dead = [ix.dead EXCEPT ![id] = 0],
                                      !.oldestDead = oldest]
  BY DEF RemoveDead, IndexType
<1>5. [ix.dead EXCEPT ![id] = 0] \in [Ids -> Times]
  BY DEF IndexType, Times
<1> HIDE DEF left, times, oldest
<1>6. RemoveDead(ix, id) \in IndexType
  BY <1>3, <1>4, <1>5 DEF IndexType
<1>7. RemoveDead(ix, id).dead = [ix.dead EXCEPT ![id] = 0]
  BY <1>4 DEF IndexType
<1>8. DeadIds(RemoveDead(ix, id)) = DeadIds(ix) \ {id}
  BY <1>7 DEF DeadIds, IndexType
<1>. QED BY <1>4, <1>6, <1>8 DEF IndexType, Reachable

LEMMA RebuiltOK ==
  ASSUME TypeOK
  PROVE  /\ Rebuilt \in IndexType
         /\ Rebuilt.active = queueDir \ corrupt
         /\ DeadIds(Rebuilt) = DeadFiles
         /\ Reachable(Rebuilt)
<1> DEFINE readable == queueDir \ corrupt
           ages   == {Stamp[id] : id \in readable}
           mtimes == {deadDir[id] : id \in DeadFiles}
           oldest == IF readable = {} THEN 0 ELSE Min(ages)
           oldestDead == IF DeadFiles = {} THEN 0 ELSE Min(mtimes)
<1>1. readable \subseteq Ids /\ ages \subseteq Times /\ mtimes \subseteq Times
  BY SpoolAssumption DEF TypeOK, DeadFiles, Times
<1>2. (readable # {} => ages # {}) /\ (DeadFiles # {} => mtimes # {})
  OBVIOUS
<1>3. oldest \in Times /\ oldestDead \in Times
  BY <1>1, <1>2, LeastTime DEF Times
<1>4. Rebuilt = [active |-> readable, order |-> readable, passed |-> {},
                 oldest |-> oldest, dead |-> deadDir, oldestDead |-> oldestDead]
  BY DEF Rebuilt
<1>5. deadDir \in [Ids -> Times]
  BY DEF TypeOK
<1> HIDE DEF ages, mtimes, oldest, oldestDead
<1>6. Rebuilt \in IndexType
  BY <1>1, <1>3, <1>4, <1>5 DEF IndexType
<1>. QED BY <1>4, <1>6 DEF DeadIds, DeadFiles, Reachable

LEMMA EmptyIndexOK ==
  /\ EmptyIndex \in IndexType /\ EmptyIndex.active = {}
  /\ DeadIds(EmptyIndex) = {} /\ Reachable(EmptyIndex)
<1>1. EmptyIndex \in IndexType
  BY DEF EmptyIndex, IndexType, Times
<1>. QED BY <1>1 DEF EmptyIndex, DeadIds, Reachable

LEMMA OverdueOK ==
  ASSUME NEW ix \in IndexType
  PROVE  Overdue(ix) \subseteq Ids
BY DEF Overdue, IndexType

LEMMA VictimsOK ==
  ASSUME TypeOK
  PROVE  Victims \subseteq Ids
BY DEF Victims, Aged, DeadIds, TypeOK, IndexType

LEMMA NoOpOK == NoOp \in OpType
BY DEF NoOp, OpType, Calls, Places, Resumptions, NoId

------------------------------------------------------------------------------
(* What a step that leaves the files alone preserves.                       *)

LEMMA FilesFrame ==
  ASSUME NoSilentLoss,
         UNCHANGED <<queueDir, deadDir, legacy, accepted, acked, discarded, diagOf>>
  PROVE  NoSilentLoss'
BY DEF NoSilentLoss, Buried, WrittenOff, DeadFiles

\* Push, Peek and Stats start.
LEMMA StartExpiringOK ==
  ASSUME IInv, NEW call \in {"push", "peek", "stats"}, Idle, StartExpiring(call),
         UNCHANGED <<disk, idx, run, now, callers, history, crashes>>
  PROVE  IInv'
<1> USE DEF IInv
<1>1. Overdue(idx) \subseteq Ids
  BY OverdueOK DEF TypeOK
<1>2. op' = [call |-> call, at |-> "expire", id |-> NoId, w |-> NoId,
             back |-> "idle", todo |-> Overdue(idx), got |-> {}]
  BY DEF StartExpiring, NoOp
<1>3. TypeOK'
  BY <1>1, <1>2 DEF TypeOK, disk, callers, history, OpType, Calls, Places,
     Resumptions
<1>4. StepsOK'
  BY <1>2 DEF StepsOK
<1>5. CallsOK' /\ Indexed'
  BY <1>2 DEF CallsOK, Indexed, Idle, NoOp, disk, DeadFiles, DeadIds
<1>6. NothingStranded'
  BY <1>2 DEF NothingStranded, NoOp, disk, DeadFiles, DeadIds
<1>7. NoSilentLoss'
  BY FilesFrame DEF disk, history
<1>. QED BY <1>3, <1>4, <1>5, <1>6, <1>7

\* Ack, a rollback and Reject start.
LEMMA StartDisposingOK ==
  ASSUME IInv, StartAckHanded \/ StartRollback \/ StartReject
  PROVE  IInv'
<1> USE DEF IInv
<1>1. handed # {} => Min(handed) \in Ids
  BY LeastName DEF TypeOK
<1>2. /\ UNCHANGED <<disk, idx, run, now, history, crashes>>
      /\ handed' \subseteq handed /\ batch' \subseteq batch /\ aborted' \in BOOLEAN
  BY DEF StartAckHanded, StartRollback, StartReject, TypeOK
<1>3. /\ Idle
      /\ \/ \E call \in {"ack", "rollback"}, ids \in SUBSET Ids :
              op' = [call |-> call, at |-> "ack", id |-> NoId, w |-> NoId,
                     back |-> "idle", todo |-> ids, got |-> {}]
         \/ \E id \in Ids :
              op' = [call |-> "reject", at |-> "read", id |-> id, w |-> id,
                     back |-> "prune", todo |-> {}, got |-> {}]
  <2>1. CASE StartAckHanded
    BY <2>1, <1>1 DEF StartAckHanded, StartAck, NoOp
  <2>2. CASE StartRollback
    BY <2>2 DEF StartRollback, StartAck, NoOp, TypeOK
  <2>3. CASE StartReject
    BY <2>3, <1>1 DEF StartReject, NoOp
  <2>. QED BY <2>1, <2>2, <2>3
<1>4. TypeOK'
  BY <1>2, <1>3 DEF TypeOK, disk, history, OpType, Calls, Places, Resumptions
<1>5. StepsOK'
  BY <1>3 DEF StepsOK
<1>6. CallsOK' /\ Indexed'
  BY <1>2, <1>3 DEF CallsOK, Indexed, Idle, NoOp, disk, DeadFiles, DeadIds
<1>7. NothingStranded'
  BY <1>2, <1>3 DEF NothingStranded, NoOp, disk, DeadFiles, DeadIds
<1>8. NoSilentLoss'
  BY <1>2, FilesFrame DEF disk, history
<1>. QED BY <1>4, <1>5, <1>6, <1>7, <1>8

\* The callers forget, or the clock moves: no call is involved.
LEMMA NoCallOK ==
  ASSUME IInv, DropHanded \/ CommitBatch \/ Tick \/ SetBack
  PROVE  IInv'
<1> USE DEF IInv
<1>1. /\ UNCHANGED <<disk, idx, op, run, history, crashes>>
      /\ handed' \subseteq handed /\ batch' \subseteq batch /\ aborted' = aborted
  BY DEF DropHanded, CommitBatch, Tick, SetBack, callers
<1>2. now' \in Times \ {0}
  <2>1. CASE SetBack
    BY <2>1 DEF SetBack, TypeOK, Times
  <2>. QED BY <2>1 DEF DropHanded, CommitBatch, Tick, TypeOK, Times
<1>3. TypeOK'
  BY <1>1, <1>2 DEF TypeOK, disk, history
<1>4. StepsOK' /\ CallsOK' /\ Indexed' /\ NothingStranded'
  BY <1>1 DEF StepsOK, CallsOK, Indexed, NothingStranded, disk, history, DeadFiles, DeadIds,
     Moving
<1>5. NoSilentLoss'
  BY <1>1, FilesFrame DEF disk, history
<1>. QED BY <1>3, <1>4, <1>5

LEMMA StartOpenOK == ASSUME IInv, StartOpen PROVE IInv'
<1> USE DEF IInv
<1>1. op' = [call |-> "open", at |-> IF legacy = {} THEN "index" ELSE "migrate",
             id |-> NoId, w |-> NoId, back |-> "migrate", todo |-> legacy,
             got |-> {}]
  BY DEF StartOpen, NoOp
<1>2. legacy \subseteq Ids
  BY SpoolAssumption DEF TypeOK
<1>3. TypeOK'
  <2>1. op' \in OpType
    BY <1>1, <1>2 DEF OpType, Calls, Places, Resumptions
  <2>2. idx' \in IndexType
    BY EmptyIndexOK DEF StartOpen
  <2>. QED BY <2>1, <2>2 DEF TypeOK, StartOpen, disk, callers, history
<1>4. StepsOK'
  BY <1>1 DEF StepsOK, StartOpen, disk
<1>5. CallsOK' /\ Indexed'
  BY <1>1 DEF CallsOK, Indexed, StartOpen, NoOp
<1>6. NothingStranded'
  BY <1>5, EmptyIndexOK DEF StartOpen, NothingStranded, Reachable,
     disk, DeadFiles, DeadIds, CallsOK, Indexed
<1>7. NoSilentLoss'
  BY FilesFrame DEF StartOpen, disk, history
<1>. QED BY <1>3, <1>4, <1>5, <1>6, <1>7

LEMMA CrashOK == ASSUME IInv, Crash PROVE IInv'
<1> USE DEF IInv
<1>1. op' = [call |-> "none", at |-> "idle", id |-> NoId, w |-> NoId,
             back |-> "idle", todo |-> {}, got |-> {}]
  BY DEF Crash, NoOp
<1>2. TypeOK'
  <2>1. op' \in OpType /\ idx' \in IndexType
    BY EmptyIndexOK, NoOpOK DEF Crash
  <2>2. crashes' \in Nat
    BY DEF Crash, TypeOK
  <2>. QED BY <2>1, <2>2 DEF TypeOK, Crash, disk, history
<1>3. StepsOK'
  BY <1>1 DEF StepsOK
<1>4. CallsOK' /\ Indexed'
  BY <1>1 DEF CallsOK, Indexed, Crash, NoOp
<1>5. NothingStranded'
  BY EmptyIndexOK DEF Crash, NothingStranded, Reachable, DeadIds
<1>6. NoSilentLoss'
  BY FilesFrame DEF Crash, disk, history
<1>. QED BY <1>2, <1>3, <1>4, <1>5, <1>6

LEMMA DamageOK == ASSUME IInv, NEW id \in Corruptible, Damage(id) PROVE IInv'
<1> USE DEF IInv
<1>1. TypeOK'
  BY DEF TypeOK, Damage, callers, history
<1>2. StepsOK' /\ CallsOK' /\ Indexed' /\ NothingStranded'
  BY DEF Damage, callers, history, StepsOK, CallsOK, Indexed, NothingStranded, DeadFiles,
     DeadIds, Moving
<1>3. NoSilentLoss'
  BY FilesFrame DEF Damage, history
<1>. QED BY <1>1, <1>2, <1>3

------------------------------------------------------------------------------
(* The steps of the call that holds the mutex.                              *)

\* A call that returns an error has changed neither the files nor the index.
LEMMA FailOK ==
  ASSUME IInv, Fail,
         queueTmp' \subseteq Ids, deadTmp' \subseteq Ids,
         UNCHANGED <<queueDir, corrupt, deadDir, legacy, idx, now, batch, history,
                     crashes>>
  PROVE  IInv'
<1> USE DEF IInv
<1>1. /\ op' = [call |-> "none", at |-> "idle", id |-> NoId, w |-> NoId,
                back |-> "idle", todo |-> {}, got |-> {}]
      /\ run' = IF op.call = "open" THEN "down" ELSE run
      /\ handed' \subseteq handed
  BY DEF Fail, Return, NoOp
<1>2. aborted' \in BOOLEAN
  BY DEF Fail, TypeOK
<1>3. TypeOK'
  <2>1. op' \in OpType
    BY NoOpOK DEF Fail, Return
  <2>. QED BY <1>1, <1>2, <2>1 DEF TypeOK, history
<1>4. StepsOK'
  BY <1>1 DEF StepsOK
<1>5. CallsOK' /\ Indexed'
  BY <1>1 DEF CallsOK, Indexed, NoOp, DeadFiles, DeadIds, TypeOK
<1>6. NothingStranded'
  BY <1>1, <1>5 DEF NothingStranded, CallsOK, Indexed, DeadFiles, DeadIds
<1>7. NoSilentLoss'
  BY FilesFrame DEF history
<1>. QED BY <1>3, <1>4, <1>5, <1>6, <1>7

\* readRecord succeeds and the record is moved, or fails and it is quarantined.
LEMMA VisitOK ==
  ASSUME TypeOK, NEW id \in Ids, NEW rest \in SUBSET Ids,
         NEW back \in {"expire", "scan", "index"}, Visit(id, back, rest)
  PROVE  /\ op' \in OpType
         /\ op'.call = op.call /\ op'.at \in {"room", "create"} /\ op'.id = id
         /\ op'.w \in Ids /\ op'.back = back /\ op'.todo = rest
<1>1. PICK at \in {"room", "create"}, w \in Ids :
        op' = [op EXCEPT !.at = at, !.id = id, !.w = w, !.back = back, !.todo = rest]
  BY SpoolAssumption DEF Visit, Fresh
<1>. QED BY <1>1 DEF TypeOK, OpType, Places, Resumptions

LEMMA MigrateOK == ASSUME IInv, Migrate PROVE IInv'
<1> USE DEF IInv
<1>1. op \in OpType /\ op.at = "migrate" /\ op.back = "migrate"
  BY DEF TypeOK, Migrate, CallsOK, Indexed
<1>2. CASE op.todo = {}
  <2>1. op' = [op EXCEPT !.at = "retire"]
    BY <1>2 DEF Migrate, Goto
  <2>2. TypeOK'
    BY <1>1, <2>1 DEF Migrate, TypeOK, OpType, Places, disk, callers, history
  <2>3. StepsOK'
    BY <1>1, <1>2, <2>1 DEF Migrate, StepsOK, OpType, disk
  <2>4. CallsOK' /\ Indexed'
    BY <1>1, <2>1 DEF Migrate, CallsOK, Indexed, OpType, NoOp, disk, DeadFiles, DeadIds
  <2>5. NothingStranded' /\ NoSilentLoss'
    BY <1>1, <2>1, <2>4, FilesFrame DEF Migrate, NothingStranded, CallsOK, Indexed, OpType,
       disk, history, DeadFiles, DeadIds
  <2>. QED BY <2>2, <2>3, <2>4, <2>5
<1>3. CASE op.todo # {}
  <2> DEFINE id == Min(op.todo)
  <2>1. id \in Ids
    BY <1>1, <1>3, LeastName DEF OpType
  <2>2. op' = [op EXCEPT !.at = "create", !.id = id, !.w = id, !.todo = op.todo \ {id}]
    BY <1>3 DEF Migrate
  <2> HIDE DEF id
  <2>3. TypeOK'
    BY <1>1, <2>1, <2>2 DEF Migrate, TypeOK, OpType, Places, disk, callers, history
  <2>4. StepsOK'
    BY <1>1, <2>1, <2>2 DEF Migrate, StepsOK, OpType, disk
  <2>5. op'.call = op.call /\ op'.at = "create" /\ op'.back = "migrate"
    BY <1>1, <2>2 DEF OpType
  <2>6. CallsOK' /\ Indexed'
    BY <1>1, <2>5 DEF Migrate, CallsOK, Indexed, disk, DeadFiles, DeadIds
  <2>7. NothingStranded' /\ NoSilentLoss'
    BY <1>1, <2>2, <2>6, FilesFrame DEF Migrate, NothingStranded, CallsOK, Indexed, OpType,
       disk, history, DeadFiles, DeadIds
  <2>. QED BY <2>3, <2>4, <2>6, <2>7
<1>. QED BY <1>2, <1>3

\* queue.ndjson goes once every record it held has a file of its own.
LEMMA RetireOK == ASSUME IInv, Retire PROVE IInv'
<1> USE DEF IInv
<1>1. op \in OpType /\ op.at = "retire" /\ op.back = "migrate"
  BY DEF TypeOK, Retire, CallsOK, Indexed
<1>2. op' = [op EXCEPT !.at = "index"]
  BY DEF Retire, Goto
<1>3. TypeOK'
  BY <1>1, <1>2 DEF Retire, TypeOK, OpType, Places, callers, history
<1>4. StepsOK'
  BY <1>1, <1>2 DEF Retire, StepsOK, OpType
<1>5. CallsOK' /\ Indexed'
  BY <1>1, <1>2 DEF Retire, CallsOK, Indexed, OpType, NoOp, DeadFiles, DeadIds
<1>6. NothingStranded'
  BY <1>1, <1>2, <1>5 DEF Retire, NothingStranded, CallsOK, Indexed, OpType, DeadFiles, DeadIds
<1>7. NoSilentLoss'
  BY <1>1 DEF Retire, StepsOK, NoSilentLoss, Buried, WrittenOff, DeadFiles, history
<1>. QED BY <1>3, <1>4, <1>5, <1>6, <1>7

LEMMA RebuildOK == ASSUME IInv, Rebuild PROVE IInv'
<1> USE DEF IInv
<1>1. op \in OpType /\ op.at = "index" /\ op.back = "migrate"
  BY DEF TypeOK, Rebuild
<1>2. op' = [op EXCEPT !.back = "index", !.todo = corrupt]
  BY DEF Rebuild
<1>3. /\ idx' \in IndexType /\ idx'.active = queueDir \ corrupt
      /\ DeadIds(idx') = DeadFiles /\ Reachable(idx')
  BY RebuiltOK DEF Rebuild
<1>4. TypeOK'
  BY <1>1, <1>2, <1>3 DEF Rebuild, TypeOK, OpType, Resumptions, disk, callers, history
<1>5. StepsOK'
  BY <1>1, <1>2 DEF StepsOK, OpType
<1>6. CallsOK' /\ Indexed'
  BY <1>1, <1>2, <1>3 DEF Rebuild, CallsOK, Indexed, OpType, NoOp, disk, DeadFiles
<1>7. NothingStranded'
  <2>1. run' # "up"
    BY <1>1 DEF CallsOK, Indexed, Rebuild
  <2>2. DeadIds(idx)' = DeadFiles' /\ queueDir' = queueDir
    BY <1>3 DEF Rebuild, disk, DeadFiles, DeadIds
  <2>3. idx.active' \subseteq idx.order' \ idx.passed'
    BY <1>3 DEF Reachable
  <2>. QED BY <1>3, <2>1, <2>2, <2>3 DEF NothingStranded
<1>8. NoSilentLoss'
  BY FilesFrame DEF Rebuild, disk, history
<1>. QED BY <1>4, <1>5, <1>6, <1>7, <1>8

\* Expire, Peek and Open turn to the next record.
LEMMA VisitingOK ==
  ASSUME IInv, NEW id \in Ids, NEW rest \in SUBSET Ids,
         NEW back \in {"expire", "scan", "index"}, Visit(id, back, rest),
         op.call # "none", op.call = "open" <=> back = "index",
         op.call = "open" =>
           op.back = "index" /\ op.at = "index" /\ op.todo = rest \cup {id},
         UNCHANGED <<disk, idx, run, now, callers, history, crashes>>
  PROVE  IInv'
<1> USE DEF IInv
<1>1. /\ op' \in OpType
      /\ op'.call = op.call /\ op'.at \in {"room", "create"} /\ op'.id = id
      /\ op'.w \in Ids /\ op'.back = back /\ op'.todo = rest
  BY VisitOK
<1>2. TypeOK'
  BY <1>1 DEF TypeOK, disk, callers, history
<1>3. StepsOK'
  BY <1>1 DEF StepsOK, Moving
<1>4. CallsOK'
  BY <1>1 DEF CallsOK
<1>5. Indexed'
  BY <1>1 DEF Indexed, disk, DeadFiles, DeadIds
<1>6. NothingStranded'
  BY <1>1 DEF NothingStranded, disk, DeadFiles, DeadIds
<1>7. NoSilentLoss'
  BY FilesFrame DEF disk, history
<1>. QED BY <1>2, <1>3, <1>4, <1>5, <1>6, <1>7

\* A step that only moves on to another point of the same call.
LEMMA MoveOnOK ==
  ASSUME IInv, op' \in OpType, op'.call = op.call, op.call # "none",
         op'.at \in {"prune", "scan", "expire", "index"}, op'.back = op.back,
         op.back \notin {"migrate", "push"},
         op.call = "open" =>
           /\ op'.at = "prune" => op.at = "index" /\ op.todo = {}
           /\ op'.at = "index" => op.at = "tidy" /\ op'.todo = op.todo
           /\ op'.at \in {"prune", "index"},
         op.call # "open" => op'.at # "index",
         idx' \in IndexType, idx'.active = idx.active, idx'.dead = idx.dead,
         Reachable(idx'),
         UNCHANGED <<disk, run, now, callers, history, crashes>>
  PROVE  IInv'
<1> USE DEF IInv
<1>1. TypeOK'
  BY DEF TypeOK, disk, callers, history
<1>2. StepsOK'
  BY DEF StepsOK
<1>3. DeadIds(idx)' = DeadIds(idx) /\ DeadFiles' = DeadFiles /\ queueDir' = queueDir
  BY DEF DeadIds, DeadFiles, disk
<1>4. CallsOK'
  BY DEF CallsOK
<1>5. Indexed'
  BY <1>3 DEF Indexed, CallsOK
<1>6. NothingStranded'
  BY <1>3, <1>5 DEF NothingStranded, Reachable, Indexed
<1>7. NoSilentLoss'
  BY FilesFrame DEF disk, history
<1>. QED BY <1>1, <1>2, <1>4, <1>5, <1>6, <1>7

LEMMA QuarantineUnindexedOK == ASSUME IInv, QuarantineUnindexed PROVE IInv'
<1> USE DEF IInv
<1>1. /\ op \in OpType /\ op.at = "index" /\ op.back = "index" /\ op.call = "open"
      /\ idx \in IndexType /\ Reachable(idx)
      /\ UNCHANGED <<disk, idx, run, now, callers, history, crashes>>
  BY DEF QuarantineUnindexed, TypeOK, CallsOK, NothingStranded, Reachable
<1>2. CASE op.todo = {}
  <2>1. op' = [op EXCEPT !.at = "prune"]
    BY <1>2 DEF QuarantineUnindexed, Goto
  <2>2. /\ op' \in OpType /\ op'.call = op.call /\ op'.at = "prune"
        /\ op'.back = op.back
    BY <1>1, <2>1 DEF OpType, Places
  <2>. QED BY <1>1, <1>2, <2>2, MoveOnOK
<1>3. CASE op.todo # {}
  <2>1. Min(op.todo) \in op.todo /\ op.todo \subseteq Ids
    BY <1>1, <1>3, LeastName DEF OpType
  <2>2. Visit(Min(op.todo), "index", op.todo \ {Min(op.todo)})
    BY <1>3 DEF QuarantineUnindexed
  <2>3. op.todo = (op.todo \ {Min(op.todo)}) \cup {Min(op.todo)}
    BY <2>1
  <2>. QED BY <1>1, <2>1, <2>2, <2>3, VisitingOK
<1>. QED BY <1>2, <1>3

LEMMA ExpireOK == ASSUME IInv, Expire PROVE IInv'
<1> USE DEF IInv
<1>1. /\ op \in OpType /\ op.at = "expire" /\ op.call \notin {"none", "open"}
      /\ op.back \notin {"migrate", "index"}
      /\ idx \in IndexType /\ Reachable(idx)
      /\ UNCHANGED <<disk, run, now, callers, history, crashes>>
  BY DEF Expire, TypeOK, CallsOK, NothingStranded, Reachable
<1>2. CASE op.todo = {}
  <2>1. op' = [op EXCEPT !.at = "prune"] /\ idx' = Compact(idx)
    BY <1>2 DEF Expire, Goto
  <2>2. /\ op' \in OpType /\ op'.call = op.call /\ op'.at = "prune"
        /\ op'.back = op.back
    BY <1>1, <2>1 DEF OpType, Places
  <2>3. /\ idx' \in IndexType /\ idx'.active = idx.active /\ idx'.dead = idx.dead
        /\ Reachable(idx')
    BY <1>1, <2>1, CompactOK
  <2>4. op.back # "push"
    BY <1>1 DEF CallsOK
  <2>. QED BY <1>1, <2>2, <2>3, <2>4, MoveOnOK
<1>3. CASE op.todo # {}
  <2>1. Min(op.todo) \in op.todo /\ op.todo \subseteq Ids
    BY <1>1, <1>3, LeastName DEF OpType
  <2>2. Visit(Min(op.todo), "expire", op.todo \ {Min(op.todo)}) /\ idx' = idx
    BY <1>3 DEF Expire
  <2>. QED BY <1>1, <2>1, <2>2, VisitingOK
<1>. QED BY <1>2, <1>3

LEMMA TidiedOK == ASSUME IInv, Tidied PROVE IInv'
<1> USE DEF IInv
<1>1. /\ op \in OpType /\ op.at = "tidy" /\ op.call # "none"
      /\ op.back \notin {"migrate", "push", "idle"}
      /\ idx \in IndexType /\ Reachable(idx)
      /\ UNCHANGED <<disk, idx, run, now, callers, history, crashes>>
  BY DEF Tidied, TypeOK, CallsOK, StepsOK, Moving, NothingStranded, Reachable
<1>2. op' = [op EXCEPT !.at = op.back]
  BY DEF Tidied, Goto
<1>3. /\ op' \in OpType /\ op'.call = op.call /\ op'.back = op.back
      /\ op'.at = op.back /\ op'.todo = op.todo
      /\ op'.at \in {"prune", "scan", "expire", "index"}
  BY <1>1, <1>2 DEF OpType, Places, Resumptions
<1>4. op.call = "open" <=> op.back = "index"
  BY <1>1 DEF CallsOK
<1>. QED BY <1>1, <1>3, <1>4, MoveOnOK

\* A call that is over, or a Peek that starts reading, after its last prune.
LEMMA PrunedOK == ASSUME IInv, Pruned PROVE IInv'
<1> USE DEF IInv
<1>1. /\ op \in OpType /\ op.at = "prune" /\ op.call # "none"
      /\ op.back \notin {"migrate", "push"}
      /\ idx \in IndexType /\ Reachable(idx)
      /\ UNCHANGED <<disk, idx, now, callers, history, crashes>>
  BY DEF Pruned, TypeOK, CallsOK, NothingStranded, Reachable
<1>2. CASE op.call = "push"
  <2>1. PICK id \in Ids :
          op' = [op EXCEPT !.at = "room", !.id = id, !.w = id, !.back = "push"]
    BY <1>2 DEF Pruned, Fresh, Records
  <2>2. /\ op' \in OpType /\ op'.call = "push" /\ op'.at = "room" /\ op'.id \in Ids
        /\ op'.w \in Ids /\ op'.back = "push" /\ run' = run
    BY <1>1, <1>2, <2>1 DEF OpType, Places, Resumptions, Pruned
  <2>3. TypeOK'
    BY <1>1, <2>2 DEF TypeOK, disk, callers, history
  <2>4. StepsOK' /\ CallsOK'
    BY <1>2, <2>2 DEF StepsOK, CallsOK
  <2>5. Indexed' /\ NothingStranded'
    BY <1>1, <2>2 DEF Indexed, NothingStranded, disk, DeadFiles, DeadIds
  <2>6. NoSilentLoss'
    BY <1>1, FilesFrame DEF disk, history
  <2>. QED BY <2>3, <2>4, <2>5, <2>6
<1>3. CASE op.call = "peek"
  <2>1. op' = [op EXCEPT !.at = "scan", !.todo = idx.order \ idx.passed] /\ run' = run
    BY <1>3 DEF Pruned
  <2>2. op' \in OpType /\ op'.call = op.call /\ op'.at = "scan" /\ op'.back = op.back
    BY <1>1, <2>1 DEF OpType, Places, IndexType
  <2>. QED BY <1>1, <1>3, <2>1, <2>2, MoveOnOK
<1>4. CASE op.call \notin {"push", "peek"}
  <2>1. op' = NoOp /\ run' = "up"
    BY <1>4 DEF Pruned, Return
  <2>2. /\ op' \in OpType /\ op'.call = "none" /\ op'.at = "idle"
        /\ op'.back = "idle"
    BY <2>1, NoOpOK DEF NoOp
  <2>3. TypeOK'
    BY <1>1, <2>1, <2>2 DEF TypeOK, disk, callers, history
  <2>4. StepsOK' /\ CallsOK'
    BY <2>1, <2>2 DEF StepsOK, CallsOK
  <2>5. queueDir' = queueDir /\ DeadFiles' = DeadFiles /\ idx' = idx
        /\ DeadIds(idx)' = DeadIds(idx)
    BY <1>1 DEF disk, DeadFiles, DeadIds
  <2>6. Indexed'
    <3>1. run = "up" \/ (op.call = "open" /\ op.back = "index")
      BY <1>1 DEF CallsOK, TypeOK
    <3>2. ~Faults => queueDir = idx.active /\ DeadFiles = DeadIds(idx)
      BY <1>1, <3>1 DEF Indexed, NothingStranded
    <3>. QED BY <2>2, <2>5, <3>2 DEF Indexed
  <2>7. NothingStranded'
    BY <2>5, <2>6, <2>1 DEF NothingStranded, Indexed
  <2>8. NoSilentLoss'
    BY <1>1, FilesFrame DEF disk, history
  <2>. QED BY <2>3, <2>4, <2>6, <2>7, <2>8
<1>. QED BY <1>2, <1>3, <1>4

\* A dead letter is removed: its record is written off, not lost in silence.
LEMMA PruneOneOK == ASSUME IInv, PruneOne PROVE IInv'
<1> USE DEF IInv
<1> DEFINE id == Min(Victims)
<1>1. id \in Ids
  BY VictimsOK, LeastName DEF PruneOne
<1>2. /\ op.at \in {"prune", "room", "tidy"} /\ op' = op
      /\ deadDir' = [deadDir EXCEPT ![id] = 0] /\ idx' = RemoveDead(idx, id)
      /\ discarded' = discarded \cup {id}
      /\ UNCHANGED <<queueDir, corrupt, queueTmp, deadTmp, legacy, run, now, callers,
                     used, accepted, acked, diagOf, crashes>>
  BY DEF PruneOne
<1> HIDE DEF id
<1>3. /\ idx' \in IndexType /\ idx'.active = idx.active
      /\ DeadIds(idx') = DeadIds(idx) \ {id} /\ Reachable(idx')
  BY <1>1, <1>2, RemoveDeadOK DEF TypeOK, NothingStranded, Reachable
<1>4. deadDir' \in [Ids -> Times] /\ DeadFiles' = DeadFiles \ {id}
  BY <1>1, <1>2 DEF TypeOK, DeadFiles, Times
<1>5. TypeOK'
  BY <1>1, <1>2, <1>3, <1>4 DEF TypeOK, callers
<1>6. StepsOK' /\ CallsOK'
  BY <1>2 DEF StepsOK, CallsOK, Moving
<1>7. DeadIds(idx)' = DeadIds(idx')
  BY DEF DeadIds
<1>8. Indexed'
  BY <1>2, <1>3, <1>4, <1>7 DEF Indexed
<1>9. NothingStranded'
  BY <1>2, <1>3, <1>4, <1>7, <1>8 DEF NothingStranded, Reachable
<1>10. NoSilentLoss'
  BY <1>1, <1>2, <1>4 DEF NoSilentLoss, Buried, WrittenOff
<1>. QED BY <1>5, <1>6, <1>8, <1>9, <1>10

LEMMA RoomMadeOK == ASSUME IInv, RoomMade PROVE IInv'
<1> USE DEF IInv
<1>1. /\ op \in OpType /\ op.at = "room"
      /\ UNCHANGED <<disk, idx, now, batch, accepted, acked, discarded, diagOf, crashes>>
  BY DEF RoomMade, TypeOK
<1>2. CASE RoomLeft
  <2>1. op' = [op EXCEPT !.at = "create"] /\ used' = used \cup {op.w}
        /\ UNCHANGED <<run, handed, aborted>>
    BY <1>2 DEF RoomMade
  <2>2. op.w \in Ids
    BY <1>1 DEF StepsOK
  <2>3. /\ op' \in OpType /\ op'.at = "create" /\ op'.call = op.call /\ op'.id = op.id
        /\ op'.w = op.w /\ op'.back = op.back /\ op'.todo = op.todo
    BY <1>1, <2>1 DEF OpType, Places
  <2>4. TypeOK'
    BY <1>1, <2>1, <2>2, <2>3 DEF TypeOK, disk
  <2>5. op.back # "migrate"
    BY <1>1 DEF StepsOK
  <2>6. StepsOK' /\ CallsOK'
    BY <1>1, <2>1, <2>3, <2>5 DEF StepsOK, CallsOK
  <2>7. Indexed' /\ NothingStranded'
    BY <1>1, <2>1, <2>3 DEF Indexed, NothingStranded, CallsOK, disk, DeadFiles, DeadIds
  <2>8. NoSilentLoss'
    BY <1>1, FilesFrame DEF disk
  <2>. QED BY <2>4, <2>6, <2>7, <2>8
<1>3. CASE ~RoomLeft
  <2>1. Fail /\ used' = used
    BY <1>3 DEF RoomMade
  <2>. QED BY <1>1, <2>1, FailOK DEF TypeOK, disk, history
<1>. QED BY <1>2, <1>3

LEMMA CreateTempOK == ASSUME IInv, CreateTemp PROVE IInv'
<1> USE DEF IInv
<1>1. /\ op \in OpType /\ op.at = "create" /\ op.w \in Ids /\ op.back # "idle"
      /\ UNCHANGED <<queueDir, corrupt, deadDir, legacy, idx, now, batch, history,
                     crashes>>
  BY DEF CreateTemp, TypeOK, StepsOK
<1>2. CASE TempExists
  <2>1. Fail /\ UNCHANGED <<queueTmp, deadTmp>>
    BY <1>2 DEF CreateTemp
  <2>. QED BY <1>1, <2>1, FailOK DEF TypeOK
<1>3. CASE ~TempExists
  <2>1. /\ op' = [op EXCEPT !.at = "rename"] /\ UNCHANGED <<run, handed, aborted>>
        /\ queueTmp' \subseteq queueTmp \cup {op.w}
        /\ deadTmp' \subseteq deadTmp \cup {op.w}
    BY <1>3 DEF CreateTemp, Goto
  <2>2. /\ op' \in OpType /\ op'.at = "rename" /\ op'.call = op.call /\ op'.id = op.id
        /\ op'.w = op.w /\ op'.back = op.back /\ op'.todo = op.todo
    BY <1>1, <2>1 DEF OpType, Places
  <2>3. TypeOK'
    BY <1>1, <2>1, <2>2 DEF TypeOK, history
  <2>4. StepsOK' /\ CallsOK'
    BY <1>1, <2>1, <2>2 DEF StepsOK, CallsOK
  <2>5. Indexed' /\ NothingStranded'
    BY <1>1, <2>1, <2>2 DEF Indexed, NothingStranded, CallsOK, DeadFiles, DeadIds
  <2>6. NoSilentLoss'
    BY <1>1, FilesFrame DEF history
  <2>. QED BY <2>3, <2>4, <2>5, <2>6
<1>. QED BY <1>2, <1>3

\* A file appears under its final name, or was there already, and the caller
\* indexes it.
LEMMA WrittenOK ==
  ASSUME IInv, Written, op.at \in {"create", "rename"},
         queueTmp' \subseteq Ids, deadTmp' \subseteq Ids,
         Moving => /\ queueDir' = queueDir
                   /\ deadDir' \in [Ids -> Times] /\ DeadFiles' = DeadFiles \cup {op.w},
         ~Moving => queueDir' = queueDir \cup {op.w} /\ deadDir' = deadDir,
         UNCHANGED <<corrupt, legacy, run, now, handed, aborted, acked,
                     discarded, crashes>>,
         used' = used
  PROVE  IInv'
<1> USE DEF IInv
<1>1. /\ op \in OpType /\ op.w \in Ids /\ op.id \in Ids /\ op.back # "idle"
      /\ idx \in IndexType /\ now \in Times \ {0} /\ Reachable(idx)
      /\ op.call # "none"
  BY DEF TypeOK, StepsOK, NothingStranded, Reachable, CallsOK
<1>2. CASE op.back = "push"
  <2>1. /\ ~Moving /\ op.call = "push" /\ run = "up"
    BY <1>1, <1>2 DEF Moving, CallsOK, TypeOK
  <2>2. /\ idx' = InsertActive(idx, op.w) /\ op' = NoOp /\ batch' = batch \cup {op.w}
        /\ accepted' = accepted \cup {op.w} /\ diagOf' = diagOf
    BY <1>2 DEF Written, Return
  <2>3. /\ idx' \in IndexType /\ idx'.active = idx.active \cup {op.w}
        /\ idx'.dead = idx.dead /\ Reachable(idx')
    BY <1>1, <2>2, InsertActiveOK
  <2>4. /\ op' \in OpType /\ op'.call = "none" /\ op'.at = "idle" /\ op'.back = "idle"
    BY <2>2, NoOpOK DEF NoOp
  <2>5. /\ DeadFiles' = DeadFiles /\ DeadIds(idx)' = DeadIds(idx)
        /\ queueDir' = queueDir \cup {op.w}
    BY <2>1, <2>3 DEF DeadFiles, DeadIds
  <2>6. TypeOK'
    BY <1>1, <2>1, <2>2, <2>3, <2>4 DEF TypeOK
  <2>7. StepsOK' /\ CallsOK'
    BY <2>1, <2>4 DEF StepsOK, CallsOK
  <2>8. Indexed'
    BY <2>1, <2>3, <2>4, <2>5 DEF Indexed
  <2>9. NothingStranded'
    BY <2>1, <2>3, <2>4, <2>5, <2>8 DEF NothingStranded, Reachable, Indexed
  <2>10. NoSilentLoss'
    BY <2>1, <2>2, <2>5 DEF NoSilentLoss, Buried, WrittenOff
  <2>. QED BY <2>6, <2>7, <2>8, <2>9, <2>10
<1>3. CASE op.back = "migrate"
  <2>1. ~Moving /\ op.call = "open"
    BY <1>1, <1>3 DEF Moving, CallsOK
  <2>2. op' = [op EXCEPT !.at = "migrate"] /\ UNCHANGED <<idx, batch, accepted, diagOf>>
    BY <1>3 DEF Written, Goto
  <2>3. /\ op' \in OpType /\ op'.call = "open" /\ op'.at = "migrate"
        /\ op'.back = "migrate" /\ op'.todo = op.todo
    BY <1>1, <1>3, <2>1, <2>2 DEF OpType, Places
  <2>4. /\ DeadFiles' = DeadFiles /\ DeadIds(idx)' = DeadIds(idx)
        /\ queueDir' = queueDir \cup {op.w}
    BY <2>1, <2>2 DEF DeadFiles, DeadIds
  <2>5. TypeOK'
    BY <1>1, <2>1, <2>2, <2>3 DEF TypeOK
  <2>6. StepsOK'
    BY <1>3, <2>3, <2>4 DEF StepsOK
  <2>7. CallsOK' /\ run' # "up"
    BY <2>1, <2>3 DEF CallsOK
  <2>8. Indexed' /\ NothingStranded'
    BY <2>2, <2>3, <2>4, <2>7 DEF Indexed, NothingStranded
  <2>9. NoSilentLoss'
    BY <2>2, <2>4 DEF NoSilentLoss, Buried, WrittenOff
  <2>. QED BY <2>5, <2>6, <2>7, <2>8, <2>9
<1>4. CASE op.back \notin {"push", "migrate"}
  <2>1. Moving
    BY <1>4 DEF Moving
  <2>2. /\ idx' = InsertDead(idx, op.w, now) /\ op' = [op EXCEPT !.at = "unlink"]
        /\ diagOf' = IF Quarantining THEN [diagOf EXCEPT ![op.id] = op.w] ELSE diagOf
        /\ UNCHANGED <<batch, accepted>>
    BY <1>4 DEF Written, Goto
  <2>3. /\ idx' \in IndexType /\ idx'.active = idx.active
        /\ DeadIds(idx') = DeadIds(idx) \cup {op.w} /\ Reachable(idx')
    BY <1>1, <2>2, InsertDeadOK
  <2>4. /\ op' \in OpType /\ op'.at = "unlink" /\ op'.call = op.call
        /\ op'.id = op.id /\ op'.w = op.w /\ op'.back = op.back /\ op'.todo = op.todo
    BY <1>1, <2>2 DEF OpType, Places
  <2>5. /\ DeadFiles' = DeadFiles \cup {op.w} /\ queueDir' = queueDir
        /\ DeadIds(idx)' = DeadIds(idx) \cup {op.w}
    BY <2>1, <2>3 DEF DeadIds
  <2>6. diagOf' \in [Ids -> Ids \cup {NoId}]
        /\ (op.w = op.id \/ diagOf'[op.id] = op.w)
        /\ \A id \in Ids : id # op.id => diagOf'[id] = diagOf[id]
    BY <1>1, <2>2 DEF TypeOK, Quarantining
  <2>7. TypeOK'
    BY <1>1, <2>1, <2>2, <2>3, <2>4, <2>6 DEF TypeOK
  <2>8. StepsOK' /\ CallsOK'
    BY <1>1, <1>4, <2>4, <2>5, <2>6 DEF StepsOK, CallsOK, Moving
  <2>9. Indexed'
    BY <2>3, <2>4, <2>5 DEF Indexed, CallsOK
  <2>10. NothingStranded'
    BY <1>1, <2>3, <2>4, <2>5 DEF NothingStranded, Reachable
  <2>11. NoSilentLoss'
    <3>1. SUFFICES ASSUME NEW id \in accepted
                   PROVE (\/ id \in queueDir \cup legacy \cup acked
                          \/ Buried(id) \/ WrittenOff(id))'
      BY <2>2 DEF NoSilentLoss
    <3>2. id \in Ids
      BY DEF TypeOK
    <3>3. CASE id = op.id
      BY <1>1, <2>5, <2>6, <3>3 DEF Buried
    <3>4. CASE id # op.id
      <4>1. diagOf'[id] = diagOf[id]
        BY <2>6, <3>2, <3>4
      <4>. QED BY <2>5, <4>1 DEF NoSilentLoss, Buried, WrittenOff
    <3>. QED BY <3>3, <3>4
  <2>. QED BY <2>7, <2>8, <2>9, <2>10, <2>11
<1>. QED BY <1>2, <1>3, <1>4

LEMMA AlreadyWrittenOK == ASSUME IInv, AlreadyWritten PROVE IInv'
<1> USE DEF IInv
<1>1. /\ op.at = "create" /\ FinalExists /\ Written
      /\ UNCHANGED <<disk, run, now, handed, aborted, used, acked, discarded, crashes>>
  BY DEF AlreadyWritten
<1>2. Moving => DeadFiles' = DeadFiles \cup {op.w} /\ queueDir' = queueDir
                /\ deadDir' \in [Ids -> Times]
  BY <1>1 DEF FinalExists, disk, DeadFiles, TypeOK
<1>3. ~Moving => queueDir' = queueDir \cup {op.w} /\ deadDir' = deadDir
  BY <1>1 DEF FinalExists, disk
<1>. QED BY <1>1, <1>2, <1>3, WrittenOK DEF disk, TypeOK

LEMMA RenameTempOK == ASSUME IInv, RenameTemp PROVE IInv'
<1> USE DEF IInv
<1>1. /\ op.at = "rename" /\ Written /\ op.w \in Ids
      /\ UNCHANGED <<corrupt, legacy, run, now, handed, aborted, used, acked,
                     discarded, crashes>>
  BY DEF RenameTemp, StepsOK
<1>2. queueTmp' \subseteq Ids /\ deadTmp' \subseteq Ids
  BY DEF RenameTemp, TypeOK
<1>3. Moving => /\ deadDir' \in [Ids -> Times] /\ DeadFiles' = DeadFiles \cup {op.w}
                /\ queueDir' = queueDir
  BY <1>1 DEF RenameTemp, TypeOK, DeadFiles
<1>4. ~Moving => queueDir' = queueDir \cup {op.w} /\ deadDir' = deadDir
  BY DEF RenameTemp
<1>. QED BY <1>1, <1>2, <1>3, <1>4, WrittenOK

\* The queue file goes only once the record, or its diagnostic, is a dead letter.
LEMMA UnlinkOK == ASSUME IInv, Unlink PROVE IInv'
<1> USE DEF IInv
<1>1. /\ op \in OpType /\ op.at = "unlink" /\ op.id \in Ids /\ op.w \in DeadFiles
      /\ (op.w = op.id \/ diagOf[op.id] = op.w)
      /\ idx \in IndexType /\ Reachable(idx) /\ op.call # "none"
      /\ op.back \notin {"push", "migrate", "idle"} /\ op.back \in Resumptions
      /\ UNCHANGED <<queueTmp, deadDir, deadTmp, legacy, run, now, callers, history,
                     crashes>>
  BY DEF Unlink, TypeOK, StepsOK, CallsOK, Moving, NothingStranded, Reachable, OpType
<1>2. queueDir' = queueDir \ {op.id} /\ corrupt' = corrupt \ {op.id}
  BY DEF Unlink, RemoveQueueFile
<1>3. \E at \in {"tidy", op.back} : op' = [op EXCEPT !.at = at]
  BY DEF Unlink, Goto
<1>4. /\ op' \in OpType /\ op'.call = op.call /\ op'.at \in {"tidy", op.back}
      /\ op'.id = op.id /\ op'.w = op.w /\ op'.back = op.back /\ op'.todo = op.todo
  BY <1>1, <1>3 DEF OpType, Places, Resumptions
<1>5. /\ idx' \in IndexType /\ idx'.active = idx.active \ {op.id}
      /\ idx'.dead = idx.dead /\ Reachable(idx')
  <2> DEFINE left == RemoveActive(idx, op.id)
  <2>1. /\ left \in IndexType /\ left.active = idx.active \ {op.id}
        /\ left.dead = idx.dead /\ Reachable(left)
    BY <1>1, RemoveActiveOK
  <2>2. idx' \in {left, Compact(left)}
    BY DEF Unlink
  <2> HIDE DEF left
  <2>. QED BY <2>1, <2>2, CompactOK
<1>6. DeadFiles' = DeadFiles /\ DeadIds(idx)' = DeadIds(idx)
  BY <1>1, <1>5 DEF DeadFiles, DeadIds
<1>7. TypeOK'
  BY <1>1, <1>2, <1>4, <1>5 DEF TypeOK, callers, history
<1>8. StepsOK'
  BY <1>1, <1>4 DEF StepsOK, Moving, Resumptions
<1>9. CallsOK'
  BY <1>1, <1>4 DEF CallsOK, Resumptions
<1>10. Indexed'
  BY <1>1, <1>2, <1>4, <1>5, <1>6 DEF Indexed, CallsOK, Resumptions
<1>11. NothingStranded'
  BY <1>1, <1>2, <1>4, <1>5, <1>6 DEF NothingStranded, Reachable
<1>12. NoSilentLoss'
  BY <1>1, <1>2, <1>6 DEF NoSilentLoss, Buried, WrittenOff, history, callers
<1>. QED BY <1>7, <1>8, <1>9, <1>10, <1>11, <1>12

LEMMA AckOK == ASSUME IInv, Ack PROVE IInv'
<1> USE DEF IInv
<1>1. /\ op \in OpType /\ op.at = "ack" /\ op.call \notin {"none", "open"}
      /\ run = "up" /\ op.back \notin {"push", "migrate", "index"}
      /\ idx \in IndexType /\ Reachable(idx)
      /\ UNCHANGED <<queueTmp, deadDir, deadTmp, legacy, run, now, callers, used,
                     accepted, discarded, diagOf, crashes>>
  BY DEF Ack, TypeOK, CallsOK, NothingStranded, Reachable
<1>2. CASE op.todo = {}
  <2>1. idx' = Compact(idx) /\ op' = NoOp /\ UNCHANGED <<queueDir, corrupt, acked>>
    BY <1>2 DEF Ack, Return
  <2>2. /\ op' \in OpType /\ op'.call = "none" /\ op'.at = "idle" /\ op'.back = "idle"
    BY <2>1, NoOpOK DEF NoOp
  <2>3. /\ idx' \in IndexType /\ idx'.active = idx.active /\ idx'.dead = idx.dead
        /\ Reachable(idx')
    BY <1>1, <2>1, CompactOK
  <2>4. DeadFiles' = DeadFiles /\ DeadIds(idx)' = DeadIds(idx)
    BY <1>1, <2>3 DEF DeadFiles, DeadIds
  <2>5. TypeOK'
    BY <1>1, <2>1, <2>2, <2>3 DEF TypeOK, callers
  <2>6. StepsOK' /\ CallsOK'
    BY <1>1, <2>2 DEF StepsOK, CallsOK
  <2>7. Indexed' /\ NothingStranded'
    BY <1>1, <2>1, <2>2, <2>3, <2>4 DEF Indexed, NothingStranded, Reachable
  <2>8. NoSilentLoss'
    BY <1>1, <2>1, FilesFrame
  <2>. QED BY <2>5, <2>6, <2>7, <2>8
<1>3. CASE op.todo # {}
  <2> DEFINE id == Min(op.todo)
  <2>1. id \in Ids
    BY <1>1, <1>3, LeastName DEF OpType
  <2>2. /\ queueDir' = queueDir \ {id} /\ corrupt' = corrupt \ {id}
        /\ idx' = RemoveActive(idx, id)
        /\ acked' = IF id \in queueDir THEN acked \cup {id} ELSE acked
        /\ op' = [op EXCEPT !.todo = op.todo \ {id}]
    BY <1>3 DEF Ack, RemoveQueueFile
  <2> HIDE DEF id
  <2>3. /\ op' \in OpType /\ op'.call = op.call /\ op'.at = "ack" /\ op'.back = op.back
    BY <1>1, <2>2 DEF OpType
  <2>4. /\ idx' \in IndexType /\ idx'.active = idx.active \ {id}
        /\ idx'.dead = idx.dead /\ Reachable(idx')
    BY <1>1, <2>1, <2>2, RemoveActiveOK
  <2>5. DeadFiles' = DeadFiles /\ DeadIds(idx)' = DeadIds(idx)
    BY <1>1, <2>4 DEF DeadFiles, DeadIds
  <2>6. TypeOK'
    BY <1>1, <2>1, <2>2, <2>3, <2>4 DEF TypeOK, callers
  <2>7. StepsOK' /\ CallsOK'
    BY <1>1, <2>3 DEF StepsOK, CallsOK
  <2>8. Indexed' /\ NothingStranded'
    BY <1>1, <2>2, <2>3, <2>4, <2>5 DEF Indexed, NothingStranded, Reachable
  <2>9. NoSilentLoss'
    BY <1>1, <2>2, <2>5 DEF NoSilentLoss, Buried, WrittenOff
  <2>. QED BY <2>6, <2>7, <2>8, <2>9
<1>. QED BY <1>2, <1>3

LEMMA ScanOK == ASSUME IInv, Scan PROVE IInv'
<1> USE DEF IInv
<1> DEFINE ahead == op.todo \cap idx.active
<1>1. /\ op \in OpType /\ op.at = "scan" /\ op.call \notin {"none", "open"}
      /\ op.back \notin {"push", "migrate", "index"} /\ run = "up"
      /\ idx \in IndexType /\ Reachable(idx) /\ ahead \subseteq Ids
      /\ UNCHANGED <<disk, run, now, batch, aborted, history, crashes>>
  BY DEF Scan, TypeOK, CallsOK, NothingStranded, Reachable, OpType
<1>2. CASE ahead = {} \/ Cardinality(op.got) = PeekLimit
  <2>1. idx' = Compact(idx) /\ op' = NoOp /\ handed' = op.got
    BY <1>2 DEF Scan, Return
  <2>2. /\ op' \in OpType /\ op'.call = "none" /\ op'.at = "idle" /\ op'.back = "idle"
    BY <2>1, NoOpOK DEF NoOp
  <2>3. /\ idx' \in IndexType /\ idx'.active = idx.active /\ idx'.dead = idx.dead
        /\ Reachable(idx')
    BY <1>1, <2>1, CompactOK
  <2>4. DeadFiles' = DeadFiles /\ DeadIds(idx)' = DeadIds(idx) /\ queueDir' = queueDir
    BY <1>1, <2>3 DEF DeadFiles, DeadIds, disk
  <2>5. TypeOK'
    BY <1>1, <2>1, <2>2, <2>3 DEF TypeOK, OpType, disk, history
  <2>6. StepsOK' /\ CallsOK'
    BY <1>1, <2>2 DEF StepsOK, CallsOK
  <2>7. Indexed' /\ NothingStranded'
    BY <1>1, <2>2, <2>3, <2>4 DEF Indexed, NothingStranded, Reachable
  <2>8. NoSilentLoss'
    BY <1>1, FilesFrame DEF disk, history
  <2>. QED BY <2>5, <2>6, <2>7, <2>8
<1>3. CASE ~(ahead = {} \/ Cardinality(op.got) = PeekLimit)
  <2> DEFINE id == Min(ahead)
  <2>1. id \in Ids
    BY <1>1, <1>3, LeastName
  <2>2. /\ idx' = idx /\ handed' = handed
        /\ IF id \in corrupt THEN Visit(id, "scan", op.todo \ {id})
           ELSE op' = [op EXCEPT !.todo = op.todo \ {id}, !.got = op.got \cup {id}]
    BY <1>3 DEF Scan
  <2> HIDE DEF id, ahead
  <2>3. CASE id \in corrupt
    <3>1. op.todo \ {id} \in SUBSET Ids
      BY <1>1 DEF OpType
    <3>. QED BY <1>1, <2>1, <2>2, <2>3, <3>1, VisitingOK DEF callers
  <2>4. CASE id \notin corrupt
    <3>1. op' = [op EXCEPT !.todo = op.todo \ {id}, !.got = op.got \cup {id}]
      BY <2>2, <2>4
    <3>2. op' \in OpType /\ op'.call = op.call /\ op'.at = "scan" /\ op'.back = op.back
      BY <1>1, <2>1, <3>1 DEF OpType
    <3>. QED BY <1>1, <2>2, <3>2, MoveOnOK DEF callers
  <2>. QED BY <2>3, <2>4
<1>. QED BY <1>2, <1>3

LEMMA ReadOK == ASSUME IInv, Read PROVE IInv'
<1> USE DEF IInv
<1>1. /\ op \in OpType /\ op.at = "read" /\ op.back = "prune" /\ op.id \in Ids
      /\ op.w \in Ids /\ op.call \notin {"none", "open"}
      /\ UNCHANGED <<disk, idx, now, batch, history, crashes>>
  BY DEF Read, TypeOK, StepsOK, CallsOK
<1>2. CASE op.id \in queueDir \ corrupt
  <2>1. op' = [op EXCEPT !.at = "create"] /\ UNCHANGED <<run, handed, aborted>>
    BY <1>2 DEF Read, Goto
  <2>2. /\ op' \in OpType /\ op'.at = "create" /\ op'.call = op.call /\ op'.id = op.id
        /\ op'.w = op.w /\ op'.back = "prune"
    BY <1>1, <2>1 DEF OpType, Places
  <2>3. TypeOK'
    BY <1>1, <2>1, <2>2 DEF TypeOK, disk, history
  <2>4. StepsOK' /\ CallsOK'
    BY <1>1, <2>1, <2>2 DEF StepsOK, CallsOK
  <2>5. Indexed' /\ NothingStranded'
    BY <1>1, <2>1, <2>2 DEF Indexed, NothingStranded, disk, DeadFiles, DeadIds
  <2>6. NoSilentLoss'
    BY <1>1, FilesFrame DEF disk, history
  <2>. QED BY <2>3, <2>4, <2>5, <2>6
<1>3. CASE op.id \notin queueDir \ corrupt
  BY <1>1, <1>3, FailOK DEF Read, disk, TypeOK
<1>. QED BY <1>2, <1>3

LEMMA IOErrorOK == ASSUME IInv, IOError PROVE IInv'
<1>1. queueTmp' \subseteq Ids /\ deadTmp' \subseteq Ids
  BY DEF IInv, TypeOK, IOError
<1>. QED BY <1>1, FailOK DEF IOError

\* The file is written but not indexed: the index misses it until a restart.
LEMMA SyncErrorOK == ASSUME IInv, SyncError PROVE IInv'
<1> USE DEF IInv
<1>1. /\ Faults /\ Fail /\ op.w \in Ids
      /\ UNCHANGED <<corrupt, legacy, idx, now, batch, history, crashes>>
  BY DEF SyncError, StepsOK
<1>2. /\ queueTmp' \subseteq Ids /\ deadTmp' \subseteq Ids
      /\ queueDir \subseteq queueDir' /\ queueDir' \subseteq Ids
      /\ deadDir' \in [Ids -> Times] /\ DeadFiles \subseteq DeadFiles'
  BY <1>1 DEF SyncError, TypeOK, DeadFiles
<1>3. /\ op' \in OpType /\ op'.call = "none" /\ op'.at = "idle" /\ op'.back = "idle"
      /\ run' = (IF op.call = "open" THEN "down" ELSE run)
      /\ handed' \subseteq handed /\ aborted' \in BOOLEAN
  BY <1>1, NoOpOK DEF Fail, Return, NoOp, TypeOK
<1>4. TypeOK'
  BY <1>1, <1>2, <1>3 DEF TypeOK, history
<1>5. StepsOK' /\ CallsOK'
  BY <1>3 DEF StepsOK, CallsOK
<1>6. Indexed'
  BY <1>1, <1>3 DEF Indexed
<1>7. NothingStranded'
  BY <1>1, <1>2 DEF NothingStranded, DeadIds
<1>8. NoSilentLoss'
  BY <1>1, <1>2 DEF NoSilentLoss, Buried, WrittenOff, history
<1>. QED BY <1>4, <1>5, <1>6, <1>7, <1>8

------------------------------------------------------------------------------

LEMMA InitOK == Init => IInv
<1> SUFFICES ASSUME Init PROVE IInv
  OBVIOUS
<1>1. op \in OpType /\ op.call = "none" /\ op.at = "idle" /\ op.back = "idle"
  BY NoOpOK DEF Init, NoOp
<1>2. TypeOK
  <2>1. idx \in IndexType
    BY EmptyIndexOK DEF Init
  <2>2. deadDir \in [Ids -> Times] /\ diagOf \in [Ids -> Ids \cup {NoId}]
    BY DEF Init, Times
  <2>3. LegacyIds \subseteq Ids
    BY SpoolAssumption
  <2>4. now \in Times \ {0} /\ crashes \in Nat
    BY DEF Init, Times
  <2>5. aborted \in BOOLEAN
    BY DEF Init
  <2>. QED BY <1>1, <2>1, <2>2, <2>3, <2>4, <2>5 DEF Init, TypeOK
<1>3. StepsOK /\ CallsOK /\ Indexed
  BY <1>1 DEF Init, StepsOK, CallsOK, Indexed
<1>4. NothingStranded
  BY EmptyIndexOK DEF Init, NothingStranded, Reachable
<1>5. NoSilentLoss
  BY DEF Init, NoSilentLoss
<1>. QED BY <1>2, <1>3, <1>4, <1>5 DEF IInv

LEMMA StepOK == IInv /\ [Next]_vars => IInv'
<1> SUFFICES ASSUME IInv, [Next]_vars PROVE IInv'
  OBVIOUS
<1>1. CASE StartOpen
  BY <1>1, StartOpenOK
<1>2. CASE Working
  BY <1>2, MigrateOK, RetireOK, RebuildOK, QuarantineUnindexedOK, ExpireOK, PruneOneOK,
     PrunedOK, TidiedOK, RoomMadeOK, CreateTempOK, AlreadyWrittenOK, RenameTempOK,
     UnlinkOK, ScanOK, AckOK, ReadOK DEF Working
<1>3. CASE Collecting
  BY <1>3, StartExpiringOK, StartDisposingOK, NoCallOK DEF Collecting, StartPush
<1>4. CASE Sending
  BY <1>4, StartExpiringOK, StartDisposingOK, NoCallOK DEF Sending, StartPeek
<1>5. CASE StartStats
  BY <1>5, StartExpiringOK DEF StartStats
<1>6. CASE Environment
  BY <1>6, CrashOK, IOErrorOK, SyncErrorOK, NoCallOK, DamageOK DEF Environment
<1>7. CASE UNCHANGED vars
  <2>1. /\ UNCHANGED <<disk, idx, op, run, now, callers, history, crashes>>
    BY <1>7 DEF vars
  <2>2. TypeOK'
    BY <2>1 DEF IInv, TypeOK, disk, callers, history
  <2>3. StepsOK' /\ CallsOK' /\ Indexed' /\ NothingStranded'
    BY <2>1 DEF IInv, StepsOK, CallsOK, Indexed, NothingStranded, disk, history,
       DeadFiles, DeadIds, Moving
  <2>4. NoSilentLoss'
    BY <2>1, FilesFrame DEF IInv, disk, history
  <2>. QED BY <2>2, <2>3, <2>4 DEF IInv
<1>. QED BY <1>1, <1>2, <1>3, <1>4, <1>5, <1>6, <1>7 DEF Next

\* The inductive invariant holds in every state, for every set of names, every
\* limit, every number of crashes, and with or without failing file operations.
THEOREM Inductive == Spec => []IInv
BY InitOK, StepOK, PTL DEF Spec

\* Every variable of the queue keeps its type.
THEOREM TypeCorrect == Spec => []TypeOK
<1>1. IInv => TypeOK
  BY DEF IInv
<1>. QED BY <1>1, Inductive, PTL

\* No record whose Push has returned is ever lost in silence: at every moment,
\* also between the file operations of a move and after any crash, it is in a
\* file, or was acknowledged, or is or was a dead letter.
THEOREM NeverLost == Spec => []NoSilentLoss
<1>1. IInv => NoSilentLoss
  BY DEF IInv
<1>. QED BY <1>1, Inductive, PTL

\* Peek can reach every active record from the head of the order, and between
\* calls the index lists exactly the files of the two directories.
THEOREM NeverStranded == Spec => []NothingStranded
<1>1. IInv => NothingStranded
  BY DEF IInv
<1>. QED BY <1>1, Inductive, PTL

------------------------------------------------------------------------------
(* Names.  A second layer: where the names that a step works on come from.    *)
(* The index alone does not say that a name is never given twice, nor that    *)
(* the record a call moves is still in queue/; the contract needs both.       *)

Writing == {"create", "rename"}
Handling == {"room", "create", "rename", "unlink"}

\* Which names the steps work on, and what a start has still to migrate.
NamesOK ==
  /\ queueDir \subseteq Records
  /\ legacy # {} =>
       /\ legacy = LegacyIds /\ queueDir \subseteq LegacyIds /\ run = "down"
       /\ op.call = "open" => op.at \in {"migrate", "create", "rename", "retire"}
                              /\ op.back = "migrate"
  /\ (op.back = "migrate" /\ op.at \in {"migrate", "create", "rename"}) =>
       legacy # {} /\ op.todo \subseteq LegacyIds
  /\ (op.back = "migrate" /\ op.at \in Writing) => op.w \in LegacyIds
  /\ op.back = "push" => op.id = op.w /\ op.w \in Records
  /\ op.at \in Handling =>
       /\ Quarantining => op.w \in DiagIds
       /\ op.back = "scan" => Quarantining

\* A name given once is not given again, so that no two records share a
\* diagnostic, and a push writes under a name with no past.
FreshOK ==
  /\ queueDir \cup acked \cup DeadFiles \cup discarded \cup LegacyIds \subseteq used
  /\ \A id \in Ids : diagOf[id] # NoId => diagOf[id] \in DiagIds \cap used /\ id \in used
  /\ \A i, j \in Ids : diagOf[i] = diagOf[j] /\ diagOf[i] # NoId => i = j
  /\ op.at = "room" => op.w \notin used
  /\ op.at \in Writing => op.w \in used
  /\ (op.at \in Writing /\ op.back = "push") =>
       /\ op.w \notin queueDir \cup acked \cup DeadFiles \cup discarded
       /\ diagOf[op.w] = NoId
  /\ (op.at \in Writing /\ Quarantining) => \A j \in Ids : diagOf[j] # op.w

\* The record a call moves stays in queue/ until the call removes it.
MovesOK ==
  /\ (op.at \in Handling /\ Moving) => op.id \in queueDir
  /\ (op.at = "expire" \/ (op.at \in {"index", "tidy"} /\ op.back \in {"expire", "index"})) =>
       op.todo \subseteq queueDir
  /\ (op.at \in Handling /\ op.back \in {"expire", "index"}) =>
       op.todo \subseteq queueDir \ {op.id}

NInv == NamesOK /\ FreshOK /\ MovesOK


\* A step that leaves the files and what has been given, and moves to a point at
\* which nothing is being moved.
LEMMA ElsewhereN ==
  ASSUME NInv, UNCHANGED <<queueDir, deadDir, acked, discarded, used, diagOf>>,
         legacy' = legacy, legacy # {} => run' = "down" /\ op'.call # "open",
         op'.at \notin Handling \cup {"expire", "index", "tidy", "migrate"},
         op'.back # "push"
  PROVE  NInv'
<1>1. NamesOK'
  BY DEF NInv, NamesOK, Writing, Handling
<1>2. FreshOK' /\ MovesOK'
  BY DEF NInv, FreshOK, MovesOK, Writing, Handling, DeadFiles
<1>. QED BY <1>1, <1>2 DEF NInv

LEMMA NothingToMigrate ==
  ASSUME IInv, NInv,
         op.call # "none" /\ (op.back # "migrate" \/ op.at \in {"index", "prune", "tidy", "unlink"})
  PROVE  legacy = {}
BY DEF IInv, CallsOK, NInv, NamesOK, TypeOK

LEMMA CallsStartN ==
  ASSUME IInv, NInv,
         \/ Idle /\ \E call \in {"push", "peek", "stats"} : StartExpiring(call)
                 /\ UNCHANGED <<disk, idx, run, now, callers, history, crashes>>
         \/ StartAckHanded \/ StartRollback \/ StartReject
  PROVE  NInv'
<1>1. /\ UNCHANGED <<disk, idx, run, history>> /\ Idle /\ legacy = {}
      /\ op'.back \notin {"push", "migrate", "scan", "index"}
      /\ op'.at \in {"expire", "ack", "read"}
      /\ op'.at = "expire" => op'.todo = Overdue(idx)
  BY DEF StartExpiring, StartAckHanded, StartRollback, StartReject, StartAck, NoOp, disk, Idle,
     NInv, NamesOK
<1>2. Overdue(idx) \subseteq queueDir
  BY DEF Overdue, IInv, NothingStranded
<1>3. NamesOK'
  BY <1>1 DEF NInv, NamesOK, disk, history, Writing, Handling
<1>4. FreshOK'
  BY <1>1 DEF NInv, FreshOK, disk, history, Writing, DeadFiles
<1>5. MovesOK'
  BY <1>1, <1>2 DEF MovesOK, disk, Handling
<1>. QED BY <1>3, <1>4, <1>5 DEF NInv

LEMMA NoCallN ==
  ASSUME IInv, NInv, DropHanded \/ CommitBatch \/ Tick \/ SetBack
  PROVE  NInv'
<1>1. UNCHANGED <<disk, idx, op, run, history>>
  BY DEF DropHanded, CommitBatch, Tick, SetBack
<1>2. NamesOK' /\ FreshOK' /\ MovesOK'
  BY <1>1 DEF NInv, NamesOK, FreshOK, MovesOK, disk, history, DeadFiles, Quarantining, Moving
<1>. QED BY <1>2 DEF NInv

LEMMA StartOpenN == ASSUME IInv, NInv, StartOpen PROVE NInv'
<1>1. /\ UNCHANGED <<disk, run, history>> /\ run = "down"
      /\ op'.back = "migrate" /\ op'.todo = legacy
      /\ op'.at = IF legacy = {} THEN "index" ELSE "migrate"
  BY DEF StartOpen, NoOp
<1>2. NamesOK'
  BY <1>1 DEF NInv, NamesOK, disk, Handling, Writing
<1>3. FreshOK' /\ MovesOK'
  BY <1>1 DEF NInv, FreshOK, MovesOK, disk, history, DeadFiles, Handling, Writing
<1>. QED BY <1>2, <1>3 DEF NInv

LEMMA CrashN == ASSUME IInv, NInv, Crash PROVE NInv'
<1>1. /\ UNCHANGED <<disk, history>> /\ run' = "down"
      /\ op'.call = "none" /\ op'.back = "idle" /\ op'.at = "idle"
  BY DEF Crash, NoOp
<1>. QED BY <1>1, ElsewhereN DEF disk, history, Handling

LEMMA DamageN == ASSUME IInv, NInv, NEW id \in Corruptible, Damage(id) PROVE NInv'
<1>1. UNCHANGED <<queueDir, deadDir, legacy, idx, op, run, history>>
  BY DEF Damage
<1>2. NamesOK' /\ FreshOK' /\ MovesOK'
  BY <1>1 DEF NInv, NamesOK, FreshOK, MovesOK, history, DeadFiles, Quarantining, Moving
<1>. QED BY <1>2 DEF NInv

LEMMA FailN ==
  ASSUME IInv, NInv, Fail, op.call # "none",
         UNCHANGED <<queueDir, deadDir, legacy, history>>
  PROVE  NInv'
<1>1. /\ op'.call = "none" /\ op'.back = "idle" /\ op'.at = "idle"
      /\ run' = IF op.call = "open" THEN "down" ELSE run
  BY DEF Fail, Return, NoOp
<1>2. legacy # {} => run' = "down"
  BY <1>1 DEF NInv, NamesOK
<1>. QED BY <1>1, <1>2, ElsewhereN DEF history, Handling

LEMMA MigrateN == ASSUME IInv, NInv, Migrate PROVE NInv'
<1>1. /\ op \in OpType /\ op.at = "migrate" /\ op.back = "migrate"
      /\ UNCHANGED <<disk, idx, run, history>> /\ run = "down" /\ op.call = "open"
      /\ legacy # {} /\ op.todo \subseteq LegacyIds
  BY DEF Migrate, IInv, TypeOK, CallsOK, NInv, NamesOK
<1>2. CASE op.todo = {}
  <2>1. op'.at = "retire" /\ op'.back = "migrate"
    BY <1>1, <1>2 DEF Migrate, Goto, OpType
  <2>2. NamesOK' /\ FreshOK' /\ MovesOK'
    BY <1>1, <2>1 DEF NInv, NamesOK, FreshOK, MovesOK, disk, history, DeadFiles, Handling, Writing
  <2>. QED BY <2>2 DEF NInv
<1>3. CASE op.todo # {}
  <2>1. PICK id \in op.todo : op' = [op EXCEPT !.at = "create", !.id = id, !.w = id,
                                               !.todo = op.todo \ {id}]
    BY <1>1, <1>3, LeastName DEF Migrate, OpType
  <2>2. /\ op'.at = "create" /\ op'.id = id /\ op'.w = id /\ op'.back = "migrate"
        /\ op'.todo = op.todo \ {id} /\ op'.call = "open"
    BY <1>1, <2>1 DEF OpType
  <2>3. NamesOK'
    BY <1>1, <2>2 DEF NInv, NamesOK, disk, Handling, Writing, Quarantining
  <2>4. FreshOK' /\ MovesOK'
    BY <1>1, <2>2 DEF NInv, FreshOK, MovesOK, disk, history, DeadFiles, Handling, Writing,
       Quarantining, Moving
  <2>. QED BY <2>3, <2>4 DEF NInv
<1>. QED BY <1>2, <1>3

LEMMA OpeningN == ASSUME IInv, NInv, Retire \/ Rebuild PROVE NInv'
<1>1. /\ op \in OpType /\ op.call = "open" /\ op.at \in {"retire", "index"}
      /\ op.back = "migrate"
      /\ UNCHANGED <<queueDir, deadDir, history>> /\ legacy' = {}
  BY NothingToMigrate DEF Retire, Rebuild, IInv, TypeOK, CallsOK, disk
<1>2. /\ op'.at = "index" /\ op'.back \in {"migrate", "index"}
      /\ op'.back = "index" => op'.todo \subseteq queueDir
  BY <1>1 DEF Retire, Rebuild, Goto, OpType, IInv, TypeOK
<1>3. NamesOK'
  BY <1>1, <1>2 DEF NInv, NamesOK, Handling, Writing
<1>4. FreshOK' /\ MovesOK'
  BY <1>1, <1>2 DEF NInv, FreshOK, MovesOK, history, DeadFiles, Handling, Writing
<1>. QED BY <1>3, <1>4 DEF NInv

\* A damaged record is quarantined under a name no record has.
LEMMA VisitN ==
  ASSUME IInv, NInv, NEW id \in queueDir, NEW rest \in SUBSET Ids,
         NEW back \in {"expire", "scan", "index"}, Visit(id, back, rest),
         back = "scan" => id \in corrupt, back # "scan" => rest \subseteq queueDir \ {id},
         legacy = {}, UNCHANGED <<disk, idx, run, history>>
  PROVE  NInv'
<1>1. id \in Ids
  BY DEF IInv, TypeOK
<1>2. op \in OpType /\ op'.back = back /\ op'.id = id /\ op'.todo = rest
  BY <1>1, VisitOK DEF IInv, TypeOK
<1>3. CASE id \in corrupt
  <2>1. PICK w \in Fresh(DiagIds) :
          op' = [op EXCEPT !.at = "room", !.id = id, !.w = w, !.back = back, !.todo = rest]
    BY <1>3 DEF Visit
  <2>2. /\ op'.at = "room" /\ op'.w = w /\ w \in DiagIds /\ w \notin used
    BY <1>2, <2>1 DEF OpType, Fresh
  <2>3. id # w
    BY <2>2 DEF NInv, FreshOK
  <2>4. NamesOK'
    BY <1>2, <2>2, <2>3 DEF NInv, NamesOK, disk, Handling, Writing, Quarantining
  <2>5. FreshOK' /\ MovesOK'
    BY <1>2, <2>2, <2>3 DEF NInv, FreshOK, MovesOK, disk, history, DeadFiles, Handling, Writing,
       Quarantining, Moving
  <2>. QED BY <2>4, <2>5 DEF NInv
<1>4. CASE id \notin corrupt
  <2>1. op' = [op EXCEPT !.at = "create", !.id = id, !.w = id, !.back = back, !.todo = rest]
    BY <1>4 DEF Visit
  <2>2. op'.at = "create" /\ op'.w = id
    BY <1>2, <2>1 DEF OpType
  <2>3. NamesOK'
    BY <1>2, <1>4, <2>2 DEF NInv, NamesOK, disk, Handling, Writing, Quarantining
  <2>4. FreshOK' /\ MovesOK'
    BY <1>2, <2>2 DEF NInv, FreshOK, MovesOK, disk, history, DeadFiles, Handling, Writing,
       Quarantining, Moving
  <2>. QED BY <2>3, <2>4 DEF NInv
<1>. QED BY <1>3, <1>4

LEMMA QuarantineUnindexedN == ASSUME IInv, NInv, QuarantineUnindexed PROVE NInv'
<1>1. /\ op \in OpType /\ op.at = "index" /\ op.back = "index"
      /\ UNCHANGED <<disk, idx, run, history>> /\ legacy = {}
      /\ op.todo \subseteq queueDir
  BY NothingToMigrate DEF QuarantineUnindexed, IInv, TypeOK, CallsOK, NInv, MovesOK
<1>2. CASE op.todo = {}
  <2>1. op'.at = "prune" /\ op'.back = "index"
    BY <1>1, <1>2 DEF QuarantineUnindexed, Goto, OpType
  <2>. QED BY <1>1, <2>1, ElsewhereN DEF disk, history, Handling
<1>3. CASE op.todo # {}
  <2>1. PICK id \in op.todo : id = Min(op.todo)
    BY <1>1, <1>3, LeastName DEF OpType
  <2>2. Visit(id, "index", op.todo \ {id}) /\ op.todo \ {id} \in SUBSET Ids /\ id \in queueDir
    BY <1>1, <1>3, <2>1 DEF QuarantineUnindexed, OpType
  <2>. QED BY <1>1, <2>1, <2>2, VisitN
<1>. QED BY <1>2, <1>3

LEMMA ExpireN == ASSUME IInv, NInv, Expire PROVE NInv'
<1>1. /\ op \in OpType /\ op.at = "expire" /\ op.back \notin {"push", "migrate"}
      /\ UNCHANGED <<disk, run, history>> /\ legacy = {} /\ op.todo \subseteq queueDir
  BY NothingToMigrate DEF Expire, IInv, TypeOK, CallsOK, NInv, MovesOK
<1>2. CASE op.todo = {}
  <2>1. op'.at = "prune" /\ op'.back = op.back
    BY <1>1, <1>2 DEF Expire, Goto, OpType
  <2>. QED BY <1>1, <2>1, ElsewhereN DEF disk, history, Handling
<1>3. CASE op.todo # {}
  <2>1. PICK id \in op.todo : id = Min(op.todo)
    BY <1>1, <1>3, LeastName DEF OpType
  <2>2. /\ Visit(id, "expire", op.todo \ {id}) /\ op.todo \ {id} \in SUBSET Ids
        /\ idx' = idx /\ id \in queueDir
    BY <1>1, <1>3, <2>1 DEF Expire, OpType
  <2>. QED BY <1>1, <2>1, <2>2, VisitN
<1>. QED BY <1>2, <1>3

\* A dead letter goes; its name stays used.
LEMMA PruneOneN == ASSUME IInv, NInv, PruneOne PROVE NInv'
<1> DEFINE id == Min(Victims)
<1>1. /\ op.at \in {"prune", "room", "tidy"} /\ op' = op
      /\ deadDir' = [deadDir EXCEPT ![id] = 0] /\ discarded' = discarded \cup {id}
      /\ UNCHANGED <<queueDir, legacy, run, used, acked, diagOf>>
  BY DEF PruneOne
<1>2. id \in DeadFiles /\ id \in Ids
  <2>1. Victims \subseteq DeadIds(idx) /\ Victims # {}
    BY DEF Victims, Aged, PruneOne
  <2>2. id \in Victims
    BY <2>1, VictimsOK, LeastName DEF IInv
  <2>. QED BY <2>1, <2>2 DEF IInv, NothingStranded, DeadFiles
<1> HIDE DEF id
<1>3. DeadFiles' \subseteq DeadFiles
  BY <1>1, <1>2 DEF DeadFiles, IInv, TypeOK
<1>4. NamesOK' /\ MovesOK'
  BY <1>1 DEF NInv, NamesOK, MovesOK, Quarantining, Moving
<1>5. FreshOK'
  BY <1>1, <1>2, <1>3 DEF NInv, FreshOK, Writing, Quarantining
<1>. QED BY <1>4, <1>5 DEF NInv

LEMMA PrunedN == ASSUME IInv, NInv, Pruned PROVE NInv'
<1>1. /\ op \in OpType /\ op.at = "prune" /\ UNCHANGED <<disk, idx, history>>
      /\ legacy = {} /\ op.back \notin {"push", "migrate"}
  BY NothingToMigrate DEF Pruned, IInv, TypeOK, CallsOK
<1>2. CASE op.call = "push"
  <2>1. PICK id \in Fresh(Records \ LegacyIds) :
          op' = [op EXCEPT !.at = "room", !.id = id, !.w = id, !.back = "push"]
    BY <1>2 DEF Pruned
  <2>2. /\ op'.at = "room" /\ op'.id = id /\ op'.w = id /\ op'.back = "push"
        /\ id \in Records /\ id \notin used
    BY <1>1, <2>1 DEF OpType, Fresh
  <2>3. NamesOK'
    BY <1>1, <2>2 DEF NInv, NamesOK, disk, Handling, Writing, Quarantining
  <2>4. FreshOK' /\ MovesOK'
    BY <1>1, <2>2 DEF NInv, FreshOK, MovesOK, disk, history, DeadFiles, Handling, Writing, Moving
  <2>. QED BY <2>3, <2>4 DEF NInv
<1>3. CASE op.call = "peek"
  <2>1. op'.at = "scan" /\ op'.back = op.back
    BY <1>1, <1>3 DEF Pruned, OpType
  <2>. QED BY <1>1, <2>1, ElsewhereN DEF disk, history, Handling
<1>4. CASE op.call \notin {"push", "peek"}
  <2>1. op' = NoOp
    BY <1>4 DEF Pruned, Return
  <2>2. op'.at = "idle" /\ op'.back = "idle"
    BY <2>1 DEF NoOp
  <2>. QED BY <1>1, <2>2, ElsewhereN DEF disk, history, Handling
<1>. QED BY <1>2, <1>3, <1>4

LEMMA TidiedN == ASSUME IInv, NInv, Tidied PROVE NInv'
<1>1. /\ op \in OpType /\ op.at = "tidy" /\ UNCHANGED <<disk, idx, run, history>>
      /\ legacy = {} /\ op.back \notin {"push", "migrate", "idle"} /\ op.back \in Resumptions
  BY NothingToMigrate DEF Tidied, IInv, TypeOK, CallsOK, StepsOK, Moving, OpType
<1>2. op'.at = op.back /\ op'.back = op.back /\ op'.todo = op.todo
  BY <1>1 DEF Tidied, Goto, OpType
<1>3. op'.at \in {"expire", "scan", "index", "prune"}
  BY <1>1, <1>2 DEF Resumptions
<1>4. NamesOK' /\ FreshOK' /\ MovesOK'
  BY <1>1, <1>2, <1>3 DEF NInv, NamesOK, FreshOK, MovesOK, disk, history, DeadFiles, Handling,
     Writing
<1>. QED BY <1>4 DEF NInv

\* A name is given when there is room for what will be written under it.
LEMMA RoomMadeN == ASSUME IInv, NInv, RoomMade PROVE NInv'
<1>1. /\ op \in OpType /\ op.at = "room" /\ UNCHANGED <<disk, idx, acked, discarded, diagOf>>
      /\ op.back # "migrate" /\ legacy = {} /\ op.call # "none" /\ op.w \in Ids
  BY NothingToMigrate DEF RoomMade, IInv, TypeOK, StepsOK, CallsOK
<1>2. CASE RoomLeft
  <2>1. /\ op' = [op EXCEPT !.at = "create"] /\ run' = run /\ used' = used \cup {op.w}
    BY <1>2 DEF RoomMade
  <2>2. /\ op'.at = "create" /\ op'.id = op.id /\ op'.w = op.w /\ op'.back = op.back
        /\ op'.todo = op.todo
    BY <1>1, <2>1 DEF OpType
  <2>3. NamesOK' /\ MovesOK'
    BY <1>1, <2>1, <2>2 DEF NInv, NamesOK, MovesOK, disk, Quarantining, Moving, Handling, Writing
  <2>4. FreshOK'
    BY <1>1, <2>1, <2>2, NamesAreNumbers DEF NInv, FreshOK, disk, Quarantining, Writing, DeadFiles
  <2>. QED BY <2>3, <2>4 DEF NInv
<1>3. CASE ~RoomLeft
  BY <1>1, <1>3, FailN DEF RoomMade, disk, history
<1>. QED BY <1>2, <1>3

LEMMA CreateTempN == ASSUME IInv, NInv, CreateTemp PROVE NInv'
<1>1. /\ op \in OpType /\ op.at = "create" /\ op.call # "none"
      /\ UNCHANGED <<queueDir, deadDir, legacy, history>>
  BY DEF CreateTemp, IInv, TypeOK, CallsOK
<1>2. CASE TempExists
  BY <1>1, <1>2, FailN DEF CreateTemp
<1>3. CASE ~TempExists
  <2>1. op' = [op EXCEPT !.at = "rename"] /\ run' = run
    BY <1>3 DEF CreateTemp, Goto
  <2>2. /\ op'.at = "rename" /\ op'.id = op.id /\ op'.w = op.w /\ op'.back = op.back
        /\ op'.todo = op.todo /\ op'.call = op.call
    BY <1>1, <2>1 DEF OpType
  <2>3. NamesOK'
    BY <1>1, <2>1, <2>2 DEF NInv, NamesOK, Quarantining, Handling, Writing
  <2>4. FreshOK' /\ MovesOK'
    BY <1>1, <2>2 DEF NInv, FreshOK, MovesOK, history, Quarantining, Moving, Handling, Writing,
       DeadFiles
  <2>. QED BY <2>3, <2>4 DEF NInv
<1>. QED BY <1>2, <1>3

\* A file appears under its final name, or was there already.
LEMMA WrittenN ==
  ASSUME IInv, NInv, Written, op.at \in Writing,
         Moving => /\ queueDir' = queueDir
                   /\ deadDir' \in [Ids -> Times] /\ DeadFiles' = DeadFiles \cup {op.w},
         ~Moving => queueDir' = queueDir \cup {op.w} /\ deadDir' = deadDir,
         UNCHANGED <<legacy, run, used, acked, discarded>>
  PROVE  NInv'
<1>1. /\ op \in OpType /\ op.w \in Ids /\ op.id \in Ids /\ op.back # "idle"
      /\ op.w \in used /\ op.call # "none" /\ LegacyIds \subseteq Records
      /\ diagOf \in [Ids -> Ids \cup {NoId}]
  BY SpoolAssumption DEF IInv, TypeOK, StepsOK, CallsOK, NInv, FreshOK, Records, Writing
<1>2. CASE op.back = "push"
  <2>1. /\ ~Moving /\ run = "up" /\ op.w \in Records /\ legacy = {}
    BY <1>2 DEF Moving, NInv, NamesOK, IInv, CallsOK, TypeOK
  <2>2. /\ op'.at = "idle" /\ op'.back = "idle" /\ op'.call = "none" /\ diagOf' = diagOf
    BY <1>2 DEF Written, Return, NoOp
  <2>3. NamesOK'
    BY <2>1, <2>2 DEF NInv, NamesOK, Handling, Writing
  <2>4. FreshOK' /\ MovesOK'
    BY <1>1, <2>1, <2>2 DEF NInv, FreshOK, MovesOK, Handling, Writing, DeadFiles
  <2>. QED BY <2>3, <2>4 DEF NInv
<1>3. CASE op.back = "migrate"
  <2>1. /\ op' = [op EXCEPT !.at = "migrate"] /\ diagOf' = diagOf /\ ~Moving
    BY <1>3 DEF Written, Goto, Moving
  <2>2. /\ op'.at = "migrate" /\ op'.back = "migrate" /\ op'.call = op.call
        /\ op'.todo = op.todo
    BY <1>1, <1>3, <2>1 DEF OpType
  <2>3. NamesOK'
    BY <1>1, <1>3, <2>1, <2>2 DEF NInv, NamesOK, Handling, Writing
  <2>4. FreshOK' /\ MovesOK'
    BY <1>1, <1>3, <2>1, <2>2 DEF NInv, FreshOK, MovesOK, Handling, Writing, DeadFiles
  <2>. QED BY <2>3, <2>4 DEF NInv
<1>4. CASE op.back \notin {"push", "migrate"}
  <2>1. /\ op' = [op EXCEPT !.at = "unlink"] /\ Moving
        /\ diagOf' = IF Quarantining THEN [diagOf EXCEPT ![op.id] = op.w] ELSE diagOf
    BY <1>4 DEF Written, Goto, Moving
  <2>2. /\ op'.at = "unlink" /\ op'.back = op.back /\ op'.id = op.id /\ op'.w = op.w
        /\ op'.todo = op.todo /\ op'.call = op.call
    BY <1>1, <2>1 DEF OpType
  <2>3. legacy = {}
    BY <1>1, <1>4, NothingToMigrate
  <2>4. NamesOK' /\ MovesOK'
    BY <1>4, <2>1, <2>2, <2>3 DEF NInv, NamesOK, MovesOK, Quarantining, Moving, Handling, Writing
  <2>5. FreshOK'
    <3>1. op.id \in used
      BY <2>1 DEF NInv, MovesOK, FreshOK, Handling, Writing
    <3>2. CASE Quarantining
      <4>1. /\ op.w \in DiagIds /\ \A j \in Ids : diagOf[j] # op.w
            /\ diagOf' = [diagOf EXCEPT ![op.id] = op.w]
        BY <2>1, <3>2 DEF NInv, NamesOK, FreshOK, Handling, Writing
      <4>2. \A j \in Ids : diagOf'[j] = IF j = op.id THEN op.w ELSE diagOf[j]
        BY <1>1, <4>1
      <4>3. \A id \in Ids : diagOf'[id] # NoId => diagOf'[id] \in DiagIds \cap used /\ id \in used
        BY <1>1, <3>1, <4>1, <4>2 DEF NInv, FreshOK
      <4>4. \A i, j \in Ids : diagOf'[i] = diagOf'[j] /\ diagOf'[i] # NoId => i = j
        BY <4>1, <4>2 DEF NInv, FreshOK
      <4>. QED BY <1>1, <2>1, <2>2, <4>3, <4>4 DEF NInv, FreshOK, Writing
    <3>3. CASE ~Quarantining
      BY <1>1, <2>1, <2>2, <3>3 DEF NInv, FreshOK, Writing
    <3>. QED BY <3>2, <3>3
  <2>. QED BY <2>4, <2>5 DEF NInv
<1>. QED BY <1>2, <1>3, <1>4

LEMMA WritingN == ASSUME IInv, NInv, AlreadyWritten \/ RenameTemp PROVE NInv'
<1>1. CASE AlreadyWritten
  <2>1. Moving => /\ DeadFiles' = DeadFiles \cup {op.w} /\ queueDir' = queueDir
                  /\ deadDir' \in [Ids -> Times]
    BY <1>1 DEF AlreadyWritten, FinalExists, disk, DeadFiles, IInv, TypeOK
  <2>2. ~Moving => queueDir' = queueDir \cup {op.w} /\ deadDir' = deadDir
    BY <1>1 DEF AlreadyWritten, FinalExists, disk
  <2>. QED BY <1>1, <2>1, <2>2, WrittenN DEF AlreadyWritten, disk, Writing
<1>2. CASE RenameTemp
  <2>1. Moving => /\ deadDir' \in [Ids -> Times] /\ DeadFiles' = DeadFiles \cup {op.w}
                  /\ queueDir' = queueDir
    BY <1>2 DEF RenameTemp, IInv, TypeOK, StepsOK, DeadFiles
  <2>2. ~Moving => queueDir' = queueDir \cup {op.w} /\ deadDir' = deadDir
    BY <1>2 DEF RenameTemp
  <2>. QED BY <1>2, <2>1, <2>2, WrittenN DEF RenameTemp, Writing
<1>. QED BY <1>1, <1>2

LEMMA UnlinkN == ASSUME IInv, NInv, Unlink PROVE NInv'
<1>1. /\ op \in OpType /\ op.at = "unlink" /\ op.back \in Resumptions
      /\ op.back \notin {"push", "migrate", "idle"} /\ legacy = {}
      /\ UNCHANGED <<deadDir, legacy, run, history>> /\ queueDir' = queueDir \ {op.id}
  BY NothingToMigrate DEF Unlink, RemoveQueueFile, IInv, TypeOK, StepsOK, CallsOK, Moving, OpType
<1>2. /\ op'.at \in {"tidy", op.back} /\ op'.back = op.back /\ op'.todo = op.todo
  BY <1>1 DEF Unlink, Goto, OpType
<1>3. op'.at \in {"tidy", "expire", "index", "prune", "scan"}
  BY <1>1, <1>2 DEF Resumptions
<1>4. NamesOK' /\ MovesOK'
  BY <1>1, <1>2, <1>3 DEF NInv, NamesOK, MovesOK, Handling, Writing
<1>5. FreshOK'
  BY <1>1, <1>2, <1>3 DEF NInv, FreshOK, Writing, history, DeadFiles
<1>. QED BY <1>4, <1>5 DEF NInv

LEMMA AckN == ASSUME IInv, NInv, Ack PROVE NInv'
<1>1. /\ op \in OpType /\ op.at = "ack" /\ op.back \notin {"push", "migrate", "index"}
      /\ UNCHANGED <<deadDir, legacy, run, used, discarded, diagOf>> /\ legacy = {}
  BY NothingToMigrate DEF Ack, IInv, TypeOK, CallsOK
<1>2. /\ queueDir' \subseteq queueDir /\ op'.at \in {"idle", "ack"}
      /\ op'.back \notin {"push", "migrate"} /\ acked' \subseteq acked \cup queueDir
  <2>1. CASE op.todo = {}
    BY <1>1, <2>1 DEF Ack, Return, NoOp
  <2>2. CASE op.todo # {}
    BY <1>1, <2>2 DEF Ack, RemoveQueueFile, OpType
  <2>. QED BY <2>1, <2>2
<1>3. NamesOK' /\ MovesOK'
  BY <1>1, <1>2 DEF NInv, NamesOK, MovesOK, Handling, Writing
<1>4. FreshOK'
  BY <1>1, <1>2 DEF NInv, FreshOK, Writing, DeadFiles
<1>. QED BY <1>3, <1>4 DEF NInv

LEMMA ScanN == ASSUME IInv, NInv, Scan PROVE NInv'
<1> DEFINE ahead == op.todo \cap idx.active
<1>1. /\ op \in OpType /\ op.at = "scan" /\ op.back \notin {"push", "migrate"}
      /\ UNCHANGED <<disk, run, history>> /\ legacy = {}
      /\ ahead \subseteq Ids /\ ahead \subseteq queueDir
  BY NothingToMigrate DEF Scan, IInv, TypeOK, CallsOK, OpType, NothingStranded
<1>2. CASE ahead = {} \/ Cardinality(op.got) = PeekLimit
  <2>1. op' = NoOp
    BY <1>2 DEF Scan, Return
  <2>2. op'.at = "idle" /\ op'.back = "idle"
    BY <2>1 DEF NoOp
  <2>. QED BY <1>1, <2>2, ElsewhereN DEF disk, history, Handling
<1>3. CASE ~(ahead = {} \/ Cardinality(op.got) = PeekLimit)
  <2>1. PICK id \in ahead : id = Min(ahead)
    BY <1>1, <1>3, LeastName
  <2>2. /\ idx' = idx
        /\ IF id \in corrupt THEN Visit(id, "scan", op.todo \ {id})
           ELSE op' = [op EXCEPT !.todo = op.todo \ {id}, !.got = op.got \cup {id}]
    BY <1>3, <2>1 DEF Scan
  <2>3. id \in queueDir
    BY <1>1, <2>1
  <2> HIDE DEF ahead
  <2>4. CASE id \in corrupt
    <3>1. op.todo \ {id} \in SUBSET Ids /\ Visit(id, "scan", op.todo \ {id})
      BY <1>1, <2>2, <2>4 DEF OpType
    <3>. QED BY <1>1, <2>2, <2>3, <2>4, <3>1, VisitN
  <2>5. CASE id \notin corrupt
    <3>1. op'.at = "scan" /\ op'.back = op.back
      BY <1>1, <2>2, <2>5 DEF OpType
    <3>. QED BY <1>1, <3>1, ElsewhereN DEF disk, history, Handling
  <2>. QED BY <2>4, <2>5
<1>. QED BY <1>2, <1>3

LEMMA ReadN == ASSUME IInv, NInv, Read PROVE NInv'
<1>1. /\ op \in OpType /\ op.at = "read" /\ op.back = "prune" /\ legacy = {} /\ op.id = op.w
      /\ UNCHANGED <<disk, idx, history>> /\ op.call # "none"
  BY NothingToMigrate DEF Read, IInv, TypeOK, StepsOK, CallsOK
<1>2. CASE op.id \in queueDir \ corrupt
  <2>1. /\ op'.at = "create" /\ op'.back = "prune" /\ op'.id = op.id /\ op'.w = op.id
        /\ run' = run
    BY <1>1, <1>2 DEF Read, Goto, OpType
  <2>2. NamesOK'
    BY <1>1, <2>1 DEF NInv, NamesOK, disk, Handling, Writing, Quarantining
  <2>3. FreshOK' /\ MovesOK'
    BY <1>1, <1>2, <2>1 DEF NInv, FreshOK, MovesOK, disk, history, Handling, Writing,
       Quarantining, Moving, DeadFiles
  <2>. QED BY <2>2, <2>3 DEF NInv
<1>3. CASE op.id \notin queueDir \ corrupt
  BY <1>1, <1>3, FailN DEF Read, disk
<1>. QED BY <1>2, <1>3

LEMMA IOErrorN == ASSUME IInv, NInv, IOError PROVE NInv'
BY FailN DEF IOError

\* The file is written although the call fails: its name was given before.
LEMMA SyncErrorN == ASSUME IInv, NInv, SyncError PROVE NInv'
<1>1. /\ op'.call = "none" /\ op'.back = "idle" /\ op'.at = "idle"
      /\ run' = (IF op.call = "open" THEN "down" ELSE run)
      /\ UNCHANGED <<legacy, history>> /\ op.at = "rename" /\ op.w \in Ids /\ op.w \in used
  BY DEF SyncError, Fail, Return, NoOp, IInv, StepsOK, NInv, FreshOK, Writing
<1>2. /\ Moving => queueDir' = queueDir /\ DeadFiles' \subseteq DeadFiles \cup {op.w}
      /\ ~Moving => queueDir' = queueDir \cup {op.w} /\ DeadFiles' = DeadFiles
  BY <1>1 DEF SyncError, DeadFiles, IInv, TypeOK
<1>3. ~Moving => op.w \in Records /\ (legacy # {} => op.w \in LegacyIds)
  <2>1. LegacyIds \subseteq Records
    BY SpoolAssumption DEF Records
  <2>. QED BY <1>1, <2>1 DEF Moving, NInv, NamesOK, Writing, IInv, CallsOK, TypeOK
<1>4. NamesOK' /\ MovesOK'
  BY <1>1, <1>2, <1>3 DEF NInv, NamesOK, MovesOK, Handling, Writing
<1>5. FreshOK'
  BY <1>1, <1>2 DEF NInv, FreshOK, Writing, history
<1>. QED BY <1>4, <1>5 DEF NInv

LEMMA InitN == Init => NInv
<1> SUFFICES ASSUME Init PROVE NInv
  OBVIOUS
<1>1. op.at = "idle" /\ op.back = "idle" /\ op.call = "none"
  BY DEF Init, NoOp
<1>2. NamesOK /\ MovesOK
  BY <1>1 DEF Init, NamesOK, MovesOK, Handling, Writing
<1>3. FreshOK
  BY <1>1 DEF Init, FreshOK, Writing, DeadFiles
<1>. QED BY <1>2, <1>3 DEF NInv

LEMMA StepN == IInv /\ NInv /\ [Next]_vars => NInv'
<1> SUFFICES ASSUME IInv, NInv, [Next]_vars PROVE NInv'
  OBVIOUS
<1>1. CASE StartOpen
  BY <1>1, StartOpenN
<1>2. CASE Working
  BY <1>2, MigrateN, OpeningN, QuarantineUnindexedN, ExpireN, PruneOneN, PrunedN, TidiedN,
     RoomMadeN, CreateTempN, WritingN, UnlinkN, ScanN, AckN, ReadN DEF Working
<1>3. CASE Collecting
  BY <1>3, CallsStartN, NoCallN DEF Collecting, StartPush
<1>4. CASE Sending
  BY <1>4, CallsStartN, NoCallN DEF Sending, StartPeek
<1>5. CASE StartStats
  BY <1>5, CallsStartN DEF StartStats
<1>6. CASE Environment
  BY <1>6, CrashN, IOErrorN, SyncErrorN, NoCallN, DamageN DEF Environment
<1>7. CASE UNCHANGED vars
  BY <1>7 DEF vars, NInv, NamesOK, FreshOK, MovesOK, disk, history, DeadFiles, Quarantining, Moving
<1>. QED BY <1>1, <1>2, <1>3, <1>4, <1>5, <1>6, <1>7 DEF Next

------------------------------------------------------------------------------
(* DiskBounded.  What is in queue/ fits by itself at any time: a push keeps   *)
(* the room it made until it has written, and only the records of an older    *)
(* agent come without asking for room.  A dead letter is written before its   *)
(* record goes, so both directories together may exceed the limits within a   *)
(* call, but every call that wrote one prunes before it reads on or returns,  *)
(* unless it met a temporary file that a crash had left.                      *)

QueueFits == Cardinality(queueDir) <= MaxRecords /\ Bytes(queueDir, 0) <= MaxBytes

\* The room a push has made is still there when it writes.
RoomKept ==
  (op.back = "push" /\ op.at \in {"create", "rename"}) => Fits(idx, 1, Size[op.w])

\* Where a call has pruned, and whatever it moved has been made room for.
Settled == {"idle", "ack", "read", "scan"}
SettledFits == (run = "up" /\ deadTmp = {} /\ op.at \in Settled) => Fits(idx, 0, 0)

BInv == QueueFits /\ RoomKept /\ SettledFits

\* The records an older agent left are within the limits of this one.
LegacyFits == Cardinality(LegacyIds) <= MaxRecords /\ Bytes(LegacyIds, 0) <= MaxBytes

LEMMA NamesFinite ==
  ASSUME NEW S, S \subseteq Ids
  PROVE  IsFiniteSet(S) /\ Cardinality(S) \in Nat
BY SpoolAssumption, FS_Subset, FS_CardinalityType

\* Counting bytes: a number, larger for more records, and one more record adds
\* its size at most.
LEMMA BytesFinite ==
  ASSUME NEW S, S \subseteq Ids, NEW extra \in Nat
  PROVE  IsFiniteSet(ByteSet(S, extra)) /\ Bytes(S, extra) \in Nat
<1> DEFINE one(id) == {id} \X (1 .. Size[id] + extra)
           all == {one(id) : id \in S}
<1>1. ASSUME NEW id \in S
      PROVE  IsFiniteSet(one(id))
  <2>1. PICK n \in Int : n = Size[id] + extra
    BY SpoolAssumption
  <2>2. IsFiniteSet(1 .. n)
    <3>1. 1 \in Int
      OBVIOUS
    <3>. QED BY <3>1, FS_Interval
  <2>3. IsFiniteSet({id})
    BY FS_Singleton
  <2>4. IsFiniteSet({id} \X (1 .. n))
    BY <2>2, <2>3, FS_Product
  <2>. QED BY <2>1, <2>4
<1>2. IsFiniteSet(all)
  <2>1. IsFiniteSet(S)
    BY NamesFinite
  <2> DEFINE f == [id \in S |-> one(id)]
  <2>2. f \in Surjection(S, all)
    BY DEF Surjection
  <2>. QED BY <2>1, <2>2, FS_Surjection
<1>3. IsFiniteSet(UNION all)
  BY <1>1, <1>2, FS_UNION
<1>4. IsFiniteSet(ByteSet(S, extra))
  BY <1>3 DEF ByteSet
<1>. QED BY <1>4, FS_CardinalityType DEF Bytes

LEMMA BytesGrow ==
  ASSUME NEW S, NEW T, S \subseteq T, T \subseteq Ids, NEW extra \in Nat
  PROVE  Bytes(S, extra) <= Bytes(T, extra)
<1>1. IsFiniteSet(ByteSet(T, extra))
  BY BytesFinite
<1>2. ByteSet(S, extra) \subseteq ByteSet(T, extra)
  BY DEF ByteSet
<1>. QED BY <1>1, <1>2, FS_Subset DEF Bytes

LEMMA BytesAdd ==
  ASSUME NEW S, S \subseteq Ids, NEW id \in Ids
  PROVE  Bytes(S \cup {id}, 0) <= Bytes(S, 0) + Size[id]
<1> DEFINE one == {id} \X (1 .. Size[id])
<1>1. Size[id] \in Nat /\ Size[id] >= 1
  BY SpoolAssumption
<1>2. IsFiniteSet(one) /\ Cardinality(one) = Size[id]
  <2>1. PICK n \in Int : n = Size[id] /\ n >= 1
    BY <1>1
  <2>2. IsFiniteSet(1 .. n) /\ Cardinality(1 .. n) = n
    <3>1. 1 \in Int
      OBVIOUS
    <3>2. /\ IsFiniteSet(1 .. n)
          /\ Cardinality(1 .. n) = IF 1 > n THEN 0 ELSE n - 1 + 1
      BY <3>1, FS_Interval
    <3>. QED BY <2>1, <3>2
  <2>3. IsFiniteSet({id}) /\ Cardinality({id}) = 1
    BY FS_Singleton
  <2>4. IsFiniteSet({id} \X (1 .. n)) /\ Cardinality({id} \X (1 .. n)) = 1 * n
    BY <2>2, <2>3, FS_Product
  <2>. QED BY <2>1, <2>4
<1>3. ByteSet(S \cup {id}, 0) = ByteSet(S, 0) \cup one
  BY <1>1 DEF ByteSet
<1> HIDE DEF one
<1>4. IsFiniteSet(ByteSet(S, 0)) /\ Bytes(S, 0) \in Nat
  BY BytesFinite
<1>5. PICK common : common = ByteSet(S, 0) \cap one
  OBVIOUS
<1>6. /\ Cardinality(ByteSet(S, 0) \cup one)
           = Cardinality(ByteSet(S, 0)) + Cardinality(one) - Cardinality(common)
  BY <1>2, <1>4, <1>5, FS_Union
<1>7. Cardinality(common) \in Nat
  BY <1>2, <1>5, FS_Subset, FS_CardinalityType
<1>8. Bytes(S \cup {id}, 0) = Bytes(S, 0) + Size[id] - Cardinality(common)
  BY <1>2, <1>3, <1>6 DEF Bytes
<1>. QED BY <1>1, <1>4, <1>7, <1>8

LEMMA BytesNone ==
  ASSUME NEW extra \in Nat
  PROVE  Bytes({}, extra) = 0 /\ Cardinality({}) = 0
<1>1. ByteSet({}, extra) = {}
  BY DEF ByteSet
<1>. QED BY <1>1, FS_EmptySet DEF Bytes

LEMMA DeadAreNames == \A ix : DeadIds(ix) \subseteq Ids
BY DEF DeadIds

\* A smaller index leaves at least as much room.
LEMMA FitsShrinks ==
  ASSUME NEW ix \in IndexType, NEW iy \in IndexType,
         iy.active \subseteq ix.active, DeadIds(iy) \subseteq DeadIds(ix),
         NEW records \in Nat, NEW bytes \in Nat, Fits(ix, records, bytes)
  PROVE  Fits(iy, records, bytes)
<1>1. ReasonBytes \in Nat /\ 0 \in Nat /\ MaxRecords \in Nat /\ MaxBytes \in Nat
  BY SpoolAssumption
<1>2. PICK a, b, d, e :
        a = ix.active /\ b = iy.active /\ d = DeadIds(ix) /\ e = DeadIds(iy)
  OBVIOUS
<1>3. a \subseteq Ids /\ b \subseteq a /\ d \subseteq Ids /\ e \subseteq d
  BY <1>2, DeadAreNames DEF IndexType
<1>4. /\ Cardinality(a) \in Nat /\ Cardinality(b) \in Nat /\ Cardinality(b) <= Cardinality(a)
      /\ Cardinality(d) \in Nat /\ Cardinality(e) \in Nat /\ Cardinality(e) <= Cardinality(d)
  BY <1>3, NamesFinite, FS_Subset
<1>5. /\ Bytes(a, 0) \in Nat /\ Bytes(b, 0) \in Nat /\ Bytes(b, 0) <= Bytes(a, 0)
  BY <1>1, <1>3, BytesFinite, BytesGrow
<1>6. /\ Bytes(d, ReasonBytes) \in Nat /\ Bytes(e, ReasonBytes) \in Nat
      /\ Bytes(e, ReasonBytes) <= Bytes(d, ReasonBytes)
  BY <1>1, <1>3, BytesFinite, BytesGrow
<1>7. /\ Cardinality(a) + Cardinality(d) + records <= MaxRecords
      /\ Bytes(a, 0) + Bytes(d, ReasonBytes) + bytes <= MaxBytes
  BY <1>2 DEF Fits, TotalRecords, TotalBytes
<1>8. /\ Cardinality(b) + Cardinality(e) + records <= MaxRecords
      /\ Bytes(b, 0) + Bytes(e, ReasonBytes) + bytes <= MaxBytes
  BY <1>1, <1>4, <1>5, <1>6, <1>7
<1>. QED BY <1>2, <1>8 DEF Fits, TotalRecords, TotalBytes

\* A record for which there is room may be added.
LEMMA FitsAdded ==
  ASSUME NEW ix \in IndexType, NEW iy \in IndexType, NEW id \in Ids,
         iy.active = ix.active \cup {id}, DeadIds(iy) = DeadIds(ix),
         Fits(ix, 1, Size[id])
  PROVE  Fits(iy, 0, 0)
<1>1. ReasonBytes \in Nat /\ MaxRecords \in Nat /\ MaxBytes \in Nat /\ Size[id] \in Nat
  BY SpoolAssumption
<1>2. PICK a, d : a = ix.active /\ d = DeadIds(ix)
  OBVIOUS
<1>3. a \subseteq Ids /\ d \subseteq Ids
  BY <1>2, DeadAreNames DEF IndexType
<1>4. /\ Cardinality(a) \in Nat /\ Cardinality(d) \in Nat
      /\ Cardinality(a \cup {id}) \in {Cardinality(a), Cardinality(a) + 1}
  BY <1>3, NamesFinite, FS_AddElement
<1>5. /\ Bytes(a, 0) \in Nat /\ Bytes(d, ReasonBytes) \in Nat /\ Bytes(a \cup {id}, 0) \in Nat
      /\ Bytes(a \cup {id}, 0) <= Bytes(a, 0) + Size[id]
  BY <1>1, <1>3, BytesFinite, BytesAdd
<1>6. /\ Cardinality(a) + Cardinality(d) + 1 <= MaxRecords
      /\ Bytes(a, 0) + Bytes(d, ReasonBytes) + Size[id] <= MaxBytes
  BY <1>2 DEF Fits, TotalRecords, TotalBytes
<1>7. /\ Cardinality(a \cup {id}) + Cardinality(d) + 0 <= MaxRecords
      /\ Bytes(a \cup {id}, 0) + Bytes(d, ReasonBytes) + 0 <= MaxBytes
  BY <1>1, <1>4, <1>5, <1>6
<1>. QED BY <1>2, <1>7 DEF Fits, TotalRecords, TotalBytes

\* What fits with the dead letters fits without them.
LEMMA FitsAlone ==
  ASSUME NEW ix \in IndexType, NEW S, S \subseteq ix.active, Fits(ix, 0, 0)
  PROVE  Cardinality(S) <= MaxRecords /\ Bytes(S, 0) <= MaxBytes
<1>1. ReasonBytes \in Nat /\ 0 \in Nat /\ MaxRecords \in Nat /\ MaxBytes \in Nat
  BY SpoolAssumption
<1>2. PICK a, d : a = ix.active /\ d = DeadIds(ix)
  OBVIOUS
<1>3. a \subseteq Ids /\ d \subseteq Ids /\ S \subseteq a /\ S \subseteq Ids
  BY <1>2, DeadAreNames DEF IndexType
<1>4. /\ Cardinality(a) \in Nat /\ Cardinality(d) \in Nat /\ Cardinality(S) \in Nat
      /\ Cardinality(S) <= Cardinality(a)
  BY <1>3, NamesFinite, FS_Subset
<1>5. /\ Bytes(a, 0) \in Nat /\ Bytes(d, ReasonBytes) \in Nat /\ Bytes(S, 0) \in Nat
      /\ Bytes(S, 0) <= Bytes(a, 0)
  BY <1>1, <1>3, BytesFinite, BytesGrow
<1>6. /\ Cardinality(a) + Cardinality(d) + 0 <= MaxRecords
      /\ Bytes(a, 0) + Bytes(d, ReasonBytes) + 0 <= MaxBytes
  BY <1>2 DEF Fits, TotalRecords, TotalBytes
<1>. QED BY <1>1, <1>4, <1>5, <1>6

\* With the last dead letter gone, what queue/ holds fits.
LEMMA FitsEmptied ==
  ASSUME NEW ix \in IndexType, ix.active \subseteq queueDir, DeadIds(ix) = {},
         queueDir \subseteq Ids, QueueFits
  PROVE  Fits(ix, 0, 0)
<1>1. ReasonBytes \in Nat /\ 0 \in Nat /\ MaxRecords \in Nat /\ MaxBytes \in Nat
  BY SpoolAssumption
<1>2. PICK a, q : a = ix.active /\ q = queueDir
  OBVIOUS
<1>3. a \subseteq q /\ q \subseteq Ids /\ a \subseteq Ids
  BY <1>2
<1>4. /\ Cardinality(a) \in Nat /\ Cardinality(q) \in Nat /\ Cardinality(a) <= Cardinality(q)
  BY <1>3, NamesFinite, FS_Subset
<1>5. /\ Bytes(a, 0) \in Nat /\ Bytes(q, 0) \in Nat /\ Bytes(a, 0) <= Bytes(q, 0)
  BY <1>1, <1>3, BytesFinite, BytesGrow
<1>6. Bytes({}, ReasonBytes) = 0 /\ Cardinality({}) = 0
  BY <1>1, BytesNone
<1>7. Cardinality(q) <= MaxRecords /\ Bytes(q, 0) <= MaxBytes
  BY <1>2 DEF QueueFits
<1>8. /\ Cardinality(a) + 0 + 0 <= MaxRecords
      /\ Bytes(a, 0) + 0 + 0 <= MaxBytes
  BY <1>1, <1>4, <1>5, <1>7
<1>. QED BY <1>2, <1>6, <1>8 DEF Fits, TotalRecords, TotalBytes


\* A step that puts nothing into queue/ and comes to rest nowhere new keeps the
\* limits; what is left to show is which names it works on.
LEMMA QueueKept ==
  ASSUME IInv, QueueFits, queueDir' \subseteq queueDir
  PROVE  QueueFits'
<1>1. PICK p, q : p = queueDir' /\ q = queueDir
  OBVIOUS
<1>2. p \subseteq q /\ q \subseteq Ids /\ p \subseteq Ids
  BY <1>1 DEF IInv, TypeOK
<1>3. MaxRecords \in Nat /\ MaxBytes \in Nat /\ 0 \in Nat
  BY SpoolAssumption
<1>4. /\ Cardinality(p) \in Nat /\ Cardinality(q) \in Nat /\ Cardinality(p) <= Cardinality(q)
      /\ Bytes(p, 0) \in Nat /\ Bytes(q, 0) \in Nat /\ Bytes(p, 0) <= Bytes(q, 0)
  BY <1>2, <1>3, NamesFinite, FS_Subset, BytesFinite, BytesGrow
<1>5. Cardinality(q) <= MaxRecords /\ Bytes(q, 0) <= MaxBytes
  BY <1>1 DEF QueueFits
<1>6. Cardinality(p) <= MaxRecords /\ Bytes(p, 0) <= MaxBytes
  BY <1>3, <1>4, <1>5
<1>. QED BY <1>1, <1>6 DEF QueueFits

\* Where a call goes from a settled place to another, its index has not grown.
LEMMA SettledKept ==
  ASSUME IInv, SettledFits, op.at \in Settled, run' = run, deadTmp' = deadTmp,
         idx' \in IndexType, idx'.active \subseteq idx.active, idx'.dead = idx.dead
  PROVE  SettledFits'
<1>1. PICK ix \in IndexType, iy \in IndexType : ix = idx /\ iy = idx'
  BY DEF IInv, TypeOK
<1>2. iy.active \subseteq ix.active /\ DeadIds(iy) \subseteq DeadIds(ix)
  BY <1>1 DEF DeadIds
<1>3. ASSUME run' = "up", deadTmp' = {}
      PROVE  Fits(iy, 0, 0)
  <2>1. Fits(ix, 0, 0)
    BY <1>1, <1>3 DEF SettledFits
  <2>2. 0 \in Nat
    OBVIOUS
  <2>. QED BY <1>2, <2>1, <2>2, FitsShrinks
<1>. QED BY <1>1, <1>3 DEF SettledFits

\* The last prune of a call, and the one after a quarantine, leave room, or no
\* dead letter at all.
LEMMA PrunedFits ==
  ASSUME IInv, QueueFits, Victims = {}, op.at \in {"prune", "tidy"}
  PROVE  Fits(idx, 0, 0)
<1>1. ReserveRecords = 0 /\ ReserveBytes = 0
  BY DEF ReserveRecords, ReserveBytes
<1>2. RoomLeft \/ DeadIds(idx) = {}
  BY DEF Victims
<1>3. idx \in IndexType /\ idx.active \subseteq queueDir /\ queueDir \subseteq Ids
  BY DEF IInv, TypeOK, NothingStranded
<1>4. CASE RoomLeft
  BY <1>1, <1>4 DEF RoomLeft
<1>5. CASE DeadIds(idx) = {}
  BY <1>3, <1>5, FitsEmptied
<1>. QED BY <1>2, <1>4, <1>5

LEMMA CallsStartB ==
  ASSUME IInv, NInv, BInv,
         \/ Idle /\ \E call \in {"push", "peek", "stats"} : StartExpiring(call)
                 /\ UNCHANGED <<disk, idx, run, now, callers, history, crashes>>
         \/ StartAckHanded \/ StartRollback \/ StartReject
  PROVE  BInv'
<1>1. /\ UNCHANGED <<disk, idx, run>> /\ Idle
      /\ op'.back \notin {"push", "migrate", "scan"}
      /\ op'.at \in {"expire", "ack", "read"}
  BY DEF StartExpiring, StartAckHanded, StartRollback, StartReject, StartAck, NoOp, disk
<1>2. op.at = "idle" /\ run = "up"
  BY <1>1 DEF Idle, IInv, CallsOK
<1>3. RoomKept'
  BY <1>1 DEF RoomKept
<1>4. SettledFits'
  BY <1>1, <1>2, SettledKept DEF BInv, Settled, disk, IInv, TypeOK
<1>5. QueueFits'
  BY <1>1, QueueKept DEF BInv, disk
<1>. QED BY <1>3, <1>4, <1>5 DEF BInv

LEMMA NoCallB ==
  ASSUME IInv, NInv, BInv, DropHanded \/ CommitBatch \/ Tick \/ SetBack
  PROVE  BInv'
<1>1. UNCHANGED <<disk, idx, op, run>>
  BY DEF DropHanded, CommitBatch, Tick, SetBack
<1>2. RoomKept' /\ SettledFits' /\ QueueFits'
  BY <1>1 DEF BInv, RoomKept, SettledFits, QueueFits, disk
<1>. QED BY <1>2 DEF BInv

LEMMA StartOpenB == ASSUME IInv, NInv, BInv, StartOpen PROVE BInv'
<1>1. /\ UNCHANGED <<disk, run>> /\ run = "down"
      /\ op'.back = "migrate" /\ op'.todo = legacy
      /\ op'.at = IF legacy = {} THEN "index" ELSE "migrate"
  BY DEF StartOpen, NoOp
<1>2. RoomKept' /\ SettledFits'
  BY <1>1 DEF RoomKept, SettledFits
<1>3. QueueFits'
  BY <1>1, QueueKept DEF BInv, disk
<1>. QED BY <1>2, <1>3 DEF BInv

LEMMA CrashB == ASSUME IInv, NInv, BInv, Crash PROVE BInv'
<1>1. /\ UNCHANGED disk /\ run' = "down"
      /\ op'.call = "none" /\ op'.back = "idle" /\ op'.at = "idle"
  BY DEF Crash, NoOp
<1>2. RoomKept' /\ SettledFits'
  BY <1>1 DEF RoomKept, SettledFits
<1>3. QueueFits'
  BY <1>1, QueueKept DEF BInv, disk
<1>. QED BY <1>2, <1>3 DEF BInv

LEMMA DamageB == ASSUME IInv, NInv, BInv, NEW id \in Corruptible, Damage(id) PROVE BInv'
<1>1. UNCHANGED <<queueDir, legacy, deadTmp, idx, op, run>>
  BY DEF Damage
<1>2. RoomKept' /\ SettledFits' /\ QueueFits'
  BY <1>1 DEF BInv, RoomKept, SettledFits, QueueFits
<1>. QED BY <1>2 DEF BInv

\* A call that gives up has just found that nothing is in its way but what a
\* crash left, or has no dead letter to discard, or has not begun to write.
LEMMA FailB ==
  ASSUME IInv, BInv, Fail, UNCHANGED <<disk, idx>>,
         (run' = "up" /\ deadTmp = {}) => Fits(idx, 0, 0)
  PROVE  BInv'
<1>1. /\ op'.call = "none" /\ op'.back = "idle" /\ op'.at = "idle"
      /\ run' = IF op.call = "open" THEN "down" ELSE run
  BY DEF Fail, Return, NoOp
<1>2. RoomKept'
  BY <1>1 DEF RoomKept
<1>3. SettledFits'
  BY DEF SettledFits, disk
<1>4. QueueFits'
  BY QueueKept DEF BInv, disk
<1>. QED BY <1>2, <1>3, <1>4 DEF BInv

\* A step to a point of a call at which nothing is claimed yet.
LEMMA UnsettledB ==
  ASSUME IInv, BInv, queueDir' \subseteq queueDir,
         op'.at \notin Writing \/ op'.back # "push",
         op'.at \notin Settled \/ run' = "down"
  PROVE  BInv'
<1>1. RoomKept' /\ SettledFits'
  BY DEF RoomKept, SettledFits, Writing
<1>. QED BY <1>1, QueueKept DEF BInv

LEMMA OpeningB == ASSUME IInv, BInv, Migrate \/ Retire \/ Rebuild PROVE BInv'
<1>1. /\ op \in OpType /\ run' = "down" /\ queueDir' = queueDir
      /\ op.back = "migrate"
  BY DEF Migrate, Retire, Rebuild, IInv, TypeOK, CallsOK, disk
<1>2. op'.back \in {"migrate", "index"}
  BY <1>1 DEF Migrate, Retire, Rebuild, Goto, OpType
<1>. QED BY <1>1, <1>2, UnsettledB

LEMMA VisitB ==
  ASSUME IInv, BInv, NEW id \in Ids, NEW rest \in SUBSET Ids,
         NEW back \in {"expire", "scan", "index"}, Visit(id, back, rest),
         UNCHANGED <<disk, idx, run>>
  PROVE  BInv'
<1>1. op'.at \in {"room", "create"} /\ op'.back = back
  BY VisitOK DEF IInv
<1>. QED BY <1>1, UnsettledB DEF disk, Settled

\* A step to another point of a call that is not writing.
LEMMA GoOnB ==
  ASSUME IInv, BInv, queueDir' \subseteq queueDir, op'.at \notin Writing,
         op'.at \in Settled => SettledFits'
  PROVE  BInv'
<1>1. RoomKept'
  BY DEF RoomKept, Writing
<1>2. SettledFits'
  BY DEF SettledFits
<1>. QED BY <1>1, <1>2, QueueKept DEF BInv


LEMMA QuarantineUnindexedB == ASSUME IInv, BInv, QuarantineUnindexed PROVE BInv'
<1>1. /\ op \in OpType /\ op.at = "index" /\ op.back = "index"
      /\ UNCHANGED <<disk, idx, run>>
  BY DEF QuarantineUnindexed, IInv, TypeOK, CallsOK
<1>2. CASE op.todo = {}
  <2>1. op'.at = "prune" /\ op'.back = "index"
    BY <1>1, <1>2 DEF QuarantineUnindexed, Goto, OpType
  <2>. QED BY <1>1, <2>1, GoOnB DEF disk, Settled, Writing
<1>3. CASE op.todo # {}
  <2>1. PICK id \in Ids : id = Min(op.todo)
    BY <1>1, <1>3, LeastName DEF OpType
  <2>2. Visit(id, "index", op.todo \ {id}) /\ op.todo \ {id} \in SUBSET Ids
    BY <1>1, <1>3, <2>1 DEF QuarantineUnindexed, OpType
  <2>. QED BY <1>1, <2>1, <2>2, VisitB
<1>. QED BY <1>2, <1>3

LEMMA ExpireB == ASSUME IInv, BInv, Expire PROVE BInv'
<1>1. /\ op \in OpType /\ op.at = "expire" /\ op.back \notin {"push", "migrate"}
      /\ UNCHANGED <<disk, run>>
  BY DEF Expire, IInv, TypeOK, CallsOK
<1>2. CASE op.todo = {}
  <2>1. op'.at = "prune" /\ op'.back = op.back
    BY <1>1, <1>2 DEF Expire, Goto, OpType
  <2>. QED BY <1>1, <2>1, GoOnB DEF disk, Settled, Writing
<1>3. CASE op.todo # {}
  <2>1. PICK id \in Ids : id = Min(op.todo)
    BY <1>1, <1>3, LeastName DEF OpType
  <2>2. /\ Visit(id, "expire", op.todo \ {id}) /\ op.todo \ {id} \in SUBSET Ids
        /\ idx' = idx
    BY <1>1, <1>3, <2>1 DEF Expire, OpType
  <2>. QED BY <1>1, <2>1, <2>2, VisitB
<1>. QED BY <1>2, <1>3

\* A dead letter goes: what the call has claimed so far is none the worse.
LEMMA PruneOneB == ASSUME IInv, BInv, PruneOne PROVE BInv'
<1>1. /\ op.at \in {"prune", "room", "tidy"}
      /\ UNCHANGED <<queueDir, legacy, deadTmp, op, run>>
  BY DEF PruneOne
<1>. QED BY <1>1, UnsettledB DEF Settled, Writing

LEMMA PrunedB == ASSUME IInv, BInv, Pruned PROVE BInv'
<1>1. /\ op \in OpType /\ op.at = "prune" /\ UNCHANGED <<disk, idx>>
      /\ Victims = {}
  BY DEF Pruned, IInv, TypeOK, CallsOK
<1>2. Fits(idx, 0, 0)
  BY <1>1, PrunedFits DEF BInv
<1>3. SettledFits'
  BY <1>1, <1>2 DEF SettledFits
<1>4. CASE op.call = "push"
  <2>1. PICK id \in Records :
          op' = [op EXCEPT !.at = "room", !.id = id, !.w = id, !.back = "push"]
    BY <1>4 DEF Pruned, Fresh
  <2>2. op'.at = "room"
    BY <1>1, <2>1 DEF OpType
  <2>. QED BY <1>1, <2>2, GoOnB DEF disk, Settled, Writing
<1>5. CASE op.call = "peek"
  <2>1. op'.at = "scan"
    BY <1>1, <1>5 DEF Pruned, OpType
  <2>. QED BY <1>1, <1>3, <2>1, GoOnB DEF disk, Writing
<1>6. CASE op.call \notin {"push", "peek"}
  <2>1. op' = NoOp
    BY <1>6 DEF Pruned, Return
  <2>2. op'.at = "idle"
    BY <2>1 DEF NoOp
  <2>. QED BY <1>1, <1>3, <2>2, GoOnB DEF disk, Writing
<1>. QED BY <1>4, <1>5, <1>6

LEMMA TidiedB == ASSUME IInv, BInv, Tidied PROVE BInv'
<1>1. /\ op \in OpType /\ op.at = "tidy" /\ UNCHANGED <<disk, idx, run>>
      /\ Victims = {} /\ op.back \notin {"push", "migrate", "idle"}
  BY DEF Tidied, IInv, TypeOK, CallsOK, StepsOK, Moving
<1>2. Fits(idx, 0, 0)
  BY <1>1, PrunedFits DEF BInv
<1>3. SettledFits'
  BY <1>1, <1>2 DEF SettledFits
<1>4. op'.at = op.back
  BY <1>1 DEF Tidied, Goto, OpType
<1>. QED BY <1>1, <1>3, <1>4, GoOnB DEF disk, OpType, Resumptions, Writing

\* Room is made for what is about to be written, or there is nothing to discard.
LEMMA RoomMadeB == ASSUME IInv, NInv, BInv, RoomMade PROVE BInv'
<1>1. /\ op \in OpType /\ op.at = "room" /\ UNCHANGED <<disk, idx>> /\ Victims = {}
  BY DEF RoomMade, IInv, TypeOK
<1>2. CASE RoomLeft
  <2>1. op' = [op EXCEPT !.at = "create"] /\ run' = run
    BY <1>2 DEF RoomMade
  <2>2. /\ op'.at = "create" /\ op'.id = op.id /\ op'.w = op.w /\ op'.back = op.back
    BY <1>1, <2>1 DEF OpType
  <2>3. op.back = "push" => Fits(idx, 1, Size[op.w])
    BY <1>1, <1>2 DEF NInv, NamesOK, RoomLeft, ReserveRecords, ReserveBytes, Quarantining
  <2>4. RoomKept'
    BY <1>1, <2>2, <2>3 DEF RoomKept
  <2>5. SettledFits'
    BY <2>2 DEF SettledFits, Settled
  <2>. QED BY <1>1, <2>4, <2>5, QueueKept DEF BInv, disk
<1>3. CASE ~RoomLeft
  <2>1. Fail /\ DeadIds(idx) = {}
    BY <1>1, <1>3 DEF RoomMade, Victims
  <2>2. Fits(idx, 0, 0)
    BY <2>1, FitsEmptied DEF BInv, IInv, TypeOK, NothingStranded
  <2>. QED BY <1>1, <2>1, <2>2, FailB
<1>. QED BY <1>2, <1>3

\* What fits with a record to come fits without it.
LEMMA FitsLess ==
  ASSUME NEW ix \in IndexType, NEW id \in Ids, Fits(ix, 1, Size[id])
  PROVE  Fits(ix, 0, 0)
<1>1. /\ ReasonBytes \in Nat /\ 0 \in Nat /\ MaxRecords \in Nat /\ MaxBytes \in Nat
      /\ Size[id] \in Nat
  BY SpoolAssumption
<1>2. PICK a, d : a = ix.active /\ d = DeadIds(ix)
  OBVIOUS
<1>3. a \subseteq Ids /\ d \subseteq Ids
  BY <1>2, DeadAreNames DEF IndexType
<1>4. /\ Cardinality(a) \in Nat /\ Cardinality(d) \in Nat
      /\ Bytes(a, 0) \in Nat /\ Bytes(d, ReasonBytes) \in Nat
  BY <1>1, <1>3, NamesFinite, BytesFinite
<1>5. /\ Cardinality(a) + Cardinality(d) + 1 <= MaxRecords
      /\ Bytes(a, 0) + Bytes(d, ReasonBytes) + Size[id] <= MaxBytes
  BY <1>2 DEF Fits, TotalRecords, TotalBytes
<1>6. /\ Cardinality(a) + Cardinality(d) + 0 <= MaxRecords
      /\ Bytes(a, 0) + Bytes(d, ReasonBytes) + 0 <= MaxBytes
  BY <1>1, <1>4, <1>5
<1>. QED BY <1>2, <1>6 DEF Fits, TotalRecords, TotalBytes

\* A temporary file in the way: of a dead letter, which a crash left, or of a
\* record, for which room had been made.
LEMMA CreateTempB == ASSUME IInv, BInv, CreateTemp PROVE BInv'
<1>1. /\ op \in OpType /\ op.at = "create" /\ op.w \in Ids
      /\ UNCHANGED <<queueDir, corrupt, deadDir, legacy, idx>>
      /\ idx \in IndexType
  BY DEF CreateTemp, IInv, TypeOK, StepsOK
<1>2. CASE TempExists
  <2>1. Fail /\ UNCHANGED <<queueTmp, deadTmp>>
    BY <1>2 DEF CreateTemp
  <2>2. ASSUME run' = "up", deadTmp = {}
        PROVE  Fits(idx, 0, 0)
    <3>1. ~Moving
      BY <1>2, <2>2 DEF TempExists
    <3>2. op.back = "push"
      BY <2>1, <2>2, <3>1 DEF Moving, Fail, IInv, CallsOK
    <3>. QED BY <1>1, <3>2, FitsLess DEF BInv, RoomKept
  <2>. QED BY <1>1, <2>1, <2>2, FailB DEF disk
<1>3. CASE ~TempExists
  <2>1. op' = [op EXCEPT !.at = "rename"] /\ run' = run
    BY <1>3 DEF CreateTemp, Goto
  <2>2. /\ op'.at = "rename" /\ op'.id = op.id /\ op'.w = op.w /\ op'.back = op.back
        /\ op'.todo = op.todo /\ op'.call = op.call
    BY <1>1, <2>1 DEF OpType
  <2>3. RoomKept' /\ SettledFits'
    BY <1>1, <2>2 DEF BInv, RoomKept, SettledFits, Settled
  <2>. QED BY <1>1, <2>3, QueueKept DEF BInv
<1>. QED BY <1>2, <1>3

\* A pushed record takes the room made for it; a migrated one belongs to the
\* records of the older agent; a dead letter leaves queue/ as it is.
LEMMA WrittenB ==
  ASSUME IInv, NInv, BInv, LegacyFits, Faults = FALSE, Written, op.at \in {"create", "rename"},
         Moving => queueDir' = queueDir, ~Moving => queueDir' = queueDir \cup {op.w},
         UNCHANGED <<legacy, run>>
  PROVE  BInv'
<1>1. /\ op \in OpType /\ op.w \in Ids /\ idx \in IndexType /\ op.back # "idle"
      /\ queueDir \subseteq Ids
  BY DEF IInv, TypeOK, StepsOK
<1>2. CASE op.back = "push"
  <2>1. /\ idx' = InsertActive(idx, op.w) /\ queueDir' = queueDir \cup {op.w}
        /\ op'.at = "idle" /\ run = "up"
    BY <1>2 DEF Written, Return, NoOp, Moving, IInv, CallsOK, TypeOK
  <2>2. PICK ix \in IndexType, iy \in IndexType : ix = idx /\ iy = idx'
    BY <1>1, <2>1, InsertActiveOK
  <2>3. /\ iy.active = ix.active \cup {op.w} /\ DeadIds(iy) = DeadIds(ix)
        /\ queueDir = ix.active
    BY <1>1, <2>1, <2>2, InsertActiveOK DEF DeadIds, IInv, Indexed
  <2>4. Fits(ix, 1, Size[op.w])
    BY <1>2, <2>2 DEF BInv, RoomKept
  <2>5. Fits(iy, 0, 0)
    BY <1>1, <2>3, <2>4, FitsAdded
  <2>6. QueueFits'
    BY <2>1, <2>3, <2>5, FitsAlone DEF QueueFits
  <2>7. RoomKept'
    BY <2>1 DEF RoomKept
  <2>8. SettledFits'
    BY <2>2, <2>5 DEF SettledFits
  <2>. QED BY <2>6, <2>7, <2>8 DEF BInv
<1>3. CASE op.back = "migrate"
  <2>1. op'.at = "migrate" /\ queueDir' = queueDir \cup {op.w}
    BY <1>1, <1>3 DEF Written, Goto, OpType, Moving
  <2>2. queueDir' \subseteq LegacyIds
    BY <1>3, <2>1 DEF NInv, NamesOK, Writing
  <2>3. LegacyIds \subseteq Ids
    BY SpoolAssumption
  <2>4. QueueFits'
    <3>1. PICK p : p = queueDir'
      OBVIOUS
    <3>2. p \subseteq LegacyIds /\ p \subseteq Ids /\ 0 \in Nat
      BY <2>2, <2>3, <3>1
    <3>3. Cardinality(p) <= Cardinality(LegacyIds) /\ Bytes(p, 0) <= Bytes(LegacyIds, 0)
      BY <2>3, <3>2, NamesFinite, FS_Subset, BytesGrow
    <3>4. /\ Cardinality(p) \in Nat /\ Cardinality(LegacyIds) \in Nat
          /\ Bytes(p, 0) \in Nat /\ Bytes(LegacyIds, 0) \in Nat
          /\ MaxRecords \in Nat /\ MaxBytes \in Nat
      BY <2>3, <3>2, NamesFinite, BytesFinite, SpoolAssumption
    <3>5. Cardinality(p) <= MaxRecords /\ Bytes(p, 0) <= MaxBytes
      BY <3>3, <3>4 DEF LegacyFits
    <3>. QED BY <3>1, <3>5 DEF QueueFits
  <2>5. RoomKept' /\ SettledFits'
    BY <2>1 DEF RoomKept, SettledFits, Settled
  <2>. QED BY <2>4, <2>5 DEF BInv
<1>4. CASE op.back \notin {"push", "migrate"}
  <2>1. /\ op' = [op EXCEPT !.at = "unlink"] /\ queueDir' = queueDir
    BY <1>4 DEF Written, Goto, Moving
  <2>2. op'.at = "unlink"
    BY <1>1, <2>1 DEF OpType
  <2>. QED BY <2>1, <2>2, UnsettledB DEF Settled, Writing
<1>. QED BY <1>2, <1>3, <1>4

LEMMA WritingB ==
  ASSUME IInv, NInv, BInv, LegacyFits, Faults = FALSE, AlreadyWritten \/ RenameTemp
  PROVE  BInv'
<1>1. CASE AlreadyWritten
  <2>1. Moving => queueDir' = queueDir
    BY <1>1 DEF AlreadyWritten, disk
  <2>2. ~Moving => queueDir' = queueDir \cup {op.w}
    BY <1>1 DEF AlreadyWritten, FinalExists, disk
  <2>. QED BY <1>1, <2>1, <2>2, WrittenB DEF AlreadyWritten, disk
<1>2. CASE RenameTemp
  BY <1>2, WrittenB DEF RenameTemp
<1>. QED BY <1>1, <1>2

\* After a quarantine comes a prune; the calls that move whole records go on to
\* others, and to a prune in the end.
LEMMA UnlinkB == ASSUME IInv, NInv, BInv, Unlink PROVE BInv'
<1>1. /\ op \in OpType /\ op.at = "unlink" /\ op.back \in Resumptions
      /\ op.back \notin {"push", "migrate", "idle"} /\ queueDir' \subseteq queueDir
  BY DEF Unlink, RemoveQueueFile, IInv, TypeOK, StepsOK, CallsOK, Moving, OpType
<1>2. op'.at = IF Quarantining THEN "tidy" ELSE op.back
  BY <1>1 DEF Unlink, Goto, OpType
<1>3. op'.at \in {"tidy", "expire", "index", "prune"}
  BY <1>1, <1>2 DEF NInv, NamesOK, Resumptions, Handling
<1>. QED BY <1>1, <1>3, UnsettledB DEF Settled, Writing

LEMMA AckB == ASSUME IInv, BInv, Ack PROVE BInv'
<1>1. /\ op \in OpType /\ op.at = "ack" /\ UNCHANGED <<deadTmp, run>> /\ idx \in IndexType
  BY DEF Ack, IInv, TypeOK
<1>2. /\ queueDir' \subseteq queueDir /\ op'.at \in {"idle", "ack"}
      /\ idx' \in IndexType /\ idx'.active \subseteq idx.active /\ idx'.dead = idx.dead
  <2>1. CASE op.todo = {}
    BY <1>1, <2>1, CompactOK DEF Ack, Return, NoOp
  <2>2. CASE op.todo # {}
    <3>1. PICK id \in Ids : id = Min(op.todo)
      BY <1>1, <2>2, LeastName DEF OpType
    <3>2. /\ op' = [op EXCEPT !.todo = op.todo \ {id}] /\ queueDir' = queueDir \ {id}
          /\ idx' = RemoveActive(idx, id)
      BY <2>2, <3>1 DEF Ack, RemoveQueueFile
    <3>. QED BY <1>1, <3>2, RemoveActiveOK DEF OpType
  <2>. QED BY <2>1, <2>2
<1>3. SettledFits'
  BY <1>1, <1>2, SettledKept DEF BInv, Settled
<1>. QED BY <1>2, <1>3, GoOnB DEF Writing

LEMMA ScanB == ASSUME IInv, BInv, Scan PROVE BInv'
<1> DEFINE ahead == op.todo \cap idx.active
<1>1. /\ op \in OpType /\ op.at = "scan" /\ UNCHANGED <<disk, run>>
      /\ idx \in IndexType /\ ahead \subseteq Ids
  BY DEF Scan, IInv, TypeOK, OpType
<1>2. CASE ahead = {} \/ Cardinality(op.got) = PeekLimit
  <2>1. /\ op'.at = "idle"
        /\ idx' \in IndexType /\ idx'.active \subseteq idx.active /\ idx'.dead = idx.dead
    BY <1>1, <1>2, CompactOK DEF Scan, Return, NoOp
  <2>2. SettledFits'
    BY <1>1, <2>1, SettledKept DEF BInv, Settled, disk
  <2>. QED BY <1>1, <2>1, <2>2, GoOnB DEF disk, Writing
<1>3. CASE ~(ahead = {} \/ Cardinality(op.got) = PeekLimit)
  <2>1. PICK id \in Ids : id = Min(ahead)
    BY <1>1, <1>3, LeastName
  <2>2. /\ idx' = idx
        /\ IF id \in corrupt THEN Visit(id, "scan", op.todo \ {id})
           ELSE op' = [op EXCEPT !.todo = op.todo \ {id}, !.got = op.got \cup {id}]
    BY <1>3, <2>1 DEF Scan
  <2> HIDE DEF ahead
  <2>3. CASE id \in corrupt
    <3>1. op.todo \ {id} \in SUBSET Ids /\ Visit(id, "scan", op.todo \ {id})
      BY <1>1, <2>2, <2>3 DEF OpType
    <3>. QED BY <1>1, <2>2, <2>3, <3>1, VisitB
  <2>4. CASE id \notin corrupt
    <3>1. op'.at = "scan"
      BY <1>1, <2>2, <2>4 DEF OpType
    <3>2. SettledFits'
      BY <1>1, <2>2, SettledKept DEF BInv, Settled, disk
    <3>. QED BY <1>1, <3>1, <3>2, GoOnB DEF disk, Writing
  <2>. QED BY <2>3, <2>4
<1>. QED BY <1>2, <1>3

LEMMA ReadB == ASSUME IInv, BInv, Read PROVE BInv'
<1>1. /\ op \in OpType /\ op.at = "read" /\ op.back = "prune"
      /\ UNCHANGED <<disk, idx>> /\ run = "up"
  BY DEF Read, IInv, TypeOK, StepsOK, CallsOK
<1>2. CASE op.id \in queueDir \ corrupt
  <2>1. op'.at = "create" /\ op'.back = "prune"
    BY <1>1, <1>2 DEF Read, Goto, OpType
  <2>. QED BY <1>1, <2>1, UnsettledB DEF disk, Settled
<1>3. CASE op.id \notin queueDir \ corrupt
  <2>1. Fail
    BY <1>3 DEF Read
  <2>2. deadTmp = {} => Fits(idx, 0, 0)
    BY <1>1 DEF BInv, SettledFits, Settled
  <2>. QED BY <1>1, <2>1, <2>2, FailB
<1>. QED BY <1>2, <1>3

LEMMA InitB == Init => BInv
<1> SUFFICES ASSUME Init PROVE BInv
  OBVIOUS
<1>1. RoomKept /\ SettledFits
  BY DEF Init, RoomKept, SettledFits, NoOp
<1>2. Bytes({}, 0) = 0 /\ Cardinality({}) = 0
  BY BytesNone
<1>3. QueueFits
  BY <1>2, SpoolAssumption DEF Init, QueueFits
<1>. QED BY <1>1, <1>3 DEF BInv

LEMMA StepB == LegacyFits /\ Faults = FALSE /\ IInv /\ NInv /\ BInv /\ [Next]_vars => BInv'
<1> SUFFICES ASSUME LegacyFits, Faults = FALSE, IInv, NInv, BInv, [Next]_vars PROVE BInv'
  OBVIOUS
<1>1. CASE StartOpen
  BY <1>1, StartOpenB
<1>2. CASE Working
  BY <1>2, OpeningB, QuarantineUnindexedB, ExpireB, PruneOneB, PrunedB, TidiedB,
     RoomMadeB, CreateTempB, WritingB, UnlinkB, ScanB, AckB, ReadB DEF Working
<1>3. CASE Collecting
  BY <1>3, CallsStartB, NoCallB DEF Collecting, StartPush
<1>4. CASE Sending
  BY <1>4, CallsStartB, NoCallB DEF Sending, StartPeek
<1>5. CASE StartStats
  BY <1>5, CallsStartB DEF StartStats
<1>6. CASE Environment
  BY <1>6, CrashB, NoCallB, DamageB DEF Environment, IOError, SyncError
<1>7. CASE UNCHANGED vars
  BY <1>7 DEF vars, BInv, RoomKept, SettledFits, QueueFits, disk
<1>. QED BY <1>1, <1>2, <1>3, <1>4, <1>5, <1>6, <1>7 DEF Next

\* DiskBounded: as long as no file operation fails, and the records an older agent left are
\* within the limits, the files of both directories are within MaxRecords and
\* MaxBytes whenever no call runs, through expiry, refusals, quarantines, crashes
\* and restarts, unless a crash has left the temporary file of a dead letter.
THEOREM DiskStaysBounded ==
  ASSUME Faults = FALSE, LegacyFits
  PROVE  Spec => []DiskBounded
<1>1. IInv /\ BInv => DiskBounded
  <2> SUFFICES ASSUME IInv, BInv, run = "up", op.call = "none", deadTmp = {}
               PROVE  /\ Cardinality(queueDir) + Cardinality(DeadFiles) <= MaxRecords
                      /\ DiskUse <= MaxBytes
    BY DEF DiskBounded
  <2>1. op.at = "idle" /\ queueDir = idx.active /\ DeadFiles = DeadIds(idx)
    BY DEF IInv, CallsOK, Indexed
  <2>2. Fits(idx, 0, 0)
    BY <2>1 DEF BInv, SettledFits, Settled
  <2>3. PICK q, d : q = queueDir /\ d = DeadFiles
    OBVIOUS
  <2>4. /\ Cardinality(q) + Cardinality(d) + 0 <= MaxRecords
        /\ Bytes(q, 0) + Bytes(d, ReasonBytes) + 0 <= MaxBytes
    BY <2>1, <2>2, <2>3 DEF Fits, TotalRecords, TotalBytes
  <2>5. /\ q \subseteq Ids /\ d \subseteq Ids /\ ReasonBytes \in Nat /\ 0 \in Nat
    BY <2>3, SpoolAssumption DEF IInv, TypeOK, DeadFiles
  <2>6. /\ Cardinality(q) \in Nat /\ Cardinality(d) \in Nat
        /\ Bytes(q, 0) \in Nat /\ Bytes(d, ReasonBytes) \in Nat
    BY <2>5, NamesFinite, BytesFinite
  <2>7. /\ Cardinality(q) + Cardinality(d) <= MaxRecords
        /\ Bytes(q, 0) + Bytes(d, ReasonBytes) <= MaxBytes
    BY <2>4, <2>6
  <2>. QED BY <2>3, <2>7 DEF DiskUse
<1>2. IInv /\ NInv /\ BInv /\ [Next]_vars => IInv' /\ NInv' /\ BInv'
  BY StepOK, StepN, StepB
<1>3. Init => IInv /\ NInv /\ BInv
  BY InitOK, InitN, InitB
<1>. QED BY <1>1, <1>2, <1>3, PTL DEF Spec

------------------------------------------------------------------------------
(* The contract.  The standing of every record, read off the files and what   *)
(* became of them, changes as SpoolContract says: one record at a time, and   *)
(* never back from an outcome.                                                *)

Standing == [id \in Records |-> StatusOf(id)]

\* A step that changes no standing, or one in a way the contract allows.
Allowed == UNCHANGED Standing \/ Contract!Next

LEMMA OneMove ==
  ASSUME NEW r \in Records, \A j \in Records \ {r} : StatusOf(j)' = StatusOf(j),
         <<StatusOf(r), StatusOf(r)'>> \in {<<"new", "pending">>, <<"pending", "delivered">>,
                                            <<"pending", "dead">>, <<"dead", "discarded">>}
  PROVE  Allowed
<1>1. Standing[r] = StatusOf(r) /\ Standing' = [Standing EXCEPT ![r] = StatusOf(r)']
  BY DEF Standing
<1>2. Contract!Accept(r) \/ Contract!Deliver(r) \/ Contract!Bury(r) \/ Contract!Discard(r)
  BY <1>1 DEF Standing, Contract!Accept, Contract!Deliver, Contract!Bury, Contract!Discard,
     Contract!Become
<1>. QED BY <1>2 DEF Allowed, Contract!Next

LEMMA NoMove ==
  ASSUME \A j \in Records : StatusOf(j)' = StatusOf(j)
  PROVE  Allowed
BY DEF Allowed, Standing

\* The files that decide what a record's standing is, and its outcomes.
LEMMA SameFiles ==
  ASSUME UNCHANGED <<queueDir, deadDir, legacy, acked, discarded, diagOf>>
  PROVE  Allowed
<1>1. \A j \in Records : StatusOf(j)' = StatusOf(j)
  BY DEF StatusOf, Buried, WrittenOff, DeadFiles
<1>. QED BY <1>1, NoMove

LEMMA QuietSteps ==
  ASSUME IInv, NInv,
         \/ StartOpen \/ Collecting \/ Sending \/ StartStats \/ Crash \/ IOError \/ Tick \/ SetBack
         \/ \E id \in Corruptible : Damage(id)
         \/ Migrate \/ Rebuild \/ QuarantineUnindexed \/ Expire \/ Pruned \/ Tidied
         \/ RoomMade \/ CreateTemp \/ Scan \/ Read
  PROVE  Allowed
<1>1. UNCHANGED <<queueDir, deadDir, legacy, acked, discarded, diagOf>>
  BY DEF StartOpen, Collecting, Sending, StartStats, StartPush, StartRollback, CommitBatch,
     StartPeek, StartAckHanded, StartReject, DropHanded, Crash, IOError, Tick, SetBack, Damage,
     Migrate, Rebuild, QuarantineUnindexed, Expire, Pruned, Tidied, RoomMade, CreateTemp, Scan,
     Read, disk, history
<1>. QED BY <1>1, SameFiles

\* queue.ndjson goes only when every record of it is in queue/.
LEMMA RetireR == ASSUME IInv, NInv, Retire PROVE Allowed
<1>1. legacy \subseteq queueDir /\ legacy' = {}
      /\ UNCHANGED <<queueDir, deadDir, history>>
  BY DEF Retire, IInv, StepsOK
<1>2. \A j \in Records : StatusOf(j)' = StatusOf(j)
  BY <1>1 DEF StatusOf, Buried, WrittenOff, DeadFiles, history
<1>. QED BY <1>2, NoMove

\* A file appears in queue/: of a record that had no past, or of one that
\* queue.ndjson holds.
LEMMA NewFileR ==
  ASSUME IInv, NInv, op.at \in Writing, ~Moving, queueDir' = queueDir \cup {op.w},
         UNCHANGED <<deadDir, legacy, acked, discarded, diagOf>>
  PROVE  Allowed
<1>1. op.back \in {"push", "migrate"} /\ op.w \in Records
  BY SpoolAssumption DEF Moving, NInv, NamesOK, Records
<1>2. PICK w \in Records : w = op.w
  BY <1>1
<1>3. \A j \in Records \ {w} : StatusOf(j)' = StatusOf(j)
  BY <1>2 DEF StatusOf, Buried, WrittenOff, DeadFiles
<1>4. StatusOf(w)' = "pending"
  BY <1>2 DEF StatusOf
<1>5. CASE op.back = "push"
  <2>1. legacy = {}
    BY <1>5 DEF NInv, NamesOK, IInv, CallsOK
  <2>2. NoId \notin DeadFiles \cup discarded
    BY NamesAreNumbers DEF DeadFiles, IInv, TypeOK
  <2>3. StatusOf(w) = "new"
    BY <1>2, <1>5, <2>1, <2>2 DEF StatusOf, Buried, WrittenOff, NInv, FreshOK
  <2>. QED BY <1>3, <1>4, <2>3, OneMove
<1>6. CASE op.back = "migrate"
  <2>1. w \in legacy
    BY <1>2, <1>6 DEF NInv, NamesOK, Writing
  <2>2. StatusOf(w) = "pending"
    BY <2>1 DEF StatusOf
  <2>. QED BY <1>3, <1>4, <2>2, NoMove
<1>. QED BY <1>1, <1>5, <1>6

\* A dead letter appears while the record it stands for is still in queue/.
LEMMA NewLetterR ==
  ASSUME IInv, NInv, op.at \in Writing, Moving,
         DeadFiles' \in {DeadFiles, DeadFiles \cup {op.w}},
         diagOf' = diagOf \/ (Quarantining /\ diagOf' = [diagOf EXCEPT ![op.id] = op.w]),
         UNCHANGED <<queueDir, legacy, acked, discarded>>
  PROVE  Allowed
<1>1. op.id \in queueDir /\ op.id \in Ids /\ op.w \in Ids /\ diagOf \in [Ids -> Ids \cup {NoId}]
  BY DEF StepsOK, NInv, MovesOK, Handling, Writing, IInv, TypeOK
<1>2. PICK id, w : id = op.id /\ w = op.w
  OBVIOUS
<1>3. ASSUME NEW j \in Records PROVE StatusOf(j)' = StatusOf(j)
  <2>1. CASE j = id
    BY <1>1, <1>2, <2>1 DEF StatusOf
  <2>2. CASE j # id
    <3>1. diagOf'[j] = diagOf[j]
      BY <1>1, <1>2, <2>2 DEF Records
    <3>2. Quarantining => diagOf[j] # w /\ j # w
      BY <1>2 DEF NInv, NamesOK, FreshOK, Handling, Writing, Records
    <3>3. ~Quarantining => w = id
      BY <1>2 DEF Quarantining
    <3>4. diagOf[j] # w
      <4>1. diagOf[j] = w /\ w # NoId => w \in DiagIds
        BY DEF NInv, FreshOK, Records
      <4>2. ~Quarantining => w \in Records
        BY <1>1, <1>2, <3>3 DEF NInv, NamesOK
      <4>. QED BY <1>1, <1>2, <3>2, <4>1, <4>2, NamesAreNumbers DEF Records
    <3>5. j # w
      BY <2>2, <3>2, <3>3
    <3>6. (j \in DeadFiles') = (j \in DeadFiles) /\ (diagOf[j] \in DeadFiles') = (diagOf[j] \in DeadFiles)
      BY <1>2, <3>4, <3>5
    <3>. QED BY <3>1, <3>6 DEF StatusOf, Buried, WrittenOff
  <2>. QED BY <2>1, <2>2
<1>. QED BY <1>3, NoMove

LEMMA WritingR ==
  ASSUME IInv, NInv, AlreadyWritten \/ RenameTemp \/ SyncError
  PROVE  Allowed
<1>1. op.at \in Writing /\ op.w \in Ids /\ UNCHANGED <<legacy, acked, discarded>>
  BY DEF AlreadyWritten, RenameTemp, SyncError, Writing, disk, history, IInv, StepsOK
<1>2. /\ Moving => queueDir' = queueDir /\ DeadFiles' \in {DeadFiles, DeadFiles \cup {op.w}}
      /\ ~Moving => queueDir' = queueDir \cup {op.w} /\ deadDir' = deadDir
  <2>1. CASE AlreadyWritten
    BY <2>1 DEF AlreadyWritten, FinalExists, disk, DeadFiles
  <2>2. CASE RenameTemp \/ SyncError
    <3>1. Moving => queueDir' = queueDir /\ deadDir' = [deadDir EXCEPT ![op.w] = now]
      BY <2>2 DEF RenameTemp, SyncError
    <3>2. ~Moving => queueDir' = queueDir \cup {op.w} /\ deadDir' = deadDir
      BY <2>2 DEF RenameTemp, SyncError
    <3>. QED BY <1>1, <3>1, <3>2 DEF DeadFiles, IInv, TypeOK
  <2>. QED BY <2>1, <2>2
<1>3. /\ ~Moving => diagOf' = diagOf
      /\ diagOf' = diagOf \/ (Quarantining /\ diagOf' = [diagOf EXCEPT ![op.id] = op.w])
  <2>1. CASE SyncError
    BY <2>1 DEF SyncError, history
  <2>2. CASE Written
    BY <2>2 DEF Written, Moving
  <2>. QED BY <2>1, <2>2 DEF AlreadyWritten, RenameTemp
<1>4. CASE Moving
  BY <1>1, <1>2, <1>3, <1>4, NewLetterR
<1>5. CASE ~Moving
  BY <1>1, <1>2, <1>3, <1>5, NewFileR
<1>. QED BY <1>4, <1>5

\* The file goes once a dead letter holds the record.
LEMMA UnlinkR == ASSUME IInv, NInv, Unlink PROVE Allowed
<1>1. /\ op.id \in queueDir /\ legacy = {} /\ op.id \in Records
      /\ UNCHANGED <<deadDir, legacy, history>> /\ queueDir' = queueDir \ {op.id}
      /\ op.w \in DeadFiles /\ (op.w = op.id \/ diagOf[op.id] = op.w)
  BY NothingToMigrate DEF Unlink, RemoveQueueFile, IInv, TypeOK, StepsOK, CallsOK, NInv, MovesOK,
     NamesOK, Handling
<1>2. PICK r \in Records : r = op.id
  BY <1>1
<1>3. \A j \in Records \ {r} : StatusOf(j)' = StatusOf(j)
  BY <1>1, <1>2 DEF StatusOf, Buried, WrittenOff, DeadFiles, history
<1>4. StatusOf(r) = "pending"
  BY <1>1, <1>2 DEF StatusOf
<1>5. StatusOf(r)' \in {"delivered", "dead"}
  BY <1>1, <1>2 DEF StatusOf, Buried, DeadFiles, history
<1>. QED BY <1>3, <1>4, <1>5, OneMove

LEMMA AckR == ASSUME IInv, NInv, Ack PROVE Allowed
<1>1. /\ op.at = "ack" /\ UNCHANGED <<deadDir, legacy, discarded, diagOf>> /\ legacy = {}
      /\ op.todo \subseteq Ids /\ queueDir \subseteq Records
  BY NothingToMigrate DEF Ack, IInv, TypeOK, CallsOK, OpType, NInv, NamesOK
<1>2. CASE op.todo = {}
  BY <1>1, <1>2, SameFiles DEF Ack
<1>3. CASE op.todo # {}
  <2>1. PICK id \in op.todo : id = Min(op.todo)
    BY <1>1, <1>3, LeastName
  <2>2. /\ queueDir' = queueDir \ {id}
        /\ acked' = IF id \in queueDir THEN acked \cup {id} ELSE acked
    BY <1>3, <2>1 DEF Ack, RemoveQueueFile
  <2>3. CASE id \in queueDir
    <3>1. \A j \in Records \ {id} : StatusOf(j)' = StatusOf(j)
      BY <1>1, <2>2, <2>3 DEF StatusOf, Buried, WrittenOff, DeadFiles
    <3>2. id \in Records /\ StatusOf(id) = "pending" /\ StatusOf(id)' = "delivered"
      BY <1>1, <2>2, <2>3 DEF StatusOf
    <3>. QED BY <3>1, <3>2, OneMove
  <2>4. CASE id \notin queueDir
    <3>1. queueDir' = queueDir /\ acked' = acked
      BY <2>2, <2>4
    <3>. QED BY <1>1, <3>1, SameFiles
  <2>. QED BY <2>3, <2>4
<1>. QED BY <1>2, <1>3

\* A discarded dead letter stands for one record at most.
LEMMA PruneOneR == ASSUME IInv, NInv, PruneOne PROVE Allowed
<1>1. PICK id : id = Min(Victims)
  OBVIOUS
<1>2. /\ deadDir' = [deadDir EXCEPT ![id] = 0] /\ discarded' = discarded \cup {id}
      /\ UNCHANGED <<queueDir, legacy, acked, diagOf>>
  BY <1>1 DEF PruneOne
<1>3. id \in DeadFiles /\ id \in Ids
  <2>1. Victims \subseteq DeadIds(idx) /\ Victims # {}
    BY DEF Victims, Aged, PruneOne
  <2>2. id \in Victims
    BY <1>1, <2>1, VictimsOK, LeastName DEF IInv
  <2>. QED BY <2>1, <2>2 DEF IInv, NothingStranded, DeadFiles
<1>4. DeadFiles' = DeadFiles \ {id}
  BY <1>2, <1>3 DEF DeadFiles, IInv, TypeOK
<1> DEFINE For(r) == r = id \/ diagOf[r] = id
<1>5. \A j \in Records : ~For(j) => StatusOf(j)' = StatusOf(j)
  BY <1>2, <1>4 DEF StatusOf, Buried, WrittenOff
<1>6. \A r, j \in Records : For(r) /\ For(j) => r = j
  <2>1. \A j \in Records : diagOf[j] = id => id \in DiagIds
    BY <1>3, NamesAreNumbers DEF NInv, FreshOK, Records
  <2>2. \A i, j \in Records : diagOf[i] = id /\ diagOf[j] = id => i = j
    BY <1>3, NamesAreNumbers DEF NInv, FreshOK, Records
  <2>. QED BY <2>1, <2>2 DEF Records
<1>7. \A r \in Records : For(r) =>
        \/ StatusOf(r)' = StatusOf(r)
        \/ StatusOf(r) = "dead" /\ StatusOf(r)' = "discarded"
  BY <1>2, <1>3, <1>4 DEF StatusOf, Buried, WrittenOff
<1>8. CASE \A j \in Records : StatusOf(j)' = StatusOf(j)
  BY <1>8, NoMove
<1>9. CASE ~ \A j \in Records : StatusOf(j)' = StatusOf(j)
  <2>1. PICK r \in Records : ~ (StatusOf(r)' = StatusOf(r))
    BY <1>9
  <2>2. For(r)
    BY <1>5, <2>1
  <2>3. StatusOf(r) = "dead" /\ StatusOf(r)' = "discarded"
    BY <1>7, <2>1, <2>2
  <2>4. \A j \in Records \ {r} : StatusOf(j)' = StatusOf(j)
    BY <1>5, <1>6, <2>2
  <2>. QED BY <2>3, <2>4, OneMove
<1>. QED BY <1>8, <1>9

LEMMA StepR == IInv /\ NInv /\ [Next]_vars => Allowed
<1> SUFFICES ASSUME IInv, NInv, [Next]_vars PROVE Allowed
  OBVIOUS
<1>1. CASE Working
  BY <1>1, QuietSteps, RetireR, WritingR, UnlinkR, AckR, PruneOneR DEF Working
<1>2. CASE Environment
  BY <1>2, QuietSteps, WritingR DEF Environment
<1>3. CASE StartOpen \/ Collecting \/ Sending \/ StartStats
  BY <1>3, QuietSteps
<1>4. CASE UNCHANGED vars
  BY <1>4, SameFiles DEF vars, disk, history
<1>. QED BY <1>1, <1>2, <1>3, <1>4 DEF Next

\* The queue implements its contract (SpoolContract): a record is pending from
\* the moment its file is durable, leaves as delivered or as a dead letter, and no
\* outcome is taken back, whatever crashes, failed file operations and damaged
\* files come between the steps of the calls of spool.go.
THEOREM QueueKeepsContract == Spec => ImplementsContract
<1>1. Init => Contract!Init
  <2> SUFFICES ASSUME Init PROVE \A j \in Records : StatusOf(j) \in {"new", "pending"}
    BY DEF Contract!Init
  <2>1. NoId \notin DeadFiles /\ DeadFiles = {}
    BY DEF Init, DeadFiles
  <2>. QED BY <2>1 DEF Init, StatusOf, Buried, WrittenOff
<1>2. IInv /\ NInv /\ [Next]_vars => [Contract!Next]_Standing
  BY StepR DEF Allowed
<1>3. IInv /\ NInv /\ [Next]_vars => IInv' /\ NInv'
  BY StepOK, StepN
<1>4. Init => IInv /\ NInv
  BY InitOK, InitN
<1>. QED BY <1>1, <1>2, <1>3, <1>4, PTL DEF Spec, ImplementsContract, Contract!Spec, Standing

------------------------------------------------------------------------------
(* What Peek hands out.  Three more invariants: no record that was accepted   *)
(* escapes the index, a scan has what lies behind it in hand, and the age     *)
(* kept for the queue is no later than that of any record in it.              *)

\* The index follows the queue through these operations only.
LEMMA IndexSteps ==
  ASSUME IInv, [Next]_vars
  PROVE  \/ idx' = idx \/ idx' = EmptyIndex \/ idx' = Rebuilt \/ idx' = Compact(idx)
         \/ \E id \in Ids : \/ idx' = RemoveDead(idx, id)
                            \/ idx' = RemoveActive(idx, id)
                            \/ idx' = Compact(RemoveActive(idx, id))
                            \/ idx' = InsertActive(idx, id)
                            \/ idx' = InsertDead(idx, id, now)
<1>1. CASE StartOpen \/ Environment \/ UNCHANGED vars
  BY <1>1 DEF StartOpen, Environment, Crash, IOError, SyncError, Tick, SetBack, Damage, vars
<1>2. CASE Collecting \/ Sending \/ StartStats
  BY <1>2 DEF Collecting, StartPush, StartRollback, CommitBatch, Sending, StartPeek,
     StartAckHanded, StartReject, DropHanded, StartStats
<1>3. CASE AlreadyWritten \/ RenameTemp
  <2>1. op.w \in Ids /\ Written
    BY <1>3 DEF AlreadyWritten, RenameTemp, IInv, StepsOK
  <2>. QED BY <2>1 DEF Written
<1>4. CASE Unlink
  <2>1. op.id \in Ids
    BY <1>4 DEF Unlink, IInv, StepsOK
  <2>. QED BY <1>4, <2>1 DEF Unlink
<1>5. CASE Ack
  <2>1. op.todo # {} => Min(op.todo) \in Ids
    BY LeastName DEF IInv, TypeOK, OpType
  <2>. QED BY <1>5, <2>1 DEF Ack
<1>6. CASE PruneOne
  <2>1. Min(Victims) \in Ids
    BY <1>6, VictimsOK, LeastName DEF PruneOne, IInv
  <2>. QED BY <1>6, <2>1 DEF PruneOne
<1>7. CASE \/ Migrate \/ Retire \/ Rebuild \/ QuarantineUnindexed \/ Expire \/ Pruned \/ Tidied
           \/ RoomMade \/ CreateTemp \/ Scan \/ Read
  BY <1>7 DEF Migrate, Retire, Rebuild, QuarantineUnindexed, Expire, Pruned, Tidied, RoomMade,
     CreateTemp, Scan, Read
<1>. QED BY <1>1, <1>2, <1>3, <1>4, <1>5, <1>6, <1>7 DEF Next, Working

\* A name starts with the time it was generated (newID), so that names sort by it.
NamesInOrder == \A i, j \in Ids : i < j => Stamp[i] <= Stamp[j]

NoLater(ix) == \A id \in ix.active : ix.oldest # 0 /\ ix.oldest <= Stamp[id]
OldestKnown == NoLater(idx)

\* The age is read again from the record the head stops at.
LEMMA OldestKept ==
  ASSUME NamesInOrder, NEW ix \in IndexType, NEW id \in Ids, NEW t \in Times \ {0},
         NoLater(ix), Reachable(ix)
  PROVE  /\ NoLater(Compact(ix)) /\ NoLater(RemoveDead(ix, id)) /\ NoLater(InsertDead(ix, id, t))
         /\ NoLater(InsertActive(ix, id)) /\ NoLater(RemoveActive(ix, id))
<1>0. /\ Stamp \in [Ids -> Nat \ {0}] /\ ix.active \subseteq Ids /\ ix.oldest \in Nat
      /\ Ids \subseteq Nat
  BY SpoolAssumption DEF IndexType, Times
<1>1. Compact(ix).active = ix.active /\ Compact(ix).oldest = ix.oldest
  BY DEF Compact, IndexType
<1>2. RemoveDead(ix, id).active = ix.active /\ RemoveDead(ix, id).oldest = ix.oldest
  BY DEF RemoveDead, IndexType
<1>3. InsertDead(ix, id, t).active = ix.active /\ InsertDead(ix, id, t).oldest = ix.oldest
  BY DEF InsertDead, IndexType
<1>4. NoLater(InsertActive(ix, id))
  <2>1. /\ InsertActive(ix, id).active = ix.active \cup {id}
        /\ InsertActive(ix, id).oldest = Earlier(ix.oldest, Stamp[id])
    BY DEF InsertActive, IndexType
  <2>. QED BY <1>0, <2>1 DEF NoLater, Earlier
<1>5. NoLater(RemoveActive(ix, id))
  <2> DEFINE active == ix.active \ {id}
             passed == ix.passed \cup {j \in ix.order :
                         \A a \in active : a \in ix.order \ ix.passed => j < a}
             ahead  == active \cap (ix.order \ passed)
             oldest == IF ix.oldest # Stamp[id] THEN ix.oldest
                       ELSE IF ahead = {} THEN 0 ELSE Stamp[Min(ahead)]
  <2>1. CASE id \notin ix.active
    BY <2>1 DEF RemoveActive
  <2>2. CASE id \in ix.active
    <3>1. RemoveActive(ix, id).active = active /\ RemoveActive(ix, id).oldest = oldest
      BY <2>2 DEF RemoveActive, IndexType
    <3>2. ahead = active
      <4>1. ASSUME NEW a \in active PROVE a \in ix.order \ passed
        <5>1. a \in ix.order \ ix.passed
          BY DEF Reachable
        <5>2. a \in Nat
          BY <1>0
        <5>3. ~ (a < a)
          BY <5>2
        <5>. QED BY <5>1, <5>3
      <4>. QED BY <4>1
    <3>3. active \subseteq Ids /\ active \subseteq Nat
      BY <1>0
    <3>4. ASSUME NEW a \in active PROVE oldest # 0 /\ oldest <= Stamp[a]
      <4>1. CASE ix.oldest # Stamp[id]
        BY <4>1 DEF NoLater
      <4>2. CASE ix.oldest = Stamp[id]
        <5>1. PICK m \in active : m = Min(active) /\ m <= a
          BY <3>3, MinInSet
        <5>2. oldest = Stamp[m]
          BY <3>2, <4>2, <5>1
        <5>3. Stamp[m] <= Stamp[a] /\ Stamp[m] # 0
          BY <1>0, <3>3, <5>1 DEF NamesInOrder
        <5>. QED BY <5>2, <5>3
      <4>. QED BY <4>1, <4>2
    <3> HIDE DEF active, passed, ahead, oldest
    <3>. QED BY <3>1, <3>4 DEF NoLater
  <2>. QED BY <2>1, <2>2
<1>. QED BY <1>1, <1>2, <1>3, <1>4, <1>5 DEF NoLater

LEMMA OldestRebuilt == ASSUME TypeOK PROVE NoLater(Rebuilt)
<1> DEFINE readable == queueDir \ corrupt
           ages     == {Stamp[id] : id \in readable}
<1>1. /\ Rebuilt.active = readable
      /\ Rebuilt.oldest = IF readable = {} THEN 0 ELSE Min(ages)
  BY DEF Rebuilt
<1>2. ages \subseteq Nat \ {0} /\ ages \subseteq Nat
  BY SpoolAssumption DEF TypeOK
<1>3. ASSUME NEW id \in readable PROVE Min(ages) # 0 /\ Min(ages) <= Stamp[id]
  <2>1. Stamp[id] \in ages
    OBVIOUS
  <2>2. Min(ages) \in ages /\ Min(ages) <= Stamp[id]
    BY <1>2, <2>1, MinInSet
  <2>. QED BY <1>2, <2>2
<1> HIDE DEF readable, ages
<1>. QED BY <1>1, <1>3 DEF NoLater

LEMMA OldestStep == NamesInOrder /\ IInv /\ OldestKnown /\ [Next]_vars => OldestKnown'
<1> SUFFICES ASSUME NamesInOrder, IInv, OldestKnown, [Next]_vars PROVE NoLater(idx')
  BY DEF OldestKnown, NoLater
<1>1. idx \in IndexType /\ Reachable(idx) /\ now \in Times \ {0} /\ NoLater(idx)
  BY DEF IInv, TypeOK, NothingStranded, Reachable, OldestKnown
<1>2. CASE idx' = idx \/ idx' = EmptyIndex \/ idx' = Rebuilt
  BY <1>1, <1>2, OldestRebuilt, EmptyIndexOK DEF NoLater, IInv
<1>3. CASE idx' = Compact(idx)
  <2>1. Compact(idx).active = idx.active /\ Compact(idx).oldest = idx.oldest
    BY <1>1 DEF Compact, IndexType
  <2>. QED BY <1>1, <1>3, <2>1 DEF NoLater
<1>4. ASSUME NEW id \in Ids,
             \/ idx' = RemoveDead(idx, id) \/ idx' = RemoveActive(idx, id)
             \/ idx' = Compact(RemoveActive(idx, id))
             \/ idx' = InsertActive(idx, id) \/ idx' = InsertDead(idx, id, now)
      PROVE  NoLater(idx')
  <2>1. PICK left : left = RemoveActive(idx, id)
    OBVIOUS
  <2>2. left \in IndexType /\ Reachable(left) /\ NoLater(left)
    BY <1>1, <2>1, RemoveActiveOK, OldestKept
  <2>3. NoLater(Compact(left))
    BY <1>1, <2>2, OldestKept
  <2>. QED BY <1>1, <1>4, <2>1, <2>2, <2>3, OldestKept
<1>. QED BY <1>2, <1>3, <1>4, IndexSteps

\* What Open has still to quarantine once it has built the index.
LeftToOpen == IF op.at = "prune" THEN {}
              ELSE IF op.at \in {"index", "tidy"} THEN op.todo
              ELSE op.todo \cup {op.id}

\* No record that was accepted escapes the index, not even one that a failed
\* file operation left in queue/.
AcceptedIndexed ==
  /\ accepted \subseteq used
  /\ (op.at \in Writing /\ op.back = "push") => op.w \notin accepted
  /\ run = "up" => accepted \cap queueDir \subseteq idx.active
  /\ (op.call = "open" /\ op.back = "index") => queueDir \subseteq idx.active \cup LeftToOpen

Scanning == \/ op.at = "scan"
            \/ op.at \in Handling \cup {"tidy"} /\ op.back = "scan"
InHand   == IF op.at \in Handling THEN {op.id} ELSE {}

\* A scan takes the names in order and leaves none out.
InOrder ==
  /\ op.back = "scan" => Scanning
  /\ op.back = "prune" => op.call = "reject"
  /\ Scanning => /\ op.call = "peek"
                 /\ idx.active \subseteq op.todo \cup op.got \cup InHand
  /\ ~Scanning => op.got = {}
  /\ \A g \in op.got, t \in op.todo \cap idx.active : g < t

PInv == AcceptedIndexed /\ InOrder

LEMMA SameAccepted ==
  ASSUME AcceptedIndexed, UNCHANGED <<accepted, run, queueDir>>, used \subseteq used',
         op'.at \notin Writing \/ op'.back # "push",
         idx'.active = idx.active, op'.call # "open"
  PROVE  AcceptedIndexed'
BY DEF AcceptedIndexed

\* The call is over, or never was.
LEMMA NotScanning ==
  ASSUME op'.at \notin Handling \cup {"tidy", "scan"}, op'.back \notin {"scan", "prune"},
         op'.got = {}
  PROVE  InOrder'
BY DEF InOrder, Scanning

LEMMA OverOK ==
  ASSUME op' = NoOp
  PROVE  /\ InOrder' /\ op'.at = "idle" /\ op'.back = "idle" /\ op'.call = "none"
         /\ op'.got = {}
<1>1. op'.at = "idle" /\ op'.back = "idle" /\ op'.call = "none" /\ op'.got = {}
  BY DEF NoOp
<1>. QED BY <1>1, NotScanning DEF Handling

LEMMA CallsStartP ==
  ASSUME IInv, NInv, PInv,
         \/ Idle /\ \E call \in {"push", "peek", "stats"} : StartExpiring(call)
                 /\ UNCHANGED <<disk, idx, run, now, callers, history, crashes>>
         \/ StartAckHanded \/ StartRollback \/ StartReject
  PROVE  PInv'
<1>1. /\ UNCHANGED <<disk, idx, run, history>> /\ Idle
      /\ op'.back # "scan" /\ (op'.back = "prune" => op'.call = "reject")
      /\ op'.at \in {"expire", "ack", "read"} /\ op'.got = {} /\ op'.call # "open"
  BY DEF StartExpiring, StartAckHanded, StartRollback, StartReject, StartAck, NoOp, disk, Idle
<1>2. AcceptedIndexed'
  BY <1>1, SameAccepted DEF PInv, disk, history, Writing
<1>3. InOrder'
  BY <1>1 DEF InOrder, Scanning, Handling
<1>. QED BY <1>2, <1>3 DEF PInv

LEMMA NoCallP ==
  ASSUME PInv, UNCHANGED <<queueDir, idx, op, run, history>>
  PROVE  PInv'
BY DEF PInv, AcceptedIndexed, InOrder, Scanning, InHand, LeftToOpen, history

LEMMA FailP ==
  ASSUME IInv, NInv, PInv, Fail, UNCHANGED <<idx, accepted, used>>,
         \/ queueDir' = queueDir
         \/ op.at \in Writing /\ ~Moving /\ queueDir' = queueDir \cup {op.w}
  PROVE  PInv'
<1>1. op' = NoOp /\ run' = IF op.call = "open" THEN "down" ELSE run
  BY DEF Fail, Return
<1>2. InOrder' /\ op'.at = "idle" /\ op'.call = "none"
  BY <1>1, OverOK
<1>3. run' = "up" => accepted \cap queueDir' \subseteq idx.active
  <2>1. run' = "up" => op.call # "open" /\ run = "up"
    BY <1>1 DEF IInv, TypeOK
  <2>2. CASE queueDir' = queueDir
    BY <2>1, <2>2 DEF PInv, AcceptedIndexed
  <2>3. CASE op.at \in Writing /\ ~Moving /\ queueDir' = queueDir \cup {op.w}
    BY <2>1, <2>3 DEF PInv, AcceptedIndexed, Moving, IInv, CallsOK
  <2>. QED BY <2>2, <2>3
<1>4. AcceptedIndexed'
  BY <1>2, <1>3 DEF PInv, AcceptedIndexed, Writing
<1>. QED BY <1>2, <1>4 DEF PInv

LEMMA StoppedP ==
  ASSUME PInv, op' = NoOp, run' = "down", UNCHANGED <<accepted, used>>
  PROVE  PInv'
<1>1. InOrder' /\ op'.at = "idle" /\ op'.call = "none"
  BY OverOK
<1>2. AcceptedIndexed'
  BY <1>1 DEF PInv, AcceptedIndexed, Writing
<1>. QED BY <1>1, <1>2 DEF PInv

\* While Open migrates, nothing is indexed yet.
LEMMA MigratingP ==
  ASSUME IInv, PInv, op.call = "open", op.back = "migrate", op'.at # "scan",
         op'.call = "open", op'.back = "migrate", op'.got = op.got,
         UNCHANGED <<run, accepted, used>>
  PROVE  PInv'
<1>1. run = "down" /\ op.at # "scan"
  BY DEF IInv, CallsOK, TypeOK
<1>2. AcceptedIndexed'
  BY <1>1 DEF PInv, AcceptedIndexed
<1>3. op'.got = {}
  BY <1>1 DEF PInv, InOrder, Scanning
<1>4. InOrder'
  BY <1>3 DEF InOrder, Scanning
<1>. QED BY <1>2, <1>4 DEF PInv

LEMMA OpeningP == ASSUME IInv, PInv, Migrate \/ Retire \/ Rebuild PROVE PInv'
<1>1. /\ op \in OpType /\ op.call = "open" /\ op.back = "migrate" /\ run = "down"
      /\ UNCHANGED <<queueDir, run, history>> /\ op.at # "scan"
  BY DEF Migrate, Retire, Rebuild, IInv, TypeOK, CallsOK, disk
<1>2. CASE Migrate \/ Retire
  <2>1. /\ op'.at # "scan" /\ op'.call = "open" /\ op'.back = "migrate" /\ op'.got = op.got
    BY <1>1, <1>2 DEF Migrate, Retire, Goto, OpType
  <2>. QED BY <1>1, <2>1, MigratingP DEF history
<1>3. CASE Rebuild
  <2>1. /\ op'.at = "index" /\ op'.call = "open" /\ op'.back = "index" /\ op'.todo = corrupt
        /\ op'.got = op.got /\ idx' = Rebuilt
    BY <1>1, <1>3 DEF Rebuild, OpType
  <2>2. op'.got = {}
    BY <1>1, <2>1 DEF PInv, InOrder, Scanning
  <2>3. Rebuilt.active = queueDir \ corrupt
    BY RebuiltOK DEF IInv
  <2>4. AcceptedIndexed'
    BY <1>1, <2>1, <2>3 DEF PInv, AcceptedIndexed, history, Writing, LeftToOpen
  <2>5. InOrder'
    BY <2>1, <2>2 DEF InOrder, Scanning, Handling
  <2>. QED BY <2>4, <2>5 DEF PInv
<1>. QED BY <1>2, <1>3

\* A record is taken in hand, and what lies behind it stays to be visited.
LEMMA VisitP ==
  ASSUME IInv, PInv, NEW id \in Ids, NEW back \in {"expire", "scan", "index"},
         NEW todo \in SUBSET Ids, id \in todo, Visit(id, back, todo \ {id}),
         back = "index" => op.call = "open" /\ queueDir \subseteq idx.active \cup todo,
         back # "index" => op.call # "open",
         back = "scan" => op.at = "scan" /\ op.todo = todo,
         back # "scan" => op.got = {},
         UNCHANGED <<disk, idx, run, history>>
  PROVE  PInv'
<1>1. /\ op'.at \in {"room", "create"} /\ op'.id = id /\ op'.back = back
      /\ op'.todo = todo \ {id} /\ op'.call = op.call /\ op'.got = op.got
  <2>1. op \in OpType
    BY DEF IInv, TypeOK
  <2>2. CASE id \in corrupt
    <3>1. PICK w \in Fresh(DiagIds) : op' = [op EXCEPT !.at = "room", !.id = id, !.w = w,
                                                      !.back = back, !.todo = todo \ {id}]
      BY <2>2 DEF Visit
    <3>. QED BY <2>1, <3>1 DEF OpType
  <2>3. CASE id \notin corrupt
    BY <2>1, <2>3 DEF Visit, OpType
  <2>. QED BY <2>2, <2>3
<1>2. AcceptedIndexed'
  BY <1>1 DEF PInv, AcceptedIndexed, disk, history, LeftToOpen
<1>3. InOrder'
  <2>1. CASE back = "scan"
    <3>1. /\ op.call = "peek" /\ idx.active \subseteq todo \cup op.got
          /\ \A g \in op.got, t \in todo \cap idx.active : g < t
      BY <2>1 DEF PInv, InOrder, Scanning, InHand, Handling
    <3>. QED BY <1>1, <2>1, <3>1 DEF InOrder, Scanning, InHand, Handling
  <2>2. CASE back # "scan"
    BY <1>1, <2>2 DEF InOrder, Scanning, InHand, Handling
  <2>. QED BY <2>1, <2>2
<1>. QED BY <1>2, <1>3 DEF PInv

LEMMA QuarantineUnindexedP == ASSUME IInv, PInv, QuarantineUnindexed PROVE PInv'
<1>1. /\ op \in OpType /\ op.at = "index" /\ op.back = "index" /\ op.call = "open"
      /\ UNCHANGED <<disk, idx, run, history>> /\ op.got = {}
      /\ queueDir \subseteq idx.active \cup op.todo /\ run = "down"
  BY DEF QuarantineUnindexed, IInv, TypeOK, CallsOK, PInv, InOrder, Scanning, AcceptedIndexed,
     LeftToOpen, Handling
<1>2. CASE op.todo = {}
  <2>1. op'.at = "prune" /\ op'.back = "index" /\ op'.got = {} /\ op'.call = "open"
    BY <1>1, <1>2 DEF QuarantineUnindexed, Goto, OpType
  <2>2. InOrder'
    BY <2>1, NotScanning DEF Handling
  <2>3. AcceptedIndexed'
    BY <1>1, <1>2, <2>1 DEF PInv, AcceptedIndexed, disk, history, LeftToOpen
  <2>. QED BY <2>2, <2>3 DEF PInv
<1>3. CASE op.todo # {}
  <2>1. PICK id \in op.todo : id = Min(op.todo)
    BY <1>1, <1>3, LeastName DEF OpType
  <2>2. Visit(id, "index", op.todo \ {id}) /\ op.todo \in SUBSET Ids /\ id \in Ids
    BY <1>1, <1>3, <2>1 DEF QuarantineUnindexed, OpType
  <2>. QED BY <1>1, <2>1, <2>2, VisitP
<1>. QED BY <1>2, <1>3

LEMMA ExpireP == ASSUME IInv, PInv, Expire PROVE PInv'
<1>1. /\ op \in OpType /\ op.at = "expire" /\ op.call # "open" /\ op.got = {} /\ op.back # "scan"
      /\ UNCHANGED <<disk, run, history>> /\ (op.back = "prune" => op.call = "reject")
  BY DEF Expire, IInv, TypeOK, CallsOK, PInv, InOrder, Scanning, Handling
<1>2. CASE op.todo = {}
  <2>1. /\ op'.at = "prune" /\ op'.back = op.back /\ op'.got = {} /\ op'.call = op.call
        /\ idx' = Compact(idx)
    BY <1>1, <1>2 DEF Expire, Goto, OpType
  <2>2. idx'.active = idx.active
    BY <2>1, CompactOK DEF IInv, TypeOK
  <2>3. InOrder'
    BY <1>1, <2>1 DEF InOrder, Scanning, Handling
  <2>4. AcceptedIndexed'
    BY <1>1, <2>1, <2>2, SameAccepted DEF PInv, disk, history, Writing
  <2>. QED BY <2>3, <2>4 DEF PInv
<1>3. CASE op.todo # {}
  <2>1. PICK id \in op.todo : id = Min(op.todo)
    BY <1>1, <1>3, LeastName DEF OpType
  <2>2. /\ Visit(id, "expire", op.todo \ {id}) /\ op.todo \in SUBSET Ids /\ id \in Ids
        /\ idx' = idx
    BY <1>1, <1>3, <2>1 DEF Expire, OpType
  <2>. QED BY <1>1, <2>1, <2>2, VisitP
<1>. QED BY <1>2, <1>3

LEMMA PruneOneP == ASSUME IInv, PInv, PruneOne PROVE PInv'
<1>1. Min(Victims) \in Ids /\ idx \in IndexType
  BY VictimsOK, LeastName DEF PruneOne, IInv, TypeOK
<1>2. idx'.active = idx.active /\ op' = op /\ UNCHANGED <<queueDir, run, accepted, used>>
  BY <1>1, RemoveDeadOK DEF PruneOne
<1>. QED BY <1>2 DEF PInv, AcceptedIndexed, InOrder, Scanning, InHand, LeftToOpen

LEMMA PrunedP == ASSUME IInv, NInv, PInv, Pruned PROVE PInv'
<1>1. /\ op \in OpType /\ op.at = "prune" /\ UNCHANGED <<disk, idx, history>> /\ op.got = {}
      /\ op.back # "scan" /\ idx.active \subseteq idx.order \ idx.passed
      /\ op.call = "open" => op.back = "index"
  BY DEF Pruned, IInv, TypeOK, CallsOK, PInv, InOrder, Scanning, Handling, NothingStranded
<1>2. CASE op.call = "push"
  <2>1. PICK id \in Fresh(Records \ LegacyIds) :
          op' = [op EXCEPT !.at = "room", !.id = id, !.w = id, !.back = "push"]
    BY <1>2 DEF Pruned
  <2>2. /\ op'.at = "room" /\ op'.back = "push" /\ op'.got = {} /\ run' = run
        /\ op'.call = "push"
    BY <1>1, <1>2, <2>1 DEF OpType, Pruned
  <2>3. InOrder'
    BY <2>2 DEF InOrder, Scanning, Handling
  <2>4. AcceptedIndexed'
    BY <1>1, <2>2, SameAccepted DEF PInv, disk, history, Writing
  <2>. QED BY <2>3, <2>4 DEF PInv
<1>3. CASE op.call = "peek"
  <2>1. /\ op'.at = "scan" /\ op'.back = op.back /\ op'.todo = idx.order \ idx.passed
        /\ op'.got = {} /\ op'.call = "peek" /\ run' = run
    BY <1>1, <1>3 DEF Pruned, OpType
  <2>2. InOrder'
    BY <1>1, <1>3, <2>1 DEF PInv, InOrder, Scanning, Handling, InHand
  <2>3. AcceptedIndexed'
    BY <1>1, <2>1, SameAccepted DEF PInv, disk, history, Writing
  <2>. QED BY <2>2, <2>3 DEF PInv
<1>4. CASE op.call \notin {"push", "peek"}
  <2>1. op' = NoOp /\ run' = "up"
    BY <1>4 DEF Pruned, Return
  <2>2. InOrder' /\ op'.at = "idle" /\ op'.call = "none"
    BY <2>1, OverOK
  <2>3. accepted \cap queueDir \subseteq idx.active
    <3>1. CASE run = "up"
      BY <3>1 DEF PInv, AcceptedIndexed
    <3>2. CASE run # "up"
      <4>1. op.call = "open"
        BY <1>1, <3>2 DEF IInv, CallsOK, TypeOK
      <4>. QED BY <1>1, <4>1 DEF PInv, AcceptedIndexed, LeftToOpen
    <3>. QED BY <3>1, <3>2
  <2>4. AcceptedIndexed'
    BY <1>1, <2>2, <2>3 DEF PInv, AcceptedIndexed, disk, history, Writing
  <2>. QED BY <2>2, <2>4 DEF PInv
<1>. QED BY <1>2, <1>3, <1>4

LEMMA TidiedP == ASSUME IInv, PInv, Tidied PROVE PInv'
<1>1. /\ op \in OpType /\ op.at = "tidy" /\ UNCHANGED <<disk, idx, run, history>>
      /\ op.back \notin {"push", "migrate", "idle"} /\ op.back \in Resumptions
  BY DEF Tidied, IInv, TypeOK, StepsOK, Moving, OpType
<1>2. /\ op'.at = op.back /\ op'.back = op.back /\ op'.todo = op.todo /\ op'.call = op.call
      /\ op'.got = op.got
  BY <1>1 DEF Tidied, Goto, OpType
<1>3. op'.at \in {"expire", "scan", "index", "prune"}
  BY <1>1, <1>2 DEF Resumptions
<1>4. (op.call = "open") = (op.back = "index")
  BY <1>1 DEF IInv, CallsOK
<1>5. AcceptedIndexed'
  BY <1>1, <1>2, <1>3, <1>4 DEF PInv, AcceptedIndexed, disk, history, LeftToOpen, Writing
<1>6. InOrder'
  BY <1>1, <1>2, <1>3 DEF PInv, InOrder, Scanning, InHand, Handling
<1>. QED BY <1>5, <1>6 DEF PInv

\* The call goes on with the record in hand.
LEMMA InHandP ==
  ASSUME IInv, PInv, op.at \in Handling, op'.at \in Handling, op'.id = op.id,
         op'.back = op.back, op'.todo = op.todo, op'.call = op.call, op'.got = op.got,
         (op'.at \in Writing /\ op.back = "push") => op'.w \notin accepted,
         idx'.active = idx.active, UNCHANGED <<queueDir, run, accepted>>, used \subseteq used'
  PROVE  PInv'
<1>1. AcceptedIndexed'
  BY DEF PInv, AcceptedIndexed, LeftToOpen, Handling
<1>2. InOrder'
  BY DEF PInv, InOrder, Scanning, InHand, Handling
<1>. QED BY <1>1, <1>2 DEF PInv

LEMMA RoomMadeP == ASSUME IInv, NInv, PInv, RoomMade PROVE PInv'
<1>1. /\ op \in OpType /\ op.at = "room" /\ UNCHANGED <<disk, idx, accepted>>
      /\ op.w \notin accepted
  BY DEF RoomMade, IInv, TypeOK, NInv, FreshOK, PInv, AcceptedIndexed
<1>2. CASE RoomLeft
  <2>1. op' = [op EXCEPT !.at = "create"] /\ run' = run /\ used' = used \cup {op.w}
    BY <1>2 DEF RoomMade
  <2>2. /\ op'.at = "create" /\ op'.id = op.id /\ op'.w = op.w /\ op'.back = op.back
        /\ op'.todo = op.todo /\ op'.call = op.call /\ op'.got = op.got
    BY <1>1, <2>1 DEF OpType
  <2>. QED BY <1>1, <2>1, <2>2, InHandP DEF Handling, disk
<1>3. CASE ~RoomLeft
  BY <1>1, <1>3, FailP DEF RoomMade, disk
<1>. QED BY <1>2, <1>3

LEMMA CreateTempP == ASSUME IInv, NInv, PInv, CreateTemp PROVE PInv'
<1>1. op \in OpType /\ op.at = "create" /\ UNCHANGED <<queueDir, idx, accepted, used>>
  BY DEF CreateTemp, IInv, TypeOK, history
<1>2. CASE TempExists
  BY <1>1, <1>2, FailP DEF CreateTemp
<1>3. CASE ~TempExists
  <2>1. op' = [op EXCEPT !.at = "rename"] /\ run' = run
    BY <1>3 DEF CreateTemp, Goto
  <2>2. /\ op'.at = "rename" /\ op'.id = op.id /\ op'.w = op.w /\ op'.back = op.back
        /\ op'.todo = op.todo /\ op'.call = op.call /\ op'.got = op.got
    BY <1>1, <2>1 DEF OpType
  <2>3. (op'.at \in Writing /\ op.back = "push") => op'.w \notin accepted
    BY <1>1, <2>2 DEF PInv, AcceptedIndexed, Writing
  <2>. QED BY <1>1, <2>1, <2>2, <2>3, InHandP DEF Handling
<1>. QED BY <1>2, <1>3

LEMMA WritingP == ASSUME IInv, NInv, PInv, AlreadyWritten \/ RenameTemp PROVE PInv'
<1>1. /\ op \in OpType /\ op.at \in Writing /\ op.w \in Ids /\ op.w \in used /\ Written
      /\ run' = run /\ used' = used /\ idx \in IndexType /\ now \in Times \ {0}
      /\ queueDir' = (IF Moving THEN queueDir ELSE queueDir \cup {op.w})
  BY DEF AlreadyWritten, RenameTemp, Writing, IInv, TypeOK, StepsOK, NInv, FreshOK, disk,
     FinalExists
<1>2. CASE op.back = "push"
  <2>1. op' = NoOp /\ accepted' = accepted \cup {op.w} /\ idx' = InsertActive(idx, op.w)
    BY <1>1, <1>2 DEF Written, Return
  <2>2. InOrder' /\ op'.at = "idle" /\ op'.call = "none"
    BY <2>1, OverOK
  <2>3. idx'.active = idx.active \cup {op.w}
    BY <1>1, <2>1, InsertActiveOK
  <2>4. AcceptedIndexed'
    BY <1>1, <1>2, <2>1, <2>2, <2>3 DEF PInv, AcceptedIndexed, Writing, Moving
  <2>. QED BY <2>2, <2>4 DEF PInv
<1>3. CASE op.back = "migrate"
  <2>1. op' = [op EXCEPT !.at = "migrate"] /\ accepted' = accepted /\ op.call = "open"
    BY <1>1, <1>3 DEF Written, Goto, IInv, CallsOK
  <2>2. op'.at = "migrate" /\ op'.back = "migrate" /\ op'.call = "open" /\ op'.got = op.got
    BY <1>1, <1>3, <2>1 DEF OpType
  <2>. QED BY <1>1, <1>3, <2>1, <2>2, MigratingP
<1>4. CASE op.back \notin {"push", "migrate"}
  <2>1. /\ op' = [op EXCEPT !.at = "unlink"] /\ accepted' = accepted /\ queueDir' = queueDir
        /\ idx' = InsertDead(idx, op.w, now)
    BY <1>1, <1>4 DEF Written, Goto, Moving
  <2>2. /\ op'.at = "unlink" /\ op'.id = op.id /\ op'.w = op.w /\ op'.back = op.back
        /\ op'.todo = op.todo /\ op'.call = op.call /\ op'.got = op.got
    BY <1>1, <2>1 DEF OpType
  <2>3. idx'.active = idx.active
    BY <1>1, <2>1, InsertDeadOK
  <2>. QED BY <1>1, <1>4, <2>1, <2>2, <2>3, InHandP DEF Handling, Writing
<1>. QED BY <1>2, <1>3, <1>4

LEMMA UnlinkP == ASSUME IInv, NInv, PInv, Unlink PROVE PInv'
<1>1. /\ op \in OpType /\ op.at = "unlink" /\ op.id \in Ids /\ idx \in IndexType
      /\ op.back \in Resumptions /\ op.back \notin {"push", "migrate", "idle"}
      /\ UNCHANGED <<run, history>> /\ queueDir' = queueDir \ {op.id}
  BY DEF Unlink, RemoveQueueFile, IInv, TypeOK, StepsOK, Moving, OpType
<1>2. /\ op'.at \in {"tidy", op.back} /\ op'.back = op.back /\ op'.todo = op.todo
      /\ op'.call = op.call /\ op'.got = op.got /\ op'.id = op.id
  BY <1>1 DEF Unlink, Goto, OpType
<1>3. op'.at \in {"tidy", "expire", "index", "prune", "scan"} /\ (op'.at # "tidy" => op'.at = op.back)
  BY <1>1, <1>2 DEF Resumptions
<1>4. idx'.active = idx.active \ {op.id}
  <2>1. PICK left : left = RemoveActive(idx, op.id)
    OBVIOUS
  <2>2. left.active = idx.active \ {op.id} /\ Compact(left).active = left.active
    BY <1>1, <2>1, RemoveActiveOK, CompactOK
  <2>. QED BY <2>1, <2>2 DEF Unlink
<1>5. (op.call = "open") = (op.back = "index")
  BY <1>1 DEF IInv, CallsOK
<1>6. AcceptedIndexed'
  BY <1>1, <1>2, <1>3, <1>4, <1>5 DEF PInv, AcceptedIndexed, history, LeftToOpen, Writing
<1>7. InOrder'
  BY <1>1, <1>2, <1>3, <1>4 DEF PInv, InOrder, Scanning, InHand, Handling
<1>. QED BY <1>6, <1>7 DEF PInv

LEMMA AckP == ASSUME IInv, NInv, PInv, Ack PROVE PInv'
<1>1. /\ op \in OpType /\ op.at = "ack" /\ op.call # "open" /\ idx \in IndexType
      /\ UNCHANGED <<run, used, accepted>> /\ op.got = {} /\ op.back # "scan"
      /\ op.back # "push" /\ (op.back = "prune" => op.call = "reject")
  BY DEF Ack, IInv, TypeOK, CallsOK, PInv, InOrder, Scanning, Handling
<1>2. CASE op.todo = {}
  <2>1. op' = NoOp /\ queueDir' = queueDir /\ idx' = Compact(idx)
    BY <1>1, <1>2 DEF Ack, Return
  <2>2. InOrder' /\ op'.at = "idle" /\ op'.call = "none" /\ idx'.active = idx.active
    BY <1>1, <2>1, OverOK, CompactOK
  <2>3. AcceptedIndexed'
    BY <1>1, <2>1, <2>2, SameAccepted DEF PInv, Writing
  <2>. QED BY <2>2, <2>3 DEF PInv
<1>3. CASE op.todo # {}
  <2>1. PICK id \in op.todo : id = Min(op.todo)
    BY <1>1, <1>3, LeastName DEF OpType
  <2>2. /\ queueDir' = queueDir \ {id} /\ idx' = RemoveActive(idx, id) /\ id \in Ids
        /\ op' = [op EXCEPT !.todo = op.todo \ {id}]
    BY <1>1, <1>3, <2>1 DEF Ack, RemoveQueueFile, OpType
  <2>3. /\ op'.at = "ack" /\ op'.back = op.back /\ op'.call = op.call /\ op'.got = {}
        /\ idx'.active = idx.active \ {id}
    BY <1>1, <2>2, RemoveActiveOK DEF OpType
  <2>4. AcceptedIndexed'
    BY <1>1, <2>2, <2>3 DEF PInv, AcceptedIndexed, Writing
  <2>5. InOrder'
    BY <1>1, <2>3 DEF InOrder, Scanning, Handling
  <2>. QED BY <2>4, <2>5 DEF PInv
<1>. QED BY <1>2, <1>3

LEMMA ScanP == ASSUME IInv, NInv, PInv, Scan PROVE PInv'
<1> DEFINE ahead == op.todo \cap idx.active
<1>1. /\ op \in OpType /\ op.at = "scan" /\ op.call = "peek" /\ idx \in IndexType
      /\ UNCHANGED <<disk, run, history>> /\ ahead \subseteq Ids /\ op.todo \subseteq Ids
      /\ op.got \subseteq Ids
  BY DEF Scan, IInv, TypeOK, CallsOK, OpType, PInv, InOrder, Scanning
<1>2. CASE ahead = {} \/ Cardinality(op.got) = PeekLimit
  <2>1. op' = NoOp /\ idx' = Compact(idx)
    BY <1>2 DEF Scan, Return
  <2>2. InOrder' /\ op'.at = "idle" /\ op'.call = "none" /\ idx'.active = idx.active
    BY <1>1, <2>1, OverOK, CompactOK
  <2>3. AcceptedIndexed'
    BY <1>1, <2>1, <2>2, SameAccepted DEF PInv, Writing, disk, history
  <2>. QED BY <2>2, <2>3 DEF PInv
<1>3. CASE ~(ahead = {} \/ Cardinality(op.got) = PeekLimit)
  <2>1. PICK id \in ahead : id = Min(ahead) /\ \A y \in ahead : id <= y
    BY <1>1, <1>3, MinInSet, NamesAreNumbers
  <2>2. /\ idx' = idx
        /\ IF id \in corrupt THEN Visit(id, "scan", op.todo \ {id})
           ELSE op' = [op EXCEPT !.todo = op.todo \ {id}, !.got = op.got \cup {id}]
    BY <1>3, <2>1 DEF Scan
  <2>3. id \in Ids /\ id \in op.todo /\ id \in idx.active
    BY <1>1, <2>1
  <2>4. CASE id \in corrupt
    BY <1>1, <2>2, <2>3, <2>4, VisitP
  <2>5. CASE id \notin corrupt
    <3>1. /\ op'.at = "scan" /\ op'.back = op.back /\ op'.call = "peek"
          /\ op'.todo = op.todo \ {id} /\ op'.got = op.got \cup {id}
      BY <1>1, <2>2, <2>5 DEF OpType
    <3>2. AcceptedIndexed'
      BY <1>1, <2>2, <3>1, SameAccepted DEF PInv, disk, history, Writing
    <3>3. /\ idx.active \subseteq op.todo \cup op.got /\ op.back # "prune"
          /\ \A g \in op.got, t \in ahead : g < t
      BY <1>1 DEF PInv, InOrder, Scanning, InHand, Handling
    <3>4. ASSUME NEW g \in op.got \cup {id}, NEW t \in (op.todo \ {id}) \cap idx.active
          PROVE  g < t
      <4>1. t \in ahead /\ t # id /\ t \in Nat /\ id \in Nat
        BY <2>3, <1>1, NamesAreNumbers
      <4>2. CASE g \in op.got
        BY <3>3, <4>1, <4>2
      <4>3. CASE g = id
        BY <2>1, <4>1, <4>3
      <4>. QED BY <4>2, <4>3
    <3> HIDE DEF ahead
    <3>5. InOrder'
      BY <2>2, <2>3, <3>1, <3>3, <3>4 DEF InOrder, Scanning, InHand, Handling
    <3>. QED BY <3>2, <3>5 DEF PInv
  <2>. QED BY <2>4, <2>5
<1>. QED BY <1>2, <1>3

LEMMA ReadP == ASSUME IInv, NInv, PInv, Read PROVE PInv'
<1>1. /\ op \in OpType /\ op.at = "read" /\ op.back = "prune" /\ op.call = "reject"
      /\ UNCHANGED <<disk, idx, history>> /\ op.got = {}
  BY DEF Read, IInv, TypeOK, StepsOK, CallsOK, PInv, InOrder, Scanning, Handling
<1>2. CASE op.id \in queueDir \ corrupt
  <2>1. /\ op'.at = "create" /\ op'.back = "prune" /\ op'.call = "reject" /\ op'.got = {}
        /\ run' = run
    BY <1>1, <1>2 DEF Read, Goto, OpType
  <2>2. AcceptedIndexed'
    BY <1>1, <2>1, SameAccepted DEF PInv, disk, history
  <2>3. InOrder'
    BY <2>1 DEF InOrder, Scanning
  <2>. QED BY <2>2, <2>3 DEF PInv
<1>3. CASE op.id \notin queueDir \ corrupt
  BY <1>1, <1>3, FailP DEF Read, disk, history
<1>. QED BY <1>2, <1>3

LEMMA EnvironmentP == ASSUME IInv, NInv, PInv, Environment \/ StartOpen PROVE PInv'
<1>1. CASE Crash
  BY <1>1, StoppedP DEF Crash, history
<1>2. CASE IOError \/ SyncError
  <2>1. op.at \in Writing \/ queueDir' = queueDir
    BY <1>2 DEF IOError, SyncError, Writing
  <2>. QED BY <1>2, <2>1, FailP DEF IOError, SyncError, history
<1>3. CASE Tick \/ SetBack \/ \E id \in Corruptible : Damage(id)
  BY <1>3, NoCallP DEF Tick, SetBack, Damage, disk
<1>4. CASE StartOpen
  <2>1. /\ op'.call = "open" /\ op'.back = "migrate" /\ op'.at \in {"index", "migrate"}
        /\ op'.got = {} /\ UNCHANGED <<queueDir, run, history>> /\ run = "down"
    BY <1>4 DEF StartOpen, NoOp, disk
  <2>2. AcceptedIndexed'
    BY <2>1 DEF PInv, AcceptedIndexed, history
  <2>3. InOrder'
    BY <2>1 DEF InOrder, Scanning, Handling
  <2>. QED BY <2>2, <2>3 DEF PInv
<1>. QED BY <1>1, <1>2, <1>3, <1>4 DEF Environment

LEMMA InitP == Init => PInv
<1> SUFFICES ASSUME Init PROVE PInv
  OBVIOUS
<1>1. op.at = "idle" /\ op.back = "idle" /\ op.call = "none" /\ op.got = {}
  BY DEF Init, NoOp
<1>. QED BY <1>1 DEF Init, PInv, AcceptedIndexed, InOrder, Scanning, Handling, Writing

LEMMA StepP == IInv /\ NInv /\ PInv /\ [Next]_vars => PInv'
<1> SUFFICES ASSUME IInv, NInv, PInv, [Next]_vars PROVE PInv'
  OBVIOUS
<1>1. CASE Working
  BY <1>1, OpeningP, QuarantineUnindexedP, ExpireP, PruneOneP, PrunedP, TidiedP, RoomMadeP,
     CreateTempP, WritingP, UnlinkP, ScanP, AckP, ReadP DEF Working
<1>2. CASE Collecting \/ Sending \/ StartStats
  <2>1. CASE CommitBatch \/ DropHanded
    BY <2>1, NoCallP DEF CommitBatch, DropHanded, disk
  <2>. QED BY <1>2, <2>1, CallsStartP DEF Collecting, Sending, StartPush, StartPeek, StartStats
<1>3. CASE UNCHANGED vars
  BY <1>3, NoCallP DEF vars, disk
<1>. QED BY <1>1, <1>2, <1>3, EnvironmentP DEF Next

\* Only a scan that ends gives the sender something.
LEMMA HandedByScan == ASSUME [Next]_vars PROVE Scan \/ handed' \subseteq handed
<1>1. CASE Working
  BY <1>1 DEF Working, Migrate, Retire, Rebuild, QuarantineUnindexed, Expire, PruneOne,
     Pruned, Tidied, RoomMade, CreateTemp, AlreadyWritten, RenameTemp, Unlink, Ack, Read,
     Fail, callers
<1>2. CASE Environment
  BY <1>2 DEF Environment, Crash, IOError, SyncError, Tick, SetBack, Damage, Fail, callers
<1>3. CASE StartOpen \/ Collecting \/ Sending \/ StartStats \/ UNCHANGED vars
  BY <1>3 DEF StartOpen, Collecting, StartPush, StartRollback, CommitBatch, Sending,
     StartPeek, StartAckHanded, StartReject, DropHanded, StartStats, callers, vars
<1>. QED BY <1>1, <1>2, <1>3 DEF Next

\* Peek hands out the oldest names first and leaves out none whose Push has
\* returned, whatever a restart rebuilt, a clock set back inserted behind the
\* head or a failed file operation left in queue/ (Peek, rewind of activeHead).
THEOREM PeekInOrder == Spec => OldestFirst
<1>1. ASSUME IInv, NInv, PInv, [Next]_vars, NEW h \in handed' \ handed, NEW j \in accepted \ handed',
             j < h, j \in queueDir
      PROVE  FALSE
  <2>1. /\ op.at = "scan" /\ handed' = op.got
        /\ op.todo \cap idx.active = {} \/ Cardinality(op.got) = PeekLimit
    <3>1. Scan \/ handed' \subseteq handed
      BY <1>1, HandedByScan
    <3>. QED BY <1>1, <3>1 DEF Scan
  <2>2. run = "up" /\ op.call = "peek" /\ op \in OpType /\ idx \in IndexType
    BY <1>1, <2>1 DEF PInv, InOrder, Scanning, IInv, CallsOK, TypeOK
  <2>3. j \in idx.active /\ j \in op.todo \cup op.got
    BY <2>1, <2>2, <1>1 DEF PInv, AcceptedIndexed, InOrder, Scanning, InHand, Handling
  <2>4. h < j
    BY <2>1, <2>3, <1>1 DEF PInv, InOrder
  <2>5. h \in Nat /\ j \in Nat
    BY <2>1, <2>2, <2>3, NamesAreNumbers DEF OpType, IndexType
  <2>. QED BY <1>1, <2>4, <2>5
<1>2. IInv /\ NInv /\ PInv /\ [Next]_vars =>
        [\A h \in handed' \ handed, j \in accepted \ handed' :
           (j < h /\ j \in queueDir) => j \in corrupt]_vars
  BY <1>1
<1>3. IInv /\ NInv /\ PInv /\ [Next]_vars => IInv' /\ NInv' /\ PInv'
  BY StepOK, StepN, StepP
<1>4. Init => IInv /\ NInv /\ PInv
  BY InitOK, InitN, InitP
<1>. QED BY <1>2, <1>3, <1>4, PTL DEF Spec, OldestFirst

Late == {id \in Ids : now - Stamp[id] > MaxAge}

Expiring == \/ op.at = "expire"
            \/ op.at \in Handling \cup {"tidy"} /\ op.back = "expire"

\* expireLocked visits every overdue record before Peek begins to scan.
AgeOK ==
  /\ Expiring => idx.active \cap Late \subseteq op.todo \cup InHand
  /\ (Scanning \/ (op.at = "prune" /\ op.call = "peek")) => idx.active \cap Late = {}
  /\ op.got \cap Late = {}

\* A step after which no call expires, scans or is about to scan.
LEMMA NotPeekingA ==
  ASSUME op'.at \notin Handling \cup {"tidy", "scan", "expire", "prune"}, op'.got = {}
  PROVE  AgeOK'
BY DEF AgeOK, Expiring, Scanning

\* A step of a call that keeps what it has in hand and behind it.
LEMMA SameAge ==
  ASSUME AgeOK, now' = now, idx'.active \subseteq idx.active, op'.got = op.got,
         op'.call = op.call,
         Scanning' => Scanning,
         (op'.at = "prune" /\ op'.call = "peek") => idx'.active \cap Late = {},
         Expiring' => Expiring /\ idx'.active \cap (op.todo \cup InHand) \subseteq op'.todo \cup InHand'
  PROVE  AgeOK'
<1>1. Late' = Late
  BY DEF Late
<1>. QED BY <1>1 DEF AgeOK

\* No call, or one that neither expires nor scans.
LEMMA ElsewhereA ==
  ASSUME IInv, PInv, op.at \notin Handling \cup {"tidy", "scan", "expire", "prune"},
         op' = op
  PROVE  AgeOK'
<1>1. op.got = {}
  BY DEF PInv, InOrder, Scanning
<1>. QED BY <1>1, NotPeekingA

LEMMA OverA == ASSUME op' = NoOp PROVE AgeOK'
BY OverOK, NotPeekingA DEF Handling

LEMMA CallsA ==
  ASSUME IInv, PInv, OldestKnown, AgeOK, Collecting \/ Sending \/ StartStats \/ StartOpen
  PROVE  AgeOK'
<1>1. CASE \E call \in {"push", "peek", "stats"} : StartExpiring(call) /\ UNCHANGED <<idx, now>>
  <2>1. op'.at = "expire" /\ op'.todo = Overdue(idx) /\ op'.got = {} /\ op'.back = "idle"
    BY <1>1 DEF StartExpiring, NoOp
  <2>2. idx.active \cap Late \subseteq Overdue(idx)
    <3>1. ASSUME NEW id \in idx.active, now - Stamp[id] > MaxAge PROVE id \in Overdue(idx)
      <4>1. id \in Ids /\ id \in idx.order \ idx.passed
        BY DEF IInv, NothingStranded, TypeOK, IndexType
      <4>2. idx.oldest # 0 /\ idx.oldest <= Stamp[id]
        BY DEF OldestKnown, NoLater
      <4>3. /\ idx.oldest \in Nat /\ Stamp[id] \in Nat /\ now \in Nat /\ MaxAge \in Nat
        BY <4>1, SpoolAssumption DEF IInv, TypeOK, IndexType, Times
      <4>4. ~(now - idx.oldest <= MaxAge)
        BY <3>1, <4>2, <4>3
      <4>. QED BY <3>1, <4>1, <4>2, <4>4 DEF Overdue
    <3>. QED BY <3>1 DEF Late
  <2>3. Late' = Late /\ idx'.active = idx.active
    BY <1>1 DEF Late
  <2>. QED BY <2>1, <2>2, <2>3 DEF AgeOK, Expiring, Scanning, Handling
<1>2. CASE StartAckHanded \/ StartRollback \/ StartReject \/ StartOpen
  <2>1. op'.at \in {"ack", "read", "migrate", "index"} /\ op'.got = {}
    BY <1>2 DEF StartAckHanded, StartRollback, StartReject, StartAck, StartOpen, NoOp
  <2>. QED BY <2>1, NotPeekingA DEF Handling
<1>3. CASE CommitBatch \/ DropHanded
  <2>1. op' = op /\ op.at = "idle"
    BY <1>3 DEF CommitBatch, DropHanded, Idle, IInv, CallsOK
  <2>. QED BY <2>1, ElsewhereA DEF Handling
<1>. QED BY <1>1, <1>2, <1>3 DEF Collecting, Sending, StartPush, StartPeek, StartStats

LEMMA EnvironmentA == ASSUME IInv, PInv, AgeOK, Environment PROVE AgeOK'
<1>1. CASE Crash \/ IOError \/ SyncError
  BY <1>1, OverA DEF Crash, IOError, SyncError, Fail, Return
<1>2. CASE Tick \/ SetBack
  <2>1. op' = op /\ op.at = "idle"
    BY <1>2 DEF Tick, SetBack, IInv, CallsOK
  <2>. QED BY <2>1, ElsewhereA DEF Handling
<1>3. CASE \E id \in Corruptible : Damage(id)
  BY <1>3, SameAge DEF Damage, Scanning, Expiring, InHand, AgeOK
<1>. QED BY <1>1, <1>2, <1>3 DEF Environment

LEMMA OpeningA ==
  ASSUME IInv, PInv, AgeOK, Migrate \/ Retire \/ Rebuild \/ QuarantineUnindexed
  PROVE  AgeOK'
<1>1. /\ op \in OpType /\ op.call = "open" /\ op.back \in {"migrate", "index"} /\ op.got = {}
  BY DEF Migrate, Retire, Rebuild, QuarantineUnindexed, IInv, TypeOK, CallsOK, PInv, InOrder,
     Scanning, Handling
<1>2. /\ op'.call = "open" /\ op'.back \in {"migrate", "index"} /\ op'.got = {}
      /\ op'.at \notin {"expire", "scan"}
  <2>1. CASE Migrate \/ Retire \/ Rebuild
    BY <1>1, <2>1 DEF Migrate, Retire, Rebuild, Goto, OpType
  <2>2. CASE QuarantineUnindexed /\ op.todo = {}
    BY <1>1, <2>2 DEF QuarantineUnindexed, Goto, OpType
  <2>3. CASE QuarantineUnindexed /\ op.todo # {}
    <3>1. PICK id : Visit(id, "index", op.todo \ {id})
      BY <2>3 DEF QuarantineUnindexed
    <3>. QED BY <1>1, <3>1 DEF Visit, OpType
  <2>. QED BY <2>1, <2>2, <2>3
<1>. QED BY <1>2 DEF AgeOK, Expiring, Scanning

LEMMA VisitA ==
  ASSUME IInv, AgeOK, NEW id \in Ids, NEW back \in {"expire", "scan"}, id \in op.todo,
         op.at = back, Visit(id, back, op.todo \ {id}), UNCHANGED <<idx, now>>
  PROVE  AgeOK'
<1>1. /\ op'.at \in {"room", "create"} /\ op'.id = id /\ op'.back = back
      /\ op'.todo = op.todo \ {id} /\ op'.call = op.call /\ op'.got = op.got
  <2>1. op \in OpType
    BY DEF IInv, TypeOK
  <2>2. CASE id \in corrupt
    <3>1. PICK w \in Fresh(DiagIds) : op' = [op EXCEPT !.at = "room", !.id = id, !.w = w,
                                                      !.back = back, !.todo = op.todo \ {id}]
      BY <2>2 DEF Visit
    <3>. QED BY <2>1, <3>1 DEF OpType
  <2>3. CASE id \notin corrupt
    BY <2>1, <2>3 DEF Visit, OpType
  <2>. QED BY <2>2, <2>3
<1>. QED BY <1>1, SameAge DEF Scanning, Expiring, InHand, Handling

LEMMA ExpireA == ASSUME IInv, PInv, AgeOK, Expire PROVE AgeOK'
<1>1. op \in OpType /\ op.at = "expire" /\ now' = now /\ idx \in IndexType
  BY DEF Expire, IInv, TypeOK
<1>2. CASE op.todo = {}
  <2>1. /\ op'.at = "prune" /\ op'.back = op.back /\ op'.got = op.got /\ op'.call = op.call
        /\ idx' = Compact(idx)
    BY <1>1, <1>2 DEF Expire, Goto, OpType
  <2>2. idx'.active = idx.active
    BY <1>1, <2>1, CompactOK
  <2>3. idx.active \cap Late = {}
    BY <1>1, <1>2 DEF AgeOK, Expiring, InHand, Handling
  <2>. QED BY <1>1, <2>1, <2>2, <2>3, SameAge DEF Scanning, Expiring, Handling
<1>3. CASE op.todo # {}
  <2>1. PICK id \in op.todo : id = Min(op.todo)
    BY <1>1, <1>3, LeastName DEF OpType
  <2>2. Visit(id, "expire", op.todo \ {id}) /\ id \in Ids /\ idx' = idx
    BY <1>1, <1>3, <2>1 DEF Expire, OpType
  <2>. QED BY <1>1, <2>1, <2>2, VisitA
<1>. QED BY <1>2, <1>3

LEMMA PruningA == ASSUME IInv, PInv, AgeOK, PruneOne \/ Pruned \/ Tidied PROVE AgeOK'
<1>1. op \in OpType /\ now' = now /\ idx \in IndexType
  BY DEF PruneOne, Pruned, Tidied, IInv, TypeOK
<1>2. CASE PruneOne
  <2>1. Min(Victims) \in Ids
    BY <1>2, VictimsOK, LeastName DEF PruneOne, IInv
  <2>2. idx'.active = idx.active /\ op' = op
    BY <1>1, <1>2, <2>1, RemoveDeadOK DEF PruneOne
  <2>. QED BY <1>1, <2>2, SameAge DEF AgeOK, Scanning, Expiring, InHand
<1>3. CASE Pruned /\ op.call = "push"
  <2>1. PICK id \in Ids : op' = [op EXCEPT !.at = "room", !.id = id, !.w = id, !.back = "push"]
    BY <1>3 DEF Pruned, Fresh, Records
  <2>2. /\ op'.at = "room" /\ op'.back = "push" /\ op'.got = op.got /\ op'.call = "push"
        /\ idx' = idx
    BY <1>1, <1>3, <2>1 DEF OpType, Pruned
  <2>. QED BY <1>1, <1>3, <2>2, SameAge DEF Scanning, Expiring, Handling
<1>4. CASE Pruned /\ op.call = "peek"
  <2>1. /\ op'.at = "scan" /\ op'.back = op.back /\ op'.got = op.got /\ op'.call = "peek"
        /\ idx' = idx /\ op.at = "prune"
    BY <1>1, <1>4 DEF Pruned, OpType
  <2>2. Late' = Late
    BY <1>1 DEF Late
  <2>. QED BY <1>4, <2>1, <2>2 DEF AgeOK, Scanning, Expiring, Handling
<1>5. CASE Pruned /\ op.call \notin {"push", "peek"}
  BY <1>5, OverA DEF Pruned, Return
<1>6. CASE Tidied
  <2>1. /\ op'.at = op.back /\ op'.back = op.back /\ op'.todo = op.todo /\ op'.call = op.call
        /\ op'.got = op.got /\ op.at = "tidy" /\ idx' = idx
    BY <1>1, <1>6 DEF Tidied, Goto, OpType
  <2>2. op.back = "prune" => op.call # "peek"
    BY DEF PInv, InOrder
  <2>. QED BY <1>1, <2>1, <2>2, SameAge DEF Scanning, Expiring, InHand, Handling
<1>. QED BY <1>2, <1>3, <1>4, <1>5, <1>6

LEMMA WritingA ==
  ASSUME IInv, PInv, AgeOK, RoomMade \/ CreateTemp \/ AlreadyWritten \/ RenameTemp
  PROVE  AgeOK'
<1>1. /\ op \in OpType /\ now' = now /\ idx \in IndexType /\ op.at \in Handling
      /\ op.w \in Ids /\ now \in Times \ {0}
  BY DEF RoomMade, CreateTemp, AlreadyWritten, RenameTemp, IInv, TypeOK, StepsOK, Handling
<1>2. CASE op' = NoOp
  BY <1>2, OverA
<1>3. CASE op' = [op EXCEPT !.at = "migrate"] /\ op.back = "migrate"
  <2>1. op'.at = "migrate" /\ op'.got = op.got /\ op'.back = "migrate"
    BY <1>1, <1>3 DEF OpType
  <2>2. op.got = {}
    BY <1>1, <1>3 DEF PInv, InOrder, Scanning, Handling
  <2>. QED BY <2>1, <2>2, NotPeekingA DEF Handling
<1>4. ASSUME NEW at \in {"create", "rename", "unlink"}, op' = [op EXCEPT !.at = at],
             idx'.active = idx.active
      PROVE  AgeOK'
  <2>1. /\ op'.at = at /\ op'.id = op.id /\ op'.back = op.back /\ op'.todo = op.todo
        /\ op'.call = op.call /\ op'.got = op.got
    BY <1>1, <1>4 DEF OpType
  <2>. QED BY <1>1, <1>4, <2>1, SameAge DEF Scanning, Expiring, InHand, Handling
<1>5. CASE RoomMade \/ CreateTemp
  BY <1>2, <1>4, <1>5 DEF RoomMade, CreateTemp, Goto, Fail, Return
<1>6. CASE Written
  <2>1. CASE op.back = "push"
    BY <1>2, <1>6, <2>1 DEF Written, Return
  <2>2. CASE op.back = "migrate"
    BY <1>3, <1>6, <2>2 DEF Written, Goto
  <2>3. CASE op.back \notin {"push", "migrate"}
    <3>1. op' = [op EXCEPT !.at = "unlink"] /\ idx' = InsertDead(idx, op.w, now)
      BY <1>6, <2>3 DEF Written, Goto
    <3>2. idx'.active = idx.active
      BY <1>1, <3>1, InsertDeadOK
    <3>. QED BY <1>4, <3>1, <3>2
  <2>. QED BY <2>1, <2>2, <2>3
<1>. QED BY <1>5, <1>6 DEF AlreadyWritten, RenameTemp

LEMMA UnlinkA == ASSUME IInv, PInv, AgeOK, Unlink PROVE AgeOK'
<1>1. op \in OpType /\ now' = now /\ idx \in IndexType /\ op.at = "unlink" /\ op.id \in Ids
  BY DEF Unlink, IInv, TypeOK, StepsOK
<1>2. /\ op'.at \in {"tidy", op.back} /\ op'.back = op.back /\ op'.todo = op.todo
      /\ op'.call = op.call /\ op'.got = op.got
  BY <1>1 DEF Unlink, Goto, OpType
<1>3. idx'.active = idx.active \ {op.id}
  <2>1. PICK left : left = RemoveActive(idx, op.id)
    OBVIOUS
  <2>2. left.active = idx.active \ {op.id} /\ Compact(left).active = left.active
    BY <1>1, <2>1, RemoveActiveOK, CompactOK
  <2>. QED BY <2>1, <2>2 DEF Unlink
<1>4. op.back = "prune" => op.call # "peek"
  BY DEF PInv, InOrder
<1>. QED BY <1>1, <1>2, <1>3, <1>4, SameAge DEF Scanning, Expiring, InHand, Handling

LEMMA AckReadA == ASSUME IInv, PInv, AgeOK, Ack \/ Read PROVE AgeOK'
<1>1. op \in OpType /\ op.at \in {"ack", "read"} /\ op.got = {}
      /\ (op.at = "read" => op.back = "prune" /\ op.call = "reject")
  BY DEF Ack, Read, IInv, TypeOK, StepsOK, PInv, InOrder, Scanning, Handling
<1>2. CASE op' = NoOp
  BY <1>2, OverA
<1>3. CASE Ack /\ op' # NoOp
  <2>1. op'.at = "ack" /\ op'.got = {}
    BY <1>1, <1>3 DEF Ack, Return, OpType
  <2>. QED BY <2>1, NotPeekingA DEF Handling
<1>4. CASE Read /\ op' # NoOp
  <2>1. op'.at = "create" /\ op'.got = {} /\ op'.back = "prune"
    BY <1>1, <1>4 DEF Read, Fail, Return, Goto, OpType
  <2>. QED BY <2>1 DEF AgeOK, Expiring, Scanning
<1>. QED BY <1>2, <1>3, <1>4

LEMMA ScanA == ASSUME IInv, PInv, AgeOK, Scan PROVE AgeOK'
<1> DEFINE ahead == op.todo \cap idx.active
<1>1. /\ op \in OpType /\ op.at = "scan" /\ now' = now /\ ahead \subseteq Ids
  BY DEF Scan, IInv, TypeOK, OpType
<1>2. CASE ahead = {} \/ Cardinality(op.got) = PeekLimit
  BY <1>2, OverA DEF Scan, Return
<1>3. CASE ~(ahead = {} \/ Cardinality(op.got) = PeekLimit)
  <2>1. PICK id \in ahead : id = Min(ahead)
    BY <1>1, <1>3, LeastName
  <2>2. /\ idx' = idx
        /\ IF id \in corrupt THEN Visit(id, "scan", op.todo \ {id})
           ELSE op' = [op EXCEPT !.todo = op.todo \ {id}, !.got = op.got \cup {id}]
    BY <1>3, <2>1 DEF Scan
  <2>3. id \in Ids /\ id \in op.todo /\ id \in idx.active
    BY <1>1, <2>1
  <2>4. CASE id \in corrupt
    BY <1>1, <2>2, <2>3, <2>4, VisitA
  <2>5. CASE id \notin corrupt
    <3>1. /\ op'.at = "scan" /\ op'.back = op.back /\ op'.call = op.call
          /\ op'.got = op.got \cup {id}
      BY <1>1, <2>2, <2>5 DEF OpType
    <3>2. Late' = Late /\ idx.active \cap Late = {} /\ op.got \cap Late = {}
      BY <1>1 DEF Late, AgeOK, Scanning
    <3>. QED BY <2>2, <2>3, <3>1, <3>2 DEF AgeOK, Expiring, Scanning, Handling
  <2>. QED BY <2>4, <2>5
<1>. QED BY <1>2, <1>3

LEMMA StepA ==
  NamesInOrder /\ IInv /\ PInv /\ OldestKnown /\ AgeOK /\ [Next]_vars => AgeOK'
<1> SUFFICES ASSUME IInv, PInv, OldestKnown, AgeOK, [Next]_vars PROVE AgeOK'
  OBVIOUS
<1>1. CASE Working
  BY <1>1, OpeningA, ExpireA, PruningA, WritingA, UnlinkA, AckReadA, ScanA DEF Working
<1>2. CASE UNCHANGED vars
  BY <1>2, SameAge DEF vars, AgeOK, Expiring, Scanning, InHand
<1>. QED BY <1>1, <1>2, CallsA, EnvironmentA DEF Next

\* A record older than MaxAge is never handed to the sender, because the age kept
\* for the queue, which decides whether expireLocked looks at the records at all,
\* is never later than that of a record in it.
THEOREM PeekIsFresh == NamesInOrder => (Spec => FreshOnly)
<1> SUFFICES ASSUME NamesInOrder PROVE Spec => FreshOnly
  OBVIOUS
<1>1. ASSUME AgeOK, IInv, [Next]_vars, NEW h \in handed' \ handed PROVE now - Stamp[h] <= MaxAge
  <2>1. handed' = op.got /\ op.got \subseteq Ids
    BY <1>1, HandedByScan DEF Scan, IInv, TypeOK, OpType
  <2>2. now \in Nat /\ Stamp[h] \in Nat /\ MaxAge \in Nat
    BY <1>1, <2>1, SpoolAssumption DEF IInv, TypeOK, Times
  <2>3. ~(now - Stamp[h] > MaxAge)
    BY <1>1, <2>1 DEF AgeOK, Late
  <2>. QED BY <2>2, <2>3
<1>2. IInv /\ AgeOK /\ [Next]_vars => [\A h \in handed' \ handed : now - Stamp[h] <= MaxAge]_vars
  BY <1>1
<1>3. IInv /\ NInv /\ PInv /\ OldestKnown /\ AgeOK /\ [Next]_vars =>
        IInv' /\ NInv' /\ PInv' /\ OldestKnown' /\ AgeOK'
  BY StepOK, StepN, StepP, OldestStep, StepA
<1>4. Init => IInv /\ NInv /\ PInv /\ OldestKnown /\ AgeOK
  <2>1. Init => OldestKnown
    BY EmptyIndexOK DEF Init, OldestKnown, NoLater
  <2>2. Init => AgeOK
    <3> SUFFICES ASSUME Init PROVE AgeOK
      OBVIOUS
    <3>1. op.at = "idle" /\ op.got = {}
      BY DEF Init, NoOp
    <3>. QED BY <3>1 DEF AgeOK, Expiring, Scanning, Handling
  <2>. QED BY <2>1, <2>2, InitOK, InitN, InitP
<1>. QED BY <1>2, <1>3, <1>4, PTL DEF Spec, FreshOnly
==============================================================================
