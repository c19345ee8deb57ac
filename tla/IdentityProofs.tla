--------------------------- MODULE IdentityProofs ---------------------------
(* Proofs about Identity, for every set of files and of enrolments and any   *)
(* number of faults and crashes.                                             *)
EXTENDS Identity, TLAPS

(* The variables have their types, whatever the directory syncs do.          *)
LEMMA BoundsInNat == MaxFaults \in Nat /\ MaxCrashes \in Nat
  BY IdentityAssumption

LEMMA TypeInitial == Init => TypeOK
<1>1. Init => live \in [Targets -> Contents]
  BY IdentityAssumption DEF Init
<1>2. Init => stage \in [Targets -> Contents] /\ backup \in [Targets -> Contents]
  BY DEF Init, Nothing, Whole, Contents
<1>3. Init => tx \in Calls
  BY DEF Init, NoTx, Calls, Steps, Ends
<1>4. Init => Bounded
  BY BoundsInNat DEF Init, Bounded
<1>. QED BY <1>1, <1>2, <1>3, <1>4 DEF Init, TypeOK, DataType

\* Every step leaves the bounds alone, is a fault or is a crash.
LEMMA BoundedStep == Bounded /\ [Next]_vars => Bounded'
<1>1. ASSUME Fault, Bounded PROVE Bounded'
  BY <1>1, BoundsInNat DEF Fault, Bounded
<1>2. ASSUME Crash, Bounded PROVE Bounded'
  BY <1>2, BoundsInNat DEF Crash, Bounded
<1>3. ASSUME UNCHANGED bounds, Bounded PROVE Bounded'
  BY <1>3 DEF bounds, Bounded
<1>4. ASSUME NEW t \in Targets, FileStep(t) PROVE Fault \/ UNCHANGED bounds
  BY <1>4 DEF FileStep, Works, bounds, Restore, RestoreFails, CleanUp, CleanUpFails,
       Stage, StageFails, Backup, BackupFails, Commit, CommitFails
<1>5. Step => Fault \/ UNCHANGED bounds
  BY <1>4 DEF Step, Works, Unmark, UnmarkFails, CleanedUp, Refuse, Validate, Mark,
       MarkFails, Committed, Finish, FinishFails
<1>6. ASSUME [Next]_vars PROVE Fault \/ Crash \/ UNCHANGED bounds
  BY <1>5, <1>6 DEF Next, StartRecover, StartSave, vars
<1>. QED BY <1>1, <1>2, <1>3, <1>6

LEMMA GotoTyped ==
  ASSUME NEW at \in Steps, NEW end \in Ends, Goto(at, end) PROVE tx' \in Calls
  BY DEF Goto, Calls

LEMMA NoTxTyped == NoTx \in Calls
  BY DEF NoTx, Calls, Steps, Ends

LEMMA DataStep == DataType /\ [Next]_vars => DataType'
<1>. SUFFICES ASSUME DataType, [Next]_vars PROVE DataType'
  OBVIOUS
<1>. USE DEF DataType, Contents, vars, files, artifacts, call

<1>1. CASE StartRecover
  <2>1. tx' \in Calls
    BY <1>1, GotoTyped DEF StartRecover, Recover, Steps, Ends
  <2>. QED BY <1>1, <2>1 DEF StartRecover
<1>2. CASE StartSave
  <2>1. tx' \in Calls
    BY <1>2, GotoTyped DEF StartSave, Recover, Steps, Ends
  <2>. QED BY <1>2, <2>1 DEF StartSave, Current
<1>3. ASSUME NEW t \in Targets, Restore(t) PROVE DataType'
  BY <1>3 DEF Restore, Restored, Done, BackedUp, Calls
<1>4. ASSUME NEW t \in Targets, RestoreFails(t) PROVE DataType'
  <2>1. tx' \in Calls
    BY <1>4, NoTxTyped DEF RestoreFails, ReturnError, Return, Steps, Ends
  <2>. QED BY <1>4, <2>1 DEF RestoreFails, Restored, ReturnError, Return
<1>5. ASSUME NEW t \in Targets, CleanUp(t) PROVE DataType'
  BY <1>5 DEF CleanUp, Cleared, Done, Calls
<1>6. ASSUME NEW t \in Targets, CleanUpFails(t) PROVE DataType'
  <2>1. tx' \in Calls
    BY <1>6 DEF CleanUpFails, Calls, Ends
  <2>. QED BY <1>6, <2>1 DEF CleanUpFails, Cleared
<1>7. ASSUME NEW t \in Targets, Stage(t) PROVE DataType'
  BY <1>7 DEF Stage, Staged, Done, Calls
<1>8. ASSUME NEW t \in Targets, StageFails(t) PROVE DataType'
  <2>1. tx' \in Calls
    BY <1>8, GotoTyped DEF StageFails, Steps, Ends
  <2>. QED BY <1>8, <2>1 DEF StageFails, Staged
<1>9. ASSUME NEW t \in Targets, Backup(t) PROVE DataType'
  BY <1>9 DEF Backup, BackUp, Done, Calls
<1>10. ASSUME NEW t \in Targets, BackupFails(t) PROVE DataType'
  <2>1. tx' \in Calls
    BY <1>10, GotoTyped DEF BackupFails, Steps, Ends
  <2>. QED BY <1>10, <2>1 DEF BackupFails, BackUp
<1>11. ASSUME NEW t \in Targets, Commit(t) PROVE DataType'
  BY <1>11 DEF Commit, Renamed, Done, Calls
<1>12. ASSUME NEW t \in Targets, CommitFails(t) PROVE DataType'
  <2>1. tx' \in Calls
    BY <1>12, GotoTyped DEF CommitFails, Steps, Ends
  <2>. QED BY <1>12, <2>1 DEF CommitFails, Renamed
<1>13. CASE Unmark
  <2>1. tx' \in Calls
    BY <1>13, GotoTyped DEF Unmark, Calls, Steps, Ends
  <2>. QED BY <1>13, <2>1 DEF Unmark
<1>14. CASE UnmarkFails
  <2>1. tx' \in Calls
    BY <1>14, NoTxTyped DEF UnmarkFails, ReturnError, Return, Steps, Ends
  <2>. QED BY <1>14, <2>1 DEF UnmarkFails, ReturnError, Return
<1>15. CASE CleanedUp
  <2>1. tx' \in Calls
    <3>1. CASE tx.end = "stage"
      BY <1>15, <3>1, GotoTyped DEF CleanedUp, Steps, Ends
    <3>2. CASE tx.end # "stage"
      BY <1>15, <3>2, NoTxTyped DEF CleanedUp, Return
    <3>. QED BY <3>1, <3>2
  <2>. QED BY <1>15, <2>1 DEF CleanedUp, Return
<1>16. CASE Refuse
  <2>1. tx' \in Calls
    BY <1>16, NoTxTyped DEF Refuse, Return, Steps, Ends
  <2>. QED BY <1>16, <2>1 DEF Refuse, Return
<1>17. CASE Validate
  <2>1. tx' \in Calls
    BY <1>17, GotoTyped DEF Validate, Steps, Ends
  <2>. QED BY <1>17, <2>1 DEF Validate
<1>18. CASE Mark
  <2>1. tx' \in Calls
    BY <1>18, GotoTyped DEF Mark, Steps, Ends
  <2>. QED BY <1>18, <2>1 DEF Mark
<1>19. CASE MarkFails
  <2>1. tx' \in Calls
    BY <1>19, GotoTyped DEF MarkFails, Steps, Ends
  <2>. QED BY <1>19, <2>1 DEF MarkFails, MarkerLeft
<1>20. CASE Committed
  <2>1. tx' \in Calls
    BY <1>20, GotoTyped DEF Committed, Steps, Ends
  <2>. QED BY <1>20, <2>1 DEF Committed
<1>21. CASE Finish
  <2>1. tx' \in Calls
    BY <1>21, GotoTyped DEF Finish, Steps, Ends
  <2>. QED BY <1>21, <2>1 DEF Finish
<1>22. CASE FinishFails
  <2>1. tx' \in Calls
    BY <1>22, GotoTyped DEF FinishFails, Steps, Ends
  <2>. QED BY <1>22, <2>1 DEF FinishFails, MarkerLeft
<1>23. CASE Crash
  <2>1. tx' \in Calls
    BY <1>23, NoTxTyped DEF Crash, Steps, Ends
  <2>. QED BY <1>23, <2>1 DEF Crash
<1>24. CASE UNCHANGED vars
  BY <1>24
<1>. QED
  BY <1>1, <1>2, <1>3, <1>4, <1>5, <1>6, <1>7, <1>8, <1>9, <1>10, <1>11, <1>12, <1>13, <1>14, <1>15, <1>16, <1>17, <1>18, <1>19, <1>20, <1>21, <1>22, <1>23, <1>24 DEF Next, Step, FileStep

THEOREM TypeCorrect == Spec => []TypeOK
<1>1. Init => TypeOK
  BY TypeInitial
<1>2. TypeOK /\ [Next]_vars => TypeOK'
  BY BoundedStep, DataStep DEF TypeOK
<1>. QED BY <1>1, <1>2, PTL DEF Spec

-------------------------------------------------------------------------------
(* The inductive invariant, provided that the directory sync after a change  *)
(* of the marker does not fail.                                              *)

LEMMA InductiveInitial == Init => IInv
<1>1. Init => MarkerKept /\ FilesKept /\ CallKept /\ AnswerTrue
  BY DEF Init, NoTx, MarkerKept, FilesKept, CallKept, AnswerTrue
<1>. QED BY <1>1, TypeInitial DEF IInv

\* Where the calls go from the ends of the loops that branch.
LEMMA CleanedUpControl ==
  ASSUME CleanedUp
  PROVE  /\ tx.end = "stage" => /\ tx'.at = "stage" /\ tx'.todo = Targets
                                /\ tx'.end = "failed" /\ answer' = answer
         /\ tx.end # "stage" => tx'.at = "idle"
         /\ tx.end \in {"committed", "failed"} => answer' = tx.end
         /\ tx.end = "recovered" => answer' = answer
<1>1. CASE tx.end = "stage"
  BY <1>1 DEF CleanedUp, Goto
<1>2. CASE tx.end # "stage"
  BY <1>2 DEF CleanedUp, Return, NoTx
<1>. QED BY <1>1, <1>2

LEMMA ValidateControl ==
  Validate => /\ tx'.todo = Targets
              /\ \/ tx'.at = "cleanup" /\ tx'.end = "failed"
                 \/ stage = live /\ tx'.at = "cleanup" /\ tx'.end = "committed"
                 \/ tx'.at = "backup" /\ tx'.end = "failed"
  BY DEF Validate, Goto

LEMMA CommittedControl ==
  Committed => /\ tx'.todo = Targets
               /\ \/ tx'.at = "finish" /\ tx'.end = "committed"
                  \/ tx'.at = "restore" /\ tx'.end = "failed"
  BY DEF Committed, Goto

\* A call gets under the marker with all backups made, and from under it
\* before a backup is removed.
LEMMA MarkerKeptStep ==
  ASSUME MarkerSyncFails = FALSE, IInv, DataType', [Next]_vars
  PROVE  MarkerKept'
<1>. USE DEF IInv, TypeOK, DataType, Calls, MarkerKept, FilesKept, BackedUp, Clean, Saved, vars, files, artifacts
<1>1. CASE StartRecover
  BY <1>1 DEF StartRecover, Recover, Goto
<1>2. CASE StartSave
  BY <1>2 DEF StartSave, Recover, Goto, Current
<1>3. ASSUME NEW t \in Targets, Restore(t) PROVE MarkerKept'
  BY <1>3 DEF Restore, Restored, Done, BackedUp
<1>4. ASSUME NEW t \in Targets, RestoreFails(t) PROVE MarkerKept'
  BY <1>4 DEF RestoreFails, Restored, ReturnError, Return, NoTx
<1>5. ASSUME NEW t \in Targets, CleanUp(t) PROVE MarkerKept'
  BY <1>5 DEF CleanUp, Cleared, Done
<1>6. ASSUME NEW t \in Targets, CleanUpFails(t) PROVE MarkerKept'
  BY <1>6 DEF CleanUpFails, Cleared
<1>7. ASSUME NEW t \in Targets, Stage(t) PROVE MarkerKept'
  BY <1>7 DEF Stage, Staged, Done
<1>8. ASSUME NEW t \in Targets, StageFails(t) PROVE MarkerKept'
  BY <1>8 DEF StageFails, Staged, Goto
<1>9. ASSUME NEW t \in Targets, Backup(t) PROVE MarkerKept'
  BY <1>9 DEF Backup, BackUp, Done
<1>10. ASSUME NEW t \in Targets, BackupFails(t) PROVE MarkerKept'
  BY <1>10 DEF BackupFails, BackUp, Goto
<1>11. ASSUME NEW t \in Targets, Commit(t) PROVE MarkerKept'
  BY <1>11 DEF Commit, Renamed, Done
<1>12. ASSUME NEW t \in Targets, CommitFails(t) PROVE MarkerKept'
  BY <1>12 DEF CommitFails, Renamed, Goto
<1>13. CASE Unmark
  BY <1>13 DEF Unmark, Goto
<1>14. CASE UnmarkFails
  BY <1>14 DEF UnmarkFails, ReturnError, Return, NoTx
<1>15. CASE CleanedUp
  <2>1. ~marker /\ ~marker'
    BY <1>15 DEF CleanedUp
  <2>2. tx'.at \in {"stage", "idle"}
    BY <1>15, CleanedUpControl
  <2>. QED BY <2>1, <2>2
<1>16. CASE Refuse
  BY <1>16 DEF Refuse, Return, NoTx
<1>17. CASE Validate
  BY <1>17 DEF Validate, Goto
<1>18. CASE Mark
  BY <1>18 DEF Mark, Goto
<1>19. CASE MarkFails
  BY <1>19 DEF MarkFails, Goto, MarkerLeft
<1>20. CASE Committed
  BY <1>20 DEF Committed, Goto
<1>21. CASE Finish
  BY <1>21 DEF Finish, Goto
<1>22. CASE FinishFails
  BY <1>22 DEF FinishFails, Goto, MarkerLeft
<1>23. CASE Crash
  BY <1>23 DEF Crash, NoTx
<1>24. CASE UNCHANGED vars
  BY <1>24
<1>. QED
  BY <1>1, <1>2, <1>3, <1>4, <1>5, <1>6, <1>7, <1>8, <1>9, <1>10, <1>11, <1>12,
     <1>13, <1>14, <1>15, <1>16, <1>17, <1>18, <1>19, <1>20, <1>21, <1>22, <1>23, <1>24 DEF Next, Step, FileStep

\* Each loop leaves the files it has passed as the next one needs them.
LEMMA FilesKeptStep ==
  ASSUME MarkerSyncFails = FALSE, IInv, DataType', [Next]_vars
  PROVE  FilesKept'
<1>. USE DEF IInv, TypeOK, DataType, Calls, MarkerKept, FilesKept, BackedUp, Clean, Saved, Whole, vars, files, artifacts, call
<1>1. CASE StartRecover
  BY <1>1 DEF StartRecover, Recover, Goto
<1>2. CASE StartSave
  BY <1>2 DEF StartSave, Recover, Goto, Current
<1>3. ASSUME NEW t \in Targets, Restore(t) PROVE FilesKept'
  BY <1>3 DEF Restore, Restored, Done, BackedUp
<1>4. ASSUME NEW t \in Targets, RestoreFails(t) PROVE FilesKept'
  BY <1>4 DEF RestoreFails, Restored, ReturnError, Return, NoTx
<1>5. ASSUME NEW t \in Targets, CleanUp(t) PROVE FilesKept'
  BY <1>5 DEF CleanUp, Cleared, Done
<1>6. ASSUME NEW t \in Targets, CleanUpFails(t) PROVE FilesKept'
  BY <1>6 DEF CleanUpFails, Cleared
<1>7. ASSUME NEW t \in Targets, Stage(t) PROVE FilesKept'
  BY <1>7 DEF Stage, Staged, Done
<1>8. ASSUME NEW t \in Targets, StageFails(t) PROVE FilesKept'
  BY <1>8 DEF StageFails, Staged, Goto
<1>9. ASSUME NEW t \in Targets, Backup(t) PROVE FilesKept'
  <2>1. tx'.at = "backup" /\ tx'.todo = tx.todo \ {t} /\ UNCHANGED <<live, stage, offered>>
    BY <1>9 DEF Backup, Done
  <2>2. Saved(t)'
    BY <1>9, <2>1 DEF Backup, BackUp
  <2>3. ASSUME NEW u \in Targets, u # t
        PROVE  backup'[u] = backup[u] /\ (u \in missing' <=> u \in missing)
    BY <1>9, <2>3 DEF Backup, BackUp
  <2>. QED BY <1>9, <2>1, <2>2, <2>3 DEF Backup
<1>10. ASSUME NEW t \in Targets, BackupFails(t) PROVE FilesKept'
  BY <1>10 DEF BackupFails, BackUp, Goto
<1>11. ASSUME NEW t \in Targets, Commit(t) PROVE FilesKept'
  BY <1>11 DEF Commit, Renamed, Done
<1>12. ASSUME NEW t \in Targets, CommitFails(t) PROVE FilesKept'
  BY <1>12 DEF CommitFails, Renamed, Goto
<1>13. CASE Unmark
  BY <1>13 DEF Unmark, Goto
<1>14. CASE UnmarkFails
  BY <1>14 DEF UnmarkFails, ReturnError, Return, NoTx
<1>15. CASE CleanedUp
  <2>1. CASE tx.end = "stage"
    <3>1. tx'.at = "stage" /\ tx'.todo = Targets
      BY <1>15, <2>1, CleanedUpControl
    <3>2. \A t \in Targets : Clean(t)'
      BY <1>15, <2>1 DEF CleanedUp
    <3>. QED BY <3>1, <3>2
  <2>2. CASE tx.end # "stage"
    BY <1>15, <2>2, CleanedUpControl
  <2>. QED BY <2>1, <2>2
<1>16. CASE Refuse
  BY <1>16 DEF Refuse, Return, NoTx
<1>17. CASE Validate
  <2>1. CASE tx'.at = "backup"
    BY <1>17, <2>1, ValidateControl DEF Validate
  <2>2. CASE tx'.at = "cleanup" /\ tx'.end # "stage"
    BY <2>2
  <2>. QED BY <1>17, <2>1, <2>2, ValidateControl
<1>18. CASE Mark
  BY <1>18 DEF Mark, Goto
<1>19. CASE MarkFails
  BY <1>19 DEF MarkFails, Goto, MarkerLeft
<1>20. CASE Committed
  <2>1. tx.at = "commit" /\ tx.todo = {} /\ live \in [Targets -> Contents] /\ UNCHANGED <<live, offered>>
    BY <1>20 DEF Committed
  <2>2. live = Whole(offered)
    BY <2>1
  <2>3. CASE tx'.at = "finish"
    BY <2>1, <2>2, <2>3
  <2>4. CASE tx'.at = "restore" /\ tx'.todo = Targets
    BY <2>4
  <2>. QED BY <1>20, <2>3, <2>4, CommittedControl
<1>21. CASE Finish
  BY <1>21 DEF Finish, Goto
<1>22. CASE FinishFails
  BY <1>22 DEF FinishFails, Goto, MarkerLeft
<1>23. CASE Crash
  BY <1>23 DEF Crash, NoTx
<1>24. CASE UNCHANGED vars
  BY <1>24
<1>. QED
  BY <1>1, <1>2, <1>3, <1>4, <1>5, <1>6, <1>7, <1>8, <1>9, <1>10, <1>11, <1>12,
     <1>13, <1>14, <1>15, <1>16, <1>17, <1>18, <1>19, <1>20, <1>21, <1>22, <1>23, <1>24 DEF Next, Step, FileStep

\* The bundle a restart would end up with changes in Finish alone.
LEMMA CurrentStep ==
  ASSUME MarkerSyncFails = FALSE, IInv, DataType', [Next]_vars
  PROVE  \/ Current' = Current
         \/ Finish /\ Current' = Whole(offered)
<1>. USE DEF IInv, TypeOK, DataType, Calls, MarkerKept, FilesKept, BackedUp, Clean, Saved, Whole, Current, vars, files, artifacts, call
<1>1. CASE StartRecover
  BY <1>1 DEF StartRecover, Recover, Goto
<1>2. CASE StartSave
  BY <1>2 DEF StartSave, Recover, Goto, Current
<1>3. ASSUME NEW t \in Targets, Restore(t) PROVE Current' = Current
  BY <1>3 DEF Restore, Restored, Done, BackedUp
<1>4. ASSUME NEW t \in Targets, RestoreFails(t) PROVE Current' = Current
  BY <1>4 DEF RestoreFails, Restored, ReturnError, Return, NoTx
<1>5. ASSUME NEW t \in Targets, CleanUp(t) PROVE Current' = Current
  BY <1>5 DEF CleanUp, Cleared, Done
<1>6. ASSUME NEW t \in Targets, CleanUpFails(t) PROVE Current' = Current
  BY <1>6 DEF CleanUpFails, Cleared
<1>7. ASSUME NEW t \in Targets, Stage(t) PROVE Current' = Current
  BY <1>7 DEF Stage, Staged, Done
<1>8. ASSUME NEW t \in Targets, StageFails(t) PROVE Current' = Current
  BY <1>8 DEF StageFails, Staged, Goto
<1>9. ASSUME NEW t \in Targets, Backup(t) PROVE Current' = Current
  BY <1>9 DEF Backup, BackUp, Done
<1>10. ASSUME NEW t \in Targets, BackupFails(t) PROVE Current' = Current
  BY <1>10 DEF BackupFails, BackUp, Goto
<1>11. ASSUME NEW t \in Targets, Commit(t) PROVE Current' = Current
  BY <1>11 DEF Commit, Renamed, Done
<1>12. ASSUME NEW t \in Targets, CommitFails(t) PROVE Current' = Current
  BY <1>12 DEF CommitFails, Renamed, Goto
<1>13. CASE Unmark
  BY <1>13 DEF Unmark, Goto
<1>14. CASE UnmarkFails
  BY <1>14 DEF UnmarkFails, ReturnError, Return, NoTx
<1>15. CASE CleanedUp
  BY <1>15 DEF CleanedUp, Goto, Return, NoTx
<1>16. CASE Refuse
  BY <1>16 DEF Refuse, Return, NoTx
<1>17. CASE Validate
  BY <1>17 DEF Validate, Goto
<1>18. CASE Mark
  BY <1>18 DEF Mark, Goto
<1>19. CASE MarkFails
  BY <1>19 DEF MarkFails, Goto, MarkerLeft
<1>20. CASE Committed
  BY <1>20 DEF Committed, Goto
<1>21. CASE Finish
  BY <1>21 DEF Finish, Goto
<1>22. CASE FinishFails
  BY <1>22 DEF FinishFails, Goto, MarkerLeft
<1>23. CASE Crash
  BY <1>23 DEF Crash, NoTx
<1>24. CASE UNCHANGED vars
  BY <1>24
<1>. QED
  BY <1>1, <1>2, <1>3, <1>4, <1>5, <1>6, <1>7, <1>8, <1>9, <1>10, <1>11, <1>12,
     <1>13, <1>14, <1>15, <1>16, <1>17, <1>18, <1>19, <1>20, <1>21, <1>22, <1>23, <1>24 DEF Next, Step, FileStep

\* What the call knows of the bundle in force is what it will answer.
LEMMA CallKeptStep ==
  ASSUME MarkerSyncFails = FALSE, IInv, DataType', [Next]_vars
  PROVE  CallKept'
<1>a. tx.at # "finish" \/ tx'.at # "cleanup" => Current' = Current
  <2>1. Finish => tx.at = "finish" /\ tx'.at = "cleanup"
    BY DEF Finish, Goto
  <2>. QED BY <2>1, CurrentStep
<1>b. tx \in Calls /\ CallKept /\ AnswerTrue
  BY DEF IInv, TypeOK, DataType
<1>. USE <1>a, <1>b DEF Calls, CallKept, vars, call
<1>1. CASE StartRecover
  BY <1>1 DEF StartRecover, Recover, Goto
<1>2. CASE StartSave
  BY <1>2 DEF StartSave, Recover, Goto
<1>3. ASSUME NEW t \in Targets, Restore(t) PROVE CallKept'
  BY <1>3 DEF Restore, Restored, Done, BackedUp
<1>4. ASSUME NEW t \in Targets, RestoreFails(t) PROVE CallKept'
  BY <1>4 DEF RestoreFails, Restored, ReturnError, Return, NoTx
<1>5. ASSUME NEW t \in Targets, CleanUp(t) PROVE CallKept'
  <2>1. Whole(offered)' = Whole(offered)
    BY <1>5 DEF CleanUp, Whole
  <2>. QED BY <1>5, <2>1 DEF CleanUp, Done
<1>6. ASSUME NEW t \in Targets, CleanUpFails(t) PROVE CallKept'
  <2>1. Whole(offered)' = Whole(offered)
    BY <1>6 DEF CleanUpFails, Whole
  <2>. QED BY <1>6, <2>1 DEF CleanUpFails
<1>7. ASSUME NEW t \in Targets, Stage(t) PROVE CallKept'
  BY <1>7 DEF Stage, Staged, Done
<1>8. ASSUME NEW t \in Targets, StageFails(t) PROVE CallKept'
  BY <1>8 DEF StageFails, Staged, Goto
<1>9. ASSUME NEW t \in Targets, Backup(t) PROVE CallKept'
  BY <1>9 DEF Backup, BackUp, Done
<1>10. ASSUME NEW t \in Targets, BackupFails(t) PROVE CallKept'
  BY <1>10 DEF BackupFails, BackUp, Goto
<1>11. ASSUME NEW t \in Targets, Commit(t) PROVE CallKept'
  BY <1>11 DEF Commit, Renamed, Done
<1>12. ASSUME NEW t \in Targets, CommitFails(t) PROVE CallKept'
  BY <1>12 DEF CommitFails, Renamed, Goto
<1>13. CASE Unmark
  BY <1>13 DEF Unmark, Goto
<1>14. CASE UnmarkFails
  BY <1>14 DEF UnmarkFails, ReturnError, Return, NoTx
<1>15. CASE CleanedUp
  BY <1>15, CleanedUpControl DEF CleanedUp
<1>16. CASE Refuse
  BY <1>16 DEF Refuse, Return, NoTx
<1>17. CASE Validate
  <2>1. tx'.at = "cleanup" /\ tx'.end = "committed" => Current = Whole(offered)
    <3>1. ~marker /\ stage \in [Targets -> Contents] /\ \A t \in Targets : stage[t] = offered
      BY <1>17 DEF Validate, IInv, TypeOK, DataType, MarkerKept, FilesKept
    <3>. QED BY <1>17, <3>1, ValidateControl DEF Current, Whole
  <2>2. Whole(offered)' = Whole(offered)
    BY <1>17 DEF Validate, Whole
  <2>. QED BY <1>17, <2>1, <2>2, ValidateControl DEF Validate
<1>18. CASE Mark
  BY <1>18 DEF Mark, Goto
<1>19. CASE MarkFails
  BY <1>19 DEF MarkFails, Goto, MarkerLeft
<1>20. CASE Committed
  BY <1>20, CommittedControl DEF Committed
<1>21. CASE Finish
  <2>1. Current' = Whole(offered)
    <3>1. marker' = FALSE /\ live' = live /\ live = Whole(offered)
      BY <1>21 DEF Finish, IInv, FilesKept
    <3>. QED BY <3>1 DEF Current
  <2>2. Whole(offered)' = Whole(offered)
    BY <1>21 DEF Finish, Whole
  <2>. QED BY <1>21, <2>1, <2>2 DEF Finish, Goto
<1>22. CASE FinishFails
  BY <1>22 DEF FinishFails, Goto, MarkerLeft
<1>23. CASE Crash
  BY <1>23 DEF Crash, NoTx
<1>24. CASE UNCHANGED vars
  BY <1>24 DEF Whole
<1>. QED
  BY <1>1, <1>2, <1>3, <1>4, <1>5, <1>6, <1>7, <1>8, <1>9, <1>10, <1>11, <1>12,
     <1>13, <1>14, <1>15, <1>16, <1>17, <1>18, <1>19, <1>20, <1>21, <1>22, <1>23, <1>24 DEF Next, Step, FileStep

LEMMA AnswerTrueStep ==
  ASSUME MarkerSyncFails = FALSE, IInv, DataType', [Next]_vars
  PROVE  AnswerTrue'
<1>a. tx.at # "finish" \/ tx'.at # "cleanup" => Current' = Current
  <2>1. Finish => tx.at = "finish" /\ tx'.at = "cleanup"
    BY DEF Finish, Goto
  <2>. QED BY <2>1, CurrentStep
<1>b. tx \in Calls /\ CallKept /\ AnswerTrue
  BY DEF IInv, TypeOK, DataType
<1>. USE <1>a, <1>b DEF Calls, CallKept, AnswerTrue, Whole, vars, call
<1>1. CASE StartRecover
  BY <1>1 DEF StartRecover, Recover, Goto
<1>2. CASE StartSave
  BY <1>2 DEF StartSave, Recover, Goto
<1>3. ASSUME NEW t \in Targets, Restore(t) PROVE AnswerTrue'
  BY <1>3 DEF Restore, Restored, Done, BackedUp
<1>4. ASSUME NEW t \in Targets, RestoreFails(t) PROVE AnswerTrue'
  BY <1>4 DEF RestoreFails, Restored, ReturnError, Return, NoTx
<1>5. ASSUME NEW t \in Targets, CleanUp(t) PROVE AnswerTrue'
  BY <1>5 DEF CleanUp, Cleared, Done
<1>6. ASSUME NEW t \in Targets, CleanUpFails(t) PROVE AnswerTrue'
  BY <1>6 DEF CleanUpFails, Cleared
<1>7. ASSUME NEW t \in Targets, Stage(t) PROVE AnswerTrue'
  BY <1>7 DEF Stage, Staged, Done
<1>8. ASSUME NEW t \in Targets, StageFails(t) PROVE AnswerTrue'
  BY <1>8 DEF StageFails, Staged, Goto
<1>9. ASSUME NEW t \in Targets, Backup(t) PROVE AnswerTrue'
  BY <1>9 DEF Backup, BackUp, Done
<1>10. ASSUME NEW t \in Targets, BackupFails(t) PROVE AnswerTrue'
  BY <1>10 DEF BackupFails, BackUp, Goto
<1>11. ASSUME NEW t \in Targets, Commit(t) PROVE AnswerTrue'
  BY <1>11 DEF Commit, Renamed, Done
<1>12. ASSUME NEW t \in Targets, CommitFails(t) PROVE AnswerTrue'
  BY <1>12 DEF CommitFails, Renamed, Goto
<1>13. CASE Unmark
  BY <1>13 DEF Unmark, Goto
<1>14. CASE UnmarkFails
  BY <1>14 DEF UnmarkFails, ReturnError, Return, NoTx
<1>15. CASE CleanedUp
  <2>1. Current' = Current /\ Whole(offered)' = Whole(offered) /\ before' = before
    <3>1. tx'.at # "cleanup"
      BY <1>15, CleanedUpControl
    <3>. QED BY <1>15, <3>1 DEF CleanedUp
  <2>2. CASE tx.end \in {"committed", "failed"}
    <3>1. answer' = tx.end /\ Current = IF tx.end = "committed" THEN Whole(offered) ELSE before
      BY <1>15, <2>2, CleanedUpControl DEF CleanedUp
    <3>. QED BY <2>1, <2>2, <3>1
  <2>3. CASE tx.end \in {"stage", "recovered"}
    <3>1. answer' = answer
      BY <1>15, <2>3, CleanedUpControl DEF CleanedUp
    <3>. QED BY <2>1, <3>1
  <2>. QED BY <2>2, <2>3 DEF Ends
<1>16. CASE Refuse
  BY <1>16 DEF Refuse, Return, NoTx
<1>17. CASE Validate
  BY <1>17, ValidateControl DEF Validate
<1>18. CASE Mark
  BY <1>18 DEF Mark, Goto
<1>19. CASE MarkFails
  BY <1>19 DEF MarkFails, Goto, MarkerLeft
<1>20. CASE Committed
  BY <1>20, CommittedControl DEF Committed
<1>21. CASE Finish
  BY <1>21 DEF Finish, Goto
<1>22. CASE FinishFails
  BY <1>22 DEF FinishFails, Goto, MarkerLeft
<1>23. CASE Crash
  BY <1>23 DEF Crash, NoTx
<1>24. CASE UNCHANGED vars
  BY <1>24
<1>. QED
  BY <1>1, <1>2, <1>3, <1>4, <1>5, <1>6, <1>7, <1>8, <1>9, <1>10, <1>11, <1>12,
     <1>13, <1>14, <1>15, <1>16, <1>17, <1>18, <1>19, <1>20, <1>21, <1>22, <1>23, <1>24 DEF Next, Step, FileStep

(* Between any two file operations the artifacts and the marker are far      *)
(* enough along for the next one.                                            *)
THEOREM Inductive == ASSUME MarkerSyncFails = FALSE
                     PROVE  Spec => []IInv
<1>1. IInv /\ [Next]_vars => IInv'
  <2>1. IInv /\ [Next]_vars => DataType' /\ Bounded'
    BY DataStep, BoundedStep DEF IInv, TypeOK
  <2>. QED BY <2>1, MarkerKeptStep, FilesKeptStep, CallKeptStep, AnswerTrueStep DEF IInv, TypeOK
<1>. QED BY <1>1, InductiveInitial, PTL DEF Spec

(* What SaveEnrollment returned stays true of the files, through crashes and *)
(* recoveries, until it is called again.                                     *)
THEOREM AnswersHold == ASSUME MarkerSyncFails = FALSE
                       PROVE  Spec => []AnswerTrue
<1>1. IInv => AnswerTrue
  BY DEF IInv
<1>. QED BY <1>1, Inductive, PTL

(* A marked transaction that no call is working on can be rolled back.       *)
THEOREM AlwaysRecoverable == ASSUME MarkerSyncFails = FALSE
                             PROVE  Spec => []Recoverable
<1>1. IInv => Recoverable
  BY DEF IInv, MarkerKept, Recoverable
<1>. QED BY <1>1, Inductive, PTL

(* The bundle a restart would end up with is only ever replaced as a whole,  *)
(* by the one offered last: Identity implements IdentityContract.            *)
THEOREM Implements == ASSUME MarkerSyncFails = FALSE
                      PROVE  Spec => ImplementsContract
<1>1. Init => Contract!Init
  BY DEF Init, Contract!Init, Current
<1>2. IInv /\ IInv' /\ [Next]_vars => [Contract!Offer \/ Contract!Commit]_<<Current, offered>>
  <2>. SUFFICES ASSUME IInv, IInv', [Next]_vars
                PROVE  [Contract!Offer \/ Contract!Commit]_<<Current, offered>>
    OBVIOUS
  <2>1. CASE Finish
    <3>1. offered' = offered
      BY <2>1 DEF Finish, call
    <3>. QED BY <3>1, CurrentStep DEF IInv, TypeOK, Contract!Commit, Contract!Whole, Whole
  <2>2. CASE ~Finish
    <3>1. Current' = Current
      BY <2>2, CurrentStep DEF IInv, TypeOK
    <3>2. offered' \in Versions
      BY DEF IInv, TypeOK, DataType
    <3>. QED BY <3>1, <3>2 DEF Contract!Offer
  <2>. QED BY <2>1, <2>2
<1>. QED BY <1>1, <1>2, Inductive, PTL DEF Spec, ImplementsContract, Contract!Spec
=============================================================================
