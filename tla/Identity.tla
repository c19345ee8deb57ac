------------------------------- MODULE Identity -------------------------------
(* The recoverable replacement of the agent's mTLS identity                  *)
(* (agent/internal/tlsidentity): SaveEnrollment stages the CA, the client    *)
(* certificate and the metadata, backs the live files up, sets a marker,     *)
(* renames the staged files over the live ones, validates and removes the    *)
(* marker; RecoverEnrollment rolls a marked transaction back.                *)
(*                                                                           *)
(* Every durable file operation is a step, at which the process may die, the *)
(* operation may fail, or its directory sync may fail after the change was   *)
(* made.  Both calls run under file locks that die with the process, so one  *)
(* of them runs at a time, whatever number of processes there is.  The files *)
(* of a loop are handled in any order; the code's is one of them.            *)
EXTENDS Naturals, FiniteSets

CONSTANTS
  Targets,     \* ca.pem, client.pem and enrollment.json
  Versions,    \* the enrolments the server can answer, each a bundle of files
  NoFile,      \* the content of a file that does not exist
  Initial,     \* the bundles an installation can start from
  MarkerSyncFails, \* whether the directory sync after a change of the marker
                   \* may fail, the change being made and reported as an error
  MaxFaults,   \* how many file operations may fail (a bound of the model)
  MaxCrashes   \* how often the process may die (a bound of the model)

Contents == Versions \cup {NoFile}

ASSUME IdentityAssumption ==
  /\ Targets # {} /\ IsFiniteSet(Targets)
  /\ Versions # {} /\ NoFile \notin Versions
  /\ Initial \subseteq [Targets -> Contents]
  /\ MarkerSyncFails \in BOOLEAN
  /\ MaxFaults \in Nat /\ MaxCrashes \in Nat

VARIABLES
  live, stage, backup,   \* the content of each file, of its staged copy, of its backup
  missing,   \* the files whose absence is recorded instead of a backup
  marker,    \* whether the transaction marker exists
  tx,        \* the call that holds the locks
  offered,   \* the bundle SaveEnrollment was last called with
  answer,    \* what it returned, if it has: Committed or not
  before,    \* history: the bundle in force when it was called
  faults, crashes

artifacts == <<stage, backup, missing>>
files  == <<live, artifacts, marker>>
call   == <<offered, answer, before>>
bounds == <<faults, crashes>>
vars   == <<files, tx, call, bounds>>

Whole(v) == [t \in Targets |-> v]
Nothing  == Whole(NoFile)
\* First starts, first starts with one provisioned file, and enrolled agents.
Starts   == {Nothing} \cup UNION {{Whole(v)} \cup {[Nothing EXCEPT ![t] = v] : t \in Targets} : v \in Versions}

\* What recovery makes of the files: the backups, if the marker is there.
BackedUp(t) == backup[t] # NoFile \/ t \in missing
Current     == IF marker THEN backup ELSE live

-------------------------------------------------------------------------------
(* Control: at is the loop the call is in, todo the files it has left, end    *)
(* what happens after a cleanup: the call goes on to stage or returns.        *)

Steps == {"idle", "stage", "backup", "commit", "finish", "restore", "cleanup"}
Ends  == {"stage", "committed", "failed", "recovered"}
Calls == [at : Steps, todo : SUBSET Targets, end : Ends]
NoTx  == [at |-> "idle", todo |-> {}, end |-> "recovered"]

Goto(at, end) == tx' = [at |-> at, todo |-> Targets, end |-> end]
Done(t)       == tx' = [tx EXCEPT !.todo = @ \ {t}]

\* Variant: RecoverEnrollment answers the call it recovers from.
ReturnAny(a) == tx' = NoTx /\ answer' = a

Return(a) == tx' = NoTx /\ answer' = IF a \in {"committed", "failed"} THEN a ELSE answer

\* An error ends the call, which has failed unless only recovery was asked for.
ReturnError == Return(IF tx.end = "recovered" THEN "recovered" ELSE "failed")

\* A file operation works, or it fails: before it changed anything, or after
\* the change, when the sync of the directory fails.
Works      == UNCHANGED bounds
Fault      == faults < MaxFaults /\ faults' = faults + 1 /\ UNCHANGED crashes
MarkerLeft == IF MarkerSyncFails THEN BOOLEAN ELSE {marker}

-------------------------------------------------------------------------------
(* recoverEnrollmentLocked, restoreEnrollmentLocked, cleanupEnrollmentArtifactsLocked *)

\* Variant: the marker is not looked at.
CleanUpOnly(end) == Goto("cleanup", end)

\* What follows the locks in both calls: restore if marked, else clean up.
Recover(end) == Goto(IF marker THEN "restore" ELSE "cleanup", end)

StartRecover ==
  /\ tx.at = "idle" /\ Recover("recovered")
  /\ UNCHANGED <<files, call, bounds>>

StartSave ==
  /\ tx.at = "idle" /\ Recover("stage")
  /\ offered' \in Versions /\ answer' = "none" /\ before' = Current
  /\ UNCHANGED <<files, bounds>>

\* Variant: a file that did not exist is left as the transaction wrote it.
RestoredKept(t) == [live EXCEPT ![t] = IF t \in missing THEN @ ELSE backup[t]]

\* A file is written from its backup, or removed if it did not exist.
Restored(t) == [live EXCEPT ![t] = backup[t]]

Restore(t) ==
  /\ tx.at = "restore" /\ t \in tx.todo /\ BackedUp(t)
  /\ live' = Restored(t) /\ Done(t) /\ Works
  /\ UNCHANGED <<artifacts, marker, call>>

\* The write fails, or "identity transaction backup is incomplete".
RestoreFails(t) ==
  /\ tx.at = "restore" /\ t \in tx.todo
  /\ IF BackedUp(t) THEN Fault /\ live' \in {live, Restored(t)}
                    ELSE UNCHANGED <<live, bounds>>
  /\ ReturnError
  /\ UNCHANGED <<artifacts, marker, offered, before>>

\* All files are restored: the marker goes, and then the artifacts.
Unmark ==
  /\ tx.at = "restore" /\ tx.todo = {}
  /\ marker' = FALSE /\ Goto("cleanup", tx.end) /\ Works
  /\ UNCHANGED <<live, artifacts, call>>

UnmarkFails ==
  /\ tx.at = "restore" /\ tx.todo = {} /\ marker
  /\ Fault /\ marker' \in BOOLEAN /\ ReturnError
  /\ UNCHANGED <<live, artifacts, offered, before>>

\* The three artifacts of a file go one after the other; nothing looks at the
\* state in between.
Cleared(t) ==
  /\ stage' = [stage EXCEPT ![t] = NoFile]
  /\ backup' = [backup EXCEPT ![t] = NoFile]
  /\ missing' = missing \ {t}

CleanUp(t) ==
  /\ tx.at = "cleanup" /\ t \in tx.todo
  /\ Cleared(t) /\ Done(t) /\ Works
  /\ UNCHANGED <<live, marker, call>>

\* The loop goes on after an error, and SaveEnrollment stops after the loop.
CleanUpFails(t) ==
  /\ tx.at = "cleanup" /\ t \in tx.todo
  /\ Fault /\ (UNCHANGED artifacts \/ Cleared(t))
  /\ tx' = [tx EXCEPT !.todo = @ \ {t}, !.end = IF @ = "stage" THEN "failed" ELSE @]
  /\ UNCHANGED <<live, marker, call>>

CleanedUp ==
  /\ tx.at = "cleanup" /\ tx.todo = {}
  /\ IF tx.end = "stage" THEN Goto("stage", "failed") /\ UNCHANGED answer
                         ELSE Return(tx.end)
  /\ UNCHANGED <<files, offered, before, bounds>>

-------------------------------------------------------------------------------
(* saveEnrollment, after the recovery                                        *)

\* An empty or mismatched answer, or another CA, is refused before any write.
Refuse ==
  /\ tx.at = "stage" /\ tx.todo = Targets
  /\ Return("failed")
  /\ UNCHANGED <<files, offered, before, bounds>>

Staged(t) == [stage EXCEPT ![t] = offered]

Stage(t) ==
  /\ tx.at = "stage" /\ t \in tx.todo
  /\ stage' = Staged(t) /\ Done(t) /\ Works
  /\ UNCHANGED <<live, backup, missing, marker, call>>

StageFails(t) ==
  /\ tx.at = "stage" /\ t \in tx.todo
  /\ Fault /\ stage' \in {stage, Staged(t)} /\ Goto("cleanup", "failed")
  /\ UNCHANGED <<live, backup, missing, marker, call>>

\* The staged bundle is validated (key, chain, times: it may be refused) and
\* compared with the live one.
Validate ==
  /\ tx.at = "stage" /\ tx.todo = {}
  /\ \/ Goto("cleanup", "failed")
     \/ stage = live /\ Goto("cleanup", "committed")
     \/ stage # live /\ Goto("backup", "failed")
  /\ UNCHANGED <<files, call, bounds>>

\* Variant: the absence of a file is not recorded.
BackUpPresent(t) == backup' = [backup EXCEPT ![t] = live[t]] /\ UNCHANGED missing

\* prepareEnrollmentBackup
BackUp(t) ==
  IF live[t] = NoFile
    THEN missing' = missing \cup {t} /\ UNCHANGED backup
    ELSE backup' = [backup EXCEPT ![t] = live[t]] /\ UNCHANGED missing

Backup(t) ==
  /\ tx.at = "backup" /\ t \in tx.todo
  /\ BackUp(t) /\ Done(t) /\ Works
  /\ UNCHANGED <<live, stage, marker, call>>

BackupFails(t) ==
  /\ tx.at = "backup" /\ t \in tx.todo
  /\ Fault /\ (UNCHANGED <<backup, missing>> \/ BackUp(t))
  /\ Goto("cleanup", "failed")
  /\ UNCHANGED <<live, stage, marker, call>>

Mark ==
  /\ tx.at = "backup" /\ tx.todo = {}
  /\ marker' = TRUE /\ Goto("commit", "failed") /\ Works
  /\ UNCHANGED <<live, artifacts, call>>

MarkFails ==
  /\ tx.at = "backup" /\ tx.todo = {}
  /\ Fault /\ marker' \in MarkerLeft /\ Goto("cleanup", "failed")
  /\ UNCHANGED <<live, artifacts, call>>

\* The rename of a staged file over the live one.
Renamed(t) ==
  /\ live' = [live EXCEPT ![t] = stage[t]]
  /\ stage' = [stage EXCEPT ![t] = NoFile]

Commit(t) ==
  /\ tx.at = "commit" /\ t \in tx.todo
  /\ Renamed(t) /\ Done(t) /\ Works
  /\ UNCHANGED <<backup, missing, marker, call>>

CommitFails(t) ==
  /\ tx.at = "commit" /\ t \in tx.todo
  /\ Fault /\ (UNCHANGED <<live, stage>> \/ Renamed(t))
  /\ Goto("restore", "failed")
  /\ UNCHANGED <<backup, missing, marker, call>>

\* The committed bundle is loaded and validated again.
Committed ==
  /\ tx.at = "commit" /\ tx.todo = {}
  /\ \/ Goto("finish", "committed")
     \/ Goto("restore", "failed")
  /\ UNCHANGED <<files, call, bounds>>

Finish ==
  /\ tx.at = "finish"
  /\ marker' = FALSE /\ Goto("cleanup", "committed") /\ Works
  /\ UNCHANGED <<live, artifacts, call>>

FinishFails ==
  /\ tx.at = "finish"
  /\ Fault /\ marker' \in MarkerLeft /\ Goto("restore", "failed")
  /\ UNCHANGED <<live, artifacts, call>>

-------------------------------------------------------------------------------
\* The process dies; the files stay as they are.
Crash ==
  /\ tx.at # "idle" /\ crashes < MaxCrashes /\ crashes' = crashes + 1
  /\ tx' = NoTx
  /\ UNCHANGED <<files, call, faults>>

Init ==
  /\ live \in Initial
  /\ stage = Nothing /\ backup = Nothing /\ missing = {} /\ marker = FALSE
  /\ tx = NoTx /\ offered \in Versions /\ answer = "none" /\ before = live
  /\ faults = 0 /\ crashes = 0

FileStep(t) ==
  \/ Restore(t) \/ RestoreFails(t)
  \/ CleanUp(t) \/ CleanUpFails(t)
  \/ Stage(t) \/ StageFails(t)
  \/ Backup(t) \/ BackupFails(t)
  \/ Commit(t) \/ CommitFails(t)

Step ==
  \/ \E t \in Targets : FileStep(t)
  \/ Unmark \/ UnmarkFails \/ CleanedUp
  \/ Refuse \/ Validate \/ Mark \/ MarkFails
  \/ Committed \/ Finish \/ FinishFails

Next == StartRecover \/ StartSave \/ Step \/ Crash

Spec == Init /\ [][Next]_vars

\* A call runs to its end unless the process dies, and RecoverEnrollment is
\* called at every start and by the identity maintenance loop, which calls it
\* again after an error.
LivenessSpec == Spec /\ WF_vars(Step) /\ WF_vars(StartRecover)

-------------------------------------------------------------------------------
DataType ==
  /\ live \in [Targets -> Contents] /\ stage \in [Targets -> Contents]
  /\ backup \in [Targets -> Contents] /\ before \in [Targets -> Contents]
  /\ missing \subseteq Targets /\ marker \in BOOLEAN
  /\ tx \in Calls
  /\ offered \in Versions /\ answer \in {"none", "committed", "failed"}

Bounded == faults \in 0..MaxFaults /\ crashes \in 0..MaxCrashes

TypeOK == DataType /\ Bounded

(* What makes the properties inductive: which loop may run under the marker,  *)
(* and how far each file is when the loop has passed it.                      *)
Clean(t) == backup[t] = NoFile /\ t \notin missing
Saved(t) == backup[t] = live[t] /\ (live[t] = NoFile => t \in missing)

MarkerKept ==
  /\ tx.at \in {"cleanup", "stage", "backup"} => ~marker
  /\ tx.at \in {"commit", "finish", "restore"} => marker
  /\ marker => \A t \in Targets : BackedUp(t)

FilesKept ==
  /\ tx.at = "cleanup" /\ tx.end = "stage" => \A t \in Targets \ tx.todo : Clean(t)
  /\ tx.at = "stage" =>
       \A t \in Targets : Clean(t) /\ (t \notin tx.todo => stage[t] = offered)
  /\ tx.at = "backup" =>
       \A t \in Targets : stage[t] = offered /\ (IF t \in tx.todo THEN Clean(t) ELSE Saved(t))
  /\ tx.at = "commit" =>
       \A t \in Targets : (IF t \in tx.todo THEN stage ELSE live)[t] = offered
  /\ tx.at = "finish" => live = Whole(offered)
  /\ tx.at = "restore" => \A t \in Targets \ tx.todo : live[t] = backup[t]

CallKept ==
  /\ tx.at \in {"stage", "backup", "commit"} => tx.end = "failed"
  /\ tx.at = "finish" => tx.end = "committed"
  /\ tx.at = "restore" => tx.end # "committed"
  /\ tx.at # "idle" /\ tx.end # "recovered" =>
       /\ answer = "none"
       /\ Current = IF tx.at = "cleanup" /\ tx.end = "committed" THEN Whole(offered) ELSE before

(* Between two calls a marked transaction can be rolled back: "RecoverEnrollment *)
(* rolls an interrupted marked transaction back to its last complete identity"  *)
(* (tlsidentity.go:293), for which it needs the backup of every file.           *)
Recoverable == tx.at = "idle" /\ marker => \A t \in Targets : BackedUp(t)

(* What SaveEnrollment returned is true of the files a restart would end up   *)
(* with: Committed means the whole offered bundle, an error that the bundle   *)
(* from before the call is still in force, to the last file.                  *)
AnswerTrue ==
  /\ answer = "committed" => Current = Whole(offered)
  /\ answer = "failed" => Current = before

(* The inductive invariant: at every point between two file operations the    *)
(* backups, the staged files and the marker are far enough along for the      *)
(* next one, which is what the order of the steps in saveEnrollment is for.   *)
IInv == TypeOK /\ MarkerKept /\ FilesKept /\ CallKept /\ AnswerTrue

(* Whatever fails and whenever the process dies, the bundle a restart would   *)
(* end up with changes only as a whole, and only to the one offered last.     *)
Contract == INSTANCE IdentityContract WITH identity <- Current
ImplementsContract == Contract!Spec

(* An interrupted transaction does not stay: the agent's own calls roll it    *)
(* back or finish it.                                                         *)
Recovers == marker ~> ~marker

===============================================================================
