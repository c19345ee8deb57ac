-------------------------------- MODULE KmsStore --------------------------------
(* CastrelSign's key store and the checkpoint beside it (KeyManagementService,    *)
(* KmsBackupTool): every operation appends to a chained audit log, and the place  *)
(* the log has reached is written to a file outside the database before the       *)
(* database commits, so that no older copy of it is ever served.                  *)
(* The hash of an entry covers the entries before it: a checkpoint stands for the *)
(* log up to it.  A log is the sequence of its entries' numbers.                  *)
EXTENDS Naturals, Sequences

CONSTANTS
  MaxEntries,  \* bound: entries of logs, of those that are lost too
  MaxFaults    \* bound: writes that fail

VARIABLES
  file,        \* whether keys.sqlite exists
  db,          \* the log it holds; empty before INITIALIZE, when it is not sealed
  checkpoint,  \* the log the external file stands for; empty if there is no such file
  proc,        \* the service, or the tool: [at, kind, tx], tx the log a transaction will leave
  copies,      \* databases as volume snapshots have them
  archives,    \* logs that the tool's archives hold, each with its checkpoint
  told,        \* history: the log behind the latest answer to a caller
  entries,     \* entries numbered so far
  faults

storeVars == <<file, db, checkpoint, proc, copies, archives, told, entries, faults>>

--------------------------------------------------------------------------------
Resting(at) == [at |-> at, kind |-> "none", tx |-> <<>>]
Down == Resting("down")
Idle == Resting("idle")
Before(s, t) == Len(s) <= Len(t) /\ \A i \in 1 .. Len(s) : s[i] = t[i]
checkCheckpoint == checkpoint # <<>> /\ Before(checkpoint, db)

Init ==
  /\ file = FALSE /\ db = <<>> /\ checkpoint = <<>> /\ proc = Down
  /\ copies = {} /\ archives = {} /\ told = <<>> /\ entries = 0 /\ faults = 0

Fault == faults < MaxFaults /\ faults' = faults + 1
Kept == UNCHANGED <<copies, archives>>
\* A transaction begins and appends its entry to the audit log.
Audit(kind) ==
  /\ entries < MaxEntries /\ entries' = entries + 1
  /\ proc' = [at |-> "barrier", kind |-> kind, tx |-> Append(db, entries')]
\* An operation that failed is audited as an error, once; a refusal or a start is not.
Failed ==
  proc' = IF proc.kind = "boot" THEN Down
          ELSE IF proc.kind = "work" THEN Resting("error") ELSE Idle

--------------------------------------------------------------------------------
\* The first start makes the database, then its first entry.
bootstrap ==
  /\ proc.at = "down" /\ ~ file /\ checkpoint = <<>> /\ file' = TRUE /\ Audit("boot")
  /\ UNCHANGED <<db, checkpoint, told, faults>> /\ Kept
open ==
  /\ proc.at = "down" /\ file /\ db # <<>> /\ checkCheckpoint
  /\ \/ checkpoint' = db /\ proc' = Idle /\ UNCHANGED faults
     \/ checkpoint' \in {checkpoint, db} /\ proc' = proc /\ Fault
  /\ UNCHANGED <<file, db, told, entries>> /\ Kept

read ==
  /\ proc.at = "idle" /\ checkCheckpoint /\ told' = db
  /\ UNCHANGED <<file, db, checkpoint, proc, entries, faults>> /\ Kept
\* operation: work whose caller is told that it was done, or that it was refused.
operation(kind) ==
  /\ proc.at = "idle" /\ checkCheckpoint /\ Audit(kind)
  /\ UNCHANGED <<file, db, checkpoint, told, faults>> /\ Kept
\* The file may be in place although its directory could not be synced.
writeCheckpoint ==
  /\ proc.at = "barrier"
  /\ \/ checkpoint' = proc.tx /\ proc' = [proc EXCEPT !.at = "commit"] /\ UNCHANGED faults
     \/ checkpoint' \in {checkpoint, proc.tx} /\ Failed /\ Fault
  /\ UNCHANGED <<file, db, told, entries>> /\ Kept
\* COMMIT may fail, and may have been made all the same.
commit ==
  /\ proc.at = "commit"
  /\ \/ db' = proc.tx /\ proc' = Idle /\ told' = (IF proc.kind = "error" THEN told ELSE proc.tx) /\ UNCHANGED faults
     \/ db' \in {db, proc.tx} /\ Failed /\ Fault /\ UNCHANGED told
  /\ UNCHANGED <<file, checkpoint, entries>> /\ Kept
auditError ==
  /\ proc.at = "error"
  /\ IF checkCheckpoint THEN Audit("error") ELSE proc' = Idle /\ UNCHANGED entries
  /\ UNCHANGED <<file, db, checkpoint, told, faults>> /\ Kept
\* Closed, or killed: what a commit had begun is made or rolled back.
close ==
  /\ proc.at # "down" /\ proc' = Down
  /\ db' \in (IF proc.at = "commit" THEN {db, proc.tx} ELSE {db})
  /\ UNCHANGED <<file, checkpoint, told, entries, faults>> /\ Kept

--------------------------------------------------------------------------------
(* The operators' side: snapshots of the volume, and KmsBackupTool. *)
Copy ==
  /\ file /\ proc.at \in {"down", "idle"} /\ copies' = copies \cup {db}
  /\ UNCHANGED <<file, db, checkpoint, proc, archives, told, entries, faults>>
PutBack ==
  /\ proc.at = "down" /\ db' \in copies /\ file' = TRUE
  /\ UNCHANGED <<checkpoint, proc, told, entries, faults>> /\ Kept
Lose ==
  /\ proc.at = "down" /\ file' = FALSE /\ db' = <<>>
  /\ UNCHANGED <<checkpoint, proc, told, entries, faults>> /\ Kept
\* The tool opens the store itself: checkpoint and db are the same then (IInv).
create ==
  /\ proc.at = "idle" /\ checkCheckpoint /\ archives' = archives \cup {db}
  /\ UNCHANGED <<file, db, checkpoint, proc, copies, told, entries, faults>>
restore ==
  /\ proc.at = "down" /\ ~ file /\ checkpoint \in archives /\ db' = checkpoint /\ file' = TRUE
  /\ UNCHANGED <<checkpoint, proc, told, entries, faults>> /\ Kept

Next ==
  \/ bootstrap \/ open \/ read \/ \E kind \in {"work", "refusal"} : operation(kind)
  \/ writeCheckpoint \/ commit \/ auditError \/ close
  \/ Copy \/ PutBack \/ Lose \/ create \/ restore

Spec == Init /\ [][Next]_storeVars

--------------------------------------------------------------------------------
\* "No older state is brought back" (KMS_OPERATIONS.md:152, :168): a database that passes
\* the check, which each read and operation makes, has all that somebody was told of, whatever died or failed on the way and whichever copy was put back.
Barrier == checkCheckpoint => Before(told, db)
--------------------------------------------------------------------------------
(* What every reachable state has, besides: the invariant that the proofs keep.   *)
(* What was told is in the checkpoint; while the service runs its database is in  *)
(* the checkpoint too, as a transaction moves the checkpoint first; and what      *)
(* passes the check has the checkpoint in it.                                     *)
Process == [at : {"down", "barrier", "commit", "error", "idle"},
            kind : {"none", "boot", "work", "refusal", "error"}, tx : Seq(Nat)]
Typed ==
  /\ file \in BOOLEAN /\ db \in Seq(Nat) /\ checkpoint \in Seq(Nat) /\ told \in Seq(Nat) /\ entries \in Nat
  /\ proc \in Process
  /\ copies \subseteq Seq(Nat) /\ archives \subseteq Seq(Nat)
IInv ==
  /\ Typed
  /\ file = FALSE => db = <<>> /\ proc.at = "down"
  /\ Before(told, checkpoint)
  /\ proc.at # "down" => Before(db, checkpoint)
  /\ proc.at = "barrier" => Before(checkpoint, proc.tx)
  /\ proc.at = "commit" => checkpoint = proc.tx
================================================================================
