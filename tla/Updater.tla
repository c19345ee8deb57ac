-------------------------------- MODULE Updater --------------------------------
(* The agent's update of itself (agent/internal/updater, and its place in main): *)
(* an update is downloaded, the binary replaced, and the new one has one start in *)
(* which to complete a collection; a start after that puts the old one back.      *)
(* Every durable write is a step; it may fail, and the process may die before it. *)
(* The replacement is that of Unix, where no helper process is needed.            *)
EXTENDS Naturals, Sequences

CONSTANTS
  Binaries,    \* what may be installed
  First,       \* the binary that is installed in the beginning
  SyncFails,   \* whether a write that reports an error may have been made
  MaxUpdates,  \* bound: updates offered
  MaxFaults,   \* bound: operations that fail
  MaxCrashes   \* bound: how often the process dies, or is stopped, unasked

VARIABLES
  target,    \* the content of the executable's path
  previous,  \* the copy of the binary that was replaced, or None
  staged,    \* the updates whose artifacts are in the staging directory
  state,     \* update_state.json: [status, no, to, attempts, passed]
  proc,      \* the agent's process: [bin, at, by, probation, pending, armed, signal]
  attempt,   \* CastrelSign's rows of updates: [to, status], and runs, a history: starts that were let through
  proven,    \* history: the binaries that completed a collection
  gaveUp,    \* history: whether a failed replacement ended a roll-back for good
  left       \* bounds: [faults, crashes]

updaterVars == <<target, previous, staged, state, proc, attempt, proven, gaveUp, left>>

--------------------------------------------------------------------------------
None == "none"
NoState == [status |-> None, no |-> 0, to |-> None, attempts |-> 0, passed |-> FALSE]
Down == [bin |-> None, at |-> "down", by |-> "boot", probation |-> FALSE, pending |-> FALSE, armed |-> FALSE, signal |-> FALSE]

isTerminalStatus == {"APPLIED", "ROLLBACK", "FAILED"}
isReplacementPendingStatus == {"APPLY_INTENT", "APPLYING", "ROLLBACK_INTENT"}
HasPendingApply(s) == s.status \in isReplacementPendingStatus /\ ~ s.passed

Init ==
  /\ target = First /\ previous = None /\ staged = {} /\ state = NoState
  /\ proc = Down /\ attempt = <<>> /\ proven = {First} /\ gaveUp = FALSE
  /\ left = [faults |-> MaxFaults, crashes |-> MaxCrashes]

--------------------------------------------------------------------------------
(* Steps.  Who called is the start, the collection loop or the updater loop:     *)
(* an error ends a start, and is logged by the loops.                            *)
At(label) == [proc EXCEPT !.at = label]
\* The updater loop looks for updates once a pending one is settled.
Up(s) == [proc EXCEPT !.at = "up", !.armed = @ \/ (proc.by = "loop" /\ ~ HasPendingApply(s))]
Ends(s) == IF proc.by = "boot" THEN Down ELSE Up(s)
\* The start is over: the binary is let through.
Running(probation, s) ==
  [proc EXCEPT !.at = "up", !.by = "main", !.probation = probation, !.pending = HasPendingApply(s), !.armed = ~ HasPendingApply(s)]
Let(s) ==
  attempt' = IF proc.bin \notin proven /\ s.no # 0 THEN [attempt EXCEPT ![s.no].runs = @ + 1] ELSE attempt

Fault == left.faults > 0 /\ left' = [left EXCEPT !.faults = @ - 1]
\* A durable write: it is made, or fails, or (SyncFails) is made and reported as failed.
Write(s, good, bad) ==
  \/ state' = s /\ proc' = good /\ UNCHANGED left
  \/ state' = state /\ proc' = bad /\ Fault
  \/ SyncFails /\ state' = s /\ proc' = bad /\ Fault
Replace(file, old, new, good, bad) ==
  \/ file = new /\ proc' = good /\ UNCHANGED left
  \/ file = old /\ proc' = bad /\ Fault
  \/ SyncFails /\ file = new /\ proc' = bad /\ Fault
cleanupTerminalStaging(good, bad) ==
  \/ staged' = {} /\ proc' = good /\ UNCHANGED left
  \/ staged' = staged /\ proc' = bad /\ Fault
\* A report arrives or not; whether the agent is told is another matter.
report(no, status) == attempt' \in {attempt, [attempt EXCEPT ![no].status = status]}

Status(s) == [state EXCEPT !.status = s]
filesHaveSameContent == state.no \in staged /\ state.to = target
Files == UNCHANGED <<target, previous, staged>>
Histories == UNCHANGED <<proven, gaveUp>>
Only == Files /\ UNCHANGED attempt /\ Histories

--------------------------------------------------------------------------------
(* PrepareUpdateStartup: before anything else is loaded. *)
Start ==
  /\ proc.at = "down" /\ UNCHANGED <<state, left>> /\ Files /\ Histories
  /\ LET p == [Down EXCEPT !.bin = target] IN
     IF state.status = "ROLLBACK_INTENT" THEN proc' = [p EXCEPT !.at = "resume"] /\ UNCHANGED attempt
     ELSE IF state.status \in {"APPLY_INTENT", "APPLYING"} THEN proc' = [p EXCEPT !.at = "reconcile"] /\ UNCHANGED attempt
     ELSE /\ proc' = [p EXCEPT !.at = "up", !.by = "main", !.armed = TRUE]
          /\ attempt' = IF target \notin proven /\ state.no # 0 THEN [attempt EXCEPT ![state.no].runs = @ + 1] ELSE attempt

\* reconcileReplacementState: was the binary replaced or not?
Replaced == IF proc.by = "boot" THEN At("probation") ELSE At("report")
\* A start has nobody to report the failure to, and lets the binary through.
Failing ==
  IF proc'.at # "up" THEN UNCHANGED attempt
  ELSE IF proc.by = "boot" THEN Let(state') ELSE report(state.no, "FAILED")
reconcileReplacementState ==
  /\ proc.at = "reconcile" /\ Files /\ Histories
  /\ \/ /\ ~ filesHaveSameContent
        /\ Write(Status("FAILED"), At("failed"), IF proc.by = "boot" /\ state' # state THEN Running(FALSE, state') ELSE Ends(state))
        /\ Failing
     \/ /\ filesHaveSameContent /\ UNCHANGED attempt
        /\ IF state.status = "APPLYING" THEN proc' = Replaced /\ UNCHANGED <<state, left>>
           ELSE Write(Status("APPLYING"), Replaced, Ends(state))
reconciledFailed ==
  /\ proc.at = "failed" /\ UNCHANGED <<target, previous, state>> /\ Histories
  /\ LET on == IF proc.by = "boot" THEN Running(FALSE, state) ELSE Up(state) IN cleanupTerminalStaging(on, on)
  /\ Failing

\* A new binary is let through once; the next start takes it back.
probation ==
  /\ proc.at = "probation" /\ Files /\ Histories
  /\ IF state.passed THEN proc' = Running(FALSE, state) /\ Let(state) /\ UNCHANGED <<state, left>>
     ELSE IF state.attempts = 0
     THEN LET s == [state EXCEPT !.attempts = 1] IN
          \/ Write(s, Running(TRUE, s), Down) /\ (IF proc' = Down THEN UNCHANGED attempt ELSE Let(s))
     ELSE Write(Status("ROLLBACK_INTENT"), [At("resume") EXCEPT !.probation = TRUE], Down) /\ UNCHANGED attempt

\* resumePendingReplacementLocked of a roll-back: by whatever call, until it is done.
resumePendingReplacement ==
  /\ proc.at = "resume" /\ UNCHANGED <<previous, staged, attempt>> /\ Histories
  /\ IF previous = target THEN Write(Status("ROLLBACK"), At("restored"), Ends(state)) /\ UNCHANGED target
     ELSE Replace(target', target, previous, At("rolled"), Ends(state)) /\ UNCHANGED state
rolledBack == proc.at = "rolled" /\ Only /\ Write(Status("ROLLBACK"), At("leave"), Down)
leave ==
  /\ proc.at = "leave" /\ cleanupTerminalStaging(Down, Down)
  /\ UNCHANGED <<target, previous, state, attempt>> /\ Histories
restored ==
  /\ proc.at = "restored" /\ UNCHANGED <<target, previous, state>> /\ Histories
  /\ IF proc.by = "boot"
     THEN cleanupTerminalStaging(IF proc.probation THEN Down ELSE Running(FALSE, state), Down) /\ (IF proc' = Down THEN UNCHANGED attempt ELSE Let(state))
     ELSE cleanupTerminalStaging(Up(state), Up(state)) /\ UNCHANGED attempt

--------------------------------------------------------------------------------
(* The collection loop. *)
\* A collection that was healthy: MarkUpdateStartupHealthy, before anybody is told.
collect ==
  /\ proc.at = "up" /\ proven' = proven \cup {proc.bin} /\ Files /\ UNCHANGED <<attempt, gaveUp>>
  /\ LET on == [proc EXCEPT !.probation = FALSE, !.pending = FALSE, !.signal = TRUE] IN
     IF proc.probation /\ state.status = "APPLYING" /\ ~ state.passed
     THEN IF filesHaveSameContent THEN Write([state EXCEPT !.passed = TRUE], on, Down)
          ELSE proc' = Down /\ UNCHANGED <<state, left>>
     ELSE proc' = on /\ UNCHANGED <<state, left>>
\* Rollback: the first collection of a new binary failed.
Rollback ==
  /\ proc.at = "up" /\ proc.pending /\ UNCHANGED <<target, previous, attempt>> /\ Histories
  /\ \/ state.status = "APPLYING" /\ Write(Status("ROLLBACK_INTENT"), [proc EXCEPT !.at = "undo", !.by = "main"], proc) /\ UNCHANGED staged
     \/ state.status = "ROLLBACK_INTENT" /\ proc' = [proc EXCEPT !.at = "resume", !.by = "main"] /\ UNCHANGED <<state, staged, left>>
     \/ state.status \in isTerminalStatus /\ cleanupTerminalStaging(proc, proc) /\ UNCHANGED state
undo ==
  /\ proc.at = "undo" /\ report(state.no, "ROLLBACK")
  /\ Replace(target', target, previous, At("rolled"), At("fail"))
  /\ gaveUp' = (gaveUp \/ proc'.at = "fail") /\ UNCHANGED <<previous, staged, state, proven>>
\* Under probation the binary may as well end by itself, or its critical collectors fail.
Exit == proc.at = "up" /\ proc.probation /\ proc' = Down /\ Only /\ UNCHANGED <<state, left>>

--------------------------------------------------------------------------------
(* The updater loop: MarkApplied after a collection, CheckAndApply by the timer. *)
MarkApplied ==
  /\ proc.at = "up" /\ proc.signal /\ UNCHANGED <<target, previous, state, attempt>> /\ Histories
  /\ LET p == [proc EXCEPT !.signal = FALSE, !.by = "loop"] IN
     IF state.status = "ROLLBACK_INTENT" THEN proc' = [p EXCEPT !.at = "resume"] /\ UNCHANGED <<staged, left>>
     ELSE IF state.status \in {"APPLY_INTENT", "APPLYING"} THEN proc' = [p EXCEPT !.at = "reconcile"] /\ UNCHANGED <<staged, left>>
     ELSE LET q == [p EXCEPT !.armed = @ \/ ~ HasPendingApply(state)] IN
          IF state.status \in isTerminalStatus THEN cleanupTerminalStaging(q, q) ELSE proc' = q /\ UNCHANGED <<staged, left>>
reportApplied(told) ==
  /\ proc.at = "report" /\ report(state.no, "APPLIED") /\ (told => attempt'[state.no].status = "APPLIED")
  /\ IF told THEN Write(Status("APPLIED"), At("settled"), Up(state)) ELSE proc' = Up(state) /\ UNCHANGED <<state, left>>
  /\ Files /\ Histories
settled ==
  /\ proc.at = "settled" /\ cleanupTerminalStaging(Up(state), Up(state))
  /\ UNCHANGED <<target, previous, state, attempt>> /\ Histories

\* CastrelSign offers a release whose version is not the one that asks.
No == Len(attempt)
check ==
  /\ proc.at = "up" /\ proc.armed /\ No < MaxUpdates
  /\ \E b \in Binaries \ {proc.bin} : attempt' = Append(attempt, [to |-> b, status |-> "OFFERED", runs |-> 0])
  /\ proc' = [proc EXCEPT !.at = "download", !.by = "loop"]
  /\ Files /\ Histories /\ UNCHANGED <<state, left>>
downloadAndVerify ==
  /\ proc.at = "download"
  /\ \/ staged' = staged \cup {No} /\ proc' = At("copy") /\ UNCHANGED <<attempt, left>>
     \/ Fault /\ report(No, "FAILED") /\ proc' = Up(state) /\ UNCHANGED staged
  /\ UNCHANGED <<target, previous, state>> /\ Histories
stageVerifiedArtifact ==
  /\ \/ proc.at = "copy" /\ Replace(previous', previous, target, At("stage"), At("refused")) /\ UNCHANGED <<state, attempt>>
     \/ /\ proc.at = "stage" /\ UNCHANGED <<previous, attempt>>
        /\ Write([NoState EXCEPT !.status = "DOWNLOADED", !.no = No, !.to = attempt[No].to], At("downloaded"), At("refused"))
     \/ proc.at = "refused" /\ report(No, "FAILED") /\ proc' = Up(state) /\ UNCHANGED <<previous, state, left>>
  /\ UNCHANGED <<target, staged>> /\ Histories
reportDownloaded(told) ==
  /\ proc.at = "downloaded" /\ report(No, "DOWNLOADED") /\ (told => attempt'[No].status = "DOWNLOADED")
  /\ proc' = At(IF told THEN "intent" ELSE "fail") /\ UNCHANGED <<state, left>> /\ Files /\ Histories
intent == proc.at = "intent" /\ Write(Status("APPLY_INTENT"), At("apply"), Up(state)) /\ Only
applyUpdate ==
  /\ proc.at = "apply" /\ report(No, "APPLYING")
  /\ Replace(target', target, state.to, At("applied"), At("fail"))
  /\ UNCHANGED <<previous, staged, state>> /\ Histories
applied == proc.at = "applied" /\ Write(Status("APPLYING"), Down, Down) /\ Only
\* failStagedUpdate: staging is cleaned once the failure is on disk.
failStagedUpdate ==
  /\ \/ proc.at = "fail" /\ Write(Status("FAILED"), At("failing"), Up(state)) /\ UNCHANGED staged
     \/ proc.at = "failing" /\ cleanupTerminalStaging(Up(state), Up(state)) /\ UNCHANGED state
  /\ report(state.no, "FAILED") /\ UNCHANGED <<target, previous>> /\ Histories

Crash ==
  /\ proc.at # "down" /\ left.crashes > 0 /\ left' = [left EXCEPT !.crashes = @ - 1]
  /\ proc' = Down /\ UNCHANGED state /\ Only

Next ==
  \/ Start \/ reconcileReplacementState \/ reconciledFailed \/ probation
  \/ resumePendingReplacement \/ rolledBack \/ leave \/ restored
  \/ collect \/ Rollback \/ undo \/ Exit \/ MarkApplied \/ settled
  \/ \E told \in BOOLEAN : reportApplied(told) \/ reportDownloaded(told)
  \/ check \/ downloadAndVerify \/ stageVerifiedArtifact \/ intent \/ applyUpdate \/ applied
  \/ failStagedUpdate \/ Crash

Spec == Init /\ [][Next]_updaterVars

--------------------------------------------------------------------------------
\* "If it starts again without the health mark, the previous binary is put back"
\* (agent/README.md:869): a binary that never completed a collection is on disk only while
\* the state file says so and the binary from before, which did, is there to go back to.
WayBack ==
  target \notin proven =>
    /\ state.status \in isReplacementPendingStatus /\ state.to = target
    /\ previous \in proven
\* An update gets one start in which to prove itself.
OneTrial == \A n \in DOMAIN attempt : attempt[n].runs <= 1
\* What the server is told happened, and what the state file ends on, did happen.
EndsTrue ==
  /\ state.status = "ROLLBACK" => target = previous
  /\ \A n \in DOMAIN attempt :
       /\ attempt[n].status = "APPLIED" => attempt[n].to \in proven
       /\ attempt[n].status = "FAILED" => attempt[n].runs = 0

\* All of it, unless the replacement of a roll-back failed once: Rollback then gives up
\* (failStagedUpdate), where a start would have tried again.
UpdateTrue == ~ gaveUp => WayBack /\ OneTrial /\ EndsTrue

--------------------------------------------------------------------------------
(* What every reachable state has, besides: the invariant that the proofs keep. *)
\* A write that reports an error has not been made, and a binary is not nothing.
UpdaterAssumption == ~ SyncFails /\ First \in Binaries

Statuses == {None, "DOWNLOADED", "APPLY_INTENT", "APPLYING", "ROLLBACK_INTENT"} \cup isTerminalStatus
Rows == [to : Binaries, status : {"OFFERED", "DOWNLOADED", "APPLYING", "APPLIED", "ROLLBACK", "FAILED"}, runs : {0, 1}]
FileStates == [status : Statuses, no : Nat, to : Binaries \cup {None}, attempts : {0, 1}, passed : BOOLEAN]
FileTrue ==
  /\ state \in FileStates
  /\ attempt \in Seq(Rows) /\ state.no \in {0} \cup DOMAIN attempt
  /\ state.status # None => state.no # 0
  /\ state.no # 0 => attempt[state.no].to = state.to /\ previous \in proven
  /\ state.passed => state.to \in proven
  /\ state.status \in {"DOWNLOADED", "APPLY_INTENT", "FAILED"} => state.attempts = 0
  /\ state.no # 0 /\ state.attempts = 0 => attempt[state.no].runs = 0
  /\ state.status = "APPLYING" => state.to = target
  /\ state.status \in {"DOWNLOADED", "APPLY_INTENT", "APPLYING"} => state.no \in staged
  /\ state.no # 0 /\ attempt[state.no].status = "FAILED" => state.status # "APPLYING" /\ (state.status = "APPLY_INTENT" => state.to # target)

\* Where the process is, and what the file then says.
Labels == {"down", "up", "reconcile", "failed", "probation", "resume", "rolled", "leave", "restored", "undo", "report", "settled",
           "download", "copy", "stage", "refused", "downloaded", "intent", "apply", "applied", "fail", "failing"}
Procs == [bin : Binaries \cup {None}, at : Labels, by : {"boot", "main", "loop"}, probation : BOOLEAN, pending : BOOLEAN, armed : BOOLEAN, signal : BOOLEAN]
ProcTrue ==
  /\ proc \in Procs
  /\ proc.at \notin {"down", "applied", "rolled", "leave"} => proc.bin = target
  /\ proc.armed \/ proc.signal \/ proc.by = "loop" => proc.bin \in proven
  /\ proc.at \in {"resume", "undo", "rolled"} => state.status = "ROLLBACK_INTENT"
  /\ proc.at = "rolled" => target = previous
  /\ proc.at \in {"leave", "restored"} => state.status = "ROLLBACK"
  /\ proc.at = "reconcile" => state.status \in {"APPLY_INTENT", "APPLYING"}
  /\ proc.at = "reconcile" => proc.by \in {"boot", "loop"}
  /\ proc.at = "probation" => state.status = "APPLYING" /\ proc.by = "boot"
  /\ proc.at = "report" => state.status = "APPLYING" /\ proc.by = "loop"
  /\ proc.at = "settled" => state.status = "APPLIED"
  /\ proc.at \in {"failed", "failing"} => state.status = "FAILED"
  /\ proc.at \in {"download", "copy", "stage", "refused", "downloaded", "intent", "apply", "applied"} =>
       proc.by = "loop" /\ No # 0 /\ attempt[No].runs = 0 /\ attempt[No].status # "FAILED" /\ attempt[No].to # proc.bin
  /\ proc.at \in {"copy", "stage"} => No \in staged
  /\ proc.at = "stage" => previous \in proven
  /\ proc.at \in {"downloaded", "intent"} => state.status = "DOWNLOADED" /\ state.no = No
  /\ proc.at \in {"apply", "applied"} => state.status = "APPLY_INTENT" /\ state.no = No
  /\ proc.at = "applied" => state.to = target
  /\ proc.at = "fail" => state.status \in {"DOWNLOADED", "APPLY_INTENT"} /\ state.to # target
DiskTrue == target \in Binaries /\ proven \in SUBSET Binaries /\ FileTrue /\ WayBack /\ EndsTrue
UpdateInv == gaveUp \/ (DiskTrue /\ ProcTrue)
================================================================================
