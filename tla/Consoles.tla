------------------------------- MODULE Consoles -------------------------------
(* The web consoles.  What keeps something behind them, which a browser, an agent   *)
(* or an officer asks, is called a server here: CastrelVault's secrets, CastrelSign's *)
(* keys, sessions, services, agents and key store, the commands for the router and   *)
(* the agent that updates itself.  A screen is a view that keeps nothing but what    *)
(* it shows: files, assets, logs, the shell, the overview and Live Tail.  They share *)
(* nothing.  A behaviour of Spec is one of one of them, which part names; the        *)
(* variables are theirs, and those that two of them call alike stand for both, as    *)
(* only one of them runs.                                                            *)
(* ServersTrue and ScreensTrue are what they promise, ServersSafe and ScreensSafe    *)
(* the proofs, for every value of the constants that ServersAssumption and           *)
(* ScreensAssumption allow.  One section a component: its instance, the lemmas about *)
(* its data, one lemma for each step, and the theorem of its own that its            *)
(* specification keeps its promise.  The last section puts the components together.  *)
(* Each component's module has the invariant that is kept.                           *)
EXTENDS Naturals, Sequences, FiniteSetTheorems, WellFoundedInduction, TLAPS

CONSTANTS
  Secrets, Stored, MaxTasks, MaxStarted, MaxVersions,                                 \* of Vault
  MaxVersion, Certificates, Releases, Backups, KeyAdmins, Officers, MaxPending,       \* of SignKeys
  Users, PageSize, MaxStamp, MaxDialogs, MaxRuns,                                     \* of SignConsole
  Services, Permissions, MaxTokens, MaxCsrs, MaxCerts, MaxOpen,                       \* of SignServices
  Binaries, FirstBinary, MaxUpdates, MaxFaults, MaxCrashes,                           \* of Updater
  MaxEntries,                                                                         \* of KmsStore
  Commands, Profiles, RouterServices, MaxJobs, MaxClaims,                             \* of RouterControl
  Agents, EnrolledAgents, Policies, Others, MaxEnrolments, MaxIssued, MaxQueued,      \* of AgentLifecycle
  Roots, Below, DirNames, OnDisk, MaxHandlers, MaxCommands,                           \* of AssetFiles
  FleetAssets, Observed, RouterUids, Ranges, Tabs, Healths, HealthOf, MaxLoads, MaxSaves,  \* of AssetConsole
  Views, Choices, Texts, MaxOffset, MaxAsks,                                          \* of LogViews
  Alerts, Accounts, MaxFleetLoads, MaxAlertUpdates,                                   \* of ConsoleShell
  Reporting, RegisteredHosts, Windows, Queries, Matches, MaxReads, MaxDetails,        \* of Overview
  Sockets, Workers, KeptEvents, MaxEvents, MaxPolls, MaxWire                          \* of LiveTail

VARIABLES
  part,
  row, stored, tasks, started, listed, selectedId, history, dialog,
  version, current, needs, granted, pending,
  stamp, cookie, session, logins, page, load, ask, opened, runs, done,
  service, tokens, csrs, certs, open, release, form,
  router, command, task, clock, claimed, phase, journal, carried, state, config, draft, asked, work,
  status, held, token, policy, list, policiesLoaded, selected, confirm, working, loading,
  target, previous, staged, proc, attempt, proven, gaveUp, left,
  file, db, checkpoint, copies, archives, told, entries, faults,
  disk, late, access, shown, clipboard, back, forward, busy,
  registry, props, range, overview, loads, uid, snapshot, detail, detailLoading, editing, creating, saves, sent,
  tab, binding, routerUid,
  view, key, typed, asks, data, error, active,
  alert, boot, user, refreshing, failed, linking, updates,
  metrics, delayed, query, lostDetail, reads, details,
  enabled, sessions, made, sending, socket, post, connection, timer, paused, events

-------------------------------------------------------------------------------
(* Numbers. *)

\* Of some numbers one is the least.
LEMMA Least == ASSUME NEW T \in SUBSET Nat, T # {} PROVE \E m \in T : \A n \in T : m <= n
<1>1. IsWellFoundedOn(OpToRel(<, Nat), Nat)
  BY NatLessThanWellFounded
<1>2. PICK m \in T : \A n \in T : ~(<<n, m>> \in OpToRel(<, Nat))
  BY <1>1, WFMin
<1>3. \A n \in T : ~(n < m)
  BY <1>2 DEF OpToRel
<1>. QED BY <1>3

-------------------------------------------------------------------------------
(* The agent that updates itself.  DiskTrue says of every point between two         *)
(* operations which of the binaries is where and what the state file says of it,    *)
(* ProcTrue what the process under way holds of both: what it read is what is       *)
(* there, and what it has left to do begins where the disk is.  A write that dies   *)
(* half way leaves the disk in one of those points, so that the next start, whose   *)
(* first step is the reconciliation, is in one of them too.                         *)
SelfUpdate == INSTANCE Updater WITH First <- FirstBinary, SyncFails <- FALSE

LEMMA UpdateImplies == ASSUME SelfUpdate!UpdateInv PROVE SelfUpdate!UpdateTrue
<1> SUFFICES ASSUME ~ gaveUp PROVE SelfUpdate!WayBack /\ SelfUpdate!OneTrial /\ SelfUpdate!EndsTrue
  BY DEF SelfUpdate!UpdateTrue
<1>1. ASSUME NEW n \in DOMAIN attempt PROVE attempt[n].runs <= 1
  <2>1. attempt[n] \in SelfUpdate!Rows
    BY DEF SelfUpdate!UpdateInv, SelfUpdate!DiskTrue, SelfUpdate!FileTrue
  <2>. QED BY <2>1 DEF SelfUpdate!Rows
<1>. QED BY <1>1 DEF SelfUpdate!UpdateInv, SelfUpdate!DiskTrue, SelfUpdate!OneTrial

\* Where a step leaves the process.
LEMMA AtIs ==
  ASSUME proc \in SelfUpdate!Procs, NEW l \in SelfUpdate!Labels, NEW p, p = SelfUpdate!At(l)
  PROVE  /\ p \in SelfUpdate!Procs /\ p.at = l /\ p.bin = proc.bin /\ p.by = proc.by /\ p.armed = proc.armed /\ p.signal = proc.signal
         /\ p.probation = proc.probation /\ p.pending = proc.pending
  BY DEF SelfUpdate!At, SelfUpdate!Procs
LEMMA ProcIs ==
  ASSUME proc \in SelfUpdate!Procs
  PROVE  /\ proc.bin \in Binaries \cup {SelfUpdate!None} /\ proc.at \in SelfUpdate!Labels /\ proc.by \in {"boot", "main", "loop"} /\ proc.probation \in BOOLEAN
         /\ proc.pending \in BOOLEAN /\ proc.armed \in BOOLEAN /\ proc.signal \in BOOLEAN
  BY DEF SelfUpdate!Procs
LEMMA UpIs ==
  ASSUME proc \in SelfUpdate!Procs, NEW s, NEW p, p = SelfUpdate!Up(s)
  PROVE  /\ p \in SelfUpdate!Procs /\ p.at = "up" /\ p.bin = proc.bin /\ p.by = proc.by /\ p.signal = proc.signal
         /\ p.armed => proc.armed \/ (proc.by = "loop" /\ ~ SelfUpdate!HasPendingApply(s))
<1>1. PICK a : a = (proc.armed \/ (proc.by = "loop" /\ ~ SelfUpdate!HasPendingApply(s)))
  OBVIOUS
<1>2. a \in BOOLEAN
  BY <1>1
<1>3. p = [proc EXCEPT !.at = "up", !.armed = a]
  BY <1>1 DEF SelfUpdate!Up
<1>4. p = [bin |-> proc.bin, at |-> "up", by |-> proc.by, probation |-> proc.probation, pending |-> proc.pending, armed |-> a, signal |-> proc.signal]
  BY <1>3 DEF SelfUpdate!Procs
<1>5. p \in SelfUpdate!Procs
  BY <1>2, <1>4, ProcIs DEF SelfUpdate!Procs, SelfUpdate!Labels
<1>6. p.at = "up" /\ p.bin = proc.bin /\ p.by = proc.by /\ p.signal = proc.signal /\ p.armed = a
  BY <1>4
<1>. QED BY <1>1, <1>5, <1>6
LEMMA DownIs == SelfUpdate!Down \in SelfUpdate!Procs /\ SelfUpdate!Down.at = "down" /\ ~ SelfUpdate!Down.armed /\ ~ SelfUpdate!Down.signal /\ SelfUpdate!Down.by = "boot"
  BY DEF SelfUpdate!Down, SelfUpdate!Procs, SelfUpdate!Labels
LEMMA RunningIs ==
  ASSUME proc \in SelfUpdate!Procs, NEW probationary \in BOOLEAN, NEW s, NEW p, p = SelfUpdate!Running(probationary, s)
  PROVE  p \in SelfUpdate!Procs /\ p.at = "up" /\ p.bin = proc.bin /\ p.by = "main" /\ p.signal = proc.signal /\ (p.armed => ~ SelfUpdate!HasPendingApply(s))
<1>1. PICK a : a = SelfUpdate!HasPendingApply(s)
  OBVIOUS
<1>2. a \in BOOLEAN
  BY <1>1 DEF SelfUpdate!HasPendingApply
<1>3. p = [proc EXCEPT !.at = "up", !.by = "main", !.probation = probationary, !.pending = a, !.armed = ~ a]
  BY <1>1 DEF SelfUpdate!Running
<1>4. p = [bin |-> proc.bin, at |-> "up", by |-> "main", probation |-> probationary, pending |-> a, armed |-> ~ a, signal |-> proc.signal]
  BY <1>3 DEF SelfUpdate!Procs
<1>5. p \in SelfUpdate!Procs
  BY <1>2, <1>4, ProcIs DEF SelfUpdate!Procs, SelfUpdate!Labels
<1>6. p.at = "up" /\ p.bin = proc.bin /\ p.by = "main" /\ p.signal = proc.signal /\ p.armed = ~ a
  BY <1>4
<1>. QED BY <1>1, <1>5, <1>6

LEMMA WriteIs ==
  ASSUME SelfUpdate!UpdaterAssumption, NEW s, NEW good, NEW bad, SelfUpdate!Write(s, good, bad)
  PROVE  (state' = s /\ proc' = good) \/ (state' = state /\ proc' = bad)
  BY DEF SelfUpdate!Write, SelfUpdate!UpdaterAssumption
LEMMA ReplaceIs ==
  ASSUME SelfUpdate!UpdaterAssumption, NEW was, NEW old, NEW new, NEW good, NEW bad, SelfUpdate!Replace(was, old, new, good, bad)
  PROVE  (was = new /\ proc' = good) \/ (was = old /\ proc' = bad)
  BY DEF SelfUpdate!Replace, SelfUpdate!UpdaterAssumption
LEMMA CleanupIs ==
  ASSUME NEW good, NEW bad, SelfUpdate!cleanupTerminalStaging(good, bad)
  PROVE  proc' \in {good, bad} /\ staged' \in {staged, {}}
  BY DEF SelfUpdate!cleanupTerminalStaging

LEMMA StatusIs ==
  ASSUME state \in SelfUpdate!FileStates, NEW x \in SelfUpdate!Statuses, NEW s, s = SelfUpdate!Status(x)
  PROVE  s \in SelfUpdate!FileStates /\ s.status = x /\ s.no = state.no /\ s.to = state.to /\ s.attempts = state.attempts /\ s.passed = state.passed
  BY DEF SelfUpdate!Status, SelfUpdate!FileStates

LEMMA ReportIs ==
  ASSUME attempt \in Seq(SelfUpdate!Rows), NEW n \in DOMAIN attempt, NEW x \in {"DOWNLOADED", "APPLYING", "APPLIED", "ROLLBACK", "FAILED"}, SelfUpdate!report(n, x)
  PROVE  /\ attempt' \in Seq(SelfUpdate!Rows) /\ Len(attempt') = Len(attempt) /\ DOMAIN attempt' = DOMAIN attempt
         /\ \A m \in DOMAIN attempt :
              /\ attempt'[m].to = attempt[m].to /\ attempt'[m].runs = attempt[m].runs
              /\ attempt'[m].status = attempt[m].status \/ (m = n /\ attempt'[m].status = x)
<1>1. CASE attempt' = attempt
  BY <1>1
<1>2. CASE attempt' = [attempt EXCEPT ![n].status = x]
  <2>1. PICK r : r = [attempt[n] EXCEPT !.status = x]
    OBVIOUS
  <2>2. attempt[n] \in SelfUpdate!Rows
    OBVIOUS
  <2>3. r \in SelfUpdate!Rows /\ r.to = attempt[n].to /\ r.runs = attempt[n].runs /\ r.status = x
    BY <2>1, <2>2 DEF SelfUpdate!Rows
  <2>4. attempt' = [attempt EXCEPT ![n] = r]
    BY <1>2, <2>1
  <2>5. attempt' \in Seq(SelfUpdate!Rows) /\ Len(attempt') = Len(attempt) /\ DOMAIN attempt' = DOMAIN attempt /\ attempt'[n] = r
        /\ \A m \in DOMAIN attempt : m # n => attempt'[m] = attempt[m]
    BY <2>3, <2>4
  <2>. QED BY <2>3, <2>5
<1>. QED BY <1>1, <1>2 DEF SelfUpdate!report

\* What is on disk, and told, is as it was; staging may have been cleaned of what is over.
LEMMA DiskSame ==
  ASSUME SelfUpdate!DiskTrue, UNCHANGED <<target, previous, state, attempt>>, proven \subseteq proven', proven' \in SUBSET Binaries,
         staged \subseteq staged' \/ state.status \notin {"DOWNLOADED", "APPLY_INTENT", "APPLYING"}
  PROVE  SelfUpdate!DiskTrue'
<1>1. SelfUpdate!FileStates' = SelfUpdate!FileStates /\ SelfUpdate!Rows' = SelfUpdate!Rows
  BY DEF SelfUpdate!FileStates, SelfUpdate!Statuses, SelfUpdate!Rows
<1>2. SelfUpdate!FileTrue'
  BY <1>1 DEF SelfUpdate!DiskTrue, SelfUpdate!FileTrue
<1>3. SelfUpdate!WayBack' /\ SelfUpdate!EndsTrue'
  BY DEF SelfUpdate!DiskTrue, SelfUpdate!WayBack, SelfUpdate!EndsTrue
<1>. QED BY <1>2, <1>3 DEF SelfUpdate!DiskTrue

\* The state file gets another status.
LEMMA DiskStatus ==
  ASSUME SelfUpdate!DiskTrue, UNCHANGED <<target, previous, staged, attempt, proven>>, NEW x \in SelfUpdate!Statuses, state' = SelfUpdate!Status(x), state.no # 0,
         x \in {"DOWNLOADED", "APPLY_INTENT", "FAILED"} => state.attempts = 0,
         x \in {"DOWNLOADED", "APPLY_INTENT", "APPLYING"} => state.no \in staged,
         x = "APPLYING" => state.to = target /\ attempt[state.no].status # "FAILED",
         x = "APPLY_INTENT" /\ attempt[state.no].status = "FAILED" => state.to # target,
         x = "ROLLBACK" => target = previous,
         x \notin SelfUpdate!isReplacementPendingStatus => target \in proven
  PROVE  SelfUpdate!DiskTrue'
<1>1. SelfUpdate!FileStates' = SelfUpdate!FileStates /\ SelfUpdate!Rows' = SelfUpdate!Rows
  BY DEF SelfUpdate!FileStates, SelfUpdate!Statuses, SelfUpdate!Rows
<1>2. state' \in SelfUpdate!FileStates /\ state'.status = x /\ state'.no = state.no /\ state'.to = state.to /\ state'.attempts = state.attempts /\ state'.passed = state.passed
  BY StatusIs DEF SelfUpdate!DiskTrue, SelfUpdate!FileTrue
<1>3. SelfUpdate!FileTrue'
  BY <1>1, <1>2 DEF SelfUpdate!DiskTrue, SelfUpdate!FileTrue
<1>4. SelfUpdate!WayBack' /\ SelfUpdate!EndsTrue'
  BY <1>2 DEF SelfUpdate!DiskTrue, SelfUpdate!WayBack, SelfUpdate!EndsTrue
<1>. QED BY <1>3, <1>4 DEF SelfUpdate!DiskTrue

\* Only what the server was told changes.
LEMMA DiskReport ==
  ASSUME SelfUpdate!DiskTrue, UNCHANGED <<target, previous, state, proven>>,
         staged \subseteq staged' \/ state.status \notin {"DOWNLOADED", "APPLY_INTENT", "APPLYING"}, NEW n \in DOMAIN attempt,
         NEW x \in {"DOWNLOADED", "APPLYING", "APPLIED", "ROLLBACK", "FAILED"}, SelfUpdate!report(n, x),
         x = "APPLIED" => attempt[n].to \in proven, x = "FAILED" => attempt[n].runs = 0,
         x = "FAILED" /\ n = state.no => state.status # "APPLYING" /\ (state.status = "APPLY_INTENT" => state.to # target)
  PROVE  SelfUpdate!DiskTrue'
<1>1. SelfUpdate!FileStates' = SelfUpdate!FileStates /\ SelfUpdate!Rows' = SelfUpdate!Rows
  BY DEF SelfUpdate!FileStates, SelfUpdate!Statuses, SelfUpdate!Rows
<1>2. /\ attempt' \in Seq(SelfUpdate!Rows) /\ Len(attempt') = Len(attempt) /\ DOMAIN attempt' = DOMAIN attempt
      /\ \A m \in DOMAIN attempt :
           /\ attempt'[m].to = attempt[m].to /\ attempt'[m].runs = attempt[m].runs
           /\ attempt'[m].status = attempt[m].status \/ (m = n /\ attempt'[m].status = x)
  BY ReportIs DEF SelfUpdate!DiskTrue, SelfUpdate!FileTrue
<1>3. SelfUpdate!FileTrue'
  BY <1>1, <1>2 DEF SelfUpdate!DiskTrue, SelfUpdate!FileTrue
<1>4. SelfUpdate!WayBack' /\ SelfUpdate!EndsTrue'
  BY <1>2 DEF SelfUpdate!DiskTrue, SelfUpdate!WayBack, SelfUpdate!EndsTrue
<1>. QED BY <1>3, <1>4 DEF SelfUpdate!DiskTrue

\* A binary that is not on trial has proved itself.
LEMMA UpdateSettledIs == ASSUME SelfUpdate!DiskTrue, ~ SelfUpdate!HasPendingApply(state) PROVE target \in proven
  BY DEF SelfUpdate!DiskTrue, SelfUpdate!WayBack, SelfUpdate!FileTrue, SelfUpdate!HasPendingApply
LEMMA NoIs == ASSUME SelfUpdate!DiskTrue, state.status # SelfUpdate!None PROVE state.no \in DOMAIN attempt /\ state.no # 0 /\ previous \in proven
  BY DEF SelfUpdate!DiskTrue, SelfUpdate!FileTrue
LEMMA ProcUp ==
  ASSUME SelfUpdate!DiskTrue', NEW p, proc' = p, p \in SelfUpdate!Procs, p.at = "up", p.bin = target',
         p.armed \/ p.signal \/ p.by = "loop" => p.bin \in proven' \/ ~ SelfUpdate!HasPendingApply(state')
  PROVE  SelfUpdate!ProcTrue'
<1>1. ~ SelfUpdate!HasPendingApply(state') => target' \in proven'
  BY DEF SelfUpdate!DiskTrue, SelfUpdate!WayBack, SelfUpdate!FileTrue, SelfUpdate!HasPendingApply
<1>2. SelfUpdate!Procs' = SelfUpdate!Procs
  BY DEF SelfUpdate!Procs
<1>. QED BY <1>1, <1>2 DEF SelfUpdate!ProcTrue
LEMMA ProcDown == ASSUME proc' = SelfUpdate!Down PROVE SelfUpdate!ProcTrue'
<1>1. SelfUpdate!Procs' = SelfUpdate!Procs
  BY DEF SelfUpdate!Procs
<1>. QED BY <1>1, DownIs DEF SelfUpdate!ProcTrue
\* The end of a call that was not a start, or of a start.
LEMMA EndsUp == ASSUME SelfUpdate!DiskTrue', SelfUpdate!ProcTrue, proc.bin = target', proc' = SelfUpdate!Up(state'), proven \subseteq proven' PROVE SelfUpdate!ProcTrue'
<1>1. PICK p : p = SelfUpdate!Up(state')
  OBVIOUS
<1>2. /\ p \in SelfUpdate!Procs /\ p.at = "up" /\ p.bin = proc.bin /\ p.by = proc.by /\ p.signal = proc.signal
      /\ p.armed => proc.armed \/ (proc.by = "loop" /\ ~ SelfUpdate!HasPendingApply(state'))
  BY <1>1, UpIs DEF SelfUpdate!ProcTrue
<1>3. p.armed \/ p.signal \/ p.by = "loop" => p.bin \in proven' \/ ~ SelfUpdate!HasPendingApply(state')
  BY <1>2 DEF SelfUpdate!ProcTrue
<1>4. proc' = p
  BY <1>1
<1>. QED BY <1>2, <1>3, <1>4, ProcUp
LEMMA EndsRunning == ASSUME SelfUpdate!DiskTrue', SelfUpdate!ProcTrue, proc.bin = target', NEW on \in BOOLEAN, proc' = SelfUpdate!Running(on, state'), proven \subseteq proven' PROVE SelfUpdate!ProcTrue'
<1>1. PICK p : p = SelfUpdate!Running(on, state')
  OBVIOUS
<1>2. p \in SelfUpdate!Procs /\ p.at = "up" /\ p.bin = proc.bin /\ p.by = "main" /\ p.signal = proc.signal /\ (p.armed => ~ SelfUpdate!HasPendingApply(state'))
  BY <1>1, RunningIs DEF SelfUpdate!ProcTrue
<1>3. p.armed \/ p.signal \/ p.by = "loop" => p.bin \in proven' \/ ~ SelfUpdate!HasPendingApply(state')
  BY <1>2 DEF SelfUpdate!ProcTrue
<1>4. proc' = p
  BY <1>1
<1>. QED BY <1>2, <1>3, <1>4, ProcUp

LEMMA UpdateStartOK == ASSUME SelfUpdate!DiskTrue, SelfUpdate!ProcTrue, SelfUpdate!Start PROVE SelfUpdate!DiskTrue' /\ SelfUpdate!ProcTrue'
<1>1. PICK p : p = [SelfUpdate!Down EXCEPT !.bin = target]
  OBVIOUS
<1>2. target \in Binaries
  BY DEF SelfUpdate!DiskTrue
<1>3. p = [bin |-> target, at |-> "down", by |-> "boot", probation |-> FALSE, pending |-> FALSE, armed |-> FALSE, signal |-> FALSE]
  BY <1>1 DEF SelfUpdate!Down
<1>4. UNCHANGED <<state, left, target, previous, staged, proven, gaveUp>>
  BY DEF SelfUpdate!Start, SelfUpdate!Files, SelfUpdate!Histories
<1>5. SelfUpdate!Procs' = SelfUpdate!Procs
  BY DEF SelfUpdate!Procs
<1>6. CASE state.status \in {"ROLLBACK_INTENT", "APPLY_INTENT", "APPLYING"}
  <2>1. attempt' = attempt
    BY <1>6 DEF SelfUpdate!Start
  <2>2. SelfUpdate!DiskTrue'
    BY <1>4, <2>1, DiskSame DEF SelfUpdate!DiskTrue
  <2>3. PICK l \in {"resume", "reconcile"} : /\ proc' = [p EXCEPT !.at = l]
                                             /\ l = "resume" <=> state.status = "ROLLBACK_INTENT"
    BY <1>1, <1>6 DEF SelfUpdate!Start
  <2>4. proc' = [bin |-> target, at |-> l, by |-> "boot", probation |-> FALSE, pending |-> FALSE, armed |-> FALSE, signal |-> FALSE]
    BY <1>3, <2>3
  <2>5. proc' \in SelfUpdate!Procs /\ proc'.at = l /\ proc'.bin = target /\ ~ proc'.armed /\ ~ proc'.signal /\ proc'.by = "boot"
    BY <1>2, <2>4 DEF SelfUpdate!Procs, SelfUpdate!Labels
  <2>6. SelfUpdate!ProcTrue'
    BY <1>4, <1>5, <1>6, <2>3, <2>5 DEF SelfUpdate!ProcTrue
  <2>. QED BY <2>2, <2>6
<1>7. CASE state.status \notin {"ROLLBACK_INTENT", "APPLY_INTENT", "APPLYING"}
  <2>1. target \in proven
    BY <1>7 DEF SelfUpdate!DiskTrue, SelfUpdate!WayBack, SelfUpdate!isReplacementPendingStatus
  <2>2. attempt' = attempt /\ proc' = [p EXCEPT !.at = "up", !.by = "main", !.armed = TRUE]
    BY <1>1, <1>7, <2>1 DEF SelfUpdate!Start
  <2>3. SelfUpdate!DiskTrue'
    BY <1>4, <2>2, DiskSame DEF SelfUpdate!DiskTrue
  <2>4. proc' = [bin |-> target, at |-> "up", by |-> "main", probation |-> FALSE, pending |-> FALSE, armed |-> TRUE, signal |-> FALSE]
    BY <1>3, <2>2
  <2>5. proc' \in SelfUpdate!Procs /\ proc'.at = "up" /\ proc'.bin = target
    BY <1>2, <2>4 DEF SelfUpdate!Procs, SelfUpdate!Labels
  <2>6. SelfUpdate!ProcTrue'
    BY <1>4, <2>1, <2>3, <2>5, ProcUp
  <2>. QED BY <2>3, <2>6
<1>. QED BY <1>6, <1>7

LEMMA ReconcileOK == ASSUME SelfUpdate!UpdaterAssumption, SelfUpdate!DiskTrue, SelfUpdate!ProcTrue, SelfUpdate!reconcileReplacementState PROVE SelfUpdate!DiskTrue' /\ SelfUpdate!ProcTrue'
<1>1. /\ proc.at = "reconcile" /\ UNCHANGED <<target, previous, staged, proven, gaveUp>>
      /\ state.status \in {"APPLY_INTENT", "APPLYING"} /\ proc.by \in {"boot", "loop"} /\ proc.bin = target
  BY DEF SelfUpdate!reconcileReplacementState, SelfUpdate!Files, SelfUpdate!Histories, SelfUpdate!ProcTrue
<1>2. state.no \in DOMAIN attempt /\ state.no # 0 /\ state.no \in staged
  BY <1>1, NoIs DEF SelfUpdate!DiskTrue, SelfUpdate!FileTrue, SelfUpdate!None
<1>3. SelfUpdate!Procs' = SelfUpdate!Procs
  BY DEF SelfUpdate!Procs
<1>4. CASE ~ SelfUpdate!filesHaveSameContent
  <2>1. state.status = "APPLY_INTENT" /\ state.to # target
    BY <1>1, <1>2, <1>4 DEF SelfUpdate!filesHaveSameContent, SelfUpdate!DiskTrue, SelfUpdate!FileTrue
  <2>2. state.attempts = 0 /\ attempt[state.no].runs = 0 /\ target \in proven
    BY <1>2, <2>1 DEF SelfUpdate!DiskTrue, SelfUpdate!FileTrue, SelfUpdate!WayBack
  <2>3. SelfUpdate!Failing
    BY <1>4 DEF SelfUpdate!reconcileReplacementState
  <2>4. CASE state' = SelfUpdate!Status("FAILED") /\ proc' = SelfUpdate!At("failed")
    <3>1. /\ proc' \in SelfUpdate!Procs /\ proc'.at = "failed" /\ proc'.bin = proc.bin /\ proc'.by = proc.by /\ proc'.armed = proc.armed /\ proc'.signal = proc.signal
      BY <2>4, AtIs DEF SelfUpdate!ProcTrue, SelfUpdate!Labels
    <3>2. attempt' = attempt
      BY <2>3, <3>1 DEF SelfUpdate!Failing
    <3>3. "FAILED" \in SelfUpdate!Statuses
      BY DEF SelfUpdate!Statuses, SelfUpdate!isTerminalStatus
    <3>4. SelfUpdate!DiskTrue'
      BY <1>1, <1>2, <2>2, <2>4, <3>2, <3>3, DiskStatus
    <3>5. state'.status = "FAILED"
      BY <2>4, <3>3, StatusIs DEF SelfUpdate!DiskTrue, SelfUpdate!FileTrue
    <3>6. SelfUpdate!ProcTrue'
      BY <1>1, <1>3, <3>1, <3>5 DEF SelfUpdate!ProcTrue
    <3>. QED BY <3>4, <3>6
  <2>5. CASE state' = state /\ proc' = SelfUpdate!Ends(state)
    <3>1. CASE proc.by = "boot"
      <4>1. proc' = SelfUpdate!Down
        BY <2>5, <3>1 DEF SelfUpdate!Ends
      <4>2. attempt' = attempt
        BY <2>3, <4>1, DownIs DEF SelfUpdate!Failing
      <4>. QED BY <1>1, <2>5, <4>1, <4>2, DiskSame, ProcDown DEF SelfUpdate!DiskTrue
    <3>2. CASE proc.by = "loop"
      <4>1. proc' = SelfUpdate!Up(state)
        BY <2>5, <3>2 DEF SelfUpdate!Ends
      <4>2. proc'.at = "up"
        BY <4>1, UpIs DEF SelfUpdate!ProcTrue
      <4>3. SelfUpdate!report(state.no, "FAILED")
        BY <2>3, <3>2, <4>2 DEF SelfUpdate!Failing
      <4>4. SelfUpdate!DiskTrue'
        BY <1>1, <1>2, <2>1, <2>2, <2>5, <4>3, DiskReport
      <4>5. SelfUpdate!ProcTrue'
        BY <1>1, <2>5, <4>1, <4>4, EndsUp
      <4>. QED BY <4>4, <4>5
    <3>. QED BY <1>1, <3>1, <3>2
  <2>6. PICK bad : SelfUpdate!Write(SelfUpdate!Status("FAILED"), SelfUpdate!At("failed"), bad) /\ (state' = state => bad = SelfUpdate!Ends(state))
    BY <1>4 DEF SelfUpdate!reconcileReplacementState
  <2>. QED BY <2>4, <2>5, <2>6, WriteIs
<1>5. CASE SelfUpdate!filesHaveSameContent
  <2>1. attempt' = attempt /\ state.to = target
    BY <1>5 DEF SelfUpdate!reconcileReplacementState, SelfUpdate!filesHaveSameContent
  <2>2. attempt[state.no].status # "FAILED"
    BY <1>1, <1>2, <2>1 DEF SelfUpdate!DiskTrue, SelfUpdate!FileTrue
  <2>3. ASSUME proc' = SelfUpdate!Replaced, state'.status = "APPLYING" PROVE SelfUpdate!ProcTrue'
    <3>1. PICK l \in {"probation", "report"} : /\ proc' = SelfUpdate!At(l)
                                               /\ l = "probation" => proc.by = "boot"
                                               /\ l = "report" => proc.by = "loop"
      BY <1>1, <2>3 DEF SelfUpdate!Replaced
    <3>2. l \in SelfUpdate!Labels
      BY DEF SelfUpdate!Labels
    <3>3. /\ proc' \in SelfUpdate!Procs /\ proc'.at = l /\ proc'.bin = proc.bin /\ proc'.by = proc.by /\ proc'.armed = proc.armed /\ proc'.signal = proc.signal
      BY <3>1, <3>2, AtIs DEF SelfUpdate!ProcTrue
    <3>. QED BY <1>1, <1>3, <2>3, <3>1, <3>3 DEF SelfUpdate!ProcTrue
  <2>4. CASE state.status = "APPLYING"
    <3>1. proc' = SelfUpdate!Replaced /\ state' = state
      BY <1>5, <2>4 DEF SelfUpdate!reconcileReplacementState
    <3>. QED BY <1>1, <2>1, <2>3, <2>4, <3>1, DiskSame DEF SelfUpdate!DiskTrue
  <2>5. CASE state.status # "APPLYING"
    <3>1. SelfUpdate!Write(SelfUpdate!Status("APPLYING"), SelfUpdate!Replaced, SelfUpdate!Ends(state))
      BY <1>5, <2>5 DEF SelfUpdate!reconcileReplacementState
    <3>2. CASE state' = SelfUpdate!Status("APPLYING") /\ proc' = SelfUpdate!Replaced
      <4>1. "APPLYING" \in SelfUpdate!Statuses
        BY DEF SelfUpdate!Statuses
      <4>2. SelfUpdate!DiskTrue'
        BY <1>1, <1>2, <2>1, <2>2, <3>2, <4>1, DiskStatus DEF SelfUpdate!isReplacementPendingStatus
      <4>3. state'.status = "APPLYING"
        BY <3>2, <4>1, StatusIs DEF SelfUpdate!DiskTrue, SelfUpdate!FileTrue
      <4>. QED BY <2>3, <3>2, <4>2, <4>3
    <3>3. CASE state' = state /\ proc' = SelfUpdate!Ends(state)
      <4>1. SelfUpdate!DiskTrue'
        BY <1>1, <2>1, <3>3, DiskSame DEF SelfUpdate!DiskTrue
      <4>2. proc' = SelfUpdate!Down \/ proc' = SelfUpdate!Up(state)
        BY <3>3 DEF SelfUpdate!Ends
      <4>. QED BY <1>1, <3>3, <4>1, <4>2, ProcDown, EndsUp
    <3>. QED BY <3>1, <3>2, <3>3, WriteIs
  <2>. QED BY <2>4, <2>5
<1>. QED BY <1>4, <1>5

LEMMA ReconciledOK == ASSUME SelfUpdate!DiskTrue, SelfUpdate!ProcTrue, SelfUpdate!reconciledFailed PROVE SelfUpdate!DiskTrue' /\ SelfUpdate!ProcTrue'
<1>1. /\ proc.at = "failed" /\ UNCHANGED <<target, previous, state, proven, gaveUp>> /\ state.status = "FAILED" /\ proc.bin = target
      /\ SelfUpdate!Failing
  BY DEF SelfUpdate!reconciledFailed, SelfUpdate!Histories, SelfUpdate!ProcTrue
<1>2. state.no \in DOMAIN attempt /\ state.no # 0 /\ state.attempts = 0 /\ attempt[state.no].runs = 0 /\ target \in proven
  BY <1>1, NoIs DEF SelfUpdate!DiskTrue, SelfUpdate!FileTrue, SelfUpdate!None, SelfUpdate!WayBack, SelfUpdate!isReplacementPendingStatus
<1>3. CASE proc.by = "boot"
  <2>1. proc' = SelfUpdate!Running(FALSE, state)
    BY <1>3 DEF SelfUpdate!reconciledFailed, SelfUpdate!cleanupTerminalStaging
  <2>2. proc'.at = "up"
    BY <2>1, RunningIs DEF SelfUpdate!ProcTrue
  <2>3. attempt' = attempt
    BY <1>1, <1>2, <1>3, <2>2 DEF SelfUpdate!Failing, SelfUpdate!Let
  <2>4. SelfUpdate!DiskTrue'
    BY <1>1, <2>3, DiskSame DEF SelfUpdate!DiskTrue
  <2>. QED BY <1>1, <2>1, <2>4, EndsRunning
<1>4. CASE proc.by # "boot"
  <2>1. proc' = SelfUpdate!Up(state)
    BY <1>4 DEF SelfUpdate!reconciledFailed, SelfUpdate!cleanupTerminalStaging
  <2>2. proc'.at = "up"
    BY <2>1, UpIs DEF SelfUpdate!ProcTrue
  <2>3. SelfUpdate!report(state.no, "FAILED")
    BY <1>1, <1>4, <2>2 DEF SelfUpdate!Failing
  <2>4. SelfUpdate!DiskTrue'
    BY <1>1, <1>2, <2>3, DiskReport
  <2>. QED BY <1>1, <2>1, <2>4, EndsUp
<1>. QED BY <1>3, <1>4

LEMMA ProbationOK == ASSUME SelfUpdate!UpdaterAssumption, SelfUpdate!DiskTrue, SelfUpdate!ProcTrue, SelfUpdate!probation PROVE SelfUpdate!DiskTrue' /\ SelfUpdate!ProcTrue'
<1>1. /\ proc.at = "probation" /\ UNCHANGED <<target, previous, staged, proven, gaveUp>> /\ state.status = "APPLYING" /\ proc.bin = target
  BY DEF SelfUpdate!probation, SelfUpdate!Files, SelfUpdate!Histories, SelfUpdate!ProcTrue
<1>2. state.no \in DOMAIN attempt /\ state.no # 0 /\ state.to = target /\ state \in SelfUpdate!FileStates /\ attempt \in Seq(SelfUpdate!Rows)
  BY <1>1, NoIs DEF SelfUpdate!DiskTrue, SelfUpdate!FileTrue, SelfUpdate!None
<1>3. SelfUpdate!Procs' = SelfUpdate!Procs /\ SelfUpdate!FileStates' = SelfUpdate!FileStates /\ SelfUpdate!Rows' = SelfUpdate!Rows
  BY DEF SelfUpdate!Procs, SelfUpdate!FileStates, SelfUpdate!Statuses, SelfUpdate!Rows
<1>4. CASE state.passed
  <2>1. state' = state /\ proc' = SelfUpdate!Running(FALSE, state) /\ SelfUpdate!Let(state)
    BY <1>4 DEF SelfUpdate!probation
  <2>2. proc.bin \in proven
    BY <1>1, <1>2, <1>4 DEF SelfUpdate!DiskTrue, SelfUpdate!FileTrue
  <2>3. attempt' = attempt
    BY <2>1, <2>2 DEF SelfUpdate!Let
  <2>4. SelfUpdate!DiskTrue'
    BY <1>1, <2>1, <2>3, DiskSame DEF SelfUpdate!DiskTrue
  <2>. QED BY <1>1, <2>1, <2>4, EndsRunning
<1>5. CASE ~ state.passed /\ state.attempts = 0
  <2>1. PICK s : s = [state EXCEPT !.attempts = 1]
    OBVIOUS
  <2>2. s \in SelfUpdate!FileStates /\ s.status = "APPLYING" /\ s.no = state.no /\ s.to = state.to /\ s.attempts = 1 /\ s.passed = state.passed
    BY <1>1, <1>2, <2>1 DEF SelfUpdate!FileStates
  <2>3. SelfUpdate!Write(s, SelfUpdate!Running(TRUE, s), SelfUpdate!Down) /\ (IF proc' = SelfUpdate!Down THEN UNCHANGED attempt ELSE SelfUpdate!Let(s))
    BY <1>5, <2>1 DEF SelfUpdate!probation
  <2>4. CASE state' = s /\ proc' = SelfUpdate!Running(TRUE, s)
    <3>1. proc' # SelfUpdate!Down
      BY <2>4, RunningIs, DownIs DEF SelfUpdate!ProcTrue
    <3>2. SelfUpdate!Let(s)
      BY <2>3, <3>1
    <3>3. CASE attempt' = attempt
      <4>1. proc.bin \in proven \/ attempt'[state.no].runs = attempt[state.no].runs
        BY <3>3
      <4>2. SelfUpdate!FileTrue'
        BY <1>1, <1>2, <1>3, <2>2, <2>4, <3>3 DEF SelfUpdate!DiskTrue, SelfUpdate!FileTrue
      <4>3. SelfUpdate!WayBack' /\ SelfUpdate!EndsTrue'
        BY <1>1, <1>2, <2>2, <2>4, <3>3 DEF SelfUpdate!DiskTrue, SelfUpdate!WayBack, SelfUpdate!EndsTrue
      <4>4. SelfUpdate!DiskTrue'
        BY <1>1, <4>2, <4>3 DEF SelfUpdate!DiskTrue
      <4>. QED BY <1>1, <2>4, <4>4, EndsRunning
    <3>4. CASE attempt' # attempt
      <4>1. attempt' = [attempt EXCEPT ![s.no].runs = @ + 1] /\ proc.bin \notin proven
        BY <3>2, <3>4 DEF SelfUpdate!Let
      <4>2. PICK r : r = [attempt[state.no] EXCEPT !.runs = @ + 1]
        OBVIOUS
      <4>3. attempt[state.no] \in SelfUpdate!Rows /\ attempt[state.no].runs = 0
        BY <1>2, <1>5 DEF SelfUpdate!DiskTrue, SelfUpdate!FileTrue
      <4>4. r \in SelfUpdate!Rows /\ r.to = attempt[state.no].to /\ r.status = attempt[state.no].status /\ r.runs = 1
        BY <4>2, <4>3 DEF SelfUpdate!Rows
      <4>5. attempt' = [attempt EXCEPT ![state.no] = r]
        BY <2>2, <4>1, <4>2
      <4>6. /\ attempt' \in Seq(SelfUpdate!Rows) /\ DOMAIN attempt' = DOMAIN attempt /\ attempt'[state.no] = r
            /\ \A m \in DOMAIN attempt : m # state.no => attempt'[m] = attempt[m]
        BY <1>2, <4>4, <4>5
      <4>7. attempt[state.no].status # "FAILED"
        BY <1>1, <1>2 DEF SelfUpdate!DiskTrue, SelfUpdate!FileTrue
      <4>8. SelfUpdate!FileTrue'
        BY <1>1, <1>2, <1>3, <2>2, <2>4, <4>4, <4>6, <4>7 DEF SelfUpdate!DiskTrue, SelfUpdate!FileTrue
      <4>9. SelfUpdate!WayBack' /\ SelfUpdate!EndsTrue'
        BY <1>1, <1>2, <2>2, <2>4, <4>4, <4>6, <4>7 DEF SelfUpdate!DiskTrue, SelfUpdate!WayBack, SelfUpdate!EndsTrue
      <4>10. SelfUpdate!DiskTrue'
        BY <1>1, <4>8, <4>9 DEF SelfUpdate!DiskTrue
      <4>. QED BY <1>1, <2>4, <4>10, EndsRunning
    <3>. QED BY <3>3, <3>4
  <2>5. CASE state' = state /\ proc' = SelfUpdate!Down
    <3>1. attempt' = attempt
      BY <2>3, <2>5
    <3>. QED BY <1>1, <2>5, <3>1, DiskSame, ProcDown DEF SelfUpdate!DiskTrue
  <2>. QED BY <2>3, <2>4, <2>5, WriteIs
<1>6. CASE ~ state.passed /\ state.attempts # 0
  <2>1. PICK p : p = [SelfUpdate!At("resume") EXCEPT !.probation = TRUE]
    OBVIOUS
  <2>2. SelfUpdate!Write(SelfUpdate!Status("ROLLBACK_INTENT"), p, SelfUpdate!Down) /\ attempt' = attempt
    BY <1>6, <2>1 DEF SelfUpdate!probation
  <2>3. CASE state' = SelfUpdate!Status("ROLLBACK_INTENT") /\ proc' = p
    <3>1. "ROLLBACK_INTENT" \in SelfUpdate!Statuses /\ "ROLLBACK_INTENT" \in SelfUpdate!isReplacementPendingStatus
      BY DEF SelfUpdate!Statuses, SelfUpdate!isReplacementPendingStatus
    <3>2. SelfUpdate!DiskTrue'
      BY <1>1, <1>2, <2>2, <2>3, <3>1, DiskStatus
    <3>3. state'.status = "ROLLBACK_INTENT"
      BY <1>2, <2>3, <3>1, StatusIs
    <3>4. PICK q : q = SelfUpdate!At("resume")
      OBVIOUS
    <3>5. /\ q \in SelfUpdate!Procs /\ q.at = "resume" /\ q.bin = proc.bin /\ q.by = proc.by /\ q.armed = proc.armed /\ q.signal = proc.signal
      BY <3>4, AtIs DEF SelfUpdate!ProcTrue, SelfUpdate!Labels
    <3>6. p \in SelfUpdate!Procs /\ p.at = "resume" /\ p.bin = proc.bin /\ p.by = proc.by /\ p.armed = proc.armed /\ p.signal = proc.signal
      BY <2>1, <3>4, <3>5 DEF SelfUpdate!Procs
    <3>7. SelfUpdate!ProcTrue'
      BY <1>1, <1>3, <2>3, <3>3, <3>6 DEF SelfUpdate!ProcTrue
    <3>. QED BY <3>2, <3>7
  <2>4. CASE state' = state /\ proc' = SelfUpdate!Down
    BY <1>1, <2>2, <2>4, DiskSame, ProcDown DEF SelfUpdate!DiskTrue
  <2>. QED BY <2>2, <2>3, <2>4, WriteIs
<1>. QED BY <1>2, <1>4, <1>5, <1>6 DEF SelfUpdate!FileStates

LEMMA ResumeOK == ASSUME SelfUpdate!UpdaterAssumption, SelfUpdate!DiskTrue, SelfUpdate!ProcTrue, SelfUpdate!resumePendingReplacement PROVE SelfUpdate!DiskTrue' /\ SelfUpdate!ProcTrue'
<1>1. /\ proc.at = "resume" /\ UNCHANGED <<previous, staged, attempt, proven, gaveUp>> /\ state.status = "ROLLBACK_INTENT" /\ proc.bin = target
  BY DEF SelfUpdate!resumePendingReplacement, SelfUpdate!Histories, SelfUpdate!ProcTrue
<1>2. state.no \in DOMAIN attempt /\ state.no # 0 /\ previous \in proven
  BY <1>1, NoIs DEF SelfUpdate!None
<1>3. SelfUpdate!Procs' = SelfUpdate!Procs /\ SelfUpdate!FileStates' = SelfUpdate!FileStates /\ SelfUpdate!Rows' = SelfUpdate!Rows
  BY DEF SelfUpdate!Procs, SelfUpdate!FileStates, SelfUpdate!Statuses, SelfUpdate!Rows
<1>4. CASE previous = target
  <2>1. SelfUpdate!Write(SelfUpdate!Status("ROLLBACK"), SelfUpdate!At("restored"), SelfUpdate!Ends(state)) /\ target' = target
    BY <1>4 DEF SelfUpdate!resumePendingReplacement
  <2>2. CASE state' = SelfUpdate!Status("ROLLBACK") /\ proc' = SelfUpdate!At("restored")
    <3>1. "ROLLBACK" \in SelfUpdate!Statuses
      BY DEF SelfUpdate!Statuses, SelfUpdate!isTerminalStatus
    <3>2. SelfUpdate!DiskTrue'
      BY <1>1, <1>2, <1>4, <2>1, <2>2, <3>1, DiskStatus
    <3>3. state'.status = "ROLLBACK"
      BY <2>2, <3>1, StatusIs DEF SelfUpdate!DiskTrue, SelfUpdate!FileTrue
    <3>4. /\ proc' \in SelfUpdate!Procs /\ proc'.at = "restored" /\ proc'.bin = proc.bin /\ proc'.by = proc.by /\ proc'.armed = proc.armed /\ proc'.signal = proc.signal
      BY <2>2, AtIs DEF SelfUpdate!ProcTrue, SelfUpdate!Labels
    <3>5. SelfUpdate!ProcTrue'
      BY <1>1, <1>3, <2>1, <3>3, <3>4 DEF SelfUpdate!ProcTrue
    <3>. QED BY <3>2, <3>5
  <2>3. CASE state' = state /\ proc' = SelfUpdate!Ends(state)
    <3>1. SelfUpdate!DiskTrue'
      BY <1>1, <2>1, <2>3, DiskSame DEF SelfUpdate!DiskTrue
    <3>2. proc' = SelfUpdate!Down \/ proc' = SelfUpdate!Up(state)
      BY <2>3 DEF SelfUpdate!Ends
    <3>. QED BY <1>1, <2>1, <2>3, <3>1, <3>2, ProcDown, EndsUp
  <2>. QED BY <2>1, <2>2, <2>3, WriteIs
<1>5. CASE previous # target
  <2>1. SelfUpdate!Replace(target', target, previous, SelfUpdate!At("rolled"), SelfUpdate!Ends(state)) /\ state' = state
    BY <1>5 DEF SelfUpdate!resumePendingReplacement
  <2>2. CASE target' = previous /\ proc' = SelfUpdate!At("rolled")
    <3>1. SelfUpdate!FileTrue'
      BY <1>1, <1>2, <1>3, <2>1, <2>2 DEF SelfUpdate!DiskTrue, SelfUpdate!FileTrue
    <3>2. SelfUpdate!WayBack' /\ SelfUpdate!EndsTrue'
      BY <1>1, <1>2, <2>1, <2>2 DEF SelfUpdate!DiskTrue, SelfUpdate!WayBack, SelfUpdate!EndsTrue
    <3>3. SelfUpdate!DiskTrue'
      BY <1>1, <1>2, <2>2, <3>1, <3>2 DEF SelfUpdate!DiskTrue
    <3>4. /\ proc' \in SelfUpdate!Procs /\ proc'.at = "rolled" /\ proc'.bin = proc.bin /\ proc'.by = proc.by /\ proc'.armed = proc.armed /\ proc'.signal = proc.signal
      BY <2>2, AtIs DEF SelfUpdate!ProcTrue, SelfUpdate!Labels
    <3>5. SelfUpdate!ProcTrue'
      BY <1>1, <1>3, <2>1, <2>2, <3>4 DEF SelfUpdate!ProcTrue
    <3>. QED BY <3>3, <3>5
  <2>3. CASE target' = target /\ proc' = SelfUpdate!Ends(state)
    <3>1. SelfUpdate!DiskTrue'
      BY <1>1, <2>1, <2>3, DiskSame DEF SelfUpdate!DiskTrue
    <3>2. proc' = SelfUpdate!Down \/ proc' = SelfUpdate!Up(state)
      BY <2>3 DEF SelfUpdate!Ends
    <3>. QED BY <1>1, <2>1, <2>3, <3>1, <3>2, ProcDown, EndsUp
  <2>. QED BY <2>1, <2>2, <2>3, ReplaceIs
<1>. QED BY <1>4, <1>5

LEMMA RolledOK == ASSUME SelfUpdate!UpdaterAssumption, SelfUpdate!DiskTrue, SelfUpdate!ProcTrue, SelfUpdate!rolledBack PROVE SelfUpdate!DiskTrue' /\ SelfUpdate!ProcTrue'
<1>1. /\ proc.at = "rolled" /\ UNCHANGED <<target, previous, staged, attempt, proven, gaveUp>> /\ state.status = "ROLLBACK_INTENT" /\ target = previous
      /\ SelfUpdate!Write(SelfUpdate!Status("ROLLBACK"), SelfUpdate!At("leave"), SelfUpdate!Down)
  BY DEF SelfUpdate!rolledBack, SelfUpdate!Only, SelfUpdate!Files, SelfUpdate!Histories, SelfUpdate!ProcTrue
<1>2. state.no \in DOMAIN attempt /\ state.no # 0 /\ previous \in proven
  BY <1>1, NoIs DEF SelfUpdate!None
<1>3. SelfUpdate!Procs' = SelfUpdate!Procs
  BY DEF SelfUpdate!Procs
<1>4. CASE state' = SelfUpdate!Status("ROLLBACK") /\ proc' = SelfUpdate!At("leave")
  <2>1. "ROLLBACK" \in SelfUpdate!Statuses
    BY DEF SelfUpdate!Statuses, SelfUpdate!isTerminalStatus
  <2>2. SelfUpdate!DiskTrue'
    BY <1>1, <1>2, <1>4, <2>1, DiskStatus
  <2>3. state'.status = "ROLLBACK"
    BY <1>4, <2>1, StatusIs DEF SelfUpdate!DiskTrue, SelfUpdate!FileTrue
  <2>4. /\ proc' \in SelfUpdate!Procs /\ proc'.at = "leave" /\ proc'.bin = proc.bin /\ proc'.by = proc.by /\ proc'.armed = proc.armed /\ proc'.signal = proc.signal
    BY <1>4, AtIs DEF SelfUpdate!ProcTrue, SelfUpdate!Labels
  <2>5. SelfUpdate!ProcTrue'
    BY <1>1, <1>3, <2>3, <2>4 DEF SelfUpdate!ProcTrue
  <2>. QED BY <2>2, <2>5
<1>5. CASE state' = state /\ proc' = SelfUpdate!Down
  BY <1>1, <1>5, DiskSame, ProcDown DEF SelfUpdate!DiskTrue
<1>. QED BY <1>1, <1>4, <1>5, WriteIs

LEMMA UpdateLeaveOK == ASSUME SelfUpdate!DiskTrue, SelfUpdate!ProcTrue, SelfUpdate!leave PROVE SelfUpdate!DiskTrue' /\ SelfUpdate!ProcTrue'
<1>1. UNCHANGED <<target, previous, state, attempt, proven>> /\ state.status = "ROLLBACK" /\ proc' = SelfUpdate!Down
  BY DEF SelfUpdate!leave, SelfUpdate!Histories, SelfUpdate!ProcTrue, SelfUpdate!cleanupTerminalStaging
<1>. QED BY <1>1, DiskSame, ProcDown DEF SelfUpdate!DiskTrue

LEMMA RestoredOK == ASSUME SelfUpdate!DiskTrue, SelfUpdate!ProcTrue, SelfUpdate!restored PROVE SelfUpdate!DiskTrue' /\ SelfUpdate!ProcTrue'
<1>1. proc.at = "restored" /\ UNCHANGED <<target, previous, state, proven>> /\ state.status = "ROLLBACK" /\ proc.bin = target
  BY DEF SelfUpdate!restored, SelfUpdate!Histories, SelfUpdate!ProcTrue
<1>2. target \in proven
  BY <1>1, UpdateSettledIs DEF SelfUpdate!HasPendingApply, SelfUpdate!isReplacementPendingStatus
<1>3. attempt' = attempt
  BY <1>1, <1>2 DEF SelfUpdate!restored, SelfUpdate!Let
<1>4. SelfUpdate!DiskTrue'
  BY <1>1, <1>3, DiskSame DEF SelfUpdate!DiskTrue
<1>5. proc' = SelfUpdate!Down \/ proc' = SelfUpdate!Up(state) \/ proc' = SelfUpdate!Running(FALSE, state)
  BY DEF SelfUpdate!restored, SelfUpdate!cleanupTerminalStaging
<1>. QED BY <1>1, <1>4, <1>5, ProcDown, EndsUp, EndsRunning

--------------------------------------------------------------------------------
LEMMA CollectOK == ASSUME SelfUpdate!UpdaterAssumption, SelfUpdate!DiskTrue, SelfUpdate!ProcTrue, SelfUpdate!collect PROVE SelfUpdate!DiskTrue' /\ SelfUpdate!ProcTrue'
<1>1. /\ proc.at = "up" /\ UNCHANGED <<target, previous, staged, attempt, gaveUp>> /\ proc.bin = target /\ proven' = proven \cup {target}
  BY DEF SelfUpdate!collect, SelfUpdate!Files, SelfUpdate!ProcTrue
<1>2. PICK on : on = [proc EXCEPT !.probation = FALSE, !.pending = FALSE, !.signal = TRUE]
  OBVIOUS
<1>3. on \in SelfUpdate!Procs /\ on.at = "up" /\ on.bin = target
  BY <1>1, <1>2 DEF SelfUpdate!ProcTrue, SelfUpdate!Procs
<1>4. proven \subseteq proven' /\ proven' \in SUBSET Binaries /\ target \in proven'
  BY <1>1 DEF SelfUpdate!DiskTrue
<1>5. CASE state' = state
  <2>1. SelfUpdate!DiskTrue'
    BY <1>1, <1>4, <1>5, DiskSame
  <2>2. proc' = on \/ proc' = SelfUpdate!Down
    BY <1>2, WriteIs DEF SelfUpdate!collect
  <2>. QED BY <1>1, <1>3, <1>4, <2>1, <2>2, ProcDown, ProcUp
<1>6. CASE state' # state
  <2>1. PICK s : s = [state EXCEPT !.passed = TRUE]
    OBVIOUS
  <2>2. SelfUpdate!Write(s, on, SelfUpdate!Down) /\ state.status = "APPLYING" /\ SelfUpdate!filesHaveSameContent
    BY <1>2, <1>6, <2>1 DEF SelfUpdate!collect
  <2>3. state' = s /\ proc' = on
    BY <1>6, <2>2, WriteIs
  <2>4. s \in SelfUpdate!FileStates /\ s.status = "APPLYING" /\ s.no = state.no /\ s.to = state.to /\ s.attempts = state.attempts /\ s.passed = TRUE
    BY <2>1, <2>2 DEF SelfUpdate!FileStates, SelfUpdate!DiskTrue, SelfUpdate!FileTrue
  <2>5. state.to = target
    BY <2>2 DEF SelfUpdate!filesHaveSameContent
  <2>6. SelfUpdate!FileStates' = SelfUpdate!FileStates /\ SelfUpdate!Rows' = SelfUpdate!Rows
    BY DEF SelfUpdate!FileStates, SelfUpdate!Statuses, SelfUpdate!Rows
  <2>7. SelfUpdate!FileTrue'
    BY <1>1, <1>4, <2>2, <2>3, <2>4, <2>5, <2>6 DEF SelfUpdate!DiskTrue, SelfUpdate!FileTrue
  <2>8. SelfUpdate!WayBack' /\ SelfUpdate!EndsTrue'
    BY <1>1, <1>4, <2>3, <2>4, <2>5 DEF SelfUpdate!DiskTrue, SelfUpdate!WayBack, SelfUpdate!EndsTrue
  <2>9. SelfUpdate!DiskTrue'
    BY <1>1, <1>4, <2>7, <2>8 DEF SelfUpdate!DiskTrue
  <2>. QED BY <1>1, <1>3, <1>4, <2>3, <2>9, ProcUp
<1>. QED BY <1>5, <1>6

LEMMA RollbackOK == ASSUME SelfUpdate!UpdaterAssumption, SelfUpdate!DiskTrue, SelfUpdate!ProcTrue, SelfUpdate!Rollback PROVE SelfUpdate!DiskTrue' /\ SelfUpdate!ProcTrue'
<1>1. /\ proc.at = "up" /\ UNCHANGED <<target, previous, attempt, proven, gaveUp>> /\ proc.bin = target
      /\ state.status \in {"APPLYING", "ROLLBACK_INTENT"} \cup SelfUpdate!isTerminalStatus
  BY DEF SelfUpdate!Rollback, SelfUpdate!Histories, SelfUpdate!ProcTrue
<1>2. state.no \in DOMAIN attempt /\ state.no # 0
  BY <1>1, NoIs DEF SelfUpdate!None, SelfUpdate!isTerminalStatus
<1>3. SelfUpdate!Procs' = SelfUpdate!Procs
  BY DEF SelfUpdate!Procs
<1>4. ASSUME SelfUpdate!DiskTrue', proc' = proc PROVE SelfUpdate!ProcTrue'
  <2>1. proc.armed \/ proc.signal \/ proc.by = "loop" => proc.bin \in proven' \/ ~ SelfUpdate!HasPendingApply(state')
    BY <1>1 DEF SelfUpdate!ProcTrue
  <2>. QED BY <1>1, <1>4, <2>1, ProcUp DEF SelfUpdate!ProcTrue
<1>5. ASSUME NEW l \in {"undo", "resume"}, proc' = [proc EXCEPT !.at = l, !.by = "main"], state'.status = "ROLLBACK_INTENT" PROVE SelfUpdate!ProcTrue'
  <2>1. proc' = [bin |-> proc.bin, at |-> l, by |-> "main", probation |-> proc.probation, pending |-> proc.pending, armed |-> proc.armed, signal |-> proc.signal]
    BY <1>5 DEF SelfUpdate!ProcTrue, SelfUpdate!Procs
  <2>2. proc' \in SelfUpdate!Procs
    BY <2>1, ProcIs DEF SelfUpdate!ProcTrue, SelfUpdate!Procs, SelfUpdate!Labels
  <2>3. proc'.at = l /\ proc'.by = "main" /\ proc'.bin = proc.bin /\ proc'.armed = proc.armed /\ proc'.signal = proc.signal
    BY <2>1
  <2>. QED BY <1>1, <1>3, <1>5, <2>2, <2>3 DEF SelfUpdate!ProcTrue
<1>6. CASE state.status = "APPLYING"
  <2>1. SelfUpdate!Write(SelfUpdate!Status("ROLLBACK_INTENT"), [proc EXCEPT !.at = "undo", !.by = "main"], proc) /\ staged' = staged
    BY <1>6 DEF SelfUpdate!Rollback, SelfUpdate!isTerminalStatus
  <2>2. CASE state' = SelfUpdate!Status("ROLLBACK_INTENT") /\ proc' = [proc EXCEPT !.at = "undo", !.by = "main"]
    <3>1. "ROLLBACK_INTENT" \in SelfUpdate!Statuses /\ "ROLLBACK_INTENT" \in SelfUpdate!isReplacementPendingStatus
      BY DEF SelfUpdate!Statuses, SelfUpdate!isReplacementPendingStatus
    <3>2. SelfUpdate!DiskTrue'
      BY <1>1, <1>2, <2>1, <2>2, <3>1, DiskStatus
    <3>3. state'.status = "ROLLBACK_INTENT"
      BY <2>2, <3>1, StatusIs DEF SelfUpdate!DiskTrue, SelfUpdate!FileTrue
    <3>. QED BY <1>5, <2>2, <3>2, <3>3
  <2>3. CASE state' = state /\ proc' = proc
    <3>1. SelfUpdate!DiskTrue'
      BY <1>1, <2>1, <2>3, DiskSame DEF SelfUpdate!DiskTrue
    <3>. QED BY <1>4, <2>3, <3>1
  <2>. QED BY <2>1, <2>2, <2>3, WriteIs
<1>7. CASE state.status = "ROLLBACK_INTENT"
  <2>1. state' = state /\ staged' = staged /\ proc' = [proc EXCEPT !.at = "resume", !.by = "main"]
    BY <1>7 DEF SelfUpdate!Rollback, SelfUpdate!isTerminalStatus
  <2>2. SelfUpdate!DiskTrue'
    BY <1>1, <2>1, DiskSame DEF SelfUpdate!DiskTrue
  <2>. QED BY <1>5, <1>7, <2>1, <2>2
<1>8. CASE state.status \in SelfUpdate!isTerminalStatus
  <2>1. state' = state /\ proc' = proc
    BY <1>8 DEF SelfUpdate!Rollback, SelfUpdate!isTerminalStatus, SelfUpdate!cleanupTerminalStaging
  <2>2. SelfUpdate!DiskTrue'
    BY <1>1, <1>8, <2>1, DiskSame DEF SelfUpdate!DiskTrue, SelfUpdate!isTerminalStatus
  <2>. QED BY <1>4, <2>1, <2>2
<1>. QED BY <1>1, <1>6, <1>7, <1>8

LEMMA UndoOK == ASSUME SelfUpdate!UpdaterAssumption, SelfUpdate!DiskTrue, SelfUpdate!ProcTrue, SelfUpdate!undo PROVE gaveUp' \/ (SelfUpdate!DiskTrue' /\ SelfUpdate!ProcTrue')
<1>1. /\ proc.at = "undo" /\ UNCHANGED <<previous, staged, state, proven>> /\ state.status = "ROLLBACK_INTENT" /\ SelfUpdate!report(state.no, "ROLLBACK")
      /\ SelfUpdate!Replace(target', target, previous, SelfUpdate!At("rolled"), SelfUpdate!At("fail"))
  BY DEF SelfUpdate!undo, SelfUpdate!ProcTrue
<1>2. state.no \in DOMAIN attempt /\ state.no # 0 /\ previous \in proven
  BY <1>1, NoIs DEF SelfUpdate!None
<1>3. SelfUpdate!Procs' = SelfUpdate!Procs /\ SelfUpdate!FileStates' = SelfUpdate!FileStates /\ SelfUpdate!Rows' = SelfUpdate!Rows
  BY DEF SelfUpdate!Procs, SelfUpdate!FileStates, SelfUpdate!Statuses, SelfUpdate!Rows
<1>4. CASE target' = previous /\ proc' = SelfUpdate!At("rolled")
  <2>1. /\ attempt' \in Seq(SelfUpdate!Rows) /\ Len(attempt') = Len(attempt) /\ DOMAIN attempt' = DOMAIN attempt
        /\ \A m \in DOMAIN attempt :
             /\ attempt'[m].to = attempt[m].to /\ attempt'[m].runs = attempt[m].runs
             /\ attempt'[m].status = attempt[m].status \/ (m = state.no /\ attempt'[m].status = "ROLLBACK")
    BY <1>1, <1>2, ReportIs DEF SelfUpdate!DiskTrue, SelfUpdate!FileTrue
  <2>2. SelfUpdate!FileTrue'
    BY <1>1, <1>2, <1>3, <1>4, <2>1 DEF SelfUpdate!DiskTrue, SelfUpdate!FileTrue
  <2>3. SelfUpdate!WayBack' /\ SelfUpdate!EndsTrue'
    BY <1>1, <1>2, <1>4, <2>1 DEF SelfUpdate!DiskTrue, SelfUpdate!WayBack, SelfUpdate!EndsTrue
  <2>4. SelfUpdate!DiskTrue'
    BY <1>1, <1>2, <1>4, <2>2, <2>3 DEF SelfUpdate!DiskTrue
  <2>5. /\ proc' \in SelfUpdate!Procs /\ proc'.at = "rolled" /\ proc'.bin = proc.bin /\ proc'.by = proc.by /\ proc'.armed = proc.armed /\ proc'.signal = proc.signal
    BY <1>4, AtIs DEF SelfUpdate!ProcTrue, SelfUpdate!Labels
  <2>6. SelfUpdate!ProcTrue'
    BY <1>1, <1>3, <1>4, <2>5 DEF SelfUpdate!ProcTrue
  <2>. QED BY <2>4, <2>6
<1>5. CASE proc' = SelfUpdate!At("fail")
  <2>1. proc'.at = "fail"
    BY <1>5, AtIs DEF SelfUpdate!ProcTrue, SelfUpdate!Labels
  <2>. QED BY <2>1 DEF SelfUpdate!undo
<1>. QED BY <1>1, <1>4, <1>5, ReplaceIs

\* The process is gone.
LEMMA GoneOK == ASSUME SelfUpdate!DiskTrue, SelfUpdate!Exit \/ SelfUpdate!Crash PROVE SelfUpdate!DiskTrue' /\ SelfUpdate!ProcTrue'
<1>1. UNCHANGED <<target, previous, staged, state, attempt, proven>> /\ proc' = SelfUpdate!Down
  BY DEF SelfUpdate!Exit, SelfUpdate!Crash, SelfUpdate!Only, SelfUpdate!Files, SelfUpdate!Histories
<1>. QED BY <1>1, DiskSame, ProcDown DEF SelfUpdate!DiskTrue

--------------------------------------------------------------------------------
LEMMA MarkAppliedOK == ASSUME SelfUpdate!DiskTrue, SelfUpdate!ProcTrue, SelfUpdate!MarkApplied PROVE SelfUpdate!DiskTrue' /\ SelfUpdate!ProcTrue'
<1>1. /\ proc.at = "up" /\ proc.signal /\ UNCHANGED <<target, previous, state, attempt, proven, gaveUp>> /\ proc.bin = target /\ target \in proven
  BY DEF SelfUpdate!MarkApplied, SelfUpdate!Histories, SelfUpdate!ProcTrue
<1>2. SelfUpdate!Procs' = SelfUpdate!Procs
  BY DEF SelfUpdate!Procs
<1>3. PICK p : p = [proc EXCEPT !.signal = FALSE, !.by = "loop"]
  OBVIOUS
<1>4. p = [bin |-> proc.bin, at |-> "up", by |-> "loop", probation |-> proc.probation, pending |-> proc.pending, armed |-> proc.armed, signal |-> FALSE]
  BY <1>1, <1>3 DEF SelfUpdate!ProcTrue, SelfUpdate!Procs
<1>5. CASE state.status \in {"ROLLBACK_INTENT", "APPLY_INTENT", "APPLYING"}
  <2>1. PICK l \in {"resume", "reconcile"} : /\ proc' = [p EXCEPT !.at = l]
                                             /\ l = "resume" <=> state.status = "ROLLBACK_INTENT"
    BY <1>3, <1>5 DEF SelfUpdate!MarkApplied
  <2>2. staged' = staged
    BY <1>5 DEF SelfUpdate!MarkApplied
  <2>3. proc' = [bin |-> proc.bin, at |-> l, by |-> "loop", probation |-> proc.probation, pending |-> proc.pending, armed |-> proc.armed, signal |-> FALSE]
    BY <1>4, <2>1
  <2>4. proc' \in SelfUpdate!Procs
    BY <2>3, ProcIs DEF SelfUpdate!ProcTrue, SelfUpdate!Procs, SelfUpdate!Labels
  <2>5. proc'.at = l /\ proc'.by = "loop" /\ proc'.bin = target
    BY <1>1, <2>3
  <2>6. SelfUpdate!DiskTrue'
    BY <1>1, <2>2, DiskSame DEF SelfUpdate!DiskTrue
  <2>7. SelfUpdate!ProcTrue'
    BY <1>1, <1>2, <1>5, <2>1, <2>4, <2>5 DEF SelfUpdate!ProcTrue
  <2>. QED BY <2>6, <2>7
<1>6. CASE state.status \notin {"ROLLBACK_INTENT", "APPLY_INTENT", "APPLYING"}
  <2>1. PICK a : a = (p.armed \/ ~ SelfUpdate!HasPendingApply(state))
    OBVIOUS
  <2>2. PICK q : q = [p EXCEPT !.armed = a]
    OBVIOUS
  <2>3. proc' = q /\ staged' \in {staged, {}}
    BY <1>3, <1>6, <2>1, <2>2 DEF SelfUpdate!MarkApplied, SelfUpdate!cleanupTerminalStaging
  <2>4. q = [bin |-> proc.bin, at |-> "up", by |-> "loop", probation |-> proc.probation, pending |-> proc.pending, armed |-> a, signal |-> FALSE]
    BY <1>4, <2>2
  <2>5. a \in BOOLEAN
    BY <1>4, <2>1, ProcIs DEF SelfUpdate!ProcTrue
  <2>6. q \in SelfUpdate!Procs /\ q.at = "up" /\ q.bin = target
    BY <1>1, <2>4, <2>5, ProcIs DEF SelfUpdate!ProcTrue, SelfUpdate!Procs, SelfUpdate!Labels
  <2>7. staged' = staged \/ state.status \notin {"DOWNLOADED", "APPLY_INTENT", "APPLYING"}
    BY <1>3, <1>6 DEF SelfUpdate!MarkApplied, SelfUpdate!cleanupTerminalStaging, SelfUpdate!isTerminalStatus
  <2>8. SelfUpdate!DiskTrue'
    BY <1>1, <2>7, DiskSame DEF SelfUpdate!DiskTrue
  <2>. QED BY <1>1, <2>3, <2>6, <2>8, ProcUp
<1>. QED BY <1>5, <1>6

LEMMA ReportAppliedOK ==
  ASSUME SelfUpdate!UpdaterAssumption, SelfUpdate!DiskTrue, SelfUpdate!ProcTrue, NEW heard \in BOOLEAN, SelfUpdate!reportApplied(heard) PROVE SelfUpdate!DiskTrue' /\ SelfUpdate!ProcTrue'
<1>1. /\ proc.at = "report" /\ UNCHANGED <<target, previous, staged, proven, gaveUp>> /\ proc.bin = target /\ target \in proven
      /\ state.status = "APPLYING" /\ SelfUpdate!report(state.no, "APPLIED")
  BY DEF SelfUpdate!reportApplied, SelfUpdate!Files, SelfUpdate!Histories, SelfUpdate!ProcTrue
<1>2. state.no \in DOMAIN attempt /\ state.no # 0 /\ state.to = target /\ attempt[state.no].to = state.to
  BY <1>1, NoIs DEF SelfUpdate!DiskTrue, SelfUpdate!FileTrue, SelfUpdate!None
<1>3. SelfUpdate!Procs' = SelfUpdate!Procs /\ SelfUpdate!FileStates' = SelfUpdate!FileStates /\ SelfUpdate!Rows' = SelfUpdate!Rows
  BY DEF SelfUpdate!Procs, SelfUpdate!FileStates, SelfUpdate!Statuses, SelfUpdate!Rows
<1>4. /\ attempt' \in Seq(SelfUpdate!Rows) /\ Len(attempt') = Len(attempt) /\ DOMAIN attempt' = DOMAIN attempt
      /\ \A m \in DOMAIN attempt :
           /\ attempt'[m].to = attempt[m].to /\ attempt'[m].runs = attempt[m].runs
           /\ attempt'[m].status = attempt[m].status \/ (m = state.no /\ attempt'[m].status = "APPLIED")
  BY <1>1, <1>2, ReportIs DEF SelfUpdate!DiskTrue, SelfUpdate!FileTrue
<1>5. CASE state' = SelfUpdate!Status("APPLIED") /\ proc' = SelfUpdate!At("settled")
  <2>1. "APPLIED" \in SelfUpdate!Statuses
    BY DEF SelfUpdate!Statuses, SelfUpdate!isTerminalStatus
  <2>2. state' \in SelfUpdate!FileStates /\ state'.status = "APPLIED" /\ state'.no = state.no /\ state'.to = state.to /\ state'.attempts = state.attempts /\ state'.passed = state.passed
    BY <1>5, <2>1, StatusIs DEF SelfUpdate!DiskTrue, SelfUpdate!FileTrue
  <2>3. SelfUpdate!FileTrue'
    BY <1>1, <1>2, <1>3, <1>4, <2>2 DEF SelfUpdate!DiskTrue, SelfUpdate!FileTrue
  <2>4. SelfUpdate!WayBack' /\ SelfUpdate!EndsTrue'
    BY <1>1, <1>2, <1>4, <2>2 DEF SelfUpdate!DiskTrue, SelfUpdate!WayBack, SelfUpdate!EndsTrue
  <2>5. SelfUpdate!DiskTrue'
    BY <1>1, <2>3, <2>4 DEF SelfUpdate!DiskTrue
  <2>6. /\ proc' \in SelfUpdate!Procs /\ proc'.at = "settled" /\ proc'.bin = proc.bin /\ proc'.by = proc.by /\ proc'.armed = proc.armed /\ proc'.signal = proc.signal
    BY <1>5, AtIs DEF SelfUpdate!ProcTrue, SelfUpdate!Labels
  <2>7. SelfUpdate!ProcTrue'
    BY <1>1, <1>3, <2>2, <2>6 DEF SelfUpdate!ProcTrue
  <2>. QED BY <2>5, <2>7
<1>6. CASE state' = state /\ proc' = SelfUpdate!Up(state)
  <2>1. SelfUpdate!DiskTrue'
    BY <1>1, <1>2, <1>6, DiskReport
  <2>. QED BY <1>1, <1>6, <2>1, EndsUp
<1>. QED BY <1>5, <1>6, WriteIs DEF SelfUpdate!reportApplied

LEMMA SettledOK == ASSUME SelfUpdate!DiskTrue, SelfUpdate!ProcTrue, SelfUpdate!settled PROVE SelfUpdate!DiskTrue' /\ SelfUpdate!ProcTrue'
<1>1. proc.at = "settled" /\ UNCHANGED <<target, previous, state, attempt, proven>> /\ state.status = "APPLIED" /\ proc.bin = target /\ proc' = SelfUpdate!Up(state)
  BY DEF SelfUpdate!settled, SelfUpdate!Histories, SelfUpdate!ProcTrue, SelfUpdate!cleanupTerminalStaging
<1>2. SelfUpdate!DiskTrue'
  BY <1>1, DiskSame DEF SelfUpdate!DiskTrue
<1>. QED BY <1>1, <1>2, EndsUp

LEMMA CheckOK == ASSUME SelfUpdate!DiskTrue, SelfUpdate!ProcTrue, SelfUpdate!check PROVE SelfUpdate!DiskTrue' /\ SelfUpdate!ProcTrue'
<1>1. /\ proc.at = "up" /\ proc.armed /\ UNCHANGED <<target, previous, staged, state, proven, gaveUp>> /\ proc.bin = target /\ target \in proven
      /\ proc' = [proc EXCEPT !.at = "download", !.by = "loop"]
  BY DEF SelfUpdate!check, SelfUpdate!Files, SelfUpdate!Histories, SelfUpdate!ProcTrue
<1>2. SelfUpdate!Procs' = SelfUpdate!Procs /\ SelfUpdate!FileStates' = SelfUpdate!FileStates /\ SelfUpdate!Rows' = SelfUpdate!Rows
  BY DEF SelfUpdate!Procs, SelfUpdate!FileStates, SelfUpdate!Statuses, SelfUpdate!Rows
<1>3. PICK b \in Binaries \ {proc.bin} : attempt' = Append(attempt, [to |-> b, status |-> "OFFERED", runs |-> 0])
  BY DEF SelfUpdate!check
<1>4. PICK r : r = [to |-> b, status |-> "OFFERED", runs |-> 0]
  OBVIOUS
<1>5. r \in SelfUpdate!Rows /\ r.to = b /\ r.status = "OFFERED" /\ r.runs = 0
  BY <1>4 DEF SelfUpdate!Rows
<1>6. attempt \in Seq(SelfUpdate!Rows)
  BY DEF SelfUpdate!DiskTrue, SelfUpdate!FileTrue
<1>7. /\ attempt' \in Seq(SelfUpdate!Rows) /\ Len(attempt') = Len(attempt) + 1 /\ attempt'[Len(attempt')] = r /\ Len(attempt) \in Nat
      /\ DOMAIN attempt = 1..Len(attempt) /\ DOMAIN attempt' = 1..Len(attempt') /\ \A m \in DOMAIN attempt : attempt'[m] = attempt[m]
  BY <1>3, <1>4, <1>5, <1>6
<1>8. SelfUpdate!FileTrue'
  BY <1>1, <1>2, <1>5, <1>7 DEF SelfUpdate!DiskTrue, SelfUpdate!FileTrue
<1>9. SelfUpdate!EndsTrue'
  <2>1. \A m \in DOMAIN attempt' : m \in DOMAIN attempt \/ m = Len(attempt')
    BY <1>7
  <2>. QED BY <1>1, <1>5, <1>7, <2>1 DEF SelfUpdate!DiskTrue, SelfUpdate!EndsTrue
<1>10. SelfUpdate!DiskTrue'
  BY <1>1, <1>8, <1>9 DEF SelfUpdate!DiskTrue, SelfUpdate!WayBack
<1>11. proc' = [bin |-> proc.bin, at |-> "download", by |-> "loop", probation |-> proc.probation, pending |-> proc.pending, armed |-> proc.armed, signal |-> proc.signal]
  BY <1>1 DEF SelfUpdate!ProcTrue, SelfUpdate!Procs
<1>12. proc' \in SelfUpdate!Procs
  BY <1>11, ProcIs DEF SelfUpdate!ProcTrue, SelfUpdate!Procs, SelfUpdate!Labels
<1>13. proc'.at = "download" /\ proc'.by = "loop" /\ proc'.bin = target
  BY <1>1, <1>11
<1>14. SelfUpdate!No' # 0 /\ attempt'[SelfUpdate!No'].runs = 0 /\ attempt'[SelfUpdate!No'].status # "FAILED" /\ attempt'[SelfUpdate!No'].to # proc'.bin
  BY <1>1, <1>3, <1>5, <1>7, <1>13 DEF SelfUpdate!No
<1>15. SelfUpdate!ProcTrue'
  BY <1>1, <1>2, <1>12, <1>13, <1>14 DEF SelfUpdate!ProcTrue
<1>. QED BY <1>10, <1>15

\* The update that is being got and put in place.
LEMMA LastIs ==
  ASSUME SelfUpdate!DiskTrue, SelfUpdate!ProcTrue, proc.at \in {"download", "copy", "stage", "refused", "downloaded", "intent", "apply", "applied"}
  PROVE  /\ SelfUpdate!No \in DOMAIN attempt /\ SelfUpdate!No # 0 /\ attempt[SelfUpdate!No].runs = 0 /\ attempt[SelfUpdate!No].status # "FAILED" /\ attempt[SelfUpdate!No].to # proc.bin /\ attempt[SelfUpdate!No] \in SelfUpdate!Rows
         /\ proc.by = "loop" /\ proc.bin \in proven
<1>1. attempt \in Seq(SelfUpdate!Rows) /\ SelfUpdate!No # 0 /\ SelfUpdate!No = Len(attempt)
  BY DEF SelfUpdate!DiskTrue, SelfUpdate!FileTrue, SelfUpdate!ProcTrue, SelfUpdate!No
<1>2. SelfUpdate!No \in DOMAIN attempt /\ attempt[SelfUpdate!No] \in SelfUpdate!Rows
  BY <1>1
<1>. QED BY <1>1, <1>2 DEF SelfUpdate!ProcTrue
\* A step of it.
LEMMA UpdateStepIs ==
  ASSUME SelfUpdate!DiskTrue, SelfUpdate!ProcTrue, UNCHANGED <<target, proven>>, NEW x \in {"copy", "stage", "refused", "downloaded", "intent", "apply", "applied"}, proc' = SelfUpdate!At(x),
         proc.at \in {"download", "copy", "stage", "downloaded", "intent", "apply"}, proc.bin = target \/ x = "applied",
         Len(attempt') = Len(attempt), attempt'[SelfUpdate!No].runs = attempt[SelfUpdate!No].runs, attempt'[SelfUpdate!No].to = attempt[SelfUpdate!No].to, attempt'[SelfUpdate!No].status # "FAILED",
         x \in {"copy", "stage"} => SelfUpdate!No \in staged', x = "stage" => previous' \in proven,
         x \in {"downloaded", "intent"} => state'.status = "DOWNLOADED" /\ state'.no = SelfUpdate!No,
         x \in {"apply", "applied"} => state'.status = "APPLY_INTENT" /\ state'.no = SelfUpdate!No,
         x = "applied" => state'.to = target'
  PROVE  SelfUpdate!ProcTrue'
<1>1. x \in SelfUpdate!Labels /\ SelfUpdate!Procs' = SelfUpdate!Procs /\ SelfUpdate!No' = SelfUpdate!No
  BY DEF SelfUpdate!Labels, SelfUpdate!Procs, SelfUpdate!No
<1>2. /\ proc' \in SelfUpdate!Procs /\ proc'.at = x /\ proc'.bin = proc.bin /\ proc'.by = proc.by /\ proc'.armed = proc.armed /\ proc'.signal = proc.signal
  BY <1>1, AtIs DEF SelfUpdate!ProcTrue
<1>3. SelfUpdate!No # 0 /\ attempt[SelfUpdate!No].runs = 0 /\ attempt[SelfUpdate!No].to # proc.bin /\ proc.by = "loop" /\ proc.bin \in proven
  BY LastIs
<1>4. proc'.at \notin {"down", "applied", "rolled", "leave"} => proc'.bin = target'
  BY <1>2
<1>5. /\ proc'.at \notin {"resume", "undo", "rolled", "leave", "restored", "reconcile", "probation", "report", "settled", "failed", "failing", "fail"}
  BY <1>2
<1>. QED BY <1>1, <1>2, <1>3, <1>4, <1>5 DEF SelfUpdate!ProcTrue

LEMMA DownloadOK == ASSUME SelfUpdate!DiskTrue, SelfUpdate!ProcTrue, SelfUpdate!downloadAndVerify PROVE SelfUpdate!DiskTrue' /\ SelfUpdate!ProcTrue'
<1>1. /\ proc.at = "download" /\ UNCHANGED <<target, previous, state, proven, gaveUp>> /\ proc.bin = target
  BY DEF SelfUpdate!downloadAndVerify, SelfUpdate!Histories, SelfUpdate!ProcTrue
<1>2. /\ SelfUpdate!No \in DOMAIN attempt /\ SelfUpdate!No # 0 /\ attempt[SelfUpdate!No].runs = 0 /\ attempt[SelfUpdate!No].status # "FAILED" /\ attempt[SelfUpdate!No].to # proc.bin /\ proc.bin \in proven
  BY <1>1, LastIs
<1>3. CASE staged' = staged \cup {SelfUpdate!No} /\ proc' = SelfUpdate!At("copy") /\ UNCHANGED <<attempt, left>>
  <2>1. SelfUpdate!DiskTrue'
    BY <1>1, <1>3, DiskSame DEF SelfUpdate!DiskTrue
  <2>2. SelfUpdate!ProcTrue'
    BY <1>1, <1>2, <1>3, UpdateStepIs
  <2>. QED BY <2>1, <2>2
<1>4. CASE SelfUpdate!report(SelfUpdate!No, "FAILED") /\ proc' = SelfUpdate!Up(state) /\ staged' = staged
  <2>1. SelfUpdate!No = state.no => state.to # target
    BY <1>1, <1>2 DEF SelfUpdate!DiskTrue, SelfUpdate!FileTrue
  <2>2. SelfUpdate!No = state.no => state.status # "APPLYING" /\ (state.status = "APPLY_INTENT" => state.to # target)
    BY <2>1 DEF SelfUpdate!DiskTrue, SelfUpdate!FileTrue
  <2>3. SelfUpdate!DiskTrue'
    BY <1>1, <1>2, <1>4, <2>2, DiskReport
  <2>. QED BY <1>1, <1>4, <2>3, EndsUp
<1>. QED BY <1>3, <1>4 DEF SelfUpdate!downloadAndVerify

LEMMA StageOK == ASSUME SelfUpdate!UpdaterAssumption, SelfUpdate!DiskTrue, SelfUpdate!ProcTrue, SelfUpdate!stageVerifiedArtifact PROVE SelfUpdate!DiskTrue' /\ SelfUpdate!ProcTrue'
<1>1. /\ proc.at \in {"copy", "stage", "refused"} /\ UNCHANGED <<target, staged, proven, gaveUp>> /\ proc.bin = target
  BY DEF SelfUpdate!stageVerifiedArtifact, SelfUpdate!Histories, SelfUpdate!ProcTrue
<1>2. /\ SelfUpdate!No \in DOMAIN attempt /\ SelfUpdate!No # 0 /\ attempt[SelfUpdate!No].runs = 0 /\ attempt[SelfUpdate!No].status # "FAILED" /\ attempt[SelfUpdate!No].to # proc.bin /\ target \in proven /\ attempt[SelfUpdate!No] \in SelfUpdate!Rows
  BY <1>1, LastIs
<1>3. SelfUpdate!FileStates' = SelfUpdate!FileStates /\ SelfUpdate!Rows' = SelfUpdate!Rows
  BY DEF SelfUpdate!FileStates, SelfUpdate!Statuses, SelfUpdate!Rows
<1>4. CASE proc.at = "copy"
  <2>1. SelfUpdate!Replace(previous', previous, target, SelfUpdate!At("stage"), SelfUpdate!At("refused")) /\ UNCHANGED <<state, attempt>>
    BY <1>4 DEF SelfUpdate!stageVerifiedArtifact
  <2>2. CASE previous' = target /\ proc' = SelfUpdate!At("stage")
    <3>1. SelfUpdate!FileTrue'
      BY <1>1, <1>2, <1>3, <2>1, <2>2 DEF SelfUpdate!DiskTrue, SelfUpdate!FileTrue
    <3>2. SelfUpdate!WayBack' /\ SelfUpdate!EndsTrue'
      BY <1>1, <1>2, <2>1, <2>2 DEF SelfUpdate!DiskTrue, SelfUpdate!WayBack, SelfUpdate!EndsTrue
    <3>3. SelfUpdate!DiskTrue'
      BY <1>1, <3>1, <3>2 DEF SelfUpdate!DiskTrue
    <3>4. SelfUpdate!No \in staged'
      BY <1>1, <1>4 DEF SelfUpdate!ProcTrue
    <3>5. SelfUpdate!ProcTrue'
      BY <1>1, <1>2, <1>4, <2>1, <2>2, <3>4, UpdateStepIs
    <3>. QED BY <3>3, <3>5
  <2>3. CASE previous' = previous /\ proc' = SelfUpdate!At("refused")
    <3>1. SelfUpdate!DiskTrue'
      BY <1>1, <2>1, <2>3, DiskSame DEF SelfUpdate!DiskTrue
    <3>2. SelfUpdate!ProcTrue'
      BY <1>1, <1>2, <1>4, <2>1, <2>3, UpdateStepIs
    <3>. QED BY <3>1, <3>2
  <2>. QED BY <2>1, <2>2, <2>3, ReplaceIs
<1>5. CASE proc.at = "stage"
  <2>1. PICK s : s = [SelfUpdate!NoState EXCEPT !.status = "DOWNLOADED", !.no = SelfUpdate!No, !.to = attempt[SelfUpdate!No].to]
    OBVIOUS
  <2>2. s = [status |-> "DOWNLOADED", no |-> SelfUpdate!No, to |-> attempt[SelfUpdate!No].to, attempts |-> 0, passed |-> FALSE]
    BY <2>1 DEF SelfUpdate!NoState
  <2>3. SelfUpdate!Write(s, SelfUpdate!At("downloaded"), SelfUpdate!At("refused")) /\ UNCHANGED <<previous, attempt>>
    BY <1>5, <2>1 DEF SelfUpdate!stageVerifiedArtifact
  <2>4. CASE state' = s /\ proc' = SelfUpdate!At("downloaded")
    <3>1. SelfUpdate!No \in Nat /\ attempt[SelfUpdate!No].to \in Binaries
      BY <1>2 DEF SelfUpdate!Rows, SelfUpdate!DiskTrue, SelfUpdate!FileTrue
    <3>2. s \in SelfUpdate!FileStates /\ s.status = "DOWNLOADED" /\ s.no = SelfUpdate!No /\ s.to = attempt[SelfUpdate!No].to /\ s.attempts = 0 /\ ~ s.passed
      BY <2>2, <3>1 DEF SelfUpdate!FileStates, SelfUpdate!Statuses
    <3>3. SelfUpdate!No \in staged /\ previous \in proven
      BY <1>5 DEF SelfUpdate!ProcTrue
    <3>4. SelfUpdate!FileTrue'
      BY <1>1, <1>2, <1>3, <2>3, <2>4, <3>2, <3>3 DEF SelfUpdate!DiskTrue, SelfUpdate!FileTrue, SelfUpdate!None
    <3>5. SelfUpdate!WayBack' /\ SelfUpdate!EndsTrue'
      BY <1>1, <1>2, <2>3, <2>4, <3>2 DEF SelfUpdate!DiskTrue, SelfUpdate!WayBack, SelfUpdate!EndsTrue
    <3>6. SelfUpdate!DiskTrue'
      BY <1>1, <3>4, <3>5 DEF SelfUpdate!DiskTrue
    <3>7. SelfUpdate!ProcTrue'
      BY <1>1, <1>2, <1>5, <2>3, <2>4, <3>2, UpdateStepIs
    <3>. QED BY <3>6, <3>7
  <2>5. CASE state' = state /\ proc' = SelfUpdate!At("refused")
    <3>1. SelfUpdate!DiskTrue'
      BY <1>1, <2>3, <2>5, DiskSame DEF SelfUpdate!DiskTrue
    <3>2. SelfUpdate!ProcTrue'
      BY <1>1, <1>2, <1>5, <2>3, <2>5, UpdateStepIs
    <3>. QED BY <3>1, <3>2
  <2>. QED BY <2>3, <2>4, <2>5, WriteIs
<1>6. CASE proc.at = "refused"
  <2>1. SelfUpdate!report(SelfUpdate!No, "FAILED") /\ proc' = SelfUpdate!Up(state) /\ UNCHANGED <<previous, state, left>>
    BY <1>6 DEF SelfUpdate!stageVerifiedArtifact
  <2>2. SelfUpdate!No = state.no => state.to # target
    BY <1>1, <1>2 DEF SelfUpdate!DiskTrue, SelfUpdate!FileTrue
  <2>3. SelfUpdate!No = state.no => state.status # "APPLYING" /\ (state.status = "APPLY_INTENT" => state.to # target)
    BY <2>2 DEF SelfUpdate!DiskTrue, SelfUpdate!FileTrue
  <2>4. SelfUpdate!DiskTrue'
    BY <1>1, <1>2, <2>1, <2>3, DiskReport
  <2>. QED BY <1>1, <2>1, <2>4, EndsUp
<1>. QED BY <1>1, <1>4, <1>5, <1>6

\* Nothing was replaced, and the update is given up.
LEMMA FailIs ==
  ASSUME SelfUpdate!ProcTrue, UNCHANGED <<target, proven>>, proc' = SelfUpdate!At("fail"), proc.bin = target, state'.status \in {"DOWNLOADED", "APPLY_INTENT"}, state'.to # target
  PROVE  SelfUpdate!ProcTrue'
<1>1. SelfUpdate!Procs' = SelfUpdate!Procs
  BY DEF SelfUpdate!Procs
<1>2. /\ proc' \in SelfUpdate!Procs /\ proc'.at = "fail" /\ proc'.bin = proc.bin /\ proc'.by = proc.by /\ proc'.armed = proc.armed /\ proc'.signal = proc.signal
  BY AtIs DEF SelfUpdate!ProcTrue, SelfUpdate!Labels
<1>. QED BY <1>1, <1>2 DEF SelfUpdate!ProcTrue

LEMMA ReportDownloadedOK ==
  ASSUME SelfUpdate!DiskTrue, SelfUpdate!ProcTrue, NEW heard \in BOOLEAN, SelfUpdate!reportDownloaded(heard) PROVE SelfUpdate!DiskTrue' /\ SelfUpdate!ProcTrue'
<1>1. /\ proc.at = "downloaded" /\ UNCHANGED <<target, previous, staged, state, proven, gaveUp>> /\ proc.bin = target
      /\ SelfUpdate!report(SelfUpdate!No, "DOWNLOADED") /\ state.status = "DOWNLOADED" /\ state.no = SelfUpdate!No
  BY DEF SelfUpdate!reportDownloaded, SelfUpdate!Files, SelfUpdate!Histories, SelfUpdate!ProcTrue
<1>2. /\ SelfUpdate!No \in DOMAIN attempt /\ SelfUpdate!No # 0 /\ attempt[SelfUpdate!No].runs = 0 /\ attempt[SelfUpdate!No].status # "FAILED" /\ attempt[SelfUpdate!No].to # proc.bin
  BY <1>1, LastIs
<1>3. /\ Len(attempt') = Len(attempt) /\ attempt'[SelfUpdate!No].to = attempt[SelfUpdate!No].to /\ attempt'[SelfUpdate!No].runs = attempt[SelfUpdate!No].runs /\ attempt'[SelfUpdate!No].status # "FAILED"
  BY <1>1, <1>2, ReportIs DEF SelfUpdate!DiskTrue, SelfUpdate!FileTrue
<1>4. SelfUpdate!DiskTrue'
  BY <1>1, <1>2, DiskReport
<1>5. CASE heard
  <2>1. proc' = SelfUpdate!At("intent")
    BY <1>5 DEF SelfUpdate!reportDownloaded
  <2>2. SelfUpdate!ProcTrue'
    BY <1>1, <1>2, <1>3, <2>1, UpdateStepIs
  <2>. QED BY <1>4, <2>2
<1>6. CASE ~ heard
  <2>1. proc' = SelfUpdate!At("fail")
    BY <1>6 DEF SelfUpdate!reportDownloaded
  <2>2. state.to # target
    BY <1>1, <1>2 DEF SelfUpdate!DiskTrue, SelfUpdate!FileTrue
  <2>3. SelfUpdate!ProcTrue'
    BY <1>1, <2>1, <2>2, FailIs
  <2>. QED BY <1>4, <2>3
<1>. QED BY <1>5, <1>6

LEMMA IntentOK == ASSUME SelfUpdate!UpdaterAssumption, SelfUpdate!DiskTrue, SelfUpdate!ProcTrue, SelfUpdate!intent PROVE SelfUpdate!DiskTrue' /\ SelfUpdate!ProcTrue'
<1>1. /\ proc.at = "intent" /\ UNCHANGED <<target, previous, staged, attempt, proven, gaveUp>> /\ proc.bin = target
      /\ SelfUpdate!Write(SelfUpdate!Status("APPLY_INTENT"), SelfUpdate!At("apply"), SelfUpdate!Up(state)) /\ state.status = "DOWNLOADED" /\ state.no = SelfUpdate!No
  BY DEF SelfUpdate!intent, SelfUpdate!Only, SelfUpdate!Files, SelfUpdate!Histories, SelfUpdate!ProcTrue
<1>2. /\ SelfUpdate!No \in DOMAIN attempt /\ SelfUpdate!No # 0 /\ attempt[SelfUpdate!No].runs = 0 /\ attempt[SelfUpdate!No].status # "FAILED" /\ attempt[SelfUpdate!No].to # proc.bin
  BY <1>1, LastIs
<1>3. CASE state' = SelfUpdate!Status("APPLY_INTENT") /\ proc' = SelfUpdate!At("apply")
  <2>1. "APPLY_INTENT" \in SelfUpdate!Statuses
    BY DEF SelfUpdate!Statuses
  <2>2. state.attempts = 0 /\ state.no \in staged
    BY <1>1 DEF SelfUpdate!DiskTrue, SelfUpdate!FileTrue
  <2>3. SelfUpdate!DiskTrue'
    BY <1>1, <1>2, <1>3, <2>1, <2>2, DiskStatus DEF SelfUpdate!isReplacementPendingStatus
  <2>4. state'.status = "APPLY_INTENT" /\ state'.no = SelfUpdate!No
    BY <1>1, <1>3, <2>1, StatusIs DEF SelfUpdate!DiskTrue, SelfUpdate!FileTrue
  <2>5. SelfUpdate!ProcTrue'
    BY <1>1, <1>2, <1>3, <2>4, UpdateStepIs
  <2>. QED BY <2>3, <2>5
<1>4. CASE state' = state /\ proc' = SelfUpdate!Up(state)
  <2>1. SelfUpdate!DiskTrue'
    BY <1>1, <1>4, DiskSame DEF SelfUpdate!DiskTrue
  <2>. QED BY <1>1, <1>4, <2>1, EndsUp
<1>. QED BY <1>1, <1>3, <1>4, WriteIs

LEMMA ApplyOK == ASSUME SelfUpdate!UpdaterAssumption, SelfUpdate!DiskTrue, SelfUpdate!ProcTrue, SelfUpdate!applyUpdate PROVE SelfUpdate!DiskTrue' /\ SelfUpdate!ProcTrue'
<1>1. /\ proc.at = "apply" /\ UNCHANGED <<previous, staged, state, proven, gaveUp>> /\ proc.bin = target /\ SelfUpdate!report(SelfUpdate!No, "APPLYING")
      /\ SelfUpdate!Replace(target', target, state.to, SelfUpdate!At("applied"), SelfUpdate!At("fail")) /\ state.status = "APPLY_INTENT" /\ state.no = SelfUpdate!No
  BY DEF SelfUpdate!applyUpdate, SelfUpdate!Histories, SelfUpdate!ProcTrue
<1>2. /\ SelfUpdate!No \in DOMAIN attempt /\ SelfUpdate!No # 0 /\ attempt[SelfUpdate!No].runs = 0 /\ attempt[SelfUpdate!No].status # "FAILED" /\ attempt[SelfUpdate!No].to # proc.bin
  BY <1>1, LastIs
<1>3. /\ attempt' \in Seq(SelfUpdate!Rows) /\ Len(attempt') = Len(attempt) /\ DOMAIN attempt' = DOMAIN attempt
      /\ \A m \in DOMAIN attempt :
           /\ attempt'[m].to = attempt[m].to /\ attempt'[m].runs = attempt[m].runs
           /\ attempt'[m].status = attempt[m].status \/ (m = SelfUpdate!No /\ attempt'[m].status = "APPLYING")
  BY <1>1, <1>2, ReportIs DEF SelfUpdate!DiskTrue, SelfUpdate!FileTrue
<1>4. state.to = attempt[SelfUpdate!No].to /\ previous \in proven
  BY <1>1, <1>2 DEF SelfUpdate!DiskTrue, SelfUpdate!FileTrue
<1>5. SelfUpdate!FileStates' = SelfUpdate!FileStates /\ SelfUpdate!Rows' = SelfUpdate!Rows /\ SelfUpdate!Procs' = SelfUpdate!Procs /\ SelfUpdate!No' = SelfUpdate!No
  BY <1>3 DEF SelfUpdate!FileStates, SelfUpdate!Statuses, SelfUpdate!Rows, SelfUpdate!Procs, SelfUpdate!No
<1>6. CASE target' = state.to /\ proc' = SelfUpdate!At("applied")
  <2>1. state.to \in Binaries
    <3>1. attempt[SelfUpdate!No] \in SelfUpdate!Rows
      BY <1>1, LastIs
    <3>. QED BY <1>4, <3>1 DEF SelfUpdate!Rows
  <2>2. SelfUpdate!FileTrue'
    BY <1>1, <1>2, <1>3, <1>4, <1>5, <1>6 DEF SelfUpdate!DiskTrue, SelfUpdate!FileTrue
  <2>3. "APPLY_INTENT" \in SelfUpdate!isReplacementPendingStatus
    BY DEF SelfUpdate!isReplacementPendingStatus
  <2>4. SelfUpdate!WayBack' /\ SelfUpdate!EndsTrue'
    BY <1>1, <1>3, <1>4, <1>6, <2>3 DEF SelfUpdate!DiskTrue, SelfUpdate!WayBack, SelfUpdate!EndsTrue
  <2>5. SelfUpdate!DiskTrue'
    BY <1>1, <1>6, <2>1, <2>2, <2>4 DEF SelfUpdate!DiskTrue
  <2>6. /\ proc' \in SelfUpdate!Procs /\ proc'.at = "applied" /\ proc'.bin = proc.bin /\ proc'.by = proc.by /\ proc'.armed = proc.armed /\ proc'.signal = proc.signal
    BY <1>6, AtIs DEF SelfUpdate!ProcTrue, SelfUpdate!Labels
  <2>7. attempt'[SelfUpdate!No].to # proc'.bin /\ attempt'[SelfUpdate!No].runs = 0 /\ attempt'[SelfUpdate!No].status # "FAILED"
    BY <1>2, <1>3, <2>6
  <2>8. proc.by = "loop" /\ proc.bin \in proven
    BY <1>1, LastIs
  <2>9. SelfUpdate!ProcTrue'
    BY <1>1, <1>2, <1>5, <1>6, <2>6, <2>7, <2>8 DEF SelfUpdate!ProcTrue
  <2>. QED BY <2>5, <2>9
<1>7. CASE target' = target /\ proc' = SelfUpdate!At("fail")
  <2>1. SelfUpdate!DiskTrue'
    BY <1>1, <1>2, <1>7, DiskReport
  <2>2. SelfUpdate!ProcTrue'
    BY <1>1, <1>2, <1>4, <1>7, FailIs
  <2>. QED BY <2>1, <2>2
<1>. QED BY <1>1, <1>6, <1>7, ReplaceIs

LEMMA AppliedOK == ASSUME SelfUpdate!UpdaterAssumption, SelfUpdate!DiskTrue, SelfUpdate!ProcTrue, SelfUpdate!applied PROVE SelfUpdate!DiskTrue' /\ SelfUpdate!ProcTrue'
<1>1. /\ proc.at = "applied" /\ UNCHANGED <<target, previous, staged, attempt, proven, gaveUp>>
      /\ SelfUpdate!Write(SelfUpdate!Status("APPLYING"), SelfUpdate!Down, SelfUpdate!Down) /\ state.status = "APPLY_INTENT" /\ state.no = SelfUpdate!No /\ state.to = target
  BY DEF SelfUpdate!applied, SelfUpdate!Only, SelfUpdate!Files, SelfUpdate!Histories, SelfUpdate!ProcTrue
<1>2. /\ SelfUpdate!No \in DOMAIN attempt /\ SelfUpdate!No # 0 /\ attempt[SelfUpdate!No].runs = 0 /\ attempt[SelfUpdate!No].status # "FAILED"
  BY <1>1, LastIs
<1>3. proc' = SelfUpdate!Down
  BY <1>1 DEF SelfUpdate!Write
<1>4. CASE state' = SelfUpdate!Status("APPLYING")
  <2>1. "APPLYING" \in SelfUpdate!Statuses
    BY DEF SelfUpdate!Statuses
  <2>2. state.no \in staged
    BY <1>1 DEF SelfUpdate!DiskTrue, SelfUpdate!FileTrue
  <2>3. SelfUpdate!DiskTrue'
    BY <1>1, <1>2, <1>4, <2>1, <2>2, DiskStatus DEF SelfUpdate!isReplacementPendingStatus
  <2>. QED BY <1>3, <2>3, ProcDown
<1>5. CASE state' = state
  BY <1>1, <1>3, <1>5, DiskSame, ProcDown DEF SelfUpdate!DiskTrue
<1>. QED BY <1>1, <1>4, <1>5, WriteIs

LEMMA FailStagedOK == ASSUME SelfUpdate!UpdaterAssumption, SelfUpdate!DiskTrue, SelfUpdate!ProcTrue, SelfUpdate!failStagedUpdate PROVE SelfUpdate!DiskTrue' /\ SelfUpdate!ProcTrue'
<1>1. /\ proc.at \in {"fail", "failing"} /\ UNCHANGED <<target, previous, proven, gaveUp>> /\ proc.bin = target /\ SelfUpdate!report(state.no, "FAILED")
  BY DEF SelfUpdate!failStagedUpdate, SelfUpdate!Histories, SelfUpdate!ProcTrue
<1>2. SelfUpdate!Procs' = SelfUpdate!Procs /\ SelfUpdate!FileStates' = SelfUpdate!FileStates /\ SelfUpdate!Rows' = SelfUpdate!Rows
  BY DEF SelfUpdate!Procs, SelfUpdate!FileStates, SelfUpdate!Statuses, SelfUpdate!Rows
<1>3. CASE proc.at = "fail"
  <2>1. SelfUpdate!Write(SelfUpdate!Status("FAILED"), SelfUpdate!At("failing"), SelfUpdate!Up(state)) /\ staged' = staged /\ state.status \in {"DOWNLOADED", "APPLY_INTENT"} /\ state.to # target
    BY <1>3 DEF SelfUpdate!failStagedUpdate, SelfUpdate!ProcTrue
  <2>2. state.no \in DOMAIN attempt /\ state.no # 0 /\ state.attempts = 0 /\ attempt[state.no].runs = 0 /\ target \in proven
    BY <2>1, NoIs DEF SelfUpdate!DiskTrue, SelfUpdate!FileTrue, SelfUpdate!None, SelfUpdate!WayBack
  <2>3. CASE state' = SelfUpdate!Status("FAILED") /\ proc' = SelfUpdate!At("failing")
    <3>1. "FAILED" \in SelfUpdate!Statuses
      BY DEF SelfUpdate!Statuses, SelfUpdate!isTerminalStatus
    <3>2. state' \in SelfUpdate!FileStates /\ state'.status = "FAILED" /\ state'.no = state.no /\ state'.to = state.to /\ state'.attempts = state.attempts /\ state'.passed = state.passed
      BY <2>3, <3>1, StatusIs DEF SelfUpdate!DiskTrue, SelfUpdate!FileTrue
    <3>3. /\ attempt' \in Seq(SelfUpdate!Rows) /\ Len(attempt') = Len(attempt) /\ DOMAIN attempt' = DOMAIN attempt
          /\ \A m \in DOMAIN attempt :
               /\ attempt'[m].to = attempt[m].to /\ attempt'[m].runs = attempt[m].runs
               /\ attempt'[m].status = attempt[m].status \/ (m = state.no /\ attempt'[m].status = "FAILED")
      BY <1>1, <2>2, ReportIs DEF SelfUpdate!DiskTrue, SelfUpdate!FileTrue
    <3>4. SelfUpdate!FileTrue'
      BY <1>1, <1>2, <2>1, <2>2, <3>2, <3>3 DEF SelfUpdate!DiskTrue, SelfUpdate!FileTrue
    <3>5. SelfUpdate!WayBack' /\ SelfUpdate!EndsTrue'
      BY <1>1, <2>2, <3>2, <3>3 DEF SelfUpdate!DiskTrue, SelfUpdate!WayBack, SelfUpdate!EndsTrue
    <3>6. SelfUpdate!DiskTrue'
      BY <1>1, <3>4, <3>5 DEF SelfUpdate!DiskTrue
    <3>7. /\ proc' \in SelfUpdate!Procs /\ proc'.at = "failing" /\ proc'.bin = proc.bin /\ proc'.by = proc.by /\ proc'.armed = proc.armed /\ proc'.signal = proc.signal
      BY <2>3, AtIs DEF SelfUpdate!ProcTrue, SelfUpdate!Labels
    <3>8. SelfUpdate!ProcTrue'
      BY <1>1, <1>2, <3>2, <3>7 DEF SelfUpdate!ProcTrue
    <3>. QED BY <3>6, <3>8
  <2>4. CASE state' = state /\ proc' = SelfUpdate!Up(state)
    <3>1. SelfUpdate!DiskTrue'
      BY <1>1, <2>1, <2>2, <2>4, DiskReport
    <3>. QED BY <1>1, <2>4, <3>1, EndsUp
  <2>. QED BY <2>1, <2>3, <2>4, WriteIs
<1>4. CASE proc.at = "failing"
  <2>1. state.status = "FAILED" /\ state' = state /\ proc' = SelfUpdate!Up(state)
    BY <1>4 DEF SelfUpdate!failStagedUpdate, SelfUpdate!ProcTrue, SelfUpdate!cleanupTerminalStaging
  <2>2. state.no \in DOMAIN attempt /\ attempt[state.no].runs = 0
    BY <2>1, NoIs DEF SelfUpdate!DiskTrue, SelfUpdate!FileTrue, SelfUpdate!None
  <2>3. SelfUpdate!DiskTrue'
    BY <1>1, <2>1, <2>2, DiskReport
  <2>. QED BY <1>1, <2>1, <2>3, EndsUp
<1>. QED BY <1>1, <1>3, <1>4

--------------------------------------------------------------------------------
LEMMA UpdateInit == ASSUME SelfUpdate!UpdaterAssumption, SelfUpdate!Init PROVE SelfUpdate!UpdateInv
<1>1. /\ target = FirstBinary /\ previous = SelfUpdate!None /\ staged = {} /\ state = SelfUpdate!NoState /\ proc = SelfUpdate!Down /\ attempt = <<>> /\ proven = {FirstBinary}
  BY DEF SelfUpdate!Init
<1>2. SelfUpdate!FileTrue
  <2>1. SelfUpdate!NoState \in SelfUpdate!FileStates
    BY DEF SelfUpdate!NoState, SelfUpdate!FileStates, SelfUpdate!Statuses
  <2>2. SelfUpdate!NoState.no = 0 /\ SelfUpdate!NoState.status = SelfUpdate!None /\ SelfUpdate!NoState.attempts = 0 /\ ~ SelfUpdate!NoState.passed
    BY DEF SelfUpdate!NoState
  <2>3. SelfUpdate!None \notin {"DOWNLOADED", "APPLY_INTENT", "APPLYING", "FAILED"}
    BY DEF SelfUpdate!None
  <2>. QED BY <1>1, <2>1, <2>2, <2>3 DEF SelfUpdate!FileTrue
<1>3. SelfUpdate!WayBack /\ SelfUpdate!EndsTrue
  BY <1>1 DEF SelfUpdate!WayBack, SelfUpdate!EndsTrue, SelfUpdate!NoState, SelfUpdate!None
<1>4. SelfUpdate!DiskTrue
  BY <1>1, <1>2, <1>3 DEF SelfUpdate!DiskTrue, SelfUpdate!UpdaterAssumption
<1>5. SelfUpdate!ProcTrue
  BY <1>1, DownIs DEF SelfUpdate!ProcTrue
<1>. QED BY <1>4, <1>5 DEF SelfUpdate!UpdateInv

LEMMA UpdateStep == ASSUME SelfUpdate!UpdaterAssumption, SelfUpdate!UpdateInv, [SelfUpdate!Next]_(SelfUpdate!updaterVars) PROVE SelfUpdate!UpdateInv'
<1>1. gaveUp => gaveUp'
  BY DEF SelfUpdate!Next, SelfUpdate!updaterVars, SelfUpdate!Start, SelfUpdate!reconcileReplacementState, SelfUpdate!reconciledFailed, SelfUpdate!probation, SelfUpdate!resumePendingReplacement, SelfUpdate!rolledBack, SelfUpdate!leave, SelfUpdate!restored,
         SelfUpdate!collect, SelfUpdate!Rollback, SelfUpdate!undo, SelfUpdate!Exit, SelfUpdate!MarkApplied, SelfUpdate!settled, SelfUpdate!reportApplied, SelfUpdate!reportDownloaded, SelfUpdate!check, SelfUpdate!downloadAndVerify, SelfUpdate!stageVerifiedArtifact, SelfUpdate!intent,
         SelfUpdate!applyUpdate, SelfUpdate!applied, SelfUpdate!failStagedUpdate, SelfUpdate!Crash, SelfUpdate!Only, SelfUpdate!Histories
<1>2. SUFFICES ASSUME SelfUpdate!DiskTrue, SelfUpdate!ProcTrue PROVE gaveUp' \/ (SelfUpdate!DiskTrue' /\ SelfUpdate!ProcTrue')
  BY <1>1 DEF SelfUpdate!UpdateInv
<1>3. CASE UNCHANGED SelfUpdate!updaterVars
  <2>1. SelfUpdate!DiskTrue'
    BY <1>2, <1>3, DiskSame DEF SelfUpdate!DiskTrue, SelfUpdate!updaterVars
  <2>2. SelfUpdate!ProcTrue'
    BY <1>2, <1>3 DEF SelfUpdate!ProcTrue, SelfUpdate!updaterVars, SelfUpdate!Procs, SelfUpdate!No
  <2>. QED BY <2>1, <2>2
<1>4. CASE SelfUpdate!Next
  BY <1>2, <1>4, UpdateStartOK, ReconcileOK, ReconciledOK, ProbationOK, ResumeOK, RolledOK, UpdateLeaveOK, RestoredOK, CollectOK, RollbackOK, UndoOK, GoneOK,
     MarkAppliedOK, SettledOK, ReportAppliedOK, ReportDownloadedOK, CheckOK, DownloadOK, StageOK, IntentOK, ApplyOK, AppliedOK, FailStagedOK DEF SelfUpdate!Next
<1>. QED BY <1>3, <1>4

\* WayBack, OneTrial and EndsTrue of Updater, however often it dies or a write fails: a
\* binary that never completed a collection can be taken back to one that did, it gets one
\* start in which to do so, and what the server is told of an update happened.
THEOREM UpdatesTrue ==
  ASSUME SelfUpdate!UpdaterAssumption PROVE SelfUpdate!Spec => []SelfUpdate!UpdateTrue
<1>1. SelfUpdate!Init => SelfUpdate!UpdateInv
  BY UpdateInit
<1>2. SelfUpdate!UpdateInv /\ [SelfUpdate!Next]_(SelfUpdate!updaterVars) => SelfUpdate!UpdateInv'
  BY UpdateStep
<1>3. SelfUpdate!UpdateInv => SelfUpdate!UpdateTrue
  BY UpdateImplies
<1>. QED BY <1>1, <1>2, <1>3, PTL DEF SelfUpdate!Spec

-------------------------------------------------------------------------------
(* The router's commands.  BackendInv is of the rows of the manager and of          *)
(* CastrelSign, the agent's journal and the router: what each says of a command is  *)
(* one of the points of its life, told here in the order in which they are          *)
(* reached.  RunsTrue says why a change is carried out once: the agent notes a      *)
(* command in its journal before it begins.  PanelInv is of the panel, which only   *)
(* holds what it was told: that is still so when it uses it, or is asked again.     *)
Router == INSTANCE RouterControl WITH Services <- RouterServices

LEMMA Constants ==
  /\ Router!Configs' = Router!Configs /\ Router!Requests' = Router!Requests /\ Router!Outcomes' = Router!Outcomes /\ Router!Routers' = Router!Routers /\ Router!Records' = Router!Records
  /\ Router!Tasks' = Router!Tasks /\ Router!Journals' = Router!Journals
  BY DEF Router!Configs, Router!JobStatuses, Router!Requests, Router!Outcomes, Router!Routers, Router!Records, Router!Tasks, Router!Journals, Router!Open

LEMMA Nothing == Router!Empty \in Router!Configs /\ Router!NoRequest \in Router!Requests /\ Router!NoOutcome \in Router!Outcomes
<1>1. Router!Empty \in Router!Configs
  BY DEF Router!Empty, Router!Configs
<1>2. Router!NoRequest \in Router!Requests
  BY <1>1 DEF Router!NoRequest, Router!Request, Router!Requests
<1>3. Router!NoOutcome \in Router!Outcomes
  BY <1>1 DEF Router!NoOutcome, Router!Outcome, Router!Outcomes
<1>. QED BY <1>1, <1>2, <1>3

LEMMA FailedIs ==
  ASSUME NEW why \in {"failed", "expired"}
  PROVE  Router!Failed(why) \in Router!Outcomes /\ ~ Router!Failed(why).ok /\ Router!Failed(why) # Router!NoOutcome /\ Router!Said(Router!Failed(why))
<1>1. PICK o : o = Router!Failed(why)
  OBVIOUS
<1>2. o = [ok |-> FALSE, rev |-> 0, config |-> Router!Empty, job |-> 0, status |-> why]
  BY <1>1 DEF Router!Failed, Router!Outcome
<1>3. o \in Router!Outcomes
  BY <1>2, Nothing DEF Router!Outcomes
<1>4. ~ o.ok /\ o.status = why /\ o.status # Router!None
  BY <1>2 DEF Router!None
<1>5. o # Router!NoOutcome
  BY <1>4 DEF Router!NoOutcome, Router!Outcome
<1>. QED BY <1>1, <1>3, <1>4, <1>5 DEF Router!Said

LEMMA NoneSaid == Router!Said(Router!NoOutcome) /\ ~ Router!NoOutcome.ok
  BY DEF Router!Said, Router!NoOutcome, Router!Outcome, Router!None

LEMMA SaidLasts == ASSUME Router!Kept, NEW o, Router!Said(o) PROVE Router!Said(o)'
  BY DEF Router!Said, Router!Kept

LEMMA TakenIs ==
  ASSUME router \in Router!Routers, NEW j \in Router!Unfinished, NEW s \in Router!JobStatuses, NEW r, r = Router!Taken(j, s)
  PROVE  /\ r \in Router!Routers /\ r.seen = router.seen /\ r.rev = router.rev /\ Len(r.jobs) = Len(router.jobs) /\ DOMAIN r.jobs = DOMAIN router.jobs
         /\ r.jobs[j] = s /\ \A k \in DOMAIN router.jobs : k # j => r.jobs[k] = router.jobs[k]
<1>1. router.jobs \in Seq(Router!JobStatuses) /\ j \in DOMAIN router.jobs
  BY DEF Router!Routers, Router!Unfinished
<1>2. PICK q : q = [router.jobs EXCEPT ![j] = s]
  OBVIOUS
<1>3. q \in Seq(Router!JobStatuses) /\ Len(q) = Len(router.jobs) /\ DOMAIN q = DOMAIN router.jobs /\ q[j] = s /\ \A k \in DOMAIN router.jobs : k # j => q[k] = router.jobs[k]
  BY <1>1, <1>2
<1>4. r = [router EXCEPT !.jobs = q]
  BY <1>2 DEF Router!Taken
<1>5. r \in Router!Routers /\ r.seen = router.seen /\ r.rev = router.rev /\ r.jobs = q
  BY <1>3, <1>4 DEF Router!Routers
<1>. QED BY <1>3, <1>5

LEMMA BackIs ==
  ASSUME router \in Router!Routers, NEW j \in Router!Unfinished, NEW r, r = Router!Back(j)
  PROVE  /\ r \in Router!Routers /\ r.seen = router.seen /\ Len(r.jobs) = Len(router.jobs) /\ DOMAIN r.jobs = DOMAIN router.jobs
         /\ r.jobs[j] = "rolled_back" /\ \A k \in DOMAIN router.jobs : k # j => r.jobs[k] = router.jobs[k]
<1>1. router.jobs \in Seq(Router!JobStatuses) /\ j \in DOMAIN router.jobs
  BY DEF Router!Routers, Router!Unfinished
<1>2. PICK q : q = [router.jobs EXCEPT ![j] = "rolled_back"]
  OBVIOUS
<1>3. q \in Seq(Router!JobStatuses) /\ Len(q) = Len(router.jobs) /\ DOMAIN q = DOMAIN router.jobs /\ q[j] = "rolled_back" /\ \A k \in DOMAIN router.jobs : k # j => q[k] = router.jobs[k]
  BY <1>1, <1>2 DEF Router!JobStatuses
<1>4. r = [router EXCEPT !.jobs = q, !.config = router.before, !.rev = router.rev + 1]
  BY <1>2 DEF Router!Back
<1>5. r \in Router!Routers /\ r.seen = router.seen /\ r.jobs = q
  <2>1. router.rev \in Nat /\ router.before \in Router!Configs /\ router.seen \in [Commands -> Nat]
    BY DEF Router!Routers
  <2>2. r = [rev |-> router.rev + 1, config |-> router.before, before |-> router.before, jobs |-> q, seen |-> router.seen]
    BY <1>4 DEF Router!Routers
  <2>3. r \in Router!Routers
    BY <1>3, <2>1, <2>2 DEF Router!Routers
  <2>. QED BY <2>2, <2>3
<1>. QED BY <1>3, <1>5

\* What a running command makes of the router.
LEMMA ToldIs ==
  ASSUME NEW r \in Router!Routers, NEW j \in Nat, NEW o, o = Router!Told(r, j)
  PROVE  /\ o \in Router!Outcomes /\ o # Router!NoOutcome
         /\ o.status \in {"committed", "rolled_back"} => o.job \in DOMAIN r.jobs /\ r.jobs[o.job] = o.status
         /\ o.ok => o.job = j /\ j # 0
<1>1. CASE j \in DOMAIN r.jobs
  <2>1. r.jobs[j] \in Router!JobStatuses /\ j # 0
    BY <1>1 DEF Router!Routers
  <2>2. o = [ok |-> TRUE, rev |-> 0, config |-> Router!Empty, job |-> j, status |-> r.jobs[j]]
    BY <1>1 DEF Router!Told, Router!Outcome
  <2>3. o \in Router!Outcomes
    BY <2>1, <2>2, Nothing DEF Router!Outcomes
  <2>4. o.ok /\ o.job = j /\ o.status = r.jobs[j]
    BY <2>2
  <2>. QED BY <1>1, <2>1, <2>3, <2>4, NoneSaid
<1>2. CASE j \notin DOMAIN r.jobs
  <2>1. o = Router!Failed("failed")
    BY <1>2 DEF Router!Told
  <2>2. o.status = "failed"
    BY <2>1 DEF Router!Failed, Router!Outcome
  <2>. QED BY <2>1, <2>2, FailedIs
<1>. QED BY <1>1, <1>2


LEMMA StaysIs ==
  ASSUME router \in Router!Routers, NEW c \in Commands, NEW req \in Router!Requests, NEW e, e.router = router, e.out \in Router!Outcomes, e.out # Router!NoOutcome,
         e.out.status \in {"committed", "rolled_back"} => e.out.job \in DOMAIN router.jobs /\ router.jobs[e.out.job] = e.out.status,
         req.action = "apply" /\ e.out.ok => router.seen[c] # 0, req.action = "jobs" /\ e.out.ok => e.out.job # 0
  PROVE  Router!Carried(c, req, e)
<1>1. Len(router.jobs) \in Nat
  BY DEF Router!Routers
<1>. QED BY <1>1 DEF Router!Carried

LEMMA ChangeIs ==
  ASSUME router \in Router!Routers, NEW c \in Commands, NEW req \in Router!Requests, req.action = "apply", NEW e, e = Router!Change(c, req)
  PROVE  Router!Carried(c, req, e)
<1>0. router.seen \in [Commands -> Nat] /\ router.jobs \in Seq(Router!JobStatuses) /\ router.rev \in Nat /\ router.config \in Router!Configs /\ router.before \in Router!Configs
  BY DEF Router!Routers
<1>1. CASE router.seen[c] # 0
  <2>1. router.seen[c] \in Nat
    BY <1>0
  <2>2. e.router = router /\ e.out = Router!Told(router, router.seen[c])
    BY <1>1 DEF Router!Change
  <2>. QED BY <1>1, <2>1, <2>2, ToldIs, StaysIs
<1>2. CASE router.seen[c] = 0 /\ (req.rev # router.rev \/ Router!Unfinished # {})
  <2>2. e.router = router /\ e.out = Router!Failed("failed")
    BY <1>2 DEF Router!Change
  <2>3. e.out \in Router!Outcomes /\ ~ e.out.ok /\ e.out # Router!NoOutcome /\ e.out.status = "failed"
    BY <2>2, FailedIs DEF Router!Failed, Router!Outcome
  <2>. QED BY <2>2, <2>3, StaysIs
<1>3. CASE router.seen[c] = 0 /\ ~ (req.rev # router.rev \/ Router!Unfinished # {})
  <2> DEFINE j == Len(router.jobs) + 1
  <2>1. j \in Nat /\ j # 0 /\ Len(router.jobs) \in Nat
    BY <1>0
  <2>2. PICK q, z : q = Append(router.jobs, "applying") /\ z = [router.seen EXCEPT ![c] = j]
    OBVIOUS
  <2>3. /\ q \in Seq(Router!JobStatuses) /\ Len(q) = j /\ DOMAIN q = 1..j /\ q[j] = "applying" /\ DOMAIN router.jobs = 1..Len(router.jobs)
        /\ \A k \in DOMAIN router.jobs : k \in DOMAIN q /\ q[k] = router.jobs[k]
    BY <1>0, <2>1, <2>2 DEF Router!JobStatuses
  <2>4. z \in [Commands -> Nat] /\ z[c] = j /\ \A d \in Commands : d # c => z[d] = router.seen[d]
    BY <1>0, <2>1, <2>2
  <2>5. PICK n : n = [router EXCEPT !.rev = @ + 1, !.config = req.config, !.before = router.config, !.jobs = q, !.seen = z]
    OBVIOUS
  <2>6. e = [router |-> n, out |-> Router!Told(n, j)]
    BY <1>3, <2>2, <2>5 DEF Router!Change
  <2>7. n = [rev |-> router.rev + 1, config |-> req.config, before |-> router.config, jobs |-> q, seen |-> z]
    BY <2>5 DEF Router!Routers
  <2>8. n \in Router!Routers
    BY <1>0, <2>3, <2>4, <2>7 DEF Router!Routers, Router!Requests
  <2>9. n.jobs = q /\ n.seen = z /\ e.router = n /\ e.out = Router!Told(n, j)
    BY <2>6, <2>7
  <2>10. /\ e.out \in Router!Outcomes /\ e.out # Router!NoOutcome
         /\ e.out.status \in {"committed", "rolled_back"} => e.out.job \in DOMAIN n.jobs /\ n.jobs[e.out.job] = e.out.status
    <3> HIDE DEF j
    <3>. QED BY <2>1, <2>8, <2>9, ToldIs
  <2>11. Len(n.jobs) = Len(router.jobs) + 1
    BY <2>3, <2>9
  <2>. QED BY <1>3, <2>1, <2>3, <2>4, <2>8, <2>9, <2>10, <2>11 DEF Router!Carried
<1>. QED BY <1>1, <1>2, <1>3

LEMMA RouterSettledIs ==
  ASSUME router \in Router!Routers, NEW c \in Commands, NEW req \in Router!Requests, req.action \in {"confirm", "rollback"}, NEW s \in {"committed", "rolled_back"}, NEW e, e = Router!Settled(req, s)
  PROVE  Router!Carried(c, req, e)
<1>0. req.job \in Nat
  BY DEF Router!Requests
<1>1. CASE req.job \notin Router!Awaiting
  <2>1. e.router = router /\ e.out = Router!Told(router, req.job)
    BY <1>1 DEF Router!Settled
  <2>. QED BY <1>0, <2>1, ToldIs, StaysIs
<1>2. CASE req.job \in Router!Awaiting
  <2>0. req.job \in Router!Unfinished /\ req.job \in DOMAIN router.jobs /\ router.jobs[req.job] = "awaiting_confirmation" /\ s \in Router!JobStatuses
    BY <1>2 DEF Router!Awaiting, Router!Unfinished, Router!JobStatuses
  <2>1. PICK n : n = IF s = "committed" THEN Router!Taken(req.job, s) ELSE Router!Back(req.job)
    OBVIOUS
  <2>2. e.router = n /\ e.out = Router!Told(n, req.job)
    BY <1>2, <2>1 DEF Router!Settled
  <2>3. /\ n \in Router!Routers /\ n.seen = router.seen /\ Len(n.jobs) = Len(router.jobs) /\ DOMAIN n.jobs = DOMAIN router.jobs
        /\ \A k \in DOMAIN router.jobs : k # req.job => n.jobs[k] = router.jobs[k]
    BY <2>0, <2>1, TakenIs, BackIs
  <2>4. /\ e.out \in Router!Outcomes /\ e.out # Router!NoOutcome
        /\ e.out.status \in {"committed", "rolled_back"} => e.out.job \in DOMAIN n.jobs /\ n.jobs[e.out.job] = e.out.status
    BY <1>0, <2>2, <2>3, ToldIs
  <2>5. Len(router.jobs) \in Nat
    BY DEF Router!Routers
  <2>. QED BY <2>0, <2>2, <2>3, <2>4, <2>5 DEF Router!Carried
<1>. QED BY <1>1, <1>2

LEMMA PlainIs ==
  ASSUME NEW job \in Nat, NEW rev \in Nat, NEW cfg \in Router!Configs
  PROVE  Router!Outcome(TRUE, rev, cfg, job, Router!None) \in Router!Outcomes /\ Router!Outcome(TRUE, rev, cfg, job, Router!None) # Router!NoOutcome /\ Router!Outcome(TRUE, rev, cfg, job, Router!None).status = Router!None
<1>1. PICK o : o = Router!Outcome(TRUE, rev, cfg, job, Router!None)
  OBVIOUS
<1>2. o = [ok |-> TRUE, rev |-> rev, config |-> cfg, job |-> job, status |-> Router!None]
  BY <1>1 DEF Router!Outcome
<1>3. o \in Router!Outcomes
  BY <1>2 DEF Router!Outcomes
<1>4. o.ok /\ o.status = Router!None
  BY <1>2
<1>. QED BY <1>1, <1>3, <1>4, NoneSaid

LEMMA SameIs ==
  ASSUME router \in Router!Routers, NEW c \in Commands, NEW req \in Router!Requests, NEW o \in Router!Outcomes, o # Router!NoOutcome, req.action # "apply",
         o.status \in {"committed", "rolled_back"} => o.job \in DOMAIN router.jobs /\ router.jobs[o.job] = o.status,
         req.action = "jobs" /\ o.ok => o.job # 0
  PROVE  Router!Carried(c, req, Router!Same(o))
<1>1. PICK e : e = Router!Same(o)
  OBVIOUS
<1>2. e.router = router /\ e.out = o
  BY <1>1 DEF Router!Same
<1>. QED BY <1>1, <1>2, StaysIs

LEMMA EffectIs ==
  ASSUME router \in Router!Routers, NEW c \in Commands, NEW req \in Router!Requests, req.action # Router!None
  PROVE  Router!Carried(c, req, Router!Effect(c, req))
<1>0. req.job \in Nat /\ req.rev \in Nat
  BY DEF Router!Requests
<1>1. CASE req.action = "state"
  <2>1. PICK j : j = IF Router!Awaiting = {} THEN 0 ELSE CHOOSE k \in Router!Awaiting : TRUE
    OBVIOUS
  <2>2. j \in Nat
    <3>1. Router!Awaiting \subseteq Nat
      BY DEF Router!Awaiting, Router!Routers
    <3>. QED BY <2>1, <3>1
  <2>3. router.rev \in Nat /\ router.config \in Router!Configs
    BY DEF Router!Routers
  <2>4. Router!Effect(c, req) = Router!Same(Router!Outcome(TRUE, router.rev, router.config, j, Router!None))
    BY <1>1, <2>1 DEF Router!Effect
  <2>5. Router!None \notin {"committed", "rolled_back"}
    BY DEF Router!None
  <2>. QED BY <1>1, <2>2, <2>3, <2>4, <2>5, PlainIs, SameIs
<1>2. CASE req.action = "jobs"
  <2>1. Router!Effect(c, req) = Router!Same(Router!Told(router, req.job))
    BY <1>2 DEF Router!Effect
  <2>. QED BY <1>0, <1>2, <2>1, ToldIs, SameIs
<1>3. CASE req.action \in {"validate", "restart"}
  <2>1. PICK o \in {Router!Outcome(TRUE, 0, Router!Empty, 0, Router!None), Router!Failed("failed")} : Router!Effect(c, req) = Router!Same(o)
    BY <1>3 DEF Router!Effect
  <2>2. o \in Router!Outcomes /\ o # Router!NoOutcome /\ o.status \in {Router!None, "failed"}
    <3>1. CASE o = Router!Outcome(TRUE, 0, Router!Empty, 0, Router!None)
      BY <3>1, Nothing, PlainIs
    <3>2. CASE o = Router!Failed("failed")
      BY <3>2, FailedIs DEF Router!Failed, Router!Outcome
    <3>. QED BY <3>1, <3>2
  <2>3. o.status \notin {"committed", "rolled_back"}
    BY <2>2 DEF Router!None
  <2>. QED BY <1>3, <2>1, <2>2, <2>3, SameIs
<1>4. CASE req.action = "apply"
  BY <1>4, ChangeIs DEF Router!Effect
<1>5. CASE req.action = "confirm"
  BY <1>5, RouterSettledIs DEF Router!Effect
<1>6. CASE req.action = "rollback"
  BY <1>6, RouterSettledIs DEF Router!Effect
<1>. QED BY <1>1, <1>2, <1>3, <1>4, <1>5, <1>6 DEF Router!Requests

\* Records of which nothing changes.
LEMMA RecordLasts ==
  ASSUME NEW c \in Commands, Router!RecordTrue(c), UNCHANGED <<command[c], task[c], journal[c], carried[c], router.seen[c]>>
  PROVE  Router!RecordTrue(c)'
  BY DEF Router!RecordTrue, Router!Req, Router!Acts

LEMMA RunsLast ==
  ASSUME NEW c \in Commands, Router!RunsTrue(c), UNCHANGED <<phase, command[c], journal[c], carried[c]>>
  PROVE  Router!RunsTrue(c)'
  BY DEF Router!RunsTrue, Router!Req, Router!Acts

LEMMA HeadIs == ASSUME Router!BackendInv, claimed # <<>> PROVE Head(claimed) \in Commands /\ command[Head(claimed)] # Router!Unused /\ Router!RunsTrue(Head(claimed))
<1>1. claimed \in Seq(Commands) /\ 1 \in DOMAIN claimed /\ Head(claimed) = claimed[1]
  BY DEF Router!BackendInv, Router!BackendType
<1>. QED BY <1>1 DEF Router!BackendInv, Router!AgentTrue

LEMMA StatusNot == ASSUME NEW u, u.status # Router!None PROVE u # Router!Unused
  BY DEF Router!Unused
LEMMA UnusedIs == Router!Unused \in Router!Records /\ Router!Unused.status = Router!None /\ Router!Unused.out = Router!NoOutcome /\ Router!Unused.req = Router!NoRequest
  BY Nothing DEF Router!Unused, Router!Records

\* The manager's record of a command follows its task, which may be made.
LEMMA SaysOK ==
  ASSUME Router!BackendInv, NEW c \in Commands, command[c].status \in Router!Open, UNCHANGED <<router, claimed, phase, journal, carried>>,
         NEW t \in Router!Tasks, NEW u \in Router!Records, task' = [task EXCEPT ![c] = t], command' = [command EXCEPT ![c] = u],
         t.out = task[c].out, t = task[c] \/ (t.status = "PENDING" /\ task[c].status = Router!None),
         u.req = command[c].req, u.status # Router!None, u.out \in {command[c].out, t.out}, u.status = "COMPLETED" => t.status = "COMPLETED" /\ u.out = t.out
  PROVE  Router!BackendInv' /\ Router!Req(c)' = Router!Req(c)
<1>0. command \in [Commands -> Router!Records] /\ task \in [Commands -> Router!Tasks]
  BY DEF Router!BackendInv, Router!BackendType
<1>6. command' \in [Commands -> Router!Records] /\ task' \in [Commands -> Router!Tasks] /\ command'[c] = u /\ task'[c] = t
      /\ \A d \in Commands : d # c => command'[d] = command[d] /\ task'[d] = task[d]
  BY <1>0
<1>7. ASSUME NEW d \in Commands PROVE Router!RecordTrue(d)' /\ Router!Said(journal[d].out)' /\ Router!Said(task[d].out)' /\ Router!Said(command[d].out)'
  <2>0. Router!RecordTrue(d) /\ Router!Said(journal[d].out) /\ Router!Said(task[d].out) /\ Router!Said(command[d].out)
    BY DEF Router!BackendInv, Router!SaidTrue
  <2>1. CASE d # c
    BY <2>0, <2>1, <1>0, <1>6, RecordLasts DEF Router!Said
  <2>2. CASE d = c
    <3>1. u # Router!Unused /\ command[c] # Router!Unused
      BY <1>0, UnusedIs DEF Router!Open, Router!None
    <3>2. Router!RecordTrue(c)'
      BY <2>0, <2>2, <3>1, <1>0, <1>6 DEF Router!RecordTrue, Router!Req, Router!Acts, Router!None
    <3>3. Router!Said(u.out) /\ Router!Said(t.out)
      BY <2>0, <2>2
    <3>. QED BY <2>0, <2>2, <3>2, <3>3, <1>0, <1>6 DEF Router!Said
  <2>. QED BY <2>1, <2>2
<1>8. Router!AgentTrue'
  <2>1. ASSUME NEW i \in DOMAIN claimed PROVE command'[claimed[i]] # Router!Unused
    <3>1. command[claimed[i]] # Router!Unused /\ claimed[i] \in Commands
      BY DEF Router!BackendInv, Router!BackendType, Router!AgentTrue
    <3>2. u # Router!Unused
      BY StatusNot
    <3>. QED BY <3>1, <3>2, <1>6
  <2>2. ASSUME claimed # <<>> PROVE Router!RunsTrue(Head(claimed))'
    <3>1. Head(claimed) \in Commands /\ Router!RunsTrue(Head(claimed))
      BY <2>2, HeadIs
    <3>2. command'[Head(claimed)].req = command[Head(claimed)].req
      BY <3>1, <1>6
    <3>. QED BY <3>1, <3>2, <1>0 DEF Router!RunsTrue, Router!Req, Router!Acts
  <2>. QED BY <2>1, <2>2, <1>0 DEF Router!AgentTrue, Router!BackendInv
<1>9. Router!Said(phase.out)'
  BY <1>0 DEF Router!Said, Router!BackendInv, Router!SaidTrue
<1>10. Router!BackendType'
  BY <1>0, <1>6, Constants DEF Router!BackendInv, Router!BackendType
<1>. QED BY <1>6, <1>7, <1>8, <1>9, <1>10 DEF Router!BackendInv, Router!SaidTrue, Router!Req

LEMMA RefreshOK == ASSUME Router!BackendInv, NEW c \in Commands, NEW answered \in BOOLEAN, Router!refresh(c, answered) PROVE Router!BackendInv' /\ Router!Req(c)' = Router!Req(c)
<1> DEFINE tasked == IF command[c].status = "QUEUED" /\ ~ (command[c].status = "QUEUED" /\ "expired" \in clock[c]) /\ task[c].status = Router!None
                   THEN [task EXCEPT ![c].status = "PENDING"] ELSE task
<1>0. /\ command \in [Commands -> Router!Records] /\ task \in [Commands -> Router!Tasks] /\ command[c].status \in Router!Open
      /\ UNCHANGED <<router, claimed, phase, journal, carried>>
  BY DEF Router!BackendInv, Router!BackendType, Router!refresh
<1>1. PICK t : t = tasked[c]
  OBVIOUS
<1>2. /\ task' = [task EXCEPT ![c] = t] /\ t \in Router!Tasks /\ t.out = task[c].out
      /\ t = task[c] \/ (t.status = "PENDING" /\ task[c].status = Router!None)
  <2>1. CASE tasked = task
    BY <1>0, <1>1, <2>1 DEF Router!refresh
  <2>2. CASE tasked = [task EXCEPT ![c].status = "PENDING"] /\ task[c].status = Router!None
    <3>1. t = [task[c] EXCEPT !.status = "PENDING"] /\ task[c] \in Router!Tasks
      BY <1>0, <1>1, <2>2
    <3>2. t \in Router!Tasks /\ t.out = task[c].out /\ t.status = "PENDING"
      BY <3>1 DEF Router!Tasks, Router!Open
    <3>3. task' = [task EXCEPT ![c] = t]
      BY <1>0, <1>1, <2>2, <3>1 DEF Router!refresh
    <3>. QED BY <2>2, <3>2, <3>3
  <2>. QED BY <2>1, <2>2
<1>3. PICK u : u = command'[c]
  OBVIOUS
<1>4. /\ command' = [command EXCEPT ![c] = u]
      /\ \/ u = [command[c] EXCEPT !.status = "UNKNOWN"]
         \/ t.status # Router!None /\ u = [command[c] EXCEPT !.status = t.status, !.out = t.out]
         \/ u = command[c]
  <2> DEFINE lost == command[c].status = "QUEUED" /\ "expired" \in clock[c]
             over == "late" \in clock[c]
             v == IF lost \/ (over /\ (~ answered \/ t.status \in Router!Open \cup {Router!None})) THEN [command[c] EXCEPT !.status = "UNKNOWN"]
                  ELSE IF answered /\ t.status # Router!None THEN [command[c] EXCEPT !.status = t.status, !.out = t.out] ELSE command[c]
  <2>1. command' = [command EXCEPT ![c] = v]
    BY <1>0, <1>1 DEF Router!refresh
  <2>2. u = v
    BY <1>0, <1>3, <2>1
  <2>. QED BY <2>1, <2>2
<1>5. /\ u \in Router!Records /\ u.req = command[c].req /\ u.status # Router!None
      /\ u.out \in {command[c].out, t.out} /\ (u.status = "COMPLETED" => t.status = "COMPLETED" /\ u.out = t.out)
  <2>1. command[c] \in Router!Records /\ command[c].status \in {"QUEUED", "PENDING", "RUNNING"}
    BY <1>0 DEF Router!Open
  <2>2. CASE u = [command[c] EXCEPT !.status = "UNKNOWN"]
    BY <2>1, <2>2 DEF Router!Records, Router!Open, Router!None
  <2>3. CASE t.status # Router!None /\ u = [command[c] EXCEPT !.status = t.status, !.out = t.out]
    <3>1. u = [req |-> command[c].req, status |-> t.status, out |-> t.out]
      BY <2>1, <2>3 DEF Router!Records
    <3>. QED BY <2>1, <2>3, <3>1, <1>2 DEF Router!Records, Router!Tasks
  <2>4. CASE u = command[c]
    BY <2>1, <2>4 DEF Router!None
  <2>. QED BY <1>4, <2>2, <2>3, <2>4
<1>. QED BY <1>0, <1>2, <1>4, <1>5, SaysOK

LEMMA UnreachableOK == ASSUME Router!BackendInv, NEW c \in Commands, Router!unreachable(c) PROVE Router!BackendInv' /\ Router!Req(c)' = Router!Req(c)
<1>0. command \in [Commands -> Router!Records] /\ task \in [Commands -> Router!Tasks] /\ command[c].status \in Router!Open /\ UNCHANGED <<router, task, claimed, phase, journal, carried>>
  BY DEF Router!BackendInv, Router!BackendType, Router!unreachable
<1>1. PICK u : u = [command[c] EXCEPT !.status = "UNKNOWN"]
  OBVIOUS
<1>2. u \in Router!Records /\ u.req = command[c].req /\ u.status = "UNKNOWN" /\ u.out = command[c].out
  BY <1>0, <1>1 DEF Router!Records
<1>3. command' = [command EXCEPT ![c] = u] /\ task' = [task EXCEPT ![c] = task[c]] /\ task[c] \in Router!Tasks
  BY <1>0, <1>1 DEF Router!unreachable
<1>4. u.status # Router!None /\ u.status # "COMPLETED"
  BY <1>2 DEF Router!None
<1>. QED BY <1>0, <1>2, <1>3, <1>4, SaysOK

\* Time passes, or the agent stops.
LEMMA TickOK == ASSUME Router!BackendInv, UNCHANGED <<router, command, task, claimed, phase, journal, carried>> PROVE Router!BackendInv'
<1>1. \A c \in Commands : Router!RecordTrue(c)'
  BY RecordLasts DEF Router!BackendInv
<1>2. Router!AgentTrue'
  <2>1. claimed # <<>> => Router!RunsTrue(Head(claimed))'
    BY HeadIs, RunsLast
  <2>. QED BY <2>1 DEF Router!BackendInv, Router!AgentTrue
<1>3. Router!SaidTrue' /\ Router!BackendType'
  BY Constants DEF Router!BackendInv, Router!SaidTrue, Router!Said, Router!BackendType
<1>. QED BY <1>1, <1>2, <1>3 DEF Router!BackendInv

LEMMA CrashOK == ASSUME Router!BackendInv, Router!Crash PROVE Router!BackendInv'
<1>0. claimed' = <<>> /\ phase' = Router!AtRest /\ UNCHANGED <<router, command, task, journal, carried>>
  BY DEF Router!Crash
<1>1. \A c \in Commands : Router!RecordTrue(c)'
  BY <1>0, RecordLasts DEF Router!BackendInv
<1>2. Router!AgentTrue'
  BY <1>0 DEF Router!AgentTrue
<1>3. phase' = [at |-> "idle", out |-> Router!NoOutcome]
  BY <1>0 DEF Router!AtRest
<1>4. Router!SaidTrue'
  BY <1>0, <1>3, NoneSaid DEF Router!BackendInv, Router!SaidTrue, Router!Said
<1>5. Router!BackendType'
  BY <1>0, <1>3, Nothing, Constants DEF Router!BackendInv, Router!BackendType
<1>. QED BY <1>1, <1>2, <1>4, <1>5 DEF Router!BackendInv

\* The router goes on by itself.
LEMMA RouterOK == ASSUME Router!BackendInv, Router!RouterStep PROVE Router!BackendInv' /\ Router!Kept
<1>0. UNCHANGED <<command, task, claimed, phase, journal, carried>> /\ router \in Router!Routers
  BY DEF Router!BackendInv, Router!BackendType, Router!RouterStep
<1>1. PICK j \in Router!Unfinished : router' \in {Router!Taken(j, "awaiting_confirmation"), Router!Back(j)}
  BY DEF Router!RouterStep
<1>2. /\ router' \in Router!Routers /\ router'.seen = router.seen /\ DOMAIN router'.jobs = DOMAIN router.jobs
      /\ \A k \in DOMAIN router.jobs : k # j => router'.jobs[k] = router.jobs[k]
  <2>1. "awaiting_confirmation" \in Router!JobStatuses
    BY DEF Router!JobStatuses
  <2>. QED BY <1>0, <1>1, <2>1, TakenIs, BackIs
<1>3. Router!Kept
  BY <1>2 DEF Router!Kept, Router!Unfinished
<1>4. \A c \in Commands : Router!RecordTrue(c)'
  BY <1>0, <1>2, RecordLasts DEF Router!BackendInv
<1>5. Router!AgentTrue'
  <2>1. claimed # <<>> => Router!RunsTrue(Head(claimed))'
    BY <1>0, HeadIs, RunsLast
  <2>. QED BY <2>1, <1>0 DEF Router!BackendInv, Router!AgentTrue
<1>6. Router!SaidTrue'
  <2>1. ASSUME NEW c \in Commands PROVE Router!Said(journal[c].out)' /\ Router!Said(task[c].out)' /\ Router!Said(command[c].out)' /\ Router!Said(phase.out)'
    <3>1. Router!Said(journal[c].out) /\ Router!Said(task[c].out) /\ Router!Said(command[c].out) /\ Router!Said(phase.out)
      BY DEF Router!BackendInv, Router!SaidTrue
    <3>. QED BY <1>0, <1>3, <3>1 DEF Router!Said, Router!Kept
  <2>2. Router!Said(phase.out)'
    BY <1>0, <1>3 DEF Router!Said, Router!Kept, Router!BackendInv, Router!SaidTrue
  <2>. QED BY <2>1, <2>2 DEF Router!SaidTrue
<1>7. Router!BackendType'
  BY <1>0, <1>2, Constants DEF Router!BackendInv, Router!BackendType
<1>. QED BY <1>3, <1>4, <1>5, <1>6, <1>7 DEF Router!BackendInv

LEMMA ReclaimedIs ==
  ASSUME Router!BackendInv, NEW c \in Commands
  PROVE  /\ Router!Reclaimed[c] \in Router!Tasks /\ (Router!Said(task[c].out) => Router!Said(Router!Reclaimed[c].out))
         /\ Router!Reclaimed[c] = task[c] \/ (task[c].status \in {"PENDING", "RUNNING"} /\ Router!Reclaimed[c].status \in {"PENDING", "EXPIRED", "UNKNOWN"})
<1>0. task[c] \in Router!Tasks
  BY DEF Router!BackendInv, Router!BackendType
<1>1. PICK r : r = Router!Reclaimed[c]
  OBVIOUS
<1>2. \/ task[c].status = "RUNNING" /\ r = [task[c] EXCEPT !.status = "PENDING"]
      \/ task[c].status = "PENDING" /\ r = [status |-> "EXPIRED", out |-> Router!Failed("expired")]
      \/ task[c].status = "RUNNING" /\ r = [status |-> "UNKNOWN", out |-> Router!Failed("failed")]
      \/ r = task[c]
  BY <1>1 DEF Router!Reclaimed
<1>3. CASE task[c].status = "RUNNING" /\ r = [task[c] EXCEPT !.status = "PENDING"]
  <2>1. r = [status |-> "PENDING", out |-> task[c].out]
    BY <1>0, <1>3 DEF Router!Tasks
  <2>2. r \in Router!Tasks
    BY <1>0, <2>1 DEF Router!Tasks, Router!Open
  <2>. QED BY <1>1, <1>3, <2>1, <2>2
<1>4. CASE task[c].status = "PENDING" /\ r = [status |-> "EXPIRED", out |-> Router!Failed("expired")]
  BY <1>1, <1>4, FailedIs DEF Router!Tasks
<1>5. CASE task[c].status = "RUNNING" /\ r = [status |-> "UNKNOWN", out |-> Router!Failed("failed")]
  BY <1>1, <1>5, FailedIs DEF Router!Tasks
<1>6. CASE r = task[c]
  BY <1>0, <1>1, <1>6
<1>. QED BY <1>2, <1>3, <1>4, <1>5, <1>6

LEMMA PollOK ==
  ASSUME Router!RouterAssumption, Router!BackendInv, NEW n \in 1..MaxClaims, NEW order \in [1..n -> Commands], NEW answered \in BOOLEAN, Router!poll(order, answered)
  PROVE  Router!BackendInv'
<1>0. claimed = <<>> /\ phase = Router!AtRest /\ UNCHANGED <<router, command, phase, journal, carried>>
  BY DEF Router!BackendInv, Router!AgentTrue, Router!poll
<1>1. order \in Seq(Commands) /\ claimed' \in {order, <<>>}
  BY DEF Router!poll, Router!RouterAssumption
<1>2. \A c \in Router!Range(order) : c \in Commands /\ Router!Reclaimed[c].status = "PENDING"
  BY DEF Router!poll
<1>3. ASSUME NEW c \in Commands
      PROVE  /\ task'[c] \in Router!Tasks /\ (Router!Said(task[c].out) => Router!Said(task'[c].out))
             /\ task'[c] = task[c] \/ (task[c].status \in {"PENDING", "RUNNING"} /\ task'[c].status # "COMPLETED")
  <2>1. PICK r : r = Router!Reclaimed[c]
    OBVIOUS
  <2>2. /\ r \in Router!Tasks /\ (Router!Said(task[c].out) => Router!Said(r.out))
        /\ r = task[c] \/ (task[c].status \in {"PENDING", "RUNNING"} /\ r.status \in {"PENDING", "EXPIRED", "UNKNOWN"})
    BY <2>1, ReclaimedIs
  <2>3. CASE c \in Router!Range(order)
    <3>1. task'[c] = [r EXCEPT !.status = "RUNNING"] /\ r.status = "PENDING"
      BY <1>2, <2>1, <2>3 DEF Router!poll
    <3>2. task'[c] = [status |-> "RUNNING", out |-> r.out]
      BY <2>2, <3>1 DEF Router!Tasks
    <3>3. task'[c] \in Router!Tasks
      BY <2>2, <3>2 DEF Router!Tasks, Router!Open
    <3>. QED BY <2>2, <3>1, <3>2, <3>3
  <2>4. CASE c \notin Router!Range(order)
    <3>1. task'[c] = r
      BY <2>1, <2>4 DEF Router!poll
    <3>. QED BY <2>2, <3>1
  <2>. QED BY <2>3, <2>4
<1>4. ASSUME NEW c \in Commands PROVE Router!RecordTrue(c)'
  <2>1. Router!RecordTrue(c)
    BY DEF Router!BackendInv
  <2>2. CASE task'[c] = task[c]
    BY <1>0, <2>1, <2>2, RecordLasts
  <2>3. CASE task[c].status \in {"PENDING", "RUNNING"} /\ task'[c].status # "COMPLETED"
    <3>1. command[c] # Router!Unused
      BY <2>1, <2>3 DEF Router!RecordTrue, Router!None
    <3>. QED BY <1>0, <2>1, <2>3, <3>1 DEF Router!RecordTrue, Router!Req, Router!Acts
  <2>. QED BY <1>3, <2>2, <2>3
<1>5. Router!AgentTrue'
  <2>1. ASSUME NEW i \in DOMAIN order PROVE command[order[i]] # Router!Unused
    <3>1. PICK c : c = order[i]
      OBVIOUS
    <3>2. c \in Commands /\ Router!Reclaimed[c].status = "PENDING"
      BY <1>2, <3>1 DEF Router!Range
    <3>3. task[c].status \in {"PENDING", "RUNNING"}
      BY <3>2, ReclaimedIs
    <3>4. Router!RecordTrue(c)
      BY <3>2 DEF Router!BackendInv
    <3>. QED BY <3>1, <3>3, <3>4 DEF Router!RecordTrue, Router!None
  <2>2. phase.at = "idle"
    BY <1>0 DEF Router!AtRest
  <2>. QED BY <1>0, <1>1, <2>1, <2>2 DEF Router!AgentTrue, Router!RunsTrue
<1>6. Router!SaidTrue'
  BY <1>0, <1>3 DEF Router!BackendInv, Router!SaidTrue, Router!Said
<1>7. task' \in [Commands -> Router!Tasks]
  BY <1>3 DEF Router!poll
<1>8. Router!BackendType'
  BY <1>0, <1>1, <1>7, Constants DEF Router!BackendInv, Router!BackendType
<1>. QED BY <1>4, <1>5, <1>6, <1>8 DEF Router!BackendInv

\* The agent goes on with the first of its tasks.
LEMMA RunsOn ==
  ASSUME Router!BackendInv, claimed # <<>>, NEW c, c = Head(claimed), UNCHANGED <<command, task, claimed>>, router' \in Router!Routers, Router!Kept,
         journal' \in [Commands -> Router!Journals], carried' \in [Commands -> Nat], phase' \in [at : {"idle", "run", "save", "report"}, out : Router!Outcomes],
         \A d \in Commands \ {c} : UNCHANGED <<journal[d], carried[d], router.seen[d]>>,
         Router!RecordTrue(c)', Router!RunsTrue(c)', Router!Said(phase.out)', Router!Said(journal[c].out)'
  PROVE  Router!BackendInv'
<1>0. c \in Commands
  BY HeadIs
<1>1. ASSUME NEW d \in Commands PROVE Router!RecordTrue(d)' /\ Router!Said(journal[d].out)' /\ Router!Said(task[d].out)' /\ Router!Said(command[d].out)'
  <2>0. Router!RecordTrue(d) /\ Router!Said(journal[d].out) /\ Router!Said(task[d].out) /\ Router!Said(command[d].out)
    BY DEF Router!BackendInv, Router!SaidTrue
  <2>1. Router!Said(task[d].out)' /\ Router!Said(command[d].out)'
    BY <2>0 DEF Router!Said, Router!Kept
  <2>2. CASE d = c
    BY <2>1, <2>2
  <2>3. CASE d # c
    <3>1. UNCHANGED <<command[d], task[d], journal[d], carried[d], router.seen[d]>>
      BY <2>3
    <3>2. Router!RecordTrue(d)'
      BY <2>0, <3>1, RecordLasts
    <3>3. Router!Said(journal[d].out)'
      BY <2>0, <3>1 DEF Router!Said, Router!Kept
    <3>. QED BY <2>1, <3>2, <3>3
  <2>. QED BY <2>2, <2>3
<1>2. Router!AgentTrue'
  BY DEF Router!AgentTrue, Router!BackendInv
<1>3. Router!BackendType'
  BY Constants DEF Router!BackendInv, Router!BackendType
<1>. QED BY <1>1, <1>2, <1>3 DEF Router!BackendInv, Router!SaidTrue

LEMMA SameRouter == ASSUME UNCHANGED router PROVE Router!Kept
  BY DEF Router!Kept

LEMMA ExecuteOK == ASSUME Router!BackendInv, NEW c \in Commands, NEW ok \in BOOLEAN, Router!Execute(c, ok) PROVE Router!BackendInv'
<1>0. claimed # <<>> /\ c = Head(claimed) /\ phase = Router!AtRest /\ UNCHANGED <<router, command, task, claimed, carried>>
  BY DEF Router!Execute, Router!AgentOnly
<1>1. command[c] # Router!Unused /\ Router!RecordTrue(c) /\ Router!Said(journal[c].out) /\ journal \in [Commands -> Router!Journals] /\ journal[c] \in Router!Journals
  BY <1>0, HeadIs DEF Router!BackendInv, Router!SaidTrue, Router!BackendType
<1>2. Router!Kept /\ router' \in Router!Routers /\ carried' \in [Commands -> Nat]
  BY <1>0, SameRouter DEF Router!BackendInv, Router!BackendType
<1>3. CASE journal' = journal /\ phase'.at = "report" /\ phase'.out \in Router!Outcomes /\ phase' = [at |-> "report", out |-> phase'.out]
           /\ (phase'.out.ok => journal[c].out = phase'.out) /\ Router!Said(phase'.out)
  <2>1. phase' \in [at : {"idle", "run", "save", "report"}, out : Router!Outcomes]
    BY <1>3
  <2>2. Router!RecordTrue(c)'
    BY <1>0, <1>1, <1>3, RecordLasts
  <2>3. Router!RunsTrue(c)'
    BY <1>3 DEF Router!RunsTrue
  <2>4. Router!Said(phase.out)' /\ Router!Said(journal[c].out)'
    BY <1>0, <1>1, <1>3 DEF Router!Said
  <2>. QED BY <1>0, <1>1, <1>2, <1>3, <2>1, <2>2, <2>3, <2>4, RunsOn
<1>4. CASE /\ journal[c].out = Router!NoOutcome /\ ~ (journal[c].started /\ Router!Req(c).action = "restart")
           /\ phase' = [Router!AtRest EXCEPT !.at = "run"] /\ journal' = [journal EXCEPT ![c].started = TRUE]
  <2>1. phase' = [at |-> "run", out |-> Router!NoOutcome]
    BY <1>4 DEF Router!AtRest
  <2>2. PICK u : u = [journal[c] EXCEPT !.started = TRUE]
    OBVIOUS
  <2>3. u \in Router!Journals /\ u.started = TRUE /\ u.out = Router!NoOutcome
    BY <1>1, <1>4, <2>2 DEF Router!Journals
  <2>4. journal' = [journal EXCEPT ![c] = u]
    BY <1>4, <2>2
  <2>5. journal' \in [Commands -> Router!Journals] /\ journal'[c] = u /\ \A d \in Commands \ {c} : journal'[d] = journal[d]
    BY <1>1, <2>3, <2>4
  <2>6. Router!RecordTrue(c)'
    BY <1>0, <1>1, <1>4, <2>3, <2>5 DEF Router!RecordTrue, Router!Req, Router!Acts
  <2>7. Router!RunsTrue(c)'
    BY <1>0, <1>1, <1>4, <2>1, <2>3, <2>5 DEF Router!RunsTrue, Router!RecordTrue, Router!Req
  <2>8. Router!Said(phase.out)' /\ Router!Said(journal[c].out)'
    BY <2>1, <2>3, <2>5, NoneSaid DEF Router!Said, Router!NoOutcome, Router!Outcome, Router!None
  <2>9. phase' \in [at : {"idle", "run", "save", "report"}, out : Router!Outcomes]
    BY <2>1, Nothing
  <2>. QED BY <1>0, <1>2, <2>5, <2>6, <2>7, <2>8, <2>9, RunsOn
<1>5. ASSUME NEW o \in Router!Outcomes, journal' = journal, phase' = [at |-> "report", out |-> o], o.ok => journal[c].out = o, Router!Said(o)
      PROVE  Router!BackendInv'
  <2>1. phase'.at = "report" /\ phase'.out = o
    BY <1>5
  <2>. QED BY <1>3, <1>5, <2>1
<1>6. CASE Router!expired(c)
  <2>1. journal' = journal /\ phase' = [at |-> "report", out |-> Router!Failed("expired")]
    BY <1>6 DEF Router!Execute, Router!Answer
  <2>. QED BY <2>1, <1>5, FailedIs
<1>7. CASE ~ Router!expired(c) /\ journal[c].out # Router!NoOutcome
  <2>1. journal' = journal /\ phase' = [at |-> "report", out |-> journal[c].out] /\ journal[c].out \in Router!Outcomes
    BY <1>1, <1>7 DEF Router!Execute, Router!Answer, Router!Journals
  <2>. QED BY <2>1, <1>1, <1>5
<1>8. CASE ~ Router!expired(c) /\ journal[c].out = Router!NoOutcome /\ ((journal[c].started /\ Router!Req(c).action = "restart") \/ ~ ok)
  <2>1. journal' = journal /\ phase' = [at |-> "report", out |-> Router!Failed("failed")]
    BY <1>8 DEF Router!Execute, Router!Answer
  <2>. QED BY <2>1, <1>5, FailedIs
<1>9. CASE ~ Router!expired(c) /\ journal[c].out = Router!NoOutcome /\ ~ (journal[c].started /\ Router!Req(c).action = "restart") /\ ok
  BY <1>4, <1>9 DEF Router!Execute
<1>. QED BY <1>6, <1>7, <1>8, <1>9

LEMMA RunOK == ASSUME Router!BackendInv, NEW c \in Commands, NEW reached \in BOOLEAN, NEW answered \in BOOLEAN, Router!run(c, reached, answered) PROVE Router!BackendInv' /\ Router!Kept
<1>0. phase.at = "run" /\ c = Head(claimed) /\ UNCHANGED <<command, task, claimed, journal>> /\ (answered => reached)
  BY DEF Router!run, Router!AgentOnly
<1>1. claimed # <<>>
  <2>1. phase # Router!AtRest
    BY <1>0 DEF Router!AtRest
  <2>. QED BY <2>1 DEF Router!BackendInv, Router!AgentTrue
<1>2. /\ command[c] # Router!Unused /\ Router!RecordTrue(c) /\ Router!RunsTrue(c) /\ Router!Said(journal[c].out) /\ router \in Router!Routers /\ Router!Req(c) \in Router!Requests
      /\ carried \in [Commands -> Nat] /\ journal \in [Commands -> Router!Journals]
  BY <1>0, <1>1, HeadIs DEF Router!BackendInv, Router!SaidTrue, Router!BackendType, Router!Req, Router!Records
<1>3. PICK e : e = Router!Effect(c, Router!Req(c))
  OBVIOUS
<1>4. Router!Req(c).action # Router!None => Router!Carried(c, Router!Req(c), e)
  BY <1>2, <1>3, EffectIs
<1>5. Router!Carried(c, Router!Req(c), e)
  BY <1>2, <1>4 DEF Router!RecordTrue
<1>6. PICK o : o = IF answered THEN e.out ELSE Router!Failed("failed")
  OBVIOUS
<1>7. phase' = [at |-> "save", out |-> o] /\ router' = (IF reached THEN e.router ELSE router)
      /\ carried' = IF reached /\ ((Router!Req(c).action = "restart" /\ e.out.ok) \/ Len(e.router.jobs) > Len(router.jobs))
                    THEN [carried EXCEPT ![c] = @ + 1] ELSE carried
  BY <1>3, <1>6 DEF Router!run
<1>8. o \in Router!Outcomes /\ o # Router!NoOutcome /\ phase'.at = "save" /\ phase'.out = o /\ phase' \in [at : {"idle", "run", "save", "report"}, out : Router!Outcomes]
  BY <1>5, <1>6, <1>7, FailedIs DEF Router!Carried
<1>9. Router!Kept /\ router' \in Router!Routers
  BY <1>2, <1>5, <1>7 DEF Router!Kept, Router!Carried
<1>10. Router!Said(phase.out)' /\ Router!Said(journal[c].out)'
  <2>1. Router!Said(o)'
    <3>1. CASE answered
      <4>1. o = e.out /\ router' = e.router
        BY <1>0, <1>6, <1>7, <3>1
      <4>. QED BY <4>1, <1>5 DEF Router!Carried, Router!Said
    <3>2. CASE ~ answered
      <4>1. o = Router!Failed("failed") /\ o.status = "failed"
        BY <1>6, <3>2 DEF Router!Failed, Router!Outcome
      <4>. QED BY <4>1 DEF Router!Said
    <3>. QED BY <3>1, <3>2
  <2>2. Router!Said(journal[c].out)'
    BY <1>0, <1>2, <1>9 DEF Router!Said, Router!Kept
  <2>. QED BY <1>8, <2>1, <2>2 DEF Router!Said
<1>11. carried' \in [Commands -> Nat] /\ \A d \in Commands \ {c} : carried'[d] = carried[d]
  BY <1>2, <1>7
<1>12. \A d \in Commands \ {c} : router'.seen[d] = router.seen[d]
  BY <1>5, <1>7 DEF Router!Carried
<1>13. journal[c].started /\ journal[c].out = Router!NoOutcome
  BY <1>0, <1>2 DEF Router!RunsTrue
<1>14. /\ Router!Req(c).action # "restart" => carried'[c] = IF router'.seen[c] = 0 THEN 0 ELSE 1
       /\ Router!Req(c).action = "restart" => carried'[c] \in {0, 1}
       /\ o.ok /\ Router!Acts(c) => carried'[c] = 1
  <2>1. CASE ~ reached
    <3>1. ~ answered /\ ~ o.ok
      BY <1>0, <1>6, <2>1, FailedIs
    <3>. QED BY <2>1, <3>1, <1>2, <1>7 DEF Router!RecordTrue
  <2>2. CASE reached /\ Router!Req(c).action = "restart"
    <3>1. Len(e.router.jobs) = Len(router.jobs) /\ Len(router.jobs) \in Nat
      BY <1>5, <2>2 DEF Router!Carried
    <3>2. carried[c] = 0
      BY <1>0, <1>2, <2>2 DEF Router!RunsTrue
    <3>3. carried' = IF e.out.ok THEN [carried EXCEPT ![c] = @ + 1] ELSE carried
      BY <1>7, <2>2, <3>1
    <3>4. carried'[c] = IF e.out.ok THEN 1 ELSE 0
      BY <1>2, <3>2, <3>3
    <3>5. o.ok => e.out.ok
      BY <1>6, FailedIs
    <3>. QED BY <2>2, <3>4, <3>5
  <2>3. CASE reached /\ Router!Req(c).action # "restart"
    <3>0. router' = e.router /\ carried[c] = (IF router.seen[c] = 0 THEN 0 ELSE 1)
      BY <1>2, <1>7, <2>3 DEF Router!RecordTrue
    <3>1. CASE Len(e.router.jobs) = Len(router.jobs)
      <4>1. carried' = carried /\ e.router.seen = router.seen
        <5>1. ~ (Len(e.router.jobs) > Len(router.jobs))
          BY <3>1, <1>5 DEF Router!Carried
        <5>. QED BY <1>5, <1>7, <2>3, <3>1, <5>1 DEF Router!Carried
      <4>2. o.ok /\ Router!Acts(c) => e.router.seen[c] # 0
        BY <1>5, <1>6, <2>3, FailedIs DEF Router!Carried, Router!Acts
      <4>. QED BY <2>3, <3>0, <4>1, <4>2
    <3>2. CASE Len(e.router.jobs) # Len(router.jobs)
      <4>1. Len(e.router.jobs) > Len(router.jobs) /\ router.seen[c] = 0 /\ e.router.seen[c] # 0
        BY <3>2, <1>5 DEF Router!Carried
      <4>2. carried' = [carried EXCEPT ![c] = @ + 1]
        BY <1>7, <2>3, <4>1
      <4>3. carried'[c] = 1
        BY <1>2, <3>0, <4>1, <4>2
      <4>. QED BY <2>3, <3>0, <4>1, <4>3
    <3>. QED BY <3>1, <3>2
  <2>. QED BY <2>1, <2>2, <2>3
<1>15. Router!RecordTrue(c)'
  <2>1. Router!Req(c)' = Router!Req(c) /\ command'[c] # Router!Unused
    BY <1>0, <1>2 DEF Router!Req
  <2>2. ~ Router!NoOutcome.ok
    BY NoneSaid
  <2>3. journal'[c].started /\ journal'[c].out = Router!NoOutcome /\ UNCHANGED <<command, task>>
    BY <1>0, <1>13
  <2>4. UNCHANGED <<command[c], task[c], journal[c]>>
    BY <1>0
  <2>5. /\ Router!Req(c)'.action # Router!None
        /\ Router!Req(c)'.action # "restart" => carried'[c] = IF router'.seen[c] = 0 THEN 0 ELSE 1
        /\ Router!Req(c)'.action = "restart" => carried'[c] \in {0, 1}
    BY <1>2, <1>14, <2>1 DEF Router!RecordTrue
  <2>6. /\ task'[c].status = "COMPLETED" => task'[c].out.ok /\ journal'[c].out = task'[c].out
        /\ command'[c].status = "COMPLETED" => task'[c].status = "COMPLETED" /\ command'[c].out = task'[c].out
    BY <1>2, <2>4 DEF Router!RecordTrue
  <2>7. ~ journal'[c].out.ok
    BY <2>2, <2>3
  <2>. QED BY <2>1, <2>3, <2>5, <2>6, <2>7 DEF Router!RecordTrue
<1>16. Router!RunsTrue(c)'
  <2>1. Router!Req(c)' = Router!Req(c)
    BY <1>0 DEF Router!Req
  <2>2. o.ok /\ Router!Req(c).action = "jobs" => o.job # 0
    BY <1>5, <1>6, FailedIs DEF Router!Carried
  <2>. QED BY <1>0, <1>8, <1>13, <1>14, <2>1, <2>2 DEF Router!RunsTrue, Router!Acts
<1>17. Router!BackendInv'
  BY <1>0, <1>1, <1>2, <1>8, <1>9, <1>10, <1>11, <1>12, <1>15, <1>16, RunsOn
<1>. QED BY <1>9, <1>17

LEMMA SaveOK == ASSUME Router!BackendInv, NEW c \in Commands, NEW ok \in BOOLEAN, Router!save(c, ok) PROVE Router!BackendInv'
<1>0. phase.at = "save" /\ c = Head(claimed) /\ UNCHANGED <<command, task, claimed, router, carried>>
  BY DEF Router!save, Router!AgentOnly
<1>1. claimed # <<>>
  <2>1. phase # Router!AtRest
    BY <1>0 DEF Router!AtRest
  <2>. QED BY <2>1 DEF Router!BackendInv, Router!AgentTrue
<1>2. /\ command[c] # Router!Unused /\ Router!RecordTrue(c) /\ Router!RunsTrue(c) /\ Router!Said(journal[c].out) /\ router \in Router!Routers /\ Router!Said(phase.out) /\ phase.out \in Router!Outcomes
      /\ carried \in [Commands -> Nat] /\ journal \in [Commands -> Router!Journals]
  BY <1>0, <1>1, HeadIs DEF Router!BackendInv, Router!SaidTrue, Router!BackendType
<1>3. /\ journal[c].started /\ journal[c].out = Router!NoOutcome /\ phase.out # Router!NoOutcome
      /\ phase.out.ok /\ Router!Acts(c) => carried[c] = 1
      /\ phase.out.ok /\ Router!Req(c).action = "jobs" => phase.out.job # 0
  BY <1>0, <1>2 DEF Router!RunsTrue
<1>4. Router!Kept /\ Router!Req(c)' = Router!Req(c)
  BY <1>0, SameRouter DEF Router!Req
<1>5. CASE ok
  <2>1. journal' = [journal EXCEPT ![c] = [started |-> FALSE, out |-> phase.out]] /\ phase' = [at |-> "report", out |-> phase.out]
    BY <1>5 DEF Router!save, Router!Answer
  <2>2. [started |-> FALSE, out |-> phase.out] \in Router!Journals
    BY <1>2 DEF Router!Journals
  <2>3. journal' \in [Commands -> Router!Journals] /\ journal'[c].out = phase.out /\ \A d \in Commands \ {c} : journal'[d] = journal[d]
    BY <1>2, <2>1, <2>2
  <2>4. phase'.at = "report" /\ phase'.out = phase.out /\ phase' \in [at : {"idle", "run", "save", "report"}, out : Router!Outcomes]
    BY <1>2, <2>1
  <2>5. task[c].status # "COMPLETED"
    BY <1>2, <1>3, NoneSaid DEF Router!RecordTrue
  <2>6. Router!RecordTrue(c)'
    BY <1>0, <1>2, <1>3, <1>4, <2>3, <2>5 DEF Router!RecordTrue, Router!Acts
  <2>7. Router!RunsTrue(c)'
    BY <2>3, <2>4 DEF Router!RunsTrue
  <2>8. Router!Said(phase.out)' /\ Router!Said(journal[c].out)'
    BY <1>0, <1>2, <2>3, <2>4 DEF Router!Said
  <2>. QED BY <1>0, <1>1, <1>2, <1>4, <2>3, <2>4, <2>6, <2>7, <2>8, RunsOn
<1>6. CASE ~ ok
  <2>1. journal' = journal /\ phase' = [at |-> "report", out |-> Router!Failed("failed")]
    BY <1>6 DEF Router!save, Router!Answer
  <2>2. phase'.at = "report" /\ phase'.out = Router!Failed("failed") /\ phase' \in [at : {"idle", "run", "save", "report"}, out : Router!Outcomes]
    BY <2>1, FailedIs
  <2>3. Router!RecordTrue(c)'
    BY <1>0, <1>2, <2>1, RecordLasts
  <2>4. Router!RunsTrue(c)'
    BY <2>2, FailedIs DEF Router!RunsTrue
  <2>5. Router!Said(phase.out)' /\ Router!Said(journal[c].out)'
    BY <1>0, <1>2, <2>1, <2>2 DEF Router!Said, Router!Failed, Router!Outcome
  <2>. QED BY <1>0, <1>1, <1>2, <1>4, <2>1, <2>2, <2>3, <2>4, <2>5, RunsOn
<1>. QED BY <1>5, <1>6

LEMMA ReportOK == ASSUME Router!BackendInv, NEW c \in Commands, NEW reached \in BOOLEAN, NEW answered \in BOOLEAN, Router!report(c, reached, answered) PROVE Router!BackendInv'
<1>0. phase.at = "report" /\ c = Head(claimed) /\ UNCHANGED <<router, command, journal, carried>> /\ phase' = Router!AtRest
  BY DEF Router!report
<1>1. claimed # <<>>
  <2>1. phase # Router!AtRest
    BY <1>0 DEF Router!AtRest
  <2>. QED BY <2>1 DEF Router!BackendInv, Router!AgentTrue
<1>2. /\ command[c] # Router!Unused /\ Router!RecordTrue(c) /\ Router!RunsTrue(c) /\ Router!Said(task[c].out) /\ Router!Said(phase.out) /\ phase.out \in Router!Outcomes
      /\ task \in [Commands -> Router!Tasks] /\ claimed \in Seq(Commands)
  BY <1>0, <1>1, HeadIs DEF Router!BackendInv, Router!SaidTrue, Router!BackendType
<1>3. PICK t : t = [status |-> IF phase.out.ok THEN "COMPLETED" ELSE "FAILED", out |-> phase.out]
  OBVIOUS
<1>4. t \in Router!Tasks /\ t.out = phase.out /\ (t.status = "COMPLETED" => t.out.ok /\ journal[c].out = t.out)
  BY <1>0, <1>2, <1>3 DEF Router!RunsTrue, Router!Tasks
<1>5. task' = task \/ (task[c].status \in {"PENDING", "RUNNING", "UNKNOWN"} /\ task' = [task EXCEPT ![c] = t])
  BY <1>3 DEF Router!report
<1>6. claimed' \in {Tail(claimed), <<>>}
  BY DEF Router!report
<1>7. claimed' \in Seq(Commands) /\ \A i \in DOMAIN claimed' : \E k \in DOMAIN claimed : claimed'[i] = claimed[k]
  <2>1. CASE claimed' = <<>>
    BY <2>1
  <2>2. CASE claimed' = Tail(claimed)
    <3>1. Tail(claimed) \in Seq(Commands) /\ \A i \in DOMAIN Tail(claimed) : i + 1 \in DOMAIN claimed /\ Tail(claimed)[i] = claimed[i + 1]
      BY <1>1, <1>2
    <3>. QED BY <2>2, <3>1
  <2>. QED BY <1>6, <2>1, <2>2
<1>8. phase'.at = "idle" /\ phase'.out = Router!NoOutcome
  BY <1>0 DEF Router!AtRest
<1>9. Router!AgentTrue'
  BY <1>0, <1>7, <1>8 DEF Router!BackendInv, Router!AgentTrue, Router!RunsTrue
<1>10. ASSUME NEW d \in Commands
       PROVE  Router!RecordTrue(d)' /\ Router!Said(journal[d].out)' /\ Router!Said(task[d].out)' /\ Router!Said(command[d].out)' /\ task'[d] \in Router!Tasks
  <2>0. Router!RecordTrue(d) /\ Router!Said(journal[d].out) /\ Router!Said(task[d].out) /\ Router!Said(command[d].out) /\ task[d] \in Router!Tasks
    BY <1>2 DEF Router!BackendInv, Router!SaidTrue
  <2>1. CASE task'[d] = task[d]
    BY <1>0, <2>0, <2>1, RecordLasts DEF Router!Said
  <2>2. CASE d = c /\ task[c].status \in {"PENDING", "RUNNING", "UNKNOWN"} /\ task'[c] = t
    <3>1. command[c].status # "COMPLETED"
      BY <1>2, <2>2 DEF Router!RecordTrue
    <3>2. Router!RecordTrue(c)'
      BY <1>0, <1>2, <1>4, <2>2, <3>1 DEF Router!RecordTrue, Router!Req, Router!Acts
    <3>. QED BY <1>0, <1>2, <1>4, <2>0, <2>2, <3>2 DEF Router!Said
  <2>. QED BY <1>2, <1>5, <2>1, <2>2
<1>11. task' \in [Commands -> Router!Tasks]
  BY <1>2, <1>5, <1>4
<1>12. Router!BackendType'
  BY <1>0, <1>7, <1>8, <1>11, Nothing, Constants DEF Router!BackendInv, Router!BackendType, Router!AtRest
<1>13. Router!Said(phase.out)'
  BY <1>8 DEF Router!Said, Router!NoOutcome, Router!Outcome, Router!None
<1>. QED BY <1>9, <1>10, <1>12, <1>13 DEF Router!BackendInv, Router!SaidTrue

\* The manager makes a record of a command, and puts it to another use.
LEMMA RouterCreateOK ==
  ASSUME Router!BackendInv, NEW c \in Commands, NEW req \in Router!Requests, req.action # Router!None, Router!Create(c, req)
  PROVE  Router!BackendInv' /\ Router!Req(c)' = req
<1>0. command[c] = Router!Unused /\ UNCHANGED <<router, task, claimed, phase, journal, carried>> /\ command \in [Commands -> Router!Records]
  BY DEF Router!Create, Router!BackendInv, Router!BackendType
<1>1. PICK u : u = [req |-> req, status |-> "QUEUED", out |-> Router!NoOutcome]
  OBVIOUS
<1>2. u \in Router!Records /\ u.req = req /\ u.status = "QUEUED" /\ u.out = Router!NoOutcome /\ u # Router!Unused
  <2>1. u \in Router!Records
    BY <1>1, Nothing DEF Router!Records, Router!Open
  <2>2. u.status # Router!None /\ u.req = req /\ u.status = "QUEUED" /\ u.out = Router!NoOutcome
    BY <1>1 DEF Router!None
  <2>. QED BY <2>1, <2>2, StatusNot
<1>3. command' \in [Commands -> Router!Records] /\ command'[c] = u /\ \A d \in Commands \ {c} : command'[d] = command[d]
  <2>1. command' = [command EXCEPT ![c] = u]
    BY <1>1 DEF Router!Create
  <2>. QED BY <2>1, <1>0, <1>2
<1>4. /\ router.seen[c] = 0 /\ carried[c] = 0 /\ task[c].status = Router!None /\ task[c].out = Router!NoOutcome /\ journal[c].out = Router!NoOutcome
  BY <1>0 DEF Router!BackendInv, Router!RecordTrue
<1>5. ASSUME NEW d \in Commands PROVE Router!RecordTrue(d)' /\ Router!Said(journal[d].out)' /\ Router!Said(task[d].out)' /\ Router!Said(command[d].out)'
  <2>0. Router!RecordTrue(d) /\ Router!Said(journal[d].out) /\ Router!Said(task[d].out) /\ Router!Said(command[d].out)
    BY DEF Router!BackendInv, Router!SaidTrue
  <2>1. CASE d # c
    BY <1>0, <1>3, <2>0, <2>1, RecordLasts DEF Router!Said
  <2>2. CASE d = c
    <3>1. Router!RecordTrue(c)'
      BY <1>0, <1>2, <1>3, <1>4, NoneSaid DEF Router!RecordTrue, Router!Req, Router!Acts, Router!None
    <3>. QED BY <1>0, <1>2, <1>3, <2>0, <2>2, <3>1, NoneSaid DEF Router!Said
  <2>. QED BY <2>1, <2>2
<1>6. Router!AgentTrue'
  <2>1. ASSUME NEW i \in DOMAIN claimed PROVE command'[claimed[i]] # Router!Unused
    <3>1. command[claimed[i]] # Router!Unused /\ claimed[i] \in Commands
      BY DEF Router!BackendInv, Router!BackendType, Router!AgentTrue
    <3>. QED BY <3>1, <1>2, <1>3
  <2>2. ASSUME claimed # <<>> PROVE Router!RunsTrue(Head(claimed))'
    <3>1. Head(claimed) \in Commands /\ Router!RunsTrue(Head(claimed)) /\ Head(claimed) # c
      BY <1>0, <2>2, HeadIs
    <3>. QED BY <1>0, <1>3, <3>1, RunsLast
  <2>. QED BY <1>0, <2>1, <2>2 DEF Router!AgentTrue, Router!BackendInv
<1>7. Router!BackendType' /\ Router!Said(phase.out)'
  BY <1>0, <1>3, Constants DEF Router!BackendInv, Router!BackendType, Router!SaidTrue, Router!Said
<1>. QED BY <1>2, <1>3, <1>5, <1>6, <1>7 DEF Router!BackendInv, Router!SaidTrue, Router!Req

LEMMA ReleasedOK ==
  ASSUME Router!BackendInv, NEW c \in Commands, Router!Over(c), Router!Released(c)
  PROVE  Router!BackendInv' /\ Router!Kept /\ \A d \in Commands \ {c} : Router!Req(d)' = Router!Req(d)
<1>0. UNCHANGED <<claimed, phase>> /\ command \in [Commands -> Router!Records] /\ task \in [Commands -> Router!Tasks] /\ journal \in [Commands -> Router!Journals]
      /\ carried \in [Commands -> Nat] /\ router \in Router!Routers /\ c \notin Router!Range(claimed)
  BY DEF Router!Released, Router!BackendInv, Router!BackendType, Router!Over
<1>1. PICK t, j : t = [status |-> Router!None, out |-> Router!NoOutcome] /\ j = [started |-> FALSE, out |-> Router!NoOutcome]
  OBVIOUS
<1>2. t \in Router!Tasks /\ j \in Router!Journals /\ t.status = Router!None /\ t.out = Router!NoOutcome /\ j.out = Router!NoOutcome
  BY <1>1, Nothing DEF Router!Tasks, Router!Journals
<1>3. /\ command' \in [Commands -> Router!Records] /\ command'[c] = Router!Unused /\ task' \in [Commands -> Router!Tasks] /\ task'[c] = t
      /\ journal' \in [Commands -> Router!Journals] /\ journal'[c] = j /\ carried' \in [Commands -> Nat] /\ carried'[c] = 0
      /\ \A d \in Commands \ {c} : command'[d] = command[d] /\ task'[d] = task[d] /\ journal'[d] = journal[d] /\ carried'[d] = carried[d]
  <2>1. command' = [command EXCEPT ![c] = Router!Unused] /\ task' = [task EXCEPT ![c] = t] /\ journal' = [journal EXCEPT ![c] = j] /\ carried' = [carried EXCEPT ![c] = 0]
    BY <1>1 DEF Router!Released
  <2>. QED BY <2>1, <1>0, <1>2, UnusedIs
<1>4. router' \in Router!Routers /\ router'.jobs = router.jobs /\ router'.seen[c] = 0 /\ \A d \in Commands \ {c} : router'.seen[d] = router.seen[d]
  <2>1. PICK z : z = [router.seen EXCEPT ![c] = 0]
    OBVIOUS
  <2>2. z \in [Commands -> Nat] /\ z[c] = 0 /\ \A d \in Commands \ {c} : z[d] = router.seen[d]
    BY <1>0, <2>1 DEF Router!Routers
  <2>3. router' = [router EXCEPT !.seen = z]
    BY <2>1 DEF Router!Released
  <2>4. router' \in Router!Routers /\ router'.jobs = router.jobs /\ router'.seen = z
    BY <1>0, <2>2, <2>3 DEF Router!Routers
  <2>. QED BY <2>2, <2>4
<1>5. Router!Kept
  BY <1>4 DEF Router!Kept
<1>6. ASSUME NEW d \in Commands PROVE Router!RecordTrue(d)' /\ Router!Said(journal[d].out)' /\ Router!Said(task[d].out)' /\ Router!Said(command[d].out)'
  <2>0. Router!RecordTrue(d) /\ Router!Said(journal[d].out) /\ Router!Said(task[d].out) /\ Router!Said(command[d].out)
    BY DEF Router!BackendInv, Router!SaidTrue
  <2>1. CASE d # c
    BY <1>3, <1>4, <2>0, <2>1, RecordLasts DEF Router!Said
  <2>2. CASE d = c
    <3>1. Router!RecordTrue(c)'
      <4>1. Router!Req(c)'.action = Router!None
        BY <1>3, UnusedIs DEF Router!Req, Router!NoRequest, Router!Request
      <4>2. /\ router'.seen[c] = 0 /\ carried'[c] = 0 /\ task'[c] = t /\ journal'[c] = j /\ command'[c].status = Router!None /\ ~ j.out.ok /\ command'[c] = Router!Unused
        BY <1>2, <1>3, <1>4, UnusedIs, NoneSaid
      <4>. QED BY <4>1, <4>2, <1>1, <1>2 DEF Router!RecordTrue, Router!Acts, Router!None
    <3>2. Router!Said(Router!NoOutcome)'
      BY DEF Router!Said, Router!NoOutcome, Router!Outcome, Router!None
    <3>. QED BY <1>2, <1>3, <2>2, <3>1, <3>2, UnusedIs
  <2>. QED BY <2>1, <2>2
<1>7. Router!AgentTrue'
  <2>1. \A i \in DOMAIN claimed : claimed[i] # c
    BY <1>0 DEF Router!Range
  <2>2. ASSUME NEW i \in DOMAIN claimed PROVE command'[claimed[i]] # Router!Unused
    <3>1. command[claimed[i]] # Router!Unused /\ claimed[i] \in Commands
      BY DEF Router!BackendInv, Router!BackendType, Router!AgentTrue
    <3>. QED BY <3>1, <2>1, <1>3
  <2>3. ASSUME claimed # <<>> PROVE Router!RunsTrue(Head(claimed))'
    <3>1. Head(claimed) \in Commands /\ Router!RunsTrue(Head(claimed))
      BY <2>3, HeadIs
    <3>2. Head(claimed) # c
      <4>1. claimed \in Seq(Commands) /\ 1 \in DOMAIN claimed /\ Head(claimed) = claimed[1]
        BY <2>3 DEF Router!BackendInv, Router!BackendType
      <4>. QED BY <4>1, <2>1
    <3>. QED BY <1>0, <1>3, <3>1, <3>2, RunsLast
  <2>. QED BY <1>0, <2>2, <2>3 DEF Router!AgentTrue, Router!BackendInv
<1>8. Router!BackendType' /\ Router!Said(phase.out)'
  BY <1>0, <1>3, <1>4, Constants DEF Router!BackendInv, Router!BackendType, Router!SaidTrue, Router!Said
<1>. QED BY <1>3, <1>5, <1>6, <1>7, <1>8 DEF Router!BackendInv, Router!SaidTrue, Router!Req

\* What the panel shows and does is left alone.
LEMMA AsksSame == ASSUME UNCHANGED work PROVE Router!Asks' = Router!Asks
  BY DEF Router!Asks
LEMMA PanelLasts ==
  ASSUME Router!PanelInv, Router!Panel, Router!Kept, work.on # Router!None => Router!Req(work.on)' = Router!Req(work.on)
  PROVE  Router!PanelInv'
<1>1. UNCHANGED <<state, config, draft, pending, work>>
  BY DEF Router!Panel
<1>2. Router!PanelType' /\ Router!DraftTrue'
  BY <1>1, Constants DEF Router!PanelInv, Router!PanelType, Router!DraftTrue
<1>3. Router!WorkTrue'
  BY <1>1, AsksSame DEF Router!PanelInv, Router!WorkTrue, Router!Kept, Router!Req
<1>. QED BY <1>2, <1>3 DEF Router!PanelInv

LEMMA WorkSet ==
  ASSUME Router!Kept, Router!WorkIs(work', state'.shown, state'.rev, config'), state' \in [rev : Nat, config : Router!Configs, shown : BOOLEAN], config' \in Router!Configs,
         draft' \in Router!Requests, pending' \in Nat, Router!DraftTrue'
  PROVE  Router!PanelInv'
<1>1. work'.on = Router!None /\ work' \in [step : Router!Steps, on : Commands \cup {Router!None}, job : Nat, req : Router!Requests]
  BY DEF Router!WorkIs
<1>2. Router!WorkTrue'
  BY <1>1 DEF Router!WorkTrue, Router!WorkIs, Router!Kept, Router!Req, Router!Idle
<1>3. Router!PanelType'
  BY <1>1, Constants DEF Router!PanelType, Router!Steps
<1>. QED BY <1>2, <1>3 DEF Router!PanelInv

LEMMA IdleIs == ASSUME NEW seen, NEW rev, NEW cfg PROVE Router!WorkIs(Router!Idle, seen, rev, cfg)
<1>1. PICK w : w = Router!Idle
  OBVIOUS
<1>2. w = [step |-> "idle", on |-> Router!None, job |-> 0, req |-> Router!NoRequest]
  BY <1>1 DEF Router!Idle
<1>. QED BY <1>1, <1>2, Nothing DEF Router!WorkIs, Router!Steps

LEMMA ThenIs ==
  ASSUME NEW step \in Router!Steps \ {"idle", "validate", "apply"}, NEW job \in Nat, NEW seen, NEW rev, NEW cfg,
         step = "confirmed" => job \in DOMAIN router.jobs /\ router.jobs[job] = "committed",
         step = "restored" => job \in DOMAIN router.jobs /\ router.jobs[job] = "rolled_back"
  PROVE  Router!WorkIs([Router!Idle EXCEPT !.step = step, !.job = job], seen, rev, cfg)
<1>1. PICK w : w = [Router!Idle EXCEPT !.step = step, !.job = job]
  OBVIOUS
<1>2. w = [step |-> step, on |-> Router!None, job |-> job, req |-> Router!NoRequest]
  BY <1>1 DEF Router!Idle
<1>3. w \in [step : Router!Steps, on : {Router!None}, job : Nat, req : Router!Requests]
  BY <1>2, Nothing
<1>4. w.step = step /\ w.job = job
  BY <1>2
<1>. QED BY <1>1, <1>3, <1>4 DEF Router!WorkIs

LEMMA BackendSame == ASSUME Router!BackendInv, Router!Backend PROVE Router!BackendInv' /\ Router!Kept /\ \A c : Router!Req(c)' = Router!Req(c)
<1>1. UNCHANGED <<router, command, task, claimed, phase, journal, carried>>
  BY DEF Router!Backend
<1>2. \A c : Router!Req(c)' = Router!Req(c)
  BY <1>1 DEF Router!Req
<1>. QED BY <1>1, <1>2, TickOK, SameRouter

\* The panel begins a work.
LEMMA PerformOK ==
  ASSUME Router!RouterInv, Router!Backend, UNCHANGED <<state, config, pending>>, NEW step \in Router!Steps \ {"idle", "confirmed", "restored"}, NEW job \in Nat, NEW req \in Router!Requests,
         Router!Perform(step, job, req), step = "validate" => state.shown /\ req = Router!Request("apply", state.rev, config, 0),
         step = "apply" => req.action \in {"apply", "restart"}, draft' \in Router!Requests, Router!DraftTrue'
  PROVE  Router!RouterInv'
<1>1. Router!BackendInv' /\ Router!Kept
  BY BackendSame DEF Router!RouterInv
<1>2. work' = [step |-> step, on |-> Router!None, job |-> job, req |-> req]
  BY DEF Router!Perform
<1>3. PICK w : w = work'
  OBVIOUS
<1>4. w \in [step : Router!Steps, on : {Router!None}, job : Nat, req : Router!Requests] /\ w.step = step /\ w.req = req
  BY <1>2, <1>3
<1>5. Router!WorkIs(w, state.shown, state.rev, config)
  BY <1>4 DEF Router!WorkIs
<1>6. state' \in [rev : Nat, config : Router!Configs, shown : BOOLEAN] /\ config' \in Router!Configs /\ pending' \in Nat
  BY DEF Router!RouterInv, Router!PanelInv, Router!PanelType
<1>7. Router!PanelInv'
  BY <1>1, <1>3, <1>5, <1>6, WorkSet
<1>. QED BY <1>1, <1>7 DEF Router!RouterInv

LEMMA NoDraft == ASSUME draft' = Router!NoRequest PROVE draft' \in Router!Requests /\ Router!DraftTrue'
<1>1. Router!NoRequest.action = Router!None
  BY DEF Router!NoRequest, Router!Request
<1>. QED BY <1>1, Nothing DEF Router!DraftTrue, Router!None
LEMMA SameDraft == ASSUME Router!RouterInv, UNCHANGED <<state, config, draft>> PROVE draft' \in Router!Requests /\ Router!DraftTrue'
  BY Constants DEF Router!RouterInv, Router!PanelInv, Router!PanelType, Router!DraftTrue

LEMMA BeginOK ==
  ASSUME Router!RouterInv, Router!reload \/ Router!prepare \/ Router!apply \/ Router!settle("confirm") \/ Router!settle("rollback") \/ Router!expiryRefresh
  PROVE  Router!RouterInv'
<1>0. pending \in Nat /\ draft \in Router!Requests /\ state.rev \in Nat /\ config \in Router!Configs /\ Router!NoRequest \in Router!Requests /\ (draft = Router!NoRequest \/ draft.action \in {"apply", "restart"})
  BY Nothing DEF Router!RouterInv, Router!PanelInv, Router!PanelType, Router!DraftTrue
<1>1. CASE Router!reload
  BY <1>0, <1>1, PerformOK, SameDraft DEF Router!reload, Router!Start, Router!Steps
<1>2. CASE Router!prepare
  <2>1. Router!Request("apply", state.rev, config, 0) \in Router!Requests
    BY <1>0 DEF Router!Request, Router!Requests
  <2>. QED BY <1>2, <2>1, PerformOK, NoDraft DEF Router!prepare, Router!Start, Router!Steps
<1>3. CASE Router!apply
  BY <1>0, <1>3, PerformOK, NoDraft DEF Router!apply, Router!Start, Router!Steps
<1>4. CASE Router!settle("confirm")
  BY <1>0, <1>4, PerformOK, SameDraft DEF Router!settle, Router!Start, Router!Steps
<1>5. CASE Router!settle("rollback")
  BY <1>0, <1>5, PerformOK, SameDraft DEF Router!settle, Router!Start, Router!Steps
<1>6. CASE Router!expiryRefresh
  BY <1>0, <1>6, PerformOK, SameDraft DEF Router!expiryRefresh, Router!Steps
<1>. QED BY <1>1, <1>2, <1>3, <1>4, <1>5, <1>6

\* The draft or the editor changes, and no work is under way.
LEMMA EditedOK ==
  ASSUME Router!RouterInv, Router!Backend, UNCHANGED <<state, pending, work>>, ~ Router!busy, config' \in Router!Configs, draft' \in Router!Requests, Router!DraftTrue'
  PROVE  Router!RouterInv'
<1>1. Router!BackendInv' /\ Router!Kept
  BY BackendSame DEF Router!RouterInv
<1>2. work' = Router!Idle
  BY DEF Router!busy
<1>3. Router!WorkIs(work', state'.shown, state'.rev, config')
  BY <1>2, IdleIs
<1>4. state' \in [rev : Nat, config : Router!Configs, shown : BOOLEAN] /\ pending' \in Nat
  BY DEF Router!RouterInv, Router!PanelInv, Router!PanelType
<1>. QED BY <1>1, <1>3, <1>4, WorkSet DEF Router!RouterInv

LEMMA DraftOK == ASSUME Router!RouterInv, Router!cancel \/ \E s \in RouterServices : Router!restart(s) PROVE Router!RouterInv'
<1>0. config \in Router!Configs
  BY DEF Router!RouterInv, Router!PanelInv, Router!PanelType
<1>1. CASE Router!cancel
  BY <1>0, <1>1, NoDraft, EditedOK DEF Router!cancel, Router!Draft
<1>2. ASSUME NEW s \in RouterServices, Router!restart(s) PROVE Router!RouterInv'
  <2>1. draft' = [action |-> "restart", rev |-> 0, config |-> Router!Empty, job |-> 0]
    BY <1>2 DEF Router!restart, Router!Draft, Router!Request
  <2>2. draft' \in Router!Requests /\ draft'.action = "restart"
    BY <2>1, Nothing DEF Router!Requests
  <2>3. Router!DraftTrue'
    BY <2>2 DEF Router!DraftTrue
  <2>. QED BY <1>0, <1>2, <2>2, <2>3, EditedOK DEF Router!restart, Router!Draft
<1>. QED BY <1>1, <1>2

LEMMA EditOK == ASSUME Router!RouterInv, NEW p \in Profiles \cup {Router!None}, Router!addProfile(p) \/ Router!removeProfile(p) \/ Router!choose(p) PROVE Router!RouterInv'
<1>0. config \in Router!Configs
  BY DEF Router!RouterInv, Router!PanelInv, Router!PanelType
<1>1. ASSUME NEW cfg \in Router!Configs, Router!edit(cfg) PROVE Router!RouterInv'
  BY <1>1, NoDraft, EditedOK DEF Router!edit
<1>2. [config EXCEPT !.profiles = @ \cup {p}] \in Router!Configs
  BY <1>0 DEF Router!Configs
<1>3. ~ Router!references(p) => [config EXCEPT !.profiles = @ \ {p}] \in Router!Configs
  BY <1>0 DEF Router!Configs, Router!references
<1>4. p \in config.profiles \cup {Router!None} => [config EXCEPT !.port = p] \in Router!Configs
  BY <1>0 DEF Router!Configs
<1>. QED BY <1>1, <1>2, <1>3, <1>4 DEF Router!addProfile, Router!removeProfile, Router!choose

LEMMA ActivateOK == ASSUME Router!RouterInv, NEW on \in BOOLEAN, Router!Activate(on) PROVE Router!RouterInv'
<1>1. Router!BackendInv' /\ Router!Kept
  BY BackendSame DEF Router!RouterInv, Router!Activate
<1>2. state' = [rev |-> 0, config |-> Router!Empty, shown |-> FALSE] /\ pending' = 0 /\ config' = config /\ draft' = Router!NoRequest
  BY DEF Router!Activate, Router!NoState
<1>3. state' \in [rev : Nat, config : Router!Configs, shown : BOOLEAN] /\ pending' \in Nat /\ config' \in Router!Configs
  BY <1>2, Nothing DEF Router!RouterInv, Router!PanelInv, Router!PanelType
<1>4. Router!WorkIs(work', state'.shown, state'.rev, config')
  <2>1. CASE on
    <3>1. work' = [Router!Idle EXCEPT !.step = "load"]
      BY <2>1 DEF Router!Activate
    <3>2. PICK w, v : w = [Router!Idle EXCEPT !.step = "load"] /\ v = [Router!Idle EXCEPT !.step = "load", !.job = 0]
      OBVIOUS
    <3>3. w = [step |-> "load", on |-> Router!None, job |-> 0, req |-> Router!NoRequest] /\ v = [step |-> "load", on |-> Router!None, job |-> 0, req |-> Router!NoRequest]
      BY <3>2 DEF Router!Idle
    <3>4. Router!WorkIs(v, state'.shown, state'.rev, config')
      BY <3>2, ThenIs DEF Router!Steps
    <3>. QED BY <3>1, <3>2, <3>3, <3>4
  <2>2. CASE ~ on
    BY <2>2, IdleIs DEF Router!Activate
  <2>. QED BY <2>1, <2>2
<1>. QED BY <1>1, <1>2, <1>3, <1>4, NoDraft, WorkSet DEF Router!RouterInv

LEMMA GiveUpOK == ASSUME Router!RouterInv, Router!giveUp PROVE Router!RouterInv'
<1>1. Router!BackendInv' /\ Router!Kept
  BY BackendSame DEF Router!RouterInv, Router!giveUp
<1>2. UNCHANGED <<state, config, draft, pending>> /\ work' = Router!Idle
  BY DEF Router!giveUp, Router!Ends
<1>3. Router!WorkIs(work', state'.shown, state'.rev, config')
  BY <1>2, IdleIs
<1>4. state' \in [rev : Nat, config : Router!Configs, shown : BOOLEAN] /\ pending' \in Nat /\ config' \in Router!Configs
  BY <1>2 DEF Router!RouterInv, Router!PanelInv, Router!PanelType
<1>. QED BY <1>1, <1>2, <1>3, <1>4, SameDraft, WorkSet DEF Router!RouterInv

\* Each step of a work asks for something.
LEMMA AsksIs == ASSUME Router!RouterInv, Router!busy PROVE Router!Asks \in Router!Requests /\ Router!Asks.action # Router!None
<1>0. work \in [step : Router!Steps, on : Commands \cup {Router!None}, job : Nat, req : Router!Requests] /\ work.step # "idle" /\ work.step \in Router!Steps
  BY DEF Router!RouterInv, Router!PanelInv, Router!PanelType, Router!WorkTrue, Router!busy
<1>1. ASSUME NEW action \in {"state", "jobs", "confirm", "rollback"}, NEW job \in Nat
      PROVE  Router!Request(action, 0, Router!Empty, job) \in Router!Requests /\ Router!Request(action, 0, Router!Empty, job).action # Router!None
  BY Nothing DEF Router!Request, Router!Requests, Router!None
<1>2. CASE work.step \in {"load", "applied", "confirmed", "restored", "expired"}
  <2>1. Router!Asks = Router!Request("state", 0, Router!Empty, 0)
    BY <1>2 DEF Router!Asks
  <2>. QED BY <2>1, <1>1
<1>3. CASE work.step = "validate"
  <2>1. Router!Asks = [work.req EXCEPT !.action = "validate"] /\ work.req \in Router!Requests
    BY <1>0, <1>3 DEF Router!Asks
  <2>. QED BY <2>1 DEF Router!Requests, Router!None
<1>4. CASE work.step = "apply"
  <2>1. Router!Asks = work.req /\ work.req \in Router!Requests /\ work.req.action \in {"apply", "restart"}
    BY <1>0, <1>4 DEF Router!Asks, Router!RouterInv, Router!PanelInv, Router!WorkTrue
  <2>. QED BY <2>1 DEF Router!None
<1>5. CASE work.step \in {"wait", "expiry"}
  <2>1. Router!Asks = Router!Request("jobs", 0, Router!Empty, work.job) /\ work.job \in Nat
    BY <1>0, <1>5 DEF Router!Asks
  <2>. QED BY <2>1, <1>1
<1>6. CASE work.step \in {"confirm", "rollback"}
  <2>1. Router!Asks = Router!Request(work.step, 0, Router!Empty, work.job) /\ work.job \in Nat
    BY <1>0, <1>6 DEF Router!Asks
  <2>. QED BY <2>1, <1>6, <1>1
<1>. QED BY <1>0, <1>2, <1>3, <1>4, <1>5, <1>6 DEF Router!Steps

LEMMA CreatedOK == ASSUME Router!RouterInv, NEW c \in Commands, Router!create(c) PROVE Router!RouterInv'
<1>0. Router!busy /\ work.on = Router!None /\ Router!Create(c, Router!Asks) /\ work' = [work EXCEPT !.on = c] /\ UNCHANGED <<state, config, draft, pending>>
      /\ work \in [step : Router!Steps, on : Commands \cup {Router!None}, job : Nat, req : Router!Requests] /\ work.step # "idle"
  BY DEF Router!create, Router!RouterInv, Router!PanelInv, Router!PanelType, Router!WorkTrue, Router!busy
<1>1. Router!BackendInv' /\ Router!Req(c)' = Router!Asks
  BY <1>0, AsksIs, RouterCreateOK DEF Router!RouterInv
<1>2. work' \in [step : Router!Steps, on : Commands \cup {Router!None}, job : Nat, req : Router!Requests]
      /\ work'.on = c /\ work'.step = work.step /\ work'.job = work.job /\ work'.req = work.req
  BY <1>0
<1>3. Router!Asks' = Router!Asks
  BY <1>2 DEF Router!Asks
<1>4. Router!Kept /\ router' = router
  BY <1>0, SameRouter DEF Router!Create
<1>5. Router!WorkTrue'
  <2>1. Router!Req(work.on)' = Router!Asks'
    BY <1>1, <1>2, <1>3 DEF Router!Req
  <2>. QED BY <1>0, <1>2, <1>4, <2>1 DEF Router!WorkTrue, Router!RouterInv, Router!PanelInv
<1>6. Router!PanelType' /\ Router!DraftTrue'
  BY <1>0, <1>2, Constants DEF Router!RouterInv, Router!PanelInv, Router!PanelType, Router!DraftTrue, Router!Steps
<1>. QED BY <1>1, <1>5, <1>6 DEF Router!RouterInv, Router!PanelInv

\* What was answered is so.
LEMMA ContinueOK ==
  ASSUME Router!RouterInv, Router!Kept, NEW out \in Router!Outcomes, Router!Said(out), work.step = "wait" => out.job # 0, Router!busy, Router!Continue(out)
  PROVE  Router!PanelInv'
<1>0. /\ work \in [step : Router!Steps, on : Commands \cup {Router!None}, job : Nat, req : Router!Requests] /\ work.step # "idle" /\ work.step \in Router!Steps
      /\ state \in [rev : Nat, config : Router!Configs, shown : BOOLEAN] /\ config \in Router!Configs /\ draft \in Router!Requests /\ pending \in Nat
      /\ out.job \in Nat /\ out.rev \in Nat /\ out.config \in Router!Configs
  BY DEF Router!RouterInv, Router!PanelInv, Router!PanelType, Router!WorkTrue, Router!busy, Router!Outcomes
<1>1. ASSUME Router!WorkIs(work', state.shown, state.rev, config), UNCHANGED <<state, config, draft, pending>> PROVE Router!PanelInv'
  BY <1>0, <1>1, SameDraft, WorkSet
<1>2. ASSUME NEW o, work' = Router!Idle, Router!Loaded(o), o.rev \in Nat, o.config \in Router!Configs, o.job \in Nat PROVE Router!PanelInv'
  <2>1. state' = [rev |-> o.rev, config |-> o.config, shown |-> TRUE] /\ config' = o.config /\ draft' = Router!NoRequest /\ pending' = o.job
    BY <1>2 DEF Router!Loaded
  <2>2. state' \in [rev : Nat, config : Router!Configs, shown : BOOLEAN]
    BY <1>2, <2>1
  <2>. QED BY <1>2, <2>1, <2>2, IdleIs, NoDraft, WorkSet
<1>3. CASE work.step \in {"load", "confirmed", "restored", "expired"}
  BY <1>0, <1>2, <1>3 DEF Router!Continue
<1>4. CASE work.step = "validate"
  <2>1. work' = Router!Idle /\ draft' = work.req /\ UNCHANGED <<state, config, pending>>
    BY <1>4 DEF Router!Continue
  <2>2. state.shown /\ work.req = Router!Request("apply", state.rev, config, 0)
    BY <1>4 DEF Router!RouterInv, Router!PanelInv, Router!WorkTrue
  <2>3. draft' \in Router!Requests
    BY <1>0, <2>1
  <2>4. Router!DraftTrue'
    BY <2>1, <2>2 DEF Router!DraftTrue, Router!Request
  <2>. QED BY <1>0, <2>1, <2>3, <2>4, IdleIs, WorkSet
<1>5. CASE work.step = "apply" /\ out.job = 0
  <2>1. work' = [Router!Idle EXCEPT !.step = "load", !.job = 0] /\ UNCHANGED <<state, config, draft, pending>>
    BY <1>5 DEF Router!Continue, Router!Then
  <2>2. Router!WorkIs(work', state.shown, state.rev, config)
    BY <2>1, ThenIs DEF Router!Steps
  <2>. QED BY <2>1, <2>2, <1>1
<1>6. CASE work.step \in {"apply", "wait"} /\ out.job # 0
  <2>1. /\ UNCHANGED <<state, config, draft, pending>>
        /\ \/ out.status = "applying" /\ Router!Then("wait", out.job)
           \/ out.status = "awaiting_confirmation" /\ Router!Then("applied", out.job)
           \/ out.status = "committed" /\ Router!Then("confirmed", out.job)
           \/ out.status = "rolled_back" /\ work' = Router!Idle
    BY <1>6 DEF Router!Continue
  <2>2. out.status = "committed" => out.job \in DOMAIN router.jobs /\ router.jobs[out.job] = "committed"
    BY DEF Router!Said
  <2>3. ASSUME NEW step \in {"wait", "applied", "confirmed"}, Router!Then(step, out.job), step = "confirmed" => out.status = "committed"
        PROVE  Router!WorkIs(work', state.shown, state.rev, config)
    BY <1>0, <2>2, <2>3, ThenIs DEF Router!Then, Router!Steps
  <2>4. Router!WorkIs(work', state.shown, state.rev, config)
    BY <2>1, <2>3, IdleIs
  <2>. QED BY <2>1, <2>4, <1>1
<1>7. CASE work.step = "applied"
  <2>1. work' = Router!Idle /\ Router!Loaded([out EXCEPT !.job = work.job])
    BY <1>7 DEF Router!Continue
  <2>2. PICK o : o = [out EXCEPT !.job = work.job]
    OBVIOUS
  <2>3. o.rev \in Nat /\ o.config \in Router!Configs /\ o.job \in Nat
    BY <1>0, <2>2 DEF Router!Outcomes
  <2>. QED BY <2>1, <2>2, <2>3, <1>2
<1>8. CASE work.step \in {"confirm", "rollback"}
  <2>1. PICK step \in {"confirmed", "restored", "expired"} :
           /\ work' = [Router!Idle EXCEPT !.step = step, !.job = out.job] /\ UNCHANGED <<state, config, draft, pending>>
           /\ step = "confirmed" => out.status = "committed"
           /\ step = "restored" => out.status = "rolled_back"
    BY <1>8 DEF Router!Continue, Router!Then
  <2>2. Router!WorkIs(work', state.shown, state.rev, config)
    BY <1>0, <2>1, ThenIs DEF Router!Said, Router!Steps
  <2>. QED BY <2>1, <2>2, <1>1
<1>9. CASE work.step = "expiry"
  <2>1. PICK step \in {"restored", "expired"} :
           /\ work' = [Router!Idle EXCEPT !.step = step, !.job = out.job] /\ UNCHANGED <<state, config, draft, pending>>
           /\ step = "restored" => out.status = "rolled_back"
    BY <1>9 DEF Router!Continue, Router!Then
  <2>2. Router!WorkIs(work', state.shown, state.rev, config)
    BY <1>0, <2>1, ThenIs DEF Router!Said, Router!Steps
  <2>. QED BY <2>1, <2>2, <1>1
<1>. QED BY <1>0, <1>3, <1>4, <1>5, <1>6, <1>7, <1>8, <1>9 DEF Router!Steps

LEMMA GetOK == ASSUME Router!RouterInv, Router!get PROVE Router!RouterInv'
<1>0. Router!busy /\ work.on # Router!None /\ work.on \in Commands
  BY DEF Router!get, Router!RouterInv, Router!PanelInv, Router!PanelType
<1>1. Router!BackendInv' /\ Router!Kept
  <2>1. CASE Router!Over(work.on)
    BY <1>0, <2>1, ReleasedOK DEF Router!get, Router!RouterInv
  <2>2. CASE ~ Router!Over(work.on)
    BY <2>2, BackendSame DEF Router!get, Router!RouterInv
  <2>. QED BY <2>1, <2>2
<1>2. CASE command[work.on].status = "COMPLETED"
  <2>1. PICK out : out = command[work.on].out
    OBVIOUS
  <2>2. Router!RecordTrue(work.on) /\ out \in Router!Outcomes /\ Router!Said(out)
    BY <1>0, <2>1 DEF Router!RouterInv, Router!BackendInv, Router!BackendType, Router!SaidTrue, Router!Records
  <2>3. out.ok /\ journal[work.on].out = out
    BY <1>2, <2>1, <2>2 DEF Router!RecordTrue
  <2>4. work.step = "wait" => out.job # 0
    <3>1. ASSUME work.step = "wait" PROVE Router!Req(work.on).action = "jobs"
      <4>1. Router!Req(work.on) = Router!Request("jobs", 0, Router!Empty, work.job)
        BY <1>0, <3>1 DEF Router!RouterInv, Router!PanelInv, Router!WorkTrue, Router!Asks
      <4>. QED BY <4>1 DEF Router!Request
    <3>. QED BY <2>2, <2>3, <3>1 DEF Router!RecordTrue
  <2>5. Router!Continue(out)
    BY <1>2, <2>1 DEF Router!get
  <2>. QED BY <1>0, <1>1, <2>2, <2>4, <2>5, ContinueOK DEF Router!RouterInv
<1>3. CASE command[work.on].status # "COMPLETED"
  <2>1. UNCHANGED <<state, config, draft, pending>> /\ work' = Router!Idle
    BY <1>3 DEF Router!get, Router!Ends
  <2>2. Router!WorkIs(work', state'.shown, state'.rev, config')
    BY <2>1, IdleIs
  <2>3. state' \in [rev : Nat, config : Router!Configs, shown : BOOLEAN] /\ pending' \in Nat /\ config' \in Router!Configs
    BY <2>1 DEF Router!RouterInv, Router!PanelInv, Router!PanelType
  <2>. QED BY <1>1, <2>1, <2>2, <2>3, SameDraft, WorkSet DEF Router!RouterInv
<1>. QED BY <1>2, <1>3

LEMMA RouterStepOK == ASSUME Router!RouterAssumption, Router!RouterInv, [Router!Next]_(Router!routerVars) PROVE Router!RouterInv'
<1>0. Router!BackendInv /\ Router!PanelInv
  BY DEF Router!RouterInv
<1>1. ASSUME Router!BackendInv', Router!Panel, Router!Kept, \A c \in Commands : c = work.on => Router!Req(c)' = Router!Req(c) PROVE Router!RouterInv'
  <2>1. work.on # Router!None => work.on \in Commands
    BY <1>0 DEF Router!PanelInv, Router!PanelType
  <2>2. work.on # Router!None => command'[work.on].req = command[work.on].req
    BY <1>1, <2>1 DEF Router!Req
  <2>3. work.on # Router!None => Router!Req(work.on)' = Router!Req(work.on)
    BY <1>1, <2>2 DEF Router!Req, Router!Panel
  <2>. QED BY <1>0, <1>1, <2>3, PanelLasts DEF Router!RouterInv
<1>2. CASE UNCHANGED Router!routerVars
  BY <1>0, <1>1, <1>2, TickOK, SameRouter DEF Router!routerVars, Router!Panel, Router!Req
<1>3. CASE Router!RouterStep
  BY <1>0, <1>1, <1>3, RouterOK DEF Router!RouterStep, Router!Panel, Router!Req
<1>4. CASE Router!Crash
  BY <1>0, <1>1, <1>4, CrashOK, SameRouter DEF Router!Crash, Router!Req
<1>5. ASSUME NEW c \in Commands, NEW yes \in BOOLEAN, NEW also \in BOOLEAN, Router!run(c, yes, also) PROVE Router!RouterInv'
  BY <1>0, <1>1, <1>5, RunOK DEF Router!run, Router!AgentOnly, Router!Req
<1>6. ASSUME NEW c \in Commands, NEW yes \in BOOLEAN, NEW also \in BOOLEAN, Router!report(c, yes, also) PROVE Router!RouterInv'
  BY <1>0, <1>1, <1>6, ReportOK, SameRouter DEF Router!report, Router!Req
<1>7. ASSUME NEW c \in Commands, NEW yes \in BOOLEAN, Router!refresh(c, yes) PROVE Router!RouterInv'
  <2>1. Router!Panel /\ UNCHANGED router /\ \A d \in Commands : d # c => Router!Req(d)' = Router!Req(d)
    BY <1>7 DEF Router!refresh, Router!Req
  <2>2. Router!BackendInv' /\ Router!Req(c)' = Router!Req(c)
    BY <1>0, <1>7, RefreshOK
  <2>. QED BY <1>1, <2>1, <2>2, SameRouter
<1>8. ASSUME NEW c \in Commands, NEW yes \in BOOLEAN, Router!save(c, yes) PROVE Router!RouterInv'
  BY <1>0, <1>1, <1>8, SaveOK, SameRouter DEF Router!save, Router!AgentOnly, Router!Req
<1>9. ASSUME NEW c \in Commands, NEW yes \in BOOLEAN, Router!Execute(c, yes) PROVE Router!RouterInv'
  BY <1>0, <1>1, <1>9, ExecuteOK, SameRouter DEF Router!Execute, Router!AgentOnly, Router!Req
<1>10. ASSUME NEW c \in Commands, Router!unreachable(c) PROVE Router!RouterInv'
  <2>1. Router!Panel /\ UNCHANGED router /\ \A d \in Commands : d # c => Router!Req(d)' = Router!Req(d)
    BY <1>10 DEF Router!unreachable, Router!Req
  <2>2. Router!BackendInv' /\ Router!Req(c)' = Router!Req(c)
    BY <1>0, <1>10, UnreachableOK
  <2>. QED BY <1>1, <2>1, <2>2, SameRouter
<1>11. ASSUME NEW c \in Commands, Router!Tick(c) PROVE Router!RouterInv'
  BY <1>0, <1>1, <1>11, TickOK, SameRouter DEF Router!Tick, Router!Req
<1>12. ASSUME NEW c \in Commands, Router!Forget(c) PROVE Router!RouterInv'
  <2>1. Router!BackendInv' /\ Router!Kept /\ \A d \in Commands \ {c} : Router!Req(d)' = Router!Req(d)
    BY <1>0, <1>12, ReleasedOK DEF Router!Forget
  <2>. QED BY <1>1, <1>12, <2>1 DEF Router!Forget
<1>13. ASSUME NEW order \in {s \in UNION {[1 .. n -> Commands] : n \in 1 .. MaxClaims} : \A i, j \in DOMAIN s : i # j => s[i] # s[j]}, NEW yes \in BOOLEAN, Router!poll(order, yes)
       PROVE  Router!RouterInv'
  <2>1. PICK n \in 1..MaxClaims : order \in [1..n -> Commands]
    OBVIOUS
  <2>2. Router!BackendInv'
    BY <1>0, <1>13, <2>1, PollOK
  <2>. QED BY <1>1, <1>13, <2>2, SameRouter DEF Router!poll, Router!Req
<1>14. CASE \E c \in Commands : Router!create(c)
  BY <1>14, CreatedOK
<1>15. CASE \E on \in BOOLEAN : Router!Activate(on)
  BY <1>15, ActivateOK
<1>16. CASE Router!reload \/ Router!prepare \/ Router!apply \/ Router!settle("confirm") \/ Router!settle("rollback") \/ Router!expiryRefresh
  BY <1>16, BeginOK
<1>17. CASE Router!cancel \/ \E s \in RouterServices : Router!restart(s)
  BY <1>17, DraftOK
<1>18. CASE \E p \in Profiles \cup {Router!None} : Router!addProfile(p) \/ Router!removeProfile(p) \/ Router!choose(p)
  BY <1>18, EditOK
<1>19. CASE Router!get \/ Router!giveUp
  BY <1>19, GetOK, GiveUpOK
<1>. QED BY <1>2, <1>3, <1>4, <1>5, <1>6, <1>7, <1>8, <1>9, <1>10, <1>11, <1>12, <1>13, <1>14, <1>15, <1>16, <1>17, <1>18, <1>19 DEF Router!Next

LEMMA RouterInit == ASSUME Router!Init PROVE Router!RouterInv
<1>1. router \in Router!Routers /\ router.jobs = <<>> /\ \A c \in Commands : router.seen[c] = 0
  <2>1. PICK z : z = [c \in Commands |-> 0]
    OBVIOUS
  <2>2. router = [rev |-> 0, config |-> Router!Empty, before |-> Router!Empty, jobs |-> <<>>, seen |-> z]
    BY <2>1 DEF Router!Init
  <2>. QED BY <2>1, <2>2, Nothing DEF Router!Routers
<1>2. PICK t, j : t = [status |-> Router!None, out |-> Router!NoOutcome] /\ j = [started |-> FALSE, out |-> Router!NoOutcome]
  OBVIOUS
<1>3. t \in Router!Tasks /\ j \in Router!Journals /\ t.status = Router!None /\ t.out = Router!NoOutcome /\ j.out = Router!NoOutcome
  BY <1>2, Nothing DEF Router!Tasks, Router!Journals
<1>4. /\ command \in [Commands -> Router!Records] /\ task \in [Commands -> Router!Tasks] /\ journal \in [Commands -> Router!Journals] /\ carried \in [Commands -> Nat]
      /\ \A c \in Commands : command[c] = Router!Unused /\ task[c] = t /\ journal[c] = j /\ carried[c] = 0
  BY <1>2, <1>3, UnusedIs DEF Router!Init
<1>5. phase = [at |-> "idle", out |-> Router!NoOutcome] /\ claimed = <<>> /\ phase = Router!AtRest
  BY DEF Router!Init, Router!AtRest
<1>6. Router!BackendType
  BY <1>1, <1>4, <1>5, Nothing DEF Router!BackendType
<1>7. \A c \in Commands : Router!RecordTrue(c)
  <2> SUFFICES ASSUME NEW c \in Commands PROVE Router!RecordTrue(c)
    OBVIOUS
  <2>1. Router!Req(c).action = Router!None
    BY <1>4, UnusedIs DEF Router!Req, Router!NoRequest, Router!Request
  <2>2. router.seen[c] = 0 /\ carried[c] = 0 /\ task[c] = t /\ journal[c] = j /\ command[c].status = Router!None /\ ~ j.out.ok /\ command[c] = Router!Unused
    BY <1>1, <1>3, <1>4, UnusedIs, NoneSaid
  <2>. QED BY <2>1, <2>2, <1>2, <1>3 DEF Router!RecordTrue, Router!Acts, Router!None
<1>8. Router!AgentTrue
  BY <1>5 DEF Router!AgentTrue
<1>9. Router!SaidTrue
  BY <1>3, <1>4, <1>5, NoneSaid, UnusedIs DEF Router!SaidTrue
<1>10. work = Router!Idle /\ draft = Router!NoRequest /\ state = Router!NoState /\ config = Router!Empty /\ pending = 0
  BY DEF Router!Init
<1>11. Router!WorkIs(Router!Idle, FALSE, 0, Router!Empty)
  BY IdleIs
<1>12. work \in [step : Router!Steps, on : Commands \cup {Router!None}, job : Nat, req : Router!Requests] /\ work.on = Router!None
  BY <1>10, <1>11 DEF Router!WorkIs
<1>13. Router!PanelType
  BY <1>10, <1>12, Nothing DEF Router!PanelType, Router!NoState
<1>14. Router!WorkTrue
  BY <1>10, <1>11, <1>12 DEF Router!WorkTrue, Router!WorkIs, Router!Idle
<1>15. Router!DraftTrue
  BY <1>10 DEF Router!DraftTrue, Router!NoRequest, Router!Request, Router!None
<1>. QED BY <1>6, <1>7, <1>8, <1>9, <1>13, <1>14, <1>15 DEF Router!RouterInv, Router!BackendInv, Router!PanelInv

LEMMA RouterImplies == ASSUME Router!RouterInv PROVE Router!RouterTrue
<1>1. ASSUME NEW c \in Commands
      PROVE  /\ carried[c] <= 1
             /\ command[c].status = "COMPLETED" =>
                  /\ task[c].status = "COMPLETED" /\ command[c].out = task[c].out /\ journal[c].out = task[c].out
                  /\ Router!Req(c).action \in {"apply", "restart"} => carried[c] = 1
  <2>1. Router!RecordTrue(c)
    BY DEF Router!RouterInv, Router!BackendInv
  <2>2. carried[c] \in {0, 1}
    BY <2>1 DEF Router!RecordTrue
  <2>. QED BY <2>1, <2>2 DEF Router!RecordTrue, Router!Acts
<1>2. Router!OnceEach
  BY <1>1 DEF Router!OnceEach
<1>3. Router!PanelTrue
  BY DEF Router!RouterInv, Router!PanelInv, Router!PanelType, Router!WorkTrue, Router!DraftTrue, Router!PanelTrue, Router!Configs
<1>. QED BY <1>2, <1>3 DEF Router!RouterTrue

\* OnceEach and PanelTrue of RouterControl, for every number of commands, claims and routers'
\* jobs: a change is carried out once at most, whatever is lost, told twice or expires, and
\* the panel says, asks and shows what is so.
THEOREM CommandsTrue ==
  ASSUME Router!RouterAssumption PROVE Router!Spec => []Router!RouterTrue
<1>1. Router!Init => Router!RouterInv
  BY RouterInit
<1>2. Router!RouterInv /\ [Router!Next]_(Router!routerVars) => Router!RouterInv'
  BY RouterStepOK
<1>3. Router!RouterInv => Router!RouterTrue
  BY RouterImplies
<1>. QED BY <1>1, <1>2, <1>3, PTL DEF Router!Spec

-------------------------------------------------------------------------------
(* Agents as the console manages them.  ServerInv is of CastrelSign: of an agent's  *)
(* certificates only the last is in force, and none while it is blocked; every one  *)
(* that follows a revoked one used up a token.  PageInv is of the page, whose       *)
(* requests are answered later: what each holds was so of an agent CastrelSign had, *)
(* and Grows says that CastrelSign never forgets one.                               *)
Lifecycle == INSTANCE AgentLifecycle WITH
  Enrolled <- EnrolledAgents, MaxTokens <- MaxEnrolments, MaxCerts <- MaxIssued, MaxTasks <- MaxQueued

LEMMA Most == ASSUME NEW k \in Nat, NEW T \in SUBSET (1..k), T # {} PROVE \E m \in T : \A n \in T : n <= m
<1> DEFINE U == {k - n : n \in T}
<1>1. U \in SUBSET Nat /\ U # {}
  <2>1. \A n \in T : n \in 1..k /\ k - n \in Nat
    OBVIOUS
  <2>. QED BY <2>1
<1>2. PICK d \in U : \A e \in U : d <= e
  BY <1>1, Least
<1>3. PICK m \in T : d = k - m
  BY <1>2
<1>4. \A n \in T : n <= m
  <2> SUFFICES ASSUME NEW n \in T PROVE n <= m
    OBVIOUS
  <2>1. d <= k - n
    BY <1>2
  <2>. QED BY <2>1, <1>3
<1>. QED BY <1>4

\* The sizes of sets in AgentLifecycle are sizes of sets.
LEMMA LifeCount == \A S : Lifecycle!Cardinality(S) = Cardinality(S)
  BY DEF Lifecycle!Cardinality, Cardinality, Lifecycle!IsFiniteSet, IsFiniteSet

LEMMA OneLeft == ASSUME NEW s, NEW x, s \subseteq {x} PROVE IsFiniteSet(s) /\ Cardinality(s) \in {0, 1} /\ (s # {} => Cardinality(s) = 1)
<1>1. CASE s = {}
  <2>1. IsFiniteSet({}) /\ Cardinality({}) = 0
    BY FS_EmptySet
  <2>. QED BY <1>1, <2>1
<1>2. CASE s = {x}
  <2>1. IsFiniteSet({x}) /\ Cardinality({x}) = 1
    BY FS_Singleton
  <2>. QED BY <1>2, <2>1
<1>. QED BY <1>1, <1>2

LEMMA Finite == ASSUME Lifecycle!AgentLifecycleAssumption, Lifecycle!ServerInv
                PROVE  /\ IsFiniteSet(Lifecycle!Gone) /\ Cardinality(Lifecycle!Gone) \in Nat
                       /\ \A a \in Lifecycle!Ids : IsFiniteSet(Lifecycle!Revived(a)) /\ Cardinality(Lifecycle!Revived(a)) \in Nat
<1>1. Lifecycle!Gone \in SUBSET (1..MaxEnrolments)
  BY DEF Lifecycle!Gone, Lifecycle!ServerInv
<1>2. IsFiniteSet(1..MaxEnrolments)
  BY FS_Interval DEF Lifecycle!AgentLifecycleAssumption
<1>3. ASSUME NEW a \in Lifecycle!Ids PROVE IsFiniteSet(Lifecycle!Revived(a)) /\ Cardinality(Lifecycle!Revived(a)) \in Nat
  <2>1. Lifecycle!Revived(a) \in SUBSET (1..Len(certs[a])) /\ Len(certs[a]) \in Nat
    BY DEF Lifecycle!Revived, Lifecycle!ServerInv
  <2>2. IsFiniteSet(1..Len(certs[a]))
    BY <2>1, FS_Interval
  <2>. QED BY <2>1, <2>2, FS_Subset, FS_CardinalityType
<1>. QED BY <1>1, <1>2, <1>3, FS_Subset, FS_CardinalityType

LEMMA ServerImplies == ASSUME Lifecycle!AgentLifecycleAssumption, Lifecycle!ServerInv PROVE Lifecycle!CertificatesTrue
<1> SUFFICES ASSUME NEW a \in Lifecycle!Ids
             PROVE  /\ Cardinality(Lifecycle!InForce(a)) <= 1
                    /\ status[a] \in {"BLOCKED", Lifecycle!None} => Lifecycle!InForce(a) = {}
                    /\ status[a] = "ACTIVE" => Cardinality(Lifecycle!InForce(a)) = 1
                    /\ Cardinality(Lifecycle!Revived(a)) <= Cardinality(Lifecycle!Gone)
  BY LifeCount DEF Lifecycle!CertificatesTrue, Lifecycle!Revived, Lifecycle!Gone
<1>1. Lifecycle!InForce(a) \subseteq {Len(certs[a])}
  BY DEF Lifecycle!ServerInv
<1>2. Cardinality(Lifecycle!InForce(a)) \in {0, 1} /\ (Lifecycle!InForce(a) # {} => Cardinality(Lifecycle!InForce(a)) = 1)
  BY <1>1, OneLeft
<1>. QED BY <1>2, LifeCount DEF Lifecycle!ServerInv

\* What the console was told of stays so.
LEMMA TasksLast == ASSUME Lifecycle!AgentLifecycleAssumption, Lifecycle!Grows PROVE Lifecycle!TasksTrue \subseteq Lifecycle!TasksTrue'
<1> SUFFICES ASSUME NEW t \in Lifecycle!TaskTypes, Lifecycle!TaskTrue(t) PROVE t \in Lifecycle!TaskTypes' /\ Lifecycle!TaskTrue(t)'
  BY DEF Lifecycle!TasksTrue
<1>1. t \in Lifecycle!TaskTypes'
  BY DEF Lifecycle!TaskTypes, Lifecycle!ListOf, Lifecycle!TokenRow, Lifecycle!PolicyValues, Lifecycle!Ids, Lifecycle!Lists, Lifecycle!Statuses
<1>2. Lifecycle!Known(t.got)'
  BY DEF Lifecycle!TaskTrue, Lifecycle!Known, Lifecycle!Grows
<1>3. ASSUME t.kind \in {"block", "reactivate"}
      PROVE  t.on \in Lifecycle!Ids /\ (status'[t.on] # Lifecycle!None \/ \E n \in 1..MaxEnrolments : token'[n].agent = t.on)
  <2>1. t.on \in Lifecycle!Ids /\ (status[t.on] # Lifecycle!None \/ \E n \in 1..MaxEnrolments : token[n].agent = t.on)
    BY <1>3 DEF Lifecycle!TaskTrue
  <2>. QED BY <2>1 DEF Lifecycle!Grows, Lifecycle!AgentLifecycleAssumption
<1>4. t.kind = "reactivate" /\ t.at = "done" => status'[t.on] # Lifecycle!None
  BY <1>3 DEF Lifecycle!TaskTrue, Lifecycle!Grows
<1>. QED BY <1>1, <1>2, <1>3, <1>4 DEF Lifecycle!TaskTrue

LEMMA KnownLasts == ASSUME Lifecycle!Grows, Lifecycle!Known(list), UNCHANGED list PROVE Lifecycle!Known(list)'
  BY DEF Lifecycle!Known, Lifecycle!Grows

LEMMA SeqWider == ASSUME NEW S, NEW T, S \subseteq T, NEW s \in Seq(S) PROVE s \in Seq(T)
  OBVIOUS
LEMMA RemoveKeeps == ASSUME NEW S, NEW s \in Seq(S), NEW i \in DOMAIN s PROVE Lifecycle!RemoveAt(s, i) \in Seq(S)
<1>1. i \in 1..Len(s) /\ Len(s) \in Nat
  OBVIOUS
<1>2. SubSeq(s, 1, i - 1) \in Seq(S) /\ SubSeq(s, i + 1, Len(s)) \in Seq(S)
  BY <1>1
<1>. QED BY <1>2 DEF Lifecycle!RemoveAt

\* The page is not touched.
LEMMA PageLasts == ASSUME Lifecycle!AgentLifecycleAssumption, Lifecycle!PageInv, Lifecycle!Grows, Lifecycle!Page PROVE Lifecycle!PageInv'
<1>1. tasks' \in Seq(Lifecycle!TasksTrue')
  BY TasksLast, SeqWider DEF Lifecycle!PageInv, Lifecycle!Page
<1>2. Lifecycle!Known(list)'
  BY KnownLasts DEF Lifecycle!PageInv, Lifecycle!Page
<1>3. (form.agent # Lifecycle!None => status[form.agent] # Lifecycle!None)'
  <2>1. form.agent \in Lifecycle!Ids \cup {Lifecycle!None}
    BY DEF Lifecycle!PageInv
  <2>. QED BY <2>1 DEF Lifecycle!PageInv, Lifecycle!Page, Lifecycle!Grows
<1>4. Lifecycle!ListOf(Lifecycle!PolicyValues \cup {Lifecycle!Unread})' = Lifecycle!ListOf(Lifecycle!PolicyValues \cup {Lifecycle!Unread}) /\ Lifecycle!Ids' = Lifecycle!Ids
  BY DEF Lifecycle!ListOf, Lifecycle!Ids, Lifecycle!PolicyValues, Lifecycle!TokenRow, Lifecycle!Statuses
<1>. QED BY <1>1, <1>2, <1>3, <1>4 DEF Lifecycle!PageInv, Lifecycle!Page

LEMMA RowIs == ASSUME NEW r \in Lifecycle!TokenRow, NEW s \in {Lifecycle!None, "ready", "used", "revoked"}
               PROVE  [r EXCEPT !.status = s] \in Lifecycle!TokenRow /\ [r EXCEPT !.status = s].agent = r.agent /\ [r EXCEPT !.status = s].status = s
  BY DEF Lifecycle!TokenRow

\* One token of the store is used up or revoked.
LEMMA TokenGone ==
  ASSUME Lifecycle!AgentLifecycleAssumption, Lifecycle!ServerInv, NEW n \in DOMAIN token, NEW s \in {"used", "revoked"},
         token' = [token EXCEPT ![n].status = s]
  PROVE  /\ token' \in [1..MaxEnrolments -> Lifecycle!TokenRow]
         /\ \A m \in 1..MaxEnrolments : token'[m].agent = token[m].agent
         /\ Lifecycle!Gone' = Lifecycle!Gone \cup {n}
<1>1. n \in 1..MaxEnrolments /\ token \in [1..MaxEnrolments -> Lifecycle!TokenRow]
  BY DEF Lifecycle!ServerInv
<1>2. token' = [token EXCEPT ![n] = [token[n] EXCEPT !.status = s]]
  OBVIOUS
<1>3. PICK r : r = [token[n] EXCEPT !.status = s]
  OBVIOUS
<1>4. r \in Lifecycle!TokenRow /\ r.agent = token[n].agent /\ r.status = s
  <2>1. token[n] \in Lifecycle!TokenRow /\ s \in {Lifecycle!None, "ready", "used", "revoked"}
    BY <1>1
  <2>. QED BY <2>1, <1>3, RowIs
<1>5. token' \in [1..MaxEnrolments -> Lifecycle!TokenRow] /\ token'[n] = r /\ \A m \in (1..MaxEnrolments) \ {n} : token'[m] = token[m]
  BY <1>1, <1>2, <1>3, <1>4
<1>6. Lifecycle!Gone' = Lifecycle!Gone \cup {n}
  <2>1. DOMAIN token = 1..MaxEnrolments /\ DOMAIN token' = 1..MaxEnrolments
    BY <1>1, <1>5
  <2>. QED BY <2>1, <1>4, <1>5 DEF Lifecycle!Gone
<1>. QED BY <1>4, <1>5, <1>6

\* Some tokens are gone that were not.
LEMMA MoreGone == ASSUME Lifecycle!AgentLifecycleAssumption, Lifecycle!ServerInv, IsFiniteSet(Lifecycle!Gone'), Lifecycle!Gone \subseteq Lifecycle!Gone', NEW a \in Lifecycle!Ids
                  PROVE  Cardinality(Lifecycle!Gone') \in Nat /\ Cardinality(Lifecycle!Revived(a)) <= Cardinality(Lifecycle!Gone')
<1>1. Cardinality(Lifecycle!Gone) <= Cardinality(Lifecycle!Gone') /\ Cardinality(Lifecycle!Gone') \in Nat
  BY FS_Subset, FS_CardinalityType
<1>. QED BY <1>1, Finite, LifeCount DEF Lifecycle!ServerInv

\* A new certificate, which is the last and the only one in force.
LEMMA IssueServer ==
  ASSUME Lifecycle!AgentLifecycleAssumption, Lifecycle!ServerInv, NEW a \in Lifecycle!Ids, NEW heard \in BOOLEAN, Lifecycle!issue(a, heard),
         token' \in [1..MaxEnrolments -> Lifecycle!TokenRow], IsFiniteSet(Lifecycle!Gone'), Lifecycle!Gone \subseteq Lifecycle!Gone',
         \/ Len(certs[a]) # 0 /\ certs[a][Len(certs[a])] = "ACTIVE"
         \/ Cardinality(Lifecycle!Gone') = Cardinality(Lifecycle!Gone) + 1
  PROVE  Lifecycle!ServerInv'
<1> DEFINE c == certs[a]
           k == Len(c)
           d == [i \in DOMAIN c |-> IF c[i] = "ACTIVE" THEN "SUPERSEDED" ELSE c[i]]
           All == {"ACTIVE", "SUPERSEDED", "REVOKED"}
<1>1. certs \in [Lifecycle!Ids -> Seq(All)] /\ c \in Seq(All) /\ k \in Nat /\ DOMAIN c = 1..k
  BY DEF Lifecycle!ServerInv
<1>2. certs' = [certs EXCEPT ![a] = Append(d, "ACTIVE")]
  BY DEF Lifecycle!issue
<1>3. PICK e : e = Append(d, "ACTIVE")
  OBVIOUS
<1>4. d \in [1..k -> All] /\ d \in Seq(All) /\ Len(d) = k
  BY <1>1
<1>5. /\ e \in Seq(All) /\ Len(e) = k + 1 /\ e[k + 1] = "ACTIVE" /\ DOMAIN e = 1..(k + 1)
      /\ \A i \in 1..k : e[i] = IF c[i] = "ACTIVE" THEN "SUPERSEDED" ELSE c[i]
  BY <1>1, <1>3, <1>4
<1>6. certs' \in [Lifecycle!Ids -> Seq(All)] /\ certs'[a] = e /\ \A b \in Lifecycle!Ids \ {a} : certs'[b] = certs[b]
  <2> HIDE DEF d, c
  <2>. QED BY <1>1, <1>2, <1>3, <1>5
<1>c. c = certs[a] /\ k = Len(c)
  OBVIOUS
<1> HIDE DEF c, d, k
<1>7. Lifecycle!InForce(a)' = {k + 1}
  <2>1. k + 1 \in 1..(k + 1) /\ \A i \in 1..(k + 1) : i # k + 1 => i \in 1..k
    BY <1>1
  <2>2. \A i \in 1..(k + 1) : e[i] = "ACTIVE" <=> i = k + 1
    BY <1>5, <2>1
  <2>. QED BY <1>5, <1>6, <2>1, <2>2 DEF Lifecycle!InForce
<1>8. status' \in [Lifecycle!Ids -> Lifecycle!Statuses] /\ status'[a] = "ACTIVE" /\ \A b \in Lifecycle!Ids \ {a} : status'[b] = status[b]
  BY DEF Lifecycle!issue, Lifecycle!ServerInv, Lifecycle!Statuses
<1>9. held' \in [Lifecycle!Ids -> Nat] /\ held'[a] <= k + 1 /\ \A b \in Lifecycle!Ids \ {a} : held'[b] = held[b]
  <2>1. held \in [Lifecycle!Ids -> Nat] /\ held[a] <= k
    BY <1>c DEF Lifecycle!ServerInv
  <2>2. held' = held \/ held' = [held EXCEPT ![a] = k + 1]
    BY <1>c DEF Lifecycle!issue
  <2>. QED BY <2>1, <2>2, <1>1
<1>10. Cardinality(Lifecycle!Revived(a)') <= Cardinality(Lifecycle!Gone')
  <2>1. IsFiniteSet(Lifecycle!Revived(a)) /\ Cardinality(Lifecycle!Revived(a)) <= Cardinality(Lifecycle!Gone) /\ Cardinality(Lifecycle!Gone) \in Nat /\ Cardinality(Lifecycle!Revived(a)) \in Nat
    BY Finite, LifeCount DEF Lifecycle!ServerInv
  <2>2. CASE k # 0 /\ c[k] = "ACTIVE"
    <3>1. Lifecycle!Revived(a)' = Lifecycle!Revived(a)
      <4>1. k + 1 \notin Lifecycle!Revived(a)' /\ k \in 1..k
        BY <1>1, <1>5, <1>6, <2>2 DEF Lifecycle!Revived
      <4>2. \A i \in 1..(k + 1) : i \in Lifecycle!Revived(a)' <=> i \in Lifecycle!Revived(a)
        <5> SUFFICES ASSUME NEW i \in 1..(k + 1) PROVE i \in Lifecycle!Revived(a)' <=> i \in Lifecycle!Revived(a)
          OBVIOUS
        <5>1. i \in Lifecycle!Revived(a)' <=> i > 1 /\ e[i - 1] = "REVOKED"
          BY <1>1, <1>5, <1>6 DEF Lifecycle!Revived
        <5>2. i \in Lifecycle!Revived(a) <=> i \in 1..k /\ i > 1 /\ c[i - 1] = "REVOKED"
          BY <1>1, <1>c DEF Lifecycle!Revived
        <5>3. i > 1 => i - 1 \in 1..k
          BY <1>1
        <5>4. i \notin 1..k => i = k + 1
          BY <1>1
        <5>. QED BY <4>1, <5>1, <5>2, <5>3, <5>4, <1>5
      <4>3. Lifecycle!Revived(a)' \subseteq 1..(k + 1) /\ Lifecycle!Revived(a) \subseteq 1..(k + 1)
        BY <1>1, <1>c, <1>5, <1>6 DEF Lifecycle!Revived
      <4>. QED BY <4>2, <4>3
    <3>2. Cardinality(Lifecycle!Gone) <= Cardinality(Lifecycle!Gone')
      BY FS_Subset
    <3>. QED BY <2>1, <3>1, <3>2, FS_CardinalityType
  <2>3. CASE Cardinality(Lifecycle!Gone') = Cardinality(Lifecycle!Gone) + 1
    <3>1. Lifecycle!Revived(a)' = Lifecycle!Revived(a) \/ Lifecycle!Revived(a)' = Lifecycle!Revived(a) \cup {k + 1}
      <4>1. \A i \in 1..k : i \in Lifecycle!Revived(a)' <=> i \in Lifecycle!Revived(a)
        <5> SUFFICES ASSUME NEW i \in 1..k PROVE i \in Lifecycle!Revived(a)' <=> i \in Lifecycle!Revived(a)
          OBVIOUS
        <5>1. i \in Lifecycle!Revived(a)' <=> i > 1 /\ e[i - 1] = "REVOKED"
          BY <1>1, <1>5, <1>6 DEF Lifecycle!Revived
        <5>2. i \in Lifecycle!Revived(a) <=> i > 1 /\ c[i - 1] = "REVOKED"
          BY <1>1, <1>c DEF Lifecycle!Revived
        <5>3. i > 1 => i - 1 \in 1..k
          BY <1>1
        <5>. QED BY <5>1, <5>2, <5>3, <1>5
      <4>2. Lifecycle!Revived(a)' \subseteq 1..(k + 1) /\ Lifecycle!Revived(a) \subseteq 1..k
        BY <1>1, <1>c, <1>5, <1>6 DEF Lifecycle!Revived
      <4>3. \A i \in 1..(k + 1) : i \in 1..k \/ i = k + 1
        BY <1>1
      <4>4. \A i \in Lifecycle!Revived(a)' : i \in Lifecycle!Revived(a) \/ i = k + 1
        BY <4>1, <4>2, <4>3
      <4>5. Lifecycle!Revived(a) \subseteq Lifecycle!Revived(a)'
        BY <4>1, <4>2
      <4>. QED BY <4>4, <4>5
    <3>2. Cardinality(Lifecycle!Revived(a)') = Cardinality(Lifecycle!Revived(a)) \/ Cardinality(Lifecycle!Revived(a)') = Cardinality(Lifecycle!Revived(a)) + 1
      <4>1. Cardinality(Lifecycle!Revived(a) \cup {k + 1}) \in {Cardinality(Lifecycle!Revived(a)), Cardinality(Lifecycle!Revived(a)) + 1}
        BY <2>1, FS_AddElement
      <4>. QED BY <3>1, <4>1
    <3>. QED BY <2>1, <2>3, <3>2
  <2>. QED BY <1>c, <2>2, <2>3
<1>11. ASSUME NEW b \in Lifecycle!Ids
       PROVE  /\ held'[b] <= Len(certs'[b])
              /\ Lifecycle!InForce(b)' \subseteq {Len(certs'[b])}
              /\ status'[b] \in {"BLOCKED", Lifecycle!None} => Lifecycle!InForce(b)' = {}
              /\ status'[b] = "ACTIVE" => Lifecycle!InForce(b)' # {}
              /\ Cardinality(Lifecycle!Revived(b)') <= Cardinality(Lifecycle!Gone')
  <2>1. CASE b = a
    BY <2>1, <1>5, <1>6, <1>7, <1>8, <1>9, <1>10 DEF Lifecycle!None
  <2>2. CASE b # a
    <3>1. Lifecycle!InForce(b)' = Lifecycle!InForce(b) /\ Lifecycle!Revived(b)' = Lifecycle!Revived(b)
      BY <2>2, <1>6 DEF Lifecycle!InForce, Lifecycle!Revived
    <3>2. Cardinality(Lifecycle!Revived(b)) <= Cardinality(Lifecycle!Gone')
      BY MoreGone
    <3>. QED BY <2>2, <3>1, <3>2, <1>6, <1>8, <1>9 DEF Lifecycle!ServerInv
  <2>. QED BY <2>1, <2>2
<1>12. policy' \in Lifecycle!PolicyValues
  BY DEF Lifecycle!issue, Lifecycle!ServerInv
<1>13. Lifecycle!Ids' = Lifecycle!Ids /\ Lifecycle!Statuses' = Lifecycle!Statuses /\ Lifecycle!TokenRow' = Lifecycle!TokenRow /\ Lifecycle!PolicyValues' = Lifecycle!PolicyValues
  BY DEF Lifecycle!Ids, Lifecycle!Statuses, Lifecycle!TokenRow, Lifecycle!PolicyValues
<1>. QED BY <1>6, <1>8, <1>9, <1>11, <1>12, <1>13, LifeCount DEF Lifecycle!ServerInv

\* What the server keeps of the agents only grows while their rows are, and no token changes hands.
LEMMA GrowsBy ==
  ASSUME \A a \in Lifecycle!Ids : status[a] # Lifecycle!None => status'[a] # Lifecycle!None, \A n \in 1..MaxEnrolments : token'[n].agent = token[n].agent
  PROVE  Lifecycle!Grows
  BY DEF Lifecycle!Grows

LEMMA EnrollStep ==
  ASSUME Lifecycle!AgentLifecycleAssumption, Lifecycle!LifecycleInv, NEW a \in Lifecycle!Ids, NEW n \in DOMAIN token, NEW heard \in BOOLEAN, Lifecycle!enroll(a, n, heard)
  PROVE  Lifecycle!LifecycleInv'
<1>0. Lifecycle!ServerInv /\ Lifecycle!PageInv /\ Lifecycle!issue(a, heard)
  BY DEF Lifecycle!LifecycleInv, Lifecycle!enroll
<1>1. token' \in [1..MaxEnrolments -> Lifecycle!TokenRow] /\ Lifecycle!Gone' = Lifecycle!Gone \cup {n} /\ \A m \in 1..MaxEnrolments : token'[m].agent = token[m].agent
  <2>1. token' = [token EXCEPT ![n].status = "used"] /\ "used" \in {"used", "revoked"}
    BY DEF Lifecycle!enroll
  <2>. QED BY <2>1, <1>0, TokenGone
<1>2. n \notin Lifecycle!Gone
  BY DEF Lifecycle!enroll, Lifecycle!Usable, Lifecycle!Gone
<1>3. IsFiniteSet(Lifecycle!Gone') /\ Cardinality(Lifecycle!Gone') = Cardinality(Lifecycle!Gone) + 1
  BY <1>0, <1>1, <1>2, Finite, FS_AddElement
<1>4. Lifecycle!ServerInv'
  BY <1>0, <1>1, <1>3, IssueServer
<1>5. Lifecycle!Grows
  <2>1. \A b \in Lifecycle!Ids : status[b] # Lifecycle!None => status'[b] # Lifecycle!None
    BY <1>0 DEF Lifecycle!issue, Lifecycle!ServerInv, Lifecycle!None
  <2>. QED BY <2>1, <1>1, GrowsBy
<1>6. Lifecycle!Page
  BY DEF Lifecycle!enroll, Lifecycle!issue
<1>7. Lifecycle!PageInv'
  BY <1>0, <1>5, <1>6, PageLasts
<1>. QED BY <1>4, <1>7 DEF Lifecycle!LifecycleInv

LEMMA RenewStep ==
  ASSUME Lifecycle!AgentLifecycleAssumption, Lifecycle!LifecycleInv, NEW a \in Lifecycle!Ids, NEW heard \in BOOLEAN, Lifecycle!renew(a, heard)
  PROVE  Lifecycle!LifecycleInv'
<1>0. Lifecycle!ServerInv /\ Lifecycle!PageInv /\ Lifecycle!issue(a, heard) /\ UNCHANGED token
  BY DEF Lifecycle!LifecycleInv, Lifecycle!renew
<1>1. token' \in [1..MaxEnrolments -> Lifecycle!TokenRow] /\ Lifecycle!Gone' = Lifecycle!Gone
  BY <1>0 DEF Lifecycle!ServerInv, Lifecycle!Gone
<1>2. Len(certs[a]) # 0 /\ certs[a][Len(certs[a])] = "ACTIVE"
  <2>1. held[a] \in Nat /\ held[a] # 0 /\ held[a] <= Len(certs[a]) /\ certs[a][held[a]] = "ACTIVE" /\ certs[a] \in Seq({"ACTIVE", "SUPERSEDED", "REVOKED"})
    BY <1>0 DEF Lifecycle!ServerInv, Lifecycle!renew
  <2>2. held[a] \in Lifecycle!InForce(a)
    BY <2>1 DEF Lifecycle!InForce
  <2>. QED BY <1>0, <2>1, <2>2 DEF Lifecycle!ServerInv
<1>3. Lifecycle!ServerInv'
  BY <1>0, <1>1, <1>2, IssueServer, Finite
<1>5. Lifecycle!Grows
  BY <1>0 DEF Lifecycle!issue, Lifecycle!ServerInv, Lifecycle!None, Lifecycle!Grows
<1>6. Lifecycle!Page
  BY DEF Lifecycle!renew, Lifecycle!issue
<1>7. Lifecycle!PageInv'
  BY <1>0, <1>5, <1>6, PageLasts
<1>. QED BY <1>3, <1>7 DEF Lifecycle!LifecycleInv

LEMMA BlockOK == ASSUME Lifecycle!AgentLifecycleAssumption, Lifecycle!ServerInv, NEW a \in Lifecycle!Ids, Lifecycle!blockAgent(a) PROVE Lifecycle!ServerInv' /\ Lifecycle!Grows /\ status'[a] # Lifecycle!None
<1> DEFINE c == certs[a]
           k == Len(c)
           d == [i \in DOMAIN c |-> IF c[i] = "ACTIVE" THEN "REVOKED" ELSE c[i]]
           All == {"ACTIVE", "SUPERSEDED", "REVOKED"}
<1>1. certs \in [Lifecycle!Ids -> Seq(All)] /\ c \in Seq(All) /\ k \in Nat /\ DOMAIN c = 1..k
  BY DEF Lifecycle!ServerInv
<1>2. certs' = [certs EXCEPT ![a] = d]
  BY DEF Lifecycle!blockAgent
<1>4. /\ d \in Seq(All) /\ Len(d) = k /\ DOMAIN d = 1..k
      /\ \A i \in 1..k : d[i] = IF c[i] = "ACTIVE" THEN "REVOKED" ELSE c[i]
  BY <1>1
<1>6. certs' \in [Lifecycle!Ids -> Seq(All)] /\ certs'[a] = d /\ \A b \in Lifecycle!Ids \ {a} : certs'[b] = certs[b]
  <2> HIDE DEF d, c
  <2>. QED BY <1>1, <1>2, <1>4
<1> HIDE DEF d
<1>7. Lifecycle!InForce(a)' = {}
  BY <1>1, <1>4, <1>6 DEF Lifecycle!InForce
<1>8. status' \in [Lifecycle!Ids -> Lifecycle!Statuses] /\ status'[a] = "BLOCKED" /\ \A b \in Lifecycle!Ids \ {a} : status'[b] = status[b]
  BY DEF Lifecycle!blockAgent, Lifecycle!ServerInv, Lifecycle!Statuses
<1>9. Lifecycle!Revived(a)' = Lifecycle!Revived(a)
  <2>1. \A i \in 1..k : c[i] = "ACTIVE" => i = k
    BY <1>1 DEF Lifecycle!ServerInv, Lifecycle!InForce
  <2>2. \A i \in 1..k : i > 1 => i - 1 \in 1..k /\ i - 1 # k
    BY <1>1
  <2>. QED BY <1>1, <1>4, <1>6, <2>1, <2>2 DEF Lifecycle!Revived
<1>10. /\ token' \in [1..MaxEnrolments -> Lifecycle!TokenRow] /\ Lifecycle!Gone \subseteq Lifecycle!Gone'
       /\ \A n \in 1..MaxEnrolments : token'[n].agent = token[n].agent
  <2>1. token \in [1..MaxEnrolments -> Lifecycle!TokenRow] /\ token' = [n \in 1..MaxEnrolments |-> IF token[n].agent = a /\ token[n].status = "ready" THEN [token[n] EXCEPT !.status = "revoked"] ELSE token[n]]
    BY DEF Lifecycle!ServerInv, Lifecycle!blockAgent
  <2>2. ASSUME NEW n \in 1..MaxEnrolments
        PROVE  /\ token'[n] \in Lifecycle!TokenRow /\ token'[n].agent = token[n].agent
               /\ token'[n].status = token[n].status \/ token'[n].status = "revoked"
    <3>1. token[n] \in Lifecycle!TokenRow /\ "revoked" \in {Lifecycle!None, "ready", "used", "revoked"}
      BY <2>1
    <3>2. [token[n] EXCEPT !.status = "revoked"] \in Lifecycle!TokenRow /\ [token[n] EXCEPT !.status = "revoked"].agent = token[n].agent /\ [token[n] EXCEPT !.status = "revoked"].status = "revoked"
      BY <3>1, RowIs
    <3>. QED BY <2>1, <3>1, <3>2
  <2>3. DOMAIN token = 1..MaxEnrolments /\ DOMAIN token' = 1..MaxEnrolments
    BY <2>1
  <2>4. token' \in [1..MaxEnrolments -> Lifecycle!TokenRow]
    BY <2>1, <2>2
  <2>. QED BY <2>2, <2>3, <2>4 DEF Lifecycle!Gone
<1>11. IsFiniteSet(Lifecycle!Gone')
  <2>1. Lifecycle!Gone' \in SUBSET (1..MaxEnrolments)
    BY <1>10 DEF Lifecycle!Gone
  <2>2. IsFiniteSet(1..MaxEnrolments)
    BY FS_Interval DEF Lifecycle!AgentLifecycleAssumption
  <2>. QED BY <2>1, <2>2, FS_Subset
<1>12. ASSUME NEW b \in Lifecycle!Ids
       PROVE  /\ held'[b] <= Len(certs'[b])
              /\ Lifecycle!InForce(b)' \subseteq {Len(certs'[b])}
              /\ status'[b] \in {"BLOCKED", Lifecycle!None} => Lifecycle!InForce(b)' = {}
              /\ status'[b] = "ACTIVE" => Lifecycle!InForce(b)' # {}
              /\ Cardinality(Lifecycle!Revived(b)') <= Cardinality(Lifecycle!Gone')
  <2>0. Cardinality(Lifecycle!Revived(b)) <= Cardinality(Lifecycle!Gone') /\ held' = held
    BY <1>10, <1>11, MoreGone DEF Lifecycle!blockAgent
  <2>1. CASE b = a
    BY <2>0, <2>1, <1>1, <1>4, <1>6, <1>7, <1>8, <1>9 DEF Lifecycle!None, Lifecycle!ServerInv
  <2>2. CASE b # a
    <3>1. Lifecycle!InForce(b)' = Lifecycle!InForce(b) /\ Lifecycle!Revived(b)' = Lifecycle!Revived(b)
      BY <2>2, <1>6 DEF Lifecycle!InForce, Lifecycle!Revived
    <3>. QED BY <2>0, <2>2, <3>1, <1>6, <1>8 DEF Lifecycle!ServerInv
  <2>. QED BY <2>1, <2>2
<1>13. policy' \in Lifecycle!PolicyValues /\ held' \in [Lifecycle!Ids -> Nat]
  BY DEF Lifecycle!blockAgent, Lifecycle!ServerInv
<1>14. Lifecycle!Ids' = Lifecycle!Ids /\ Lifecycle!Statuses' = Lifecycle!Statuses /\ Lifecycle!TokenRow' = Lifecycle!TokenRow /\ Lifecycle!PolicyValues' = Lifecycle!PolicyValues
  BY DEF Lifecycle!Ids, Lifecycle!Statuses, Lifecycle!TokenRow, Lifecycle!PolicyValues
<1>15. Lifecycle!ServerInv'
  BY <1>6, <1>8, <1>10, <1>12, <1>13, <1>14, LifeCount DEF Lifecycle!ServerInv
<1>16. Lifecycle!Grows
  <2>1. \A b \in Lifecycle!Ids : status[b] # Lifecycle!None => status'[b] # Lifecycle!None
    BY <1>8 DEF Lifecycle!None
  <2>. QED BY <2>1, <1>10, GrowsBy
<1>. QED BY <1>8, <1>15, <1>16 DEF Lifecycle!None

LEMMA ReactivateOK == ASSUME Lifecycle!AgentLifecycleAssumption, Lifecycle!ServerInv, NEW a \in Lifecycle!Ids, Lifecycle!reactivateAgent(a) PROVE Lifecycle!ServerInv' /\ Lifecycle!Grows /\ status'[a] # Lifecycle!None
<1>1. status' \in [Lifecycle!Ids -> Lifecycle!Statuses] /\ status'[a] = "PENDING" /\ \A b \in Lifecycle!Ids \ {a} : status'[b] = status[b]
  BY DEF Lifecycle!reactivateAgent, Lifecycle!ServerInv, Lifecycle!Statuses
<1>2. UNCHANGED <<certs, held, token, policy>>
  BY DEF Lifecycle!reactivateAgent
<1>3. Lifecycle!Gone' = Lifecycle!Gone /\ \A b \in Lifecycle!Ids : Lifecycle!InForce(b)' = Lifecycle!InForce(b) /\ Lifecycle!Revived(b)' = Lifecycle!Revived(b)
  BY <1>2 DEF Lifecycle!Gone, Lifecycle!InForce, Lifecycle!Revived
<1>4. Lifecycle!Ids' = Lifecycle!Ids /\ Lifecycle!Statuses' = Lifecycle!Statuses /\ Lifecycle!TokenRow' = Lifecycle!TokenRow /\ Lifecycle!PolicyValues' = Lifecycle!PolicyValues
  BY DEF Lifecycle!Ids, Lifecycle!Statuses, Lifecycle!TokenRow, Lifecycle!PolicyValues
<1>5. ASSUME NEW b \in Lifecycle!Ids
      PROVE  status'[b] \in {"BLOCKED", Lifecycle!None, "ACTIVE"} => status'[b] = status[b]
  BY <1>1 DEF Lifecycle!None
<1>6. Lifecycle!ServerInv'
  BY <1>1, <1>2, <1>3, <1>4, <1>5 DEF Lifecycle!ServerInv
<1>. QED BY <1>1, <1>2, <1>6 DEF Lifecycle!Grows, Lifecycle!None

\* A token is made or revoked, the policy is saved.
LEMMA TokensOK ==
  ASSUME Lifecycle!AgentLifecycleAssumption, Lifecycle!ServerInv, UNCHANGED <<status, certs, held>>, policy' \in Lifecycle!PolicyValues,
         token' \in [1..MaxEnrolments -> Lifecycle!TokenRow], Lifecycle!Gone \subseteq Lifecycle!Gone'
  PROVE  Lifecycle!ServerInv'
<1>1. IsFiniteSet(Lifecycle!Gone')
  <2>1. Lifecycle!Gone' \in SUBSET (1..MaxEnrolments)
    BY DEF Lifecycle!Gone
  <2>2. IsFiniteSet(1..MaxEnrolments)
    BY FS_Interval DEF Lifecycle!AgentLifecycleAssumption
  <2>. QED BY <2>1, <2>2, FS_Subset
<1>2. ASSUME NEW b \in Lifecycle!Ids PROVE Cardinality(Lifecycle!Revived(b)') <= Cardinality(Lifecycle!Gone') /\ Lifecycle!InForce(b)' = Lifecycle!InForce(b)
  <2>1. Lifecycle!Revived(b)' = Lifecycle!Revived(b) /\ Lifecycle!InForce(b)' = Lifecycle!InForce(b)
    BY DEF Lifecycle!Revived, Lifecycle!InForce
  <2>. QED BY <1>1, <2>1, MoreGone
<1>3. Lifecycle!Ids' = Lifecycle!Ids /\ Lifecycle!Statuses' = Lifecycle!Statuses /\ Lifecycle!TokenRow' = Lifecycle!TokenRow /\ Lifecycle!PolicyValues' = Lifecycle!PolicyValues
  BY DEF Lifecycle!Ids, Lifecycle!Statuses, Lifecycle!TokenRow, Lifecycle!PolicyValues
<1>. QED BY <1>2, <1>3, LifeCount DEF Lifecycle!ServerInv

LEMMA RevokeOK == ASSUME Lifecycle!AgentLifecycleAssumption, Lifecycle!ServerInv, NEW n \in 1..MaxEnrolments, Lifecycle!revoke(n) PROVE Lifecycle!ServerInv' /\ Lifecycle!Grows
<1>1. /\ token' \in [1..MaxEnrolments -> Lifecycle!TokenRow] /\ Lifecycle!Gone' = Lifecycle!Gone \cup {n}
      /\ \A m \in 1..MaxEnrolments : token'[m].agent = token[m].agent
  <2>1. token' = [token EXCEPT ![n].status = "revoked"] /\ "revoked" \in {"used", "revoked"} /\ n \in DOMAIN token
    BY DEF Lifecycle!revoke, Lifecycle!ServerInv
  <2>. QED BY <2>1, TokenGone
<1>2. UNCHANGED <<status, certs, held>> /\ policy' \in Lifecycle!PolicyValues
  BY DEF Lifecycle!revoke, Lifecycle!ServerInv
<1>3. Lifecycle!ServerInv'
  BY <1>1, <1>2, TokensOK
<1>. QED BY <1>1, <1>2, <1>3 DEF Lifecycle!Grows

LEMMA LifeCreateOK == ASSUME Lifecycle!AgentLifecycleAssumption, Lifecycle!ServerInv, NEW a \in Lifecycle!Ids \cup {Lifecycle!None}, Lifecycle!createToken(a) PROVE Lifecycle!ServerInv' /\ Lifecycle!Grows
<1>1. PICK n \in 1..MaxEnrolments : token[n] = Lifecycle!NoToken /\ token' = [token EXCEPT ![n] = [agent |-> a, status |-> "ready"]]
  BY DEF Lifecycle!createToken, Lifecycle!ServerInv
<1>2. UNCHANGED <<status, certs, held>> /\ policy' \in Lifecycle!PolicyValues
  BY DEF Lifecycle!createToken, Lifecycle!ServerInv
<1>3. [agent |-> a, status |-> "ready"] \in Lifecycle!TokenRow
  BY DEF Lifecycle!TokenRow
<1>4. PICK r : r = [agent |-> a, status |-> "ready"]
  OBVIOUS
<1>5. token \in [1..MaxEnrolments -> Lifecycle!TokenRow] /\ r \in Lifecycle!TokenRow /\ token' = [token EXCEPT ![n] = r]
  BY <1>1, <1>3, <1>4 DEF Lifecycle!ServerInv
<1>6. token' \in [1..MaxEnrolments -> Lifecycle!TokenRow] /\ \A m \in (1..MaxEnrolments) \ {n} : token'[m] = token[m]
  BY <1>5
<1>7. token[n].agent = Lifecycle!None /\ token[n].status \notin {"used", "revoked"}
  BY <1>1 DEF Lifecycle!NoToken, Lifecycle!None
<1>8. Lifecycle!Gone \subseteq Lifecycle!Gone'
  <2>1. DOMAIN token = 1..MaxEnrolments /\ DOMAIN token' = 1..MaxEnrolments
    BY <1>5, <1>6
  <2>. QED BY <2>1, <1>6, <1>7 DEF Lifecycle!Gone
<1>9. Lifecycle!ServerInv'
  BY <1>2, <1>6, <1>8, TokensOK
<1>10. Lifecycle!Grows
  BY <1>2, <1>6, <1>7 DEF Lifecycle!Grows
<1>. QED BY <1>9, <1>10

LEMMA PolicyOK == ASSUME Lifecycle!AgentLifecycleAssumption, Lifecycle!ServerInv, NEW v \in Lifecycle!PolicyValues, Lifecycle!upsertPolicy(v) PROVE Lifecycle!ServerInv' /\ Lifecycle!Grows
<1>1. UNCHANGED <<status, certs, held, token>> /\ policy' \in Lifecycle!PolicyValues
  BY DEF Lifecycle!upsertPolicy
<1>2. Lifecycle!Gone \subseteq Lifecycle!Gone' /\ token' \in [1..MaxEnrolments -> Lifecycle!TokenRow]
  BY <1>1 DEF Lifecycle!Gone, Lifecycle!ServerInv
<1>3. Lifecycle!ServerInv'
  BY <1>1, <1>2, TokensOK
<1>. QED BY <1>1, <1>3 DEF Lifecycle!Grows

LEMMA LifeStoreOK == ASSUME Lifecycle!AgentLifecycleAssumption, Lifecycle!ServerInv, Lifecycle!Server PROVE Lifecycle!ServerInv' /\ Lifecycle!Grows
<1>1. Lifecycle!Gone \subseteq Lifecycle!Gone' /\ token' \in [1..MaxEnrolments -> Lifecycle!TokenRow] /\ UNCHANGED <<status, certs, held>> /\ policy' \in Lifecycle!PolicyValues
  BY DEF Lifecycle!Gone, Lifecycle!ServerInv, Lifecycle!Server
<1>2. Lifecycle!ServerInv'
  BY <1>1, TokensOK
<1>. QED BY <1>2 DEF Lifecycle!Grows, Lifecycle!Server

LEMMA ElsewhereStep == ASSUME Lifecycle!AgentLifecycleAssumption, Lifecycle!LifecycleInv, Lifecycle!Elsewhere PROVE Lifecycle!LifecycleInv'
<1>0. Lifecycle!ServerInv /\ Lifecycle!PageInv /\ Lifecycle!Page
  BY DEF Lifecycle!LifecycleInv, Lifecycle!Elsewhere
<1>1. Lifecycle!ServerInv' /\ Lifecycle!Grows
  <2>1. CASE \E a \in Lifecycle!Ids : Lifecycle!blockAgent(a)
    BY <1>0, <2>1, BlockOK
  <2>2. CASE \E a \in Lifecycle!Ids : Lifecycle!reactivateAgent(a)
    BY <1>0, <2>2, ReactivateOK
  <2>3. CASE \E a \in Lifecycle!Ids : Lifecycle!createToken(a)
    BY <1>0, <2>3, LifeCreateOK
  <2>4. CASE \E v \in Policies : Lifecycle!upsertPolicy(v)
    BY <1>0, <2>4, PolicyOK DEF Lifecycle!PolicyValues
  <2>. QED BY <2>1, <2>2, <2>3, <2>4 DEF Lifecycle!Elsewhere
<1>. QED BY <1>0, <1>1, PageLasts DEF Lifecycle!LifecycleInv

LEMMA SameTypes ==
  /\ Lifecycle!Ids' = Lifecycle!Ids /\ Lifecycle!Statuses' = Lifecycle!Statuses /\ Lifecycle!TokenRow' = Lifecycle!TokenRow /\ Lifecycle!PolicyValues' = Lifecycle!PolicyValues /\ Lifecycle!TaskTypes' = Lifecycle!TaskTypes
  /\ \A p : Lifecycle!ListOf(p)' = Lifecycle!ListOf(p)
  BY DEF Lifecycle!Ids, Lifecycle!Statuses, Lifecycle!TokenRow, Lifecycle!PolicyValues, Lifecycle!TaskTypes, Lifecycle!ListOf, Lifecycle!Lists

\* The handlers under way and the form change.
LEMMA PageChanges ==
  ASSUME Lifecycle!AgentLifecycleAssumption, Lifecycle!PageInv, Lifecycle!Grows, UNCHANGED <<list, policiesLoaded>>, tasks' \in Seq(Lifecycle!TasksTrue'),
         form' \in [open : BOOLEAN, agent : Lifecycle!Ids \cup {Lifecycle!None}], form'.agent # Lifecycle!None => status'[form'.agent] # Lifecycle!None
  PROVE  Lifecycle!PageInv'
<1>1. Lifecycle!Known(list)'
  BY KnownLasts DEF Lifecycle!PageInv
<1>. QED BY <1>1, SameTypes DEF Lifecycle!PageInv

LEMMA FormLasts ==
  ASSUME Lifecycle!AgentLifecycleAssumption, Lifecycle!PageInv, Lifecycle!Grows, form' = form
  PROVE  form' \in [open : BOOLEAN, agent : Lifecycle!Ids \cup {Lifecycle!None}] /\ (form'.agent # Lifecycle!None => status'[form'.agent] # Lifecycle!None)
<1>1. form \in [open : BOOLEAN, agent : Lifecycle!Ids \cup {Lifecycle!None}] /\ (form.agent # Lifecycle!None => status[form.agent] # Lifecycle!None)
  BY DEF Lifecycle!PageInv
<1>2. form.agent \in Lifecycle!Ids \cup {Lifecycle!None}
  BY <1>1
<1>. QED BY <1>1, <1>2 DEF Lifecycle!Grows

\* One handler goes on, or ends.
LEMMA TaskSet ==
  ASSUME Lifecycle!AgentLifecycleAssumption, Lifecycle!PageInv, Lifecycle!Grows, NEW i \in DOMAIN tasks, NEW u \in Lifecycle!TasksTrue', tasks' = [tasks EXCEPT ![i] = u]
  PROVE  tasks' \in Seq(Lifecycle!TasksTrue')
<1>1. tasks \in Seq(Lifecycle!TasksTrue')
  BY TasksLast, SeqWider DEF Lifecycle!PageInv
<1>. QED BY <1>1
LEMMA TaskEnds ==
  ASSUME Lifecycle!AgentLifecycleAssumption, Lifecycle!PageInv, Lifecycle!Grows, NEW i \in DOMAIN tasks, tasks' = Lifecycle!RemoveAt(tasks, i)
  PROVE  tasks' \in Seq(Lifecycle!TasksTrue')
<1>1. tasks \in Seq(Lifecycle!TasksTrue')
  BY TasksLast, SeqWider DEF Lifecycle!PageInv
<1>. QED BY <1>1, RemoveKeeps

LEMMA TaskIs == ASSUME Lifecycle!PageInv, NEW i \in DOMAIN tasks PROVE tasks[i] \in Lifecycle!TaskTypes /\ Lifecycle!TaskTrue(tasks[i])
<1>1. tasks[i] \in Lifecycle!TasksTrue
  BY DEF Lifecycle!PageInv
<1>. QED BY <1>1 DEF Lifecycle!TasksTrue

LEMMA AnsweredIs ==
  ASSUME NEW t \in Lifecycle!TaskTypes, Lifecycle!TaskTrue(t), NEW at \in {"failed", "read"}
  PROVE  Lifecycle!Answered(t, at) \in Lifecycle!TasksTrue
<1>1. PICK u : u = Lifecycle!Answered(t, at)
  OBVIOUS
<1>2. /\ u \in Lifecycle!TaskTypes /\ u.kind = "answered" /\ u.at = at /\ u.got = t.got
  BY <1>1 DEF Lifecycle!Answered, Lifecycle!TaskTypes, Lifecycle!PolicyValues
<1>3. Lifecycle!TaskTrue(u)
  BY <1>2 DEF Lifecycle!TaskTrue
<1>. QED BY <1>1, <1>2, <1>3 DEF Lifecycle!TasksTrue

LEMMA DoneIs ==
  ASSUME NEW t \in Lifecycle!TaskTypes, Lifecycle!TaskTrue(t), t.at = "asked", t.kind = "reactivate" => status[t.on] # Lifecycle!None
  PROVE  [t EXCEPT !.at = "done"] \in Lifecycle!TasksTrue
<1>1. PICK u : u = [t EXCEPT !.at = "done"]
  OBVIOUS
<1>2. u \in Lifecycle!TaskTypes /\ u.kind = t.kind /\ u.at = "done" /\ u.got = t.got /\ u.on = t.on /\ u.no = t.no /\ u.value = t.value
  BY <1>1 DEF Lifecycle!TaskTypes
<1>3. Lifecycle!TaskTrue(u)
  BY <1>2 DEF Lifecycle!TaskTrue
<1>. QED BY <1>1, <1>2, <1>3 DEF Lifecycle!TasksTrue

\* A handler that begins: the load knows no row, and the others what is shown.
LEMMA BegunIs ==
  ASSUME Lifecycle!AgentLifecycleAssumption, Lifecycle!PageInv,
         NEW kind \in {"load", "block", "reactivate", "revoke", "package", "policy", "release"}, NEW on \in Lifecycle!Ids \cup {Lifecycle!None},
         NEW no \in {0} \cup (1..MaxEnrolments), NEW value \in Lifecycle!PolicyValues \cup {Lifecycle!Unread},
         kind = "revoke" => no # 0, kind = "policy" => value # Lifecycle!Unread,
         kind \in {"block", "reactivate"} => on \in Lifecycle!Ids /\ (status[on] # Lifecycle!None \/ \E n \in 1..MaxEnrolments : token[n].agent = on)
  PROVE  Lifecycle!Task(kind, on, no, value) \in Lifecycle!TasksTrue
<1>1. PICK g : g = [list EXCEPT !.policies = Lifecycle!Lost]
  OBVIOUS
<1>2. list \in Lifecycle!ListOf(Lifecycle!PolicyValues \cup {Lifecycle!Unread}) /\ Lifecycle!Known(list)
  BY DEF Lifecycle!PageInv
<1>3. g \in Lifecycle!ListOf(Lifecycle!PolicyValues \cup {Lifecycle!Lost}) /\ g.agents = list.agents /\ g.token = list.token
  BY <1>1, <1>2 DEF Lifecycle!ListOf
<1>4. Lifecycle!Known(g)
  BY <1>2, <1>3 DEF Lifecycle!Known
<1>5. PICK t : t = Lifecycle!Task(kind, on, no, value)
  OBVIOUS
<1>6. /\ t.kind = kind /\ t.on = on /\ t.no = no /\ t.value = value /\ t.got = g
      /\ t.at = (IF kind = "load" THEN "read" ELSE "asked")
  BY <1>1, <1>5 DEF Lifecycle!Task
<1>7. t = [kind |-> kind, on |-> on, no |-> no, value |-> value, at |-> IF kind = "load" THEN "read" ELSE "asked", got |-> g, left |-> Lifecycle!Lists]
  BY <1>1, <1>5 DEF Lifecycle!Task
<1>8. t \in Lifecycle!TaskTypes
  BY <1>3, <1>7 DEF Lifecycle!TaskTypes
<1>9. Lifecycle!TaskTrue(t)
  BY <1>4, <1>6 DEF Lifecycle!TaskTrue
<1>. QED BY <1>5, <1>8, <1>9 DEF Lifecycle!TasksTrue

LEMMA LifeStartOK ==
  ASSUME Lifecycle!AgentLifecycleAssumption, Lifecycle!LifecycleInv, NEW t \in Lifecycle!TasksTrue, NEW waits, Lifecycle!Start(t, waits)
  PROVE  Lifecycle!LifecycleInv'
<1>1. Lifecycle!ServerInv' /\ Lifecycle!Grows
  BY LifeStoreOK DEF Lifecycle!LifecycleInv, Lifecycle!Start
<1>2. t \in Lifecycle!TasksTrue' /\ tasks \in Seq(Lifecycle!TasksTrue')
  BY <1>1, TasksLast, SeqWider DEF Lifecycle!LifecycleInv, Lifecycle!PageInv
<1>3. tasks' \in Seq(Lifecycle!TasksTrue')
  BY <1>2 DEF Lifecycle!Start
<1>4. form' = form /\ UNCHANGED <<list, policiesLoaded>>
  BY DEF Lifecycle!Start
<1>. QED BY <1>1, <1>3, <1>4, FormLasts, PageChanges DEF Lifecycle!LifecycleInv

\* Nothing but a choice or what is typed.
LEMMA QuietOK ==
  ASSUME Lifecycle!AgentLifecycleAssumption, Lifecycle!LifecycleInv, UNCHANGED <<list, policiesLoaded, form, tasks>>, Lifecycle!Server
  PROVE  Lifecycle!LifecycleInv'
<1>1. Lifecycle!ServerInv' /\ Lifecycle!Grows
  BY LifeStoreOK DEF Lifecycle!LifecycleInv
<1>2. tasks' \in Seq(Lifecycle!TasksTrue')
  BY <1>1, TasksLast, SeqWider DEF Lifecycle!LifecycleInv, Lifecycle!PageInv
<1>. QED BY <1>1, <1>2, FormLasts, PageChanges DEF Lifecycle!LifecycleInv

\* What the server does for a handler of the page.
LEMMA EffectOK ==
  ASSUME Lifecycle!AgentLifecycleAssumption, Lifecycle!ServerInv, NEW t \in Lifecycle!TaskTypes, Lifecycle!TaskTrue(t), t.at = "asked", Lifecycle!Effect(t)
  PROVE  Lifecycle!ServerInv' /\ Lifecycle!Grows /\ (t.kind = "reactivate" => status'[t.on] # Lifecycle!None)
<1>0. t.kind \in {"block", "reactivate", "revoke", "package", "policy", "release"}
  BY DEF Lifecycle!TaskTrue, Lifecycle!TaskTypes
<1>1. CASE t.kind = "block"
  BY <1>1, BlockOK DEF Lifecycle!Effect, Lifecycle!TaskTrue
<1>2. CASE t.kind = "reactivate"
  <2>1. t.on \in Lifecycle!Ids /\ Lifecycle!reactivateAgent(t.on)
    BY <1>2 DEF Lifecycle!Effect, Lifecycle!TaskTrue
  <2>. QED BY <2>1, ReactivateOK
<1>3. CASE t.kind = "revoke"
  <2>1. t.no \in 1..MaxEnrolments /\ Lifecycle!revoke(t.no)
    BY <1>3 DEF Lifecycle!Effect, Lifecycle!TaskTrue, Lifecycle!TaskTypes
  <2>. QED BY <1>3, <2>1, RevokeOK
<1>4. CASE t.kind = "package"
  <2>1. t.on \in Lifecycle!Ids \cup {Lifecycle!None} /\ Lifecycle!createToken(t.on)
    BY <1>4 DEF Lifecycle!Effect, Lifecycle!TaskTypes
  <2>. QED BY <1>4, <2>1, LifeCreateOK
<1>5. CASE t.kind = "policy"
  <2>1. t.value \in Lifecycle!PolicyValues \cup {Lifecycle!Unread} /\ Lifecycle!upsertPolicy(Lifecycle!Sent(t.value))
    BY <1>5 DEF Lifecycle!Effect, Lifecycle!TaskTypes
  <2>2. Lifecycle!Sent(t.value) \in Lifecycle!PolicyValues
    BY <2>1 DEF Lifecycle!Sent, Lifecycle!PolicyValues
  <2>. QED BY <1>5, <2>1, <2>2, PolicyOK
<1>6. CASE t.kind = "release"
  BY <1>6, LifeStoreOK DEF Lifecycle!Effect
<1>. QED BY <1>0, <1>1, <1>2, <1>3, <1>4, <1>5, <1>6

LEMMA ServeStep ==
  ASSUME Lifecycle!AgentLifecycleAssumption, Lifecycle!LifecycleInv, NEW i \in DOMAIN tasks, NEW arrives \in BOOLEAN, NEW heard \in BOOLEAN, Lifecycle!Serve(i, arrives, heard)
  PROVE  Lifecycle!LifecycleInv'
<1>0. Lifecycle!ServerInv /\ Lifecycle!PageInv
  BY DEF Lifecycle!LifecycleInv
<1>1. PICK t : t = tasks[i]
  OBVIOUS
<1>2. t \in Lifecycle!TaskTypes /\ Lifecycle!TaskTrue(t) /\ t.at = "asked"
  BY <1>0, <1>1, TaskIs DEF Lifecycle!Serve
<1>3. Lifecycle!ServerInv' /\ Lifecycle!Grows /\ (arrives => (t.kind = "reactivate" => status'[t.on] # Lifecycle!None))
  <2>1. CASE arrives
    <3>1. Lifecycle!Effect(t)
      BY <1>1, <2>1 DEF Lifecycle!Serve
    <3>. QED BY <1>0, <1>2, <3>1, EffectOK
  <2>2. CASE ~ arrives
    BY <1>0, <2>2, LifeStoreOK DEF Lifecycle!Serve
  <2>. QED BY <2>1, <2>2
<1>4. t \in Lifecycle!TaskTypes' /\ Lifecycle!TaskTrue(t)'
  <2>1. t \in Lifecycle!TasksTrue'
    BY <1>2, <1>3, TasksLast DEF Lifecycle!TasksTrue
  <2>. QED BY <2>1 DEF Lifecycle!TasksTrue
<1>5. PICK u : u = IF heard THEN [t EXCEPT !.at = "done"] ELSE Lifecycle!Answered(t, "failed")
  OBVIOUS
<1>6. u \in Lifecycle!TasksTrue'
  <2>1. CASE heard
    <3>1. t.kind = "reactivate" => status'[t.on] # Lifecycle!None
      BY <1>3, <2>1 DEF Lifecycle!Serve
    <3>2. u = [t EXCEPT !.at = "done"]
      BY <1>5, <2>1
    <3>3. u \in Lifecycle!TaskTypes' /\ u.kind = t.kind /\ u.at = "done" /\ u.got = t.got /\ u.on = t.on /\ u.no = t.no /\ u.value = t.value
      BY <3>2, <1>2, SameTypes DEF Lifecycle!TaskTypes
    <3>4. Lifecycle!TaskTrue(u)'
      BY <3>1, <3>3, <1>2, <1>4 DEF Lifecycle!TaskTrue
    <3>. QED BY <3>3, <3>4 DEF Lifecycle!TasksTrue
  <2>2. CASE ~ heard
    <3>1. u \in Lifecycle!TasksTrue
      BY <1>2, <1>5, <2>2, AnsweredIs
    <3>. QED BY <3>1, <1>3, TasksLast
  <2>. QED BY <2>1, <2>2
<1>7. tasks' = [tasks EXCEPT ![i] = u] /\ form' = form /\ UNCHANGED <<list, policiesLoaded>>
  BY <1>1, <1>5 DEF Lifecycle!Serve
<1>8. tasks' \in Seq(Lifecycle!TasksTrue')
  BY <1>0, <1>3, <1>6, <1>7, TaskSet
<1>. QED BY <1>0, <1>3, <1>7, <1>8, FormLasts, PageChanges DEF Lifecycle!LifecycleInv

LEMMA AnsweredStep ==
  ASSUME Lifecycle!AgentLifecycleAssumption, Lifecycle!LifecycleInv, NEW i \in DOMAIN tasks, Lifecycle!answered(i)
  PROVE  Lifecycle!LifecycleInv'
<1>0. Lifecycle!ServerInv /\ Lifecycle!PageInv /\ Lifecycle!ServerInv' /\ Lifecycle!Grows
  BY LifeStoreOK DEF Lifecycle!LifecycleInv, Lifecycle!answered
<1>1. PICK t : t = tasks[i]
  OBVIOUS
<1>2. t \in Lifecycle!TaskTypes /\ Lifecycle!TaskTrue(t) /\ t.at = "done"
  BY <1>0, <1>1, TaskIs DEF Lifecycle!answered
<1>3. PICK u : u = Lifecycle!Answered(t, "read")
  OBVIOUS
<1>4. u \in Lifecycle!TasksTrue'
  BY <1>0, <1>2, <1>3, AnsweredIs, TasksLast
<1>5. tasks' = [tasks EXCEPT ![i] = u] /\ UNCHANGED <<list, policiesLoaded>>
  BY <1>1, <1>3 DEF Lifecycle!answered
<1>6. tasks' \in Seq(Lifecycle!TasksTrue')
  BY <1>0, <1>4, <1>5, TaskSet
<1>7. form' \in [open : BOOLEAN, agent : Lifecycle!Ids \cup {Lifecycle!None}] /\ (form'.agent # Lifecycle!None => status'[form'.agent] # Lifecycle!None)
  <2>1. CASE t.kind = "package"
    BY <1>1, <2>1 DEF Lifecycle!answered, Lifecycle!Closed
  <2>2. CASE t.kind = "reactivate"
    <3>1. t.on \in Lifecycle!Ids /\ status[t.on] # Lifecycle!None
      BY <1>2, <2>2 DEF Lifecycle!TaskTrue
    <3>2. form' = [open |-> TRUE, agent |-> t.on]
      BY <1>1, <2>2 DEF Lifecycle!answered
    <3>. QED BY <3>1, <3>2, <1>0 DEF Lifecycle!Grows
  <2>3. CASE t.kind \notin {"package", "reactivate"}
    <3>1. form' = form
      BY <1>1, <2>3 DEF Lifecycle!answered
    <3>. QED BY <3>1, <1>0, FormLasts
  <2>. QED BY <2>1, <2>2, <2>3
<1>. QED BY <1>0, <1>5, <1>6, <1>7, PageChanges DEF Lifecycle!LifecycleInv

LEMMA FailedStep ==
  ASSUME Lifecycle!AgentLifecycleAssumption, Lifecycle!LifecycleInv, NEW i \in DOMAIN tasks, Lifecycle!failed(i)
  PROVE  Lifecycle!LifecycleInv'
<1>0. Lifecycle!ServerInv /\ Lifecycle!PageInv /\ Lifecycle!ServerInv' /\ Lifecycle!Grows
  BY LifeStoreOK DEF Lifecycle!LifecycleInv, Lifecycle!failed
<1>1. tasks' = Lifecycle!RemoveAt(tasks, i) /\ UNCHANGED <<list, policiesLoaded>> /\ form' = form
  BY DEF Lifecycle!failed
<1>2. tasks' \in Seq(Lifecycle!TasksTrue')
  BY <1>0, <1>1, TaskEnds
<1>. QED BY <1>0, <1>1, <1>2, FormLasts, PageChanges DEF Lifecycle!LifecycleInv

LEMMA ReadStep ==
  ASSUME Lifecycle!AgentLifecycleAssumption, Lifecycle!LifecycleInv, NEW i \in DOMAIN tasks, NEW what \in Lifecycle!Lists, NEW heard \in BOOLEAN, Lifecycle!Read(i, what, heard)
  PROVE  Lifecycle!LifecycleInv'
<1>0. Lifecycle!ServerInv /\ Lifecycle!PageInv /\ Lifecycle!ServerInv' /\ Lifecycle!Grows
  BY LifeStoreOK DEF Lifecycle!LifecycleInv, Lifecycle!Read
<1>1. PICK t : t = tasks[i]
  OBVIOUS
<1>2. t \in Lifecycle!TaskTypes /\ Lifecycle!TaskTrue(t)
  BY <1>0, <1>1, TaskIs
<1>3. PICK g : g = IF heard THEN [t.got EXCEPT ![what] = Lifecycle!Now(what)] ELSE t.got
  OBVIOUS
<1>4. t.got \in Lifecycle!ListOf(Lifecycle!PolicyValues \cup {Lifecycle!Lost}) /\ Lifecycle!Known(t.got)
  BY <1>2 DEF Lifecycle!TaskTypes, Lifecycle!TaskTrue
<1>5. g \in Lifecycle!ListOf(Lifecycle!PolicyValues \cup {Lifecycle!Lost}) /\ Lifecycle!Known(g)
  <2>0. status \in [Lifecycle!Ids -> Lifecycle!Statuses] /\ token \in [1..MaxEnrolments -> Lifecycle!TokenRow] /\ policy \in Lifecycle!PolicyValues
    BY <1>0 DEF Lifecycle!ServerInv
  <2>1. CASE ~ heard
    BY <2>1, <1>3, <1>4
  <2>2. CASE heard /\ what = "agents"
    <3>1. g = [t.got EXCEPT !.agents = status]
      BY <2>2, <1>3 DEF Lifecycle!Now
    <3>2. g \in Lifecycle!ListOf(Lifecycle!PolicyValues \cup {Lifecycle!Lost}) /\ g.agents = status /\ g.token = t.got.token
      BY <3>1, <2>0, <1>4 DEF Lifecycle!ListOf
    <3>. QED BY <3>2, <1>4 DEF Lifecycle!Known
  <2>3. CASE heard /\ what = "token"
    <3>1. g = [t.got EXCEPT !.token = token]
      BY <2>3, <1>3 DEF Lifecycle!Now
    <3>2. g \in Lifecycle!ListOf(Lifecycle!PolicyValues \cup {Lifecycle!Lost}) /\ g.agents = t.got.agents /\ g.token = token
      BY <3>1, <2>0, <1>4 DEF Lifecycle!ListOf
    <3>. QED BY <3>2, <1>4 DEF Lifecycle!Known
  <2>4. CASE heard /\ what = "policies"
    <3>1. g = [t.got EXCEPT !.policies = policy]
      BY <2>4, <1>3 DEF Lifecycle!Now
    <3>2. g \in Lifecycle!ListOf(Lifecycle!PolicyValues \cup {Lifecycle!Lost}) /\ g.agents = t.got.agents /\ g.token = t.got.token
      BY <3>1, <2>0, <1>4 DEF Lifecycle!ListOf
    <3>. QED BY <3>2, <1>4 DEF Lifecycle!Known
  <2>. QED BY <2>1, <2>2, <2>3, <2>4 DEF Lifecycle!Lists
<1>6. PICK u : u = [t EXCEPT !.left = @ \ {what}, !.got = g]
  OBVIOUS
<1>7. /\ u \in Lifecycle!TaskTypes /\ u.kind = t.kind /\ u.at = t.at /\ u.got = g /\ u.on = t.on /\ u.no = t.no /\ u.value = t.value
  BY <1>2, <1>5, <1>6 DEF Lifecycle!TaskTypes
<1>8. Lifecycle!TaskTrue(u)
  BY <1>2, <1>5, <1>7 DEF Lifecycle!TaskTrue
<1>9. u \in Lifecycle!TasksTrue'
  BY <1>0, <1>7, <1>8, TasksLast DEF Lifecycle!TasksTrue
<1>10. tasks' = [tasks EXCEPT ![i] = u] /\ UNCHANGED <<list, policiesLoaded>> /\ form' = form
  BY <1>1, <1>3, <1>6 DEF Lifecycle!Read
<1>11. tasks' \in Seq(Lifecycle!TasksTrue')
  BY <1>0, <1>9, <1>10, TaskSet
<1>. QED BY <1>0, <1>10, <1>11, FormLasts, PageChanges DEF Lifecycle!LifecycleInv

LEMMA LoadedStep ==
  ASSUME Lifecycle!AgentLifecycleAssumption, Lifecycle!LifecycleInv, NEW i \in DOMAIN tasks, Lifecycle!loaded(i)
  PROVE  Lifecycle!LifecycleInv'
<1>0. Lifecycle!ServerInv /\ Lifecycle!PageInv /\ Lifecycle!ServerInv' /\ Lifecycle!Grows
  BY LifeStoreOK DEF Lifecycle!LifecycleInv, Lifecycle!loaded
<1>1. PICK g : g = tasks[i].got
  OBVIOUS
<1>2. g \in Lifecycle!ListOf(Lifecycle!PolicyValues \cup {Lifecycle!Lost}) /\ Lifecycle!Known(g)
  BY <1>0, <1>1, TaskIs DEF Lifecycle!TaskTypes, Lifecycle!TaskTrue
<1>3. list' = (IF g.policies = Lifecycle!Lost THEN [g EXCEPT !.policies = list.policies] ELSE g) /\ policiesLoaded' = (g.policies # Lifecycle!Lost)
  BY <1>1 DEF Lifecycle!loaded
<1>4. list.policies \in Lifecycle!PolicyValues \cup {Lifecycle!Unread}
  BY <1>0 DEF Lifecycle!PageInv, Lifecycle!ListOf
<1>5. PICK l : l = IF g.policies = Lifecycle!Lost THEN [g EXCEPT !.policies = list.policies] ELSE g
  OBVIOUS
<1>6. l \in Lifecycle!ListOf(Lifecycle!PolicyValues \cup {Lifecycle!Unread}) /\ l.agents = g.agents /\ l.token = g.token /\ (g.policies # Lifecycle!Lost => l.policies = g.policies)
  BY <1>2, <1>4, <1>5 DEF Lifecycle!ListOf
<1>7. g.policies # Lifecycle!Lost => g.policies # Lifecycle!Unread
  BY <1>2 DEF Lifecycle!ListOf, Lifecycle!PolicyValues, Lifecycle!AgentLifecycleAssumption, Lifecycle!Unread, Lifecycle!Lost, Lifecycle!Unset
<1>8. list' = l /\ (policiesLoaded' => l.policies # Lifecycle!Unread)
  BY <1>3, <1>5, <1>6, <1>7
<1>9. Lifecycle!Known(l)'
  <2>1. Lifecycle!Known(l)
    BY <1>2, <1>6 DEF Lifecycle!Known
  <2>. QED BY <2>1, <1>0 DEF Lifecycle!Known, Lifecycle!Grows
<1>10. tasks' = Lifecycle!RemoveAt(tasks, i) /\ form' = form
  BY DEF Lifecycle!loaded
<1>11. tasks' \in Seq(Lifecycle!TasksTrue')
  BY <1>0, <1>10, TaskEnds
<1>12. Lifecycle!Known(list)'
  BY <1>8, <1>9 DEF Lifecycle!Known
<1>13. form' \in [open : BOOLEAN, agent : Lifecycle!Ids \cup {Lifecycle!None}] /\ (form'.agent # Lifecycle!None => status'[form'.agent] # Lifecycle!None)
  BY <1>0, <1>10, FormLasts
<1>14. Lifecycle!PageInv'
  BY <1>6, <1>8, <1>11, <1>12, <1>13, SameTypes DEF Lifecycle!PageInv
<1>. QED BY <1>0, <1>14 DEF Lifecycle!LifecycleInv

LEMMA FirstIs == ASSUME Lifecycle!AgentLifecycleAssumption, NEW some \in SUBSET Lifecycle!Ids, some # {} PROVE Lifecycle!First(some) \in some
<1> DEFINE at == {i \in DOMAIN Agents : Agents[i] \in some}
<1>1. DOMAIN Agents = 1..Len(Agents) /\ Len(Agents) \in Nat
  BY DEF Lifecycle!AgentLifecycleAssumption
<1>2. at \in SUBSET Nat /\ at # {}
  <2>1. PICK a \in some : TRUE
    OBVIOUS
  <2>2. PICK i \in DOMAIN Agents : Agents[i] = a
    BY <2>1 DEF Lifecycle!Ids, Lifecycle!Range
  <2>. QED BY <1>1, <2>2
<1>3. PICK m \in at : \A n \in at : m <= n
  BY <1>2, Least
<1>4. \E i \in DOMAIN Agents : Agents[i] \in some /\ \A j \in 1..(i - 1) : Agents[j] \notin some
  <2>1. m \in DOMAIN Agents /\ Agents[m] \in some
    BY <1>3
  <2>2. ASSUME NEW j \in 1..(m - 1) PROVE Agents[j] \notin some
    <3>1. m \in 1..Len(Agents) /\ j \in DOMAIN Agents /\ ~ (m <= j)
      BY <1>1, <2>1
    <3>. QED BY <3>1, <1>3
  <2>. QED BY <2>1, <2>2
<1>. QED BY <1>4 DEF Lifecycle!First

\* Whatever is chosen, what is acted on is an agent CastrelSign knows or made a token for.
LEMMA SelectedShown ==
  ASSUME Lifecycle!AgentLifecycleAssumption, Lifecycle!PageInv, Lifecycle!selectedAgent # Lifecycle!None
  PROVE  Lifecycle!selectedAgent \in Lifecycle!Ids /\ (status[Lifecycle!selectedAgent] # Lifecycle!None \/ \E n \in 1..MaxEnrolments : token[n].agent = Lifecycle!selectedAgent)
<1>1. list \in Lifecycle!ListOf(Lifecycle!PolicyValues \cup {Lifecycle!Unread}) /\ Lifecycle!Known(list)
  BY DEF Lifecycle!PageInv
<1>2. list.agents \in [Lifecycle!Ids -> Lifecycle!Statuses] /\ list.token \in [1..MaxEnrolments -> Lifecycle!TokenRow]
  BY <1>1 DEF Lifecycle!ListOf
<1>3. \A n \in 1..MaxEnrolments : list.token[n].agent \in Lifecycle!Ids \cup {Lifecycle!None}
  BY <1>2 DEF Lifecycle!TokenRow
<1>4. Lifecycle!selectedAgent \in Lifecycle!agentRows
  <2>1. CASE selected \in Lifecycle!agentRows
    BY <2>1 DEF Lifecycle!selectedAgent
  <2>2. CASE selected \notin Lifecycle!agentRows /\ Lifecycle!Registered(list) # {}
    <3>1. Lifecycle!First(Lifecycle!Registered(list)) \in Lifecycle!Registered(list)
      BY <2>2, FirstIs DEF Lifecycle!Registered
    <3>. QED BY <2>2, <3>1 DEF Lifecycle!selectedAgent, Lifecycle!agentRows
  <2>3. CASE selected \notin Lifecycle!agentRows /\ Lifecycle!Registered(list) = {} /\ Lifecycle!Waiting # {}
    <3>1. Lifecycle!Waiting \in SUBSET (1..MaxEnrolments) /\ MaxEnrolments \in Nat
      BY <1>2 DEF Lifecycle!Waiting, Lifecycle!AgentLifecycleAssumption
    <3>2. \E n \in Lifecycle!Waiting : \A m \in Lifecycle!Waiting : m <= n
      BY <2>3, <3>1, Most
    <3>. QED BY <2>3, <3>2 DEF Lifecycle!selectedAgent, Lifecycle!agentRows
  <2>4. CASE selected \notin Lifecycle!agentRows /\ Lifecycle!Registered(list) = {} /\ Lifecycle!Waiting = {}
    BY <2>4 DEF Lifecycle!selectedAgent
  <2>. QED BY <2>1, <2>2, <2>3, <2>4
<1>5. CASE Lifecycle!selectedAgent \in Lifecycle!Registered(list)
  BY <1>1, <1>5 DEF Lifecycle!Registered, Lifecycle!Known
<1>6. CASE \E n \in Lifecycle!Waiting : Lifecycle!selectedAgent = list.token[n].agent
  <2>1. PICK n \in Lifecycle!Waiting : Lifecycle!selectedAgent = list.token[n].agent
    BY <1>6
  <2>2. n \in 1..MaxEnrolments /\ list.token[n].agent # Lifecycle!None
    BY <1>2, <2>1 DEF Lifecycle!Waiting
  <2>3. token[n].agent = Lifecycle!selectedAgent
    BY <1>1, <2>1, <2>2 DEF Lifecycle!Known
  <2>. QED BY <1>3, <2>1, <2>2, <2>3
<1>. QED BY <1>4, <1>5, <1>6 DEF Lifecycle!agentRows

\* What the buttons begin.
LEMMA ButtonsStep ==
  ASSUME Lifecycle!AgentLifecycleAssumption, Lifecycle!LifecycleInv,
         \/ Lifecycle!refresh \/ Lifecycle!blockSelectedAgent \/ Lifecycle!reactivateSelectedAgent \/ Lifecycle!changeRelease \/ Lifecycle!updateGlobalPolicy \/ Lifecycle!submitPackage
         \/ \E n \in DOMAIN token : Lifecycle!revokeToken(n)
  PROVE  Lifecycle!LifecycleInv'
<1>0. Lifecycle!PageInv /\ Lifecycle!Unset \in Lifecycle!PolicyValues \cup {Lifecycle!Unread} /\ DOMAIN token = 1..MaxEnrolments
  BY DEF Lifecycle!LifecycleInv, Lifecycle!PolicyValues, Lifecycle!ServerInv
<1>1. CASE Lifecycle!refresh
  <2>1. Lifecycle!Task("load", Lifecycle!None, 0, Lifecycle!Unset) \in Lifecycle!TasksTrue
    BY <1>0, BegunIs
  <2>. QED BY <1>1, <2>1, LifeStartOK DEF Lifecycle!refresh
<1>2. CASE Lifecycle!blockSelectedAgent
  <2>1. Lifecycle!Task("block", Lifecycle!selectedAgent, 0, Lifecycle!Unset) \in Lifecycle!TasksTrue
    BY <1>0, <1>2, SelectedShown, BegunIs DEF Lifecycle!blockSelectedAgent
  <2>. QED BY <1>2, <2>1, LifeStartOK DEF Lifecycle!blockSelectedAgent, Lifecycle!Act
<1>3. CASE Lifecycle!reactivateSelectedAgent
  <2>1. Lifecycle!Task("reactivate", Lifecycle!selectedAgent, 0, Lifecycle!Unset) \in Lifecycle!TasksTrue
    BY <1>0, <1>3, SelectedShown, BegunIs DEF Lifecycle!reactivateSelectedAgent
  <2>. QED BY <1>3, <2>1, LifeStartOK DEF Lifecycle!reactivateSelectedAgent, Lifecycle!Act
<1>4. CASE Lifecycle!changeRelease
  <2>1. Lifecycle!Task("release", Lifecycle!None, 0, Lifecycle!Unset) \in Lifecycle!TasksTrue
    BY <1>0, BegunIs
  <2>. QED BY <1>4, <2>1, LifeStartOK DEF Lifecycle!changeRelease, Lifecycle!Act
<1>5. CASE Lifecycle!updateGlobalPolicy
  <2>1. list.policies \in Lifecycle!PolicyValues \cup {Lifecycle!Unread} /\ list.policies # Lifecycle!Unread
    BY <1>0, <1>5 DEF Lifecycle!updateGlobalPolicy, Lifecycle!PageInv, Lifecycle!ListOf
  <2>2. Lifecycle!Task("policy", Lifecycle!None, 0, list.policies) \in Lifecycle!TasksTrue
    BY <1>0, <2>1, BegunIs
  <2>. QED BY <1>5, <2>2, LifeStartOK DEF Lifecycle!updateGlobalPolicy, Lifecycle!Act
<1>6. CASE Lifecycle!submitPackage
  <2>1. form.agent \in Lifecycle!Ids \cup {Lifecycle!None}
    BY <1>0 DEF Lifecycle!PageInv
  <2>2. Lifecycle!Task("package", form.agent, 0, Lifecycle!Unset) \in Lifecycle!TasksTrue
    BY <1>0, <2>1, BegunIs
  <2>. QED BY <1>6, <2>2, LifeStartOK DEF Lifecycle!submitPackage
<1>7. CASE \E n \in DOMAIN token : Lifecycle!revokeToken(n)
  <2>1. PICK n \in 1..MaxEnrolments : Lifecycle!revokeToken(n)
    BY <1>0, <1>7
  <2>2. Lifecycle!Task("revoke", Lifecycle!None, n, Lifecycle!Unset) \in Lifecycle!TasksTrue
    BY <1>0, BegunIs, n # 0 DEF Lifecycle!AgentLifecycleAssumption
  <2>. QED BY <2>1, <2>2, LifeStartOK DEF Lifecycle!revokeToken
<1>. QED BY <1>1, <1>2, <1>3, <1>4, <1>5, <1>6, <1>7

LEMMA PolicyTyped ==
  ASSUME Lifecycle!AgentLifecycleAssumption, Lifecycle!LifecycleInv, NEW v \in Policies, Lifecycle!upsertGlobalPolicy(v)
  PROVE  Lifecycle!LifecycleInv'
<1>0. Lifecycle!ServerInv /\ Lifecycle!PageInv /\ Lifecycle!ServerInv' /\ Lifecycle!Grows
  BY LifeStoreOK DEF Lifecycle!LifecycleInv, Lifecycle!upsertGlobalPolicy
<1>1. v \in Lifecycle!PolicyValues /\ v # Lifecycle!Unread
  BY DEF Lifecycle!PolicyValues, Lifecycle!AgentLifecycleAssumption
<1>2. PICK l : l = [list EXCEPT !.policies = v]
  OBVIOUS
<1>3. l \in Lifecycle!ListOf(Lifecycle!PolicyValues \cup {Lifecycle!Unread}) /\ l.policies = v /\ l.agents = list.agents /\ l.token = list.token
  BY <1>0, <1>1, <1>2 DEF Lifecycle!PageInv, Lifecycle!ListOf
<1>4. list' = l /\ UNCHANGED <<policiesLoaded, form, tasks>>
  BY <1>2 DEF Lifecycle!upsertGlobalPolicy
<1>5. Lifecycle!Known(list)'
  <2>1. Lifecycle!Known(list)
    BY <1>0 DEF Lifecycle!PageInv
  <2>. QED BY <2>1, <1>0, <1>3, <1>4 DEF Lifecycle!Known, Lifecycle!Grows
<1>6. tasks' \in Seq(Lifecycle!TasksTrue')
  BY <1>0, <1>4, TasksLast, SeqWider DEF Lifecycle!PageInv
<1>7. form' \in [open : BOOLEAN, agent : Lifecycle!Ids \cup {Lifecycle!None}] /\ (form'.agent # Lifecycle!None => status'[form'.agent] # Lifecycle!None)
  BY <1>0, <1>4, FormLasts
<1>8. Lifecycle!PageInv'
  BY <1>1, <1>3, <1>4, <1>5, <1>6, <1>7, SameTypes DEF Lifecycle!PageInv
<1>. QED BY <1>0, <1>8 DEF Lifecycle!LifecycleInv

LEMMA FormShown ==
  ASSUME Lifecycle!AgentLifecycleAssumption, Lifecycle!LifecycleInv, NEW on \in BOOLEAN, Lifecycle!showForm(on)
  PROVE  Lifecycle!LifecycleInv'
<1>0. Lifecycle!ServerInv /\ Lifecycle!PageInv /\ Lifecycle!ServerInv' /\ Lifecycle!Grows
  BY LifeStoreOK DEF Lifecycle!LifecycleInv, Lifecycle!showForm
<1>1. form' = [open |-> on, agent |-> Lifecycle!None] /\ UNCHANGED <<list, policiesLoaded, tasks>>
  BY DEF Lifecycle!showForm
<1>2. tasks' \in Seq(Lifecycle!TasksTrue')
  BY <1>0, <1>1, TasksLast, SeqWider DEF Lifecycle!PageInv
<1>. QED BY <1>0, <1>1, <1>2, PageChanges DEF Lifecycle!LifecycleInv

LEMMA LifecycleStep == ASSUME Lifecycle!AgentLifecycleAssumption, Lifecycle!LifecycleInv, [Lifecycle!Next]_(Lifecycle!lifecycleVars) PROVE Lifecycle!LifecycleInv'
<1>1. CASE UNCHANGED Lifecycle!lifecycleVars
  BY <1>1, QuietOK DEF Lifecycle!lifecycleVars, Lifecycle!Server
<1>2. CASE \E a \in Lifecycle!Ids, n \in DOMAIN token, heard \in BOOLEAN : Lifecycle!enroll(a, n, heard)
  BY <1>2, EnrollStep
<1>3. CASE \E a \in Lifecycle!Ids, heard \in BOOLEAN : Lifecycle!renew(a, heard)
  BY <1>3, RenewStep
<1>4. CASE Lifecycle!Elsewhere
  BY <1>4, ElsewhereStep
<1>5. CASE \E i \in DOMAIN tasks : Lifecycle!answered(i) \/ Lifecycle!failed(i) \/ Lifecycle!loaded(i)
  BY <1>5, AnsweredStep, FailedStep, LoadedStep
<1>6. CASE \E i \in DOMAIN tasks, arrives, heard \in BOOLEAN : Lifecycle!Serve(i, arrives, heard)
  BY <1>6, ServeStep
<1>7. CASE \E i \in DOMAIN tasks, what \in Lifecycle!Lists, heard \in BOOLEAN : Lifecycle!Read(i, what, heard)
  BY <1>7, ReadStep
<1>8. CASE \E a \in Lifecycle!Ids : Lifecycle!choose(a) \/ Lifecycle!type(a)
  BY <1>8, QuietOK DEF Lifecycle!choose, Lifecycle!type
<1>9. CASE \E v \in Policies : Lifecycle!upsertGlobalPolicy(v)
  BY <1>9, PolicyTyped
<1>10. CASE \E on \in BOOLEAN : Lifecycle!showForm(on)
  BY <1>10, FormShown
<1>11. CASE \/ Lifecycle!refresh \/ Lifecycle!blockSelectedAgent \/ Lifecycle!reactivateSelectedAgent \/ Lifecycle!changeRelease \/ Lifecycle!updateGlobalPolicy \/ Lifecycle!submitPackage
            \/ \E n \in DOMAIN token : Lifecycle!revokeToken(n)
  BY <1>11, ButtonsStep
<1>. QED BY <1>1, <1>2, <1>3, <1>4, <1>5, <1>6, <1>7, <1>8, <1>9, <1>10, <1>11 DEF Lifecycle!Next

LEMMA LifecycleInit == ASSUME Lifecycle!AgentLifecycleAssumption, Lifecycle!Init PROVE Lifecycle!LifecycleInv
<1>1. status \in [Lifecycle!Ids -> Lifecycle!Statuses] /\ held \in [Lifecycle!Ids -> Nat]
  BY DEF Lifecycle!Init, Lifecycle!Statuses
<1>2. ASSUME NEW a \in Lifecycle!Ids
      PROVE  certs[a] \in Seq({"ACTIVE", "SUPERSEDED", "REVOKED"}) /\ Len(certs[a]) = held[a] /\ held[a] \in {0, 1} /\ (held[a] = 1 => certs[a][1] = "ACTIVE")
             /\ (held[a] = 1 <=> status[a] = "ACTIVE") /\ (held[a] = 0 <=> status[a] = Lifecycle!None)
  <2>1. CASE a \in EnrolledAgents
    <3>1. status[a] = "ACTIVE" /\ certs[a] = <<"ACTIVE">> /\ held[a] = 1
      BY <2>1 DEF Lifecycle!Init
    <3>. QED BY <3>1 DEF Lifecycle!None
  <2>2. CASE a \notin EnrolledAgents
    <3>1. status[a] = Lifecycle!None /\ certs[a] = <<>> /\ held[a] = 0
      BY <2>2 DEF Lifecycle!Init
    <3>. QED BY <3>1 DEF Lifecycle!None
  <2>. QED BY <2>1, <2>2
<1>3. certs \in [Lifecycle!Ids -> Seq({"ACTIVE", "SUPERSEDED", "REVOKED"})]
  BY <1>2 DEF Lifecycle!Init
<1>4. token \in [1..MaxEnrolments -> Lifecycle!TokenRow] /\ Lifecycle!Gone = {}
  BY DEF Lifecycle!Init, Lifecycle!NoToken, Lifecycle!TokenRow, Lifecycle!Gone, Lifecycle!None
<1>5. ASSUME NEW a \in Lifecycle!Ids
      PROVE  /\ held[a] <= Len(certs[a])
             /\ Lifecycle!InForce(a) \subseteq {Len(certs[a])}
             /\ status[a] \in {"BLOCKED", Lifecycle!None} => Lifecycle!InForce(a) = {}
             /\ status[a] = "ACTIVE" => Lifecycle!InForce(a) # {}
             /\ Cardinality(Lifecycle!Revived(a)) <= Cardinality(Lifecycle!Gone)
  <2>1. Lifecycle!Revived(a) = {}
    BY <1>2 DEF Lifecycle!Revived
  <2>2. Lifecycle!InForce(a) = (IF held[a] = 1 THEN {1} ELSE {})
    BY <1>2 DEF Lifecycle!InForce
  <2>3. Cardinality({}) = 0
    BY FS_EmptySet
  <2>4. status[a] \in {"ACTIVE", Lifecycle!None}
    BY DEF Lifecycle!Init
  <2>. QED BY <1>2, <1>4, <2>1, <2>2, <2>3, <2>4 DEF Lifecycle!None
<1>6. Lifecycle!ServerInv
  BY <1>1, <1>3, <1>4, <1>5, LifeCount DEF Lifecycle!ServerInv, Lifecycle!Init, Lifecycle!PolicyValues
<1>7. list \in Lifecycle!ListOf(Lifecycle!PolicyValues \cup {Lifecycle!Unread}) /\ Lifecycle!Known(list)
  <2>1. Lifecycle!NoToken \in Lifecycle!TokenRow /\ Lifecycle!None \in Lifecycle!Statuses /\ Lifecycle!NoToken.agent = Lifecycle!None
    BY DEF Lifecycle!NoToken, Lifecycle!TokenRow, Lifecycle!Statuses
  <2>2. [a \in Lifecycle!Ids |-> Lifecycle!None] \in [Lifecycle!Ids -> Lifecycle!Statuses] /\ [n \in 1..MaxEnrolments |-> Lifecycle!NoToken] \in [1..MaxEnrolments -> Lifecycle!TokenRow]
    BY <2>1
  <2>3. PICK x, y : x = [a \in Lifecycle!Ids |-> Lifecycle!None] /\ y = [n \in 1..MaxEnrolments |-> Lifecycle!NoToken]
    OBVIOUS
  <2>4. list = [agents |-> x, token |-> y, policies |-> Lifecycle!Unread]
    BY <2>3 DEF Lifecycle!Init
  <2>5. list \in Lifecycle!ListOf(Lifecycle!PolicyValues \cup {Lifecycle!Unread})
    BY <2>2, <2>3, <2>4 DEF Lifecycle!ListOf
  <2>6. list.agents = x /\ list.token = y
    BY <2>4
  <2>. QED BY <2>1, <2>3, <2>5, <2>6 DEF Lifecycle!Known
<1>8. PICK t : t = Lifecycle!Task("load", Lifecycle!None, 0, Lifecycle!Unset)
  OBVIOUS
<1>9. PICK g : g = [list EXCEPT !.policies = Lifecycle!Lost]
  OBVIOUS
<1>10. g \in Lifecycle!ListOf(Lifecycle!PolicyValues \cup {Lifecycle!Lost}) /\ g.agents = list.agents /\ g.token = list.token
  BY <1>7, <1>9 DEF Lifecycle!ListOf
<1>11. t = [kind |-> "load", on |-> Lifecycle!None, no |-> 0, value |-> Lifecycle!Unset, at |-> "read", got |-> g, left |-> Lifecycle!Lists]
  BY <1>8, <1>9 DEF Lifecycle!Task
<1>12. t \in Lifecycle!TaskTypes /\ Lifecycle!TaskTrue(t)
  <2>1. t \in Lifecycle!TaskTypes
    BY <1>10, <1>11 DEF Lifecycle!TaskTypes, Lifecycle!PolicyValues
  <2>2. Lifecycle!Known(g)
    BY <1>7, <1>10 DEF Lifecycle!Known
  <2>3. t.got = g /\ t.kind = "load" /\ t.at = "read"
    BY <1>11
  <2>. QED BY <2>1, <2>2, <2>3 DEF Lifecycle!TaskTrue
<1>13. tasks \in Seq(Lifecycle!TasksTrue)
  <2>1. tasks = <<t>>
    BY <1>8 DEF Lifecycle!Init
  <2>. QED BY <2>1, <1>12 DEF Lifecycle!TasksTrue
<1>14. Lifecycle!PageInv
  BY <1>7, <1>13 DEF Lifecycle!PageInv, Lifecycle!Init, Lifecycle!Closed
<1>. QED BY <1>6, <1>14 DEF Lifecycle!LifecycleInv

LEMMA LifecycleImplies == ASSUME Lifecycle!AgentLifecycleAssumption, Lifecycle!LifecycleInv PROVE Lifecycle!LifecycleTrue
<1>1. Lifecycle!CertificatesTrue
  BY ServerImplies DEF Lifecycle!LifecycleInv
<1>2. ASSUME NEW i \in DOMAIN tasks
      PROVE  /\ tasks[i].kind = "policy" => tasks[i].value # Lifecycle!Unread
             /\ tasks[i].kind \in {"block", "reactivate"} => status[tasks[i].on] # Lifecycle!None \/ \E n \in DOMAIN token : token[n].agent = tasks[i].on
  <2>1. Lifecycle!TaskTrue(tasks[i])
    BY TaskIs DEF Lifecycle!LifecycleInv
  <2>2. DOMAIN token = 1..MaxEnrolments
    BY DEF Lifecycle!LifecycleInv, Lifecycle!ServerInv
  <2>. QED BY <2>1, <2>2 DEF Lifecycle!TaskTrue
<1>3. Lifecycle!ConsoleTrue
  BY <1>2 DEF Lifecycle!ConsoleTrue, Lifecycle!LifecycleInv, Lifecycle!PageInv
<1>. QED BY <1>1, <1>3 DEF Lifecycle!LifecycleTrue

\* CertificatesTrue and ConsoleTrue of AgentLifecycle, for all agents, tokens and handlers:
\* one certificate in force for an agent that is active and none for one that is blocked, and
\* what the console asks for follows from what it was told.
THEOREM AgentsTrue ==
  ASSUME Lifecycle!AgentLifecycleAssumption PROVE Lifecycle!Spec => []Lifecycle!LifecycleTrue
<1>1. Lifecycle!Init => Lifecycle!LifecycleInv
  BY LifecycleInit
<1>2. Lifecycle!LifecycleInv /\ [Lifecycle!Next]_(Lifecycle!lifecycleVars) => Lifecycle!LifecycleInv'
  BY LifecycleStep
<1>3. Lifecycle!LifecycleInv => Lifecycle!LifecycleTrue
  BY LifecycleImplies
<1>. QED BY <1>1, <1>2, <1>3, PTL DEF Lifecycle!Spec

-------------------------------------------------------------------------------
(* CastrelVault's secrets.  StoreTrue is of the rows and the versions: the versions *)
(* of a secret are numbered from one without a gap, and a transaction under way     *)
(* holds the number after the last.  RequestsTrue is of the requests: a version     *)
(* that was read as current was so since the request was made.                      *)
Safe == INSTANCE Vault

\* What is selected is a secret, or nothing.
LEMMA SelectedIs == ASSUME Safe!VaultAssumption, NEW rows, NEW id PROVE Safe!Selected(rows, id) \in Secrets \cup {0}
<1>1. Safe!Names(rows) \in SUBSET Nat /\ Safe!Names(rows) \subseteq Secrets
  BY DEF Safe!Names, Safe!VaultAssumption
<1>2. CASE id \in Safe!Names(rows) \/ Safe!Names(rows) = {}
  BY <1>1, <1>2 DEF Safe!Selected
<1>3. CASE id \notin Safe!Names(rows) /\ Safe!Names(rows) # {}
  <2>1. \E s \in Safe!Names(rows) : \A t \in Safe!Names(rows) : s <= t
    BY <1>1, <1>3, Least
  <2>. QED BY <1>1, <1>3, <2>1 DEF Safe!Selected
<1>. QED BY <1>2, <1>3

LEMMA Zero == Safe!VaultAssumption => 0 \notin Secrets /\ \A s \in Secrets : s \in Nat
  BY DEF Safe!VaultAssumption

\* The greatest of an interval.
LEMMA MaxTo == ASSUME NEW k \in Nat PROVE Safe!Max({0} \cup 1..k) = k
<1> DEFINE S == {0} \cup 1..k
<1>1. k \in S /\ \A y \in S : k >= y
  OBVIOUS
<1>2. \A x \in S : (\A y \in S : x >= y) => x = k
  <2> SUFFICES ASSUME NEW x \in S, \A y \in S : x >= y PROVE x = k
    OBVIOUS
  <2>1. x >= k /\ k >= x /\ x \in Nat
    BY <1>1
  <2>. QED BY <2>1
<1>3. Safe!Max(S) = k
  <2> HIDE DEF S
  <2>. QED BY <1>1, <1>2 DEF Safe!Max
<1>. QED BY <1>3

\* The sizes of sets in Vault are sizes of sets.
LEMMA VaultCount == \A S : Safe!Cardinality(S) = Cardinality(S)
  BY DEF Safe!Cardinality, Cardinality, Safe!IsFiniteSet, IsFiniteSet

LEMMA VaultImplies == ASSUME Safe!VaultInv PROVE Safe!VaultTrue
<1>1. Safe!VersionsWhole
  <2> SUFFICES ASSUME NEW s \in Secrets
               PROVE  stored[s] = 1..Cardinality(stored[s]) /\ row[s].current \in {0} \cup stored[s]
    BY VaultCount DEF Safe!VersionsWhole
  <2>1. PICK m \in Nat : stored[s] = 1..m
    BY DEF Safe!VaultInv, Safe!StoreTrue
  <2>2. Cardinality(1..m) = m
    BY FS_Interval
  <2>. QED BY <2>1, <2>2 DEF Safe!VaultInv, Safe!StoreTrue
<1>2. Safe!GivenWhileCurrent
  <2> SUFFICES ASSUME NEW i \in 1..MaxTasks, tasks[i] # Safe!NoTask, Safe!At(i, "answer"), Safe!Op(i) = "reveal"
               PROVE  tasks[i].read.current \in tasks[i].offered
    BY DEF Safe!GivenWhileCurrent
  <2>1. PICK t \in Safe!Requests : t = tasks[i]
    BY DEF Safe!VaultInv, Safe!RequestsTrue
  <2>2. Safe!RequestTrue(t) /\ t.stage = "answer" /\ t.todo[1] = "reveal"
    BY <2>1 DEF Safe!VaultInv, Safe!RequestsTrue, Safe!At, Safe!Op
  <2>. QED BY <2>1, <2>2 DEF Safe!RequestTrue
<1>. QED BY <1>1, <1>2 DEF Safe!VaultTrue, Safe!VaultInv

\* One request changes and the rest of the server and the dialog do not.
LEMMA OneRequest ==
  ASSUME Safe!VaultInv, NEW i \in 1..MaxTasks, NEW u \in {Safe!NoTask} \cup Safe!Requests,
         tasks' = [tasks EXCEPT ![i] = u], u \in Safe!Requests => Safe!RequestTrue(u),
         UNCHANGED <<row, stored, dialog>>
  PROVE  Safe!VaultInv'
<1>1. tasks \in [1..MaxTasks -> {Safe!NoTask} \cup Safe!Requests]
  BY DEF Safe!VaultInv, Safe!RequestsTrue
<1>2. tasks' \in [1..MaxTasks -> {Safe!NoTask} \cup Safe!Requests]
  BY <1>1
<1>3. ASSUME NEW j \in 1..MaxTasks, NEW t \in Safe!Requests, t = tasks'[j] PROVE Safe!RequestTrue(t)'
  <2>1. Safe!RequestTrue(t)
    BY <1>1, <1>3 DEF Safe!VaultInv, Safe!RequestsTrue
  <2>. QED BY <2>1 DEF Safe!RequestTrue
<1>4. Safe!RequestsTrue'
  BY <1>2, <1>3 DEF Safe!RequestsTrue
<1>. QED BY <1>4 DEF Safe!VaultInv, Safe!StoreTrue, Safe!DialogTrue

\* The same of a request that stays one, stage by stage.
LEMMA RequestIs ==
  ASSUME Safe!VaultInv, NEW i \in 1..MaxTasks, tasks[i] # Safe!NoTask
  PROVE  \E t \in Safe!Requests : t = tasks[i] /\ Safe!RequestTrue(t)
  BY DEF Safe!VaultInv, Safe!RequestsTrue

LEMMA NoneIs == Safe!NoTask.stage = "none" /\ Safe!NoTask.secret = 0 /\ Safe!NoTask.mine = FALSE /\ Safe!NoTask.todo = <<>>
  BY DEF Safe!NoTask

LEMMA StageSet ==
  ASSUME NEW t \in Safe!Requests, NEW stage \in Safe!Stages
  PROVE  LET u == [t EXCEPT !.stage = stage]
         IN  /\ u \in Safe!Requests /\ u.stage = stage /\ u.todo = t.todo /\ u.secret = t.secret /\ u.read = t.read
             /\ u.numbers = t.numbers /\ u.offered = t.offered /\ u.mine = t.mine
  BY DEF Safe!Requests

\* A request that has its answer, or failed.
LEMMA EndsOK ==
  ASSUME Safe!VaultInv, NEW i \in 1..MaxTasks, tasks[i] # Safe!NoTask, NEW stage \in {"answer", "failed"},
         tasks' = Safe!Goto(i, stage), UNCHANGED <<row, stored, dialog>>,
         stage = "answer" => tasks[i].todo[1] # "reveal"
  PROVE  Safe!VaultInv'
<1>1. PICK t \in Safe!Requests : t = tasks[i] /\ Safe!RequestTrue(t)
  BY RequestIs
<1> DEFINE u == [t EXCEPT !.stage = stage]
<1>2. /\ u \in Safe!Requests /\ u.stage = stage /\ u.todo = t.todo /\ u.secret = t.secret /\ u.read = t.read
      /\ u.numbers = t.numbers /\ u.offered = t.offered /\ u.mine = t.mine
  <2>1. stage \in Safe!Stages
    BY DEF Safe!Stages
  <2>. QED BY <2>1, StageSet
<1>3. tasks' = [tasks EXCEPT ![i] = u]
  BY <1>1 DEF Safe!Goto, Safe!VaultInv, Safe!RequestsTrue
<1> HIDE DEF u
<1>4. Safe!RequestTrue(u)
  BY <1>1, <1>2 DEF Safe!RequestTrue
<1>. QED BY <1>2, <1>3, <1>4, OneRequest

\* A row changes: every request for it that is open learns what it offers now.
LEMMA VaultStoreOK ==
  ASSUME Safe!VaultAssumption, Safe!VaultInv, NEW i \in 1..MaxTasks, tasks[i] # Safe!NoTask, NEW r \in Safe!Row, NEW stage \in {"insert", "get", "answer"},
         Safe!Store(i, r, stage), UNCHANGED <<stored, dialog>>,
         tasks[i].todo[1] \notin {"reveal", "load"}, r.current \in {0} \cup stored[Safe!SecretOf(i)],
         stage = "insert" => tasks[i].numbers = {}
  PROVE  Safe!VaultInv'
<1>1. PICK t \in Safe!Requests : t = tasks[i] /\ Safe!RequestTrue(t)
  BY RequestIs
<1> DEFINE s == t.secret
           g == Safe!Goto(i, stage)
<1>2. s \in Secrets /\ s # 0 /\ s = Safe!SecretOf(i)
  BY <1>1, Zero DEF Safe!Requests, Safe!RequestTrue, Safe!SecretOf
<1>3. row' = [row EXCEPT ![s] = r] /\ tasks' = Safe!Witness(g, s, r)
  BY <1>2 DEF Safe!Store
<1>4. Safe!StoreTrue'
  <2>1. row' \in [Secrets -> Safe!Row] /\ \A q \in Secrets : row'[q] = IF q = s THEN r ELSE row[q]
    BY <1>2, <1>3 DEF Safe!VaultInv, Safe!StoreTrue
  <2>. QED BY <2>1, <1>2 DEF Safe!VaultInv, Safe!StoreTrue
<1>5. ASSUME NEW j \in 1..MaxTasks
      PROVE  /\ g[j] \in {Safe!NoTask} \cup Safe!Requests
             /\ tasks[j] = Safe!NoTask => g[j] = Safe!NoTask
             /\ tasks[j] # Safe!NoTask => \E q \in Safe!Requests : q = tasks[j] /\ Safe!RequestTrue(q) /\
                   \E u \in Safe!Requests : /\ u = g[j] /\ u.todo = q.todo /\ u.secret = q.secret /\ u.read = q.read
                                       /\ u.numbers = q.numbers /\ u.offered = q.offered /\ u.mine = q.mine
                                       /\ u.stage = IF j = i THEN stage ELSE q.stage
  <2>1. tasks \in [1..MaxTasks -> {Safe!NoTask} \cup Safe!Requests]
    BY DEF Safe!VaultInv, Safe!RequestsTrue
  <2>2. g = [tasks EXCEPT ![i] = [t EXCEPT !.stage = stage]]
    BY <1>1, <2>1 DEF Safe!Goto
  <2>3. LET u == [t EXCEPT !.stage = stage]
        IN  /\ u \in Safe!Requests /\ u.stage = stage /\ u.todo = t.todo /\ u.secret = t.secret /\ u.read = t.read
            /\ u.numbers = t.numbers /\ u.offered = t.offered /\ u.mine = t.mine
    <3>1. stage \in Safe!Stages
      BY DEF Safe!Stages
    <3>. QED BY <3>1, StageSet
  <2> HIDE DEF g
  <2>4. CASE j = i
    BY <1>1, <2>1, <2>2, <2>3, <2>4
  <2>5. CASE j # i
    <3>1. g[j] = tasks[j]
      BY <2>1, <2>2, <2>5
    <3>2. tasks[j] # Safe!NoTask => \E q \in Safe!Requests : q = tasks[j] /\ Safe!RequestTrue(q)
      BY RequestIs
    <3>. QED BY <2>1, <2>5, <3>1, <3>2
  <2>. QED BY <2>4, <2>5
<1> HIDE DEF g
<1>6. ASSUME NEW j \in 1..MaxTasks
      PROVE  tasks'[j] \in {Safe!NoTask} \cup Safe!Requests /\ \A v \in Safe!Requests : v = tasks'[j] => Safe!RequestTrue(v)'
  <2>0. tasks'[j] = IF g[j].secret = s /\ g[j].todo[1] = "reveal" THEN [g[j] EXCEPT !.offered = @ \cup Safe!Offered(r)] ELSE g[j]
    BY <1>3 DEF Safe!Witness
  <2>1. CASE tasks[j] = Safe!NoTask
    <3>1. g[j] = Safe!NoTask /\ Safe!NoTask.secret # s
      BY <1>2, <1>5, <2>1, NoneIs
    <3>2. tasks'[j] = Safe!NoTask
      BY <2>0, <3>1
    <3>3. Safe!NoTask \notin Safe!Requests
      BY NoneIs DEF Safe!Requests, Safe!Stages
    <3>. QED BY <3>2, <3>3
  <2>2. CASE tasks[j] # Safe!NoTask
    <3>1. PICK q \in Safe!Requests, u \in Safe!Requests :
             /\ q = tasks[j] /\ Safe!RequestTrue(q)
             /\ u = g[j] /\ u.todo = q.todo /\ u.secret = q.secret /\ u.read = q.read
             /\ u.numbers = q.numbers /\ u.offered = q.offered /\ u.mine = q.mine
             /\ u.stage = IF j = i THEN stage ELSE q.stage
      BY <1>5, <2>2
    <3>2. PICK v \in Safe!Requests :
             /\ v = tasks'[j] /\ v.todo = u.todo /\ v.secret = u.secret /\ v.read = u.read /\ v.stage = u.stage
             /\ v.numbers = u.numbers /\ v.mine = u.mine /\ u.offered \subseteq v.offered
             /\ u.secret = s /\ u.todo[1] = "reveal" => Safe!Offered(r) \subseteq v.offered
      <4>1. CASE u.secret = s /\ u.todo[1] = "reveal"
        <5> DEFINE v == [u EXCEPT !.offered = @ \cup Safe!Offered(r)]
        <5>1. Safe!Offered(r) \subseteq Nat
          BY DEF Safe!Offered, Safe!Row
        <5>2. /\ v \in Safe!Requests /\ v.todo = u.todo /\ v.secret = u.secret /\ v.read = u.read /\ v.stage = u.stage
              /\ v.numbers = u.numbers /\ v.mine = u.mine /\ v.offered = u.offered \cup Safe!Offered(r)
          BY <5>1 DEF Safe!Requests
        <5>3. v = tasks'[j]
          BY <2>0, <3>1, <4>1
        <5> HIDE DEF v
        <5>. QED BY <5>2, <5>3
      <4>2. CASE ~(u.secret = s /\ u.todo[1] = "reveal")
        <5>1. u = tasks'[j]
          BY <2>0, <3>1, <4>2
        <5>. QED BY <4>2, <5>1
      <4>. QED BY <4>1, <4>2
    <3>4. CASE v.todo[1] = "reveal"
      <4>1. j # i
        BY <1>1, <3>1, <3>2, <3>4
      <4>2. v.secret \in Secrets
        BY <3>1, <3>2, <3>4 DEF Safe!Requests, Safe!RequestTrue
      <4>3. row'[v.secret] = IF v.secret = s THEN r ELSE row[v.secret]
        BY <4>2, <1>2, <1>3 DEF Safe!VaultInv, Safe!StoreTrue
      <4>4. Safe!Offered(row'[v.secret]) \subseteq v.offered
        BY <3>1, <3>2, <3>4, <4>3 DEF Safe!RequestTrue
      <4>5. Safe!RequestTrue(v)'
        BY <3>1, <3>2, <3>4, <4>1, <4>4 DEF Safe!RequestTrue
      <4>. QED BY <3>2, <4>5
    <3>5. CASE v.todo[1] # "reveal"
      <4>1. CASE j = i
        <5>1. v.stage = stage /\ v.numbers = t.numbers /\ v.secret = t.secret /\ v.todo = t.todo
          BY <1>1, <3>1, <3>2, <4>1
        <5>2. v.stage = "insert" => v.numbers = 1..0 /\ 1..0 \subseteq stored[v.secret] /\ 0 \in Nat
          BY <1>1, <5>1
        <5>3. Safe!RequestTrue(v)'
          BY <1>1, <1>2, <5>1, <5>2, <3>5 DEF Safe!RequestTrue
        <5>. QED BY <3>2, <5>3
      <4>2. CASE j # i
        <5>1. Safe!RequestTrue(v)'
          BY <3>1, <3>2, <3>5, <4>2 DEF Safe!RequestTrue
        <5>. QED BY <3>2, <5>1
      <4>. QED BY <4>1, <4>2
    <3>. QED BY <3>4, <3>5
  <2>. QED BY <2>1, <2>2
<1>7. Safe!RequestsTrue'
  <2>1. tasks' = [j \in 1..MaxTasks |-> tasks'[j]]
    BY <1>3 DEF Safe!Witness
  <2>. QED BY <1>6, <2>1 DEF Safe!RequestsTrue
<1>. QED BY <1>4, <1>7 DEF Safe!VaultInv, Safe!DialogTrue

\* The statements of a request, one after the other.
LEMMA InsertSecretOK ==
  ASSUME Safe!VaultAssumption, Safe!VaultInv, NEW i \in 1..MaxTasks, Safe!InsertSecret(i), UNCHANGED dialog PROVE Safe!VaultInv'
<1>0. tasks[i] # Safe!NoTask
  BY NoneIs DEF Safe!InsertSecret, Safe!At
<1>1. PICK t \in Safe!Requests : t = tasks[i] /\ Safe!RequestTrue(t)
  BY <1>0, RequestIs
<1>2. t.stage = "sent" /\ t.todo[1] = "create" /\ t.numbers = {}
  BY <1>1 DEF Safe!InsertSecret, Safe!At, Safe!Op, Safe!RequestTrue
<1>3. CASE Safe!Store(i, [state |-> "enabled", current |-> 0], "insert")
  <2>1. [state |-> "enabled", current |-> 0] \in Safe!Row /\ [state |-> "enabled", current |-> 0].current = 0
    BY DEF Safe!Row
  <2>. QED BY <1>0, <1>1, <1>2, <1>3, <2>1, VaultStoreOK DEF Safe!InsertSecret
<1>4. CASE tasks' = Safe!Goto(i, "failed") /\ UNCHANGED row
  BY <1>0, <1>4, EndsOK DEF Safe!InsertSecret
<1>. QED BY <1>3, <1>4 DEF Safe!InsertSecret

LEMMA ReadSecretOK ==
  ASSUME Safe!VaultAssumption, Safe!VaultInv, NEW i \in 1..MaxTasks, Safe!ReadSecret(i), UNCHANGED dialog PROVE Safe!VaultInv'
<1>0. tasks[i] # Safe!NoTask
  BY NoneIs DEF Safe!ReadSecret, Safe!At
<1>1. PICK t \in Safe!Requests : t = tasks[i] /\ Safe!RequestTrue(t)
  BY <1>0, RequestIs
<1> DEFINE op == t.todo[1]
           r == row[t.secret]
           passes == Safe!Live(r) /\ (op \in {"rotate", "reveal"} => r.state = "enabled")
           now == CASE op = "rotate" -> "number"
                   [] op \in {"enable", "disable", "delete"} -> "update"
                   [] OTHER -> "select"
           stage == IF passes THEN now ELSE "failed"
           read == IF now = "select" /\ passes THEN r ELSE t.read
           u == [t EXCEPT !.stage = stage, !.read = read]
<1>2. t.stage = "sent" /\ op \in {"rotate", "enable", "disable", "delete", "versions", "reveal"} /\ t.secret \in Secrets
  BY <1>1 DEF Safe!ReadSecret, Safe!At, Safe!Op, Safe!RequestTrue, Safe!Requests
<1>3. r \in Safe!Row
  BY <1>2 DEF Safe!VaultInv, Safe!StoreTrue
<1>4. stage \in {"number", "update", "select", "failed"} /\ stage \in Safe!Stages /\ read \in Safe!Row
  BY <1>2, <1>3 DEF Safe!Stages, Safe!Requests
<1>5. tasks' = [tasks EXCEPT ![i] = u]
  BY <1>1 DEF Safe!ReadSecret, Safe!Op, Safe!SecretOf, Safe!VaultInv, Safe!RequestsTrue
<1>6. /\ u \in Safe!Requests /\ u.stage = stage /\ u.todo = t.todo /\ u.secret = t.secret /\ u.read = read
      /\ u.numbers = t.numbers /\ u.offered = t.offered /\ u.mine = t.mine
  <2> HIDE DEF stage, read
  <2>. QED BY <1>4 DEF Safe!Requests
<1>7. op = "reveal" /\ stage = "select" => read.current \in {0} \cup (stored[t.secret] \cap t.offered)
  <2> SUFFICES ASSUME op = "reveal", stage = "select" PROVE read.current \in {0} \cup (stored[t.secret] \cap t.offered)
    OBVIOUS
  <2>1. r.state = "enabled" /\ read = r
    BY <1>2
  <2>2. r.current \in {0} \cup stored[t.secret]
    BY <1>2 DEF Safe!VaultInv, Safe!StoreTrue
  <2>3. Safe!Offered(r) \subseteq t.offered
    BY <1>1 DEF Safe!RequestTrue
  <2>. QED BY <2>1, <2>2, <2>3 DEF Safe!Offered
<1>8. op = "reveal" => stage \in {"select", "failed"}
  OBVIOUS
<1> HIDE DEF stage, read, u
<1>9. Safe!RequestTrue(u)
  BY <1>1, <1>2, <1>4, <1>6, <1>7, <1>8 DEF Safe!RequestTrue
<1>. QED BY <1>5, <1>6, <1>9, OneRequest DEF Safe!ReadSecret

LEMMA NumberVersionOK ==
  ASSUME Safe!VaultAssumption, Safe!VaultInv, NEW i \in 1..MaxTasks, Safe!NumberVersion(i), UNCHANGED dialog PROVE Safe!VaultInv'
<1>0. tasks[i] # Safe!NoTask
  BY NoneIs DEF Safe!NumberVersion, Safe!At
<1>1. PICK t \in Safe!Requests : t = tasks[i] /\ Safe!RequestTrue(t)
  BY <1>0, RequestIs
<1> DEFINE u == [t EXCEPT !.stage = "insert", !.numbers = stored[t.secret]]
<1>2. t.stage = "number" /\ t.secret \in Secrets /\ t.todo[1] # "reveal" /\ t.todo[1] # "load"
  BY <1>1 DEF Safe!NumberVersion, Safe!At, Safe!RequestTrue, Safe!Requests
<1>3. PICK m \in Nat : stored[t.secret] = 1..m
  BY <1>2 DEF Safe!VaultInv, Safe!StoreTrue
<1>4. /\ u \in Safe!Requests /\ u.stage = "insert" /\ u.todo = t.todo /\ u.secret = t.secret /\ u.numbers = stored[t.secret]
  <2>1. stored[t.secret] \in SUBSET Nat
    BY <1>2 DEF Safe!VaultInv, Safe!StoreTrue
  <2>. QED BY <2>1 DEF Safe!Requests, Safe!Stages
<1>5. tasks' = [tasks EXCEPT ![i] = u]
  BY <1>1 DEF Safe!NumberVersion, Safe!SecretOf, Safe!VaultInv, Safe!RequestsTrue
<1> HIDE DEF u
<1>6. Safe!RequestTrue(u)
  BY <1>1, <1>2, <1>3, <1>4, Zero DEF Safe!RequestTrue
<1>. QED BY <1>4, <1>5, <1>6, OneRequest DEF Safe!NumberVersion

\* Another version is stored: nothing that was is forgotten.
LEMMA InsertVersionOK ==
  ASSUME Safe!VaultAssumption, Safe!VaultInv, NEW i \in 1..MaxTasks, Safe!InsertVersion(i), UNCHANGED dialog PROVE Safe!VaultInv'
<1>0. tasks[i] # Safe!NoTask
  BY NoneIs DEF Safe!InsertVersion, Safe!At
<1>1. PICK t \in Safe!Requests : t = tasks[i] /\ Safe!RequestTrue(t)
  BY <1>0, RequestIs
<1>2. t.stage = "insert" /\ t.secret \in Secrets /\ t.todo[1] # "reveal" /\ t.todo[1] # "load"
  BY <1>1 DEF Safe!InsertVersion, Safe!At, Safe!RequestTrue, Safe!Requests
<1>3. PICK k \in Nat : t.numbers = 1..k /\ 1..k \subseteq stored[t.secret]
  BY <1>1, <1>2 DEF Safe!RequestTrue
<1>4. Safe!NextNumber(i) = k + 1 /\ Safe!SecretOf(i) = t.secret
  BY <1>1, <1>3, MaxTo DEF Safe!NextNumber, Safe!SecretOf
<1>5. CASE tasks' = Safe!Goto(i, "failed") /\ UNCHANGED stored
  BY <1>0, <1>5, EndsOK DEF Safe!InsertVersion
<1>6. CASE /\ k + 1 \notin stored[t.secret]
           /\ stored' = [stored EXCEPT ![t.secret] = @ \cup {k + 1}]
           /\ tasks' = Safe!Goto(i, "current")
  <2>0. stored \in [Secrets -> SUBSET Nat] /\ tasks \in [1..MaxTasks -> {Safe!NoTask} \cup Safe!Requests]
    BY DEF Safe!VaultInv, Safe!StoreTrue, Safe!RequestsTrue
  <2>1. PICK m \in Nat : stored[t.secret] = 1..m
    BY <1>2 DEF Safe!VaultInv, Safe!StoreTrue
  <2>2. m = k
    <3>1. k <= m
      BY <1>3, <2>1
    <3>2. k + 1 \notin 1..m
      BY <1>6, <2>1
    <3>. QED BY <3>1, <3>2
  <2>3. stored[t.secret] \cup {k + 1} = 1..(k + 1)
    BY <2>1, <2>2
  <2>4. /\ stored' \in [Secrets -> SUBSET Nat] /\ stored'[t.secret] = 1..(k + 1)
        /\ \A s \in Secrets : s # t.secret => stored'[s] = stored[s]
    <3>1. stored' = [stored EXCEPT ![t.secret] = 1..(k + 1)]
      BY <1>6, <2>3
    <3>2. 1..(k + 1) \in SUBSET Nat
      OBVIOUS
    <3>. QED BY <1>2, <2>0, <3>1, <3>2
  <2>5. \A s \in Secrets : stored[s] \subseteq stored'[s]
    BY <2>1, <2>2, <2>4
  <2>6. Safe!StoreTrue'
    <3>1. \A s \in Secrets : \E n \in Nat : stored'[s] = 1..n
      BY <2>4 DEF Safe!VaultInv, Safe!StoreTrue
    <3>. QED BY <2>4, <2>5, <3>1 DEF Safe!VaultInv, Safe!StoreTrue, Safe!InsertVersion
  <2> DEFINE u == [t EXCEPT !.stage = "current"]
  <2>7. u \in Safe!Requests /\ u.stage = "current" /\ u.todo = t.todo /\ u.secret = t.secret /\ u.numbers = t.numbers
    BY DEF Safe!Requests, Safe!Stages
  <2>8. tasks' = [tasks EXCEPT ![i] = u]
    BY <1>1, <1>6, <2>0 DEF Safe!Goto
  <2> HIDE DEF u
  <2>9. Safe!RequestTrue(u)'
    BY <1>1, <1>2, <1>3, <2>4, <2>7, Zero DEF Safe!RequestTrue
  <2>10. ASSUME NEW j \in 1..MaxTasks, NEW v \in Safe!Requests, v = tasks[j] PROVE Safe!RequestTrue(v)'
    <3>1. Safe!RequestTrue(v)
      BY <2>10 DEF Safe!VaultInv, Safe!RequestsTrue
    <3>2. CASE v.secret = 0
      <4>1. v.stage \notin {"insert", "current"} /\ v.todo[1] # "reveal"
        BY <3>1, <3>2 DEF Safe!RequestTrue
      <4>. QED BY <3>1, <4>1 DEF Safe!RequestTrue
    <3>3. CASE v.secret \in Secrets
      <4>1. stored[v.secret] \subseteq stored'[v.secret]
        BY <2>5, <3>3
      <4>2. v.stage = "insert" => \E n \in Nat : v.numbers = 1..n /\ 1..n \subseteq stored'[v.secret]
        BY <3>1, <4>1 DEF Safe!RequestTrue
      <4>3. v.stage = "current" => \E n \in Nat : v.numbers = 1..n /\ n + 1 \in stored'[v.secret]
        BY <3>1, <4>1 DEF Safe!RequestTrue
      <4>. QED BY <3>1, <4>1, <4>2, <4>3 DEF Safe!RequestTrue, Safe!InsertVersion
    <3>. QED BY <3>2, <3>3 DEF Safe!Requests
  <2>11. Safe!RequestsTrue'
    <3>1. tasks' \in [1..MaxTasks -> {Safe!NoTask} \cup Safe!Requests]
      BY <2>0, <2>7, <2>8
    <3>2. ASSUME NEW j \in 1..MaxTasks, NEW v \in Safe!Requests, v = tasks'[j] PROVE Safe!RequestTrue(v)'
      <4>1. CASE j = i
        BY <2>0, <2>8, <2>9, <3>2, <4>1
      <4>2. CASE j # i
        BY <2>0, <2>8, <2>10, <3>2, <4>2
      <4>. QED BY <4>1, <4>2
    <3>. QED BY <3>1, <3>2 DEF Safe!RequestsTrue
  <2>12. Safe!DialogTrue' /\ dialog' \in Safe!Dialogs
    <3>1. dialog \in Safe!Dialogs /\ (dialog.payload # Safe!NoSecret => dialog.secret \in Secrets)
      BY DEF Safe!VaultInv, Safe!Dialogs, Safe!Closed
    <3>. QED BY <3>1, <2>5 DEF Safe!VaultInv, Safe!DialogTrue
  <2>. QED BY <2>6, <2>11, <2>12 DEF Safe!VaultInv
<1>. QED BY <1>1, <1>4, <1>5, <1>6 DEF Safe!InsertVersion

LEMMA SetCurrentOK ==
  ASSUME Safe!VaultAssumption, Safe!VaultInv, NEW i \in 1..MaxTasks, Safe!SetCurrent(i), UNCHANGED dialog PROVE Safe!VaultInv'
<1>0. tasks[i] # Safe!NoTask
  BY NoneIs DEF Safe!SetCurrent, Safe!At
<1>1. PICK t \in Safe!Requests : t = tasks[i] /\ Safe!RequestTrue(t)
  BY <1>0, RequestIs
<1>2. t.stage = "current" /\ t.secret \in Secrets /\ t.todo[1] # "reveal" /\ t.todo[1] # "load"
  BY <1>1 DEF Safe!SetCurrent, Safe!At, Safe!RequestTrue, Safe!Requests
<1>3. PICK k \in Nat : t.numbers = 1..k /\ k + 1 \in stored[t.secret]
  BY <1>1, <1>2 DEF Safe!RequestTrue
<1>4. Safe!NextNumber(i) = k + 1 /\ Safe!SecretOf(i) = t.secret
  BY <1>1, <1>3, MaxTo DEF Safe!NextNumber, Safe!SecretOf
<1> DEFINE r == [row[t.secret] EXCEPT !.current = k + 1]
<1>5. r \in Safe!Row /\ r.current = k + 1
  <2>1. row[t.secret] \in Safe!Row
    BY <1>2 DEF Safe!VaultInv, Safe!StoreTrue
  <2>. QED BY <2>1 DEF Safe!Row
<1>6. Safe!Store(i, r, "get")
  BY <1>4 DEF Safe!SetCurrent
<1> HIDE DEF r
<1>. QED BY <1>0, <1>1, <1>2, <1>3, <1>4, <1>5, <1>6, VaultStoreOK DEF Safe!SetCurrent

LEMMA UpdateStateOK ==
  ASSUME Safe!VaultAssumption, Safe!VaultInv, NEW i \in 1..MaxTasks, Safe!UpdateState(i), UNCHANGED dialog PROVE Safe!VaultInv'
<1>0. tasks[i] # Safe!NoTask
  BY NoneIs DEF Safe!UpdateState, Safe!At
<1>1. PICK t \in Safe!Requests : t = tasks[i] /\ Safe!RequestTrue(t)
  BY <1>0, RequestIs
<1>2. t.stage = "update" /\ t.secret \in Secrets /\ t.todo[1] # "reveal" /\ t.todo[1] # "load" /\ Safe!SecretOf(i) = t.secret
  BY <1>1 DEF Safe!UpdateState, Safe!At, Safe!RequestTrue, Safe!Requests, Safe!SecretOf
<1>3. PICK to \in {"enabled", "disabled", "deleted"}, stage \in {"answer", "get"} :
        Safe!Store(i, [row[t.secret] EXCEPT !.state = to], stage)
  BY <1>2 DEF Safe!UpdateState
<1> DEFINE r == [row[t.secret] EXCEPT !.state = to]
<1>4. r \in Safe!Row /\ r.current = row[t.secret].current /\ r.current \in {0} \cup stored[t.secret]
  <2>1. row[t.secret] \in Safe!Row /\ row[t.secret].current \in {0} \cup stored[t.secret]
    BY <1>2 DEF Safe!VaultInv, Safe!StoreTrue
  <2>2. r \in Safe!Row /\ r.current = row[t.secret].current
    BY <2>1 DEF Safe!Row
  <2>. QED BY <2>1, <2>2
<1> HIDE DEF r
<1>5. Safe!Store(i, r, stage)
  BY <1>3 DEF r
<1>. QED BY <1>0, <1>1, <1>2, <1>4, <1>5, VaultStoreOK DEF Safe!UpdateState

LEMMA GetSecretOK ==
  ASSUME Safe!VaultInv, NEW i \in 1..MaxTasks, Safe!GetSecret(i), UNCHANGED dialog PROVE Safe!VaultInv'
<1>0. tasks[i] # Safe!NoTask
  BY NoneIs DEF Safe!GetSecret, Safe!At
<1>1. PICK t \in Safe!Requests : t = tasks[i] /\ Safe!RequestTrue(t)
  BY <1>0, RequestIs
<1>2. t.todo[1] # "reveal"
  BY <1>1 DEF Safe!GetSecret, Safe!At, Safe!RequestTrue
<1>3. PICK stage \in {"answer", "failed"} : tasks' = Safe!Goto(i, stage)
  BY DEF Safe!GetSecret
<1>. QED BY <1>0, <1>1, <1>2, <1>3, EndsOK DEF Safe!GetSecret

LEMMA BreakOK ==
  ASSUME Safe!VaultInv, NEW i \in 1..MaxTasks, Safe!Break(i), UNCHANGED dialog PROVE Safe!VaultInv'
<1>0. tasks[i] # Safe!NoTask
  BY NoneIs DEF Safe!Break
<1>. QED BY <1>0, EndsOK DEF Safe!Break

LEMMA SelectVersionOK ==
  ASSUME Safe!VaultAssumption, Safe!VaultInv, NEW i \in 1..MaxTasks, Safe!SelectVersion(i), UNCHANGED dialog PROVE Safe!VaultInv'
<1>0. tasks[i] # Safe!NoTask
  BY NoneIs DEF Safe!SelectVersion, Safe!At
<1>1. PICK t \in Safe!Requests : t = tasks[i] /\ Safe!RequestTrue(t)
  BY <1>0, RequestIs
<1>2. t.stage = "select" /\ t.secret \in Secrets /\ t.todo[1] # "load"
  BY <1>1 DEF Safe!SelectVersion, Safe!At, Safe!RequestTrue, Safe!Requests
<1> DEFINE stage == IF t.todo[1] = "reveal" /\ t.read.current = 0 THEN "failed" ELSE "answer"
           numbers == IF t.todo[1] = "versions" THEN stored[t.secret] ELSE {}
           u == [t EXCEPT !.stage = stage, !.numbers = numbers]
<1>3. stage \in Safe!Stages /\ numbers \in SUBSET Nat
  BY <1>2 DEF Safe!Stages, Safe!VaultInv, Safe!StoreTrue
<1>4. tasks' = [tasks EXCEPT ![i] = u]
  BY <1>1 DEF Safe!SelectVersion, Safe!Op, Safe!SecretOf, Safe!VaultInv, Safe!RequestsTrue
<1>5. /\ u \in Safe!Requests /\ u.stage = stage /\ u.todo = t.todo /\ u.secret = t.secret /\ u.read = t.read
      /\ u.offered = t.offered /\ u.mine = t.mine
  <2> HIDE DEF stage, numbers
  <2>. QED BY <1>3 DEF Safe!Requests
<1>6. stage \in {"failed", "answer"} /\ (stage = "answer" /\ t.todo[1] = "reveal" => t.read.current # 0)
  OBVIOUS
<1> HIDE DEF stage, numbers, u
<1>7. Safe!RequestTrue(u)
  BY <1>1, <1>2, <1>5, <1>6, Zero DEF Safe!RequestTrue
<1>. QED BY <1>4, <1>5, <1>7, OneRequest DEF Safe!SelectVersion

LEMMA ListSecretsOK ==
  ASSUME Safe!VaultAssumption, Safe!VaultInv, NEW i \in 1..MaxTasks, Safe!ListSecrets(i), UNCHANGED dialog PROVE Safe!VaultInv'
<1>0. tasks[i] # Safe!NoTask
  BY NoneIs DEF Safe!ListSecrets, Safe!At
<1>1. PICK t \in Safe!Requests : t = tasks[i] /\ Safe!RequestTrue(t)
  BY <1>0, RequestIs
<1> DEFINE u == [t EXCEPT !.stage = "answer", !.rows = row]
<1>2. t.todo[1] = "load" /\ row \in [Secrets -> Safe!Row]
  BY <1>1 DEF Safe!ListSecrets, Safe!Op, Safe!VaultInv, Safe!StoreTrue
<1>3. tasks' = [tasks EXCEPT ![i] = u]
  BY <1>1 DEF Safe!ListSecrets, Safe!VaultInv, Safe!RequestsTrue
<1>4. u \in Safe!Requests /\ u.stage = "answer" /\ u.todo = t.todo /\ u.secret = t.secret
  BY <1>2 DEF Safe!Requests, Safe!Stages
<1> HIDE DEF u
<1>5. Safe!RequestTrue(u)
  BY <1>1, <1>2, <1>4 DEF Safe!RequestTrue
<1>. QED BY <1>3, <1>4, <1>5, OneRequest DEF Safe!ListSecrets

LEMMA VaultServeOK ==
  ASSUME Safe!VaultAssumption, Safe!VaultInv, NEW i \in 1..MaxTasks, Safe!Serve(i) PROVE Safe!VaultInv'
BY InsertSecretOK, ReadSecretOK, NumberVersionOK, InsertVersionOK, SetCurrentOK, GetSecretOK, UpdateStateOK,
   SelectVersionOK, ListSecretsOK, BreakOK DEF Safe!Serve


\* A request is sent.
LEMMA SendOK ==
  ASSUME Safe!VaultAssumption, Safe!VaultInv, NEW todo \in Safe!Todos, NEW s \in Secrets \cup {0}, NEW mine \in BOOLEAN,
         s = 0 => Len(todo) = 1 /\ todo[1] = "load",
         todo[1] = "reveal" /\ mine => dialog.secret = s
  PROVE  Safe!Send(todo, s, mine) \in Safe!Requests /\ Safe!RequestTrue(Safe!Send(todo, s, mine))
<1> DEFINE u == Safe!Send(todo, s, mine)
           offered == IF todo[1] = "reveal" THEN Safe!Offered(row[s]) ELSE {}
<1>1. offered \in SUBSET Nat
  <2>1. CASE todo[1] = "reveal"
    <3>1. s \in Secrets
      BY <2>1
    <3>2. row[s] \in Safe!Row
      BY <3>1 DEF Safe!VaultInv, Safe!StoreTrue
    <3>. QED BY <3>2 DEF Safe!Offered, Safe!Row
  <2>. QED BY <2>1
<1> HIDE DEF offered
<1>2. u = [Safe!NoTask EXCEPT !.todo = todo, !.secret = s, !.stage = "sent", !.mine = mine, !.offered = offered]
  BY DEF Safe!Send, offered
<1> HIDE DEF u
<1>4. /\ u \in Safe!Requests /\ u.stage = "sent" /\ u.todo = todo /\ u.secret = s /\ u.numbers = {}
      /\ u.offered = offered /\ u.mine = mine
  <2> DEFINE Blank == [todo : {<<>>}, secret : {0}, stage : {"none"}, read : Safe!Row, rows : {<<>>}, numbers : {{}},
                       offered : {{}}, mine : BOOLEAN]
  <2>1. Safe!NoTask \in Blank
    BY DEF Safe!NoTask, Safe!NoRow, Safe!Row
  <2>2. /\ u.stage = "sent" /\ u.todo = todo /\ u.secret = s /\ u.numbers = {}
        /\ u.offered = offered /\ u.mine = mine
    BY <1>2, <2>1
  <2>3. u \in Safe!Requests
    BY <1>1, <1>2, <2>1 DEF Safe!Requests, Safe!Stages
  <2>. QED BY <2>2, <2>3
<1>5. todo[1] = "reveal" => Safe!Offered(row[s]) \subseteq offered
  BY DEF offered
<1>6. Safe!RequestTrue(u)
  BY <1>4, <1>5 DEF Safe!RequestTrue
<1>. QED BY <1>4, <1>6 DEF u

\* What is good for the state as it is stays so while the server and the dialog do.
LEMMA GoodStays ==
  ASSUME Safe!VaultInv, NEW f, Safe!Good(f), tasks' = f, UNCHANGED <<row, stored>>, dialog' \in Safe!Dialogs, Safe!DialogTrue',
         dialog'.secret = dialog.secret
  PROVE  Safe!VaultInv'
<1>1. Safe!RequestsTrue'
  BY DEF Safe!Good, Safe!RequestsTrue, Safe!RequestTrue
<1>. QED BY <1>1 DEF Safe!VaultInv, Safe!StoreTrue

LEMMA GoodPut ==
  ASSUME NEW f, Safe!Good(f), NEW i, NEW u \in {Safe!NoTask} \cup Safe!Requests, u \in Safe!Requests => Safe!RequestTrue(u)
  PROVE  Safe!Good([f EXCEPT ![i] = u])
<1> DEFINE g == [f EXCEPT ![i] = u]
<1>1. g \in [1..MaxTasks -> {Safe!NoTask} \cup Safe!Requests]
  BY DEF Safe!Good
<1>2. ASSUME NEW j \in 1..MaxTasks, NEW t \in Safe!Requests, t = g[j] PROVE Safe!RequestTrue(t)
  BY <1>2 DEF Safe!Good
<1> HIDE DEF g
<1>3. Safe!Good(g)
  BY <1>1, <1>2 DEF Safe!Good
<1>. QED BY <1>3 DEF g

LEMMA GoodNow == Safe!VaultInv => Safe!Good(tasks)
  BY DEF Safe!VaultInv, Safe!RequestsTrue, Safe!Good

\* A single step of a plan, and what is left of a plan.
LEMMA VaultStepIs == ASSUME NEW op \in Safe!Operations PROVE <<op>> \in Safe!Todos /\ <<op>>[1] = op /\ Len(<<op>>) = 1
  BY DEF Safe!Todos
LEMMA TwoSteps == ASSUME NEW op \in Safe!Operations, NEW op2 \in Safe!Operations, op2 # "reveal" PROVE <<op, op2>> \in Safe!Todos /\ <<op, op2>>[1] = op
  BY DEF Safe!Todos
LEMMA ThreeSteps ==
  ASSUME NEW op \in Safe!Operations, NEW op2 \in Safe!Operations, op2 # "reveal", NEW op3 \in Safe!Operations, op3 # "reveal"
  PROVE  <<op, op2, op3>> \in Safe!Todos /\ <<op, op2, op3>>[1] = op
  BY DEF Safe!Todos

LEMMA TailOK == ASSUME NEW todo \in Safe!Todos PROVE Safe!Later(Tail(todo)) /\ (Len(todo) = 1 => Tail(todo) = <<>>)
<1>1. todo \in Seq(Safe!Operations) /\ todo # <<>> /\ \A j \in 2..Len(todo) : todo[j] # "reveal"
  BY DEF Safe!Todos
<1>2. Tail(todo) \in Seq(Safe!Operations) /\ Len(Tail(todo)) = Len(todo) - 1 /\ Len(todo) \in Nat \ {0}
  BY <1>1
<1>3. \A j \in 1..Len(Tail(todo)) : Tail(todo)[j] = todo[j + 1] /\ j + 1 \in 2..Len(todo)
  BY <1>1, <1>2
<1>4. \A j \in 1..Len(Tail(todo)) : Tail(todo)[j] # "reveal"
  BY <1>1, <1>3
<1>5. CASE Tail(todo) = <<>>
  BY <1>5 DEF Safe!Later
<1>6. CASE Tail(todo) # <<>>
  <2>1. 1 \in 1..Len(Tail(todo)) /\ Len(Tail(todo)) # 0
    BY <1>2, <1>6
  <2>2. Tail(todo) \in Safe!Todos
    <3>1. PICK q \in Seq(Safe!Operations) : q = Tail(todo)
      BY <1>2
    <3>2. \A j \in 2..Len(q) : q[j] # "reveal"
      BY <1>4, <3>1
    <3>. QED BY <1>6, <3>1, <3>2 DEF Safe!Todos
  <2>. QED BY <1>2, <1>4, <2>1, <2>2 DEF Safe!Later
<1>. QED BY <1>2, <1>5, <1>6

\* The effect of a render on the requests in flight.
LEMMA RenderOK ==
  ASSUME Safe!VaultAssumption, Safe!VaultInv, NEW f, Safe!Good(f), NEW rows, NEW id, Safe!Render(f, rows, id)
  PROVE  \E g : Safe!Good(g) /\ tasks' = g
<1> DEFINE now == Safe!Selected(rows, id)
           free == {i \in 1..MaxTasks : f[i] = Safe!NoTask}
<1>1. CASE tasks' = f
  BY <1>1
<1>2. CASE now # 0 /\ free # {} /\ tasks' = [f EXCEPT ![CHOOSE i \in free : TRUE] = Safe!Send(<<"versions">>, now, TRUE)]
  <2>1. now \in Secrets
    BY <1>2, SelectedIs
  <2> DEFINE u == Safe!Send(<<"versions">>, now, TRUE)
             k == CHOOSE i \in free : TRUE
  <2>2. u \in Safe!Requests /\ Safe!RequestTrue(u)
    <3>1. <<"versions">> \in Safe!Todos /\ <<"versions">>[1] = "versions"
      BY VaultStepIs DEF Safe!Operations
    <3> HIDE DEF now
    <3>. QED BY <2>1, <3>1, SendOK, Zero
  <2> HIDE DEF u, k
  <2>3. Safe!Good([f EXCEPT ![k] = u])
    BY <2>2, GoodPut
  <2>. QED BY <1>2, <2>3 DEF u, k
<1>. QED BY <1>1, <1>2 DEF Safe!Render

\* A handler starts.
LEMMA VaultStartOK ==
  ASSUME Safe!VaultAssumption, Safe!VaultInv, NEW todo \in Safe!Todos, NEW s \in Secrets \cup {0}, NEW mine \in BOOLEAN, Safe!Start(todo, s, mine),
         s = 0 => Len(todo) = 1 /\ todo[1] = "load",
         todo[1] = "reveal" /\ mine => dialog.secret = s
  PROVE  Safe!VaultInv'
<1>1. PICK i \in Safe!Free : tasks' = [tasks EXCEPT ![i] = Safe!Send(todo, s, mine)]
  BY DEF Safe!Start
<1> DEFINE u == Safe!Send(todo, s, mine)
<1>2. u \in Safe!Requests /\ Safe!RequestTrue(u)
  BY SendOK
<1> HIDE DEF u
<1>3. tasks' = [tasks EXCEPT ![i] = u] /\ i \in 1..MaxTasks
  BY <1>1 DEF u, Safe!Free
<1>. QED BY <1>2, <1>3, OneRequest DEF Safe!Start

LEMMA StartsOK ==
  ASSUME Safe!VaultAssumption, Safe!VaultInv,
         (\E s \in Secrets : Safe!create(s)) \/ Safe!rotate \/ Safe!setEnabled \/ Safe!deleteSecret \/ Safe!refresh \/ Safe!reveal \/ Safe!Elsewhere
  PROVE  Safe!VaultInv'
<1>0. Safe!selected \in Secrets \cup {0}
  BY SelectedIs DEF Safe!selected
<1>1. ASSUME NEW s \in Secrets, Safe!create(s) PROVE Safe!VaultInv'
  <2>0. "create" \in Safe!Operations /\ "load" \in Safe!Operations /\ "pick" \in Safe!Operations
    BY DEF Safe!Operations
  <2>1. <<"create", "load", "pick">> \in Safe!Todos /\ <<"create", "load", "pick">>[1] = "create"
    BY <2>0, ThreeSteps
  <2>. QED BY <1>0, <1>1, <2>1, VaultStartOK, Zero DEF Safe!create
<1>2. CASE Safe!rotate
  <2>0. "rotate" \in Safe!Operations /\ "load" \in Safe!Operations /\ "versions" \in Safe!Operations
    BY DEF Safe!Operations
  <2>1. <<"rotate", "load", "versions">> \in Safe!Todos /\ <<"rotate", "load", "versions">>[1] = "rotate"
    BY <2>0, ThreeSteps
  <2>. QED BY <1>0, <1>2, <2>1, VaultStartOK, Zero DEF Safe!rotate
<1>3. CASE Safe!deleteSecret
  <2>0. "delete" \in Safe!Operations /\ "unpick" \in Safe!Operations /\ "load" \in Safe!Operations
    BY DEF Safe!Operations
  <2>1. <<"delete", "unpick", "load">> \in Safe!Todos /\ <<"delete", "unpick", "load">>[1] = "delete"
    BY <2>0, ThreeSteps
  <2>. QED BY <1>0, <1>3, <2>1, VaultStartOK, Zero DEF Safe!deleteSecret
<1>4. CASE Safe!setEnabled
  <2>1. PICK op \in {"disable", "enable"} : Safe!Start(<<op, "load">>, Safe!selected, TRUE) /\ Safe!selected # 0
    BY <1>4 DEF Safe!setEnabled
  <2>2. <<op, "load">> \in Safe!Todos /\ <<op, "load">>[1] = op
    <3>1. op \in Safe!Operations /\ "load" \in Safe!Operations
      BY DEF Safe!Operations
    <3>. QED BY <3>1, TwoSteps
  <2>. QED BY <1>0, <2>1, <2>2, VaultStartOK
<1>5. CASE Safe!refresh
  <2>1. <<"load">> \in Safe!Todos /\ <<"load">>[1] = "load" /\ Len(<<"load">>) = 1
    BY VaultStepIs DEF Safe!Operations
  <2>. QED BY <1>5, <2>1, VaultStartOK DEF Safe!refresh
<1>6. CASE Safe!reveal
  <2>1. dialog.secret \in Secrets
    BY <1>6 DEF Safe!reveal, Safe!VaultInv, Safe!Dialogs
  <2>2. <<"reveal">> \in Safe!Todos /\ <<"reveal">>[1] = "reveal"
    BY VaultStepIs DEF Safe!Operations
  <2>3. PICK s \in Secrets : s = dialog.secret
    BY <2>1
  <2>4. Safe!Start(<<"reveal">>, s, TRUE)
    BY <1>6, <2>3 DEF Safe!reveal
  <2>. QED BY <2>2, <2>3, <2>4, VaultStartOK, Zero
<1>7. ASSUME NEW s \in Secrets, NEW op \in {"rotate", "disable", "delete"}, Safe!Start(<<op>>, s, FALSE) PROVE Safe!VaultInv'
  <2>1. <<op>> \in Safe!Todos /\ <<op>>[1] = op
    <3>1. op \in Safe!Operations
      BY DEF Safe!Operations
    <3>. QED BY <3>1, VaultStepIs
  <2>. QED BY <1>7, <2>1, VaultStartOK, Zero
<1>. QED BY <1>1, <1>2, <1>3, <1>4, <1>5, <1>6, <1>7 DEF Safe!Elsewhere

\* What goes on in a handler.
LEMMA AfterOK ==
  ASSUME Safe!VaultAssumption, Safe!VaultInv, NEW i \in 1..MaxTasks, tasks[i] # Safe!NoTask, NEW todo, Safe!Later(todo),
         tasks[i].secret = 0 => todo = <<>>
  PROVE  Safe!Good(Safe!After(i, todo))
<1>1. PICK t \in Safe!Requests : t = tasks[i] /\ Safe!RequestTrue(t)
  BY RequestIs
<1>2. CASE todo = <<>> \/ ~tasks[i].mine
  <2>1. Safe!Good([tasks EXCEPT ![i] = Safe!NoTask])
    <3>1. Safe!NoTask \notin Safe!Requests
      BY NoneIs DEF Safe!Requests, Safe!Stages
    <3>. QED BY <3>1, GoodNow, GoodPut
  <2>. QED BY <1>2, <2>1 DEF Safe!After
<1>3. CASE todo # <<>> /\ tasks[i].mine
  <2>1. todo \in Safe!Todos /\ todo[1] # "reveal" /\ t.secret \in Secrets
    BY <1>1, <1>3 DEF Safe!Later, Safe!Requests
  <2> DEFINE u == Safe!Send(todo, t.secret, TRUE)
  <2>2. u \in Safe!Requests /\ Safe!RequestTrue(u)
    BY <2>1, SendOK, Zero
  <2> HIDE DEF u
  <2>3. Safe!Good([tasks EXCEPT ![i] = u])
    BY <2>2, GoodNow, GoodPut
  <2>. QED BY <1>1, <1>3, <2>3 DEF Safe!After, u, Safe!SecretOf
<1>. QED BY <1>2, <1>3

LEMMA PickedOK ==
  ASSUME Safe!VaultInv, NEW i \in 1..MaxTasks, tasks[i] # Safe!NoTask
  PROVE  Safe!Later(Safe!Picked(i, Safe!Rest(i)).todo) /\ (tasks[i].secret = 0 => Safe!Picked(i, Safe!Rest(i)).todo = <<>>)
<1>1. PICK t \in Safe!Requests : t = tasks[i] /\ Safe!RequestTrue(t)
  BY RequestIs
<1> DEFINE rest == Tail(t.todo)
<1>2. t.todo \in Safe!Todos /\ Safe!Later(rest) /\ (t.secret = 0 => rest = <<>>)
  BY <1>1, TailOK DEF Safe!Requests, Safe!RequestTrue
<1> HIDE DEF rest
<1>3. rest # <<>> => Safe!Later(Tail(rest))
  BY <1>2, TailOK DEF Safe!Later
<1>4. Safe!Picked(i, Safe!Rest(i)).todo = IF rest # <<>> /\ rest[1] \in {"pick", "unpick"} THEN Tail(rest) ELSE rest
  BY <1>1 DEF Safe!Picked, Safe!Rest, rest
<1>. QED BY <1>1, <1>2, <1>3, <1>4

LEMMA TakeOK ==
  ASSUME Safe!VaultAssumption, Safe!VaultInv, NEW i \in 1..MaxTasks, Safe!Take(i) PROVE Safe!VaultInv'
<1>1. CASE Safe!Unseen(i)
  <2>1. Safe!NoTask \notin Safe!Requests
    BY NoneIs DEF Safe!Requests, Safe!Stages
  <2>. QED BY <1>1, <2>1, OneRequest DEF Safe!Unseen, Safe!Take
<1>2. CASE Safe!Answered(i)
  <2>0. tasks[i] # Safe!NoTask
    BY <1>2, NoneIs DEF Safe!Answered, Safe!At
  <2>1. PICK t \in Safe!Requests : t = tasks[i] /\ Safe!RequestTrue(t)
    BY <2>0, RequestIs
  <2>2. \E rows, id : Safe!Render(Safe!After(i, Safe!Picked(i, Safe!Rest(i)).todo), rows, id)
    BY <1>2 DEF Safe!Answered
  <2>3. Safe!Good(Safe!After(i, Safe!Picked(i, Safe!Rest(i)).todo))
    BY <2>0, PickedOK, AfterOK
  <2>4. PICK g : Safe!Good(g) /\ tasks' = g
    BY <2>2, <2>3, RenderOK
  <2>5. CASE t.todo[1] = "reveal"
    <3>1. t.stage = "answer" /\ t.mine
      BY <1>2, <2>1 DEF Safe!Answered, Safe!At
    <3>2. t.secret \in Secrets /\ dialog.secret = t.secret /\ t.read.current \in stored[t.secret] /\ t.read.current \in Nat
      BY <2>1, <2>5, <3>1 DEF Safe!RequestTrue, Safe!Requests, Safe!Row
    <3>3. dialog' = [dialog EXCEPT !.payload = [secret |-> t.secret, version |-> t.read.current]]
      BY <1>2, <2>1, <2>5 DEF Safe!Answered, Safe!Op, Safe!SecretOf
    <3>4. dialog \in [secret : Secrets, payload : Safe!Payload]
      BY <3>2, Zero DEF Safe!VaultInv, Safe!Dialogs, Safe!Closed
    <3>5. [secret |-> t.secret, version |-> t.read.current] \in Safe!Payload
      BY <3>2 DEF Safe!Payload
    <3>6. dialog' \in Safe!Dialogs /\ dialog'.secret = dialog.secret /\ dialog'.payload = [secret |-> t.secret, version |-> t.read.current]
      BY <3>3, <3>4, <3>5 DEF Safe!Dialogs
    <3>7. stored' = stored /\ row' = row
      BY DEF Safe!Take
    <3>8. Safe!DialogTrue'
      BY <3>2, <3>6, <3>7 DEF Safe!DialogTrue
    <3>. QED BY <2>4, <3>6, <3>7, <3>8, GoodStays
  <2>6. CASE t.todo[1] # "reveal"
    <3>1. dialog' = dialog /\ UNCHANGED <<row, stored>>
      BY <1>2, <2>1, <2>6 DEF Safe!Answered, Safe!Op, Safe!Take
    <3>. QED BY <2>4, <3>1, GoodStays DEF Safe!VaultInv, Safe!DialogTrue
  <2>. QED BY <2>5, <2>6
<1>3. CASE Safe!Refused(i)
  <2>0. tasks[i] # Safe!NoTask
    BY <1>3, NoneIs DEF Safe!Refused, Safe!At
  <2>2. PICK todo, rows, id : Safe!Render(Safe!After(i, todo), rows, id) /\ todo \in {<<>>, Safe!Picked(i, Safe!Rest(i)).todo}
    BY <1>3 DEF Safe!Refused
  <2>3. Safe!Good(Safe!After(i, todo))
    <3>1. Safe!Later(todo) /\ (tasks[i].secret = 0 => todo = <<>>)
      BY <2>0, <2>2, PickedOK DEF Safe!Later
    <3>. QED BY <2>0, <3>1, AfterOK
  <2>4. PICK g : Safe!Good(g) /\ tasks' = g
    BY <2>2, <2>3, RenderOK
  <2>. QED BY <1>3, <2>4, GoodStays DEF Safe!VaultInv, Safe!DialogTrue, Safe!Refused, Safe!Take
<1>. QED BY <1>1, <1>2, <1>3 DEF Safe!Take

\* Nobody waits for a reveal any more: the dialog may show another secret, or none.
LEMMA Unwaited ==
  ASSUME Safe!VaultAssumption, Safe!VaultInv, NEW f \in [1..MaxTasks -> {Safe!NoTask} \cup Safe!Requests], tasks' = f, UNCHANGED <<row, stored>>,
         dialog' \in Safe!Dialogs, Safe!DialogTrue',
         \A j \in 1..MaxTasks : \A t \in Safe!Requests : t = f[j] => Safe!RequestTrue(t) /\ (t.todo[1] = "reveal" => ~t.mine)
  PROVE  Safe!VaultInv'
<1>1. Safe!RequestsTrue'
  BY DEF Safe!RequestsTrue, Safe!RequestTrue
<1>. QED BY <1>1 DEF Safe!VaultInv, Safe!StoreTrue

LEMMA MineSet ==
  ASSUME NEW t \in Safe!Requests, Safe!RequestTrue(t)
  PROVE  [t EXCEPT !.mine = FALSE] \in Safe!Requests /\ Safe!RequestTrue([t EXCEPT !.mine = FALSE]) /\ [t EXCEPT !.mine = FALSE].mine = FALSE
         /\ [t EXCEPT !.mine = FALSE].todo = t.todo
<1> DEFINE u == [t EXCEPT !.mine = FALSE]
<1>1. /\ u \in Safe!Requests /\ u.stage = t.stage /\ u.todo = t.todo /\ u.secret = t.secret /\ u.read = t.read
      /\ u.numbers = t.numbers /\ u.offered = t.offered /\ u.mine = FALSE
  BY DEF Safe!Requests
<1> HIDE DEF u
<1>2. Safe!RequestTrue(u)
  BY <1>1 DEF Safe!RequestTrue
<1>. QED BY <1>1, <1>2 DEF u

LEMMA ClosedIs == Safe!Closed \in Safe!Dialogs /\ Safe!Closed.payload = Safe!NoSecret /\ Safe!Closed.secret = 0
  BY DEF Safe!Closed, Safe!Dialogs

LEMMA closeDialogOK == ASSUME Safe!VaultAssumption, Safe!VaultInv, Safe!closeDialog PROVE Safe!VaultInv'
<1> DEFINE f == [i \in 1..MaxTasks |->
              IF tasks[i] # Safe!NoTask /\ Safe!Op(i) = "reveal" THEN [tasks[i] EXCEPT !.mine = FALSE] ELSE tasks[i]]
<1>1. ASSUME NEW j \in 1..MaxTasks
      PROVE  f[j] \in {Safe!NoTask} \cup Safe!Requests /\ \A t \in Safe!Requests : t = f[j] => Safe!RequestTrue(t) /\ (t.todo[1] = "reveal" => ~t.mine)
  <2>0. Safe!NoTask \notin Safe!Requests
    BY NoneIs DEF Safe!Requests, Safe!Stages
  <2>1. CASE tasks[j] = Safe!NoTask
    BY <2>0, <2>1
  <2>2. CASE tasks[j] # Safe!NoTask
    <3>1. PICK t \in Safe!Requests : t = tasks[j] /\ Safe!RequestTrue(t)
      BY <2>2, RequestIs
    <3>2. f[j] = IF t.todo[1] = "reveal" THEN [t EXCEPT !.mine = FALSE] ELSE t
      BY <2>2, <3>1 DEF Safe!Op
    <3> HIDE DEF f
    <3>. QED BY <3>1, <3>2, MineSet
  <2>. QED BY <2>1, <2>2
<1>2. f \in [1..MaxTasks -> {Safe!NoTask} \cup Safe!Requests]
  BY <1>1
<1>3. tasks' = f /\ dialog' = Safe!Closed /\ UNCHANGED <<row, stored>>
  BY DEF Safe!closeDialog
<1> HIDE DEF f
<1>4. Safe!DialogTrue' /\ dialog' \in Safe!Dialogs
  BY <1>3, ClosedIs DEF Safe!DialogTrue
<1>. QED BY <1>1, <1>2, <1>3, <1>4, Unwaited

LEMMA RemountOK == ASSUME Safe!VaultAssumption, Safe!VaultInv, Safe!Remount PROVE Safe!VaultInv'
<1> DEFINE f == [i \in 1..MaxTasks |->
              IF i = 1 THEN Safe!Send(<<"load">>, 0, TRUE) ELSE [tasks[i] EXCEPT !.mine = FALSE]]
<1>0. Safe!NoTask \notin Safe!Requests /\ [Safe!NoTask EXCEPT !.mine = FALSE] = Safe!NoTask
  BY NoneIs DEF Safe!Requests, Safe!Stages, Safe!NoTask
<1>1. ASSUME NEW j \in 1..MaxTasks
      PROVE  f[j] \in {Safe!NoTask} \cup Safe!Requests /\ \A t \in Safe!Requests : t = f[j] => Safe!RequestTrue(t) /\ (t.todo[1] = "reveal" => ~t.mine)
  <2>1. CASE j = 1
    <3>1. <<"load">> \in Safe!Todos /\ <<"load">>[1] = "load" /\ Len(<<"load">>) = 1
      BY VaultStepIs DEF Safe!Operations
    <3> DEFINE u == Safe!Send(<<"load">>, 0, TRUE)
    <3>2. u \in Safe!Requests /\ Safe!RequestTrue(u)
      BY <3>1, SendOK
    <3>3. u.todo[1] = "load"
      BY <3>1 DEF Safe!Send, Safe!NoTask
    <3>4. f[j] = u
      BY <2>1
    <3> HIDE DEF u, f
    <3>. QED BY <3>2, <3>3, <3>4
  <2>2. CASE j # 1 /\ tasks[j] = Safe!NoTask
    BY <1>0, <2>2
  <2>3. CASE j # 1 /\ tasks[j] # Safe!NoTask
    <3>1. PICK t \in Safe!Requests : t = tasks[j] /\ Safe!RequestTrue(t)
      BY <2>3, RequestIs
    <3>2. f[j] = [t EXCEPT !.mine = FALSE]
      BY <2>3, <3>1
    <3> HIDE DEF f
    <3>. QED BY <3>1, <3>2, MineSet
  <2>. QED BY <2>1, <2>2, <2>3
<1>2. f \in [1..MaxTasks -> {Safe!NoTask} \cup Safe!Requests]
  BY <1>1
<1>3. tasks' = f /\ dialog' = Safe!Closed /\ UNCHANGED <<row, stored>>
  BY DEF Safe!Remount
<1> HIDE DEF f
<1>4. Safe!DialogTrue' /\ dialog' \in Safe!Dialogs
  BY <1>3, ClosedIs DEF Safe!DialogTrue
<1>. QED BY <1>1, <1>2, <1>3, <1>4, Unwaited

LEMMA VaultopenDialogOK == ASSUME Safe!VaultAssumption, Safe!VaultInv, Safe!openDialog PROVE Safe!VaultInv'
<1>1. Safe!selected \in Secrets
  BY SelectedIs DEF Safe!selected, Safe!openDialog
<1>2. dialog' = [secret |-> Safe!selected, payload |-> Safe!NoSecret] /\ dialog = Safe!Closed /\ UNCHANGED <<row, stored, tasks>>
  BY DEF Safe!openDialog, Safe!Uncovered
<1>3. dialog' \in Safe!Dialogs /\ Safe!DialogTrue'
  BY <1>1, <1>2 DEF Safe!Dialogs, Safe!Payload, Safe!NoSecret, Safe!DialogTrue
<1>4. ASSUME NEW j \in 1..MaxTasks, NEW t \in Safe!Requests, t = tasks[j]
      PROVE  Safe!RequestTrue(t) /\ (t.todo[1] = "reveal" => ~t.mine)
  <2>1. Safe!RequestTrue(t)
    BY <1>4 DEF Safe!VaultInv, Safe!RequestsTrue
  <2>. QED BY <2>1, <1>2, ClosedIs DEF Safe!RequestTrue
<1>5. PICK f \in [1..MaxTasks -> {Safe!NoTask} \cup Safe!Requests] : f = tasks
  BY DEF Safe!VaultInv, Safe!RequestsTrue
<1>. QED BY <1>2, <1>3, <1>4, <1>5, Unwaited

LEMMA VaultInit == ASSUME Safe!VaultAssumption, Safe!Init PROVE Safe!VaultInv
<1>1. Safe!RequestsTrue
  <2>1. Safe!NoTask \notin Safe!Requests
    BY NoneIs DEF Safe!Requests, Safe!Stages
  <2>. QED BY <2>1 DEF Safe!RequestsTrue, Safe!Init
<1>2. Safe!StoreTrue
  <2>1. Safe!NoRow \in Safe!Row /\ [state |-> "enabled", current |-> 1] \in Safe!Row /\ Safe!NoRow.current = 0
    BY DEF Safe!NoRow, Safe!Row
  <2>2. ASSUME NEW s \in Secrets PROVE \E m \in Nat : stored[s] = 1..m
    <3>1. stored[s] = 1..1 \/ stored[s] = 1..0
      BY DEF Safe!Init
    <3>. QED BY <3>1
  <2>3. row \in [Secrets -> Safe!Row] /\ stored \in [Secrets -> SUBSET Nat]
    BY <2>1 DEF Safe!Init
  <2>4. \A s \in Secrets : row[s].current \in {0} \cup stored[s]
    BY <2>1 DEF Safe!Init
  <2>. QED BY <2>2, <2>3, <2>4 DEF Safe!StoreTrue
<1>. QED BY <1>1, <1>2, ClosedIs DEF Safe!VaultInv, Safe!DialogTrue, Safe!Init

LEMMA VaultStep == ASSUME Safe!VaultAssumption, Safe!VaultInv, [Safe!Next]_(Safe!vaultVars) PROVE Safe!VaultInv'
<1>1. ASSUME NEW s \in Secrets, Safe!pick(s) PROVE Safe!VaultInv'
  <2>1. PICK f : f = tasks /\ Safe!Good(f)
    BY GoodNow
  <2>2. Safe!Render(f, listed, s)
    BY <1>1, <2>1 DEF Safe!pick
  <2>3. PICK g : Safe!Good(g) /\ tasks' = g
    BY <2>1, <2>2, RenderOK
  <2>. QED BY <1>1, <2>3, GoodStays DEF Safe!pick, Safe!VaultInv, Safe!DialogTrue
<1>2. CASE Safe!Hide
  <2>1. PICK g : Safe!Good(g) /\ tasks' = g
    BY <1>2, GoodNow DEF Safe!Hide
  <2>2. dialog \in [secret : Secrets, payload : Safe!Payload]
    BY <1>2, ClosedIs DEF Safe!Hide, Safe!VaultInv, Safe!Dialogs
  <2>3. dialog' \in Safe!Dialogs /\ dialog'.secret = dialog.secret /\ dialog'.payload = Safe!NoSecret
    BY <1>2, <2>2 DEF Safe!Hide, Safe!Dialogs, Safe!Payload, Safe!NoSecret
  <2>. QED BY <1>2, <2>1, <2>3, GoodStays DEF Safe!Hide, Safe!DialogTrue
<1>3. CASE UNCHANGED Safe!vaultVars
  <2>1. PICK g : Safe!Good(g) /\ tasks' = g
    BY <1>3, GoodNow DEF Safe!vaultVars
  <2>. QED BY <1>3, <2>1, GoodStays DEF Safe!vaultVars, Safe!VaultInv, Safe!DialogTrue
<1>. QED BY <1>1, <1>2, <1>3, VaultServeOK, TakeOK, StartsOK, VaultopenDialogOK, closeDialogOK, RemountOK DEF Safe!Next

\* VersionsWhole, GivenWhileCurrent and DialogTrue of Vault, for all secrets and requests at
\* once: no number is missing, and a secret is given in a version that was current since it was
\* asked for, to the dialog that asked.
THEOREM SecretsTrue ==
  ASSUME Safe!VaultAssumption PROVE Safe!Spec => []Safe!VaultTrue
<1>1. Safe!Init => Safe!VaultInv
  BY VaultInit
<1>2. Safe!VaultInv /\ [Safe!Next]_(Safe!vaultVars) => Safe!VaultInv'
  BY VaultStep
<1>3. Safe!VaultInv => Safe!VaultTrue
  BY VaultImplies
<1>. QED BY <1>1, <1>2, <1>3, PTL DEF Safe!Spec

-------------------------------------------------------------------------------
(* CastrelSign's services.  ReadIsSo is what a transaction that began before others *)
(* committed relies on: what it read is so still, or it will not commit (AllBehind).*)
(* ViaThere says that the token or the request of every certificate is one there is.*)
Portal == INSTANCE SignServices

LEMMA ServicesInit == Portal!Init => Portal!ServicesInv
<1> SUFFICES ASSUME Portal!Init PROVE Portal!ServicesInv
  OBVIOUS
<1>1. Portal!NoService \in Portal!ServiceRow
  BY DEF Portal!NoService, Portal!ServiceRow
<1>2. form \in Portal!FormState
  BY DEF Portal!Init, Portal!FormState
<1>3. Portal!ServicesType
  BY <1>1, <1>2 DEF Portal!Init, Portal!ServicesType
<1>. QED BY <1>3 DEF Portal!Init, Portal!ServicesInv, Portal!ReadIsSo, Portal!ViaThere, Portal!ServicesTrue, Portal!OneCertificate, Portal!OnceEach

\* Something commits: every transaction in flight is behind.
LEMMA AllBehind ==
  ASSUME Portal!ServicesInv, NEW X \in SUBSET open, open' = Portal!Behind(X)
  PROVE  open' \subseteq Portal!Handlers /\ Portal!ReadIsSo'
<1>1. ASSUME NEW u \in open'
      PROVE  u \in Portal!Handlers /\ (u.kind \in {"enroll", "review"} => u.behind)
  <2>1. PICK t \in X : u = [t EXCEPT !.behind = @ \/ t.kind \in {"enroll", "review"}]
    BY DEF Portal!Behind
  <2>2. t \in Portal!Handlers
    BY DEF Portal!ServicesInv, Portal!ServicesType
  <2>. QED BY <2>1, <2>2 DEF Portal!Handlers
<1>2. Portal!ReadIsSo'
  BY <1>1 DEF Portal!ReadIsSo
<1>. QED BY <1>1, <1>2

LEMMA Commit ==
  ASSUME Portal!ServicesInv, NEW X \in SUBSET open, open' = Portal!Behind(X), Portal!Rest'
  PROVE  Portal!ServicesInv'
<1>1. open' \subseteq Portal!Handlers /\ Portal!ReadIsSo'
  BY AllBehind
<1>. QED BY <1>1 DEF Portal!Rest, Portal!ServicesInv, Portal!ServicesType, Portal!ServicesTrue

\* Only what is in flight changes, by a handler that read what is so.
LEMMA Began ==
  ASSUME Portal!ServicesInv, NEW t \in Portal!Handlers, Portal!Begin(t), t.kind \notin {"enroll", "review"} \/ (
           /\ Portal!Status(t.of) = "ACTIVE"
           /\ t.kind = "enroll" =>
                /\ t.via[1] = "token" /\ t.via[2] \in DOMAIN tokens
                /\ tokens[t.via[2]] = [of |-> t.of, state |-> "ACTIVE"]
           /\ t.kind = "review" =>
                /\ t.via[1] = "request" /\ t.via[2] \in DOMAIN csrs
                /\ csrs[t.via[2]] = [of |-> t.of, state |-> "PENDING"]),
         UNCHANGED <<service, tokens, csrs, certs, release, form>>
  PROVE  Portal!ServicesInv'
<1>1. open' = open \cup {t}
  BY DEF Portal!Begin
<1>2. Portal!ReadIsSo'
  BY <1>1 DEF Portal!ServicesInv, Portal!ReadIsSo, Portal!Status
<1>3. Portal!ServicesType'
  BY <1>1 DEF Portal!ServicesInv, Portal!ServicesType
<1>. QED BY <1>2, <1>3 DEF Portal!ServicesInv, Portal!ViaThere, Portal!ServicesTrue, Portal!OneCertificate, Portal!OnceEach, Portal!Status

\* The rows, one by one.
LEMMA ServiceIs == ASSUME Portal!ServicesInv, NEW p \in Services PROVE service[p] \in Portal!ServiceRow
  BY DEF Portal!ServicesInv, Portal!ServicesType
LEMMA CertIs ==
  ASSUME Portal!ServicesInv, NEW i \in DOMAIN certs
  PROVE  certs[i] \in Portal!CertRow /\ certs[i].of \in Services /\ certs[i].via \in {"token", "request"} \X Nat
<1>1. certs[i] \in Portal!CertRow
  BY DEF Portal!ServicesInv, Portal!ServicesType
<1>. QED BY <1>1 DEF Portal!CertRow
LEMMA ViaIs ==
  ASSUME Portal!ServicesInv, NEW i \in DOMAIN certs
  PROVE  /\ certs[i].via[1] = "token" => certs[i].via[2] \in DOMAIN tokens /\ tokens[certs[i].via[2]].state = "USED"
         /\ certs[i].via[1] # "token" => certs[i].via[2] \in DOMAIN csrs /\ csrs[certs[i].via[2]].state = "APPROVED"
<1>1. IF certs[i].via[1] = "token" THEN tokens[certs[i].via[2]] = [of |-> certs[i].of, state |-> "USED"]
      ELSE csrs[certs[i].via[2]] = [of |-> certs[i].of, state |-> "APPROVED"]
  BY DEF Portal!ServicesInv, Portal!ServicesTrue, Portal!OnceEach
<1>2. certs[i].via[2] \in IF certs[i].via[1] = "token" THEN DOMAIN tokens ELSE DOMAIN csrs
  BY DEF Portal!ServicesInv, Portal!ViaThere
<1>3. CASE certs[i].via[1] = "token"
  BY <1>1, <1>2, <1>3
<1>4. CASE certs[i].via[1] # "token"
  BY <1>1, <1>2, <1>4
<1>. QED BY <1>3, <1>4
LEMMA TokenIs ==
  ASSUME Portal!ServicesInv, NEW i \in DOMAIN tokens
  PROVE  i \in Nat /\ tokens[i] \in Portal!TokenRow /\ tokens[i].of \in Services /\ tokens[i] = [of |-> tokens[i].of, state |-> tokens[i].state]
<1>1. i \in Nat /\ tokens[i] \in Portal!TokenRow
  BY DEF Portal!ServicesInv, Portal!ServicesType
<1>. QED BY <1>1 DEF Portal!TokenRow
LEMMA CsrIs ==
  ASSUME Portal!ServicesInv, NEW i \in DOMAIN csrs
  PROVE  i \in Nat /\ csrs[i] \in Portal!CsrRow /\ csrs[i].of \in Services /\ csrs[i] = [of |-> csrs[i].of, state |-> csrs[i].state]
<1>1. i \in Nat /\ csrs[i] \in Portal!CsrRow
  BY DEF Portal!ServicesInv, Portal!ServicesType
<1>. QED BY <1>1 DEF Portal!CsrRow
LEMMA FormIs == ASSUME Portal!ServicesInv PROVE form.of \in Services /\ form.step \in {0, 1, 2} /\ form.busy \in BOOLEAN
                                   /\ form = [step |-> form.step, of |-> form.of, busy |-> form.busy]
  BY DEF Portal!ServicesInv, Portal!ServicesType, Portal!FormState

\* One status changes.
LEMMA ServiceSet ==
  ASSUME Portal!ServicesInv, NEW p \in Services, NEW code \in {"ACTIVE", "BLOCKED"}, service' = [service EXCEPT ![p].status = code]
  PROVE  service' \in [Services -> Portal!ServiceRow] /\ \A q \in Services : Portal!Status(q)' = IF q = p THEN code ELSE Portal!Status(q)
<1>1. service \in [Services -> Portal!ServiceRow] /\ service[p] \in Portal!ServiceRow
  BY ServiceIs DEF Portal!ServicesInv, Portal!ServicesType
<1>2. [service[p] EXCEPT !.status = code] \in Portal!ServiceRow /\ [service[p] EXCEPT !.status = code].status = code
  BY <1>1 DEF Portal!ServiceRow
<1>3. service' = [service EXCEPT ![p] = [service[p] EXCEPT !.status = code]]
  BY <1>1
<1>. QED BY <1>1, <1>2, <1>3 DEF Portal!Status

\* One token or request changes its state.
LEMMA TokenSet ==
  ASSUME Portal!ServicesInv, NEW i \in DOMAIN tokens, NEW to \in {"REVOKED", "USED"}, tokens' = [tokens EXCEPT ![i].state = to]
  PROVE  /\ tokens' \in Seq(Portal!TokenRow) /\ DOMAIN tokens' = DOMAIN tokens
         /\ tokens'[i] = [of |-> tokens[i].of, state |-> to]
         /\ \A k \in DOMAIN tokens : k # i => tokens'[k] = tokens[k]
<1>1. tokens \in Seq(Portal!TokenRow) /\ tokens[i] \in Portal!TokenRow
  BY TokenIs DEF Portal!ServicesInv, Portal!ServicesType
<1>2. [tokens[i] EXCEPT !.state = to] = [of |-> tokens[i].of, state |-> to] /\ [of |-> tokens[i].of, state |-> to] \in Portal!TokenRow
  BY <1>1 DEF Portal!TokenRow
<1>3. tokens' = [tokens EXCEPT ![i] = [of |-> tokens[i].of, state |-> to]]
  BY <1>1, <1>2
<1>. QED BY <1>1, <1>2, <1>3
LEMMA CsrSet ==
  ASSUME Portal!ServicesInv, NEW i \in DOMAIN csrs, NEW to \in {"APPROVED", "REJECTED"}, csrs' = [csrs EXCEPT ![i].state = to]
  PROVE  /\ csrs' \in Seq(Portal!CsrRow) /\ DOMAIN csrs' = DOMAIN csrs
         /\ csrs'[i] = [of |-> csrs[i].of, state |-> to]
         /\ \A k \in DOMAIN csrs : k # i => csrs'[k] = csrs[k]
<1>1. csrs \in Seq(Portal!CsrRow) /\ csrs[i] \in Portal!CsrRow
  BY CsrIs DEF Portal!ServicesInv, Portal!ServicesType
<1>2. [csrs[i] EXCEPT !.state = to] = [of |-> csrs[i].of, state |-> to] /\ [of |-> csrs[i].of, state |-> to] \in Portal!CsrRow
  BY <1>1 DEF Portal!CsrRow
<1>3. csrs' = [csrs EXCEPT ![i] = [of |-> csrs[i].of, state |-> to]]
  BY <1>1, <1>2
<1>. QED BY <1>1, <1>2, <1>3

LEMMA RestHolds == Portal!ServicesInv => Portal!Rest
  BY DEF Portal!ServicesInv, Portal!ServicesType, Portal!ServicesTrue, Portal!Rest

LEMMA StoppedOnes ==
  ASSUME Portal!ServicesInv, NEW p \in Services, NEW code \in {"REVOKED", "SUPERSEDED"}
  PROVE  /\ Portal!Stopped(p, code) \in Seq(Portal!CertRow)
         /\ Len(Portal!Stopped(p, code)) = Len(certs)
         /\ DOMAIN Portal!Stopped(p, code) = DOMAIN certs
         /\ \A i \in DOMAIN certs :
              /\ Portal!Stopped(p, code)[i].of = certs[i].of
              /\ Portal!Stopped(p, code)[i].via = certs[i].via
              /\ Portal!Stopped(p, code)[i].status = "ACTIVE" => certs[i].status = "ACTIVE" /\ certs[i].of # p
<1> DEFINE s == Portal!Stopped(p, code)
           C == Portal!CertRow
<1>1. certs \in Seq(C)
  BY DEF Portal!ServicesInv, Portal!ServicesType
<1>2. s = [i \in DOMAIN certs |-> IF certs[i].of = p /\ certs[i].status = "ACTIVE" THEN [certs[i] EXCEPT !.status = code] ELSE certs[i]]
  BY DEF Portal!Stopped, Portal!Replace
<1>3. ASSUME NEW i \in DOMAIN certs
      PROVE  /\ s[i] \in C /\ s[i].of = certs[i].of /\ s[i].via = certs[i].via
             /\ s[i].status = "ACTIVE" => certs[i].status = "ACTIVE" /\ certs[i].of # p
  <2>1. certs[i] \in C
    BY <1>1
  <2> HIDE DEF s
  <2>2. s[i] = IF certs[i].of = p /\ certs[i].status = "ACTIVE" THEN [certs[i] EXCEPT !.status = code] ELSE certs[i]
    BY <1>2
  <2>. QED BY <2>1, <2>2 DEF Portal!CertRow
<1> HIDE DEF s
<1>4. DOMAIN certs = 1..Len(certs) /\ Len(certs) \in Nat
  BY <1>1
<1>5. DOMAIN s = 1..Len(certs)
  BY <1>2, <1>4
<1>6. s = [i \in 1..Len(certs) |-> s[i]]
  BY <1>2, <1>4
<1>7. s \in Seq(C)
  BY <1>3, <1>4, <1>6
<1>8. Len(s) = Len(certs)
  BY <1>4, <1>5, <1>7
<1>. QED BY <1>3, <1>5, <1>4, <1>7, <1>8 DEF s

\* A certificate is issued for a service that is active, for something not used before.
LEMMA IssuedOnce ==
  ASSUME Portal!ServicesInv, Portal!SignServicesAssumption, NEW p \in Services, NEW via \in {"token", "request"} \X Nat,
         Portal!Issue(p, via), Portal!Status(p) = "ACTIVE", service' = service,
         \A i \in DOMAIN certs : certs[i].via # via,
         DOMAIN tokens' = DOMAIN tokens, DOMAIN csrs' = DOMAIN csrs,
         via[2] \in IF via[1] = "token" THEN DOMAIN tokens ELSE DOMAIN csrs,
         \A i \in DOMAIN certs :
            IF certs[i].via[1] = "token" THEN tokens'[certs[i].via[2]] = tokens[certs[i].via[2]]
            ELSE csrs'[certs[i].via[2]] = csrs[certs[i].via[2]],
         IF via[1] = "token" THEN tokens'[via[2]] = [of |-> p, state |-> "USED"]
         ELSE csrs'[via[2]] = [of |-> p, state |-> "APPROVED"]
  PROVE  /\ certs' \in Seq(Portal!CertRow)
         /\ Portal!ViaThere' /\ Portal!OneCertificate' /\ Portal!OnceEach'
<1> DEFINE s == Portal!Stopped(p, "SUPERSEDED")
           C == Portal!CertRow
           c == [of |-> p, status |-> "ACTIVE", via |-> via]
           n == Len(certs) + 1
<1>1. certs' = Append(s, c)
  BY DEF Portal!Issue, Portal!Stopped
<1>2. /\ s \in Seq(C) /\ Len(s) = Len(certs) /\ DOMAIN s = DOMAIN certs
      /\ \A i \in DOMAIN certs : /\ s[i].of = certs[i].of /\ s[i].via = certs[i].via
                                 /\ s[i].status = "ACTIVE" => certs[i].status = "ACTIVE" /\ certs[i].of # p
  BY StoppedOnes, "SUPERSEDED" \in {"REVOKED", "SUPERSEDED"}
<1>3. c \in C
  BY DEF Portal!CertRow
<1> HIDE DEF s, C, c
<1>4. certs' \in Seq(C)
  BY <1>1, <1>2, <1>3
<1>5. /\ Len(certs) \in Nat /\ DOMAIN certs = 1..Len(certs) /\ DOMAIN certs' = 1..n /\ certs'[n] = c
      /\ \A i \in DOMAIN certs : certs'[i] = s[i]
  BY <1>1, <1>2, <1>3 DEF Portal!ServicesInv, Portal!ServicesType
<1>6. ASSUME NEW i \in DOMAIN certs'
      PROVE  \/ i = n /\ certs'[i].of = p /\ certs'[i].via = via /\ certs'[i].status = "ACTIVE"
             \/ /\ i \in DOMAIN certs /\ certs'[i].of = certs[i].of /\ certs'[i].via = certs[i].via
                /\ certs'[i].status = "ACTIVE" => certs[i].status = "ACTIVE" /\ certs[i].of # p
  <2>1. CASE i = n
    BY <2>1, <1>5 DEF c
  <2>2. CASE i \in DOMAIN certs
    BY <2>2, <1>5, <1>2
  <2>. QED BY <2>1, <2>2, <1>5
<1>7. Portal!ViaThere'
  BY <1>6 DEF Portal!ViaThere, Portal!ServicesInv
<1>8. Portal!OneCertificate'
  <2>1. ASSUME NEW i \in DOMAIN certs', certs'[i].status = "ACTIVE"
        PROVE  service'[certs'[i].of].status = "ACTIVE"
    BY <2>1, <1>6 DEF Portal!ServicesInv, Portal!ServicesTrue, Portal!OneCertificate, Portal!Status
  <2>2. ASSUME NEW i \in DOMAIN certs', certs'[i].status = "ACTIVE",
               NEW j \in DOMAIN certs', certs'[j].of = certs'[i].of, certs'[j].status = "ACTIVE"
        PROVE  j = i
    BY <2>2, <1>6 DEF Portal!ServicesInv, Portal!ServicesTrue, Portal!OneCertificate
  <2>. QED BY <2>1, <2>2 DEF Portal!OneCertificate, Portal!Status
<1>9. Portal!OnceEach'
  <2>1. ASSUME NEW i \in DOMAIN certs', NEW j \in DOMAIN certs', certs'[i].via = certs'[j].via
        PROVE  i = j
    BY <2>1, <1>6 DEF Portal!ServicesInv, Portal!ServicesTrue, Portal!OnceEach
  <2>2. ASSUME NEW i \in DOMAIN certs'
        PROVE  IF certs'[i].via[1] = "token" THEN tokens'[certs'[i].via[2]] = [of |-> certs'[i].of, state |-> "USED"]
               ELSE csrs'[certs'[i].via[2]] = [of |-> certs'[i].of, state |-> "APPROVED"]
    <3>1. CASE i = n /\ certs'[i].of = p /\ certs'[i].via = via
      BY <3>1
    <3>2. CASE i \in DOMAIN certs /\ certs'[i].of = certs[i].of /\ certs'[i].via = certs[i].via
      BY <3>2 DEF Portal!ServicesInv, Portal!ServicesTrue, Portal!OnceEach
    <3>. QED BY <3>1, <3>2, <1>6
  <2>. QED BY <2>1, <2>2 DEF Portal!OnceEach
<1>. QED BY <1>4, <1>7, <1>8, <1>9 DEF C

LEMMA ServicesStep == Portal!SignServicesAssumption /\ Portal!ServicesInv /\ [Portal!Next]_(Portal!signServicesVars) => Portal!ServicesInv'
<1> SUFFICES ASSUME Portal!SignServicesAssumption, Portal!ServicesInv, [Portal!Next]_(Portal!signServicesVars) PROVE Portal!ServicesInv'
  OBVIOUS
<1>0. Portal!Rest /\ open \subseteq Portal!Handlers
  BY RestHolds DEF Portal!ServicesInv, Portal!ServicesType
<1>1. ASSUME NEW p \in Services, Portal!createApplication(p) \/ Portal!reactivate(p) PROVE Portal!ServicesInv'
  <2>0. PICK now \in {"ACTIVE", "BLOCKED"} :
          /\ service' = [service EXCEPT ![p].status = now]
          /\ Portal!Status(p) = "ACTIVE" => now = "ACTIVE"
    <3>1. Portal!Status(p) \in {"none", "ACTIVE", "BLOCKED"} /\ service[p].status = Portal!Status(p)
      BY ServiceIs DEF Portal!Status, Portal!ServiceRow
    <3>. QED BY <1>1, <3>1 DEF Portal!createApplication, Portal!reactivate
  <2>1. service' \in [Services -> Portal!ServiceRow] /\ \A q \in Services : Portal!Status(q)' = IF q = p THEN now ELSE Portal!Status(q)
    <3>1. service' = [service EXCEPT ![p].status = now]
      BY <2>0
    <3>. QED BY <3>1, ServiceSet
  <2>3. Portal!OneCertificate'
    BY <1>1, <1>0, <2>0, <2>1, CertIs DEF Portal!createApplication, Portal!reactivate, Portal!OneCertificate, Portal!Rest
  <2>4. Portal!Rest'
    BY <1>1, <1>0, <2>1, <2>3 DEF Portal!createApplication, Portal!reactivate, Portal!OnceEach, Portal!ViaThere, Portal!Rest
  <2>. QED BY <1>1, <2>4, Commit DEF Portal!createApplication, Portal!reactivate
<1>2. ASSUME NEW p \in Services, Portal!block(p) PROVE Portal!ServicesInv'
  <2>1. service' \in [Services -> Portal!ServiceRow] /\ \A q \in Services : Portal!Status(q)' = IF q = p THEN "BLOCKED" ELSE Portal!Status(q)
    BY <1>2, ServiceSet, "BLOCKED" \in {"ACTIVE", "BLOCKED"} DEF Portal!block
  <2>3. certs' = Portal!Stopped(p, "REVOKED")
    BY <1>2 DEF Portal!block, Portal!Stopped
  <2>4. /\ certs' \in Seq(Portal!CertRow)
        /\ Len(certs') = Len(certs) /\ DOMAIN certs' = DOMAIN certs
        /\ \A i \in DOMAIN certs : /\ certs'[i].of = certs[i].of /\ certs'[i].via = certs[i].via
                                   /\ certs'[i].status = "ACTIVE" => certs[i].status = "ACTIVE" /\ certs[i].of # p
    BY <2>3, StoppedOnes, "REVOKED" \in {"REVOKED", "SUPERSEDED"}
  <2>5. /\ tokens' \in Seq(Portal!TokenRow)
        /\ DOMAIN tokens' = DOMAIN tokens
        /\ \A i \in DOMAIN tokens : tokens[i].state # "ACTIVE" => tokens'[i] = tokens[i]
    <3> DEFINE T == Portal!TokenRow
    <3>1. tokens' = [i \in DOMAIN tokens |-> IF tokens[i].of = p /\ tokens[i].state = "ACTIVE" THEN [tokens[i] EXCEPT !.state = "REVOKED"] ELSE tokens[i]]
      BY <1>2 DEF Portal!block, Portal!Replace
    <3>2. tokens \in Seq(T) /\ DOMAIN tokens = 1..Len(tokens) /\ Len(tokens) \in Nat
      BY <1>0 DEF Portal!Rest
    <3>3. \A i \in DOMAIN tokens : tokens[i] \in T
      BY <3>2
    <3>4. \A i \in DOMAIN tokens : tokens'[i] \in T /\ (tokens[i].state # "ACTIVE" => tokens'[i] = tokens[i])
      BY <3>1, <3>3 DEF Portal!TokenRow
    <3>5. tokens' = [i \in 1..Len(tokens) |-> tokens'[i]]
      BY <3>1, <3>2
    <3>6. tokens' \in Seq(T)
      BY <3>2, <3>4, <3>5
    <3>. QED BY <3>1, <3>4, <3>6
  <2>7. Portal!OneCertificate'
    BY <1>0, <2>1, <2>4, CertIs DEF Portal!OneCertificate, Portal!Rest
  <2>8. Portal!ViaThere'
    BY <1>0, <1>2, <2>4, <2>5 DEF Portal!ViaThere, Portal!Rest, Portal!block
  <2>9. Portal!OnceEach'
    <3>1. \A i, j \in DOMAIN certs' : certs'[i].via = certs'[j].via => i = j
      BY <1>0, <2>4 DEF Portal!OnceEach, Portal!Rest
    <3>2. ASSUME NEW i \in DOMAIN certs'
          PROVE  IF certs'[i].via[1] = "token" THEN tokens'[certs'[i].via[2]] = [of |-> certs'[i].of, state |-> "USED"]
                 ELSE csrs'[certs'[i].via[2]] = [of |-> certs'[i].of, state |-> "APPROVED"]
      <4>1. i \in DOMAIN certs /\ certs'[i].of = certs[i].of /\ certs'[i].via = certs[i].via
        BY <2>4
      <4>2. CASE certs[i].via[1] = "token"
        <5>1. certs[i].via[2] \in DOMAIN tokens /\ tokens[certs[i].via[2]] = [of |-> certs[i].of, state |-> "USED"]
          BY <4>1, <4>2, <1>0 DEF Portal!Rest, Portal!ViaThere, Portal!OnceEach
        <5>2. tokens'[certs[i].via[2]] = tokens[certs[i].via[2]]
          BY <5>1, <2>5
        <5>. QED BY <4>1, <4>2, <5>1, <5>2
      <4>3. CASE certs[i].via[1] # "token"
        BY <4>1, <4>3, <1>0, <1>2 DEF Portal!Rest, Portal!OnceEach, Portal!block
      <4>. QED BY <4>2, <4>3
    <3>. QED BY <3>1, <3>2 DEF Portal!OnceEach
  <2>10. Portal!Rest'
    BY <1>0, <1>2, <2>1, <2>4, <2>5, <2>7, <2>8, <2>9 DEF Portal!Rest, Portal!block
  <2>. QED BY <1>2, <2>10, Commit DEF Portal!block
<1>3. ASSUME NEW p \in Services, Portal!createToken(p) PROVE Portal!ServicesInv'
  <2>1. /\ tokens' \in Seq(Portal!TokenRow)
        /\ DOMAIN tokens \subseteq DOMAIN tokens'
        /\ \A i \in DOMAIN tokens : tokens'[i] = tokens[i]
    <3>1. [of |-> p, state |-> "ACTIVE"] \in Portal!TokenRow
      BY DEF Portal!TokenRow
    <3>. QED BY <1>3, <1>0, <3>1 DEF Portal!createToken, Portal!Rest
  <2>2. Portal!ViaThere' /\ Portal!OneCertificate'
    BY <1>3, <1>0, <2>1 DEF Portal!createToken, Portal!Rest, Portal!ViaThere, Portal!OneCertificate, Portal!Status
  <2>4. Portal!OnceEach'
    BY <1>3, <1>0, <2>1, CertIs DEF Portal!createToken, Portal!Rest, Portal!ViaThere, Portal!OnceEach
  <2>3. Portal!Rest'
    BY <1>3, <1>0, <2>1, <2>2, <2>4 DEF Portal!createToken, Portal!Rest
  <2>. QED BY <1>3, <2>3, Commit DEF Portal!createToken
<1>4. ASSUME NEW i \in DOMAIN tokens, Portal!endToken(i) PROVE Portal!ServicesInv'
  <2>1. /\ tokens' \in Seq(Portal!TokenRow)
        /\ DOMAIN tokens = DOMAIN tokens'
        /\ \A k \in DOMAIN tokens : k # i => tokens'[k] = tokens[k]
        /\ tokens[i].state = "ACTIVE"
    BY <1>4, TokenSet DEF Portal!endToken
  <2>2. ASSUME NEW k \in DOMAIN certs, certs[k].via[1] = "token" PROVE certs[k].via[2] # i
    <3>1. tokens[certs[k].via[2]].state = "USED"
      BY <2>2, ViaIs
    <3>. QED BY <3>1, <2>1
  <2>3. Portal!ViaThere' /\ Portal!OneCertificate' /\ Portal!OnceEach'
    BY <1>4, <1>0, <2>1, <2>2 DEF Portal!endToken, Portal!Rest, Portal!ViaThere, Portal!OneCertificate, Portal!OnceEach, Portal!Status
  <2>4. Portal!Rest'
    BY <1>4, <1>0, <2>1, <2>3 DEF Portal!endToken, Portal!Rest
  <2>. QED BY <1>4, <2>4, Commit DEF Portal!endToken
<1>5. ASSUME NEW i \in DOMAIN tokens, Portal!enroll(i) PROVE Portal!ServicesInv'
  <2> DEFINE t == Portal!Opened("enroll", tokens[i].of, <<"token", i>>, Portal!NoRead)
  <2>1. tokens[i] \in Portal!TokenRow /\ i \in Nat
    BY TokenIs
  <2>2. t \in Portal!Handlers /\ t.kind = "enroll" /\ t.via = <<"token", i>> /\ t.of = tokens[i].of
    BY <2>1, TokenIs DEF Portal!Opened, Portal!Handlers
  <2>3. tokens[i] = [of |-> t.of, state |-> "ACTIVE"] /\ Portal!Status(t.of) = "ACTIVE" /\ Portal!Begin(t)
    BY <1>5, <2>1, <2>2, TokenIs DEF Portal!enroll
  <2>4. t.via[1] = "token" /\ t.via[2] = i
    BY <2>2
  <2> HIDE DEF t
  <2>. QED BY <1>5, <2>2, <2>3, <2>4, Began DEF Portal!enroll
<1>6. ASSUME NEW i \in DOMAIN csrs, Portal!review(i) PROVE Portal!ServicesInv'
  <2> DEFINE t == Portal!Opened("review", csrs[i].of, <<"request", i>>, Portal!NoRead)
  <2>1. csrs[i] \in Portal!CsrRow /\ i \in Nat
    BY CsrIs
  <2>2. t \in Portal!Handlers /\ t.kind = "review" /\ t.via = <<"request", i>> /\ t.of = csrs[i].of
    BY <2>1, CsrIs DEF Portal!Opened, Portal!Handlers
  <2>3. csrs[i] = [of |-> t.of, state |-> "PENDING"] /\ Portal!Status(t.of) = "ACTIVE" /\ Portal!Begin(t)
    BY <1>6, <2>1, <2>2, CsrIs DEF Portal!review
  <2>4. t.via[1] = "request" /\ t.via[2] = i
    BY <2>2
  <2> HIDE DEF t
  <2>. QED BY <1>6, <2>2, <2>3, <2>4, Began DEF Portal!review
<1>7. ASSUME NEW i \in DOMAIN csrs, Portal!reject(i) PROVE Portal!ServicesInv'
  <2>1. /\ csrs' \in Seq(Portal!CsrRow)
        /\ DOMAIN csrs = DOMAIN csrs'
        /\ \A k \in DOMAIN csrs : k # i => csrs'[k] = csrs[k]
        /\ csrs[i].state = "PENDING"
    BY <1>7, CsrSet DEF Portal!reject
  <2>2. ASSUME NEW k \in DOMAIN certs, certs[k].via[1] # "token" PROVE certs[k].via[2] # i
    <3>1. csrs[certs[k].via[2]].state = "APPROVED"
      BY <2>2, ViaIs
    <3>. QED BY <3>1, <2>1
  <2>3. Portal!ViaThere' /\ Portal!OneCertificate' /\ Portal!OnceEach'
    BY <1>7, <1>0, <2>1, <2>2 DEF Portal!reject, Portal!Rest, Portal!ViaThere, Portal!OneCertificate, Portal!OnceEach, Portal!Status
  <2>4. Portal!Rest'
    BY <1>7, <1>0, <2>1, <2>3 DEF Portal!reject, Portal!Rest
  <2>. QED BY <1>7, <2>4, Commit DEF Portal!reject
<1>8. ASSUME NEW p \in Services, NEW q \in Permissions, Portal!grantPermission(p, q) PROVE Portal!ServicesInv'
  <2> DEFINE t == Portal!Opened("grant", p, q, service[p].permissions)
  <2>1. service[p].permissions \in SUBSET Permissions
    BY ServiceIs DEF Portal!ServiceRow
  <2>2. t \in Portal!Handlers /\ t.kind = "grant"
    BY <2>1 DEF Portal!Opened, Portal!Handlers
  <2> HIDE DEF t
  <2>. QED BY <1>8, <2>2, Began DEF Portal!grantPermission, t
<1>9. ASSUME NEW u \in Releases, Portal!activate(u) PROVE Portal!ServicesInv'
  <2> DEFINE t == Portal!Opened("activate", u, "none", Portal!NoRead)
  <2>2. t \in Portal!Handlers /\ t.kind = "activate"
    BY DEF Portal!Opened, Portal!Handlers
  <2> HIDE DEF t
  <2>. QED BY <1>9, <2>2, Began DEF Portal!activate, t
<1>10. ASSUME NEW t \in open, Portal!writePermissions(t) PROVE Portal!ServicesInv'
  <2>1. t \in Portal!Handlers /\ t.kind = "grant"
    BY <1>10, <1>0 DEF Portal!writePermissions
  <2>2. t.of \in Services /\ t.read \cup {t.via} \in SUBSET Permissions
    BY <2>1 DEF Portal!Handlers
  <2>3. /\ service' \in [Services -> Portal!ServiceRow]
        /\ \A q \in Services : Portal!Status(q)' = Portal!Status(q)
    <3>1. service \in [Services -> Portal!ServiceRow] /\ service[t.of] \in Portal!ServiceRow
      BY <1>0, <2>2 DEF Portal!Rest
    <3>2. PICK set \in SUBSET Permissions : service' = [service EXCEPT ![t.of].permissions = set]
      BY <1>10, <2>2 DEF Portal!writePermissions
    <3>3. [service[t.of] EXCEPT !.permissions = set] \in Portal!ServiceRow /\ [service[t.of] EXCEPT !.permissions = set].status = service[t.of].status
      BY <3>1 DEF Portal!ServiceRow
    <3>4. service' = [service EXCEPT ![t.of] = [service[t.of] EXCEPT !.permissions = set]]
      BY <3>1, <3>2
    <3>. QED BY <2>2, <3>1, <3>3, <3>4 DEF Portal!Status
  <2>5. Portal!OneCertificate'
    BY <1>10, <1>0, <2>3, CertIs DEF Portal!writePermissions, Portal!OneCertificate, Portal!Rest
  <2>6. Portal!Rest'
    BY <1>10, <1>0, <2>3, <2>5 DEF Portal!writePermissions, Portal!Rest, Portal!OnceEach, Portal!ViaThere
  <2>. QED BY <1>10, <2>6, Commit DEF Portal!writePermissions
<1>11. ASSUME NEW t \in open, Portal!Enrolled(t) PROVE Portal!ServicesInv'
  <2>1. t \in Portal!Handlers /\ t.kind = "enroll" /\ ~t.behind
    BY <1>11, <1>0 DEF Portal!Enrolled
  <2>2. t.of \in Services /\ t.via \in {"token", "request"} \X Nat /\ Portal!Status(t.of) = "ACTIVE" /\ t.via[1] = "token"
        /\ t.via[2] \in DOMAIN tokens /\ tokens[t.via[2]] = [of |-> t.of, state |-> "ACTIVE"]
    BY <2>1 DEF Portal!Handlers, Portal!ServicesInv, Portal!ReadIsSo
  <2>3. /\ tokens' \in Seq(Portal!TokenRow)
        /\ DOMAIN tokens' = DOMAIN tokens
        /\ tokens'[t.via[2]] = [of |-> t.of, state |-> "USED"]
        /\ \A k \in DOMAIN tokens : k # t.via[2] => tokens'[k] = tokens[k]
    <3>1. PICK i \in DOMAIN tokens : i = t.via[2] /\ tokens[i].of = t.of
      BY <2>2
    <3>2. tokens' = [tokens EXCEPT ![i].state = "USED"]
      BY <1>11, <3>1 DEF Portal!Enrolled
    <3>3. /\ tokens' \in Seq(Portal!TokenRow) /\ DOMAIN tokens' = DOMAIN tokens
          /\ tokens'[i] = [of |-> tokens[i].of, state |-> "USED"]
          /\ \A k \in DOMAIN tokens : k # i => tokens'[k] = tokens[k]
      BY <3>2, TokenSet, "USED" \in {"REVOKED", "USED"}
    <3>. QED BY <3>1, <3>3
  <2>4. ASSUME NEW i \in DOMAIN certs PROVE certs[i].via # t.via /\ (certs[i].via[1] = "token" => certs[i].via[2] # t.via[2])
    <3>1. certs[i].via[1] = "token" => tokens[certs[i].via[2]].state = "USED"
      BY ViaIs
    <3>. QED BY <2>2, <3>1
  <2>5. \A i \in DOMAIN certs :
          IF certs[i].via[1] = "token" THEN tokens'[certs[i].via[2]] = tokens[certs[i].via[2]]
          ELSE csrs'[certs[i].via[2]] = csrs[certs[i].via[2]]
    BY <1>11, <2>3, <2>4, ViaIs DEF Portal!Enrolled
  <2>8. /\ service' = service /\ csrs' = csrs /\ Portal!Issue(t.of, t.via)
        /\ DOMAIN tokens' = DOMAIN tokens /\ DOMAIN csrs' = DOMAIN csrs
        /\ t.via[2] \in IF t.via[1] = "token" THEN DOMAIN tokens ELSE DOMAIN csrs
        /\ IF t.via[1] = "token" THEN tokens'[t.via[2]] = [of |-> t.of, state |-> "USED"]
           ELSE csrs'[t.via[2]] = [of |-> t.of, state |-> "APPROVED"]
    BY <1>11, <2>2, <2>3 DEF Portal!Enrolled
  <2>6. /\ certs' \in Seq(Portal!CertRow)
        /\ Portal!ViaThere' /\ Portal!OneCertificate' /\ Portal!OnceEach'
    BY <2>2, <2>4, <2>5, <2>8, IssuedOnce
  <2>7. Portal!Rest'
    BY <1>11, <1>0, <2>3, <2>6 DEF Portal!Enrolled, Portal!Rest
  <2>. QED BY <1>11, <2>7, Commit DEF Portal!Enrolled
<1>12. ASSUME NEW t \in open, Portal!Approved(t) PROVE Portal!ServicesInv'
  <2>1. t \in Portal!Handlers /\ t.kind = "review" /\ ~t.behind
    BY <1>12, <1>0 DEF Portal!Approved
  <2>2. t.of \in Services /\ t.via \in {"token", "request"} \X Nat /\ Portal!Status(t.of) = "ACTIVE" /\ t.via[1] = "request"
        /\ t.via[2] \in DOMAIN csrs /\ csrs[t.via[2]] = [of |-> t.of, state |-> "PENDING"]
    BY <2>1 DEF Portal!Handlers, Portal!ServicesInv, Portal!ReadIsSo
  <2>3. /\ csrs' \in Seq(Portal!CsrRow)
        /\ DOMAIN csrs' = DOMAIN csrs
        /\ csrs'[t.via[2]] = [of |-> t.of, state |-> "APPROVED"]
        /\ \A k \in DOMAIN csrs : k # t.via[2] => csrs'[k] = csrs[k]
    <3>1. PICK i \in DOMAIN csrs : i = t.via[2] /\ csrs[i].of = t.of
      BY <2>2
    <3>2. csrs' = [csrs EXCEPT ![i].state = "APPROVED"]
      BY <1>12, <3>1 DEF Portal!Approved
    <3>3. /\ csrs' \in Seq(Portal!CsrRow) /\ DOMAIN csrs' = DOMAIN csrs
          /\ csrs'[i] = [of |-> csrs[i].of, state |-> "APPROVED"]
          /\ \A k \in DOMAIN csrs : k # i => csrs'[k] = csrs[k]
      BY <3>2, CsrSet, "APPROVED" \in {"APPROVED", "REJECTED"}
    <3>. QED BY <3>1, <3>3
  <2>4. ASSUME NEW i \in DOMAIN certs PROVE certs[i].via # t.via /\ (certs[i].via[1] # "token" => certs[i].via[2] # t.via[2])
    <3>1. certs[i].via[1] # "token" => csrs[certs[i].via[2]].state = "APPROVED"
      BY ViaIs
    <3>. QED BY <2>2, <3>1
  <2>5. \A i \in DOMAIN certs :
          IF certs[i].via[1] = "token" THEN tokens'[certs[i].via[2]] = tokens[certs[i].via[2]]
          ELSE csrs'[certs[i].via[2]] = csrs[certs[i].via[2]]
    BY <1>12, <2>3, <2>4, ViaIs DEF Portal!Approved
  <2>8. /\ service' = service /\ tokens' = tokens /\ Portal!Issue(t.of, t.via)
        /\ DOMAIN tokens' = DOMAIN tokens /\ DOMAIN csrs' = DOMAIN csrs
        /\ t.via[2] \in IF t.via[1] = "token" THEN DOMAIN tokens ELSE DOMAIN csrs
        /\ IF t.via[1] = "token" THEN tokens'[t.via[2]] = [of |-> t.of, state |-> "USED"]
           ELSE csrs'[t.via[2]] = [of |-> t.of, state |-> "APPROVED"]
    BY <1>12, <2>2, <2>3 DEF Portal!Approved
  <2>6. /\ certs' \in Seq(Portal!CertRow)
        /\ Portal!ViaThere' /\ Portal!OneCertificate' /\ Portal!OnceEach'
    BY <2>2, <2>4, <2>5, <2>8, IssuedOnce
  <2>7. Portal!Rest'
    BY <1>12, <1>0, <2>3, <2>6 DEF Portal!Approved, Portal!Rest
  <2>. QED BY <1>12, <2>7, Commit DEF Portal!Approved
<1>13. ASSUME NEW t \in open, Portal!writeActive(t) PROVE Portal!ServicesInv'
  <2>1. Portal!Rest'
    BY <1>13, <1>0 DEF Portal!writeActive, Portal!Rest, Portal!OnceEach, Portal!ViaThere, Portal!OneCertificate, Portal!Status
  <2>. QED BY <1>13, <2>1, Commit DEF Portal!writeActive
<1>14. ASSUME NEW u \in Releases, Portal!revoke(u) PROVE Portal!ServicesInv'
  <2>1. Portal!Rest'
    BY <1>14, <1>0 DEF Portal!revoke, Portal!Rest, Portal!OnceEach, Portal!ViaThere, Portal!OneCertificate, Portal!Status
  <2>. QED BY <1>14, <2>1, Commit DEF Portal!revoke
<1>15. ASSUME NEW t \in open, Portal!rollback(t) PROVE Portal!ServicesInv'
  BY <1>15 DEF Portal!rollback, Portal!ServicesInv, Portal!ServicesType, Portal!ReadIsSo, Portal!ViaThere, Portal!ServicesTrue, Portal!OneCertificate, Portal!OnceEach, Portal!Status
<1>16. ASSUME UNCHANGED <<service, tokens, csrs, certs, open>>, form' \in Portal!FormState PROVE Portal!ServicesInv'
  BY <1>16 DEF Portal!ServicesInv, Portal!ServicesType, Portal!ReadIsSo, Portal!ViaThere, Portal!ServicesTrue, Portal!OneCertificate, Portal!OnceEach, Portal!Status
<1>17. ASSUME NEW p \in Services, Portal!choose(p) PROVE Portal!ServicesInv'
  <2>1. form' \in Portal!FormState
    BY <1>17 DEF Portal!choose, Portal!FormState
  <2>. QED BY <1>17, <1>16, <2>1 DEF Portal!choose
<1>18. CASE Portal!back \/ Portal!send \/ Portal!Leave
  <2>1. form' \in Portal!FormState
    <3>1. CASE Portal!back
      BY <3>1, FormIs DEF Portal!back, Portal!FormState
    <3>2. CASE Portal!send
      BY <3>2, FormIs DEF Portal!send, Portal!FormState
    <3>3. CASE Portal!Leave
      BY <3>3, FormIs DEF Portal!Leave, Portal!FormState
    <3>. QED BY <1>18, <3>1, <3>2, <3>3
  <2>. QED BY <1>18, <1>16, <2>1 DEF Portal!back, Portal!send, Portal!Leave
<1>19. CASE Portal!submit
  <2>0. form' \in Portal!FormState
    BY <1>19, FormIs DEF Portal!submit, Portal!FormState
  <2>1. CASE UNCHANGED <<csrs, open>>
    BY <1>19, <2>0, <2>1, <1>16 DEF Portal!submit
  <2>2. CASE csrs' = Append(csrs, [of |-> form.of, state |-> "PENDING"]) /\ open' = Portal!Behind(open)
    <3>1. /\ csrs' \in Seq(Portal!CsrRow)
          /\ DOMAIN csrs \subseteq DOMAIN csrs'
          /\ \A i \in DOMAIN csrs : csrs'[i] = csrs[i]
      <4>1. [of |-> form.of, state |-> "PENDING"] \in Portal!CsrRow
        BY FormIs DEF Portal!CsrRow
      <4>. QED BY <2>2, <4>1, <1>0 DEF Portal!Rest
    <3>2. Portal!ViaThere' /\ Portal!OneCertificate' /\ Portal!OnceEach'
      BY <1>19, <1>0, <3>1, CertIs DEF Portal!submit, Portal!Rest, Portal!ViaThere, Portal!OneCertificate, Portal!OnceEach, Portal!Status
    <3>3. Portal!Rest'
      BY <1>19, <1>0, <2>0, <3>1, <3>2 DEF Portal!submit, Portal!Rest
    <3>. QED BY <2>2, <3>3, Commit
  <2>. QED BY <1>19, <2>1, <2>2 DEF Portal!submit
<1>20. CASE UNCHANGED Portal!signServicesVars
  BY <1>20, <1>16, <1>0 DEF Portal!signServicesVars, Portal!Rest
<1>. QED BY <1>1, <1>2, <1>3, <1>4, <1>5, <1>6, <1>7, <1>8, <1>9, <1>10, <1>11, <1>12, <1>13, <1>14, <1>15, <1>17, <1>18, <1>19, <1>20 DEF Portal!Next

\* OneCertificate and OnceEach of SignServices, for all services, tokens and requests: one
\* certificate that works, none of a blocked service, and a token or an approval makes one.
THEOREM CertificatesTrue ==
  ASSUME Portal!SignServicesAssumption PROVE Portal!Spec => []Portal!ServicesTrue
<1>1. Portal!Init => Portal!ServicesInv
  BY ServicesInit
<1>2. Portal!ServicesInv /\ [Portal!Next]_(Portal!signServicesVars) => Portal!ServicesInv'
  BY ServicesStep
<1>3. Portal!ServicesInv => Portal!ServicesTrue
  BY DEF Portal!ServicesInv
<1>. QED BY <1>1, <1>2, <1>3, PTL DEF Portal!Spec

-------------------------------------------------------------------------------
(* CastrelSign's console.  Side and Paging say what the requests under way were     *)
(* asked for: the page, the user and the row after which a page of the audit begins.*)
Desk == INSTANCE SignConsole

LEMMA DeskHas == Desk!DeskInv => Desk!Side /\ Desk!Paging
  BY DEF Desk!DeskInv, Desk!DeskType, Desk!AskedFor, Desk!DeskTrue, Desk!AuditJoins, Desk!Side, Desk!Paging

LEMMA FirstPage == history' = <<0>> => Desk!Paging'
  BY DEF Desk!Paging
LEMMA SamePage == Desk!DeskInv /\ history' = history => Desk!Paging'
  BY DeskHas DEF Desk!Paging

LEMMA DialogIs == Desk!NoDialog \in Desk!Dialogs /\ Desk!NoDialog.id = 0 /\ Desk!NoDialog.busy = FALSE
  BY DEF Desk!NoDialog, Desk!Dialogs

\* A page that loads anew shows nothing yet and asks for the user who is logged in.
LEMMA Reloads ==
  ASSUME Desk!Reload(session'), session' \in Desk!Who, Desk!Side', Desk!Paging'
  PROVE  Desk!DeskInv'
<1>1. load' = [state |-> "loading", stamp |-> 0, user |-> Desk!Nobody, rows |-> <<>>]
  BY DEF Desk!Reload, Desk!Loading
<1>2. load' \in Desk!Loaded /\ load'.state # "data"
  BY <1>1 DEF Desk!Loaded, Desk!Who
<1>3. ask' \in Desk!Asked /\ ask'.stage # "read" /\ (ask'.stage = "sent" => ask'.user = session')
  BY DEF Desk!Reload, Desk!NoAsk, Desk!Asked, Desk!Who
<1>. QED BY <1>2, <1>3 DEF Desk!DeskInv, Desk!DeskType, Desk!AskedFor, Desk!DeskTrue, Desk!OwnChangesShown, Desk!AuditJoins, Desk!Side, Desk!Paging

\* What does not touch the page leaves it true.
LEMMA Aside ==
  ASSUME Desk!DeskInv, Desk!Side', UNCHANGED <<session, page, history, load, ask, done>>
  PROVE  Desk!DeskInv'
  BY DEF Desk!DeskInv, Desk!DeskType, Desk!AskedFor, Desk!DeskTrue, Desk!OwnChangesShown, Desk!AuditJoins, Desk!Side, Desk!after

LEMMA DeskLeaveOK ==
  ASSUME Desk!DeskInv, Desk!Leave, UNCHANGED <<stamp, cookie, logins, opened, done>>, runs' \subseteq runs
  PROVE  Desk!DeskInv'
<1>1. Desk!Nobody \in Desk!Who
  BY DEF Desk!Who
<1>2. Desk!Side'
  BY DeskHas, DialogIs DEF Desk!Leave, Desk!Side, Desk!BusyIsWaiting
<1>3. Desk!Paging'
  BY FirstPage DEF Desk!Leave
<1>. QED BY <1>1, <1>2, <1>3, Reloads DEF Desk!Leave

\* A request in flight is replaced by itself, answered.
LEMMA DeskServeOK ==
  ASSUME Desk!SignConsoleAssumption, Desk!DeskInv, NEW r \in runs, Desk!Serve(r)
  PROVE  Desk!DeskInv'
<1>1. r \in Desk!Sent /\ cookie \in Desk!Who /\ Desk!Nobody \in Desk!Who /\ stamp \in Nat /\ runs \subseteq Desk!Sent
  BY DEF Desk!DeskInv, Desk!DeskType, Desk!Who
<1>2. stamp' \in Nat /\ stamp <= stamp' /\ cookie' \in Desk!Who
  BY <1>1 DEF Desk!Serve, Desk!SignConsoleAssumption
<1>3. PICK s \in Desk!Sent : /\ runs' = (runs \ {r}) \cup {s} /\ s.id = r.id /\ s.kind = r.kind
                             /\ s.stage = "ok" => s.stamp <= stamp'
  <2>1. CASE runs' = (runs \ {r}) \cup {[r EXCEPT !.stage = "ok", !.stamp = stamp']}
    <3> DEFINE s == [r EXCEPT !.stage = "ok", !.stamp = stamp']
    <3>1. s \in Desk!Sent /\ s.id = r.id /\ s.kind = r.kind /\ s.stamp = stamp'
      BY <1>1, <1>2 DEF Desk!Sent
    <3> HIDE DEF s
    <3>2. s.stamp <= stamp'
      BY <1>2, <3>1
    <3>. QED BY <2>1, <3>1, <3>2 DEF s
  <2>2. ASSUME NEW stage \in {"failed", "401"}, runs' = (runs \ {r}) \cup {[r EXCEPT !.stage = stage]}
        PROVE  \E s \in Desk!Sent : /\ runs' = (runs \ {r}) \cup {s} /\ s.id = r.id /\ s.kind = r.kind
                                    /\ s.stage = "ok" => s.stamp <= stamp'
    <3> DEFINE s == [r EXCEPT !.stage = stage]
    <3>1. s \in Desk!Sent /\ s.id = r.id /\ s.kind = r.kind /\ s.stage # "ok"
      BY <1>1 DEF Desk!Sent
    <3>. QED BY <2>2, <3>1
  <2>. QED BY <2>1, <2>2 DEF Desk!Serve
<1>4. Desk!BusyIsWaiting'
  <2>1. ASSUME dialog.busy PROVE \E q \in runs' : q.kind = "change" /\ q.id = dialog.id
    <3>1. PICK q \in runs : q.kind = "change" /\ q.id = dialog.id
      BY <2>1 DEF Desk!DeskInv, Desk!DeskTrue, Desk!BusyIsWaiting
    <3>2. CASE q = r
      BY <1>3, <3>1, <3>2
    <3>3. CASE q # r
      BY <1>3, <3>1, <3>3
    <3>. QED BY <3>2, <3>3
  <2>. QED BY <2>1 DEF Desk!BusyIsWaiting, Desk!Serve
<1>5. Desk!Side'
  <2>1. \A q \in runs' : q \in Desk!Sent /\ (q.stage = "ok" => q.stamp <= stamp')
    <3> SUFFICES ASSUME NEW q \in runs' PROVE q \in Desk!Sent /\ (q.stage = "ok" => q.stamp <= stamp')
      OBVIOUS
    <3>1. CASE q = s
      BY <1>3, <3>1
    <3>2. CASE q \in runs
      <4>1. q \in Desk!Sent /\ q.stamp \in Nat
        BY <1>1, <3>2 DEF Desk!Sent
      <4>. QED BY <1>1, <1>2, <3>2, <4>1 DEF Desk!DeskInv, Desk!AskedFor
    <3>. QED BY <1>3, <3>1, <3>2
  <2>. QED BY <1>1, <1>2, <1>4, <2>1, DeskHas DEF Desk!Side, Desk!Serve
<1>. QED BY <1>5, Aside DEF Desk!Serve

\* The rows of an audit page.
LEMMA RowsAre ==
  ASSUME Desk!SignConsoleAssumption, NEW a \in Nat, NEW last \in Nat
  PROVE  Desk!Rows(a, last) \in Seq(Nat) /\ \A i \in DOMAIN Desk!Rows(a, last) : Desk!Rows(a, last)[i] = a + i
<1> DEFINE m == Desk!Min({PageSize, last - a})
<1>1. PageSize \in Int /\ last - a \in Int
  BY DEF Desk!SignConsoleAssumption
<1>2. \E x \in {PageSize, last - a} : \A y \in {PageSize, last - a} : x <= y
  BY <1>1
<1>3. m \in {PageSize, last - a}
  BY <1>2 DEF Desk!Min
<1>4. m \in Int
  BY <1>1, <1>3
<1> HIDE DEF m
<1>5. Desk!Rows(a, last) = [i \in 1..m |-> a + i]
  BY DEF Desk!Rows, m
<1>6. PICK n \in Nat : 1..m = 1..n
  <2>1. CASE m \in Nat
    BY <2>1
  <2>2. CASE m \notin Nat
    <3>1. 1..m = 1..0
      BY <1>4, <2>2
    <3>. QED BY <3>1
  <2>. QED BY <2>1, <2>2
<1>7. Desk!Rows(a, last) = [i \in 1..n |-> a + i]
  BY <1>5, <1>6
<1>. QED BY <1>7

LEMMA AnswerOK == ASSUME Desk!SignConsoleAssumption, Desk!DeskInv, Desk!Answer PROVE Desk!DeskInv'
<1>1. CASE Desk!Leave
  BY <1>1, DeskLeaveOK DEF Desk!Answer
<1>2. CASE /\ ask.stage = "read" /\ ask' = Desk!NoAsk /\ UNCHANGED <<session, dialog, history>>
           /\ \/ load' = [state |-> "data", stamp |-> ask.stamp, user |-> ask.user,
                          rows |-> IF page = "audit" THEN Desk!Rows(Desk!after, ask.stamp) ELSE <<>>]
              \/ load' = [Desk!Loading EXCEPT !.state = "error"]
  <2>0. UNCHANGED <<stamp, cookie, logins, page, opened, runs, done, session, dialog, history>>
    BY <1>2 DEF Desk!Answer
  <2>1. Desk!Side' /\ Desk!Paging'
    BY <2>0, DeskHas DEF Desk!Side, Desk!Paging, Desk!BusyIsWaiting
  <2>2. ask' \in Desk!Asked /\ ask'.stage = "none"
    BY <1>2 DEF Desk!NoAsk, Desk!Asked, Desk!Who
  <2>3. Desk!AskedFor'
    BY <2>2, <2>1 DEF Desk!AskedFor, Desk!Side
  <2>4. ask.stamp \in Nat /\ ask.user \in Desk!Who /\ ask.user = session /\ done <= ask.stamp
    BY <1>2 DEF Desk!DeskInv, Desk!DeskType, Desk!Asked, Desk!AskedFor
  <2>5. CASE load' = [state |-> "data", stamp |-> ask.stamp, user |-> ask.user,
                      rows |-> IF page = "audit" THEN Desk!Rows(Desk!after, ask.stamp) ELSE <<>>]
    <3>1. Desk!after \in Nat
      BY DeskHas DEF Desk!Paging, Desk!after
    <3>2. /\ Desk!Rows(Desk!after, ask.stamp) \in Seq(Nat)
          /\ \A i \in DOMAIN Desk!Rows(Desk!after, ask.stamp) : Desk!Rows(Desk!after, ask.stamp)[i] = Desk!after + i
      BY <2>4, <3>1, RowsAre
    <3>3. load' \in Desk!Loaded
      BY <2>4, <2>5, <3>2 DEF Desk!Loaded
    <3>4. load'.user = ask.user /\ load'.stamp = ask.stamp /\ (page = "audit" => load'.rows = Desk!Rows(Desk!after, ask.stamp))
      BY <2>5
    <3>5. Desk!OwnChangesShown'
      BY <2>0, <2>4, <3>4 DEF Desk!OwnChangesShown
    <3>6. Desk!after' = Desk!after
      BY <2>0 DEF Desk!after
    <3>7. Desk!AuditJoins'
      BY <2>0, <2>1, <3>2, <3>4, <3>6 DEF Desk!AuditJoins, Desk!Paging
    <3>. QED BY <2>0, <2>1, <2>2, <2>3, <3>3, <3>5, <3>7 DEF Desk!DeskInv, Desk!DeskType, Desk!DeskTrue, Desk!Side, Desk!Paging
  <2>6. CASE load' = [Desk!Loading EXCEPT !.state = "error"]
    <3>0. load' = [state |-> "error", stamp |-> 0, user |-> Desk!Nobody, rows |-> <<>>]
      BY <2>6 DEF Desk!Loading
    <3>1. load' \in Desk!Loaded /\ load'.state = "error"
      BY <3>0 DEF Desk!Loaded, Desk!Who
    <3>. QED BY <2>0, <2>1, <2>2, <2>3, <3>1 DEF Desk!DeskInv, Desk!DeskType, Desk!DeskTrue, Desk!Side, Desk!Paging, Desk!OwnChangesShown, Desk!AuditJoins
  <2>. QED BY <1>2, <2>5, <2>6
<1>. QED BY <1>1, <1>2 DEF Desk!Answer

LEMMA ReadOK == ASSUME Desk!DeskInv, Desk!Read PROVE Desk!DeskInv'
<1>0. ask \in Desk!Asked /\ stamp \in Nat /\ done <= stamp /\ ask.user = session
  BY DEF Desk!Read, Desk!DeskInv, Desk!DeskType, Desk!AskedFor
<1>1. ask' \in Desk!Asked /\ ask'.stage \in {"read", "401"} /\ ask'.user = ask.user /\ (ask'.stage = "read" => ask'.stamp = stamp)
  BY <1>0 DEF Desk!Read, Desk!Asked
<1>2. Desk!AskedFor'
  BY <1>0, <1>1 DEF Desk!Read, Desk!AskedFor, Desk!DeskInv
<1>3. Desk!Side' /\ Desk!Paging'
  BY DeskHas DEF Desk!Read, Desk!Side, Desk!Paging, Desk!BusyIsWaiting
<1>. QED BY <1>0, <1>1, <1>2, <1>3 DEF Desk!DeskInv, Desk!DeskType, Desk!DeskTrue, Desk!Side, Desk!Paging, Desk!OwnChangesShown, Desk!AuditJoins, Desk!Read, Desk!after

LEMMA nextOK == ASSUME Desk!SignConsoleAssumption, Desk!DeskInv, Desk!next PROVE Desk!DeskInv'
<1> DEFINE n == Len(history)
<1>1. history \in Seq(Nat) /\ n \in Nat \ {0} /\ Desk!after = history[n] /\ Desk!after \in Nat
  BY DeskHas DEF Desk!Paging, Desk!after
<1>2. load.rows \in Seq(Nat) /\ PageSize \in DOMAIN load.rows /\ PageSize \in Nat
  BY DEF Desk!DeskInv, Desk!DeskType, Desk!Loaded, Desk!next, Desk!SignConsoleAssumption
<1>3. load.rows[PageSize] = Desk!after + PageSize
  BY <1>2 DEF Desk!DeskInv, Desk!DeskTrue, Desk!AuditJoins, Desk!next
<1>4. history' = Append(history, Desk!after + PageSize)
  BY <1>3 DEF Desk!next
<1>5. Desk!Paging'
  <2>1. Desk!after + PageSize \in Nat
    BY <1>1, <1>2
  <2>2. history' \in Seq(Nat) /\ Len(history') = n + 1 /\ history'[n + 1] = Desk!after + PageSize /\ history' # <<>>
    BY <1>1, <1>4, <2>1
  <2>3. \A i \in 1..n : history'[i] = history[i]
    BY <1>1, <1>4, <2>1
  <2>4. ASSUME NEW i \in 1..(Len(history') - 1) PROVE history'[i + 1] = history'[i] + PageSize
    <3>1. CASE i = n
      BY <1>1, <2>2, <2>3, <3>1
    <3>2. CASE i # n
      <4>1. i \in 1..(n - 1) /\ i + 1 \in 1..n /\ i \in 1..n
        BY <1>1, <2>2, <3>2
      <4>. QED BY <2>3, <4>1, DeskHas DEF Desk!Paging
    <3>. QED BY <3>1, <3>2
  <2>. QED BY <2>2, <2>4 DEF Desk!Paging
<1>6. Desk!Side'
  BY DeskHas DEF Desk!Side, Desk!next, Desk!BusyIsWaiting
<1>. QED BY <1>5, <1>6, Reloads DEF Desk!next, Desk!DeskInv, Desk!DeskType

LEMMA previousOK == ASSUME Desk!DeskInv, Desk!previous PROVE Desk!DeskInv'
<1>1. Desk!Paging'
  <2> DEFINE n == Len(history) - 1
  <2>1. history \in Seq(Nat) /\ n \in Nat \ {0} /\ n + 1 = Len(history) /\ history' = SubSeq(history, 1, n)
    BY DeskHas DEF Desk!Paging, Desk!previous
  <2> HIDE DEF n
  <2>2. \A i \in 1..n : history[i] \in Nat
    BY <2>1
  <2>3. history' = [i \in 1..n |-> history[i]]
    BY <2>1
  <2>4. history' \in Seq(Nat) /\ Len(history') = n
    BY <2>1, <2>2, <2>3
  <2>5. ASSUME NEW i \in 1..(Len(history') - 1) PROVE history'[i + 1] = history'[i] + PageSize
    <3>1. i \in 1..n /\ i + 1 \in 1..n /\ i \in 1..(Len(history) - 1)
      BY <2>1, <2>4
    <3>2. history[i + 1] = history[i] + PageSize
      BY <3>1, DeskHas DEF Desk!Paging
    <3>. QED BY <2>3, <3>1, <3>2
  <2>. QED BY <2>1, <2>4, <2>5 DEF Desk!Paging
<1>2. Desk!Side'
  BY DeskHas DEF Desk!Side, Desk!previous, Desk!BusyIsWaiting
<1>. QED BY <1>1, <1>2, Reloads DEF Desk!previous, Desk!DeskInv, Desk!DeskType

LEMMA DoneOK == ASSUME Desk!DeskInv, NEW r \in runs, Desk!Done(r) PROVE Desk!DeskInv'
<1>1. r \in Desk!Sent /\ r.stamp \in Nat /\ r.stamp <= stamp /\ done \in Nat /\ done <= stamp /\ runs \subseteq Desk!Sent /\ dialog \in Desk!Dialogs
  BY DEF Desk!Done, Desk!DeskInv, Desk!DeskType, Desk!AskedFor, Desk!Sent
<1>2. done' \in Nat /\ done' <= stamp
  <2>1. \E x \in {done, r.stamp} : \A y \in {done, r.stamp} : x >= y
    BY <1>1
  <2>2. Desk!Max({done, r.stamp}) \in {done, r.stamp}
    BY <2>1 DEF Desk!Max
  <2>. QED BY <1>1, <2>2 DEF Desk!Done
<1>3. dialog' \in Desk!Dialogs /\ Desk!BusyIsWaiting'
  <2>1. CASE dialog' = Desk!NoDialog
    BY <2>1, DialogIs DEF Desk!BusyIsWaiting
  <2>2. CASE dialog' = [dialog EXCEPT !.busy = FALSE, !.secret = TRUE]
    <3>1. dialog' \in Desk!Dialogs /\ dialog'.busy = FALSE
      BY <1>1, <2>2 DEF Desk!Dialogs
    <3>. QED BY <3>1 DEF Desk!BusyIsWaiting
  <2>3. CASE dialog' = dialog /\ dialog.id # r.id
    <3>1. dialog.busy => \E q \in runs' : q.kind = "change" /\ q.id = dialog.id
      BY <2>3 DEF Desk!DeskInv, Desk!DeskTrue, Desk!BusyIsWaiting, Desk!Done
    <3>. QED BY <1>1, <2>3, <3>1 DEF Desk!BusyIsWaiting
  <2>. QED BY <2>1, <2>2, <2>3 DEF Desk!Done
<1>4. Desk!Side'
  BY <1>1, <1>2, <1>3, DeskHas DEF Desk!Side, Desk!Done
<1>5. Desk!Paging'
  BY FirstPage, SamePage DEF Desk!Done
<1>. QED BY <1>4, <1>5, Reloads DEF Desk!Done, Desk!DeskInv, Desk!DeskType

LEMMA FailedOK == ASSUME Desk!DeskInv, NEW r \in runs, Desk!Failed(r) PROVE Desk!DeskInv'
<1>1. runs \subseteq Desk!Sent /\ dialog \in Desk!Dialogs
  BY DEF Desk!DeskInv, Desk!DeskType
<1>3. dialog' \in Desk!Dialogs /\ Desk!BusyIsWaiting'
  <2>2. CASE dialog' = [dialog EXCEPT !.busy = FALSE]
    <3>1. dialog' \in Desk!Dialogs /\ dialog'.busy = FALSE
      BY <1>1, <2>2 DEF Desk!Dialogs
    <3>. QED BY <3>1 DEF Desk!BusyIsWaiting
  <2>3. CASE dialog' = dialog /\ dialog.id # r.id
    <3>1. dialog.busy => \E q \in runs' : q.kind = "change" /\ q.id = dialog.id
      BY <2>3 DEF Desk!DeskInv, Desk!DeskTrue, Desk!BusyIsWaiting, Desk!Failed
    <3>. QED BY <1>1, <2>3, <3>1 DEF Desk!BusyIsWaiting
  <2>. QED BY <2>2, <2>3 DEF Desk!Failed
<1>4. Desk!Side'
  BY <1>1, <1>3, DeskHas DEF Desk!Side, Desk!Failed
<1>. QED BY <1>4, Aside DEF Desk!Failed

LEMMA OtherOK == ASSUME Desk!DeskInv, NEW r \in runs, Desk!Other(r) PROVE Desk!DeskInv'
<1>1. CASE Desk!Leave
  BY <1>1, DeskLeaveOK DEF Desk!Other
<1>2. CASE UNCHANGED <<session, dialog, history, load, ask>>
  <2>1. Desk!BusyIsWaiting'
    BY <1>2 DEF Desk!Other, Desk!BusyIsWaiting, Desk!DeskInv, Desk!DeskTrue
  <2>2. Desk!Side'
    BY <1>2, <2>1, DeskHas DEF Desk!Side, Desk!Other
  <2>. QED BY <1>2, <2>2, Aside DEF Desk!Other
<1>. QED BY <1>1, <1>2 DEF Desk!Other

LEMMA DeskopenDialogOK == ASSUME Desk!DeskInv, Desk!openDialog PROVE Desk!DeskInv'
<1>1. dialog' = [id |-> opened + 1, busy |-> FALSE, secret |-> FALSE] /\ opened \in Nat
  BY DEF Desk!openDialog, Desk!NoDialog, Desk!DeskInv, Desk!DeskType
<1>2. dialog' \in Desk!Dialogs /\ dialog'.busy = FALSE
  BY <1>1 DEF Desk!Dialogs
<1>3. Desk!Side'
  BY <1>1, <1>2, DeskHas DEF Desk!Side, Desk!BusyIsWaiting, Desk!openDialog
<1>. QED BY <1>3, Aside DEF Desk!openDialog

LEMMA submitOK == ASSUME Desk!DeskInv, NEW way \in BOOLEAN, Desk!submit(way) PROVE Desk!DeskInv'
<1> DEFINE q == Desk!Run(dialog.id, "change", way)
<1>1. dialog \in Desk!Dialogs /\ session \in Desk!Who
  BY DEF Desk!DeskInv, Desk!DeskType
<1>2. dialog' \in Desk!Dialogs /\ dialog'.id = dialog.id
  BY <1>1 DEF Desk!Dialogs, Desk!submit
<1>3. q \in Desk!Sent /\ q.kind = "change" /\ q.id = dialog.id /\ q.stage = "sent"
  BY <1>1 DEF Desk!Sent, Desk!Run, Desk!Dialogs
<1> HIDE DEF q
<1>4. runs' = runs \cup {q}
  BY DEF Desk!submit, q
<1>5. Desk!BusyIsWaiting'
  BY <1>2, <1>3, <1>4 DEF Desk!BusyIsWaiting
<1>6. Desk!Side'
  BY <1>2, <1>3, <1>4, <1>5, DeskHas DEF Desk!Side, Desk!submit
<1>. QED BY <1>6, Aside DEF Desk!submit

LEMMA sendOtherOK == ASSUME Desk!DeskInv, NEW kind \in {"logout", "download"}, Desk!sendOther(kind) PROVE Desk!DeskInv'
<1> DEFINE q == Desk!Run(0, kind, FALSE)
<1>3. q \in Desk!Sent /\ q.stage = "sent"
  BY DEF Desk!Sent, Desk!Run, Desk!DeskInv, Desk!DeskType
<1> HIDE DEF q
<1>4. runs' = runs \cup {q}
  BY DEF Desk!sendOther, q
<1>5. Desk!BusyIsWaiting'
  BY <1>4 DEF Desk!BusyIsWaiting, Desk!sendOther, Desk!DeskInv, Desk!DeskTrue
<1>6. Desk!Side'
  BY <1>3, <1>4, <1>5, DeskHas DEF Desk!Side, Desk!sendOther
<1>. QED BY <1>6, Aside DEF Desk!sendOther

LEMMA DeskInit == ASSUME Desk!SignConsoleAssumption, Desk!Init PROVE Desk!DeskInv
<1>1. load \in Desk!Loaded /\ ask \in Desk!Asked /\ dialog \in Desk!Dialogs /\ load.state = "loading" /\ ask.stage = "none" /\ dialog.busy = FALSE
  BY DEF Desk!Init, Desk!Loading, Desk!NoAsk, Desk!NoDialog, Desk!Loaded, Desk!Asked, Desk!Dialogs, Desk!Who
<1>. QED BY <1>1 DEF Desk!Init, Desk!DeskInv, Desk!DeskType, Desk!AskedFor, Desk!DeskTrue, Desk!OwnChangesShown, Desk!BusyIsWaiting, Desk!AuditJoins, Desk!Who

LEMMA DeskStep == ASSUME Desk!SignConsoleAssumption, Desk!DeskInv, [Desk!Next]_(Desk!signConsoleVars) PROVE Desk!DeskInv'
<1>0. Desk!Nobody \in Desk!Who
  BY DEF Desk!Who
<1>1. CASE Desk!Elsewhere \/ Desk!Expire
  <2>1. Desk!Side'
    BY <1>0, <1>1, DeskHas DEF Desk!Side, Desk!Elsewhere, Desk!Expire, Desk!BusyIsWaiting, Desk!Sent
  <2>. QED BY <1>1, <2>1, Aside DEF Desk!Elsewhere, Desk!Expire
<1>2. CASE Desk!login
  <2>1. logins' \in Nat /\ logins' \in DOMAIN Users
    BY <1>2 DEF Desk!login, Desk!SignConsoleAssumption, Desk!DeskInv, Desk!DeskType
  <2>2. cookie' \in Desk!Who /\ session' \in Desk!Who
    BY <1>2, <2>1 DEF Desk!login, Desk!Who
  <2>3. Desk!Side' /\ Desk!Paging'
    BY <1>2, <2>1, <2>2, DeskHas, FirstPage DEF Desk!Side, Desk!login, Desk!BusyIsWaiting
  <2>. QED BY <1>2, <2>2, <2>3, Reloads DEF Desk!login
<1>3. ASSUME NEW p \in Desk!Pages, Desk!Route(p) PROVE Desk!DeskInv'
  <2>1. Desk!Side' /\ Desk!Paging'
    BY <1>3, DeskHas, FirstPage DEF Desk!Side, Desk!Route, Desk!BusyIsWaiting
  <2>. QED BY <1>3, <2>1, Reloads DEF Desk!Route, Desk!DeskInv, Desk!DeskType
<1>4. CASE Desk!refresh
  <2>1. Desk!Side' /\ Desk!Paging'
    BY <1>4, DeskHas, SamePage DEF Desk!Side, Desk!refresh, Desk!BusyIsWaiting
  <2>. QED BY <1>4, <2>1, Reloads DEF Desk!refresh, Desk!DeskInv, Desk!DeskType
<1>5. CASE Desk!closeDialog
  <2>1. Desk!Side'
    BY <1>5, DeskHas, DialogIs DEF Desk!Side, Desk!closeDialog, Desk!BusyIsWaiting
  <2>. QED BY <1>5, <2>1, Aside DEF Desk!closeDialog
<1>6. CASE UNCHANGED Desk!signConsoleVars
  <2>1. Desk!Side'
    BY <1>6, DeskHas DEF Desk!Side, Desk!signConsoleVars, Desk!BusyIsWaiting
  <2>. QED BY <1>6, <2>1, Aside DEF Desk!signConsoleVars
<1>. QED BY <1>1, <1>2, <1>3, <1>4, <1>5, <1>6, ReadOK, AnswerOK, nextOK, previousOK, DeskopenDialogOK,
     submitOK, sendOtherOK, DeskServeOK, DoneOK, FailedOK, OtherOK DEF Desk!Next

\* OwnChangesShown, BusyIsWaiting and AuditJoins of SignConsole, for all users, dialogs and
\* requests: a page is of the user who is logged in and has what its dialogs changed.
THEOREM SessionsTrue ==
  ASSUME Desk!SignConsoleAssumption PROVE Desk!Spec => []Desk!DeskTrue
<1>1. Desk!Init => Desk!DeskInv
  BY DeskInit
<1>2. Desk!DeskInv /\ [Desk!Next]_(Desk!signConsoleVars) => Desk!DeskInv'
  BY DeskStep
<1>3. Desk!DeskInv => Desk!DeskTrue
  BY DEF Desk!DeskInv
<1>. QED BY <1>1, <1>2, <1>3, PTL DEF Desk!Spec

-------------------------------------------------------------------------------
(* CastrelSign's signing keys.  Every operation changes one version (StateChanges)  *)
(* or two of them, of which one is the version the alias named.                     *)
KeyRing == INSTANCE SignKeys

LEMMA KeysInit == KeyRing!SignKeysAssumption /\ KeyRing!Init => KeyRing!KeysInv
  BY DEF KeyRing!SignKeysAssumption, KeyRing!Init, KeyRing!KeysInv, KeyRing!KeysType, KeyRing!KeysTrue, KeyRing!OneSigner, KeyRing!NeededKept, KeyRing!State, KeyRing!Versions, KeyRing!KeyStates

\* A version changes its state: nothing that is needed is let go, and only the version the alias names may sign.
LEMMA StateChanges ==
  ASSUME KeyRing!KeysInv, NEW v \in KeyRing!Versions, NEW to \in KeyRing!KeyStates, NEW due \in BOOLEAN,
         version' = [version EXCEPT ![v].state = to, ![v].due = due],
         to = "ACTIVE" => v = current,
         to \in {"none", "PRE_ACTIVE", "PENDING_DELETION", "DESTROYED"} => needs[v] \cap KeyRing!Signed = {},
         to \in {"none", "DESTROYED"} => needs[v] \cap Backups = {},
         pending' \subseteq pending, UNCHANGED <<current, needs>>
  PROVE  KeyRing!KeysInv'
<1>1. /\ version' \in [KeyRing!Versions -> [state : KeyRing!KeyStates, due : BOOLEAN, expired : BOOLEAN]]
      /\ version'[v].state = to
      /\ \A w \in KeyRing!Versions \ {v} : version'[w] = version[w]
  BY DEF KeyRing!KeysInv, KeyRing!KeysType
<1>2. KeyRing!KeysType'
  BY <1>1 DEF KeyRing!KeysInv, KeyRing!KeysType
<1>3. \A w \in KeyRing!Versions : w # v => KeyRing!State(w)' = KeyRing!State(w)
  BY <1>1 DEF KeyRing!State
<1>4. KeyRing!OneSigner'
  BY <1>1, <1>3 DEF KeyRing!KeysInv, KeyRing!KeysTrue, KeyRing!OneSigner, KeyRing!State
<1>5. KeyRing!NeededKept'
  BY <1>1, <1>3 DEF KeyRing!KeysInv, KeyRing!KeysTrue, KeyRing!NeededKept, KeyRing!State
<1>. QED BY <1>2, <1>4, <1>5 DEF KeyRing!KeysInv, KeyRing!KeysTrue

\* The same of a change that leaves the date of deletion alone.
LEMMA StateSet ==
  ASSUME KeyRing!KeysInv, NEW v \in KeyRing!Versions, NEW to \in KeyRing!KeyStates,
         version' = KeyRing!Set(v, to),
         to = "ACTIVE" => v = current,
         to \in {"none", "PRE_ACTIVE", "PENDING_DELETION", "DESTROYED"} => needs[v] \cap KeyRing!Signed = {},
         to \in {"none", "DESTROYED"} => needs[v] \cap Backups = {},
         pending' \subseteq pending, UNCHANGED <<current, needs>>
  PROVE  KeyRing!KeysInv'
<1>1. PICK due \in BOOLEAN : due = version[v].due
  BY DEF KeyRing!KeysInv, KeyRing!KeysType
<1>2. version' = [version EXCEPT ![v].state = to, ![v].due = due]
  BY <1>1 DEF KeyRing!Set, KeyRing!KeysInv, KeyRing!KeysType
<1>. QED BY <1>2, StateChanges

\* Fewer requests wait.
LEMMA FewerWait ==
  ASSUME KeyRing!KeysInv, pending' \subseteq pending, UNCHANGED <<version, current, needs>>
  PROVE  KeyRing!KeysInv'
  BY DEF KeyRing!KeysInv, KeyRing!KeysType, KeyRing!KeysTrue, KeyRing!OneSigner, KeyRing!NeededKept, KeyRing!State

LEMMA KeysStep == KeyRing!SignKeysAssumption /\ KeyRing!KeysInv /\ [KeyRing!Next]_(KeyRing!signKeysVars) => KeyRing!KeysInv'
<1> SUFFICES ASSUME KeyRing!SignKeysAssumption, KeyRing!KeysInv, [KeyRing!Next]_(KeyRing!signKeysVars) PROVE KeyRing!KeysInv'
  OBVIOUS
<1>1. ASSUME NEW v \in KeyRing!Versions, KeyRing!Age(v) PROVE KeyRing!KeysInv'
  <2>1. \A w \in KeyRing!Versions : KeyRing!State(w)' = KeyRing!State(w)
    BY <1>1 DEF KeyRing!Age, KeyRing!State, KeyRing!KeysInv, KeyRing!KeysType
  <2>2. KeyRing!KeysType'
    BY <1>1 DEF KeyRing!Age, KeyRing!KeysInv, KeyRing!KeysType
  <2>. QED BY <1>1, <2>1, <2>2 DEF KeyRing!Age, KeyRing!KeysInv, KeyRing!KeysTrue, KeyRing!OneSigner, KeyRing!NeededKept
<1>2. ASSUME NEW v \in KeyRing!Versions, KeyRing!prepareRotation(v) PROVE KeyRing!KeysInv'
  <2>1. needs[v] \cap KeyRing!Signed = {} /\ "PRE_ACTIVE" \in KeyRing!KeyStates
    BY <1>2 DEF KeyRing!prepareRotation, KeyRing!KeysInv, KeyRing!KeysTrue, KeyRing!NeededKept, KeyRing!KeyStates
  <2>. QED BY <1>2, <2>1, StateSet DEF KeyRing!prepareRotation
<1>3. ASSUME NEW v \in KeyRing!Versions, NEW u \in KeyRing!Signed, KeyRing!Sign(v, u) \/ KeyRing!Lapse(v, u) PROVE KeyRing!KeysInv'
  <2>1. KeyRing!KeysType' /\ KeyRing!OneSigner'
    BY <1>3 DEF KeyRing!Sign, KeyRing!Lapse, KeyRing!KeysInv, KeyRing!KeysType, KeyRing!KeysTrue, KeyRing!OneSigner, KeyRing!State
  <2>2. ASSUME NEW w \in KeyRing!Versions
        PROVE  (needs'[w] \cap Backups) = (needs[w] \cap Backups) /\ (needs'[w] \cap KeyRing!Signed # {} => ((w = v /\ KeyRing!State(v) = "ACTIVE") \/ needs[w] \cap KeyRing!Signed # {}))
    BY <1>3 DEF KeyRing!Sign, KeyRing!Lapse, KeyRing!KeysInv, KeyRing!KeysType, KeyRing!SignKeysAssumption
  <2>3. KeyRing!NeededKept'
    BY <1>3, <2>2 DEF KeyRing!Sign, KeyRing!Lapse, KeyRing!KeysInv, KeyRing!KeysTrue, KeyRing!NeededKept, KeyRing!State
  <2>. QED BY <2>1, <2>3 DEF KeyRing!KeysInv, KeyRing!KeysTrue
<1>4. ASSUME NEW b \in Backups, KeyRing!registerBackup(b) PROVE KeyRing!KeysInv'
  <2>1. KeyRing!KeysType' /\ KeyRing!OneSigner'
    BY <1>4 DEF KeyRing!registerBackup, KeyRing!KeysInv, KeyRing!KeysType, KeyRing!KeysTrue, KeyRing!OneSigner, KeyRing!State
  <2>2. ASSUME NEW w \in KeyRing!Versions
        PROVE  needs'[w] \cap KeyRing!Signed = needs[w] \cap KeyRing!Signed /\ (KeyRing!State(w) \in {"none", "DESTROYED"} => needs'[w] = needs[w])
    BY <1>4 DEF KeyRing!registerBackup, KeyRing!KeysInv, KeyRing!KeysType, KeyRing!SignKeysAssumption
  <2>3. KeyRing!NeededKept'
    BY <1>4, <2>2 DEF KeyRing!registerBackup, KeyRing!KeysInv, KeyRing!KeysTrue, KeyRing!NeededKept, KeyRing!State
  <2>. QED BY <2>1, <2>3 DEF KeyRing!KeysInv, KeyRing!KeysTrue
<1>5. ASSUME NEW v \in KeyRing!Versions, KeyRing!cancelDeletion(v) PROVE KeyRing!KeysInv'
  <2>1. "SUSPENDED" \in KeyRing!KeyStates
    BY DEF KeyRing!KeyStates
  <2>. QED BY <1>5, <2>1, StateChanges DEF KeyRing!cancelDeletion
<1>6. ASSUME NEW v \in KeyRing!Versions, NEW action \in {"SUSPEND", "COMPROMISE"}, KeyRing!suspend(action, v) PROVE KeyRing!KeysInv'
  <2>1. PICK to \in {"COMPROMISED", "SUSPENDED"} : version' = KeyRing!Set(v, to)
    BY <1>6 DEF KeyRing!suspend
  <2>2. to \in KeyRing!KeyStates
    BY DEF KeyRing!KeyStates
  <2>. QED BY <1>6, <2>1, <2>2, StateSet DEF KeyRing!suspend
<1>7. ASSUME NEW a, NEW action, NEW v \in KeyRing!Versions, NEW b, KeyRing!request(a, action, v, b) PROVE KeyRing!KeysInv'
  <2>1. \A r \in pending' : r.on \in KeyRing!Versions
    BY <1>7 DEF KeyRing!request, KeyRing!KeysInv, KeyRing!KeysType
  <2>. QED BY <1>7, <2>1 DEF KeyRing!request, KeyRing!KeysInv, KeyRing!KeysType, KeyRing!KeysTrue, KeyRing!OneSigner, KeyRing!NeededKept, KeyRing!State
<1>8. ASSUME NEW r \in pending, KeyRing!ExpireRequest(r) PROVE KeyRing!KeysInv'
  BY <1>8, FewerWait DEF KeyRing!ExpireRequest
<1>9. ASSUME NEW r \in pending, NEW a \in Officers, KeyRing!approve(a, r) PROVE KeyRing!KeysInv'
  <2> DEFINE v == r.on
  <2>0. v \in KeyRing!Versions /\ pending' \subseteq pending
    BY <1>9 DEF KeyRing!KeysInv, KeyRing!KeysType, KeyRing!approve
  <2>1. CASE KeyRing!Activated(v)
    <3>1. /\ KeyRing!State(v) = "PRE_ACTIVE" /\ current' = v /\ UNCHANGED needs
          /\ version' = [w \in KeyRing!Versions |->
               IF w = v THEN [version[w] EXCEPT !.state = "ACTIVE"]
               ELSE IF w = current /\ KeyRing!State(w) = "ACTIVE" THEN [version[w] EXCEPT !.state = "VERIFY_ONLY"]
               ELSE version[w]]
      BY <2>1 DEF KeyRing!Activated
    <3> HIDE DEF v
    <3>2. ASSUME NEW w \in KeyRing!Versions
          PROVE  /\ version'[w] \in [state : KeyRing!KeyStates, due : BOOLEAN, expired : BOOLEAN]
                 /\ KeyRing!State(w)' = IF w = v THEN "ACTIVE" ELSE IF w = current /\ KeyRing!State(w) = "ACTIVE" THEN "VERIFY_ONLY" ELSE KeyRing!State(w)
      BY <3>1, <2>0 DEF KeyRing!KeysInv, KeyRing!KeysType, KeyRing!KeyStates, KeyRing!State
    <3>3. KeyRing!KeysType'
      BY <2>0, <3>1, <3>2 DEF KeyRing!KeysInv, KeyRing!KeysType
    <3>4. KeyRing!OneSigner'
      BY <3>1, <3>2 DEF KeyRing!KeysInv, KeyRing!KeysTrue, KeyRing!OneSigner
    <3>5. KeyRing!NeededKept'
      BY <3>1, <3>2, <2>0 DEF KeyRing!KeysInv, KeyRing!KeysTrue, KeyRing!NeededKept
    <3>. QED BY <3>3, <3>4, <3>5 DEF KeyRing!KeysInv, KeyRing!KeysTrue
  <2>2. CASE KeyRing!Resumed(v)
    <3>1. PICK to \in {"ACTIVE", "VERIFY_ONLY"} : version' = KeyRing!Set(v, to) /\ (to = "ACTIVE" => v = current)
      BY <2>2 DEF KeyRing!Resumed
    <3>2. to \in KeyRing!KeyStates
      BY DEF KeyRing!KeyStates
    <3>. QED BY <2>0, <2>2, <3>1, <3>2, StateSet DEF KeyRing!Resumed
  <2>3. CASE KeyRing!Scheduled(v)
    <3>1. "PENDING_DELETION" \in KeyRing!KeyStates
      BY DEF KeyRing!KeyStates
    <3>. QED BY <2>0, <2>3, <3>1, StateChanges DEF KeyRing!Scheduled, KeyRing!Unneeded
  <2>4. CASE KeyRing!Destroyed(v)
    <3>1. "DESTROYED" \in KeyRing!KeyStates
      BY DEF KeyRing!KeyStates
    <3>. QED BY <2>0, <2>4, <3>1, StateSet DEF KeyRing!Destroyed, KeyRing!Unneeded
  <2>5. CASE KeyRing!Purged(v, r.backup)
    <3>1. \A w \in KeyRing!Versions : needs'[w] \subseteq needs[w]
      BY <2>5 DEF KeyRing!Purged, KeyRing!KeysInv, KeyRing!KeysType
    <3>2. KeyRing!KeysType'
      BY <2>0, <2>5 DEF KeyRing!Purged, KeyRing!KeysInv, KeyRing!KeysType
    <3>. QED BY <2>5, <3>1, <3>2 DEF KeyRing!Purged, KeyRing!KeysInv, KeyRing!KeysTrue, KeyRing!OneSigner, KeyRing!NeededKept, KeyRing!State
  <2>. QED BY <1>9, <2>0, <2>1, <2>2, <2>3, <2>4, <2>5, FewerWait DEF KeyRing!approve, KeyRing!Execute, KeyRing!Allowed
<1>. QED BY <1>1, <1>2, <1>3, <1>4, <1>5, <1>6, <1>7, <1>8, <1>9, FewerWait DEF KeyRing!Next, KeyRing!signKeysVars

\* OneSigner and NeededKept of SignKeys, for all versions, officers and things signed: one
\* version signs, and none that something valid needs is let go.
THEOREM KeysSafe ==
  ASSUME KeyRing!SignKeysAssumption PROVE KeyRing!Spec => []KeyRing!KeysTrue
<1>1. KeyRing!Init => KeyRing!KeysInv
  BY KeysInit
<1>2. KeyRing!KeysInv /\ [KeyRing!Next]_(KeyRing!signKeysVars) => KeyRing!KeysInv'
  BY KeysStep
<1>3. KeyRing!KeysInv => KeyRing!KeysTrue
  BY DEF KeyRing!KeysInv
<1>. QED BY <1>1, <1>2, <1>3, PTL DEF KeyRing!Spec

-------------------------------------------------------------------------------
(* CastrelSign's key store: the log somebody was told of begins the checkpoint      *)
(* wherever the checkpoint begins the database, also half way through an operation. *)
KeyStore == INSTANCE KmsStore

\* Every log begins with itself and with no entry.
LEMMA BeforeItself ==
  ASSUME NEW s \in Seq(Nat) PROVE KeyStore!Before(s, s) /\ KeyStore!Before(<<>>, s)
  BY DEF KeyStore!Before

\* A log that begins another that begins a third begins the third.
LEMMA BeforeBefore ==
  ASSUME NEW s \in Seq(Nat), NEW t \in Seq(Nat), NEW u \in Seq(Nat), KeyStore!Before(s, t), KeyStore!Before(t, u)
  PROVE  KeyStore!Before(s, u)
<1>1. Len(s) <= Len(u)
  BY DEF KeyStore!Before
<1>2. ASSUME NEW i \in 1..Len(s) PROVE s[i] = u[i]
  <2>1. i \in 1..Len(t)
    BY DEF KeyStore!Before
  <2>. QED BY <2>1 DEF KeyStore!Before
<1>. QED BY <1>1, <1>2 DEF KeyStore!Before

\* A log begins what another entry makes of it.
LEMMA BeforeAppend ==
  ASSUME NEW s \in Seq(Nat), NEW n \in Nat
  PROVE  Append(s, n) \in Seq(Nat) /\ KeyStore!Before(s, Append(s, n))
  BY DEF KeyStore!Before

\* A log that passes the check has all that was told (the check of each read and operation).
LEMMA StoreImplies == KeyStore!IInv => KeyStore!Barrier
  <1> SUFFICES ASSUME KeyStore!IInv, KeyStore!checkCheckpoint PROVE KeyStore!Before(told, db)
    BY DEF KeyStore!Barrier
  <1>1. KeyStore!Before(told, checkpoint) /\ KeyStore!Before(checkpoint, db)
    BY DEF KeyStore!IInv, KeyStore!checkCheckpoint
  <1>2. QED
    BY <1>1, BeforeBefore DEF KeyStore!IInv, KeyStore!Typed

\* A transaction begins with the checkpoint before what it will leave.
LEMMA AuditKeeps ==
  ASSUME KeyStore!IInv, NEW kind \in {"boot", "work", "refusal", "error"}, KeyStore!Audit(kind), KeyStore!Before(checkpoint, db)
  PROVE  entries' \in Nat /\ proc' \in KeyStore!Process /\ proc'.at = "barrier" /\ KeyStore!Before(checkpoint, proc'.tx)
  <1>1. entries' \in Nat /\ proc' = [at |-> "barrier", kind |-> kind, tx |-> Append(db, entries')]
    BY DEF KeyStore!Audit, KeyStore!IInv, KeyStore!Typed
  <1>2. Append(db, entries') \in Seq(Nat) /\ KeyStore!Before(db, Append(db, entries'))
    BY <1>1, BeforeAppend DEF KeyStore!IInv, KeyStore!Typed
  <1>3. proc' \in KeyStore!Process /\ proc'.at = "barrier" /\ proc'.tx = Append(db, entries')
    BY <1>1, <1>2 DEF KeyStore!Process
  <1>4. QED
    BY <1>1, <1>2, <1>3, BeforeBefore DEF KeyStore!IInv, KeyStore!Typed

\* The service with no transaction.
LEMMA RestingIs ==
  ASSUME NEW at \in {"down", "idle", "error"} PROVE KeyStore!Resting(at) \in KeyStore!Process /\ KeyStore!Resting(at).at = at
  BY DEF KeyStore!Resting, KeyStore!Process

\* What a failure leaves the service in: it runs no transaction.
LEMMA FailedKeeps ==
  ASSUME KeyStore!Typed, KeyStore!Failed PROVE proc' \in KeyStore!Process /\ proc'.at \in {"down", "idle", "error"}
  BY RestingIs DEF KeyStore!Failed, KeyStore!Down, KeyStore!Idle

\* Every step of the service, of the tool and of the operators keeps the invariant.
LEMMA StoreStep == KeyStore!IInv /\ [KeyStore!Next]_(KeyStore!storeVars) => KeyStore!IInv'
  <1> SUFFICES ASSUME KeyStore!IInv, [KeyStore!Next]_(KeyStore!storeVars) PROVE KeyStore!IInv'
    OBVIOUS
  <1> USE DEF KeyStore!IInv, KeyStore!Typed, KeyStore!Kept
  <1>0. proc.tx \in Seq(Nat)
    BY DEF KeyStore!Process
  <1>1. CASE KeyStore!bootstrap
    <2>1. db = <<>> /\ checkpoint = <<>> /\ KeyStore!Audit("boot") /\ KeyStore!Before(checkpoint, db)
      BY <1>1, BeforeItself DEF KeyStore!bootstrap
    <2>2. QED
      BY <1>1, <2>1, AuditKeeps, BeforeItself DEF KeyStore!bootstrap
  <1>2. CASE KeyStore!open
    <2>1. KeyStore!Before(checkpoint, db) /\ KeyStore!Before(told, db) /\ KeyStore!Before(db, db)
      BY <1>2, StoreImplies, BeforeItself DEF KeyStore!open, KeyStore!checkCheckpoint, KeyStore!Barrier
    <2>2. QED
      BY <1>2, <2>1, RestingIs DEF KeyStore!open, KeyStore!Fault, KeyStore!Idle
  <1>3. CASE KeyStore!read
    BY <1>3 DEF KeyStore!read
  <1>4. ASSUME NEW kind \in {"work", "refusal"}, KeyStore!operation(kind) PROVE KeyStore!IInv'
    <2>1. KeyStore!Before(checkpoint, db) /\ KeyStore!Audit(kind)
      BY <1>4 DEF KeyStore!operation, KeyStore!checkCheckpoint
    <2>2. QED
      BY <1>4, <2>1, AuditKeeps DEF KeyStore!operation
  <1>5. CASE KeyStore!writeCheckpoint
    <2>1. KeyStore!Before(told, proc.tx) /\ KeyStore!Before(db, proc.tx)
      BY <1>0, <1>5, BeforeBefore DEF KeyStore!writeCheckpoint
    <2>2. CASE checkpoint' = proc.tx /\ proc' = [proc EXCEPT !.at = "commit"]
      <3>1. proc' \in KeyStore!Process /\ proc'.at = "commit" /\ proc'.tx = proc.tx
        BY <2>2 DEF KeyStore!Process
      <3>2. QED
        BY <1>0, <1>5, <2>1, <2>2, <3>1 DEF KeyStore!writeCheckpoint
    <2>3. CASE checkpoint' \in {checkpoint, proc.tx} /\ KeyStore!Failed
      BY <1>0, <1>5, <2>1, <2>3, FailedKeeps DEF KeyStore!writeCheckpoint
    <2>4. QED
      BY <1>5, <2>2, <2>3 DEF KeyStore!writeCheckpoint
  <1>6. CASE KeyStore!commit
    <2>1. KeyStore!Before(proc.tx, checkpoint)
      BY <1>0, <1>6, BeforeItself DEF KeyStore!commit
    <2>2. CASE proc' = KeyStore!Idle /\ db' = proc.tx /\ told' = (IF proc.kind = "error" THEN told ELSE proc.tx)
      BY <1>0, <1>6, <2>1, <2>2, RestingIs DEF KeyStore!commit, KeyStore!Idle
    <2>3. CASE db' \in {db, proc.tx} /\ KeyStore!Failed /\ UNCHANGED told
      BY <1>0, <1>6, <2>1, <2>3, FailedKeeps DEF KeyStore!commit
    <2>4. QED
      BY <1>6, <2>2, <2>3 DEF KeyStore!commit
  <1>7. CASE KeyStore!auditError
    <2>1. CASE KeyStore!checkCheckpoint /\ KeyStore!Audit("error")
      <3>1. KeyStore!Before(checkpoint, db)
        BY <2>1 DEF KeyStore!checkCheckpoint
      <3>2. QED
        BY <1>7, <2>1, <3>1, AuditKeeps DEF KeyStore!auditError
    <2>2. CASE proc' = KeyStore!Idle /\ UNCHANGED entries
      BY <1>7, <2>2, RestingIs DEF KeyStore!auditError, KeyStore!Idle
    <2>3. QED
      BY <1>7, <2>1, <2>2 DEF KeyStore!auditError
  <1>8. CASE KeyStore!close
    BY <1>0, <1>8, RestingIs DEF KeyStore!close, KeyStore!Down
  <1>9. CASE KeyStore!Copy \/ KeyStore!PutBack \/ KeyStore!Lose \/ KeyStore!create \/ KeyStore!restore
    <2>1. CASE KeyStore!Copy
      BY <2>1 DEF KeyStore!Copy
    <2>2. CASE KeyStore!PutBack
      BY <2>2 DEF KeyStore!PutBack
    <2>3. CASE KeyStore!Lose
      <3>1. db' = <<>> /\ <<>> \in Seq(Nat)
        BY <2>3 DEF KeyStore!Lose
      <3>2. db' \in Seq(Nat)
        BY <3>1
      <3>3. QED
        BY <2>3, <3>2, ZenonT(30) DEF KeyStore!Lose
    <2>4. CASE KeyStore!create
      BY <2>4 DEF KeyStore!create
    <2>5. CASE KeyStore!restore
      BY <2>5 DEF KeyStore!restore
    <2>6. QED
      BY <1>9, <2>1, <2>2, <2>3, <2>4, <2>5
  <1>10. CASE UNCHANGED KeyStore!storeVars
    BY <1>10 DEF KeyStore!storeVars, KeyStore!Before
  <1>11. QED
    BY <1>1, <1>2, <1>3, <1>4, <1>5, <1>6, <1>7, <1>8, <1>9, <1>10 DEF KeyStore!Next

\* The service begins with nothing.
LEMMA StoreInit == KeyStore!Init => KeyStore!IInv
<1>1. KeyStore!Down \in KeyStore!Process /\ KeyStore!Down.at = "down" /\ <<>> \in Seq(Nat)
  BY RestingIs DEF KeyStore!Down
<1>2. KeyStore!Before(<<>>, <<>>)
  BY <1>1, BeforeItself
<1>3. SUFFICES ASSUME KeyStore!Init PROVE KeyStore!IInv
  OBVIOUS
<1>4. told \in Seq(Nat) /\ checkpoint \in Seq(Nat) /\ db \in Seq(Nat)
  BY <1>1, <1>3 DEF KeyStore!Init
<1>5. KeyStore!Before(told, checkpoint)
  BY <1>2, <1>3 DEF KeyStore!Init
<1>6. QED
  BY <1>1, <1>3, <1>4, <1>5 DEF KeyStore!Init, KeyStore!IInv, KeyStore!Typed

\* Barrier of KmsStore, for every number of entries, copies and faults: a database that passes
\* the check has all that somebody was told of.
THEOREM NothingOlder ==
  KeyStore!Spec => []KeyStore!Barrier
<1>1. KeyStore!Init => KeyStore!IInv
  BY StoreInit
<1>2. KeyStore!IInv /\ [KeyStore!Next]_(KeyStore!storeVars) => KeyStore!IInv'
  BY StoreStep
<1>3. KeyStore!IInv => KeyStore!Barrier
  BY StoreImplies
<1>. QED BY <1>1, <1>2, <1>3, PTL DEF KeyStore!Spec

-------------------------------------------------------------------------------
(* The files of an asset.  What a handler under way will show is of the folder it   *)
(* was sent to, and what is selected is in the folder that is shown.                *)
Files == INSTANCE AssetFiles WITH MaxTasks <- MaxHandlers

\* What a step makes of a handler.
LEMMA HandlerDone == ASSUME NEW l, NEW t, Files!Handler(t)
  PROVE LET over == [t EXCEPT !.stage = "done", !.list = l] IN Files!Handler(over) /\ over.op = t.op /\ over.to = t.to /\ over.list = l
  BY DEF Files!Handler
LEMMA ReadsAgain == ASSUME NEW from, NEW cut
  PROVE LET t == [Files!NoTask EXCEPT !.op = "LIST", !.to = from, !.from = from, !.cut = cut] IN Files!Handler(t) /\ t.stage = "sent"
  BY DEF Files!NoTask, Files!Handler
LEMMA LoadIs == ASSUME NEW to, NEW nav PROVE Files!Handler(Files!Load(to, nav)) /\ Files!Load(to, nav).stage = "sent"
  BY DEF Files!NoTask, Files!Handler, Files!Load

LEMMA FilesClick == ASSUME Files!FilesInv, Files!Click PROVE Files!FilesInv'
<1> USE DEF Files!Handler
<1>1. ASSUME NEW to, NEW nav, Files!Start(Files!Load(to, nav)) PROVE Files!FilesInv'
  BY <1>1, LoadIs DEF Files!FilesInv, Files!ActsOnTheListed, Files!Start
<1>2. ASSUME NEW op, NEW paths, NEW to, NEW cut, Files!Mutate(op, paths, to, cut) PROVE Files!FilesInv'
  <2>1. LET t == [Files!NoTask EXCEPT !.op = op, !.paths = paths, !.to = to, !.from = current, !.cut = cut] IN
        Files!Handler(t) /\ t.stage = "sent"
    BY DEF Files!NoTask, Files!Handler
  <2>. QED BY <1>2, <2>1 DEF Files!FilesInv, Files!ActsOnTheListed, Files!Start, Files!Mutate
<1>3. CASE Files!OpenShown
  BY <1>1, <1>3 DEF Files!OpenShown, Files!openPath
<1>4. CASE Files!DoubleClick
  BY <1>1, <1>4 DEF Files!DoubleClick, Files!openPath
<1>5. CASE Files!navigateUp
  BY <1>1, <1>5 DEF Files!navigateUp, Files!openPath
<1>6. CASE Files!navigateBack \/ Files!navigateForward
  BY <1>1, <1>6 DEF Files!navigateBack, Files!navigateForward
<1>7. CASE Files!Reload
  BY <1>1, <1>7 DEF Files!Reload
<1>8. CASE Files!createFolder \/ Files!upload
  BY <1>2, <1>8 DEF Files!createFolder, Files!upload
<1>9. CASE Files!renameSelected
  BY <1>2, <1>9 DEF Files!renameSelected
<1>10. CASE Files!deleteSelected \/ Files!downloadSelected
  BY <1>2, <1>10 DEF Files!deleteSelected, Files!downloadSelected
<1>11. CASE Files!pasteClipboard
  BY <1>2, <1>11 DEF Files!pasteClipboard
<1>12. ASSUME NEW mode, Files!Take(mode) PROVE Files!FilesInv'
  BY <1>12 DEF Files!Take, Files!FilesInv, Files!ActsOnTheListed
<1>13. ASSUME NEW p \in shown.entries, NEW ctrl \in BOOLEAN, Files!toggleSelection(p, ctrl) PROVE Files!FilesInv'
  BY <1>13 DEF Files!toggleSelection, Files!FilesInv, Files!ActsOnTheListed
<1>. QED BY <1>3, <1>4, <1>5, <1>6, <1>7, <1>8, <1>9, <1>10, <1>11, <1>12, <1>13 DEF Files!Click

LEMMA FilesStep == ASSUME Files!FilesInv, [Files!Next]_(Files!fileVars) PROVE Files!FilesInv'
<1> USE DEF Files!FilesInv, Files!ActsOnTheListed, Files!Handler
<1>1. CASE Files!Click
  BY <1>1, FilesClick
<1>2. CASE Files!Lock
  BY <1>2 DEF Files!Lock
<1>3. CASE Files!Unlock
  BY <1>3, LoadIs DEF Files!Unlock
<1>4. ASSUME NEW t \in tasks, Files!AgentDoes(t) PROVE Files!FilesInv'
  <2>1. \E l : /\ tasks' = (tasks \ {t}) \cup {[t EXCEPT !.stage = "done", !.list = l]}
              /\ (t.op = "LIST" => l.path = t.to)
    <3>1. CASE t.op = "LIST"
      <4>1. tasks' = (tasks \ {t}) \cup {[t EXCEPT !.stage = "done", !.list = Files!Listing(t.to)]}
        BY <1>4, <3>1 DEF Files!AgentDoes
      <4>2. Files!Listing(t.to).path = t.to
        BY DEF Files!Listing
      <4>. QED BY <4>1, <4>2
    <3>2. CASE t.op # "LIST"
      BY <1>4, <3>2 DEF Files!AgentDoes
    <3>. QED BY <3>1, <3>2
  <2>. QED BY <1>4, <2>1, HandlerDone DEF Files!AgentDoes
<1>5. ASSUME NEW t \in tasks, Files!Loaded(t) PROVE Files!FilesInv'
  BY <1>5 DEF Files!Loaded, Files!Fresh
<1>6. ASSUME NEW t \in tasks, Files!Mutated(t) PROVE Files!FilesInv'
  <2>1. DEFINE again == [Files!NoTask EXCEPT !.op = "LIST", !.to = t.from, !.from = t.from, !.cut = t.cut]
  <2>2. Files!Handler(again) /\ again.stage = "sent"
    BY ReadsAgain
  <2>3. tasks' \subseteq tasks \cup {again} /\ UNCHANGED <<current, shown, selected>>
    BY <1>6 DEF Files!Mutated
  <2>. HIDE DEF again
  <2>. QED BY <2>2, <2>3
<1>7. ASSUME NEW t \in tasks, NEW heard, Files!Failed(t, heard) PROVE Files!FilesInv'
  BY <1>7 DEF Files!Failed
<1>8. ASSUME NEW c \in late, Files!AgentDoesLate(c) PROVE Files!FilesInv'
  BY <1>8 DEF Files!AgentDoesLate
<1>9. CASE UNCHANGED Files!fileVars
  BY <1>9 DEF Files!fileVars
<1>. QED BY <1>1, <1>2, <1>3, <1>4, <1>5, <1>6, <1>7, <1>8, <1>9 DEF Files!Next

LEMMA FilesInit == ASSUME Files!Init PROVE Files!FilesInv
  BY DEF Files!Init, Files!FilesInv, Files!ActsOnTheListed

\* ActsOnTheListed of AssetFiles, for every disk and any number of handlers at a time.
THEOREM FilesTrue == Files!Spec => []Files!ActsOnTheListed
<1>1. Files!Init => Files!FilesInv
  BY FilesInit
<1>2. Files!FilesInv => Files!ActsOnTheListed
  BY DEF Files!FilesInv
<1>. QED BY <1>1, <1>2, FilesStep, PTL DEF Files!Spec

-------------------------------------------------------------------------------
(* The assets.  What is asked of the detail and of the router is asked for the      *)
(* asset that is selected, which what is shown of it follows.                       *)
Fleet == INSTANCE AssetConsole WITH Assets <- FleetAssets, Routers <- RouterUids

\* A row that is found is of the asset it was looked for.
LEMMA RowFound == ASSUME NEW rows, NEW a PROVE Fleet!Find(rows, a) = Fleet!NoRow \/ (Fleet!Find(rows, a) \in rows /\ Fleet!Find(rows, a).uid = a)
  BY DEF Fleet!Find
LEMMA NoRowFound == Fleet!NoRow.uid = Fleet!None /\ Fleet!NoRow.id = FALSE
  BY DEF Fleet!NoRow
LEMMA SelectedRow == ASSUME NEW rows, NEW a, NEW snap
  PROVE Fleet!Selected(rows, a, snap) = Fleet!NoRow \/ Fleet!Selected(rows, a, snap).uid = a
  BY RowFound DEF Fleet!Selected
LEMMA SelectionIs == Fleet!selectedAsset = Fleet!NoRow \/ (uid # Fleet!None /\ Fleet!selectedAsset.uid = uid)
  BY SelectedRow DEF Fleet!selectedAsset
LEMMA SelectionNext == Fleet!selectedAsset' = Fleet!NoRow \/ (uid' # Fleet!None /\ Fleet!selectedAsset'.uid = uid')
  BY SelectedRow DEF Fleet!selectedAsset
LEMMA FleetRows == ASSUME Fleet!AssetAssumption, Fleet!RowsTrue
  PROVE  /\ \A r \in Fleet!Fleet : r.uid # Fleet!None
         /\ \A r \in Fleet!fallbackOverview : r.uid # Fleet!None
  BY DEF Fleet!AssetAssumption, Fleet!RowsTrue, Fleet!Fleet, Fleet!Row, Fleet!fallbackOverview

\* What belongs to the selection.
FollowsIt ==
  /\ {binding, routerUid} \subseteq {Fleet!None, Fleet!selectedAsset.uid}
  /\ Fleet!selectedAsset # Fleet!NoRow => draft = uid
  /\ tab = "router" => routerUid = Fleet!selectedAsset.uid
ShownOfIt ==
  /\ asked.uid = uid /\ detail.uid \in {Fleet!None, uid} /\ snapshot.uid \in {Fleet!None, uid}
ChangesMeant == \A s \in saves : s.kind = "update" => s.of = s.uid
LEMMA FleetInvIs == Fleet!AssetInv <=> Fleet!RowsTrue /\ FollowsIt /\ ShownOfIt /\ ChangesMeant
  BY SelectionIs, NoRowFound DEF Fleet!AssetInv, FollowsIt, ShownOfIt, ChangesMeant, Fleet!OneAssetShown, Fleet!HasRouterTab

\* The form and the tabs follow the selection to another asset.
LEMMA SelectionFollowed == ASSUME FollowsIt, Fleet!DraftFor(Fleet!selectedAsset'), Fleet!TabsFor(Fleet!selectedAsset') PROVE FollowsIt'
<1>1. Fleet!selectedAsset' = Fleet!NoRow \/ (uid' # Fleet!None /\ Fleet!selectedAsset'.uid = uid')
  BY SelectionNext
<1>2. CASE Fleet!selectedAsset'.uid = Fleet!selectedAsset.uid
  BY <1>1, <1>2, SelectionIs, NoRowFound DEF FollowsIt, Fleet!DraftFor, Fleet!TabsFor, Fleet!tabs
<1>3. CASE Fleet!selectedAsset'.uid # Fleet!selectedAsset.uid
  BY <1>1, <1>3, NoRowFound DEF FollowsIt, Fleet!DraftFor, Fleet!ResetDraft, Fleet!TabsFor
<1>. QED BY <1>2, <1>3
\* Nothing is selected any longer.
LEMMA SelectionLeft == ASSUME Fleet!Leave PROVE FollowsIt' /\ ShownOfIt'
<1>1. Fleet!selectedAsset' = Fleet!NoRow
  BY DEF Fleet!Leave, Fleet!selectedAsset
<1>. QED BY <1>1, NoRowFound DEF Fleet!Leave, Fleet!AskDetail, Fleet!ResetDraft, FollowsIt, ShownOfIt
LEMMA SelectionStays == ASSUME FollowsIt, UNCHANGED <<overview, uid, snapshot, draft, tab, binding, routerUid>> PROVE FollowsIt'
<1>1. Fleet!selectedAsset' = Fleet!selectedAsset
  BY DEF Fleet!selectedAsset
<1>. QED BY <1>1 DEF FollowsIt
LEMMA FleetLoads == ASSUME Fleet!AssetAssumption, Fleet!RowsTrue, NEW rg, Fleet!Load(rg), UNCHANGED <<registry, props, overview, saves>>
  PROVE Fleet!RowsTrue'
  BY FleetRows DEF Fleet!Load, Fleet!RowsTrue

LEMMA FleetReads == ASSUME Fleet!AssetAssumption, Fleet!RowsTrue, FollowsIt, ShownOfIt, ChangesMeant,
     \/ Fleet!Refresh
     \/ \E l \in loads, ok \in BOOLEAN : Fleet!Loaded(l, ok)
     \/ \E rg \in Ranges : Fleet!SetRange(rg)
     \/ \E ok \in BOOLEAN : Fleet!Detailed(ok) \/ Fleet!Bound(ok)
  PROVE Fleet!RowsTrue' /\ FollowsIt' /\ ShownOfIt' /\ ChangesMeant'
<1>1. CASE Fleet!Refresh
  BY <1>1, FleetLoads, SelectionStays DEF Fleet!Refresh, Fleet!panel, Fleet!forms, Fleet!tabs, ShownOfIt, ChangesMeant
<1>2. ASSUME NEW l \in loads, NEW ok \in BOOLEAN, Fleet!Loaded(l, ok) PROVE Fleet!RowsTrue' /\ FollowsIt' /\ ShownOfIt' /\ ChangesMeant'
  <2>. DEFINE seen == Fleet!Find(IF ok THEN l.rows ELSE Fleet!fallbackOverview, uid)
              next == IF uid = Fleet!None THEN Fleet!NoRow ELSE Fleet!Selected(overview', uid, snapshot')
  <2>1. /\ loads' = loads \ {l} /\ UNCHANGED <<registry, props, range, uid, creating, saves, sent>>
        /\ overview' = IF ok THEN l.rows ELSE IF overview # {} THEN overview ELSE Fleet!fallbackOverview
        /\ snapshot' = IF uid # Fleet!None /\ seen # Fleet!NoRow THEN seen ELSE snapshot
        /\ Fleet!DraftFor(next) /\ Fleet!TabsFor(next)
        /\ IF uid = Fleet!None THEN UNCHANGED <<detail, asked, detailLoading>> ELSE Fleet!AskDetail(uid, range)
    BY <1>2 DEF Fleet!Loaded
  <2>2. next = Fleet!selectedAsset'
    BY <2>1 DEF Fleet!selectedAsset
  <2>3. FollowsIt'
    BY <2>1, <2>2, SelectionFollowed
  <2>4. ShownOfIt'
    BY <2>1, RowFound DEF ShownOfIt, Fleet!AskDetail
  <2>5. Fleet!RowsTrue' /\ ChangesMeant'
    BY <2>1, FleetRows DEF Fleet!RowsTrue, ChangesMeant
  <2>. QED BY <2>3, <2>4, <2>5
<1>3. ASSUME NEW rg \in Ranges, Fleet!SetRange(rg) PROVE Fleet!RowsTrue' /\ FollowsIt' /\ ShownOfIt' /\ ChangesMeant'
  BY <1>3, FleetLoads, SelectionStays, NoRowFound DEF Fleet!SetRange, Fleet!AskDetail, Fleet!forms, Fleet!tabs, ShownOfIt, ChangesMeant
<1>4. ASSUME NEW ok \in BOOLEAN, Fleet!Detailed(ok) PROVE Fleet!RowsTrue' /\ FollowsIt' /\ ShownOfIt' /\ ChangesMeant'
  <2>1. Fleet!selectedAsset' = Fleet!Selected(overview, uid, snapshot')
    BY <1>4 DEF Fleet!Detailed, Fleet!fleet, Fleet!selectedAsset, ShownOfIt
  <2>2. FollowsIt'
    BY <1>4, <2>1, SelectionFollowed DEF Fleet!Detailed
  <2>. QED BY <1>4, <2>2, NoRowFound DEF Fleet!Detailed, Fleet!fleet, Fleet!Row, Fleet!RowsTrue, ShownOfIt, ChangesMeant
<1>5. ASSUME NEW ok \in BOOLEAN, Fleet!Bound(ok) PROVE Fleet!RowsTrue' /\ FollowsIt' /\ ShownOfIt' /\ ChangesMeant'
  <2>1. Fleet!selectedAsset' = Fleet!selectedAsset
    BY <1>5 DEF Fleet!Bound, Fleet!fleet, Fleet!panel, Fleet!selectedAsset
  <2>. QED BY <1>5, <2>1 DEF Fleet!Bound, Fleet!fleet, Fleet!panel, Fleet!forms, Fleet!RowsTrue, FollowsIt, ShownOfIt, ChangesMeant
<1>. QED BY <1>1, <1>2, <1>3, <1>4, <1>5

LEMMA FleetStep == ASSUME Fleet!AssetAssumption, Fleet!AssetInv, [Fleet!Next]_(Fleet!assetVars) PROVE Fleet!AssetInv'
<1> USE DEF Fleet!fleet, Fleet!panel, Fleet!forms, Fleet!tabs
<1>1. Fleet!RowsTrue /\ FollowsIt /\ ShownOfIt /\ ChangesMeant
  BY FleetInvIs
<1>2. SUFFICES Fleet!RowsTrue' /\ FollowsIt' /\ ShownOfIt' /\ ChangesMeant'
  BY FleetInvIs, PTL
<1>3. CASE Fleet!openAssetDetail
  <2>1. PICK r \in overview :
          /\ uid' = r.uid /\ snapshot' = r
          /\ Fleet!DraftFor(r) /\ Fleet!TabsFor(r)
          /\ detail' = Fleet!NoRow /\ asked' = [uid |-> r.uid, range |-> range]
    BY <1>3 DEF Fleet!openAssetDetail, Fleet!filteredAssets
  <2>2. uid = Fleet!None /\ r.uid # Fleet!None /\ overview' = overview
    BY <1>1, <1>3 DEF Fleet!openAssetDetail, Fleet!RowsTrue
  <2>3. Fleet!selectedAsset = Fleet!NoRow
    BY <2>2 DEF Fleet!selectedAsset
  <2>4. /\ draft' = r.uid /\ tab' = "performance" /\ binding' = r.uid /\ routerUid' = Fleet!None
    BY <2>1, <2>2, <2>3, NoRowFound DEF Fleet!DraftFor, Fleet!ResetDraft, Fleet!TabsFor
  <2>5. Fleet!selectedAsset'.uid = r.uid
    <3>1. Fleet!selectedAsset' = Fleet!Selected(overview, r.uid, r)
      BY <2>1, <2>2 DEF Fleet!selectedAsset
    <3>2. Fleet!Find(overview, r.uid) = Fleet!NoRow \/ Fleet!Find(overview, r.uid).uid = r.uid
      BY RowFound
    <3>. QED BY <3>1, <3>2 DEF Fleet!Selected
  <2>. QED BY <1>1, <1>3, <2>1, <2>2, <2>4, <2>5, NoRowFound DEF Fleet!openAssetDetail, Fleet!RowsTrue, FollowsIt, ShownOfIt, ChangesMeant
<1>4. CASE Fleet!returnToList \/ Fleet!ToggleCreate
  BY <1>1, <1>4, SelectionLeft DEF Fleet!returnToList, Fleet!ToggleCreate, Fleet!RowsTrue, ChangesMeant
<1>5. CASE Fleet!StartEdit
  BY <1>1, <1>5, SelectionStays DEF Fleet!StartEdit, Fleet!RowsTrue, ShownOfIt, ChangesMeant
<1>6. CASE Fleet!CancelEdit
  <2>1. Fleet!selectedAsset' = Fleet!selectedAsset
    BY <1>6 DEF Fleet!CancelEdit, Fleet!selectedAsset
  <2>. QED BY <1>1, <1>6, <2>1, SelectionIs DEF Fleet!CancelEdit, Fleet!RowsTrue, FollowsIt, ShownOfIt, ChangesMeant
<1>7. ASSUME NEW kind \in {"create", "update", "delete"}, NEW a, Fleet!Send(kind, a), a # Fleet!None, kind = "update" => draft = a
      PROVE Fleet!RowsTrue' /\ FollowsIt' /\ ShownOfIt' /\ ChangesMeant'
  BY <1>1, <1>7, SelectionStays DEF Fleet!Send, Fleet!RowsTrue, ShownOfIt, ChangesMeant
<1>8. CASE Fleet!submitEdit
  BY <1>1, <1>7, <1>8, SelectionIs, NoRowFound DEF Fleet!submitEdit, FollowsIt
<1>9. CASE Fleet!deleteSelectedAsset
  BY <1>7, <1>9, SelectionIs, NoRowFound DEF Fleet!deleteSelectedAsset, Fleet!canMutateSelected
<1>10. CASE Fleet!submitCreate
  BY <1>7, <1>10 DEF Fleet!submitCreate, Fleet!AssetAssumption
<1>11. ASSUME NEW s \in saves, Fleet!Serve(s) PROVE Fleet!RowsTrue' /\ FollowsIt' /\ ShownOfIt' /\ ChangesMeant'
  BY <1>1, <1>11, SelectionStays DEF Fleet!Serve, Fleet!RowsTrue, ShownOfIt, ChangesMeant
<1>12. ASSUME NEW s \in saves, Fleet!Refused(s) PROVE Fleet!RowsTrue' /\ FollowsIt' /\ ShownOfIt' /\ ChangesMeant'
  BY <1>1, <1>12, SelectionStays DEF Fleet!Refused, Fleet!RowsTrue, ShownOfIt, ChangesMeant
<1>13. ASSUME NEW s \in saves, Fleet!Saved(s) PROVE Fleet!RowsTrue' /\ FollowsIt' /\ ShownOfIt' /\ ChangesMeant'
  <2>1. Fleet!RowsTrue' /\ ChangesMeant'
    BY <1>1, <1>13, FleetRows DEF Fleet!Saved, Fleet!Load, Fleet!RowsTrue, ChangesMeant
  <2>2. CASE s.kind \in {"create", "update"}
    BY <1>1, <1>13, <2>1, <2>2, SelectionStays DEF Fleet!Saved, ShownOfIt
  <2>3. CASE s.kind = "delete"
    BY <1>13, <2>1, <2>3, SelectionLeft DEF Fleet!Saved
  <2>. QED BY <1>1, <2>2, <2>3 DEF Fleet!RowsTrue
<1>14. ASSUME NEW t \in Tabs, Fleet!OpenTab(t) PROVE Fleet!RowsTrue' /\ FollowsIt' /\ ShownOfIt' /\ ChangesMeant'
  <2>1. Fleet!selectedAsset' = Fleet!selectedAsset
    BY <1>14 DEF Fleet!OpenTab, Fleet!selectedAsset
  <2>. QED BY <1>1, <1>14, <2>1 DEF Fleet!OpenTab, Fleet!HasRouterTab, Fleet!RowsTrue, FollowsIt, ShownOfIt, ChangesMeant
<1>15. CASE Fleet!Elsewhere
  BY <1>1, <1>15, SelectionStays DEF Fleet!Elsewhere, Fleet!RowsTrue, ShownOfIt, ChangesMeant
<1>16. CASE UNCHANGED Fleet!assetVars
  BY <1>1, <1>16, SelectionStays DEF Fleet!assetVars, Fleet!RowsTrue, ShownOfIt, ChangesMeant
<1>. QED BY <1>1, <1>3, <1>4, <1>5, <1>6, <1>8, <1>9, <1>10, <1>11, <1>12, <1>13, <1>14, <1>15, <1>16, FleetReads DEF Fleet!Next

LEMMA FleetInit == ASSUME Fleet!AssetAssumption, Fleet!Init PROVE Fleet!AssetInv
<1>1. Fleet!RowsTrue
  BY DEF Fleet!Init, Fleet!AssetAssumption, Fleet!RowsTrue, Fleet!Fleet, Fleet!Row
<1>2. Fleet!selectedAsset = Fleet!NoRow
  BY DEF Fleet!Init, Fleet!selectedAsset
<1>3. FollowsIt /\ ShownOfIt /\ ChangesMeant
  BY <1>2, NoRowFound DEF Fleet!Init, FollowsIt, ShownOfIt, ChangesMeant
<1>. QED BY <1>1, <1>3, FleetInvIs

\* OneAssetShown of AssetConsole, for all assets, tabs and ranges and any number of loads and
\* changes on their way.
THEOREM FleetTrue == ASSUME Fleet!AssetAssumption PROVE Fleet!Spec => []Fleet!OneAssetShown
<1>1. Fleet!Init => Fleet!AssetInv
  BY FleetInit
<1>2. Fleet!AssetInv => Fleet!OneAssetShown
  BY DEF Fleet!AssetInv
<1>. QED BY <1>1, <1>2, FleetStep, PTL DEF Fleet!Spec

-------------------------------------------------------------------------------
(* The log views.  Of the requests under way that count, each is for the filters    *)
(* that are set.                                                                    *)
Logs == INSTANCE LogViews

\* What a step does to the requests, and the view's own promise, from that.
LEMMA LogsStep == ASSUME Logs!LogInv, [Logs!Next]_(Logs!logVars) PROVE Logs!LogInv'
<1> USE DEF Logs!LogInv, Logs!ShownUnderItsFilters, Logs!Shown, Logs!Keyed, Logs!NoPage
<1>1. ASSUME NEW k, Logs!Ask(k) PROVE /\ \A a \in asks' : DOMAIN a = {"key", "live"} /\ (a.live => a.key = k)
                                      /\ loading'
  BY <1>1 DEF Logs!Ask, Logs!Superseded
<1>2. ASSUME NEW k, Logs!Change(k), UNCHANGED <<view, data, active>>, active PROVE Logs!LogInv'
  <2>1. CASE k = key
    BY <1>2, <2>1 DEF Logs!Change
  <2>2. CASE k # key
    BY <1>1, <1>2, <2>2 DEF Logs!Change
  <2>. QED BY <2>1, <2>2
<1>3. CASE active /\ Logs!Filter
  <2>1. ASSUME NEW c \in Choices, Logs!SetChoice(c) PROVE Logs!LogInv'
    BY <1>2, <1>3, <2>1 DEF Logs!SetChoice
  <2>2. ASSUME NEW t \in Texts, Logs!Type(t) PROVE Logs!LogInv'
    BY <1>2, <1>3, <2>2 DEF Logs!Type
  <2>3. CASE Logs!Send
    BY <1>2, <1>3, <2>3 DEF Logs!Send
  <2>4. CASE Logs!Inspect
    BY <1>2, <1>3, <2>4 DEF Logs!Inspect
  <2>5. CASE Logs!Page
    BY <1>2, <1>3, <2>5 DEF Logs!Page
  <2>6. CASE Logs!Select \/ Logs!Deselect
    BY <2>6 DEF Logs!Select, Logs!Deselect
  <2>. QED BY <1>3, <2>1, <2>2, <2>3, <2>4, <2>5, <2>6 DEF Logs!Filter
<1>4. CASE Logs!Reload
  BY <1>1, <1>4 DEF Logs!Reload
<1>5. CASE Logs!Leave
  BY <1>5 DEF Logs!Leave, Logs!Superseded
<1>6. CASE Logs!Return
  BY <1>1, <1>6 DEF Logs!Return
<1>7. ASSUME NEW a \in asks, Logs!Fail(a) PROVE Logs!LogInv'
  BY <1>7 DEF Logs!Fail, Logs!Counts
<1>8. ASSUME NEW a \in asks, NEW more \in BOOLEAN, Logs!Answer(a, more) PROVE Logs!LogInv'
  BY <1>8 DEF Logs!Answer, Logs!Counts
<1>9. CASE UNCHANGED Logs!logVars
  BY <1>9 DEF Logs!logVars
<1>. QED BY <1>3, <1>4, <1>5, <1>6, <1>7, <1>8, <1>9 DEF Logs!Next

LEMMA LogsInit == ASSUME Logs!Init PROVE Logs!LogInv
  BY DEF Logs!Init, Logs!LogInv, Logs!ShownUnderItsFilters

\* ShownUnderItsFilters of LogViews, for every set of views and choices and any number of
\* requests that overtake each other.
THEOREM LogsTrue == Logs!Spec => []Logs!ShownUnderItsFilters
<1>1. Logs!Init => Logs!LogInv
  BY LogsInit
<1>2. Logs!LogInv => Logs!ShownUnderItsFilters
  BY DEF Logs!LogInv
<1>. QED BY <1>1, <1>2, LogsStep, PTL DEF Logs!Spec

-------------------------------------------------------------------------------
(* The shell.  What waits for an alert's change is the request of the view.          *)
Shell == INSTANCE ConsoleShell WITH
  Users <- Accounts, MaxLoads <- MaxFleetLoads, MaxUpdates <- MaxAlertUpdates

\* The menu of every role has the overview.
LEMMA ViewOnMenu == Shell!activeView \in Shell!menuItemsForRole(Shell!Role(user))
  BY DEF Shell!activeView, Shell!menuItemsForRole, Shell!AllItems

\* The promise in terms of single requests.
AlertWaits == \A a : (\E u \in updates : u.view = "alerts" /\ u.id = a) <=> (a = pending /\ a # Shell!NoAlert)
LEMMA AlertWaitsIs == Shell!ShellTrue <=> AlertWaits
<1>1. AlertWaits => {u.id : u \in {v \in updates : v.view = "alerts"}} = {pending} \ {Shell!NoAlert}
  BY DEF AlertWaits
<1>2. {u.id : u \in {v \in updates : v.view = "alerts"}} = {pending} \ {Shell!NoAlert} => AlertWaits
  BY DEF AlertWaits
<1>. QED BY <1>1, <1>2, ViewOnMenu DEF Shell!ShellTrue

LEMMA ShellStep == ASSUME Shell!ShellAssumption, Shell!ShellInv, [Shell!Next]_(Shell!shellVars) PROVE Shell!ShellInv'
<1>1. AlertWaits /\ (AlertWaits' => Shell!ShellTrue')
  BY AlertWaitsIs, PTL DEF Shell!ShellInv
<1>2. /\ \A u \in updates : Shell!Request(u) /\ u.id \in Alerts
      /\ \A u, v \in updates : u.view = "alerts" /\ v.view = "alerts" => u = v
  BY DEF Shell!ShellInv
<1>3. SUFFICES /\ \A u \in updates' : Shell!Request(u) /\ u.id \in Alerts
               /\ \A u, v \in updates' : u.view = "alerts" /\ v.view = "alerts" => u = v
               /\ AlertWaits'
  BY <1>1 DEF Shell!ShellInv
<1> USE DEF Shell!Request, AlertWaits
<1>4. CASE Shell!Unmount
  <2>1. ASSUME NEW u \in updates PROVE LET gone == [u EXCEPT !.view = "none"] IN Shell!Request(gone) /\ gone.id = u.id /\ gone.view = "none"
    BY <1>2
  <2>2. \A u \in updates' : Shell!Request(u) /\ u.id \in Alerts /\ u.view = "none"
    BY <1>2, <1>4, <2>1 DEF Shell!Unmount
  <2>. QED BY <1>4, <2>2 DEF Shell!Unmount
<1>5. CASE UNCHANGED <<updates, pending>>
  BY <1>1, <1>2, <1>5
<1>6. ASSUME NEW a \in Alerts, NEW to, Shell!Update(a, to) PROVE <1>3!1
  <2>. DEFINE new == [id |-> a, to |-> to, stage |-> "sent", role |-> Shell!Role(user), view |-> "alerts"]
  <2>1. updates' = updates \cup {new} /\ pending = Shell!NoAlert /\ pending' = a /\ a # Shell!NoAlert
    BY <1>6 DEF Shell!Update, Shell!Ask, Shell!ShellAssumption
  <2>2. Shell!Request(new) /\ new.id = a /\ new.view = "alerts"
    OBVIOUS
  <2>3. \A u \in updates : u.view # "alerts"
    BY <1>1, <2>1
  <2>. HIDE DEF new
  <2>. QED BY <1>1, <1>2, <2>1, <2>2, <2>3
<1>7. ASSUME NEW a \in Alerts, Shell!AcknowledgeSelected(a) PROVE <1>3!1
  <2>. DEFINE new == [id |-> a, to |-> "ACKNOWLEDGED", stage |-> "sent", role |-> Shell!Role(user), view |-> "overview"]
  <2>1. updates' = updates \cup {new} /\ pending' = pending
    BY <1>7 DEF Shell!AcknowledgeSelected, Shell!Ask
  <2>2. Shell!Request(new) /\ new.id = a /\ new.view = "overview"
    OBVIOUS
  <2>. HIDE DEF new
  <2>. QED BY <1>1, <1>2, <2>1, <2>2
<1>8. ASSUME NEW u \in updates, Shell!Serve(u) PROVE <1>3!1
  <2>. DEFINE new == [u EXCEPT !.stage = "served"]
  <2>1. updates' = (updates \ {u}) \cup {new} /\ pending' = pending
    BY <1>8 DEF Shell!Serve
  <2>2. Shell!Request(new) /\ new.id = u.id /\ new.view = u.view
    BY <1>2
  <2>. HIDE DEF new
  <2>. QED BY <1>1, <1>2, <2>1, <2>2
<1>9. ASSUME NEW u \in updates, Shell!Answered(u) \/ Shell!Refused(u) PROVE <1>3!1
  <2>1. updates' = updates \ {u} /\ pending' = IF u.view = "alerts" THEN Shell!NoAlert ELSE pending
    BY <1>9 DEF Shell!Answered, Shell!Refused
  <2>2. CASE u.view = "alerts"
    BY <1>2, <2>1, <2>2
  <2>3. CASE u.view # "alerts"
    BY <1>1, <1>2, <2>1, <2>3
  <2>. QED BY <2>2, <2>3
<1>10. CASE UNCHANGED Shell!shellVars
  BY <1>5, <1>10 DEF Shell!shellVars
<1>11. CASE Shell!Boots \/ Shell!createAdmin \/ Shell!Refresh \/ Shell!AskLinks
  BY <1>5, <1>11 DEF Shell!Boots, Shell!Boot, Shell!createAdmin, Shell!Refresh, Shell!AskLinks
<1>12. CASE (\E u \in DOMAIN Accounts : Shell!login(u)) \/ (\E l \in loads : Shell!ServeLoad(l) \/ Shell!Loaded(l) \/ Shell!LoadFailed(l))
  BY <1>5, <1>12 DEF Shell!login, Shell!ServeLoad, Shell!Loaded, Shell!LoadFailed
<1>13. CASE Shell!logout \/ \E i \in Shell!AllItems : Shell!openMenuItem(i)
  BY <1>4, <1>13 DEF Shell!logout, Shell!openMenuItem
<1>14. ASSUME NEW found \in BOOLEAN, Shell!LinksAnswered(found) PROVE <1>3!1
  BY <1>4, <1>5, <1>14 DEF Shell!LinksAnswered
<1>15. ASSUME NEW a \in Alerts, Shell!Elsewhere(a) PROVE <1>3!1
  BY <1>5, <1>15 DEF Shell!Elsewhere
<1>. QED BY <1>6, <1>7, <1>8, <1>9, <1>10, <1>11, <1>12, <1>13, <1>14, <1>15 DEF Shell!Next

LEMMA ShellInit == ASSUME Shell!Init PROVE Shell!ShellInv
  BY AlertWaitsIs DEF Shell!Init, Shell!ShellInv, AlertWaits

\* ShellTrue of ConsoleShell, for all users, roles and alerts and any number of loads and
\* updates on their way.
THEOREM ShellHolds == ASSUME Shell!ShellAssumption PROVE Shell!Spec => []Shell!ShellTrue
<1>1. Shell!Init => Shell!ShellInv
  BY ShellInit
<1>2. Shell!ShellInv => Shell!ShellTrue
  BY DEF Shell!ShellInv
<1>. QED BY <1>1, <1>2, ShellStep, PTL DEF Shell!Spec

-------------------------------------------------------------------------------
(* The overview.  The row that is inspected is one of the rows, and the detail that *)
(* is shown or waited for is its own.                                               *)
Centre == INSTANCE Overview WITH Observed <- Reporting, Registered <- RegisteredHosts, Ranges <- Windows

LEMMA Disowned == ASSUME Centre!OverviewInv
  PROVE  /\ Centre!Detail([detail EXCEPT !.newest = FALSE])
         /\ \A d \in Centre!Dead : Centre!DetailRequest(d) /\ ~ d.live
<1>1. ASSUME NEW d, Centre!Detail(d) PROVE Centre!Detail([d EXCEPT !.newest = FALSE])
  BY <1>1 DEF Centre!Detail
<1>2. ASSUME NEW d, Centre!DetailRequest(d) PROVE Centre!DetailRequest([d EXCEPT !.live = FALSE]) /\ ~ [d EXCEPT !.live = FALSE].live
  BY <1>2 DEF Centre!DetailRequest
<1>. QED BY <1>1, <1>2 DEF Centre!OverviewInv, Centre!Dead
LEMMA NewDetail == ASSUME NEW a, NEW b PROVE Centre!DetailRequest([uid |-> a, live |-> b]) /\ Centre!Detail([uid |-> a, newest |-> b])
  BY DEF Centre!DetailRequest, Centre!Detail

\* The selection settles, on a row if there is one, and its detail is asked for.
LEMMA OverviewSettles ==
  ASSUME Centre!OverviewInv, NEW m, NEW q, NEW u, NEW again \in BOOLEAN, Centre!Settle(m, q, u, again), metrics' = m, query' = q
  PROVE  Centre!OverviewInv'
<1> USE DEF Centre!OverviewInv, Centre!InspectorTrue, Centre!Detail, Centre!DetailRequest
<1>1. PICK a \in Centre!Choice(m, q, u) :
        /\ uid' = a
        /\ IF a = Centre!NoAsset THEN detail' = Centre!NoDetail /\ details' = Centre!Dead /\ lostDetail' = FALSE
           ELSE IF a # uid \/ again
           THEN /\ details' = Centre!Dead \cup {[uid |-> a, live |-> TRUE]}
                /\ detail' = [detail EXCEPT !.newest = FALSE] /\ lostDetail' = FALSE
           ELSE UNCHANGED <<detail, details, lostDetail>>
  BY DEF Centre!Settle
<1>2. /\ uid' \in Centre!managed(metrics') \cup {Centre!NoAsset}
      /\ (Centre!rows(metrics', query') # {} => uid' \in Centre!rows(metrics', query'))
  BY <1>1 DEF Centre!Choice, Centre!rows
<1>4. CASE a = Centre!NoAsset
  BY <1>1, <1>2, Disowned, NewDetail, <1>4 DEF Centre!NoDetail, Centre!selectedDetail
<1>5. CASE a # Centre!NoAsset /\ (a # uid \/ again)
  <2>1. Centre!Detail(detail')
    BY <1>1, <1>5, Disowned
  <2>2. details' = Centre!Dead \cup {[uid |-> a, live |-> TRUE]} /\ uid' = a
    BY <1>1, <1>5
  <2>3. \A d \in details' : Centre!DetailRequest(d) /\ (d.live => d.uid = uid')
    <3>1. ASSUME NEW d \in Centre!Dead PROVE Centre!DetailRequest(d) /\ ~ d.live
      BY Disowned
    <3>. QED BY <2>2, <3>1
  <2>4. \E d \in details' : d.live
    <3>. DEFINE new == [uid |-> a, live |-> TRUE]
    <3>1. new \in details' /\ new.live
      BY <2>2
    <3>. QED BY <3>1
  <2>. QED BY <1>2, <2>1, <2>3, <2>4 DEF Centre!selectedDetail
<1>6. CASE a # Centre!NoAsset /\ a = uid /\ ~ again
  BY <1>1, <1>2, <1>6 DEF Centre!selectedDetail, Centre!NoDetail
<1>. QED BY <1>4, <1>5, <1>6

LEMMA OverviewStep == ASSUME Centre!OverviewInv, [Centre!Next]_(Centre!overviewVars) PROVE Centre!OverviewInv'
<1>1. ASSUME UNCHANGED <<metrics, query, uid, detail, lostDetail, details>> PROVE Centre!OverviewInv'
  BY <1>1 DEF Centre!OverviewInv, Centre!InspectorTrue, Centre!selectedDetail, Centre!NoDetail, Centre!rows, Centre!managed
<1>2. ASSUME NEW r \in Windows, Centre!setRange(r) PROVE Centre!OverviewInv'
  BY <1>1, <1>2 DEF Centre!setRange
<1>3. CASE Centre!Tick \/ Centre!Refresh
  BY <1>1, <1>3 DEF Centre!Tick, Centre!Refresh
<1>4. ASSUME NEW q \in Queries, Centre!Type(q) PROVE Centre!OverviewInv'
  BY <1>4, OverviewSettles DEF Centre!Type
<1>5. ASSUME NEW a \in Reporting \cup RegisteredHosts, Centre!Select(a) PROVE Centre!OverviewInv'
  BY <1>5, OverviewSettles DEF Centre!Select
<1>6. ASSUME NEW r \in reads, Centre!ReadFails(r) PROVE Centre!OverviewInv'
  BY <1>1, <1>6, OverviewSettles DEF Centre!ReadFails
<1>7. ASSUME NEW r \in reads, NEW seen \in SUBSET Reporting, NEW all \in BOOLEAN, Centre!ReadEnds(r, seen, all) PROVE Centre!OverviewInv'
  BY <1>7, OverviewSettles DEF Centre!ReadEnds
<1>8. ASSUME NEW d \in details, Centre!DetailArrives(d) \/ Centre!DetailFails(d) PROVE Centre!OverviewInv'
  <2> USE <1>8 DEF Centre!DetailArrives, Centre!DetailFails, Centre!Counts, Centre!OverviewInv, Centre!InspectorTrue, Centre!Detail, Centre!DetailRequest
  <2>1. /\ uid' \in Centre!managed(metrics') \cup {Centre!NoAsset}
        /\ (Centre!rows(metrics', query') # {} => uid' \in Centre!rows(metrics', query'))
    BY DEF Centre!rows, Centre!managed
  <2>2. CASE d.live
    BY <2>1, <2>2, NewDetail DEF Centre!NoDetail, Centre!selectedDetail
  <2>3. CASE ~ d.live
    BY <2>1, <2>3 DEF Centre!NoDetail, Centre!selectedDetail
  <2>. QED BY <2>2, <2>3
<1>9. CASE UNCHANGED Centre!overviewVars
  BY <1>1, <1>9 DEF Centre!overviewVars
<1>. QED BY <1>2, <1>3, <1>4, <1>5, <1>6, <1>7, <1>8, <1>9 DEF Centre!Next

LEMMA OverviewInit == ASSUME Centre!OverviewAssumption, Centre!Init PROVE Centre!OverviewInv
<1>1. query \in Queries /\ Matches[query] = Reporting \cup RegisteredHosts
  BY DEF Centre!Init, Centre!OverviewAssumption
<1>2. Centre!rows(metrics, query) = RegisteredHosts /\ Centre!managed(metrics) = RegisteredHosts
  BY <1>1 DEF Centre!Init, Centre!rows, Centre!managed
<1>. QED BY <1>2 DEF Centre!Detail, Centre!DetailRequest, Centre!Init, Centre!OverviewInv, Centre!InspectorTrue, Centre!NoDetail, Centre!selectedDetail

\* InspectorTrue of Overview, for all sets of assets and searches and any number of readings
\* and details on their way.
THEOREM OverviewTrue == ASSUME Centre!OverviewAssumption PROVE Centre!Spec => []Centre!InspectorTrue
<1>1. Centre!Init => Centre!OverviewInv
  BY OverviewInit
<1>2. Centre!OverviewInv => Centre!InspectorTrue
  BY DEF Centre!OverviewInv
<1>. QED BY <1>1, <1>2, OverviewStep, PTL DEF Centre!Spec

-------------------------------------------------------------------------------
(* Live Tail.  One socket at most is the page's, and that one or a timer there is   *)
(* exactly while the setting is on.                                                 *)
Live == INSTANCE LiveTail WITH Kept <- KeptEvents, MaxReads <- MaxPolls

\* The sockets of the page, and what it says of them.
Callbacks ==
  /\ timer \in BOOLEAN /\ DOMAIN socket = Sockets
  /\ \A s \in Sockets : DOMAIN socket[s] = {"state", "mine", "up", "wire"} /\ socket[s].mine \in BOOLEAN
  /\ \A s, r \in Sockets : socket[s].mine /\ socket[r].mine => s = r
  /\ (\E s \in Sockets : socket[s].mine) <=> status = "on" /\ ~ timer
  /\ timer => status = "on"
Said ==
  /\ connection = "Connected" => \E s \in Sockets : socket[s].mine /\ socket[s].state \in {"open", "broken"}
  /\ timer => connection = "Reconnecting"
  /\ status # "on" <=> connection = "Disconnected"
LEMMA LiveCount == ASSUME NEW S PROVE Live!Cardinality(S) = Cardinality(S)
  BY DEF Live!Cardinality, Cardinality
LEMMA TailInvIs == Live!TailInv <=> Callbacks /\ Said
<1>1. ASSUME Callbacks PROVE Cardinality({s \in Sockets : socket[s].mine}) + (IF timer THEN 1 ELSE 0) = IF status = "on" THEN 1 ELSE 0
  <2>1. CASE \E s \in Sockets : socket[s].mine
    <3>1. PICK s \in Sockets : socket[s].mine
      BY <2>1
    <3>2. {r \in Sockets : socket[r].mine} = {s}
      BY <1>1, <3>1 DEF Callbacks
    <3>3. Cardinality({r \in Sockets : socket[r].mine}) = 1
      BY <3>2, FS_Singleton
    <3>. QED BY <1>1, <2>1, <3>3 DEF Callbacks
  <2>2. CASE ~ \E s \in Sockets : socket[s].mine
    <3>1. {r \in Sockets : socket[r].mine} = {}
      BY <2>2
    <3>2. Cardinality({r \in Sockets : socket[r].mine}) = 0
      BY <3>1, FS_EmptySet
    <3>. QED BY <1>1, <2>2, <3>2 DEF Callbacks
  <2>. QED BY <2>1, <2>2
<1>2. ASSUME Callbacks, Said PROVE Live!TailTrue
  BY <1>1, <1>2, LiveCount DEF Said, Live!TailTrue
<1>3. ASSUME Live!TailInv PROVE Callbacks /\ Said
  <2>1. Callbacks
    BY <1>3 DEF Callbacks, Live!TailInv
  <2>2. Said
    BY <1>3 DEF Said, Live!TailInv, Live!TailTrue
  <2>. QED BY <2>1, <2>2
<1>4. ASSUME Callbacks, Said PROVE Live!TailInv
  BY <1>2, <1>4 DEF Callbacks, Live!TailInv
<1>. QED BY <1>3, <1>4

\* Once the effect has been cleaned up no callback counts; a new socket's then do.
LEMMA StoppedIs == ASSUME Callbacks
  PROVE /\ DOMAIN Live!Stopped = Sockets
        /\ \A s \in Sockets : DOMAIN Live!Stopped[s] = {"state", "mine", "up", "wire"} /\ Live!Stopped[s].mine = FALSE
  BY DEF Callbacks, Live!Stopped
LEMMA Started == ASSUME NEW s \in Sockets, NEW others, DOMAIN others = Sockets,
    \A r \in Sockets : DOMAIN others[r] = {"state", "mine", "up", "wire"} /\ others[r].mine = FALSE,
    Live!connect(s, others), timer' = FALSE, status' = "on", connection' = "Connecting"
  PROVE Callbacks' /\ Said'
  BY DEF Live!connect, Callbacks, Said
LEMMA Effects == ASSUME Callbacks, NEW on, Live!Effect(on), status' = on PROVE Callbacks' /\ Said'
<1>1. CASE on = "on"
  BY <1>1, StoppedIs, Started DEF Live!Effect, Live!Free
<1>2. CASE on # "on"
  BY <1>2, StoppedIs DEF Live!Effect, Callbacks, Said
<1>. QED BY <1>1, <1>2
LEMMA Statuses == ASSUME Callbacks, Said, NEW value, Live!SetStatus(value) PROVE Callbacks' /\ Said'
<1>1. CASE value = status
  BY <1>1 DEF Live!SetStatus, Callbacks, Said
<1>2. CASE value # status
  BY <1>2, Effects DEF Live!SetStatus
<1>. QED BY <1>1, <1>2

LEMMA TailStep == ASSUME Live!TailInv, [Live!Next]_(Live!tailVars) PROVE Live!TailInv'
<1> USE DEF Live!ServerOnly, Live!PageOnly
<1>1. Callbacks /\ Said
  BY TailInvIs
<1>2. SUFFICES Callbacks' /\ Said'
  BY TailInvIs, PTL
<1>3. ASSUME UNCHANGED <<socket, timer, status, connection>> PROVE Callbacks' /\ Said'
  BY <1>1, <1>3 DEF Callbacks, Said
<1>4. ASSUME NEW w \in Workers, Live!broadcastLog(w) \/ Live!broadcast(w) PROVE Callbacks' /\ Said'
  BY <1>3, <1>4 DEF Live!broadcastLog, Live!broadcast
<1>5. ASSUME NEW w \in Workers, NEW s \in Sockets, Live!sendMessage(w, s) PROVE Callbacks' /\ Said'
  BY <1>1, <1>5 DEF Live!sendMessage, Callbacks, Said
<1>6. ASSUME NEW s \in Sockets, Live!registerSession(s) \/ Live!removeSession(s) PROVE Callbacks' /\ Said'
  BY <1>1, <1>6 DEF Live!registerSession, Live!removeSession, Callbacks, Said
<1>7. ASSUME NEW s \in Sockets, Live!Break(s) PROVE Callbacks' /\ Said'
  BY <1>1, <1>7 DEF Live!Break, Callbacks, Said
<1>8. ASSUME NEW s \in Sockets, Live!onopen(s) PROVE Callbacks' /\ Said'
  BY <1>1, <1>8 DEF Live!onopen, Callbacks, Said
<1>9. ASSUME NEW s \in Sockets, Live!onmessage(s) PROVE Callbacks' /\ Said'
  BY <1>1, <1>9 DEF Live!onmessage, Callbacks, Said
<1>10. ASSUME NEW s \in Sockets, Live!onerror(s) PROVE Callbacks' /\ Said'
  BY <1>1, <1>10 DEF Live!onerror, Callbacks, Said
<1>11. ASSUME NEW s \in Sockets, Live!reconnect(s) PROVE Callbacks' /\ Said'
  <2>1. CASE socket[s].mine
    BY <1>1, <1>11, <2>1 DEF Live!reconnect, Callbacks, Said
  <2>2. CASE ~ socket[s].mine
    <3>1. /\ DOMAIN socket' = Sockets
          /\ \A r \in Sockets : DOMAIN socket'[r] = {"state", "mine", "up", "wire"}
          /\ \A r \in Sockets : socket'[r].mine = socket[r].mine
      BY <1>1, <1>11, <2>2 DEF Live!reconnect, Callbacks
    <3>2. \A r \in Sockets : socket[r].mine => socket'[r] = socket[r]
      BY <1>1, <1>11, <2>2 DEF Live!reconnect, Callbacks
    <3>3. UNCHANGED <<timer, status, connection>>
      BY <1>11, <2>2 DEF Live!reconnect
    <3>. QED BY <1>1, <3>1, <3>2, <3>3 DEF Callbacks, Said
  <2>. QED BY <2>1, <2>2
<1>12. CASE Live!Elapsed
  BY <1>1, <1>12, Started DEF Live!Elapsed, Live!Free, Callbacks
<1>13. CASE Live!poll \/ Live!toggle \/ Live!Elsewhere \/ Live!Pause \/ Live!Clear \/ UNCHANGED Live!tailVars
  BY <1>3, <1>13 DEF Live!poll, Live!toggle, Live!Elsewhere, Live!Pause, Live!Clear, Live!tailVars
<1>14. ASSUME NEW i \in DOMAIN reads, Live!Read(i) \/ Live!setError(i) PROVE Callbacks' /\ Said'
  BY <1>3, <1>14 DEF Live!Read, Live!setError
<1>15. ASSUME NEW i \in DOMAIN reads, Live!setData(i) PROVE Callbacks' /\ Said'
  BY <1>1, <1>15, Statuses DEF Live!setData
<1>16. ASSUME NEW did \in BOOLEAN, NEW answered \in BOOLEAN, Live!toggled(did, answered) PROVE Callbacks' /\ Said'
  <2>1. CASE answered
    BY <1>1, <1>16, <2>1, Statuses DEF Live!toggled, Live!refresh
  <2>2. CASE ~ answered
    BY <1>3, <1>16, <2>2 DEF Live!toggled
  <2>. QED BY <2>1, <2>2
<1>17. CASE Live!Reconnect
  BY <1>1, <1>17, Effects DEF Live!Reconnect
<1>. QED BY <1>4, <1>5, <1>6, <1>7, <1>8, <1>9, <1>10, <1>11, <1>12, <1>13, <1>14, <1>15, <1>16, <1>17 DEF Live!Next

LEMMA TailInit == ASSUME Live!Init PROVE Live!TailInv
<1>1. /\ socket = [s \in Sockets |-> [state |-> "closed", mine |-> FALSE, up |-> FALSE, wire |-> <<>>]]
      /\ timer = FALSE /\ status = "unknown" /\ connection = "Disconnected"
  BY DEF Live!Init, Live!Unused, Live!Unknown
<1>2. DOMAIN socket = Sockets /\ \A s \in Sockets : DOMAIN socket[s] = {"state", "mine", "up", "wire"} /\ socket[s].mine = FALSE
  BY <1>1
<1>3. Callbacks /\ Said
  BY <1>1, <1>2 DEF Callbacks, Said
<1>. QED BY <1>3, TailInvIs

\* TailTrue of LiveTail, for any number of sockets, workers, events and readings of the setting.
THEOREM TailStays == Live!Spec => []Live!TailTrue
<1>1. Live!Init => Live!TailInv
  BY TailInit
<1>2. Live!TailInv => Live!TailTrue
  BY DEF Live!TailInv
<1>. QED BY <1>1, <1>2, TailStep, PTL DEF Live!Spec

-------------------------------------------------------------------------------
consolesVars ==
  <<part,
    row, stored, tasks, started, listed, selectedId, history, dialog,
    version, current, needs, granted, pending,
    stamp, cookie, session, logins, page, load, ask, opened, runs, done,
    service, tokens, csrs, certs, open, release, form,
    router, command, task, clock, claimed, phase, journal, carried, state, config, draft, asked, work,
    status, held, token, policy, list, policiesLoaded, selected, confirm, working, loading,
    target, previous, staged, proc, attempt, proven, gaveUp, left,
    file, db, checkpoint, copies, archives, told, entries, faults,
    disk, late, access, shown, clipboard, back, forward, busy,
    registry, props, range, overview, loads, uid, snapshot, detail, detailLoading, editing, creating, saves, sent,
    tab, binding, routerUid,
    view, key, typed, asks, data, error, active,
    alert, boot, user, refreshing, failed, linking, updates,
    metrics, delayed, query, lostDetail, reads, details,
    enabled, sessions, made, sending, socket, post, connection, timer, paused, events>>

--------------------------------------------------------------------------------
Init ==
  \/ part = "vault" /\ Safe!Init
  \/ part = "keys" /\ KeyRing!Init
  \/ part = "desk" /\ Desk!Init
  \/ part = "services" /\ Portal!Init
  \/ part = "router" /\ Router!Init
  \/ part = "agents" /\ Lifecycle!Init
  \/ part = "update" /\ SelfUpdate!Init
  \/ part = "store" /\ KeyStore!Init
  \/ part = "files" /\ Files!Init
  \/ part = "assets" /\ Fleet!Init
  \/ part = "logs" /\ Logs!Init
  \/ part = "shell" /\ Shell!Init
  \/ part = "overview" /\ Centre!Init
  \/ part = "tail" /\ Live!Init

VaultRuns    == part = "vault" /\ Safe!Next
KeysRuns     == part = "keys" /\ KeyRing!Next
DeskRuns     == part = "desk" /\ Desk!Next
ServicesRuns == part = "services" /\ Portal!Next
RouterRuns   == part = "router" /\ Router!Next
AgentsRuns   == part = "agents" /\ Lifecycle!Next
UpdateRuns   == part = "update" /\ SelfUpdate!Next
StoreRuns    == part = "store" /\ KeyStore!Next
FilesRuns    == part = "files" /\ Files!Next
FleetRuns    == part = "assets" /\ Fleet!Next
LogsRuns     == part = "logs" /\ Logs!Next
ShellRuns    == part = "shell" /\ Shell!Next
OverviewRuns == part = "overview" /\ Centre!Next
TailRuns     == part = "tail" /\ Live!Next

Next ==
  /\ \/ VaultRuns \/ KeysRuns \/ DeskRuns \/ ServicesRuns
     \/ RouterRuns \/ AgentsRuns \/ UpdateRuns \/ StoreRuns
     \/ FilesRuns \/ FleetRuns \/ LogsRuns \/ ShellRuns \/ OverviewRuns \/ TailRuns
  /\ UNCHANGED part

Spec == Init /\ [][Next]_consolesVars

\* A secret, a key, a certificate, a session and an installed release are what their
\* servers say they are, however the requests of several consoles overtake each other
\* and whatever becomes of the agent and of the disk under the key store.
ServersTrue ==
  /\ part = "vault" => Safe!VaultTrue
  /\ part = "keys" => KeyRing!KeysTrue
  /\ part = "desk" => Desk!DeskTrue
  /\ part = "services" => Portal!ServicesTrue
  /\ part = "router" => Router!RouterTrue
  /\ part = "agents" => Lifecycle!LifecycleTrue
  /\ part = "update" => SelfUpdate!UpdateTrue
  /\ part = "store" => KeyStore!Barrier

\* What the bounds and the sets are, as far as the proofs need it.
ServersAssumption ==
  /\ Safe!VaultAssumption /\ KeyRing!SignKeysAssumption /\ Desk!SignConsoleAssumption
  /\ Portal!SignServicesAssumption /\ Router!RouterAssumption
  /\ Lifecycle!AgentLifecycleAssumption /\ SelfUpdate!UpdaterAssumption

\* The invariant that the proofs keep, part by part.
ServersInv ==
  /\ part = "vault" => Safe!VaultInv
  /\ part = "keys" => KeyRing!KeysInv
  /\ part = "desk" => Desk!DeskInv
  /\ part = "services" => Portal!ServicesInv
  /\ part = "router" => Router!RouterInv
  /\ part = "agents" => Lifecycle!LifecycleInv
  /\ part = "update" => SelfUpdate!UpdateInv
  /\ part = "store" => KeyStore!IInv

\* The invariant holds at first: each component begins with its own.
LEMMA ServersInit == ASSUME ServersAssumption, Init PROVE ServersInv
<1> USE DEF ServersAssumption
<1>1. CASE part = "vault" /\ Safe!Init
  BY <1>1, VaultInit DEF ServersInv
<1>2. CASE part = "keys" /\ KeyRing!Init
  BY <1>2, KeysInit DEF ServersInv
<1>3. CASE part = "desk" /\ Desk!Init
  BY <1>3, DeskInit DEF ServersInv
<1>4. CASE part = "services" /\ Portal!Init
  BY <1>4, ServicesInit DEF ServersInv
<1>5. CASE part = "router" /\ Router!Init
  BY <1>5, RouterInit DEF ServersInv
<1>6. CASE part = "agents" /\ Lifecycle!Init
  BY <1>6, LifecycleInit DEF ServersInv
<1>7. CASE part = "update" /\ SelfUpdate!Init
  BY <1>7, UpdateInit DEF ServersInv
<1>8. CASE part = "store" /\ KeyStore!Init
  BY <1>8, StoreInit DEF ServersInv
<1>9. CASE part \in {"files", "assets", "logs", "shell", "overview", "tail"}
  BY <1>9 DEF ServersInv
<1>. QED BY <1>1, <1>2, <1>3, <1>4, <1>5, <1>6, <1>7, <1>8, <1>9 DEF Init

\* Every step is one of the component that part names, and leaves part as it is.
LEMMA ServersStep == ASSUME ServersAssumption, ServersInv, [Next]_consolesVars PROVE ServersInv'
<1> USE DEF ServersAssumption
<1>0. part' = part
  BY DEF Next, consolesVars
<1>1. CASE part = "vault"
  <2>1. [Safe!Next]_(Safe!vaultVars)
    BY <1>1 DEF Next, VaultRuns, KeysRuns, DeskRuns, ServicesRuns, RouterRuns, AgentsRuns, UpdateRuns, StoreRuns,
         FilesRuns, FleetRuns, LogsRuns, ShellRuns, OverviewRuns, TailRuns, consolesVars, Safe!vaultVars
  <2>. QED BY <1>0, <1>1, <2>1, VaultStep DEF ServersInv
<1>2. CASE part = "keys"
  <2>1. [KeyRing!Next]_(KeyRing!signKeysVars)
    BY <1>2 DEF Next, VaultRuns, KeysRuns, DeskRuns, ServicesRuns, RouterRuns, AgentsRuns, UpdateRuns, StoreRuns,
         FilesRuns, FleetRuns, LogsRuns, ShellRuns, OverviewRuns, TailRuns, consolesVars, KeyRing!signKeysVars
  <2>. QED BY <1>0, <1>2, <2>1, KeysStep DEF ServersInv
<1>3. CASE part = "desk"
  <2>1. [Desk!Next]_(Desk!signConsoleVars)
    BY <1>3 DEF Next, VaultRuns, KeysRuns, DeskRuns, ServicesRuns, RouterRuns, AgentsRuns, UpdateRuns, StoreRuns,
         FilesRuns, FleetRuns, LogsRuns, ShellRuns, OverviewRuns, TailRuns, consolesVars, Desk!signConsoleVars
  <2>. QED BY <1>0, <1>3, <2>1, DeskStep DEF ServersInv
<1>4. CASE part = "services"
  <2>1. [Portal!Next]_(Portal!signServicesVars)
    BY <1>4 DEF Next, VaultRuns, KeysRuns, DeskRuns, ServicesRuns, RouterRuns, AgentsRuns, UpdateRuns, StoreRuns,
         FilesRuns, FleetRuns, LogsRuns, ShellRuns, OverviewRuns, TailRuns, consolesVars, Portal!signServicesVars
  <2>. QED BY <1>0, <1>4, <2>1, ServicesStep DEF ServersInv
<1>5. CASE part = "router"
  <2>1. [Router!Next]_(Router!routerVars)
    BY <1>5 DEF Next, VaultRuns, KeysRuns, DeskRuns, ServicesRuns, RouterRuns, AgentsRuns, UpdateRuns, StoreRuns,
         FilesRuns, FleetRuns, LogsRuns, ShellRuns, OverviewRuns, TailRuns, consolesVars, Router!routerVars
  <2>. QED BY <1>0, <1>5, <2>1, RouterStepOK DEF ServersInv
<1>6. CASE part = "agents"
  <2>1. [Lifecycle!Next]_(Lifecycle!lifecycleVars)
    BY <1>6 DEF Next, VaultRuns, KeysRuns, DeskRuns, ServicesRuns, RouterRuns, AgentsRuns, UpdateRuns, StoreRuns,
         FilesRuns, FleetRuns, LogsRuns, ShellRuns, OverviewRuns, TailRuns, consolesVars, Lifecycle!lifecycleVars
  <2>. QED BY <1>0, <1>6, <2>1, LifecycleStep DEF ServersInv
<1>7. CASE part = "update"
  <2>1. [SelfUpdate!Next]_(SelfUpdate!updaterVars)
    BY <1>7 DEF Next, VaultRuns, KeysRuns, DeskRuns, ServicesRuns, RouterRuns, AgentsRuns, UpdateRuns, StoreRuns,
         FilesRuns, FleetRuns, LogsRuns, ShellRuns, OverviewRuns, TailRuns, consolesVars, SelfUpdate!updaterVars
  <2>. QED BY <1>0, <1>7, <2>1, UpdateStep DEF ServersInv
<1>8. CASE part = "store"
  <2>1. [KeyStore!Next]_(KeyStore!storeVars)
    BY <1>8 DEF Next, VaultRuns, KeysRuns, DeskRuns, ServicesRuns, RouterRuns, AgentsRuns, UpdateRuns, StoreRuns,
         FilesRuns, FleetRuns, LogsRuns, ShellRuns, OverviewRuns, TailRuns, consolesVars, KeyStore!storeVars
  <2>. QED BY <1>0, <1>8, <2>1, StoreStep DEF ServersInv
<1>. QED BY <1>0, <1>1, <1>2, <1>3, <1>4, <1>5, <1>6, <1>7, <1>8 DEF ServersInv

\* The invariant has what the components promise.
LEMMA ServersImplies == ASSUME ServersAssumption, ServersInv PROVE ServersTrue
  BY VaultImplies, UpdateImplies, StoreImplies, RouterImplies, LifecycleImplies
  DEF ServersAssumption, ServersInv, ServersTrue, KeyRing!KeysInv, Desk!DeskInv, Portal!ServicesInv

\* Whatever overtakes what, dies, fails or is blocked meanwhile: a secret, a key, a
\* certificate, a session, a command, a release and the key store are always what their
\* server says they are, for all sets of users, agents and things and all bounds.
THEOREM ServersSafe == ASSUME ServersAssumption PROVE Spec => []ServersTrue
<1>1. Init => ServersInv
  BY ServersInit
<1>2. ServersInv /\ [Next]_consolesVars => ServersInv'
  BY ServersStep
<1>3. ServersInv => ServersTrue
  BY ServersImplies
<1>. QED BY <1>1, <1>2, <1>3, PTL DEF Spec

-------------------------------------------------------------------------------
\* What a view shows belongs to the path, asset, filters, role or range it names, what
\* its buttons act on is what is shown, and one socket at most follows the events.
ScreensTrue ==
  /\ part = "files" => Files!ActsOnTheListed
  /\ part = "assets" => Fleet!OneAssetShown
  /\ part = "logs" => Logs!ShownUnderItsFilters
  /\ part = "shell" => Shell!ShellTrue
  /\ part = "overview" => Centre!InspectorTrue
  /\ part = "tail" => Live!TailTrue

\* What the views' constants are, as far as the proofs need it.
ScreensAssumption == Fleet!AssetAssumption /\ Shell!ShellAssumption /\ Centre!OverviewAssumption

\* The invariant that the proofs keep, view by view.
ScreensInv ==
  /\ part = "files" => Files!FilesInv
  /\ part = "assets" => Fleet!AssetInv
  /\ part = "logs" => Logs!LogInv
  /\ part = "shell" => Shell!ShellInv
  /\ part = "overview" => Centre!OverviewInv
  /\ part = "tail" => Live!TailInv

\* Each view begins with its own.
LEMMA ScreensInit == ASSUME ScreensAssumption, Init PROVE ScreensInv
<1> USE DEF ScreensAssumption
<1>1. CASE part = "files" /\ Files!Init
  BY <1>1, FilesInit DEF ScreensInv
<1>2. CASE part = "assets" /\ Fleet!Init
  BY <1>2, FleetInit DEF ScreensInv
<1>3. CASE part = "logs" /\ Logs!Init
  BY <1>3, LogsInit DEF ScreensInv
<1>4. CASE part = "shell" /\ Shell!Init
  BY <1>4, ShellInit DEF ScreensInv
<1>5. CASE part = "overview" /\ Centre!Init
  BY <1>5, OverviewInit DEF ScreensInv
<1>6. CASE part = "tail" /\ Live!Init
  BY <1>6, TailInit DEF ScreensInv
<1>7. CASE part \in {"vault", "keys", "desk", "services", "router", "agents", "update", "store"}
  BY <1>7 DEF ScreensInv
<1>. QED BY <1>1, <1>2, <1>3, <1>4, <1>5, <1>6, <1>7 DEF Init

\* Every step is one of the view that part names, and leaves part as it is.
LEMMA ScreensStep == ASSUME ScreensAssumption, ScreensInv, [Next]_consolesVars PROVE ScreensInv'
<1> USE DEF ScreensAssumption
<1>0. part' = part
  BY DEF Next, consolesVars
<1>1. CASE part = "files"
  <2>1. [Files!Next]_(Files!fileVars)
    BY <1>1 DEF Next, VaultRuns, KeysRuns, DeskRuns, ServicesRuns, RouterRuns, AgentsRuns, UpdateRuns, StoreRuns,
         FilesRuns, FleetRuns, LogsRuns, ShellRuns, OverviewRuns, TailRuns, consolesVars, Files!fileVars
  <2>. QED BY <1>0, <1>1, <2>1, FilesStep DEF ScreensInv
<1>2. CASE part = "assets"
  <2>1. [Fleet!Next]_(Fleet!assetVars)
    BY <1>2 DEF Next, VaultRuns, KeysRuns, DeskRuns, ServicesRuns, RouterRuns, AgentsRuns, UpdateRuns, StoreRuns,
         FilesRuns, FleetRuns, LogsRuns, ShellRuns, OverviewRuns, TailRuns, consolesVars, Fleet!assetVars
  <2>. QED BY <1>0, <1>2, <2>1, FleetStep DEF ScreensInv
<1>3. CASE part = "logs"
  <2>1. [Logs!Next]_(Logs!logVars)
    BY <1>3 DEF Next, VaultRuns, KeysRuns, DeskRuns, ServicesRuns, RouterRuns, AgentsRuns, UpdateRuns, StoreRuns,
         FilesRuns, FleetRuns, LogsRuns, ShellRuns, OverviewRuns, TailRuns, consolesVars, Logs!logVars
  <2>. QED BY <1>0, <1>3, <2>1, LogsStep DEF ScreensInv
<1>4. CASE part = "shell"
  <2>1. [Shell!Next]_(Shell!shellVars)
    BY <1>4 DEF Next, VaultRuns, KeysRuns, DeskRuns, ServicesRuns, RouterRuns, AgentsRuns, UpdateRuns, StoreRuns,
         FilesRuns, FleetRuns, LogsRuns, ShellRuns, OverviewRuns, TailRuns, consolesVars, Shell!shellVars
  <2>. QED BY <1>0, <1>4, <2>1, ShellStep DEF ScreensInv
<1>5. CASE part = "overview"
  <2>1. [Centre!Next]_(Centre!overviewVars)
    BY <1>5 DEF Next, VaultRuns, KeysRuns, DeskRuns, ServicesRuns, RouterRuns, AgentsRuns, UpdateRuns, StoreRuns,
         FilesRuns, FleetRuns, LogsRuns, ShellRuns, OverviewRuns, TailRuns, consolesVars, Centre!overviewVars
  <2>. QED BY <1>0, <1>5, <2>1, OverviewStep DEF ScreensInv
<1>6. CASE part = "tail"
  <2>1. [Live!Next]_(Live!tailVars)
    BY <1>6 DEF Next, VaultRuns, KeysRuns, DeskRuns, ServicesRuns, RouterRuns, AgentsRuns, UpdateRuns, StoreRuns,
         FilesRuns, FleetRuns, LogsRuns, ShellRuns, OverviewRuns, TailRuns, consolesVars, Live!tailVars
  <2>. QED BY <1>0, <1>6, <2>1, TailStep DEF ScreensInv
<1>. QED BY <1>0, <1>1, <1>2, <1>3, <1>4, <1>5, <1>6 DEF ScreensInv

\* The invariant has what the views promise.
LEMMA ScreensImplies == ASSUME ScreensInv PROVE ScreensTrue
  BY DEF ScreensInv, ScreensTrue, Files!FilesInv, Fleet!AssetInv, Logs!LogInv, Shell!ShellInv,
         Centre!OverviewInv, Live!TailInv

\* Whichever answer comes first, fails or is given up, and whatever others change meanwhile:
\* what a view shows is of what it names, and its buttons act on that, for all sets of
\* files, assets, filters, users and sockets and all bounds.
THEOREM ScreensSafe == ASSUME ScreensAssumption PROVE Spec => []ScreensTrue
<1>1. Init => ScreensInv
  BY ScreensInit
<1>2. ScreensInv /\ [Next]_consolesVars => ScreensInv'
  BY ScreensStep
<1>3. ScreensInv => ScreensTrue
  BY ScreensImplies
<1>. QED BY <1>1, <1>2, <1>3, PTL DEF Spec
================================================================================
