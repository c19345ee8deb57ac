------------------------------ MODULE HuntQueries ------------------------------
(* The asynchronous queries of the manager's hunt API and one analyst's view  *)
(* of them.  First the server: the table hunt_query_jobs, the dispatcher that *)
(* hands queued rows to three threads, the transaction that records a result, *)
(* the hourly retention, and the restart of the process.  Then the workbench  *)
(* (HuntWorkbench.tsx): the run that creates a row and polls it, the cancel   *)
(* button, pages and single events of a finished result.  Requests and        *)
(* replies travel separately and in any order; a few are lost and surface as  *)
(* an error in the view.                                                      *)
EXTENDS Naturals, FiniteSets

CONSTANTS
  Jobs,        \* the rows the table may hold, numbered in order of creation
  Users,
  OwnLimit,    \* active rows of one user (2 in the code)
  TotalLimit,  \* active rows in all (20 in the code)
  Threads,     \* size of the pool and of the dispatcher's batch (3 in the code)
  Aging,       \* bound: the rows a behaviour may outlive
  MaxRestarts  \* bound on the restarts of a behaviour

ASSUME JobsAssumption == Jobs \subseteq Nat \ {0} /\ Aging \subseteq Jobs
ASSUME LimitsAssumption ==
  OwnLimit \in Nat /\ TotalLimit \in Nat /\ Threads \in Nat \ {0} /\ MaxRestarts \in Nat

VARIABLES
  row,      \* state column of each row, "none" before the insert
  owner,    \* owner_id of each row
  expired,  \* rows whose expires_at is past
  audited,  \* rows with HUNT_EXCEPTION_APPLIED records
  batch,    \* rows the dispatcher has listed and not yet looked at
  running,  \* rows held by a thread of the pool
  phase,    \* "down", "starting" (requests and timers run), "ready"
  restarts

jobVars == <<row, owner, expired, audited, batch, running, phase, restarts>>

Active == {"QUEUED", "RUNNING"}
Final  == {"COMPLETED", "FAILED", "CANCELLED"}
States == Active \cup Final \cup {"none", "deleted"}
NoOwner == "nobody"

JobTypeOK ==
  /\ row \in [Jobs -> States]
  /\ owner \in [Jobs -> Users \cup {NoOwner}]
  /\ expired \subseteq Jobs /\ audited \subseteq Jobs
  /\ batch \subseteq Jobs /\ running \subseteq Jobs
  /\ phase \in {"down", "starting", "ready"}
  /\ restarts \in 0 .. MaxRestarts

JobInit ==
  /\ row = [j \in Jobs |-> "none"] /\ owner = [j \in Jobs |-> NoOwner]
  /\ expired = {} /\ audited = {} /\ batch = {} /\ running = {}
  /\ phase = "ready" /\ restarts = 0
-------------------------------------------------------------------------------
Up == phase # "down"
ActiveOf(u) == {j \in Jobs : owner[j] = u /\ row[j] \in Active}
AllActive   == {j \in Jobs : row[j] \in Active}
Room(u) == /\ Cardinality(ActiveOf(u)) < OwnLimit
           /\ Cardinality(AllActive) < TotalLimit

\* The next row to be inserted.
Fresh(j) == row[j] = "none" /\ \A k \in Jobs : k < j => row[k] # "none"

\* get: the owner of a row that has not expired may see it.
Visible(j, u) == row[j] \notin {"none", "deleted"} /\ owner[j] = u /\ j \notin expired

\* create: the two counts and the insert are under the service's monitor.
Create(j, u) ==
  /\ Up /\ Fresh(j) /\ Room(u)
  /\ row' = [row EXCEPT ![j] = "QUEUED"]
  /\ owner' = [owner EXCEPT ![j] = u]
  /\ UNCHANGED <<expired, audited, batch, running, phase, restarts>>

\* cancel: only an active row changes; the thread finds out on its own.
Cancel(j, u) ==
  /\ Up /\ Visible(j, u)
  /\ row' = [row EXCEPT ![j] = IF @ \in Active THEN "CANCELLED" ELSE @]
  /\ UNCHANGED <<owner, expired, audited, batch, running, phase, restarts>>

Waiting == {j \in Jobs : row[j] = "QUEUED" /\ j \notin expired}
Oldest  == {j \in Waiting : Cardinality({k \in Waiting : k < j}) < Threads}

\* dispatch, first half: list the oldest queued rows.
Scan ==
  /\ Up /\ batch = {} /\ Cardinality(running) < Threads /\ Oldest # {}
  /\ batch' = Oldest
  /\ UNCHANGED <<row, owner, expired, audited, running, phase, restarts>>

\* dispatch, loop body: stop when the pool is full, claim the row if it is
\* still queued, pass over it if it is not.
Take(j) ==
  /\ Up /\ j \in batch /\ \A k \in batch : j <= k
  /\ IF Cardinality(running) >= Threads
       THEN batch' = {} /\ UNCHANGED <<row, running>>
       ELSE /\ batch' = batch \ {j}
            /\ IF row[j] = "QUEUED"
                 THEN row' = [row EXCEPT ![j] = "RUNNING"] /\ running' = running \cup {j}
                 ELSE UNCHANGED <<row, running>>
  /\ UNCHANGED <<owner, expired, audited, phase, restarts>>

\* Variant: the exceptions are recorded although the row had ended meanwhile.
AuditAlways(j) ==
  /\ j \in running
  /\ running' = running \ {j} /\ audited' = audited \cup {j}
  /\ row' = [row EXCEPT ![j] = IF @ = "RUNNING" THEN "COMPLETED" ELSE @]
  /\ UNCHANGED <<owner, expired, batch, phase, restarts>>

\* complete: one transaction turns a running row into a completed one and
\* records the exceptions that were applied; any other row is left alone.
Complete(j) ==
  /\ j \in running
  /\ running' = running \ {j}
  /\ IF row[j] = "RUNNING"
       THEN row' = [row EXCEPT ![j] = "COMPLETED"] /\ audited' = audited \cup {j}
       ELSE UNCHANGED <<row, audited>>
  /\ UNCHANGED <<owner, expired, batch, phase, restarts>>

\* A query, checkCancelled or the transaction throws: only a row that is still
\* running is marked as failed.
Fail(j) ==
  /\ j \in running
  /\ running' = running \ {j}
  /\ row' = [row EXCEPT ![j] = IF @ = "RUNNING" THEN "FAILED" ELSE @]
  /\ UNCHANGED <<owner, expired, audited, batch, phase, restarts>>

\* A day passes after the creation of j, and so after that of the earlier rows.
Age(j) ==
  /\ j \in Aging /\ row[j] # "none" /\ j \notin expired
  /\ expired' = expired \cup {k \in Jobs : k <= j}
  /\ UNCHANGED <<row, owner, audited, batch, running, phase, restarts>>

\* expire: queued rows fail, and the same transaction deletes whatever is old
\* and no longer active, those rows included.
Stale(j) == j \in expired /\ row[j] \in Final \cup {"QUEUED"}
Retire ==
  /\ Up /\ \E j \in Jobs : Stale(j)
  /\ row' = [j \in Jobs |-> IF Stale(j) THEN "deleted" ELSE row[j]]
  /\ UNCHANGED <<owner, expired, audited, batch, running, phase, restarts>>

\* The process ends: threads and the dispatcher's list are gone.
Stop ==
  /\ Up /\ restarts < MaxRestarts
  /\ phase' = "down" /\ restarts' = restarts + 1
  /\ batch' = {} /\ running' = {}
  /\ UNCHANGED <<row, owner, expired, audited>>

\* The context starts: the web server and the timers run before the event.
Start ==
  /\ phase = "down" /\ phase' = "starting"
  /\ UNCHANGED <<row, owner, expired, audited, batch, running, restarts>>

\* Variant: the rows a stopped process left running are not failed.
RecoverNothing ==
  /\ phase = "starting" /\ phase' = "ready"
  /\ UNCHANGED <<row, owner, expired, audited, batch, running, restarts>>

\* recover, on ApplicationReadyEvent: every running row fails, the ones the
\* dispatcher has started since the restart included.
Recover ==
  /\ phase = "starting" /\ phase' = "ready"
  /\ row' = [j \in Jobs |-> IF row[j] = "RUNNING" THEN "FAILED" ELSE row[j]]
  /\ UNCHANGED <<owner, expired, audited, batch, running, restarts>>

Background ==
  \/ Scan \/ Retire \/ Stop \/ Start \/ Recover
  \/ \E j \in Jobs : Take(j) \/ Complete(j) \/ Fail(j) \/ Age(j)

JobNext == Background \/ \E j \in Jobs, u \in Users : Create(j, u) \/ Cancel(j, u)

JobSpec == JobInit /\ [][JobNext]_jobVars

\* The dispatcher, the threads, the retention and the start-up all go on.
\* Nothing makes a query succeed: a thread ends one way or another.
JobFairness ==
  /\ WF_jobVars(Scan) /\ WF_jobVars(Retire) /\ WF_jobVars(Start) /\ WF_jobVars(Recover)
  /\ \A j \in Jobs : WF_jobVars(Take(j)) /\ WF_jobVars(Complete(j) \/ Fail(j))
-------------------------------------------------------------------------------
\* A row that claims to run has a thread, unless the process has not yet got
\* round to failing what the previous one left (HuntJobs.recover): nothing is
\* reported as running for ever.
RunningIsHeld == phase = "ready" => \A j \in Jobs : row[j] = "RUNNING" => j \in running

\* Exceptions are recorded as applied exactly for results that were kept: a
\* query that was cancelled, or failed by a restart, while its thread was
\* finishing leaves no record (HuntJobResults.complete).
AuditIsOfResults ==
  \A j \in Jobs : /\ row[j] = "COMPLETED" => j \in audited
                  /\ j \in audited => row[j] \in {"COMPLETED", "deleted"}

\* A thread's row was claimed by it; the pool and the two limits are respected
\* through cancellations, expiry and restarts.
WithinLimits ==
  /\ Cardinality(running) <= Threads
  /\ Cardinality(AllActive) <= TotalLimit
  /\ \A u \in Users : Cardinality(ActiveOf(u)) <= OwnLimit

JobTruth == RunningIsHeld /\ AuditIsOfResults /\ WithinLimits

\* What a row ended with is never taken back: cancel, complete, the failing
\* thread, recover and retention race, and the first wins.
FinalStays ==
  [][\A j \in Jobs : row[j] \in Final \cup {"deleted"} =>
       row'[j] = row[j] \/ (row'[j] = "deleted" /\ j \in expired)]_jobVars

\* Every query ends, through any number of cancellations, a full pool, expiry
\* while it waits and restarts.
JobsEnd == \A j \in Jobs : row[j] \in Active ~> row[j] \notin Active

-------------------------------------------------------------------------------
(* The workbench. *)
CONSTANTS
  Me,        \* the analyst at the workbench
  Pages,     \* pages of a result
  MaxRuns,   \* bound on the runs started here
  MaxLost    \* bound on the requests and replies that are lost

ASSUME ViewAssumption ==
  /\ Me \in Users /\ Pages \in Nat \ {0} /\ MaxRuns \in Nat /\ MaxLost \in Nat

VARIABLES
  shown,    \* the job state: [job, state], job 0 before the first run
  page,     \* the page on screen: [job, n], job 0 for none
  history,  \* length of pageHistory
  selected, \* the job the selected event was read from, 0 for none
  pending,
  watch,    \* the live poll loop: [job, state], job 0 once it ended or aborted
  current,  \* currentJobId
  detail,   \* the job of the live detail request, 0 for none
  net,      \* requests and replies under way
  runs, lost

viewVars == <<shown, page, history, selected, pending, watch, current, detail>>
allVars  == <<jobVars, viewVars, net, runs, lost>>

None == 0
NoWatch == [job |-> None, state |-> "none"]
NoPage  == [job |-> None, n |-> 0]
Refs == Jobs \cup {None}
Ops  == {"create", "poll", "cancel", "page", "event"}
\* st is "sent" for a request; a reply carries the row's state, or "error".
Msg(op, j, n, st) == [op |-> op, job |-> j, n |-> n, st |-> st]
Messages == [op : Ops, job : Refs, n : 0 .. Pages + MaxRuns, st : States \cup {"sent", "error"}]

TypeOK ==
  /\ JobTypeOK
  /\ shown \in [job : Refs, state : States] /\ watch \in [job : Refs, state : States]
  /\ page \in [job : Refs, n : 0 .. Pages] /\ history \in 1 .. Pages
  /\ selected \in Refs /\ current \in Refs /\ detail \in Refs
  /\ pending \in BOOLEAN /\ net \subseteq Messages
  /\ runs \in 0 .. MaxRuns /\ lost \in 0 .. MaxLost

Init ==
  /\ JobInit
  /\ shown = NoWatch /\ page = NoPage /\ history = 1 /\ selected = None
  /\ pending = FALSE /\ watch = NoWatch /\ current = None /\ detail = None
  /\ net = {} /\ runs = 0 /\ lost = 0
-------------------------------------------------------------------------------
\* busy: what disables the buttons that start something.
Busy == pending \/ shown.state \in Active

Ask(m) == net' = net \cup {m}
InFlight(op) == {m \in net : m.op = op}
\* m has been dealt with, and requests of the kinds ops are aborted: their
\* answers are not looked at.
Without(m, ops) == net' = {k \in net \ {m} : k.op \notin ops}

\* run, from the query form, the saved searches, the entity form, the scenario
\* cards and the aggregation and relation panels: every one is disabled by busy.
Run ==
  /\ ~Busy /\ runs < MaxRuns
  /\ runs' = runs + 1 /\ pending' = TRUE
  /\ Ask(Msg("create", None, runs + 1, "sent"))
  /\ UNCHANGED <<jobVars, shown, page, history, selected, watch, current, detail, lost>>

\* watch: the loop of the previous run is aborted, the view starts afresh.
Watch(j, s) ==
  /\ watch' = IF s \in Active THEN [job |-> j, state |-> s] ELSE NoWatch
  /\ shown' = [job |-> j, state |-> s]
  /\ current' = j /\ detail' = None
  /\ page' = IF s = "COMPLETED" THEN [job |-> j, n |-> 1] ELSE NoPage
  /\ selected' = None /\ history' = 1
  \* A loop this one aborts returns into its own run, whose finally clears pending.
  /\ pending' = (pending /\ s \in Active /\ watch.job = None)

Created(m) ==
  /\ m \in InFlight("create") /\ m.st # "sent"
  /\ IF m.st = "error"
       THEN /\ pending' = FALSE /\ Without(m, {})
            /\ UNCHANGED <<shown, page, history, selected, watch, current, detail>>
       ELSE Watch(m.job, m.st) /\ Without(m, {"poll", "event"})
  /\ UNCHANGED <<jobVars, runs, lost>>

\* The loop asks again, 700 ms after the last answer.
Poll ==
  /\ watch.job # None
  /\ InFlight("poll") = {}
  /\ Ask(Msg("poll", watch.job, 0, "sent"))
  /\ UNCHANGED <<jobVars, viewVars, runs, lost>>

\* An error ends the loop and leaves the last state on screen.
Polled(m) ==
  /\ m \in InFlight("poll") /\ m.st # "sent" /\ Without(m, {})
  /\ IF m.st = "error"
       THEN watch' = NoWatch /\ pending' = FALSE /\ UNCHANGED <<shown, page>>
       ELSE /\ shown' = [job |-> m.job, state |-> m.st]
            /\ watch' = IF m.st \in Active THEN shown' ELSE NoWatch
            /\ pending' = (pending /\ m.st \in Active)
            /\ page' = IF m.st = "COMPLETED" THEN [job |-> m.job, n |-> 1] ELSE page
  /\ UNCHANGED <<jobVars, history, selected, current, detail, runs, lost>>

\* The cancel button is there while the view is busy and has a job, be it the
\* job of an earlier run.
CanCancel == Busy /\ shown.job # None
CancelRun ==
  /\ CanCancel /\ InFlight("cancel") = {}
  /\ Ask(Msg("cancel", shown.job, 0, "sent"))
  /\ UNCHANGED <<jobVars, viewVars, runs, lost>>

\* Variant: the poll loop goes on after a cancellation.
PollGoesOn(m) ==
  /\ m \in InFlight("cancel") /\ m.st # "sent" /\ Without(m, {})
  /\ IF m.st = "error"
       THEN UNCHANGED <<pending, shown>>
       ELSE pending' = FALSE /\ shown' = [job |-> m.job, state |-> m.st]
  /\ UNCHANGED <<jobVars, page, history, selected, watch, current, detail, runs, lost>>

\* Its answer ends whatever loop is live and becomes the job on screen.
Cancelled(m) ==
  /\ m \in InFlight("cancel") /\ m.st # "sent"
  /\ IF m.st = "error"
       THEN Without(m, {}) /\ UNCHANGED <<watch, pending, shown>>
       ELSE /\ watch' = NoWatch /\ pending' = FALSE /\ Without(m, {"poll"})
            /\ shown' = [job |-> m.job, state |-> m.st]
  /\ UNCHANGED <<jobVars, page, history, selected, current, detail, runs, lost>>

\* The buttons under the table.
CanPage(n) ==
  /\ ~Busy /\ shown.job # None /\ page.job # None
  /\ \/ n = history + 1 /\ page.n < Pages
     \/ n = history - 1 /\ n >= 1
Paginate(n) ==
  /\ CanPage(n) /\ pending' = TRUE /\ detail' = None
  /\ net' = (net \ InFlight("event")) \cup {Msg("page", shown.job, n, "sent")}
  /\ UNCHANGED <<jobVars, shown, page, history, selected, watch, current, runs, lost>>

Paged(m) ==
  /\ m \in InFlight("page") /\ m.st # "sent" /\ Without(m, {})
  /\ pending' = FALSE
  /\ IF m.st = "error"
       THEN UNCHANGED <<page, history, selected>>
       ELSE page' = [job |-> m.job, n |-> m.n] /\ history' = m.n /\ selected' = None
  /\ UNCHANGED <<jobVars, shown, watch, current, detail, runs, lost>>

\* A row of the table, and the close button of the detail panel.
Select == /\ page.job # None /\ selected' = page.job
          /\ UNCHANGED <<jobVars, shown, page, history, pending, watch, current, detail, net, runs, lost>>
Deselect == /\ selected # None /\ selected' = None
            /\ UNCHANGED <<jobVars, shown, page, history, pending, watch, current, detail, net, runs, lost>>

\* openRelationEvidence: one at a time from the panel; a page or a run aborts it.
Relation ==
  /\ ~Busy /\ shown.state = "COMPLETED" /\ detail = None
  /\ detail' = shown.job /\ Ask(Msg("event", shown.job, 0, "sent"))
  /\ UNCHANGED <<jobVars, shown, page, history, selected, pending, watch, current, runs, lost>>

Related(m) ==
  /\ m \in InFlight("event") /\ m.st # "sent" /\ Without(m, {})
  /\ detail' = None
  /\ selected' = IF m.st # "error" /\ current = m.job THEN m.job ELSE selected
  /\ UNCHANGED <<jobVars, shown, page, history, pending, watch, current, runs, lost>>
-------------------------------------------------------------------------------
\* The server's side of each request.
Answer(m, j, st) == net' = (net \ {m}) \cup {[m EXCEPT !.job = j, !.st = st]}

ServeCreate(m) ==
  \/ \E j \in Jobs : Create(j, Me) /\ Answer(m, j, "QUEUED")
  \/ /\ Up
     /\ ~Room(Me) \/ \A j \in Jobs : row[j] # "none"
     /\ Answer(m, None, "error") /\ UNCHANGED jobVars
ServeCancel(m) ==
  \/ Cancel(m.job, Me) /\ Answer(m, m.job, row'[m.job])
  \/ Up /\ ~Visible(m.job, Me) /\ Answer(m, m.job, "error") /\ UNCHANGED jobVars
ServeRead(m) ==
  /\ Up /\ UNCHANGED jobVars
  /\ Answer(m, m.job, IF ~Visible(m.job, Me) \/ (m.op # "poll" /\ row[m.job] # "COMPLETED")
                        THEN "error" ELSE row[m.job])
Serve(m) ==
  /\ m \in net /\ m.st = "sent"
  /\ \/ m.op = "create" /\ ServeCreate(m)
     \/ m.op = "cancel" /\ ServeCancel(m)
     \/ m.op \in {"poll", "page", "event"} /\ ServeRead(m)
  /\ UNCHANGED <<viewVars, runs, lost>>

\* A request that did not arrive, or an answer that did not come back.
Lose(m) ==
  /\ m \in net /\ m.st # "error" /\ lost < MaxLost
  /\ lost' = lost + 1 /\ Answer(m, m.job, "error")
  /\ UNCHANGED <<jobVars, viewVars, runs>>

\* Somebody else, or the analyst in another tab.
Elsewhere(j, u) ==
  /\ Create(j, u) \/ (u # Me /\ Cancel(j, u))
  /\ UNCHANGED <<viewVars, net, runs, lost>>

Server == Background /\ UNCHANGED <<viewVars, net, runs, lost>>
Receive == \E m \in net : Created(m) \/ Polled(m) \/ Cancelled(m) \/ Paged(m) \/ Related(m)
Click == \/ Run \/ CancelRun \/ Select \/ Deselect \/ Relation
         \/ \E n \in 1 .. Pages : Paginate(n)

Next ==
  \/ Click \/ Poll \/ Receive \/ Server
  \/ \E m \in net : Serve(m) \/ Lose(m)
  \/ \E j \in Jobs, u \in Users : Elsewhere(j, u)

Spec == Init /\ [][Next]_allVars

\* Timers fire, answers arrive, the server works; nobody has to click.
Fairness ==
  /\ JobFairness
  /\ WF_allVars(Poll) /\ WF_allVars(Receive)
  /\ WF_allVars(\E m \in net : Serve(m))
LiveSpec == Spec /\ Fairness
-------------------------------------------------------------------------------
\* The view never takes back an end it has shown: an answer read before the
\* cancellation cannot bring the query back to life (the abort in the cancel
\* button's handler).
EndShownOnce ==
  [][(shown.job = shown'.job /\ shown.state \in Final) => shown'.state = shown.state]_allVars

\* A poll loop that met an error leaves a job on screen that looks alive.
Abandoned == shown.state \in Active /\ watch.job = None /\ ~pending

\* The view does not stay locked: a run, a page or a poll is over some day, or
\* the loop was given up on an error and the cancel button is offered.
ViewUnlocks == Busy ~> (~Busy \/ (Abandoned /\ CanCancel))

\* Stated by the notice of pin(): the evidence is kept with the conditions of
\* its own query, so the event on screen is one of the job on screen.
EventOfShownJob == selected # None => selected = shown.job
===============================================================================
