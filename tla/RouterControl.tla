------------------------------- MODULE RouterControl -------------------------------
(* Changing a security router from the manager's console: the panel                  *)
(* (RouterControlPanel.tsx, routerControl.ts) makes a command, the manager           *)
(* (RouterControlService) makes a task of it at CastrelSign                          *)
(* (AgentRemoteTaskRepository), the agent claims tasks (remotetasks/client.go) and    *)
(* carries each out against a journal (securityrouter/client.go), and the console     *)
(* asks again and again for what became of it.  The router is external: it takes a    *)
(* change of the revision it was made for, once per key, and takes it back unless it  *)
(* is confirmed in time.                                                              *)
EXTENDS Naturals, FiniteSets, Sequences, Functions

CONSTANTS
  Commands,   \* records of commands that are kept at a time, without which nothing is begun
  Profiles,   \* ACL profiles that somebody makes
  Services,   \* services of the router that may be restarted
  MaxJobs,    \* jobs the router takes
  MaxClaims   \* tasks the agent claims at a time, 5 in the code

VARIABLES
  router,     \* [rev, config, before, jobs, seen]: jobs is a sequence of statuses, seen: command -> job
  command,    \* the manager's records: [req, status, out]
  task,       \* CastrelSign's: [status, out]
  clock,      \* command -> {} or "expired", then "late"; and "aged": claimed long ago
  claimed,    \* tasks the agent has claimed, in the order it runs them
  phase,      \* of the first of them: [at, out]
  journal,    \* command -> [started, out]
  carried,    \* command -> how often it was carried out
  open,       \* the panel is on screen
  state,      \* [rev, config] of the state it shows, or NoState
  config,     \* the configuration in its editor
  draft,      \* the request that is to be confirmed before it is applied
  pending,    \* job that waits to be confirmed, 0: none
  asked,      \* the pending job whose deadline has been looked after
  work        \* what perform is doing: [step, on, job, req]: the command it waits for, the job, the draft

routerVars == <<router, command, task, clock, claimed, phase, journal, carried, open, state, config, draft, pending, asked, work>>

None == "none"
\* The parts of a configuration that its form relates: profiles there are, and the one a port uses.
Empty == [profiles |-> {}, port |-> None]
Request(action, rev, cfg, job) == [action |-> action, rev |-> rev, config |-> cfg, job |-> job]
NoRequest == Request(None, 0, Empty, 0)
Outcome(ok, rev, cfg, job, status) == [ok |-> ok, rev |-> rev, config |-> cfg, job |-> job, status |-> status]
NoOutcome == Outcome(FALSE, 0, Empty, 0, None)
Failed(why) == Outcome(FALSE, 0, Empty, 0, why)
NoState == [rev |-> 0, config |-> Empty, shown |-> FALSE]
Idle == [step |-> "idle", on |-> None, job |-> 0, req |-> NoRequest]
AtRest == [at |-> "idle", out |-> NoOutcome]
Unused == [req |-> NoRequest, status |-> None, out |-> NoOutcome]

Open == {"QUEUED", "PENDING", "RUNNING"}

Init ==
  /\ router = [rev |-> 0, config |-> Empty, before |-> Empty, jobs |-> <<>>, seen |-> [c \in Commands |-> 0]]
  /\ command = [c \in Commands |-> Unused] /\ task = [c \in Commands |-> [status |-> None, out |-> NoOutcome]]
  /\ clock = [c \in Commands |-> {}] /\ claimed = <<>> /\ phase = AtRest
  /\ journal = [c \in Commands |-> [started |-> FALSE, out |-> NoOutcome]] /\ carried = [c \in Commands |-> 0]
  /\ open = FALSE /\ state = NoState /\ config = Empty /\ draft = NoRequest /\ pending = 0 /\ asked = 0
  /\ work = Idle

--------------------------------------------------------------------------------
(* The router. *)
Awaiting == {j \in DOMAIN router.jobs : router.jobs[j] = "awaiting_confirmation"}
Unfinished == {j \in DOMAIN router.jobs : router.jobs[j] \notin {"committed", "rolled_back"}}
Told(r, j) == IF j \in DOMAIN r.jobs THEN Outcome(TRUE, 0, Empty, j, r.jobs[j]) ELSE Failed("failed")

\* A change goes through "applying"; unconfirmed it is taken back.
Taken(j, status) == [router EXCEPT !.jobs[j] = status]
Back(j) == [router EXCEPT !.jobs[j] = "rolled_back", !.config = router.before, !.rev = @ + 1]
RouterStep ==
  /\ \E j \in Unfinished :
       \/ router.jobs[j] = "applying" /\ router' \in {Taken(j, "awaiting_confirmation"), Back(j)}
       \/ router.jobs[j] = "awaiting_confirmation" /\ router' = Back(j)
  /\ UNCHANGED <<command, task, clock, claimed, phase, journal, carried, open, state, config, draft, pending, asked, work>>

--------------------------------------------------------------------------------
(* The manager: create, refresh, reconcile. *)
Panel == UNCHANGED <<open, state, config, draft, pending, asked, work>>
Create(c, req) ==
  /\ command[c] = Unused
  /\ command' = [command EXCEPT ![c] = [req |-> req, status |-> "QUEUED", out |-> NoOutcome]]
  /\ UNCHANGED <<router, task, clock, claimed, phase, journal, carried>>

\* The task is made once, whatever becomes of the answer; its status then becomes the command's.
refresh(c, answered) ==
  /\ command[c].status \in Open
  /\ LET unsent == command[c].status = "QUEUED"
         lost == unsent /\ "expired" \in clock[c]
         made == IF unsent /\ ~ lost /\ task[c].status = None THEN [task EXCEPT ![c].status = "PENDING"] ELSE task
         told == made[c].status
         late == "late" \in clock[c]
     IN  /\ task' = made
         /\ command' = [command EXCEPT ![c] =
              IF lost \/ (late /\ (~ answered \/ told \in Open \cup {None})) THEN [@ EXCEPT !.status = "UNKNOWN"]
              ELSE IF answered /\ told # None THEN [@ EXCEPT !.status = told, !.out = made[c].out]
              ELSE @]
  /\ UNCHANGED <<router, clock, claimed, phase, journal, carried>> /\ Panel
\* The request did not reach CastrelSign.
unreachable(c) ==
  /\ command[c].status \in Open /\ "late" \in clock[c]
  /\ command' = [command EXCEPT ![c].status = "UNKNOWN"]
  /\ UNCHANGED <<router, task, clock, claimed, phase, journal, carried>> /\ Panel

\* Nothing becomes of a command any more.
Over(c) == command[c].status \notin Open \cup {None} /\ c \notin Range(claimed) /\ task[c].status \notin Open
Tick(c) ==
  /\ command[c] # Unused /\ ~ Over(c)
  /\ \/ "expired" \notin clock[c] /\ clock' = [clock EXCEPT ![c] = @ \cup {"expired"}]
     \/ "expired" \in clock[c] /\ "late" \notin clock[c] /\ clock' = [clock EXCEPT ![c] = @ \cup {"late", "aged"}]
     \/ task[c].status = "RUNNING" /\ "aged" \notin clock[c] /\ clock' = [clock EXCEPT ![c] = @ \cup {"aged"}]
  /\ UNCHANGED <<router, command, task, claimed, phase, journal, carried>> /\ Panel

--------------------------------------------------------------------------------
(* CastrelSign: poll, complete. *)
expired(c) == "expired" \in clock[c]
aged(c) == "aged" \in clock[c]
\* Tasks claimed long ago are given out again; those that waited too long are not.
Reclaimed ==
  [c \in Commands |->
     LET s == task[c].status IN
     IF s = "RUNNING" /\ aged(c) /\ ~ expired(c) THEN [task[c] EXCEPT !.status = "PENDING"]
     ELSE IF s = "PENDING" /\ expired(c) THEN [status |-> "EXPIRED", out |-> Failed("expired")]
     ELSE IF s = "RUNNING" /\ aged(c) /\ expired(c) THEN [status |-> "UNKNOWN", out |-> Failed("failed")]
     ELSE task[c]]
poll(order, answered) ==
  /\ claimed = <<>>
  /\ LET due == {c \in Commands : Reclaimed[c].status = "PENDING" /\ ~ expired(c)} IN
       /\ Range(order) \subseteq due /\ Len(order) = (IF Cardinality(due) < MaxClaims THEN Cardinality(due) ELSE MaxClaims)
       /\ task' = [c \in Commands |-> IF c \in Range(order) THEN [Reclaimed[c] EXCEPT !.status = "RUNNING"] ELSE Reclaimed[c]]
       /\ clock' = [c \in Commands |-> IF c \in Range(order) THEN clock[c] \ {"aged"} ELSE clock[c]]
       /\ claimed' = IF answered THEN order ELSE <<>>
  /\ UNCHANGED <<router, command, phase, journal, carried>> /\ Panel

--------------------------------------------------------------------------------
(* The agent: PollAndRun, Execute; ok: the journal is written. *)
Req(c) == command[c].req
Answer(c, out) == phase' = [at |-> "report", out |-> out]
AgentOnly == UNCHANGED <<command, task, clock, claimed>> /\ Panel
Execute(c, ok) ==
  /\ claimed # <<>> /\ c = Head(claimed) /\ phase = AtRest
  /\ IF expired(c) THEN Answer(c, Failed("expired")) /\ UNCHANGED journal
     ELSE IF journal[c].out # NoOutcome THEN Answer(c, journal[c].out) /\ UNCHANGED journal
     ELSE IF journal[c].started /\ Req(c).action = "restart" THEN Answer(c, Failed("failed")) /\ UNCHANGED journal
     ELSE IF ~ ok THEN Answer(c, Failed("failed")) /\ UNCHANGED journal
     ELSE phase' = [AtRest EXCEPT !.at = "run"] /\ journal' = [journal EXCEPT ![c].started = TRUE]
  /\ UNCHANGED <<router, carried>> /\ AgentOnly

\* What the router makes of a request: [router, out]; a change is taken once per command.
Change(c, req) ==
  IF router.seen[c] # 0 THEN [router |-> router, out |-> Told(router, router.seen[c])]
  ELSE IF req.rev # router.rev \/ Unfinished # {} THEN [router |-> router, out |-> Failed("failed")]
  ELSE LET j == Len(router.jobs) + 1
           next == [router EXCEPT !.rev = @ + 1, !.config = req.config, !.before = router.config, !.jobs = Append(@, "applying"), !.seen[c] = j]
       IN  [router |-> next, out |-> Told(next, j)]
Settled(req, status) ==
  IF req.job \notin Awaiting THEN [router |-> router, out |-> Told(router, req.job)]
  ELSE LET next == IF status = "committed" THEN Taken(req.job, status) ELSE Back(req.job) IN [router |-> next, out |-> Told(next, req.job)]
Same(out) == [router |-> router, out |-> out]
Effect(c, req) ==
  CASE req.action = "state"    -> Same(Outcome(TRUE, router.rev, router.config, IF Awaiting = {} THEN 0 ELSE CHOOSE j \in Awaiting : TRUE, None))
    [] req.action = "jobs"     -> Same(Told(router, req.job))
    [] req.action = "validate" -> Same(IF req.rev = router.rev THEN Outcome(TRUE, 0, Empty, 0, None) ELSE Failed("failed"))
    [] req.action = "apply"    -> Change(c, req)
    [] req.action = "confirm"  -> Settled(req, "committed")
    [] req.action = "rollback" -> Settled(req, "rolled_back")
    [] req.action = "restart"  -> Same(IF Unfinished = {} THEN Outcome(TRUE, 0, Empty, 0, None) ELSE Failed("failed"))
\* The request reaches the router or not, and its answer the agent or not.
run(c, reached, answered) ==
  /\ phase.at = "run" /\ c = Head(claimed) /\ (answered => reached)
  /\ LET e == Effect(c, Req(c)) IN
       /\ (reached /\ Req(c).action = "apply" => Len(e.router.jobs) <= MaxJobs)
       /\ router' = IF reached THEN e.router ELSE router
       /\ carried' = IF reached /\ ((Req(c).action = "restart" /\ e.out.ok) \/ Len(e.router.jobs) > Len(router.jobs))
                     THEN [carried EXCEPT ![c] = @ + 1] ELSE carried
       /\ phase' = [at |-> "save", out |-> IF answered THEN e.out ELSE Failed("failed")]
  /\ UNCHANGED journal /\ AgentOnly
save(c, ok) ==
  /\ phase.at = "save" /\ c = Head(claimed)
  /\ IF ok THEN journal' = [journal EXCEPT ![c] = [started |-> FALSE, out |-> phase.out]] /\ Answer(c, phase.out)
     ELSE UNCHANGED journal /\ Answer(c, Failed("failed"))
  /\ UNCHANGED <<router, carried>> /\ AgentOnly
\* report and complete: a task that is closed takes no other answer, and an error ends the round.
report(c, reached, answered) ==
  /\ phase.at = "report" /\ c = Head(claimed) /\ (answered => reached)
  /\ LET s == task[c].status
         status == IF phase.out.ok THEN "COMPLETED" ELSE "FAILED"
         taken == s \in {"PENDING", "RUNNING", "UNKNOWN"}
         good == taken \/ (s = status /\ task[c].out = phase.out)
     IN  /\ task' = IF reached /\ taken THEN [task EXCEPT ![c] = [status |-> status, out |-> phase.out]] ELSE task
         /\ claimed' = IF answered /\ good THEN Tail(claimed) ELSE <<>>
  /\ phase' = AtRest
  /\ UNCHANGED <<router, command, clock, journal, carried>> /\ Panel
Crash ==
  /\ claimed # <<>> /\ claimed' = <<>> /\ phase' = AtRest
  /\ UNCHANGED <<router, command, task, clock, journal, carried>> /\ Panel

--------------------------------------------------------------------------------
(* The panel. *)
Backend == UNCHANGED <<router, command, task, clock, claimed, phase, journal, carried>>
busy == work # Idle

Room == \E c \in Commands : command[c] = Unused

\* The effect of the panel: what was shown goes, and what was under way no longer counts.
Activate(on) ==
  /\ on # open /\ (on => Room) /\ open' = on /\ state' = NoState /\ draft' = NoRequest /\ pending' = 0
  /\ work' = IF on THEN [Idle EXCEPT !.step = "load"] ELSE Idle
  /\ UNCHANGED <<config, asked>> /\ Backend

\* perform: one work at a time, which begins with a command.
Perform(step, job, req) ==
  open /\ ~ busy /\ Room /\ work' = [step |-> step, on |-> None, job |-> job, req |-> req]
Start(step, job, req) == Perform(step, job, req) /\ UNCHANGED <<open, state, config, pending, asked>> /\ Backend
Draft(req) ==
  /\ open /\ state.shown /\ ~ busy /\ draft' = req /\ UNCHANGED <<open, state, config, pending, asked, work>> /\ Backend
reload == Start("load", 0, NoRequest) /\ UNCHANGED draft
prepare == state.shown /\ pending = 0 /\ draft' = NoRequest /\ Start("validate", 0, Request("apply", state.rev, config, 0))
restart(s) == draft.action # "restart" /\ Draft(Request("restart", 0, Empty, 0))
apply == draft # NoRequest /\ draft' = NoRequest /\ Start("apply", 0, draft)
cancel == draft # NoRequest /\ Draft(NoRequest)
settle(action) == pending # 0 /\ Start(action, pending, NoRequest) /\ UNCHANGED draft
\* The deadline of the pending job has passed by the browser's clock: once per job.
expiryRefresh ==
  /\ pending # 0 /\ asked # pending /\ Perform("expiry", pending, NoRequest) /\ asked' = pending
  /\ UNCHANGED <<open, state, config, draft, pending>> /\ Backend

\* RouterPolicyEditor: a profile in use cannot be deleted; every edit forgets what was validated.
edit(cfg) ==
  /\ open /\ state.shown /\ ~ busy /\ pending = 0 /\ cfg # config /\ config' = cfg /\ draft' = NoRequest
  /\ UNCHANGED <<open, state, pending, asked, work>> /\ Backend
addProfile(p) == p \notin config.profiles /\ edit([config EXCEPT !.profiles = @ \cup {p}])
references(p) == p = config.port
removeProfile(p) == p \in config.profiles /\ ~ references(p) /\ edit([config EXCEPT !.profiles = @ \ {p}])
choose(p) == p \in config.profiles \cup {None} /\ edit([config EXCEPT !.port = p])

\* run: each step of a work makes a command; whose answer is lost, the work gives up.
Asks ==
  CASE work.step \in {"load", "applied", "confirmed", "restored", "expired"} -> Request("state", 0, Empty, 0)
    [] work.step = "validate" -> [work.req EXCEPT !.action = "validate"]
    [] work.step = "apply" -> work.req
    [] work.step \in {"wait", "expiry"} -> Request("jobs", 0, Empty, work.job)
    [] work.step \in {"confirm", "rollback"} -> Request(work.step, 0, Empty, work.job)
create(c) ==
  /\ busy /\ work.on = None /\ Create(c, Asks) /\ work' = [work EXCEPT !.on = c]
  /\ UNCHANGED <<open, state, config, draft, pending, asked>>

\* A work that fails, is refused or takes too long ends with an error.
Ends == work' = Idle /\ UNCHANGED <<open, state, config, draft, pending, asked>>
giveUp == busy /\ Ends /\ Backend

Then(step, job) == work' = [Idle EXCEPT !.step = step, !.job = job]
Loaded(out) == state' = [rev |-> out.rev, config |-> out.config, shown |-> TRUE] /\ config' = out.config /\ draft' = NoRequest /\ pending' = out.job
\* What a work does with the result of its command.
Continue(out) ==
  CASE work.step \in {"load", "confirmed", "restored", "expired"} -> work' = Idle /\ Loaded(out)
    [] work.step = "validate" -> work' = Idle /\ draft' = work.req /\ UNCHANGED <<state, config, pending>>
    [] work.step = "apply" /\ out.job = 0 -> Then("load", 0) /\ UNCHANGED <<state, config, draft, pending>>
    [] work.step \in {"apply", "wait"} /\ out.job # 0 ->
         /\ UNCHANGED <<state, config, draft, pending>>
         /\ \/ out.status = "applying" /\ Then("wait", out.job)
            \/ out.status = "awaiting_confirmation" /\ Then("applied", out.job)
            \/ out.status = "committed" /\ Then("confirmed", out.job)
            \/ out.status = "rolled_back" /\ work' = Idle
    [] work.step = "applied" -> work' = Idle /\ Loaded([out EXCEPT !.job = work.job])
    [] work.step \in {"confirm", "rollback"} ->
         /\ Then(CASE work.step = "confirm" /\ out.status = "committed" -> "confirmed"
                   [] work.step = "rollback" /\ out.status = "rolled_back" -> "restored" [] OTHER -> "expired", out.job)
         /\ UNCHANGED <<state, config, draft, pending>>
    [] work.step = "expiry" -> Then(IF out.status = "rolled_back" THEN "restored" ELSE "expired", out.job) /\ UNCHANGED <<state, config, draft, pending>>
\* A record that nobody asks for any more is put to another use; the code keeps journals and tasks.
Released(c) ==
  /\ command' = [command EXCEPT ![c] = Unused]
  /\ router' = [router EXCEPT !.seen[c] = 0] /\ task' = [task EXCEPT ![c] = [status |-> None, out |-> NoOutcome]]
  /\ clock' = [clock EXCEPT ![c] = {}] /\ journal' = [journal EXCEPT ![c] = [started |-> FALSE, out |-> NoOutcome]]
  /\ carried' = [carried EXCEPT ![c] = 0]
  /\ UNCHANGED <<claimed, phase>>
Forget(c) == Over(c) /\ work.on # c /\ Released(c) /\ Panel

get ==
  /\ busy /\ work.on # None /\ command[work.on].status \notin Open
  /\ IF command[work.on].status = "COMPLETED" THEN Continue(command[work.on].out) /\ UNCHANGED <<open, asked>> ELSE Ends
  /\ IF Over(work.on) THEN Released(work.on) ELSE Backend

Next ==
  \/ RouterStep \/ Crash
  \/ \E c \in Commands, yes, also \in BOOLEAN : run(c, yes, also) \/ report(c, yes, also)
  \/ \E c \in Commands, yes \in BOOLEAN : refresh(c, yes) \/ save(c, yes) \/ Execute(c, yes)
  \/ \E c \in Commands : create(c) \/ unreachable(c) \/ Tick(c) \/ Forget(c)
  \/ \E order \in {s \in UNION {[1 .. n -> Commands] : n \in 1 .. MaxClaims} : \A i, j \in DOMAIN s : i # j => s[i] # s[j]}, yes \in BOOLEAN : poll(order, yes)
  \/ \E on \in BOOLEAN : Activate(on)
  \/ reload \/ prepare \/ (\E s \in Services : restart(s)) \/ apply \/ cancel \/ settle("confirm") \/ settle("rollback") \/ expiryRefresh
  \/ \E p \in Profiles \cup {None} : addProfile(p) \/ removeProfile(p) \/ choose(p)
  \/ get \/ giveUp

Spec == Init /\ [][Next]_routerVars

--------------------------------------------------------------------------------
\* A change and a restart are carried out at most once, however tasks are given out again and
\* agents crash; a command is told completed only if its task is, with what the journal has.
OnceEach ==
  \A c \in Commands :
    /\ carried[c] <= 1
    /\ command[c].status = "COMPLETED" =>
         /\ task[c].status = "COMPLETED" /\ command[c].out = task[c].out /\ journal[c].out = task[c].out
         /\ Req(c).action \in {"apply", "restart"} => carried[c] = 1

\* What the panel is about to say of a change, in force or taken back, is so at the router; what it asks to confirm is the
\* configuration its editor shows, of the revision it shows, without a profile that is gone;
\* and the answer it waits for is to the request of its work.
PanelTrue ==
  /\ work.step = "confirmed" => router.jobs[work.job] = "committed"
  /\ work.step = "restored" => router.jobs[work.job] = "rolled_back"
  /\ draft.action = "apply" => state.shown /\ draft.rev = state.rev /\ draft.config = config
  /\ config.port # None => config.port \in config.profiles
  /\ work.on # None => Req(work.on) = Asks

RouterTrue == OnceEach /\ PanelTrue

\* Said of a task ("task expired before execution") and not so: its report may have been lost, and
\* the task given out again, in time, to an agent that comes to it too late.
ExpiredUntouched == \A c \in Commands : task[c].status \in {"EXPIRED", "FAILED"} /\ task[c].out.status = "expired" => carried[c] = 0

--------------------------------------------------------------------------------
(* What every reachable state has, besides: the invariant that the proofs keep. *)
RouterAssumption == MaxClaims \in Nat

Configs == {x \in [profiles : SUBSET (Profiles \cup {None}), port : Profiles \cup {None}] : x.port # None => x.port \in x.profiles}
JobStatuses == {"applying", "awaiting_confirmation", "committed", "rolled_back"}
Requests == [action : {None, "state", "jobs", "validate", "apply", "confirm", "rollback", "restart"}, rev : Nat, config : Configs, job : Nat]
Outcomes == [ok : BOOLEAN, rev : Nat, config : Configs, job : Nat, status : JobStatuses \cup {None, "failed", "expired"}]
Steps == {"idle", "load", "validate", "apply", "wait", "applied", "confirm", "confirmed", "rollback", "restored", "expiry", "expired"}
Routers == [rev : Nat, config : Configs, before : Configs, jobs : Seq(JobStatuses), seen : [Commands -> Nat]]
Records == [req : Requests, status : Open \cup {None, "COMPLETED", "FAILED", "EXPIRED", "UNKNOWN"}, out : Outcomes]
Tasks == [status : Open \cup {None, "COMPLETED", "FAILED", "EXPIRED", "UNKNOWN"}, out : Outcomes]
Journals == [started : BOOLEAN, out : Outcomes]
BackendType ==
  /\ router \in Routers /\ command \in [Commands -> Records] /\ task \in [Commands -> Tasks]
  /\ claimed \in Seq(Commands) /\ phase \in [at : {"idle", "run", "save", "report"}, out : Outcomes]
  /\ journal \in [Commands -> Journals] /\ carried \in [Commands -> Nat]
PanelType ==
  /\ state \in [rev : Nat, config : Configs, shown : BOOLEAN] /\ config \in Configs
  /\ draft \in Requests /\ pending \in Nat /\ work \in [step : Steps, on : Commands \cup {None}, job : Nat, req : Requests]

\* What the journal of a command, its task and the manager's record say of one another.
Acts(c) == Req(c).action \in {"apply", "restart"}
RecordTrue(c) ==
  /\ command[c] = Unused =>
       /\ router.seen[c] = 0 /\ carried[c] = 0 /\ task[c] = [status |-> None, out |-> NoOutcome]
       /\ journal[c] = [started |-> FALSE, out |-> NoOutcome]
  /\ command[c] # Unused => Req(c).action # None
  /\ Req(c).action # "restart" => carried[c] = IF router.seen[c] = 0 THEN 0 ELSE 1
  /\ Req(c).action = "restart" => carried[c] \in {0, 1} /\ (carried[c] = 1 => journal[c].started \/ journal[c].out # NoOutcome)
  /\ Acts(c) /\ journal[c].out.ok => carried[c] = 1
  /\ Req(c).action = "jobs" /\ journal[c].out.ok => journal[c].out.job # 0
  /\ task[c].status = "COMPLETED" => task[c].out.ok /\ journal[c].out = task[c].out
  /\ command[c].status = "COMPLETED" => task[c].status = "COMPLETED" /\ command[c].out = task[c].out

\* The agent is at the first of the tasks it has claimed.
RunsTrue(c) ==
  /\ phase.at \in {"run", "save"} => journal[c].started /\ journal[c].out = NoOutcome
  /\ phase.at = "run" /\ Req(c).action = "restart" => carried[c] = 0
  /\ phase.at = "save" => phase.out # NoOutcome /\ (phase.out.ok /\ Acts(c) => carried[c] = 1) /\ (phase.out.ok /\ Req(c).action = "jobs" => phase.out.job # 0)
  /\ phase.at = "report" /\ phase.out.ok => journal[c].out = phase.out
AgentTrue ==
  /\ \A i \in DOMAIN claimed : command[claimed[i]] # Unused
  /\ claimed = <<>> => phase = AtRest
  /\ claimed # <<>> => RunsTrue(Head(claimed))

\* What was said of a job that is over stays true of it.
Said(o) == o.status \in {"committed", "rolled_back"} => o.job \in DOMAIN router.jobs /\ router.jobs[o.job] = o.status
SaidTrue == Said(phase.out) /\ \A c \in Commands : Said(journal[c].out) /\ Said(task[c].out) /\ Said(command[c].out)

WorkTrue ==
  /\ work.step = "idle" => work = Idle
  /\ work.on # None => Req(work.on) = Asks
  /\ work.step = "confirmed" => work.job \in DOMAIN router.jobs /\ router.jobs[work.job] = "committed"
  /\ work.step = "restored" => work.job \in DOMAIN router.jobs /\ router.jobs[work.job] = "rolled_back"
  /\ work.step = "validate" => state.shown /\ work.req = Request("apply", state.rev, config, 0)
  /\ work.step = "apply" => work.req.action \in {"apply", "restart"}
DraftTrue ==
  /\ draft = NoRequest \/ draft.action \in {"apply", "restart"}
  /\ draft.action = "apply" => state.shown /\ draft.rev = state.rev /\ draft.config = config
BackendInv == BackendType /\ (\A c \in Commands : RecordTrue(c)) /\ AgentTrue /\ SaidTrue
PanelInv == PanelType /\ WorkTrue /\ DraftTrue
RouterInv == BackendInv /\ PanelInv

(* Parts of it that the proofs name. *)
\* A job that is over stays so.
Kept == \A j \in DOMAIN router.jobs : j \in DOMAIN router'.jobs /\ (router.jobs[j] \in {"committed", "rolled_back"} => router'.jobs[j] = router.jobs[j])
\* A request carried out by the router, and the answer to it.
Carried(c, req, e) ==
  /\ e.router \in Routers /\ e.out \in Outcomes /\ e.out # NoOutcome
  /\ \A j \in DOMAIN router.jobs : j \in DOMAIN e.router.jobs /\ (router.jobs[j] \in {"committed", "rolled_back"} => e.router.jobs[j] = router.jobs[j])
  /\ e.out.status \in {"committed", "rolled_back"} => e.out.job \in DOMAIN e.router.jobs /\ e.router.jobs[e.out.job] = e.out.status
  /\ Len(e.router.jobs) \in {Len(router.jobs), Len(router.jobs) + 1} /\ Len(router.jobs) \in Nat
  /\ Len(e.router.jobs) = Len(router.jobs) => e.router.seen = router.seen
  /\ Len(e.router.jobs) # Len(router.jobs) =>
       /\ req.action = "apply" /\ router.seen[c] = 0 /\ e.router.seen[c] # 0
       /\ \A d \in Commands : d # c => e.router.seen[d] = router.seen[d]
  /\ req.action = "apply" /\ e.out.ok => e.router.seen[c] # 0
  /\ req.action = "jobs" /\ e.out.ok => e.out.job # 0
\* A work that is begun asks for nothing yet.
WorkIs(w, shown, rev, cfg) ==
  /\ w \in [step : Steps, on : {None}, job : Nat, req : Requests]
  /\ w.step = "idle" => w = Idle
  /\ w.step = "confirmed" => w.job \in DOMAIN router.jobs /\ router.jobs[w.job] = "committed"
  /\ w.step = "restored" => w.job \in DOMAIN router.jobs /\ router.jobs[w.job] = "rolled_back"
  /\ w.step = "validate" => shown /\ w.req = Request("apply", rev, cfg, 0)
  /\ w.step = "apply" => w.req.action \in {"apply", "restart"}
================================================================================
