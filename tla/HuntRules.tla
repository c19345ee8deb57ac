------------------------------- MODULE HuntRules -------------------------------
(* A repeated hunt rule: its administrator's transitions, the tick that runs  *)
(* it every three seconds over a list it read before, the background query,   *)
(* and the transaction that counts and publishes a result (HuntRules.java).   *)
(* A restart may bring a new definition of the rule's scenario.  Over it, the *)
(* rules and operations tab of the workbench (HuntOperations.tsx): what an    *)
(* administrator sees of a rule and its runtime, read apart and at other      *)
(* moments, the transitions offered from it, and the lookups and indicators   *)
(* edited beside it while other administrators edit them too.                 *)
EXTENDS Naturals, FiniteSets, Sequences

CONSTANTS
  Needed,       \* complete runs before activation (10 in the code)
  MaxQueries,   \* bound on the queries started
  MaxChanges,   \* bound on the transitions
  MaxRestarts,
  Entries,      \* lookups and indicators
  Indicators,   \* which of them are indicators
  MaxEntry      \* bound on the versions of an entry

VARIABLES
  rule,      \* the resource: state, version, scenarioVersion
  since,     \* observed_since: "never", "young", or "aged" by seven days
  run,       \* the rest of hunt_rule_runtime: last_state, last_job_id, ready_runs
  query,     \* the background queries: how each ended, and for whom it was started
  tick,      \* the tick under way: its place and what it has read, or NoTick
  late,      \* the claim is older than two minutes
  catalogue, \* the version of the scenario's definition
  alerted,   \* queries whose findings were published as alerts
  restarts

ruleVars == <<rule, since, run, query, tick, late, catalogue, alerted, restarts>>

None    == 0
Queries == 1 .. MaxQueries
NoTick  == [at |-> "idle"]
Runs    == {"OBSERVE", "ACTIVE"}
Ends    == {"READY", "PARTIAL", "FAILED", "GONE"}

\* The observation a query was started in: the version that began it.
RuleInit ==
  /\ rule = [state |-> "DRAFT", version |-> 1, scenarioVersion |-> 1, began |-> 0]
  /\ since = "never" /\ run = [last |-> "IDLE", job |-> None, ready |-> {}]
  /\ query = <<>> /\ tick = NoTick /\ late = FALSE
  /\ catalogue = 1 /\ alerted = {} /\ restarts = 0
-------------------------------------------------------------------------------
(* The administrator.                                                        *)
Eligible == since = "aged" /\ Cardinality(run.ready) >= Needed

Leads(from, to) ==
  \/ to = "OBSERVE" /\ from \in {"DRAFT", "PAUSED"}
  \/ to = "ACTIVE"  /\ from = "OBSERVE" /\ Eligible /\ rule.scenarioVersion = catalogue
  \/ to = "PAUSED"  /\ from \in Runs

\* Variant: a new observation keeps the runs counted before.
ObserveOn ==
  /\ since' = "young" /\ late' = FALSE /\ run' = [run EXCEPT !.last = "IDLE", !.job = None]
  /\ rule' = [rule EXCEPT !.state = "OBSERVE", !.version = @ + 1,
                          !.scenarioVersion = catalogue, !.began = rule.version + 1]

\* An observation starts from nothing: runs, claim and age.
Observe ==
  /\ since' = "young" /\ late' = FALSE
  /\ run' = [last |-> "IDLE", job |-> None, ready |-> {}]
  /\ rule' = [rule EXCEPT !.state = "OBSERVE", !.version = @ + 1,
                          !.scenarioVersion = catalogue, !.began = rule.version + 1]

\* Variant: the version in hand is not compared.
TransitionAnyway(to, v) ==
  /\ rule.version <= MaxChanges /\ Leads(rule.state, to)
  /\ IF to = "OBSERVE" THEN Observe
     ELSE /\ rule' = [rule EXCEPT !.state = to, !.version = @ + 1]
          /\ UNCHANGED <<since, run, late>>
  /\ UNCHANGED <<query, tick, catalogue, alerted, restarts>>

Transition(to, v) ==
  /\ v = rule.version /\ v <= MaxChanges /\ Leads(rule.state, to)
  /\ IF to = "OBSERVE" THEN Observe
     ELSE /\ rule' = [rule EXCEPT !.state = to, !.version = @ + 1]
          /\ UNCHANGED <<since, run, late>>
  /\ UNCHANGED <<query, tick, catalogue, alerted, restarts>>
-------------------------------------------------------------------------------
(* The tick.  It lists the rules with their runtime, reads each rule again,  *)
(* and then acts on both.                                                    *)
Ticks(rest) == UNCHANGED <<since, catalogue, restarts>> /\ UNCHANGED rest
TickEnds == tick' = NoTick

List ==
  /\ tick = NoTick /\ rule.state \in Runs
  /\ tick' = [at |-> "listed", state |-> rule.state, scenarioVersion |-> rule.scenarioVersion,
              last |-> run.last, job |-> run.job, late |-> late, version |-> None]
  /\ Ticks(<<rule, run, query, late, alerted>>)

ReadRule ==
  /\ tick.at = "listed"
  /\ tick' = [tick EXCEPT !.at = "read", !.version = rule.version]
  /\ Ticks(<<rule, run, query, late, alerted>>)

\* pauseChangedDefinition: refused when the rule has changed since it was read.
DefinitionChanged ==
  /\ tick.at = "read" /\ tick.scenarioVersion # catalogue
  /\ TickEnds /\ Ticks(<<query, late, alerted>>)
  /\ IF rule.version # tick.version THEN UNCHANGED <<rule, run>>
     ELSE /\ rule' = [rule EXCEPT !.state = "PAUSED", !.version = @ + 1]
          /\ run' = [run EXCEPT !.last = "VERSION_MISMATCH"]

Current == tick.at = "read" /\ tick.scenarioVersion = catalogue
Claimed == tick.last = "RUNNING"

\* Variant: only the version is looked at again.
SupersededByVersion == rule.version # tick.version

\* finish: the runtime and the rule are looked at again under their locks.
Superseded == rule.version # tick.version \/ rule.state \notin Runs
Publish(end) ==
  IF end # "READY" THEN run' = [run EXCEPT !.last = end] /\ UNCHANGED alerted
  ELSE /\ run' = [run EXCEPT !.last = "COMPLETED", !.ready = @ \cup {tick.job}]
       /\ alerted' = IF tick.state = "ACTIVE" THEN alerted \cup {tick.job} ELSE alerted
Finish ==
  /\ Current /\ Claimed /\ tick.job # None
  /\ TickEnds /\ Ticks(<<rule, query, late>>)
  /\ LET end == query[tick.job].end IN
     \/ end = "open" /\ UNCHANGED <<run, alerted>>
     \/ end = "GONE" /\ run' = [run EXCEPT !.last = "FAILED"] /\ UNCHANGED alerted
     \/ /\ end \in Ends \ {"GONE"}
        /\ IF run.last # "RUNNING" \/ run.job # tick.job THEN UNCHANGED <<run, alerted>>
           ELSE IF Superseded THEN run' = [run EXCEPT !.last = "SUPERSEDED"] /\ UNCHANGED alerted
           ELSE Publish(end)

\* A claim without a query, left by a process that stopped in between.
Orphan ==
  /\ Current /\ Claimed /\ tick.job = None
  /\ TickEnds /\ Ticks(<<rule, query, late, alerted>>)
  /\ run' = IF tick.late /\ run.job = None THEN [run EXCEPT !.last = "FAILED"] ELSE run

\* A rule waits while another one's query is in the background, or for a minute.
Wait ==
  /\ Current /\ ~Claimed /\ TickEnds /\ Ticks(<<rule, run, query, late, alerted>>)

Claim ==
  /\ Current /\ ~Claimed /\ Len(query) < MaxQueries
  /\ IF run.last = "RUNNING" THEN TickEnds /\ UNCHANGED <<run, late>>
     ELSE /\ run' = [run EXCEPT !.last = "RUNNING", !.job = None] /\ late' = FALSE
          /\ tick' = [at |-> "claimed", began |-> rule.began]
  /\ Ticks(<<rule, query, alerted>>)

StartQuery ==
  /\ tick.at = "claimed"
  /\ \/ /\ query' = Append(query, [end |-> "open", began |-> tick.began])
        /\ tick' = [tick EXCEPT !.at = "created"] /\ UNCHANGED run
     \/ run' = [run EXCEPT !.last = "FAILED"] /\ TickEnds /\ UNCHANGED query
  /\ Ticks(<<rule, late, alerted>>)

Record ==
  /\ tick.at = "created" /\ TickEnds
  /\ run' = [run EXCEPT !.job = Len(query)]
  /\ Ticks(<<rule, query, late, alerted>>)
-------------------------------------------------------------------------------
(* Time, the query jobs and the process.                                     *)
QueryEnds(j, end) ==
  /\ query[j].end = "open" \/ (end = "GONE" /\ query[j].end # "GONE")
  /\ query' = [query EXCEPT ![j].end = end]
  /\ UNCHANGED <<rule, since, run, tick, late, catalogue, alerted, restarts>>
WeekPasses == /\ since = "young" /\ since' = "aged"
              /\ UNCHANGED <<rule, run, query, tick, late, catalogue, alerted, restarts>>
MinutesPass == /\ run.last = "RUNNING" /\ ~late /\ late' = TRUE
               /\ UNCHANGED <<rule, since, run, query, tick, catalogue, alerted, restarts>>
Restart ==
  /\ restarts < MaxRestarts /\ restarts' = restarts + 1
  /\ tick' = NoTick /\ catalogue' \in {catalogue, catalogue + 1}
  /\ query' = [j \in DOMAIN query |-> IF query[j].end = "open"
                  THEN [query[j] EXCEPT !.end = "FAILED"] ELSE query[j]]
  /\ UNCHANGED <<rule, since, run, late, alerted>>

Tick == \/ List \/ ReadRule \/ DefinitionChanged \/ Finish \/ Orphan
        \/ Wait \/ Claim \/ StartQuery \/ Record
Elapse == \/ WeekPasses \/ MinutesPass \/ Restart
          \/ \E j \in DOMAIN query, end \in Ends : QueryEnds(j, end)

RuleNext == Tick \/ Elapse \/ \E to \in {"OBSERVE", "ACTIVE", "PAUSED"} : Transition(to, rule.version)
RuleSpec == RuleInit /\ [][RuleNext]_ruleVars

\* The timer fires, a query has an end, two minutes pass.
RuleFairness ==
  /\ WF_ruleVars(Tick) /\ WF_ruleVars(MinutesPass)
  /\ \A j \in Queries : WF_ruleVars(j \in DOMAIN query /\ \E end \in Ends : QueryEnds(j, end))
-------------------------------------------------------------------------------
(* The tab.                                                                  *)
VARIABLES
  rules,     \* the rule in the workbench's list: state and version
  runtime,   \* eligible, as the runtime list on screen has it
  busy,
  request,   \* the operation under way with what it captured, or NoRequest
  loads,     \* the lists still to come: "rules", "runtime", "entries"
  entry,     \* version of each stored entry
  listed,    \* versions in the lists on screen
  form       \* the entry in the form and the version it was filled from, or NoForm

consoleVars == <<rules, runtime, busy, request, loads, entry, listed, form>>
operationVars == <<ruleVars, consoleVars>>

NoRequest == [op |-> "none"]
NoForm    == [id |-> "none", version |-> 0]
Shown     == [state |-> rule.state, version |-> rule.version]

Init ==
  /\ RuleInit
  /\ rules = Shown /\ runtime = FALSE /\ busy = FALSE /\ request = NoRequest
  /\ loads = {"runtime", "entries"}
  /\ entry = [e \in Entries |-> 1] /\ listed = [e \in Entries |-> 0] /\ form = NoForm
-------------------------------------------------------------------------------
\* load and reload: the lists arrive one by one, each as of its own moment.
Loaded(what) ==
  /\ what \in loads /\ loads' = loads \ {what}
  /\ rules'   = IF what = "rules" THEN Shown ELSE rules
  /\ runtime' = IF what = "runtime" THEN Eligible ELSE runtime
  /\ listed'  = IF what = "entries" THEN entry ELSE listed
  /\ busy'    = (busy /\ (request.op # "reload" \/ loads' # {}))
  /\ request' = IF request.op = "reload" /\ loads' = {} THEN NoRequest ELSE request
  /\ UNCHANGED <<ruleVars, entry, form>>

\* action: one operation at a time, then everything is loaded again.
Start(r) == /\ ~busy /\ busy' = TRUE /\ request' = r
            /\ UNCHANGED <<ruleVars, rules, runtime, loads, entry, listed, form>>

\* The buttons of a rule's row.
Offered(to) ==
  \/ to = "OBSERVE" /\ rules.state \in {"DRAFT", "PAUSED"}
  \/ to = "ACTIVE" /\ rules.state = "OBSERVE" /\ runtime
  \/ to = "PAUSED" /\ rules.state \in Runs
Press(to) == Offered(to) /\ Start([op |-> "transition", to |-> to, shown |-> rules])

\* Filling the form: an indicator keeps the item it was opened from; a lookup's
\* draft only remembers which lookup it is for.
Fill(e) == /\ listed[e] > 0
           /\ form' = [id |-> e, version |-> IF e \in Indicators THEN listed[e] ELSE 0]
           /\ UNCHANGED <<ruleVars, rules, runtime, busy, request, loads, entry, listed>>

\* The forms' submit: a lookup is saved over the version in the list by then.
Version == IF form.id \in Indicators THEN form.version ELSE listed[form.id]
Submit  == form # NoForm /\ Start([op |-> "save", id |-> form.id, version |-> Version, base |-> form.version])
Refresh == Start([op |-> "refresh"])
-------------------------------------------------------------------------------
\* The operation ends; a refused one leaves the lists as they are.  A saved
\* lookup's draft is dropped, the indicator's form stays.
Done == /\ loads' = loads \cup {"rules", "runtime", "entries"}
        /\ request' = [op |-> "reload"] /\ UNCHANGED <<rules, runtime, busy, listed>>
Refused == /\ request' = NoRequest /\ busy' = FALSE
           /\ UNCHANGED <<ruleVars, rules, runtime, loads, entry, listed, form>>

Transitioned ==
  /\ request.op = "transition"
  /\ \/ Transition(request.to, request.shown.version) /\ Done /\ UNCHANGED <<entry, form>>
     \/ Refused
Saved ==
  /\ request.op = "save"
  /\ \/ /\ request.version = entry[request.id] /\ entry[request.id] < MaxEntry
        /\ entry' = [entry EXCEPT ![request.id] = @ + 1]
        /\ form' = IF request.id \in Indicators THEN form ELSE NoForm
        /\ Done /\ UNCHANGED ruleVars
     \/ Refused
Refreshed == request.op = "refresh" /\ Done /\ UNCHANGED <<ruleVars, entry, form>>

\* Other administrators.
Elsewhere ==
  \/ /\ \E to \in {"OBSERVE", "ACTIVE", "PAUSED"} : Transition(to, rule.version)
     /\ UNCHANGED consoleVars
  \/ \E e \in Entries :
       /\ entry[e] < MaxEntry /\ entry' = [entry EXCEPT ![e] = @ + 1]
       /\ UNCHANGED <<ruleVars, rules, runtime, busy, request, loads, listed, form>>

Work == (Tick \/ Elapse) /\ UNCHANGED consoleVars
Receive == Transitioned \/ Saved \/ Refreshed \/ \E what \in loads : Loaded(what)
Next == \/ Work \/ Elsewhere \/ Receive \/ Refresh \/ Submit
        \/ \E to \in {"OBSERVE", "ACTIVE", "PAUSED"} : Press(to)
        \/ \E e \in Entries : Fill(e)
Spec == Init /\ [][Next]_operationVars
-------------------------------------------------------------------------------
\* A rule that raises alerts has earned it: the complete runs counted for it
\* were all started in the observation that made it eligible, none is left from
\* before a pause or from an earlier definition.
ActiveEarned ==
  /\ \A j \in run.ready : query[j].began = rule.began
  /\ rule.state = "ACTIVE" => Cardinality(run.ready) >= Needed

\* An alert is published only while its rule is active, however long ago the
\* tick listed it.
AlertsWhileActive == [][alerted' # alerted => rule.state = "ACTIVE"]_ruleVars

\* No run holds a rule for ever: one whose process stopped between the claim and
\* the query, or whose query is gone, is given up.
RunsEnd == (run.last = "RUNNING" /\ rule.state \in Runs) ~>
             (run.last # "RUNNING" \/ rule.state \notin Runs)

\* A transition pressed here starts from the state that was on the screen, and an
\* indicator saved here replaces the version it was opened from, whatever other
\* administrators did and whichever list arrived in between.
StartsFromTheShown ==
  request' = [op |-> "reload"] =>
    /\ request.op = "transition" => rule.state = request.shown.state
    /\ request.op = "save" /\ request.id \in Indicators => entry[request.id] = request.base
ActsOnWhatWasShown == [][StartsFromTheShown]_operationVars
===============================================================================
