------------------------------- MODULE AgentLifecycle -------------------------------
(* The life of an agent's enrolment: the manager's CastrelSign console               *)
(* (CastrelSignView.tsx), CastrelSign's agents, certificates and enrolment tokens     *)
(* (AgentRepository, EnrollmentTokenRepository), and the agents that enrol and renew  *)
(* (AgentController).  CastrelSign's transactions are serial (SQLite: one that read    *)
(* what another has written since cannot write).  The console keeps what eight        *)
(* requests told it, of which three are modelled; certificates, audit events and      *)
(* attempts are only shown, and what becomes of a release is in SignServices.         *)
EXTENDS Naturals, FiniteSets, Sequences, Functions

CONSTANTS
  Agents,     \* ids, in the order CastrelSign lists them
  Enrolled,   \* those enrolled to begin with
  Policies,   \* update policies that may be saved
  Others,     \* what other administrators do
  MaxTokens,  \* enrolment tokens that are ever made
  MaxCerts,   \* certificates an agent ever gets
  MaxTasks    \* handlers of the console under way at once

VARIABLES
  status,          \* CastrelSign: agent -> "none" or its status
  certs,           \* agent -> statuses of its certificates, the oldest first
  held,            \* agent -> number of the certificate it has installed, or 0
  token,           \* number -> [agent, status]
  policy,          \* the global update policy, or Unset
  list,            \* what the console was told last: [agents, token, policies]
  policiesLoaded,  \* its last load was told the policies
  selected,        \* the agent that was chosen
  confirm,         \* the id typed before an agent is blocked or reactivated
  working,         \* an action is under way
  loading,         \* a load is
  form,            \* the package form: [open, agent]
  tasks            \* handlers under way, the oldest first: [kind, on, no, value, at, got, left]

lifecycleVars ==
  <<status, certs, held, token, policy, list, policiesLoaded, selected, confirm, working, loading, form, tasks>>

None == "none"
Unset == "unset"
Unread == "unread"
Lost == "lost"
Ids == Range(Agents)
NoToken == [agent |-> None, status |-> None]
Closed == [open |-> FALSE, agent |-> None]
RemoveAt(s, i) == SubSeq(s, 1, i - 1) \o SubSeq(s, i + 1, Len(s))
Lists == {"agents", "token", "policies"}

\* A handler runs in a closure: where a list cannot be read it falls back on the one shown when it began.
Task(kind, on, no, value) ==
  [kind |-> kind, on |-> on, no |-> no, value |-> value, at |-> IF kind = "load" THEN "read" ELSE "asked",
   got |-> [list EXCEPT !.policies = Lost], left |-> Lists]
\* What is left of one that was answered: the load, or the end.
Answered(t, at) == [t EXCEPT !.kind = "answered", !.on = None, !.no = 0, !.value = Unset, !.at = at]

Init ==
  /\ status = [a \in Ids |-> IF a \in Enrolled THEN "ACTIVE" ELSE None]
  /\ certs = [a \in Ids |-> IF a \in Enrolled THEN <<"ACTIVE">> ELSE <<>>]
  /\ held = [a \in Ids |-> IF a \in Enrolled THEN 1 ELSE 0]
  /\ token = [n \in 1 .. MaxTokens |-> NoToken] /\ policy = Unset
  /\ list = [agents |-> [a \in Ids |-> None], token |-> [n \in 1 .. MaxTokens |-> NoToken], policies |-> Unread]
  /\ policiesLoaded = FALSE /\ selected = None /\ confirm = None /\ working = FALSE
  /\ loading = TRUE /\ form = Closed /\ tasks = <<Task("load", None, 0, Unset)>>

--------------------------------------------------------------------------------
(* CastrelSign and the agents. *)
Page == UNCHANGED <<list, policiesLoaded, selected, confirm, working, loading, form, tasks>>
Server == UNCHANGED <<status, certs, held, token, policy>>

Usable(t, a) == t.status = "ready" /\ t.agent \in {None, a}
\* issue: the agent is active again, and of its certificates only the new one is.
issue(a, told) ==
  /\ Len(certs[a]) < MaxCerts
  /\ status' = [status EXCEPT ![a] = "ACTIVE"]
  /\ certs' = [certs EXCEPT ![a] = Append([i \in DOMAIN @ |-> IF @[i] = "ACTIVE" THEN "SUPERSEDED" ELSE @[i]], "ACTIVE")]
  /\ held' = IF told THEN [held EXCEPT ![a] = Len(certs[a]) + 1] ELSE held
  /\ UNCHANGED policy /\ Page
enroll(a, n, told) ==
  /\ status[a] # "BLOCKED" /\ Usable(token[n], a)
  /\ token' = [token EXCEPT ![n].status = "used"] /\ issue(a, told)
renew(a, told) ==
  /\ held[a] # 0 /\ status[a] # "BLOCKED" /\ certs[a][held[a]] = "ACTIVE"
  /\ UNCHANGED token /\ issue(a, told)

blockAgent(a) ==
  /\ status' = [status EXCEPT ![a] = "BLOCKED"]
  /\ certs' = [certs EXCEPT ![a] = [i \in DOMAIN @ |-> IF @[i] = "ACTIVE" THEN "REVOKED" ELSE @[i]]]
  /\ token' = [n \in DOMAIN token |-> IF token[n].agent = a /\ token[n].status = "ready" THEN [token[n] EXCEPT !.status = "revoked"] ELSE token[n]]
  /\ UNCHANGED <<held, policy>>
reactivateAgent(a) == status' = [status EXCEPT ![a] = "PENDING"] /\ UNCHANGED <<certs, held, token, policy>>
revoke(n) == token' = [token EXCEPT ![n].status = "revoked"] /\ UNCHANGED <<status, certs, held, policy>>
createToken(a) ==
  \E n \in DOMAIN token :
    /\ token[n] = NoToken /\ \A m \in 1 .. (n - 1) : token[m] # NoToken
    /\ token' = [token EXCEPT ![n] = [agent |-> a, status |-> "ready"]] /\ UNCHANGED <<status, certs, held, policy>>
upsertPolicy(v) == policy' = v /\ UNCHANGED <<status, certs, held, token>>

\* Other administrators do the same.
Elsewhere ==
  /\ Page
  /\ \/ "block" \in Others /\ \E a \in Ids : blockAgent(a)
     \/ "reactivate" \in Others /\ \E a \in Ids : reactivateAgent(a)
     \/ "token" \in Others /\ \E a \in Ids : createToken(a)
     \/ "policy" \in Others /\ \E v \in Policies : upsertPolicy(v)

--------------------------------------------------------------------------------
(* The console's handlers. *)
\* The fields of a policy nobody has set show it off, in the stable channel.
Sent(v) == IF v \in {Unset, Unread} THEN "off" ELSE v
Effect(t) ==
  CASE t.kind = "block" -> blockAgent(t.on)
    [] t.kind = "reactivate" -> reactivateAgent(t.on)
    [] t.kind = "revoke" -> revoke(t.no)
    [] t.kind = "package" -> createToken(t.on)
    [] t.kind = "policy" -> upsertPolicy(Sent(t.value))
    [] t.kind = "release" -> Server
\* A request arrives or not, and so does its answer.
Serve(i, arrives, told) ==
  /\ tasks[i].at = "asked" /\ (told => arrives)
  /\ IF arrives THEN Effect(tasks[i]) ELSE Server
  /\ tasks' = [tasks EXCEPT ![i] = IF told THEN [@ EXCEPT !.at = "done"] ELSE Answered(@, "failed")]
  /\ UNCHANGED <<list, policiesLoaded, selected, confirm, working, loading, form>>

\* runAgentAction, submitPackage: what follows the answer is a load.
answered(i) ==
  /\ tasks[i].at = "done" /\ tasks' = [tasks EXCEPT ![i] = Answered(@, "read")] /\ loading' = TRUE
  /\ form' = CASE tasks[i].kind = "package" -> Closed
               [] tasks[i].kind = "reactivate" -> [open |-> TRUE, agent |-> tasks[i].on] [] OTHER -> form
  /\ confirm' = IF tasks[i].kind = "package" THEN confirm ELSE None
  /\ UNCHANGED <<list, policiesLoaded, selected, working>> /\ Server
failed(i) ==
  /\ tasks[i].at = "failed" /\ tasks' = RemoveAt(tasks, i) /\ working' = FALSE
  /\ UNCHANGED <<list, policiesLoaded, selected, confirm, loading, form>> /\ Server

\* load: eight requests at once, each answered when it is or not at all.
Now(what) == CASE what = "agents" -> status [] what = "token" -> token [] what = "policies" -> policy
Read(i, what, told) ==
  /\ tasks[i].at = "read" /\ what \in tasks[i].left
  /\ tasks' = [tasks EXCEPT ![i].left = @ \ {what}, ![i].got = IF told THEN [@ EXCEPT ![what] = Now(what)] ELSE @]
  /\ UNCHANGED <<list, policiesLoaded, selected, confirm, working, loading, form>> /\ Server

\* The first in the list's order of those it names.
First(some) == IF some = {} THEN None ELSE Agents[CHOOSE i \in DOMAIN Agents : Agents[i] \in some /\ \A j \in 1 .. (i - 1) : Agents[j] \notin some]
Registered(l) == {a \in Ids : l.agents[a] # None}
TokenOf(l) == LET mine == {n \in DOMAIN l.token : l.token[n].agent # None} IN IF mine = {} THEN None ELSE l.token[CHOOSE n \in mine : \A m \in mine : m <= n].agent
loaded(i) ==
  /\ tasks[i].at = "read" /\ tasks[i].left = {}
  /\ LET got == tasks[i].got IN
       /\ list' = IF got.policies = Lost THEN [got EXCEPT !.policies = list.policies] ELSE got
       /\ policiesLoaded' = (got.policies # Lost)
       /\ selected' = IF selected \in Registered(got) THEN selected
                      ELSE IF Registered(got) # {} THEN First(Registered(got)) ELSE TokenOf(got)
  /\ loading' = FALSE /\ working' = IF tasks[i].kind = "load" THEN working ELSE FALSE
  /\ tasks' = RemoveAt(tasks, i) /\ UNCHANGED <<confirm, form>> /\ Server

--------------------------------------------------------------------------------
(* What is shown, and the buttons. *)
\* agentRows: registered agents, then those a token waits for, the newest token first.
Waiting == {n \in DOMAIN list.token : list.token[n].status = "ready" /\ list.token[n].agent # None /\ list.token[n].agent \notin Registered(list)}
agentRows == Registered(list) \cup {list.token[n].agent : n \in Waiting}
selectedAgent ==
  IF selected \in agentRows THEN selected
  ELSE IF Registered(list) # {} THEN First(Registered(list))
  ELSE IF Waiting # {} THEN list.token[CHOOSE n \in Waiting : \A m \in Waiting : m <= n].agent ELSE None

\* The form covers the rest of the page.
Start(t, busy) ==
  /\ Len(tasks) < MaxTasks /\ tasks' = Append(tasks, t) /\ working' = (busy \/ working)
  /\ UNCHANGED <<list, policiesLoaded, selected, confirm, form>> /\ Server
Act(t) == ~ working /\ ~ form.open /\ Start(t, TRUE) /\ UNCHANGED loading
refresh == ~ loading /\ ~ working /\ ~ form.open /\ loading' = TRUE /\ Start(Task("load", None, 0, Unset), FALSE)
choose(a) ==
  /\ a \in agentRows /\ ~ form.open /\ selected' = a /\ confirm' = None /\ <<selected, confirm>> # <<a, None>>
  /\ UNCHANGED <<list, policiesLoaded, working, loading, form, tasks>> /\ Server
type(a) ==
  /\ selectedAgent # None /\ ~ form.open /\ a # confirm /\ confirm' = a
  /\ UNCHANGED <<list, policiesLoaded, selected, working, loading, form, tasks>> /\ Server
blockSelectedAgent == selectedAgent # None /\ confirm = selectedAgent /\ list.agents[selectedAgent] # "BLOCKED" /\ Act(Task("block", selectedAgent, 0, Unset))
reactivateSelectedAgent == selectedAgent # None /\ confirm = selectedAgent /\ list.agents[selectedAgent] = "BLOCKED" /\ Act(Task("reactivate", selectedAgent, 0, Unset))
\* This button is offered whatever else is under way.
revokeToken(n) ==
  /\ selectedAgent # None /\ list.token[n].agent = selectedAgent /\ list.token[n].status # "revoked" /\ ~ form.open
  /\ Start(Task("revoke", None, n, Unset), TRUE) /\ UNCHANGED loading
changeRelease == Act(Task("release", None, 0, Unset))
updateGlobalPolicy == policiesLoaded /\ Act(Task("policy", None, 0, list.policies))
upsertGlobalPolicy(v) ==
  /\ policiesLoaded /\ ~ working /\ ~ form.open /\ v # list.policies /\ list' = [list EXCEPT !.policies = v]
  /\ UNCHANGED <<policiesLoaded, selected, confirm, working, loading, form, tasks>> /\ Server
showForm(open) ==
  /\ open # form.open /\ form' = [open |-> open, agent |-> None]
  /\ UNCHANGED <<list, policiesLoaded, selected, confirm, working, loading, tasks>> /\ Server
submitPackage == form.open /\ ~ working /\ Start(Task("package", form.agent, 0, Unset), TRUE) /\ UNCHANGED loading

Next ==
  \/ \E a \in Ids, n \in DOMAIN token, told \in BOOLEAN : enroll(a, n, told)
  \/ \E a \in Ids, told \in BOOLEAN : renew(a, told)
  \/ Elsewhere
  \/ \E i \in DOMAIN tasks : answered(i) \/ failed(i) \/ loaded(i)
  \/ \E i \in DOMAIN tasks, arrives, told \in BOOLEAN : Serve(i, arrives, told)
  \/ \E i \in DOMAIN tasks, what \in Lists, told \in BOOLEAN : Read(i, what, told)
  \/ \E a \in Ids : choose(a) \/ type(a)
  \/ \E n \in DOMAIN token : revokeToken(n)
  \/ \E v \in Policies : upsertGlobalPolicy(v)
  \/ \E open \in BOOLEAN : showForm(open)
  \/ refresh \/ blockSelectedAgent \/ reactivateSelectedAgent \/ changeRelease \/ updateGlobalPolicy \/ submitPackage

Spec == Init /\ [][Next]_lifecycleVars

--------------------------------------------------------------------------------
\* However enrolments, renewals, blocks and their retries follow each other, an agent has at most
\* one certificate in force, and a blocked one none; one that was never heard of has none either.
\* Who was blocked comes back with a token only: a renewal never follows a revocation.
InForce(a) == {i \in DOMAIN certs[a] : certs[a][i] = "ACTIVE"}
CertificatesTrue ==
  \A a \in Ids :
    /\ Cardinality(InForce(a)) <= 1
    /\ status[a] \in {"BLOCKED", None} => InForce(a) = {}
    /\ status[a] = "ACTIVE" => Cardinality(InForce(a)) = 1
    /\ Cardinality({i \in DOMAIN certs[a] : i > 1 /\ certs[a][i - 1] = "REVOKED"})
         <= Cardinality({n \in DOMAIN token : token[n].status \in {"used", "revoked"}})

\* A policy is saved only over one that was read, a package is made for an agent CastrelSign
\* knows, and what is blocked has at least a token, whatever loads overtook each other.
ConsoleTrue ==
  /\ policiesLoaded => list.policies # Unread
  /\ form.agent # None => status[form.agent] # None
  /\ \A i \in DOMAIN tasks :
       /\ tasks[i].kind = "policy" => tasks[i].value # Unread
       /\ tasks[i].kind \in {"block", "reactivate"} => status[tasks[i].on] # None \/ \E n \in DOMAIN token : token[n].agent = tasks[i].on

LifecycleTrue == CertificatesTrue /\ ConsoleTrue

\* "reactivated agent; new enrollment is required" (AgentRepository.reactivateAgent), and not so of an
\* agent that has enrolled before it is reactivated again, by another or because an answer was lost.
ReactivatedEnrolsAnew == \A a \in Ids : status[a] = "PENDING" => InForce(a) = {}

\* While an action on an agent or the policy is under way no other is begun; a token that is
\* revoked meanwhile ends the wait too early.
OneActionAtATime == Cardinality({i \in DOMAIN tasks : tasks[i].kind \in {"block", "reactivate", "policy", "package", "release"}}) <= 1

--------------------------------------------------------------------------------
(* What every reachable state has, besides: the invariant that the proofs keep. *)
AgentLifecycleAssumption ==
  /\ Len(Agents) \in Nat /\ DOMAIN Agents = 1..Len(Agents)
  /\ MaxTokens \in Nat /\ None \notin Ids /\ Unread \notin Policies

Statuses == {None, "ACTIVE", "BLOCKED", "PENDING"}
TokenRow == [agent : Ids \cup {None}, status : {None, "ready", "used", "revoked"}]
PolicyValues == Policies \cup {Unset, "off"}
ListOf(policies) == [agents : [Ids -> Statuses], token : [1..MaxTokens -> TokenRow], policies : policies]

\* Certificates that came after a revoked one, and the tokens that are gone.
Revived(a) == {i \in DOMAIN certs[a] : i > 1 /\ certs[a][i - 1] = "REVOKED"}
Gone == {n \in DOMAIN token : token[n].status \in {"used", "revoked"}}
ServerInv ==
  /\ status \in [Ids -> Statuses] /\ certs \in [Ids -> Seq({"ACTIVE", "SUPERSEDED", "REVOKED"})]
  /\ held \in [Ids -> Nat] /\ token \in [1..MaxTokens -> TokenRow] /\ policy \in PolicyValues
  /\ \A a \in Ids :
       /\ held[a] <= Len(certs[a])
       /\ InForce(a) \subseteq {Len(certs[a])}
       /\ status[a] \in {"BLOCKED", None} => InForce(a) = {}
       /\ status[a] = "ACTIVE" => InForce(a) # {}
       /\ Cardinality(Revived(a)) <= Cardinality(Gone)

\* An agent and a token the console was told of are still there.
Known(l) ==
  /\ \A a \in Ids : l.agents[a] # None => status[a] # None
  /\ \A n \in 1..MaxTokens : l.token[n].agent # None => token[n].agent = l.token[n].agent
\* An agent CastrelSign knows it keeps, and so the agent of a token.
Grows ==
  /\ \A a \in Ids : status[a] # None => status'[a] # None
  /\ \A n \in 1..MaxTokens : token[n].agent # None => token'[n].agent = token[n].agent
TaskTypes ==
  [kind : {"load", "block", "reactivate", "revoke", "package", "policy", "release", "answered"}, on : Ids \cup {None},
   no : {0} \cup (1..MaxTokens), value : PolicyValues \cup {Unread}, at : {"read", "asked", "done", "failed"},
   got : ListOf(PolicyValues \cup {Lost}), left : SUBSET Lists]
TaskTrue(t) ==
  /\ Known(t.got)
  /\ t.at \in {"asked", "done"} => t.kind \notin {"load", "answered"}
  /\ t.kind = "revoke" => t.no # 0
  /\ t.kind = "policy" => t.value # Unread
  /\ t.kind \in {"block", "reactivate"} =>
       t.on \in Ids /\ (status[t.on] # None \/ \E n \in 1..MaxTokens : token[n].agent = t.on)
  /\ t.kind = "reactivate" /\ t.at = "done" => status[t.on] # None
TasksTrue == {t \in TaskTypes : TaskTrue(t)}
PageInv ==
  /\ list \in ListOf(PolicyValues \cup {Unread}) /\ Known(list)
  /\ policiesLoaded => list.policies # Unread
  /\ form \in [open : BOOLEAN, agent : Ids \cup {None}] /\ (form.agent # None => status[form.agent] # None)
  /\ tasks \in Seq(TasksTrue)
LifecycleInv == ServerInv /\ PageInv
================================================================================
