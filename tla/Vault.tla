---------------------------------- MODULE Vault ----------------------------------
(* CastrelVault: the secrets and their versions as SecretService.java stores   *)
(* them, a statement at a time and without a transaction, and the console's    *)
(* SecretsView with its reveal dialog (App.tsx).  A handler of the view is the *)
(* list of requests and state changes it awaits one after the other; another   *)
(* administrator or an application is a handler that nobody waits for.         *)
EXTENDS Naturals, Sequences, FiniteSets, FiniteSetsExt

CONSTANTS
  Secrets,      \* the paths, as numbers in their order
  Stored,       \* the secrets that exist at the start, with one version
  MaxTasks,     \* handlers and requests in flight
  MaxStarted,   \* handlers started in a behaviour
  MaxVersions   \* versions of a secret

VARIABLES
  row,        \* vault_secrets: [state, current], the current version 0 for null
  stored,     \* vault_secret_versions: the numbers a secret has
  tasks,      \* the handlers and requests in flight
  started,
  listed,     \* secrets of the view: the rows last answered
  selectedId, \* 0 for ''
  history,    \* versions of the view: [of, numbers, current]
  dialog      \* RevealDialog: [secret, payload], secret 0 while it is closed

vaultVars == <<row, stored, tasks, started, listed, selectedId, history, dialog>>

--------------------------------------------------------------------------------
NoRow == [state |-> "none", current |-> 0]
Live(r) == r.state \in {"enabled", "disabled"}
NoSecret == [secret |-> 0, version |-> 0]
Closed == [secret |-> 0, payload |-> NoSecret]
NoHistory == [of |-> 0, numbers |-> {}, current |-> 0]

\* What may be given out of a row: its current version while it is enabled.
Offered(r) == IF r.state = "enabled" /\ r.current # 0 THEN {r.current} ELSE {}

\* A task: the steps left, the stage of the request at their head, what its statements
\* have read, every version it could rightly have answered, and whether the view waits.
NoTask == [todo |-> <<>>, secret |-> 0, stage |-> "none", read |-> NoRow, rows |-> <<>>,
           numbers |-> {}, offered |-> {}, mine |-> FALSE]
Send(todo, s, mine) ==
  [NoTask EXCEPT !.todo = todo, !.secret = s, !.stage = "sent", !.mine = mine,
                 !.offered = IF todo[1] = "reveal" THEN Offered(row[s]) ELSE {}]
Free == {i \in 1..MaxTasks : tasks[i] = NoTask}

Op(i) == tasks[i].todo[1]
At(i, stage) == tasks[i].stage = stage
SecretOf(i) == tasks[i].secret

\* secrets.find(...) ?? secrets[0]
Names(rows) == {s \in Secrets : Live(rows[s])}
Selected(rows, id) ==
  IF id \in Names(rows) THEN id
  ELSE IF Names(rows) = {} THEN 0 ELSE CHOOSE s \in Names(rows) : \A t \in Names(rows) : s <= t
selected == Selected(listed, selectedId)

--------------------------------------------------------------------------------
(* The server: one statement at a time. *)

\* Every open request may now rightly answer with what the changed row offers.
Witness(t, s, r) ==
  [i \in 1..MaxTasks |->
    IF t[i].secret = s /\ t[i].todo[1] = "reveal" THEN [t[i] EXCEPT !.offered = @ \cup Offered(r)] ELSE t[i]]

Goto(i, stage) == [tasks EXCEPT ![i].stage = stage]
Store(i, r, stage) ==
  /\ row' = [row EXCEPT ![SecretOf(i)] = r]
  /\ tasks' = Witness(Goto(i, stage), SecretOf(i), r)

\* insert into vault_secrets: the path is unique, also among the deleted ones.
InsertSecret(i) ==
  /\ At(i, "sent") /\ Op(i) = "create"
  /\ IF row[SecretOf(i)] = NoRow
     THEN Store(i, [state |-> "enabled", current |-> 0], "insert")
     ELSE tasks' = Goto(i, "failed") /\ UNCHANGED row
  /\ UNCHANGED stored

\* secretById, and ensureEnabled where the operation asks for it.
ReadSecret(i) ==
  /\ At(i, "sent") /\ Op(i) \in {"rotate", "enable", "disable", "delete", "versions", "reveal"}
  /\ LET r == row[SecretOf(i)]
         passes == Live(r) /\ (Op(i) \in {"rotate", "reveal"} => r.state = "enabled")
         next == CASE Op(i) = "rotate" -> "number"
                   [] Op(i) \in {"enable", "disable", "delete"} -> "update"
                   [] OTHER -> "select"
     IN tasks' = [tasks EXCEPT ![i].stage = IF passes THEN next ELSE "failed",
                                 ![i].read = IF next = "select" /\ passes THEN r ELSE @]
  /\ UNCHANGED <<row, stored>>

\* nextVersionNumber
NumberVersion(i) ==
  /\ At(i, "number")
  /\ tasks' = [tasks EXCEPT ![i].stage = "insert", ![i].numbers = stored[SecretOf(i)]]
  /\ UNCHANGED <<row, stored>>

NextNumber(i) == Max({0} \cup tasks[i].numbers) + 1

\* createVersion: unique(secret_id, version_number).
InsertVersion(i) ==
  /\ At(i, "insert")
  /\ LET s == SecretOf(i) n == NextNumber(i)
     IN /\ n <= MaxVersions
        /\ IF n \in stored[s]
           THEN tasks' = Goto(i, "failed") /\ UNCHANGED stored
           ELSE /\ stored' = [stored EXCEPT ![s] = @ \cup {n}]
                /\ tasks' = Goto(i, "current")
  /\ UNCHANGED row

\* update vault_secrets set current_version_id: the number inserted a statement before.
SetCurrent(i) ==
  /\ At(i, "current")
  /\ Store(i, [row[SecretOf(i)] EXCEPT !.current = NextNumber(i)], "get")
  /\ UNCHANGED stored

\* The closing get(id), which fails on a secret deleted meanwhile.
GetSecret(i) ==
  /\ At(i, "get")
  /\ tasks' = Goto(i, IF Live(row[SecretOf(i)]) THEN "answer" ELSE "failed")
  /\ UNCHANGED <<row, stored>>

\* setEnabled (of a row that is not deleted) and delete.
UpdateState(i) ==
  /\ At(i, "update")
  /\ LET r == row[SecretOf(i)]
         state == CASE Op(i) = "delete" -> "deleted"
                    [] r.state = "deleted" -> "deleted"
                    [] Op(i) = "enable" -> "enabled"
                    [] OTHER -> "disabled"
     IN Store(i, [r EXCEPT !.state = state], IF Op(i) = "delete" THEN "answer" ELSE "get")
  /\ UNCHANGED stored

\* The second statement of reveal (currentVersion, by the id read) and of versions.
SelectVersion(i) ==
  /\ At(i, "select")
  /\ tasks' = [tasks EXCEPT
       ![i].stage = IF Op(i) = "reveal" /\ tasks[i].read.current = 0 THEN "failed" ELSE "answer",
       ![i].numbers = IF Op(i) = "versions" THEN stored[SecretOf(i)] ELSE {}]
  /\ UNCHANGED <<row, stored>>

\* list
ListSecrets(i) ==
  /\ At(i, "sent") /\ Op(i) = "load"
  /\ tasks' = [tasks EXCEPT ![i].stage = "answer", ![i].rows = row]
  /\ UNCHANGED <<row, stored>>

\* A statement throws, the session has ended, the payload misses a field, the answer is
\* lost: what earlier statements stored stays.
Break(i) ==
  /\ tasks[i].stage \notin {"none", "answer", "failed"}
  /\ tasks' = Goto(i, "failed")
  /\ UNCHANGED <<row, stored>>

Serve(i) ==
  /\ \/ InsertSecret(i) \/ ReadSecret(i) \/ NumberVersion(i) \/ InsertVersion(i)
     \/ SetCurrent(i) \/ GetSecret(i) \/ UpdateState(i) \/ SelectVersion(i) \/ ListSecrets(i)
     \/ Break(i)
  /\ UNCHANGED <<started, listed, selectedId, history, dialog>>

--------------------------------------------------------------------------------
(* The view. *)

\* The effect on selected?.id: another secret asks for its versions, none empties them.
Render(t, rows, id) ==
  LET now == Selected(rows, id)
      free == {i \in 1..MaxTasks : t[i] = NoTask}
  IN /\ listed' = rows /\ selectedId' = id
     /\ IF now = selected THEN tasks' = t
        ELSE IF now = 0 THEN tasks' = t
        ELSE free # {} /\ tasks' = [t EXCEPT ![CHOOSE i \in free : TRUE] = Send(<<"versions">>, now, TRUE)]

EmptiedBy(rows, id) == selected # 0 /\ Selected(rows, id) = 0

\* A handler of the view starts, or somebody else's request does.
Start(todo, s, mine) ==
  /\ started < MaxStarted /\ started' = started + 1
  /\ \E i \in Free :
       /\ \A j \in Free : i <= j
       /\ tasks' = [tasks EXCEPT ![i] = Send(todo, s, mine)]
  /\ UNCHANGED <<row, stored, listed, selectedId, history, dialog>>

\* A modal covers the page while it is open.
Uncovered == dialog = Closed

create(s)  == Uncovered /\ Start(<<"create", "load", "pick">>, s, TRUE)
rotate     == Uncovered /\ selected # 0 /\ Start(<<"rotate", "load", "versions">>, selected, TRUE)
deleteSecret == Uncovered /\ selected # 0 /\ Start(<<"delete", "unpick", "load">>, selected, TRUE)
refresh    == Uncovered /\ Start(<<"load">>, 0, TRUE)
setEnabled ==
  /\ Uncovered /\ selected # 0
  /\ Start(<<IF listed[selected].state = "enabled" THEN "disable" ELSE "enable", "load">>, selected, TRUE)
reveal == dialog # Closed /\ Start(<<"reveal">>, dialog.secret, TRUE)
Elsewhere == \E s \in Secrets, op \in {"rotate", "disable", "delete"} : Start(<<op>>, s, FALSE)

pick(s) ==
  /\ Uncovered /\ s \in Names(listed) /\ s # selectedId
  /\ Render(tasks, listed, s)
  /\ UNCHANGED <<row, stored, started, history, dialog>>

\* Only a secret shown as enabled can be revealed.
openDialog ==
  /\ Uncovered /\ selected # 0 /\ listed[selected].state = "enabled"
  /\ dialog' = [secret |-> selected, payload |-> NoSecret]
  /\ UNCHANGED <<row, stored, tasks, started, listed, selectedId, history>>

\* The dialog closes: an answer that is under way finds nobody.
closeDialog ==
  /\ dialog # Closed /\ dialog' = Closed
  /\ tasks' = [i \in 1..MaxTasks |->
       IF tasks[i] # NoTask /\ Op(i) = "reveal" THEN [tasks[i] EXCEPT !.mine = FALSE] ELSE tasks[i]]
  /\ UNCHANGED <<row, stored, started, listed, selectedId, history>>

\* The sixty seconds of the payload on the screen are over.
Hide ==
  /\ dialog.payload # NoSecret /\ dialog' = [dialog EXCEPT !.payload = NoSecret]
  /\ UNCHANGED <<row, stored, tasks, started, listed, selectedId, history>>

\* The rest of a handler: its next request is sent; after the last it is over.
After(i, todo) ==
  [tasks EXCEPT ![i] = IF todo = <<>> \/ ~tasks[i].mine THEN NoTask ELSE Send(todo, SecretOf(i), TRUE)]
Rest(i) == Tail(tasks[i].todo)

\* A state change between two requests: setSelectedId(created.id), setSelectedId('').
Picked(i, todo) ==
  IF todo # <<>> /\ todo[1] \in {"pick", "unpick"}
  THEN [todo |-> Tail(todo), id |-> IF todo[1] = "pick" THEN SecretOf(i) ELSE 0]
  ELSE [todo |-> todo, id |-> selectedId]

Unseen(i) ==
  /\ ~tasks[i].mine /\ tasks[i].stage \in {"answer", "failed"}
  /\ tasks' = [tasks EXCEPT ![i] = NoTask]
  /\ UNCHANGED <<listed, selectedId, history, dialog>>

\* A request is answered: the rows replace the list and keep the selection or take the
\* first; the versions are shown; the payload is shown in the dialog.
Answered(i) ==
  /\ tasks[i].mine /\ At(i, "answer")
  /\ LET p == Picked(i, Rest(i))
         rows == IF Op(i) = "load" THEN tasks[i].rows ELSE listed
         kept == IF Op(i) = "load" /\ selectedId = 0 THEN Selected(rows, 0) ELSE selectedId
         id == IF Rest(i) = p.todo THEN kept ELSE p.id
     IN /\ Render(After(i, p.todo), rows, id)
        /\ history' = IF Op(i) = "versions"
                      THEN [of |-> SecretOf(i), numbers |-> tasks[i].numbers,
                            current |-> tasks[i].read.current]
                      ELSE IF EmptiedBy(rows, id) THEN NoHistory ELSE history
  /\ dialog' = IF Op(i) = "reveal"
               THEN [dialog EXCEPT !.payload = [secret |-> SecretOf(i), version |-> tasks[i].read.current]]
               ELSE dialog

\* load keeps the failure to itself and the handler goes on; versions shows none; any
\* other failure ends the handler.
Refused(i) ==
  /\ tasks[i].mine /\ At(i, "failed")
  /\ LET p == Picked(i, Rest(i))
         goes == Op(i) \in {"load", "versions"}
         id == IF goes THEN p.id ELSE selectedId
     IN /\ Render(After(i, IF goes THEN p.todo ELSE <<>>), listed, id)
        /\ history' = IF Op(i) = "versions" \/ EmptiedBy(listed, id) THEN NoHistory ELSE history
  /\ UNCHANGED dialog

Take(i) == (Unseen(i) \/ Answered(i) \/ Refused(i)) /\ UNCHANGED <<row, stored, started>>

\* Another entry of the menu, and back: the view is gone with all it knew, and a new one
\* loads.
Remount ==
  /\ started < MaxStarted /\ started' = started + 1
  /\ tasks' = [i \in 1..MaxTasks |->
       IF i = 1 THEN Send(<<"load">>, 0, TRUE)
       ELSE [tasks[i] EXCEPT !.mine = FALSE]]
  /\ tasks[1] = NoTask
  /\ listed' = [s \in Secrets |-> NoRow] /\ selectedId' = 0
  /\ history' = NoHistory /\ dialog' = Closed
  /\ UNCHANGED <<row, stored>>

Init ==
  /\ row = [s \in Secrets |-> IF s \in Stored THEN [state |-> "enabled", current |-> 1] ELSE NoRow]
  /\ stored = [s \in Secrets |-> IF s \in Stored THEN {1} ELSE {}]
  /\ listed = row /\ selectedId = Selected(row, 0)
  /\ history = [of |-> selectedId, numbers |-> {1}, current |-> 1]
  /\ tasks = [i \in 1..MaxTasks |-> NoTask] /\ started = 0 /\ dialog = Closed

Next ==
  \/ \E i \in 1..MaxTasks : Serve(i) \/ Take(i)
  \/ \E s \in Secrets : create(s) \/ pick(s)
  \/ rotate \/ setEnabled \/ deleteSecret \/ refresh \/ reveal \/ openDialog \/ closeDialog \/ Hide
  \/ Elsewhere \/ Remount

Spec == Init /\ [][Next]_vaultVars

--------------------------------------------------------------------------------
\* The numbers of a secret have no gap, and its current version is one that was stored,
\* whatever rotations met and whatever failed half way.
VersionsWhole ==
  \A s \in Secrets : /\ stored[s] = 1..Cardinality(stored[s])
                     /\ row[s].current \in {0} \cup stored[s]

\* A secret is given out only in a version that was current, of a secret that was enabled
\* at the same moment, at some time between the request and its answer.
GivenWhileCurrent ==
  \A i \in 1..MaxTasks :
    tasks[i] # NoTask /\ At(i, "answer") /\ Op(i) = "reveal" => tasks[i].read.current \in tasks[i].offered

\* The dialog shows a payload of the secret it names, and only of a version that exists.
DialogTrue ==
  dialog.payload # NoSecret =>
    dialog.payload.secret = dialog.secret /\ dialog.payload.version \in stored[dialog.secret]

\* A console never gives a secret out of turn: the three above together.
VaultTrue == VersionsWhole /\ GivenWhileCurrent /\ DialogTrue

--------------------------------------------------------------------------------
(* What every reachable state has, besides: the invariant that the proofs keep. *)
VaultAssumption == Secrets \subseteq Nat \ {0}

Row == [state : {"none", "enabled", "disabled", "deleted"}, current : Nat]
Payload == [secret : Secrets \cup {0}, version : Nat]
Dialogs == [secret : Secrets, payload : Payload] \cup {Closed}
Operations == {"create", "load", "pick", "unpick", "rotate", "versions", "enable", "disable", "delete", "reveal"}
Todos == {todo \in Seq(Operations) : todo # <<>> /\ \A j \in 2..Len(todo) : todo[j] # "reveal"}
Stages == {"sent", "number", "insert", "current", "get", "update", "select", "answer", "failed"}
Requests ==
  [todo : Todos, secret : Secrets \cup {0}, stage : Stages, read : Row, rows : {<<>>} \cup [Secrets -> Row],
   numbers : SUBSET Nat, offered : SUBSET Nat, mine : BOOLEAN]

\* What a request in flight has read is still so, or was at some time since it was sent.
RequestTrue(t) ==
  /\ t.secret = 0 => Len(t.todo) = 1 /\ t.todo[1] = "load"
  /\ t.stage \in {"number", "insert", "current", "get", "update", "select"} => t.todo[1] # "load"
  /\ t.stage \in {"number", "insert", "current", "get", "update"} => t.todo[1] # "reveal"
  /\ t.stage = "sent" => t.numbers = {}
  /\ t.stage = "insert" => \E k \in Nat : t.numbers = 1..k /\ 1..k \subseteq stored[t.secret]
  /\ t.stage = "current" => \E k \in Nat : t.numbers = 1..k /\ k + 1 \in stored[t.secret]
  /\ t.todo[1] = "reveal" =>
       /\ Offered(row[t.secret]) \subseteq t.offered
       /\ t.mine => dialog.secret = t.secret
       /\ t.stage \in {"select", "answer"} => t.read.current \in {0} \cup (stored[t.secret] \cap t.offered)
       /\ t.stage = "answer" => t.read.current # 0
RequestsTrue ==
  /\ tasks \in [1..MaxTasks -> {NoTask} \cup Requests]
  /\ \A i \in 1..MaxTasks : \A t \in Requests : t = tasks[i] => RequestTrue(t)
StoreTrue ==
  /\ row \in [Secrets -> Row] /\ stored \in [Secrets -> SUBSET Nat]
  /\ \A s \in Secrets : \E m \in Nat : stored[s] = 1..m
  /\ \A s \in Secrets : row[s].current \in {0} \cup stored[s]
VaultInv == RequestsTrue /\ StoreTrue /\ dialog \in Dialogs /\ DialogTrue

(* Parts of it that the proofs name. *)
\* Requests that are what they say.
Good(f) == /\ f \in [1..MaxTasks -> {NoTask} \cup Requests]
           /\ \A i \in 1..MaxTasks : \A t \in Requests : t = f[i] => RequestTrue(t)
\* What is left of a plan is nothing, or a plan that does not begin with a reveal.
Later(todo) == todo = <<>> \/ (todo \in Todos /\ todo[1] # "reveal")
================================================================================
