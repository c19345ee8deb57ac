-------------------------------- MODULE SignConsole --------------------------------
(* The console of CastrelSign: App.jsx with its session, its route and its one *)
(* dialog, useLoad and ActionDialog (runtime.jsx), api.js, and the audit pages *)
(* of Admin.jsx.  The server is the number of changes made so far, which is    *)
(* also the last number of its audit log, and the session of the browser.      *)
EXTENDS Naturals, Sequences, FiniteSets, FiniteSetsExt

CONSTANTS
  Users,       \* who logs in, one after the other
  PageSize,    \* rows of an audit page
  MaxStamp,    \* changes made at the server
  MaxDialogs,  \* dialogs opened
  MaxRuns      \* requests in flight that no page waits for

VARIABLES
  stamp,    \* changes made at the server
  cookie,   \* the session of the browser as the server knows it
  session,  \* who the console believes is logged in
  logins,
  page,     \* the route
  history,  \* history of Audit: where its pages begin, the last one shown
  load,     \* the state of the page's useLoad: [state, stamp, user, rows]
  ask,      \* its requests in flight: [user, stage, stamp]
  dialog,   \* the open dialog: [id, busy, secret], id 0 when there is none
  opened,
  runs,     \* requests sent by dialogs, by logout and by downloads
  done      \* the newest change that a dialog of this console reported as done

signConsoleVars ==
  <<stamp, cookie, session, logins, page, history, load, ask, dialog, opened, runs, done>>

--------------------------------------------------------------------------------
Pages == {"keys", "approvals", "audit"}
Nobody == "none"
Loading == [state |-> "loading", stamp |-> 0, user |-> Nobody, rows |-> <<>>]
NoAsk == [user |-> Nobody, stage |-> "none", stamp |-> 0]
NoDialog == [id |-> 0, busy |-> FALSE, secret |-> FALSE]

\* The rows of an audit page that begins after a number.
Rows(after, last) == [i \in 1..Min({PageSize, last - after}) |-> after + i]
after == history[Len(history)]

\* The effect of useLoad: what was asked is aborted, the page loads, and asks anew.
Reload(user) ==
  /\ load' = Loading
  /\ ask' = IF user = Nobody THEN NoAsk ELSE [user |-> user, stage |-> "sent", stamp |-> 0]

\* accept(null) and setAction(null): the login takes the place of every page.
Leave == /\ session' = Nobody /\ dialog' = NoDialog /\ history' = <<0>>
         /\ Reload(Nobody)

--------------------------------------------------------------------------------
(* The server. *)

\* Somebody else changes something; the session ends.
Elsewhere ==
  /\ stamp < MaxStamp /\ stamp' = stamp + 1
  /\ UNCHANGED <<cookie, session, logins, page, history, load, ask, dialog, opened, runs, done>>
Expire ==
  /\ cookie # Nobody /\ cookie' = Nobody
  /\ UNCHANGED <<stamp, session, logins, page, history, load, ask, dialog, opened, runs, done>>

\* The first of the paths of a page is read; the others are read later.
Read ==
  /\ ask.stage = "sent"
  /\ ask' = IF cookie = ask.user THEN [ask EXCEPT !.stage = "read", !.stamp = stamp]
            ELSE [ask EXCEPT !.stage = "401"]
  /\ UNCHANGED <<stamp, cookie, session, logins, page, history, load, dialog, opened, runs, done>>

\* A request of a dialog is carried out, or refused for the session, the code or the
\* state of its target.
Serve(r) ==
  /\ r.stage = "sent"
  /\ \/ /\ r.user = cookie
        /\ IF r.kind = "change" THEN stamp < MaxStamp /\ stamp' = stamp + 1 ELSE UNCHANGED stamp
        /\ cookie' = IF r.kind = "logout" THEN Nobody ELSE cookie
        /\ runs' = (runs \ {r}) \cup {[r EXCEPT !.stage = "ok", !.stamp = stamp']}
     \/ /\ runs' = (runs \ {r}) \cup {[r EXCEPT !.stage = IF r.user = cookie THEN "failed" ELSE "401"]}
        /\ UNCHANGED <<stamp, cookie>>
  /\ UNCHANGED <<session, logins, page, history, load, ask, dialog, opened, done>>

--------------------------------------------------------------------------------
(* The console. *)

\* Login: the answer opens the page of the user's role.
login ==
  /\ session = Nobody /\ logins < Len(Users) /\ logins' = logins + 1
  /\ cookie' = Users[logins'] /\ session' = cookie' /\ page' = "keys" /\ history' = <<0>>
  /\ Reload(session')
  /\ UNCHANGED <<stamp, dialog, opened, runs, done>>

\* hashchange: also under an open dialog, with the back button of the browser.
Route(p) ==
  /\ p # page /\ page' = p /\ history' = <<0>>
  /\ Reload(session)
  /\ UNCHANGED <<stamp, cookie, session, logins, dialog, opened, runs, done>>

Uncovered == session # Nobody /\ dialog = NoDialog

refresh ==
  /\ Uncovered /\ Reload(session)
  /\ UNCHANGED <<stamp, cookie, session, logins, page, history, dialog, opened, runs, done>>

\* The answers of a page: shown, or refused; a GET without a session logs the console out.
Answer ==
  /\ ask.stage \in {"read", "401"}
  /\ \/ /\ ask.stage = "401"
        /\ Leave
     \/ /\ ask.stage = "read" /\ ask' = NoAsk
        /\ \/ load' = [state |-> "data", stamp |-> ask.stamp, user |-> ask.user,
                       rows |-> IF page = "audit" THEN Rows(after, ask.stamp) ELSE <<>>]
           \/ load' = [Loading EXCEPT !.state = "error"]
        /\ UNCHANGED <<session, dialog, history>>
  /\ UNCHANGED <<stamp, cookie, logins, page, opened, runs, done>>

\* The audit pages: the next one begins where the one shown ends.
next ==
  /\ Uncovered /\ page = "audit" /\ load.state = "data" /\ Len(load.rows) = PageSize
  /\ history' = Append(history, load.rows[Len(load.rows)])
  /\ Reload(session)
  /\ UNCHANGED <<stamp, cookie, session, logins, page, dialog, opened, runs, done>>
previous ==
  /\ Uncovered /\ page = "audit" /\ load.state = "data" /\ Len(history) > 1
  /\ history' = SubSeq(history, 1, Len(history) - 1)
  /\ Reload(session)
  /\ UNCHANGED <<stamp, cookie, session, logins, page, dialog, opened, runs, done>>

Run(id, kind, token) ==
  [id |-> id, kind |-> kind, token |-> token, user |-> session, stage |-> "sent", stamp |-> 0]

\* A button of a page opens the dialog.
openDialog ==
  /\ Uncovered /\ load.state = "data" /\ page # "audit"
  /\ opened < MaxDialogs /\ opened' = opened + 1
  /\ dialog' = [NoDialog EXCEPT !.id = opened + 1]
  /\ UNCHANGED <<stamp, cookie, session, logins, page, history, load, ask, runs, done>>
submit(token) ==
  /\ dialog # NoDialog /\ ~dialog.busy /\ ~dialog.secret /\ Cardinality(runs) < MaxRuns
  /\ dialog' = [dialog EXCEPT !.busy = TRUE]
  /\ runs' = runs \cup {Run(dialog.id, "change", token)}
  /\ UNCHANGED <<stamp, cookie, session, logins, page, history, load, ask, opened, done>>
closeDialog ==
  /\ dialog # NoDialog /\ ~dialog.busy /\ dialog' = NoDialog
  /\ UNCHANGED <<stamp, cookie, session, logins, page, history, load, ask, opened, runs, done>>

\* logout, and a download: requests of the page itself.
sendOther(kind) ==
  /\ Uncovered /\ Cardinality(runs) < MaxRuns /\ \A r \in runs : r.kind = "change"
  /\ runs' = runs \cup {Run(0, kind, FALSE)}
  /\ UNCHANGED <<stamp, cookie, session, logins, page, history, load, ask, dialog, opened, done>>

\* The dialog's own request is done: a request for approval shows the approvals; the
\* pages load again; a token is shown if its dialog is still there; else the dialog
\* closes, whichever is open by now.
Done(r) ==
  /\ r.kind = "change" /\ r.stage = "ok"
  /\ runs' = runs \ {r} /\ done' = Max({done, r.stamp})
  /\ \E p \in IF r.token THEN {page} ELSE {page, "approvals"} :
       page' = p /\ history' = IF p = page THEN history ELSE <<0>>
  /\ Reload(session)
  /\ dialog' = IF ~r.token THEN NoDialog
               ELSE IF dialog.id = r.id THEN [dialog EXCEPT !.busy = FALSE, !.secret = TRUE]
               ELSE dialog
  /\ UNCHANGED <<stamp, cookie, session, logins, opened>>

\* It failed: the dialog says so and may be submitted again.
Failed(r) ==
  /\ r.kind = "change" /\ r.stage \in {"failed", "401"}
  /\ runs' = runs \ {r}
  /\ dialog' = IF dialog.id = r.id THEN [dialog EXCEPT !.busy = FALSE] ELSE dialog
  /\ UNCHANGED <<stamp, cookie, session, logins, page, history, load, ask, opened, done>>

\* logout is answered, or a download is; a download without a session logs out whoever
\* has logged in since.
Other(r) ==
  /\ r.kind # "change" /\ r.stage # "sent" /\ runs' = runs \ {r}
  /\ IF (r.kind = "logout" /\ r.stage = "ok") \/ (r.kind = "download" /\ r.stage = "401")
     THEN Leave ELSE UNCHANGED <<session, dialog, history, load, ask>>
  /\ UNCHANGED <<stamp, cookie, logins, page, opened, done>>

Init ==
  /\ stamp = 0 /\ cookie = Nobody /\ session = Nobody /\ logins = 0
  /\ page = "keys" /\ history = <<0>> /\ load = Loading /\ ask = NoAsk
  /\ dialog = NoDialog /\ opened = 0 /\ runs = {} /\ done = 0

Next ==
  \/ Elsewhere \/ Expire \/ Read \/ refresh \/ Answer \/ next \/ previous
  \/ login
  \/ \E p \in Pages : Route(p)
  \/ openDialog \/ closeDialog \/ \E token \in BOOLEAN : submit(token)
  \/ \E kind \in {"logout", "download"} : sendOther(kind)
  \/ \E r \in runs : Serve(r) \/ Done(r) \/ Failed(r) \/ Other(r)

Spec == Init /\ [][Next]_signConsoleVars

--------------------------------------------------------------------------------
\* A page shows what the user who is logged in may see, and what its own dialogs have
\* changed is in it, however the answers overtake each other.
OwnChangesShown ==
  load.state = "data" => load.user = session /\ load.stamp >= done

\* A dialog that cannot be closed has its request in flight: its answer sets it free.
BusyIsWaiting ==
  dialog.busy => \E r \in runs : r.kind = "change" /\ r.id = dialog.id

\* The audit pages join: each begins where the one before it ended, and the rows shown
\* follow the last beginning without a gap.
AuditJoins ==
  /\ \A i \in 1..(Len(history) - 1) : history[i + 1] = history[i] + PageSize
  /\ page = "audit" /\ load.state = "data" =>
       \A i \in DOMAIN load.rows : load.rows[i] = after + i

DeskTrue == OwnChangesShown /\ BusyIsWaiting /\ AuditJoins

--------------------------------------------------------------------------------
(* What every reachable state has, besides: the invariant that the proofs keep. *)
SignConsoleAssumption ==
  /\ Len(Users) \in Nat /\ DOMAIN Users = 1..Len(Users)
  /\ PageSize \in Nat \ {0} /\ MaxStamp \in Nat

Who == {Nobody} \cup {Users[i] : i \in DOMAIN Users}
Loaded == [state : {"loading", "data", "error"}, stamp : Nat, user : Who, rows : Seq(Nat)]
Asked == [user : Who, stage : {"none", "sent", "read", "401"}, stamp : Nat]
Dialogs == [id : Nat, busy : BOOLEAN, secret : BOOLEAN]
Sent == [id : Nat, kind : {"change", "logout", "download"}, token : BOOLEAN, user : Who,
         stage : {"sent", "ok", "failed", "401"}, stamp : Nat]
DeskType ==
  /\ stamp \in Nat /\ done \in Nat /\ opened \in Nat /\ logins \in Nat
  /\ cookie \in Who /\ session \in Who
  /\ history \in Seq(Nat) /\ history # <<>>
  /\ load \in Loaded /\ ask \in Asked /\ dialog \in Dialogs /\ runs \subseteq Sent

\* What is asked for is asked for the user who is logged in, and what is read is as new
\* as every change this console was told of.
AskedFor ==
  /\ ask.stage \in {"sent", "read"} => ask.user = session
  /\ ask.stage = "read" => done <= ask.stamp
  /\ done <= stamp
  /\ \A r \in runs : r.stage = "ok" => r.stamp <= stamp
DeskInv == DeskType /\ AskedFor /\ DeskTrue

(* Parts of it that the proofs name. *)
\* The server and what was sent to it; the audit pages.
Side ==
  /\ stamp \in Nat /\ done \in Nat /\ opened \in Nat /\ logins \in Nat
  /\ cookie \in Who /\ dialog \in Dialogs /\ runs \subseteq Sent
  /\ done <= stamp
  /\ \A r \in runs : r.stage = "ok" => r.stamp <= stamp
  /\ BusyIsWaiting
Paging ==
  /\ history \in Seq(Nat) /\ history # <<>>
  /\ \A i \in 1..(Len(history) - 1) : history[i + 1] = history[i] + PageSize
================================================================================
