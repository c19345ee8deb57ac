---------------------------- MODULE HuntCaseEditor ----------------------------
(* Investigations of the hunt workbench.  On the server, the versioned record *)
(* with its assignment, evidence and independent review (HuntWorkspace,       *)
(* HuntInvestigations, HuntCaseAccess).  Over it, one analyst's case editor   *)
(* (HuntWorkbench.tsx) with the collaboration panel mounted in it             *)
(* (HuntCaseCollaboration.tsx), while the other analysts change the records.  *)
(* Requests are served and answered one by one, in any order.                 *)
EXTENDS Naturals, FiniteSets, FiniteSetsExt

CONSTANTS
  Cases, Analysts,
  Owner,       \* [Cases -> Analysts]
  Unlisted,    \* cases that are private to their owner and assigned analysts
  Unborn,      \* cases that nobody has saved yet
  Teams,       \* the pairs of assignee and reviewer that are assigned
  Nobody,
  MaxVersion,  \* bound on the versions of a case
  Me,          \* the analyst at the editor
  MaxAsks      \* bound on the changes asked for here

VARIABLES
  case,      \* the records: version, text, status, assignee, reviewer, editor, and the version its
             \* one event was pinned at, 0 while it is not pinned
  review,    \* the pending review request of a case, or NoReview
  approved,  \* the request a closed case was closed with, or NoReview
  textAt     \* the text of each version that was ever current

record == <<case, review, approved, textAt>>

NoReview == [version |-> 0]
People   == Analysts \cup {Nobody}

First(c) == IF c \in Unborn THEN 0 ELSE 1

\* A case that exists has a first version by its owner; it may have a team by
\* now, and its review may have been asked for.
CaseInit ==
  \E team \in [Cases -> Teams \cup {<<Nobody, Nobody>>}], asked \in SUBSET (Cases \ Unborn) :
    /\ \A c \in Unborn : team[c] = <<Nobody, Nobody>>
    /\ \A c \in asked : team[c][1] # Nobody /\ team[c][2] \notin {Nobody, Owner[c]}
    /\ case = [c \in Cases |->
         [version |-> First(c), text |-> First(c), assignee |-> team[c][1], reviewer |-> team[c][2],
          status |-> IF c \in asked THEN "REVIEW" ELSE "INVESTIGATING",
          editor |-> Owner[c], evidence |-> 0]]
    /\ review = [c \in Cases |-> IF c \in asked
         THEN [version |-> 1, text |-> 1, evidence |-> 0, by |-> Owner[c], reviewer |-> team[c][2]]
         ELSE NoReview]
    /\ approved = [c \in Cases |-> NoReview]
    /\ textAt = [c \in Cases |-> [v \in 1 .. MaxVersion |-> IF v = 1 THEN First(c) ELSE 0]]
-------------------------------------------------------------------------------
(* The record.                                                               *)
Editable(c) == case[c].status = "INVESTIGATING"
Manages(u, c) == Owner[c] = u
Member(u, c) == u \in {case[c].assignee, case[c].reviewer}
Reads(u, c)  == case[c].version > 0 /\ (Owner[c] = u \/ c \notin Unlisted \/ Member(u, c))
\* Variant: a case under review may still be written to.
EditsAlways(u, c) == Reads(u, c) /\ (Manages(u, c) \/ case[c].assignee = u)

Edits(u, c)  == Reads(u, c) /\ Editable(c) /\ (Manages(u, c) \/ case[c].assignee = u)

\* readiness: an assignee, and a reviewer who neither asks nor wrote last.
Ready(u, c) ==
  /\ case[c].assignee # Nobody /\ case[c].reviewer \notin {Nobody, u, case[c].editor}
  /\ case[c].text # 0

SameEvidence(c) == review[c].version # 0 /\ review[c].evidence = case[c].evidence

Decides(u, c) ==
  /\ review[c].version # 0 /\ case[c].status = "REVIEW"
  /\ review[c].reviewer = u /\ case[c].reviewer = u
  /\ u \notin {review[c].by, case[c].editor}

\* What workflow() answers.
May(u, c) ==
  {p \in {"edit", "manage", "request", "decide", "approve", "reopen"} :
     CASE p = "edit"    -> Edits(u, c)
       [] p = "manage"  -> Manages(u, c) /\ Editable(c)
       [] p = "request" -> Edits(u, c) /\ Ready(u, c)
       [] p = "decide"  -> Decides(u, c)
       [] p = "approve" -> Decides(u, c) /\ SameEvidence(c)
       [] p = "reopen"  -> Manages(u, c) /\ ~Editable(c)}

\* What a request for the record returns.
Item(c) == [id |-> c, version |-> case[c].version, text |-> case[c].text]

\* saveInternal and writeCase: the version in hand must be the current one.
Write(c, v, new) ==
  /\ v = case[c].version /\ v < MaxVersion
  /\ case' = [case EXCEPT ![c] = [new EXCEPT !.version = v + 1]]
  /\ textAt' = [textAt EXCEPT ![c][v + 1] = new.text]

Create(u, c, t) ==
  /\ case[c].version = 0 /\ Owner[c] = u
  /\ Write(c, 0, [case[c] EXCEPT !.text = t])
  /\ UNCHANGED <<review, approved>>

Save(u, c, v, t) ==
  /\ Edits(u, c)
  /\ Write(c, v, [case[c] EXCEPT !.text = t, !.editor = u])
  /\ UNCHANGED <<review, approved>>

\* pin: the version is the one found under the lock, the body is kept; an event
\* that is already pinned changes nothing.
Pin(u, c) ==
  /\ Edits(u, c)
  /\ IF case[c].evidence = 0
       THEN Write(c, case[c].version, [case[c] EXCEPT !.evidence = case[c].version + 1, !.editor = u])
       ELSE UNCHANGED <<case, textAt>>
  /\ UNCHANGED <<review, approved>>

Assign(u, c, v, a, r) ==
  /\ Reads(u, c) /\ Manages(u, c) /\ Editable(c)
  /\ a = Nobody \/ a # r
  /\ Write(c, v, [case[c] EXCEPT !.assignee = a, !.reviewer = r])
  /\ UNCHANGED <<review, approved>>

Submit(u, c, v) ==
  /\ Edits(u, c) /\ Ready(u, c) /\ review[c].version = 0
  /\ Write(c, v, [case[c] EXCEPT !.status = "REVIEW"])
  /\ review' = [review EXCEPT ![c] =
       [version |-> v + 1, text |-> case[c].text, evidence |-> case[c].evidence,
        by |-> u, reviewer |-> case[c].reviewer]]
  /\ UNCHANGED approved

Decide(u, c, v, approve) ==
  /\ Reads(u, c) /\ Decides(u, c) /\ review[c].version = v
  /\ approve => SameEvidence(c)
  /\ Write(c, v, [case[c] EXCEPT !.status = IF approve THEN "CLOSED" ELSE "INVESTIGATING"])
  /\ review' = [review EXCEPT ![c] = NoReview]
  /\ approved' = [approved EXCEPT ![c] = IF approve THEN review[c] ELSE @]

Reopen(u, c, v) ==
  /\ Reads(u, c) /\ Manages(u, c) /\ ~Editable(c)
  /\ Write(c, v, [case[c] EXCEPT !.status = "INVESTIGATING"])
  /\ review' = [review EXCEPT ![c] = NoReview]
  /\ approved' = [approved EXCEPT ![c] = NoReview]

\* A piece of evidence passes its retention.
Lapse(c) ==
  /\ case[c].evidence > 0
  /\ case' = [case EXCEPT ![c].evidence = 0]
  /\ UNCHANGED <<review, approved, textAt>>

\* What analyst u may do to case c with version v in hand; a text that is written
\* is one no version has had.
NewText(c) == 1 + Max({textAt[c][v] : v \in 1 .. MaxVersion})
Act(u, c, v) ==
  \/ Save(u, c, v, NewText(c)) \/ Create(u, c, NewText(c))
  \/ Pin(u, c) \/ Submit(u, c, v) \/ Reopen(u, c, v)
  \/ \E team \in Teams : Assign(u, c, v, team[1], team[2])
  \/ \E approve \in BOOLEAN : Decide(u, c, v, approve)
CaseNext == \E c \in Cases : Lapse(c) \/ \E u \in Analysts : Act(u, c, case[c].version)
CaseSpec == CaseInit /\ [][CaseNext]_record
-------------------------------------------------------------------------------
(* The editor.                                                               *)
VARIABLES
  tab,      \* "explore", where events are pinned, or "investigations"
  list,     \* investigations: the record of each case as last heard of, or NoEdit
  sel,      \* caseSelection
  edit,     \* the record the draft is based on, or NoEdit
  draft,    \* the text in the fields
  lock,     \* caseWorkflow: what the panel told the editor, or NoFlow
  panel,    \* the panel's own answer, or NoFlow
  loaded, working,
  proof,    \* the case whose evidence and history are listed, or Nobody
  pending, net, asks

panelVars == <<panel, loaded, working>>
shownVars == <<sel, edit, draft, lock, proof>>
editor == <<tab, list, shownVars, panelVars, pending>>
vars   == <<record, editor, net, asks>>

NoEdit == [id |-> Nobody, version |-> 0, text |-> 0]
NoFlow == [id |-> Nobody, version |-> 0, may |-> {}]
Kinds  == {"save", "pin", "assign", "submit", "approve", "changes", "reopen",
           "reload", "flow", "proof"}
Heard  == [c \in Cases |-> IF Reads(Me, c) THEN Item(c) ELSE NoEdit]

EditorInit ==
  /\ tab = "explore" /\ list = Heard
  /\ sel = Nobody /\ edit = NoEdit /\ draft = 0 /\ lock = NoFlow
  /\ panel = NoFlow /\ loaded = FALSE /\ working = FALSE
  /\ proof = Nobody /\ pending = FALSE /\ net = {} /\ asks = 0
Init == CaseInit /\ EditorInit
-------------------------------------------------------------------------------
(* Derived state, and the parts shared by the handlers.                      *)
Dirty == edit # NoEdit /\ draft # edit.text
CanEdit == edit = NoEdit \/ (lock # NoFlow /\ lock.version = edit.version /\ "edit" \in lock.may)
Stale   == panel # NoFlow /\ panel.version # edit.version
PanelBusy == pending \/ working \/ ~loaded

\* A request remembers what its handler captured when it started: the case and
\* version in hand, the text on screen, and the generation it belongs to, which
\* is live until the counter moves on.
Req(kind, id, v) ==
  [kind |-> kind, id |-> id, version |-> v, live |-> TRUE, st |-> "sent", text |-> 0, from |-> id,
   who |-> <<Nobody, Nobody>>, item |-> NoEdit, may |-> {}]

\* The generation of the requests of these kinds moves on; a reading nobody will
\* look at has no further effect.
PanelKinds == {"assign", "submit", "approve", "changes", "reopen", "reload", "flow"}
Outdate(sent, kinds) ==
  {IF m.kind \in kinds THEN [m EXCEPT !.live = FALSE] ELSE m :
     m \in {n \in sent : n.kind \notin kinds \cap {"flow", "proof"}}}

\* The panel's effect on [item.id, item.version], mounted with a case on the
\* investigations tab: what it held is dropped and the workflow asked for again.
Mounts(item, at) == item # NoEdit /\ at = "investigations"
Mounted == Mounts(edit, tab)
PanelFor(item, at, sent) ==
  IF item.id = edit.id /\ item.version = edit.version /\ at = tab
    THEN net' = sent /\ UNCHANGED panelVars
    ELSE /\ panel' = NoFlow /\ loaded' = FALSE /\ working' = FALSE
         /\ net' = Outdate(sent, PanelKinds) \cup
              IF Mounts(item, at) THEN {Req("flow", item.id, item.version)} ELSE {}

\* refreshCaseEvidence: one more reading, the earlier ones are outdated.
Unread(sent) == Outdate(sent, {"proof"})
Refresh(sent, id) == Unread(sent) \cup {Req("proof", id, 0)}

\* openCase: everything shown is replaced by the record and its evidence is read.
Open(item, sent) ==
  /\ sel' = item.id /\ edit' = item /\ draft' = item.text /\ lock' = NoFlow
  /\ proof' = Nobody /\ PanelFor(item, tab, Refresh(sent, item.id))

\* clearCaseEditor
Clear(sent) ==
  /\ sel' = Nobody /\ edit' = NoEdit /\ draft' = 0 /\ lock' = NoFlow
  /\ proof' = Nobody /\ PanelFor(NoEdit, tab, Unread(sent))

Keep(sent) == net' = sent /\ UNCHANGED <<shownVars, panelVars>>

\* forgetCase
Forget(id, sent) == IF sel = id THEN Clear(sent) ELSE Keep(sent)

\* The same case at version v: the draft stays, the evidence is read again.
Rebase(v, sent) ==
  /\ edit' = [edit EXCEPT !.version = v]
  /\ lock' = IF v = edit.version \/ ~Mounted THEN lock ELSE NoFlow
  /\ UNCHANGED <<sel, draft, proof>>
  /\ PanelFor(edit', tab, Refresh(sent, edit.id))
-------------------------------------------------------------------------------
(* The analyst.                                                              *)
SwitchTab ==
  /\ tab' = IF tab = "explore" THEN "investigations" ELSE "explore"
  /\ lock' = IF Mounts(edit, tab') THEN NoFlow ELSE lock
  /\ PanelFor(edit, tab', net)
  /\ UNCHANGED <<record, list, sel, edit, draft, proof, pending, asks>>

OnCases == tab = "investigations"
PickCase(c) == /\ OnCases /\ list[c] # NoEdit /\ Open(list[c], net)
               /\ UNCHANGED <<record, tab, list, pending, asks>>
NewCase == OnCases /\ Clear(net) /\ UNCHANGED <<record, tab, list, pending, asks>>

\* Typing: the fields are enabled while the case can be edited, also while a
\* request is under way.
Type ==
  /\ OnCases /\ CanEdit /\ draft' = Max({NewText(c) : c \in Cases})
  /\ UNCHANGED <<record, tab, list, sel, edit, lock, proof, panelVars, pending, net, asks>>

Ask(m) == net' = net \cup {m} /\ asks < MaxAsks /\ asks' = asks + 1

SaveCase ==
  /\ OnCases /\ ~pending /\ CanEdit /\ (edit = NoEdit => draft # 0) /\ pending' = TRUE
  /\ Ask([Req("save", edit.id, edit.version) EXCEPT !.text = draft])
  /\ UNCHANGED <<record, tab, list, shownVars, panelVars>>

\* pin, from the detail of an event on the search tab.
PinEvent(c) ==
  /\ ~OnCases /\ list[c] # NoEdit /\ ~pending /\ pending' = TRUE /\ Ask(Req("pin", c, 0))
  /\ UNCHANGED <<record, tab, list, shownVars, panelVars>>

\* The panel's buttons: which are offered, and which of those are enabled.
Offers(kind) ==
  /\ Mounted /\ panel # NoFlow /\ ~PanelBusy /\ ~Stale
  /\ CASE kind = "assign"  -> "manage" \in panel.may
       [] kind = "submit"  -> "request" \in panel.may /\ ~Dirty
       [] kind = "approve" -> "approve" \in panel.may
       [] kind = "changes" -> "decide" \in panel.may
       [] kind = "reopen"  -> "reopen" \in panel.may

\* action: the current item and generation are captured.
PanelAct(kind, a, r) ==
  /\ Offers(kind) /\ working' = TRUE
  /\ Ask([Req(kind, edit.id, edit.version) EXCEPT !.who = <<a, r>>, !.text = edit.text])
  /\ UNCHANGED <<record, tab, list, shownVars, panel, loaded, pending>>
Assigns == \E team \in Teams : PanelAct("assign", team[1], team[2])
Reviews == \E kind \in {"submit", "approve", "changes", "reopen"} :
             PanelAct(kind, Nobody, Nobody)

Reload ==
  /\ Mounted /\ ~PanelBusy /\ working' = TRUE
  /\ Ask(Req("reload", sel, 0))
  /\ UNCHANGED <<record, tab, list, shownVars, panel, loaded, pending>>
-------------------------------------------------------------------------------
(* The server.                                                               *)
\* An answer carries the record as it is after the request, or an error; that
\* of a pin also the version it found.
Answer(m, c, ok) ==
  net' = (net \ {m}) \cup
    {[m EXCEPT !.st = IF ok THEN "ok" ELSE "error", !.id = c, !.from = m.id,
               !.version = IF m.kind = "pin" /\ ok THEN case[c].version ELSE @,
               !.item = IF ok THEN [id |-> c, version |-> case'[c].version,
                                    text |-> case'[c].text] ELSE NoEdit,
               !.may = IF ok /\ m.kind = "flow" THEN May(Me, c) ELSE {}]}

Granted(m, c) ==
  \/ m.kind = "save" /\ (Save(Me, c, m.version, m.text) \/ Create(Me, c, m.text))
  \/ m.kind = "pin" /\ Pin(Me, c)
  \/ m.kind = "assign"  /\ Assign(Me, c, m.version, m.who[1], m.who[2])
  \/ m.kind = "submit"  /\ Submit(Me, c, m.version)
  \/ m.kind = "approve" /\ Decide(Me, c, m.version, TRUE)
  \/ m.kind = "changes" /\ Decide(Me, c, m.version, FALSE)
  \/ m.kind = "reopen"  /\ Reopen(Me, c, m.version)
  \/ m.kind \in {"reload", "flow", "proof"} /\ Reads(Me, c) /\ UNCHANGED record

\* A request may also fail, for a reason of its own or because it is refused.
Serve(m) ==
  /\ m \in net /\ m.st = "sent"
  /\ \/ \E c \in Cases :
          /\ m.id = c \/ (m.id = Nobody /\ c \in Unborn)
          /\ (m.id = Nobody) <=> (m.kind = "save" /\ case[c].version = 0)
          /\ Granted(m, c) /\ Answer(m, c, TRUE)
     \/ UNCHANGED record /\ Answer(m, m.id, FALSE)
  /\ UNCHANGED <<editor, asks>>
-------------------------------------------------------------------------------
(* Answers arrive.                                                           *)
Arrived(kinds, m) == m \in net /\ m.kind \in kinds /\ m.st # "sent"
Failed(m)   == m.st = "error"
Readable(m) == Reads(Me, m.id)

\* saveCase, after its own loadResources.
Saved(m) ==
  /\ Arrived({"save"}, m) /\ pending' = FALSE
  /\ IF Failed(m) THEN Keep(net \ {m}) /\ UNCHANGED list
     ELSE /\ list' = IF Readable(m) THEN Heard ELSE [Heard EXCEPT ![m.id] = NoEdit]
          /\ IF ~Readable(m) THEN Forget(m.id, net \ {m})
             ELSE IF sel = m.from THEN Open(m.item, net \ {m})
             ELSE Keep(net \ {m})
  /\ UNCHANGED <<record, tab, asks>>

\* Variant: the editor takes the new version whatever it was based on.
PinnedAnyway(m) ==
  /\ Arrived({"pin"}, m) /\ pending' = FALSE
  /\ IF Failed(m) \/ sel # m.id THEN Keep(net \ {m})
     ELSE Rebase(m.item.version, net \ {m})
  /\ UNCHANGED <<record, tab, list, asks>>

\* pin: the version in the editor moves on only from the one the pin found.
Pinned(m) ==
  /\ Arrived({"pin"}, m) /\ pending' = FALSE
  /\ IF Failed(m) \/ sel # m.id THEN Keep(net \ {m})
     ELSE Rebase(IF edit.version = m.version THEN m.item.version ELSE edit.version, net \ {m})
  /\ UNCHANGED <<record, tab, list, asks>>

\* The panel's first answer.
FlowArrived(m) ==
  /\ Arrived({"flow"}, m) /\ net' = net \ {m}
  /\ IF ~m.live THEN UNCHANGED <<panel, loaded, lock>>
     ELSE /\ loaded' = TRUE
          /\ panel' = IF Failed(m) THEN panel
                      ELSE [id |-> m.id, version |-> m.item.version, may |-> m.may]
          /\ lock' = IF Failed(m) \/ sel # m.id THEN lock ELSE panel'
  /\ UNCHANGED <<record, tab, list, sel, edit, draft, working, proof, pending, asks>>

\* action and applyCaseChange: an answer of an earlier generation is dropped;
\* only an assignment keeps the draft.
ActDone(m) ==
  /\ Arrived({"assign", "submit", "approve", "changes", "reopen"}, m)
  /\ IF ~m.live THEN Keep(net \ {m}) /\ UNCHANGED list
     ELSE IF Failed(m)
       THEN /\ working' = FALSE /\ net' = net \ {m}
            /\ UNCHANGED <<shownVars, panel, loaded, list>>
     ELSE IF ~Readable(m)
       THEN list' = [list EXCEPT ![m.id] = NoEdit] /\ Forget(m.id, net \ {m})
     ELSE /\ list' = [list EXCEPT ![m.id] = m.item]
          /\ IF m.kind = "assign" THEN Rebase(m.item.version, net \ {m})
             ELSE Open(m.item, net \ {m})
  /\ UNCHANGED <<record, tab, pending, asks>>

\* reloadCase: only the selection is looked at, then the panel's generation.
Reloaded(m) ==
  /\ Arrived({"reload"}, m)
  /\ IF Failed(m) \/ sel # m.id
       THEN /\ working' = (working /\ ~m.live) /\ net' = net \ {m}
            /\ UNCHANGED <<shownVars, panel, loaded>>
       ELSE LET same == m.item.id = edit.id /\ m.item.version = edit.version IN
            /\ sel' = m.id /\ edit' = m.item /\ draft' = m.item.text /\ lock' = NoFlow
            /\ proof' = Nobody
            /\ IF same
                 THEN /\ working' = (working /\ ~m.live)
                      /\ net' = Refresh(net \ {m}, m.id)
                      /\ UNCHANGED <<panel, loaded>>
                 ELSE PanelFor(m.item, tab, Refresh(net \ {m}, m.id))
  /\ list' = IF Failed(m) THEN list ELSE [list EXCEPT ![m.id] = IF @ = NoEdit THEN @ ELSE m.item]
  /\ UNCHANGED <<record, tab, pending, asks>>

ProofArrived(m) ==
  /\ Arrived({"proof"}, m) /\ net' = net \ {m}
  /\ proof' = IF ~Failed(m) /\ sel = m.id /\ m.live THEN m.id ELSE proof
  /\ UNCHANGED <<record, tab, list, sel, edit, draft, lock, panelVars, pending, asks>>
-------------------------------------------------------------------------------
Peers == /\ \E c \in Cases : Lapse(c) \/ \E u \in Analysts \ {Me} : Act(u, c, case[c].version)
         /\ UNCHANGED <<editor, net, asks>>
Click == \/ SwitchTab \/ Type \/ NewCase \/ SaveCase \/ Assigns \/ Reviews \/ Reload
         \/ \E c \in Cases : PickCase(c) \/ PinEvent(c)
Receive(m) == \/ Saved(m) \/ Pinned(m) \/ FlowArrived(m)
              \/ ActDone(m) \/ Reloaded(m) \/ ProofArrived(m)
Next == Peers \/ Click \/ \E m \in net : Serve(m) \/ Receive(m)
Spec == Init /\ [][Next]_vars
-------------------------------------------------------------------------------
\* A case that was closed by a review holds the text that was reviewed, and the
\* reviewer neither asked for the review nor wrote last: no save, pin or change
\* of reviewer slips in between the request and the decision.
IndependentReview ==
  \A c \in Cases :
    /\ case[c].status = "CLOSED" => approved[c].version # 0
    /\ approved[c].version # 0 =>
         /\ approved[c].text = case[c].text
         /\ approved[c].reviewer \notin {approved[c].by, case[c].editor}
    /\ case[c].status = "REVIEW" <=> review[c].version # 0

\* The text the draft started from is the text of the version in hand: a save,
\* which the server takes only for the current version, never covers a change
\* the analyst has not seen, whatever was pinned, assigned or reloaded since.
BaseIsTrue ==
  edit # NoEdit => edit.text = textAt[edit.id][edit.version]

\* What surrounds the fields belongs to the case in them.
ShowsSelection ==
  /\ edit.id = sel /\ proof \in {Nobody, sel}
  /\ lock.id \in {Nobody, sel} /\ panel.id \in {Nobody, sel}

\* An approval given here is for the very text that was on screen when the
\* button was pressed, however long the request took.
DecidesWhatWasShown ==
  \A c \in Cases :
    (approved'[c] # approved[c] /\ approved'[c].version # 0 /\ approved'[c].reviewer = Me) =>
      \E m \in net \ net' : m.kind = "approve" /\ m.id = c /\ m.text = approved'[c].text
NoBlindDecision == [][DecidesWhatWasShown]_vars

\* The panel's answer reaches the fields: what may be edited is not locked.
LockMatches == (Mounted /\ panel # NoFlow) => lock = panel
===============================================================================
