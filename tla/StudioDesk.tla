-------------------------------- MODULE StudioDesk --------------------------------
(* The frame of the log parser's console (workspace.tsx, app.tsx) and the pages    *)
(* that edit one thing at a time: a component from its list, the structured        *)
(* mapping of a message type with its templates, and the settings.                 *)
EXTENDS Naturals, FiniteSets, Sequences, SequencesExt

CONSTANTS
  Views,      \* of "list", "mapping", "settings" and "docs"
  Types,      \* message types, in their order; "" is none
  Listed,     \* components, by the names the server gives them, in the order of the inventory
  TypeOf,     \* component -> its message type
  Begin,      \* the components there are in the beginning
  Keys,       \* keys of the settings
  Drafts,     \* values somebody types or sets elsewhere, numbers greater than 0
  Templates,  \* mapping templates, by the name the server gives them
  PageSize,   \* rows of a page of the list
  MaxSent     \* requests that are under way at a time

VARIABLES
  hash, queued,     \* the address, and whether its change has not been handled
  current,          \* [view, type]: what is shown
  dirty,            \* the flag that guard asks
  data, failed,     \* the inventory as loaded, and whether the last load failed
  list,             \* [chosen, filter, page] of the component list
  page,             \* the editor on screen: [kind, of, phase, saved, value, busy]
  templates,        \* [names, picked, read] as the mapping editor shows them
  sent,             \* requests under way: [to, of, value, mine, listed, done]
  store,            \* the server's: [components, mappings, settings, templates]
  theirs, touched   \* what others last wrote to the settings; the keys edited here

deskVars == <<hash, queued, current, dirty, data, failed, list, page, templates, sent, store, theirs, touched>>

--------------------------------------------------------------------------------
None == ""
NoList == [chosen |-> <<>>, filter |-> "__all", page |-> 0]
NoTemplates == [names |-> {}, picked |-> None, read |-> FALSE]
New == "new"
Item(type, n) == [type |-> type, n |-> n]
NoPage == [kind |-> "none", of |-> None, phase |-> "none", saved |-> <<>>, value |-> <<>>, busy |-> FALSE]
\* What an editor holds is a function of its fields: a component and a mapping have one.
One(x) == [k \in {"it"} |-> x]
Fields(kind) == IF kind = "settings" THEN Keys ELSE {"it"}

\* messageTypes: those of the components that are loaded, and the one in the address.
messageTypes(d, type) == SelectSeq(Types, LAMBDA t : t = type \/ \E c \in DOMAIN d : TypeOf[c] = t)
selectedType(d, at) ==
  IF at.type # None THEN at.type
  ELSE LET all == messageTypes(d, None) IN IF all = <<>> THEN None ELSE all[1]

Opened(kind, of, saved) == [kind |-> kind, of |-> of, phase |-> "ready", saved |-> saved, value |-> saved, busy |-> FALSE]
Reading(kind, of) == [NoPage EXCEPT !.kind = kind, !.of = of, !.phase = "reading"]
Mounted(at, d) ==
  CASE at.view = "mapping" /\ selectedType(d, at) # None -> Reading("mapping", selectedType(d, at))
    [] at.view = "settings" -> Reading("settings", "settings")
    [] OTHER -> NoPage
\* What was on its way for an editor that goes does not find it again.
Gone(S, listed) == {[s EXCEPT !.mine = FALSE, !.listed = @ /\ listed] : s \in S}

Remount(at, d, shown) ==
  /\ page' = IF shown THEN Mounted(at, d) ELSE NoPage
  /\ list' = NoList /\ templates' = NoTemplates /\ sent' = Gone(sent, FALSE)
Stay == UNCHANGED <<page, list, templates, sent>>

\* The view of a change of address or of the inventory: the same editor stays as it is.
Show(at, d, shown) ==
  IF at.view = current.view /\ shown = ~ failed /\ (at.view = "mapping" => selectedType(d, at) = selectedType(data, current))
  THEN Stay ELSE Remount(at, d, shown)

Init ==
  /\ current \in [view : Views, type : {None} \cup Range(Types)]
  /\ hash = current /\ queued = FALSE /\ dirty = FALSE
  /\ store = [components |-> [c \in Begin |-> Item(None, 0)], mappings |-> [t \in Range(Types) |-> Item(t, 0)],
              settings |-> [k \in Keys |-> 0], templates |-> [t \in {} |-> 0]]
  /\ data = store.components /\ failed = FALSE /\ list = NoList
  /\ page = Mounted(current, data) /\ templates = NoTemplates /\ sent = {}
  /\ theirs = store.settings /\ touched = {}

--------------------------------------------------------------------------------
(* The address. *)
Records == UNCHANGED <<data, failed, store, theirs, touched>>

\* navigate and changeType: guard has asked, and the question is answered with yes.
navigate(view, type) ==
  LET next == [view |-> view, type |-> type] IN
  /\ hash' = next /\ current' = next /\ dirty' = FALSE
  /\ Show(next, data, ~ failed)
  /\ UNCHANGED queued /\ Records

\* Back, forward, or an address that is typed: the event comes later.
Address(at) ==
  /\ at # hash /\ hash' = at /\ queued' = TRUE
  /\ UNCHANGED <<current, dirty>> /\ Stay /\ Records
onHash(yes) ==
  /\ queued /\ queued' = FALSE
  /\ (~ dirty => yes)
  /\ IF yes THEN hash' = hash /\ current' = hash /\ dirty' = FALSE /\ Show(hash, data, ~ failed)
     ELSE hash' = current /\ UNCHANGED <<current, dirty>> /\ Stay
  /\ Records

--------------------------------------------------------------------------------
(* The list of components. *)
ListShown == current.view = "list" /\ ~ failed
items == SelectSeq(Listed, LAMBDA c : c \in DOMAIN data /\ list.filter \in {"__all", TypeOf[c]})
Least(a, b) == IF a < b THEN a ELSE b
pages == (Len(items) + PageSize - 1) \div PageSize
visiblePage == IF pages = 0 THEN 0 ELSE Least(list.page, pages - 1)
rows == SubSeq(items, visiblePage * PageSize + 1, Least((visiblePage + 1) * PageSize, Len(items)))

Browse(l) ==
  /\ ListShown /\ list.chosen = <<>> /\ list' = l
  /\ UNCHANGED <<hash, queued, current, dirty, page, templates, sent>> /\ Records
setFilter(f) == Browse([list EXCEPT !.filter = f, !.page = 0])
setPage == \/ visiblePage > 0 /\ Browse([list EXCEPT !.page = visiblePage - 1])
           \/ (visiblePage + 1) * PageSize < Len(items) /\ Browse([list EXCEPT !.page = visiblePage + 1])

\* choose: the editor is keyed by its component, so that another new one leaves a new one open.
Open(chosen, saved) ==
  /\ list' = [list EXCEPT !.chosen = chosen]
  /\ IF chosen = list.chosen THEN UNCHANGED <<page, dirty, sent>>
     ELSE /\ page' = IF chosen = <<>> THEN NoPage ELSE Opened("adapter", chosen[1], saved)
          /\ dirty' = FALSE /\ sent' = Gone(sent, TRUE)
  /\ UNCHANGED <<hash, queued, current, templates>> /\ Records
choose(c) == ListShown /\ list.chosen = <<>> /\ c \in Range(rows) /\ Open(<<c>>, One(data[c]))
add == ListShown /\ Open(<<New>>, One(Item(None, 0)))
duplicate == page.kind = "adapter" /\ page.of # New /\ Open(<<New>>, page.value)
close == ListShown /\ list.chosen # <<>> /\ Open(<<>>, <<>>)

--------------------------------------------------------------------------------
(* Editing and reading. *)
Editing == page.phase = "ready" /\ ~ page.busy
Draft(value) ==
  /\ page' = [page EXCEPT !.value = value] /\ dirty' = (value # page.saved)
  /\ UNCHANGED <<hash, queued, current, list, templates, sent>>
edit(k, n) ==
  /\ Editing /\ k \in Fields(page.kind)
  /\ LET v == IF page.kind = "settings" THEN n ELSE [page.value.it EXCEPT !.n = n] IN
       page.value[k] # v /\ Draft([page.value EXCEPT ![k] = v])
  /\ touched' = IF page.kind = "settings" THEN touched \cup {k} ELSE touched
  /\ UNCHANGED <<data, failed, store, theirs>>
discard == Editing /\ page.value # page.saved /\ Draft(page.saved) /\ Records

Server(kind, of) == IF kind = "settings" THEN store.settings ELSE One(store.mappings[of])
Read(ok) ==
  /\ page.phase = "reading"
  /\ page' = IF ok THEN Opened(page.kind, page.of, Server(page.kind, page.of)) ELSE [page EXCEPT !.phase = "failed"]
  /\ UNCHANGED <<hash, queued, current, dirty, list, templates, sent>> /\ Records
Again ==
  /\ page.phase = "failed" /\ page' = [page EXCEPT !.phase = "reading"]
  /\ UNCHANGED <<hash, queued, current, dirty, list, templates, sent>> /\ Records

--------------------------------------------------------------------------------
(* Requests. *)
Request(to, of, value) == [to |-> to, of |-> of, value |-> value, mine |-> TRUE, listed |-> ListShown, done |-> FALSE]
Send(s) ==
  /\ Cardinality(sent) < MaxSent /\ s \notin sent
  /\ sent' = sent \cup {s} /\ page' = [page EXCEPT !.busy = TRUE]
  /\ UNCHANGED <<hash, queued, current, dirty, list, templates>> /\ Records
\* Of the settings only the keys that differ from what was read are sent.
save ==
  /\ Editing /\ (page.value # page.saved \/ page.of = New)
  /\ LET all == DOMAIN page.value
         keys == IF page.kind = "settings" THEN {k \in all : page.value[k] # page.saved[k]} ELSE all
     IN  Send(Request(page.kind, page.of, [k \in keys |-> page.value[k]]))
delete == page.kind = "adapter" /\ page.of # New /\ Editing /\ Send(Request("delete", page.of, <<>>))

\* Templates: listed when the editor opens and after each change; one of them is picked.
ReadTemplates ==
  /\ page.kind = "mapping" /\ ~ templates.read
  /\ templates' = [templates EXCEPT !.names = DOMAIN store.templates, !.read = TRUE]
  /\ UNCHANGED <<hash, queued, current, dirty, list, page, sent>> /\ Records
MappingOpen == page.kind = "mapping" /\ Editing
pick(t) ==
  /\ MappingOpen /\ t \in templates.names /\ t # templates.picked /\ templates' = [templates EXCEPT !.picked = t]
  /\ UNCHANGED <<hash, queued, current, dirty, list, page, sent>> /\ Records
Picked == MappingOpen /\ templates.picked \in templates.names
applyTemplate == Picked /\ Send(Request("apply", templates.picked, One(Item(page.of, 0))))
createTemplate == MappingOpen /\ Send(Request("create", None, page.value))
updateTemplate == Picked /\ Send(Request("update", templates.picked, page.value))
deleteTemplate == Picked /\ Send(Request("drop", templates.picked, <<>>))

\* The server gives a new component or template a name, and has each of the others or not.
Names(s) ==
  CASE s.to = "adapter" /\ s.of = New -> Range(Listed) \ DOMAIN store.components
    [] s.to \in {"adapter", "delete"} -> {s.of} \cap DOMAIN store.components
    [] s.to = "create"                -> Templates \ DOMAIN store.templates
    [] s.to \in {"update", "drop", "apply"} -> {s.of} \cap DOMAIN store.templates
    [] OTHER -> {s.of}
Put(f, k, v) == [x \in DOMAIN f \cup {k} |-> IF x = k THEN v ELSE f[x]]
\* A template is applied under the message type it is applied to, whatever it was made of.
Applied(s, name) == [s.value.it EXCEPT !.n = store.templates[name]]
Written(s, name) ==
  CASE s.to = "adapter"  -> [store EXCEPT !.components = Put(@, name, s.value.it)]
    [] s.to = "delete"   -> [store EXCEPT !.components = [c \in DOMAIN @ \ {name} |-> @[c]]]
    [] s.to = "mapping"  -> [store EXCEPT !.mappings[s.value.it.type] = s.value.it]
    [] s.to = "settings" -> [store EXCEPT !.settings = [k \in Keys |-> IF k \in DOMAIN s.value THEN s.value[k] ELSE @[k]]]
    [] s.to = "apply"    -> [store EXCEPT !.mappings[s.value.it.type] = Applied(s, name)]
    [] s.to = "drop"     -> [store EXCEPT !.templates = [t \in DOMAIN @ \ {name} |-> @[t]]]
    [] OTHER             -> [store EXCEPT !.templates = Put(@, name, s.value.it.n)]
Serve(s, name) ==
  /\ ~ s.done /\ s.to # "refresh" /\ name \in Names(s) /\ store' = Written(s, name)
  /\ sent' = (sent \ {s}) \cup {[s EXCEPT !.done = TRUE, !.of = name,
                                          !.value = IF s.to = "apply" THEN One(Applied(s, name)) ELSE @]}
  /\ UNCHANGED <<hash, queued, current, dirty, data, failed, list, page, templates, theirs, touched>>

\* refresh first takes the error away; then it brings the inventory, or an error in place of the view.
Refreshing(flags) ==
  /\ failed' = FALSE
  /\ IF failed THEN page' = Mounted(current, data) /\ list' = NoList /\ templates' = NoTemplates
     ELSE UNCHANGED <<page, list, templates>>
  /\ sent' = (IF failed THEN Gone(sent \ {flags}, FALSE) ELSE sent \ {flags}) \cup {[flags EXCEPT !.to = "refresh", !.of = New, !.value = <<>>, !.listed = @ /\ ~ failed]}
  /\ UNCHANGED <<hash, queued, current, dirty, data, store, theirs, touched>>
retry == failed /\ Cardinality(sent) < MaxSent /\ Refreshing([Request("refresh", New, <<>>) EXCEPT !.mine = FALSE, !.listed = FALSE])
adapterSaved(s) == s.to \in {"adapter", "delete"} /\ s.done /\ Refreshing(s)
\* A component that was saved or deleted then closes whatever the list has open.
Refreshed(s, ok) ==
  LET d == IF ok THEN store.components ELSE data
      anew == ~ ok \/ failed \/ (current.view = "mapping" /\ selectedType(d, current) # selectedType(data, current))
      closes == s.listed /\ list.chosen # <<>>
  IN  /\ s.to = "refresh" /\ data' = d /\ failed' = ~ ok
      /\ page' = IF anew THEN IF ok THEN Mounted(current, d) ELSE NoPage ELSE IF closes THEN NoPage ELSE page
      /\ list' = IF anew THEN NoList ELSE IF closes THEN [list EXCEPT !.chosen = <<>>] ELSE list
      /\ templates' = IF anew THEN NoTemplates ELSE templates
      /\ dirty' = IF anew \/ closes THEN FALSE ELSE dirty
      /\ LET others == sent \ {s} IN sent' = IF anew THEN Gone(others, FALSE) ELSE IF closes THEN Gone(others, TRUE) ELSE others
      /\ UNCHANGED <<hash, queued, current, store, theirs, touched>>

Ended(s) == sent' = sent \ {s} /\ UNCHANGED <<hash, queued, current, list>> /\ Records
Answered(s) ==
  /\ s.to \in {"mapping", "settings", "apply", "create", "update", "drop"} /\ s.done /\ Ended(s)
  /\ LET idle == [page EXCEPT !.busy = FALSE] IN
     \/ ~ s.mine /\ UNCHANGED <<page, templates, dirty>>
     \/ s.mine /\ s.to = "mapping" /\ page' = [idle EXCEPT !.saved = s.value] /\ dirty' = FALSE /\ UNCHANGED templates
     \/ s.mine /\ s.to = "settings" /\ page' = Reading("settings", "settings") /\ dirty' = FALSE /\ UNCHANGED templates
     \/ s.mine /\ s.to = "apply" /\ page' = Opened("mapping", page.of, s.value) /\ dirty' = FALSE /\ UNCHANGED templates
     \/ /\ s.mine /\ s.to \in {"create", "update", "drop"} /\ page' = idle /\ UNCHANGED dirty
        /\ templates' = [NoTemplates EXCEPT !.picked = IF s.to = "drop" THEN None ELSE s.of]
Fail(s) ==
  /\ s.to # "refresh" /\ Ended(s) /\ page' = IF s.mine THEN [page EXCEPT !.busy = FALSE] ELSE page
  /\ UNCHANGED <<dirty, templates>>

\* Other administrators.
Elsewhere ==
  /\ \/ \E k \in Keys, n \in Drafts : store.settings[k] # n /\ store' = [store EXCEPT !.settings[k] = n] /\ theirs' = [theirs EXCEPT ![k] = n]
     \/ \E c \in Range(Listed) \ DOMAIN store.components : store' = [store EXCEPT !.components = Put(@, c, Item(None, 0))] /\ UNCHANGED theirs
     \/ \E c \in DOMAIN store.components : store' = [store EXCEPT !.components = [d \in DOMAIN @ \ {c} |-> @[d]]] /\ UNCHANGED theirs
     \/ \E t \in DOMAIN store.templates : store' = [store EXCEPT !.templates = [u \in DOMAIN @ \ {t} |-> @[u]]] /\ UNCHANGED theirs
  /\ UNCHANGED <<hash, queued, current, dirty, data, failed, list, page, templates, sent, touched>>

Next ==
  \/ \E v \in Views, t \in {None} \cup Range(Types) : navigate(v, t) \/ Address([view |-> v, type |-> t])
  \/ \E yes \in BOOLEAN : onHash(yes) \/ Read(yes)
  \/ \E f \in {"__all"} \cup Range(Types) : setFilter(f)
  \/ setPage \/ add \/ duplicate \/ close \/ \E c \in Range(Listed) : choose(c)
  \/ \E k \in Keys \cup {"it"}, n \in Drafts : edit(k, n)
  \/ discard \/ Again \/ save \/ delete \/ retry
  \/ ReadTemplates \/ applyTemplate \/ createTemplate \/ updateTemplate \/ deleteTemplate \/ \E t \in Templates : pick(t)
  \/ \E s \in sent : \/ \E name \in Names(s) : Serve(s, name)
                     \/ adapterSaved(s) \/ Answered(s) \/ Fail(s)
                     \/ \E ok \in BOOLEAN : Refreshed(s, ok)
  \/ Elsewhere

Spec == Init /\ [][Next]_deskVars

--------------------------------------------------------------------------------
\* The address says what is shown, also after a move that somebody took back to keep edits;
\* guard never asks about edits that are not there; a list that is not empty never shows an
\* empty page; a mapping is edited and stored under the message type it belongs to; and a key
\* of the settings that was never edited here keeps what others made of it.
DeskTrue ==
  /\ ~ queued => hash = current
  /\ dirty => page.value # page.saved
  /\ ListShown /\ items # <<>> => rows # <<>>
  /\ page.kind = "mapping" => page.of = selectedType(data, current) /\ (page.phase = "ready" => page.value.it.type = page.of)
  /\ \A t \in Range(Types) : store.mappings[t].type = t
  /\ \A k \in Keys \ touched : store.settings[k] = theirs[k]

\* Stated by guard ("Discard unsaved changes?") and not so: navigate and the address clear the
\* flag also when the editor stays, as on a change of the message type in the list.
EditsKnown == page.value # page.saved => dirty
================================================================================
