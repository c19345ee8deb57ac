------------------------------- MODULE HuntDraft -------------------------------
(* The conditions an analyst prepares in the hunt workbench (HuntWorkbench.tsx), *)
(* the queries made of them by the form, a saved search, a scenario card, the    *)
(* entity form and the relation panel, and the query whose results are on        *)
(* screen, which the notice above them compares with the draft.                  *)
EXTENDS Naturals, FiniteSets, SequencesExt

CONSTANTS
  Instants,    \* half minutes
  Bars,        \* bars of the time chart at most (90 in the code)
  Conditions,  \* conditions that may be added
  Scope,       \* those a scenario takes
  Texts,       \* search words, none among them
  Dimensions,  \* fields to group by
  MaxEdits,    \* bound on the edits of a behaviour
  MaxSaved     \* bound on the stored searches

VARIABLES
  draft,     \* the fields of the form
  asset,     \* an asset is selected beside them
  asked,     \* the run under way: its query and where it came from, or NoRun
  executed,  \* the query of the result on screen with its origin, or NoRun
  touched,   \* the form was edited since the last run was started, or that run refused
  saved,     \* stored searches
  saving,    \* the search being stored, or NoQuery
  edits
draftVars == <<draft, asset, asked, executed, touched, saved, saving, edits>>

NoQuery == [from |-> 0, to |-> 0, filter |-> {}, text |-> "", dims |-> <<>>, relations |-> FALSE]
NoRun   == [query |-> NoQuery, origin |-> "none"]
Chosen  == "asset"      \* the condition a selected asset adds
First   == CHOOSE d \in Dimensions : TRUE

Init ==
  /\ draft = [NoQuery EXCEPT !.from = 1, !.to = Max(Instants), !.dims = <<First>>]
  /\ asset = FALSE /\ asked = NoRun /\ executed = NoRun /\ touched = FALSE
  /\ saved = {} /\ saving = NoQuery /\ edits = 0
-------------------------------------------------------------------------------
(* Queries.                                                                  *)
\* query: the selected asset becomes one more condition.
query == [draft EXCEPT !.filter = IF asset THEN @ \cup {Chosen} ELSE @]

\* What query refuses: no window, and for a scenario words or conditions that
\* would change what it looks for.
Complete(q) == q.from # 0 /\ q.to # 0
requireScenarioScope(q) == q.text = "" /\ q.filter \subseteq Scope \cup {Chosen}

\* What the server refuses: HuntQuery.
Accepted(q) == q.from < q.to /\ Len(q.dims) \in 1 .. 3 /\ Cardinality(ToSet(q.dims)) = Len(q.dims)

\* querySignature: what is compared, the absence of a condition being none.
querySignature(q) == <<q.from, q.to, q.filter, q.text, q.dims, q.relations>>
draftChanged == executed # NoRun /\ querySignature(executed.query) # querySignature(query)
-------------------------------------------------------------------------------
(* The form.                                                                 *)
Edit == edits < MaxEdits /\ edits' = edits + 1 /\ touched' = TRUE
Kept == UNCHANGED <<asked, executed, saved, saving>>

SetTime == \E t \in Instants \cup {0} :
             /\ draft' \in {[draft EXCEPT !.from = t], [draft EXCEPT !.to = t]}
             /\ Edit /\ Kept /\ UNCHANGED asset
addFilter == \E c \in Conditions : /\ draft' = [draft EXCEPT !.filter = @ \cup {c}]
                                   /\ Edit /\ Kept /\ UNCHANGED asset
SetText == \E t \in Texts : /\ draft' = [draft EXCEPT !.text = t]
                            /\ Edit /\ Kept /\ UNCHANGED asset
SetAsset == asset' = ~asset /\ Edit /\ Kept /\ UNCHANGED draft
ToggleRelations == /\ draft' = [draft EXCEPT !.relations = ~@]
                   /\ Edit /\ Kept /\ UNCHANGED asset
\* The selects of the aggregation panel: one field for each of its places.
SetDimensions == \E d, e \in Dimensions : /\ draft' = [draft EXCEPT !.dims = IF d = e THEN <<d>> ELSE <<d, e>>]
                                          /\ Edit /\ Kept /\ UNCHANGED asset

\* The time chart: HuntSql.histogram counts by whole minutes, and so does the
\* handler that turns a bar into a window.
minutes(q)   == Max({1, ((q.to - q.from) \div 2) \div Bars})
BarOf(t, q)  == t - (t % (2 * minutes(q)))
Narrowed(bar, q) == [from |-> Max({bar, q.from}), to |-> Min({bar + 2 * minutes(q), q.to})]
ClickBar ==
  /\ executed # NoRun
  /\ \E t \in executed.query.from .. executed.query.to - 1 :
       LET w == Narrowed(BarOf(t, executed.query), executed.query) IN
       draft' = [draft EXCEPT !.from = w.from, !.to = w.to]
  /\ Edit /\ Kept /\ UNCHANGED asset
-------------------------------------------------------------------------------
(* Runs, one at a time: everything that starts one is disabled meanwhile.    *)
Start(q, origin) ==
  /\ asked = NoRun /\ asked' = [query |-> q, origin |-> origin]
  /\ touched' = FALSE /\ UNCHANGED <<executed, saved, saving, edits>>

RunForm == Complete(query) /\ Start(query, "form") /\ UNCHANGED <<draft, asset>>
RunScenario == /\ Complete(query) /\ requireScenarioScope(query)
               /\ Start(query, "scenario") /\ UNCHANGED <<draft, asset>>
RunRelations == /\ Complete(query) /\ Start([query EXCEPT !.relations = TRUE], "form")
                /\ draft' = [draft EXCEPT !.relations = TRUE] /\ UNCHANGED asset
\* The entity form keeps the window and the analysis and replaces the rest.
RunEntity == /\ Complete(query) /\ UNCHANGED <<draft, asset>>
             /\ Start([query EXCEPT !.filter = {"entity"}, !.text = ""], "entity")

\* useSaved: the stored query becomes the draft, its asset an ordinary condition.
useSaved(s) == /\ s \in saved /\ Complete(s)
               /\ draft' = s /\ asset' = FALSE /\ Start(s, "saved")

\* The server refuses the query, and what is on screen stays; or a job is made of
\* it, which takes the screen and ends with or without a result.
Arrive ==
  /\ asked # NoRun /\ asked' = NoRun
  /\ \/ ~Accepted(asked.query) /\ touched' = TRUE /\ UNCHANGED executed
     \/ Accepted(asked.query) /\ executed' \in {NoRun, asked} /\ UNCHANGED touched
  /\ UNCHANGED <<draft, asset, saved, saving, edits>>

\* saveSearch: the query of the moment the form is sent.
saveSearch == /\ saving = NoQuery /\ Cardinality(saved) < MaxSaved /\ Complete(query) /\ saving' = query
              /\ UNCHANGED <<draft, asset, asked, executed, touched, saved, edits>>
Saved == /\ saving # NoQuery /\ saving' = NoQuery
         /\ saved' \in {saved} \cup IF Accepted(saving) THEN {saved \cup {saving}} ELSE {}
         /\ UNCHANGED <<draft, asset, asked, executed, touched, edits>>

Next ==
  \/ SetTime \/ addFilter \/ SetText \/ SetAsset \/ ToggleRelations \/ SetDimensions \/ ClickBar
  \/ RunForm \/ RunScenario \/ RunRelations \/ RunEntity \/ Arrive \/ saveSearch \/ Saved
  \/ \E s \in saved : useSaved(s)
Spec == Init /\ [][Next]_draftVars
-------------------------------------------------------------------------------
\* The notice that the conditions were not run is not shown over the results of
\* the very conditions in the form: whatever started the run, a saved search
\* with its asset and dimensions included, the form and the result agree until
\* the analyst edits something.
AgreesAfterRun ==
  (executed # NoRun /\ asked = NoRun /\ ~touched /\ executed.origin # "entity") => ~draftChanged

\* Narrowing to a bar of the chart selects what the bar counts, at the ragged
\* ends of the window too, and a query that has results can always be narrowed
\* to a window the server takes.
BarNarrows ==
  executed # NoRun =>
    LET q == executed.query IN
    \A t, u \in q.from .. q.to - 1 :
      LET w == Narrowed(BarOf(t, q), q) IN
      (w.from <= u /\ u < w.to) <=> BarOf(u, q) = BarOf(t, q)

DraftTrue == AgreesAfterRun /\ BarNarrows
===============================================================================
