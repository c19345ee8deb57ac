------------------------------- MODULE LogViews -------------------------------
(* The views that read one page of stored events or figures under filters:    *)
(*   "hunt"    SecurityHuntView.tsx, HuntAnalysis                             *)
(*   "agent"   AgentLogsView.tsx                                              *)
(*   "traffic" TrafficView.tsx                                                *)
(*   "asset"   AssetsView.tsx, AssetLogsPanel                                 *)
(* The first three share useRemoteData, which numbers its requests and keeps  *)
(* the last answer; the fourth numbers its own and clears what it cannot      *)
(* renew.  A text is sent to the store some 300 ms after the last key stroke. *)
EXTENDS Naturals, FiniteSets

CONSTANTS
  Views,
  Choices,     \* values of the menus (range, asset, severity, family, category) taken together
  Texts,
  MaxOffset,   \* bound: pages
  MaxAsks      \* bound: requests on their way

VARIABLES
  view, key, typed,
  asks,        \* requests; only the last one is live
  data, loading, error,
  selected,    \* "hunt": the page of the event or finding whose detail is open
  active       \* "asset": its tab is open
logVars == <<view, key, typed, asks, data, loading, error, selected, active>>

First == [choice |-> CHOOSE c \in Choices : TRUE, text |-> CHOOSE t \in Texts : TRUE, offset |-> 0]
NoKey  == [choice |-> "none", text |-> "none", offset |-> 0]
NoPage == [key |-> NoKey, more |-> FALSE]
Paged  == view \in {"hunt", "asset"}
Keyed  == view = "hunt"

\* page, data: HuntAnalysis shows an answer only under its own key.
Shown == IF Keyed /\ data.key # key THEN NoPage ELSE data
busy  == loading \/ (view \in {"hunt", "agent"} /\ typed # key.text)
-------------------------------------------------------------------------------
(* reload, loadLogs: a new request supersedes the others.                    *)
Superseded == {[a EXCEPT !.live = FALSE] : a \in asks}
Ask(k) ==
  /\ Cardinality(asks) < MaxAsks
  /\ asks' = Superseded \cup {[key |-> k, live |-> TRUE]}
  /\ loading' = TRUE /\ error' = FALSE

\* Its answer, or its failure.
\* Variant: an answer is taken whenever it comes.
TakesAll(a) == TRUE
Counts(a)   == a.live
Answer(a, more) ==
  /\ asks' = asks \ {a}
  /\ IF Counts(a) THEN data' = [key |-> a.key, more |-> more] /\ loading' = FALSE ELSE UNCHANGED <<data, loading>>
  /\ UNCHANGED <<view, key, typed, error, selected, active>>
Fail(a) ==
  /\ asks' = asks \ {a}
  /\ IF Counts(a) THEN /\ error' = TRUE /\ loading' = FALSE
                       /\ data' = IF view = "asset" THEN NoPage ELSE data
     ELSE UNCHANGED <<data, loading, error>>
  /\ UNCHANGED <<view, key, typed, selected, active>>
-------------------------------------------------------------------------------
(* Filters.  Every change starts again at the first page.                    *)
Change(k) == key' = k /\ IF k # key THEN Ask(k) ELSE UNCHANGED <<asks, loading, error>>

SetChoice(c) ==
  /\ c # key.choice
  /\ Change([key EXCEPT !.choice = c, !.offset = 0])
  /\ selected' = NoKey
  /\ UNCHANGED <<view, typed, data, active>>

\* HuntAnalysis leaves the page at once, the others when the text is sent.
Type(t) ==
  /\ t # typed /\ typed' = t
  /\ Change([key EXCEPT !.offset = IF Keyed THEN 0 ELSE @])
  /\ selected' = NoKey
  /\ UNCHANGED <<view, data, active>>
Send ==
  /\ view # "traffic" /\ typed # key.text
  /\ Change([key EXCEPT !.text = typed, !.offset = 0])
  /\ UNCHANGED <<view, typed, data, selected, active>>

\* inspect: the id of an event becomes the text, and the other filters are opened.
Inspect ==
  /\ selected # NoKey
  /\ \E c \in Choices, t \in Texts : typed' = t /\ Change([key EXCEPT !.choice = c, !.offset = 0])
  /\ selected' = NoKey
  /\ UNCHANGED <<view, data, active>>

Page ==
  /\ Paged /\ ~busy
  /\ \E o \in (IF key.offset > 0 THEN {key.offset - 1} ELSE {})
              \cup (IF Shown.more /\ key.offset < MaxOffset THEN {key.offset + 1} ELSE {}) :
       Change([key EXCEPT !.offset = o])
  /\ selected' = NoKey
  /\ UNCHANGED <<view, typed, data, active>>

\* The refresh button, and for the log of an asset the timer of 30 s.
Reload ==
  /\ active /\ (~busy \/ view = "asset") /\ Ask(key)
  /\ selected' = NoKey
  /\ UNCHANGED <<view, key, typed, data, active>>

Select   == view = "hunt" /\ Shown # NoPage /\ selected' = Shown.key /\ UNCHANGED <<view, key, typed, asks, data, loading, error, active>>
Deselect == selected # NoKey /\ selected' = NoKey /\ UNCHANGED <<view, key, typed, asks, data, loading, error, active>>

\* The tab of an asset's log is left, which unmounts it with its requests on their
\* way, and opened again from the start.
Leave ==
  /\ view = "asset" /\ active /\ active' = FALSE
  /\ asks' = Superseded
  /\ UNCHANGED <<view, key, typed, data, loading, error, selected>>
Return ==
  /\ ~active /\ active' = TRUE
  /\ key' = First /\ typed' = First.text /\ data' = NoPage /\ selected' = NoKey
  /\ Ask(First)
  /\ UNCHANGED view
-------------------------------------------------------------------------------
Init ==
  /\ view \in Views /\ key = First /\ typed = First.text
  /\ asks = {[key |-> First, live |-> TRUE]} /\ loading = TRUE
  /\ data = NoPage /\ error = FALSE /\ selected = NoKey /\ active = TRUE
Filter ==
  \/ (\E c \in Choices : SetChoice(c)) \/ (\E t \in Texts : Type(t)) \/ Send \/ Inspect \/ Page \/ Select \/ Deselect
Next ==
  \/ (active /\ Filter) \/ Reload \/ Leave \/ Return
  \/ \E a \in asks : Fail(a) \/ \E more \in BOOLEAN : Answer(a, more)
Spec == Init /\ [][Next]_logVars

\* Events and figures on the screen are those of the filters above them, unless the
\* view says that it is loading or could not; however the answers overtake each other.
ShownUnderItsFilters ==
  active /\ ~loading => \/ Shown.key = key
                        \/ error /\ (view = "asset" => Shown = NoPage)
\* A request is live when it is the last one, and then asks for what the filters say.
LogInv ==
  /\ \A a \in asks : DOMAIN a = {"key", "live"}
  /\ active => \A a \in asks : a.live => a.key = key
  /\ ShownUnderItsFilters
===============================================================================
