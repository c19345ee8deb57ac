---------------------------- MODULE HuntExceptions ----------------------------
(* Approved exceptions of the hunt scenarios: the guarded decisions on the    *)
(* server (HuntExceptions.java) and one administrator's review panel with the *)
(* request form beside a candidate (HuntExceptions.tsx).                      *)
EXTENDS Naturals, FiniteSets

CONSTANTS
  Exceptions,
  Requester,    \* [Exceptions -> who asks for it]
  Me,           \* the administrator at the panel; "other" decides elsewhere
  MaxAsks       \* bound on the readings and decisions asked for here

VARIABLES
  exception,   \* state, version, approver and whether it expired
  items,       \* the exceptions in the list on screen
  listing,     \* a page of the list is awaited
  opening,     \* the live detail request, or Nothing
  selected,    \* the exception on screen with the version shown, or Nothing
  reviewed,    \* what was on screen when the box was ticked, or Nothing
  reason,      \* a reason has been typed
  deciding,    \* the decision under way, or NoDecision
  busy, usage, \* usage: the exception whose further usage is awaited, or Nothing
  form,        \* the request form: "closed", "open", "busy", "created"
  asks

listVars   == <<items, listing>>
detailVars == <<opening, selected, usage>>
reviewVars == <<reviewed, reason>>
decideVars == <<deciding, busy>>
panelVars  == <<listVars, detailVars, reviewVars, decideVars>>
exceptionVars == <<exception, panelVars, form, asks>>

Nothing    == [id |-> "nothing", version |-> 0]
NoDecision == [action |-> "none"]
At(e)      == [id |-> e, version |-> exception[e].version]

Init ==
  /\ exception = [e \in Exceptions |->
       [state |-> "REQUESTED", version |-> 1, approver |-> "nobody", expired |-> FALSE]]
  /\ items = {} /\ listing = FALSE /\ opening = Nothing /\ selected = Nothing
  /\ reviewed = Nothing /\ reason = FALSE /\ deciding = NoDecision
  /\ busy = FALSE /\ usage = Nothing /\ form = "closed" /\ asks = 0
-------------------------------------------------------------------------------
(* The server.                                                               *)
Exists(e) == e \in Exceptions

\* decide: the version in hand is the current one, nobody judges their own
\* request, and an exception that is over is not revived.
Rules(who, e, v, action) ==
  /\ exception[e].version = v
  /\ IF action = "REVOKE" THEN exception[e].state \in {"REQUESTED", "APPROVED"}
     ELSE /\ Requester[e] # who
          /\ exception[e].state = "REQUESTED" /\ ~exception[e].expired
NextState(action) == CASE action = "APPROVE" -> "APPROVED"
                       [] action = "REJECT"  -> "REJECTED"
                       [] action = "REVOKE"  -> "REVOKED"
Decide(who, e, v, action) ==
  /\ Rules(who, e, v, action)
  /\ exception' = [exception EXCEPT ![e].state = NextState(action), ![e].version = v + 1,
                     ![e].approver = IF action = "APPROVE" THEN who ELSE @]

Elsewhere(e, action) ==
  /\ Decide("other", e, exception[e].version, action)
  /\ UNCHANGED <<panelVars, form, asks>>
Expire(e) ==
  /\ ~exception[e].expired /\ exception' = [exception EXCEPT ![e].expired = TRUE]
  /\ UNCHANGED <<panelVars, form, asks>>
-------------------------------------------------------------------------------
(* The panel.  A later load or selection outdates the answer of an earlier   *)
(* one, so that one of each is awaited at most.                              *)
Load == /\ ~busy /\ ~listing /\ listing' = TRUE
        /\ UNCHANGED <<exception, items, detailVars, reviewVars, decideVars, form, asks>>
Listed == /\ listing /\ listing' = FALSE /\ items' \in {items, Exceptions}
          /\ UNCHANGED <<exception, detailVars, reviewVars, decideVars, form, asks>>

\* select: nothing stays of what was selected before.
Select(e) ==
  /\ e \in items \cup {selected.id} /\ Exists(e) /\ ~busy /\ asks < MaxAsks
  /\ opening' = [id |-> e, version |-> 0] /\ asks' = asks + 1
  /\ selected' = Nothing /\ usage' = Nothing /\ reviewed' = Nothing /\ reason' = FALSE
  /\ UNCHANGED <<exception, listVars, decideVars, form>>
Selected ==
  /\ opening # Nothing /\ opening' = Nothing
  /\ selected' \in {selected, At(opening.id)}
  /\ UNCHANGED <<exception, listVars, reviewVars, decideVars, usage, form, asks>>

Tick == /\ selected # Nothing /\ ~busy
        /\ reviewed' = IF reviewed = Nothing THEN selected ELSE Nothing
        /\ UNCHANGED <<exception, listVars, detailVars, reason, decideVars, form, asks>>
Write == /\ selected # Nothing /\ ~busy /\ ~reason /\ reason' = TRUE
         /\ UNCHANGED <<exception, listVars, detailVars, reviewed, decideVars, form, asks>>

\* The buttons of the review form: of the permissions in the answer only the
\* requester's and the state of that moment count, which the server checks again.
CanDecide(action) ==
  /\ selected # Nothing /\ ~busy /\ reason
  /\ action = "APPROVE" => reviewed # Nothing
  /\ action # "REVOKE" => Requester[selected.id] # Me
Press(action) ==
  /\ CanDecide(action) /\ asks < MaxAsks /\ asks' = asks + 1
  /\ busy' = TRUE
  /\ deciding' = [action |-> action, id |-> selected.id, version |-> selected.version,
                  reviewed |-> reviewed]
  /\ UNCHANGED <<exception, listVars, detailVars, reviewVars, form>>

\* The answer is shown and the list loaded again before the panel is free.
Decided ==
  /\ deciding.action \notin {"none", "reload"}
  /\ \/ /\ Decide(Me, deciding.id, deciding.version, deciding.action)
        /\ selected' = [id |-> deciding.id, version |-> deciding.version + 1]
        /\ reason' = FALSE /\ reviewed' = Nothing
        /\ deciding' = [action |-> "reload"] /\ listing' = TRUE /\ UNCHANGED busy
     \/ /\ busy' = FALSE /\ deciding' = NoDecision
        /\ UNCHANGED <<exception, selected, reviewVars, listing>>
  /\ UNCHANGED <<items, opening, usage, form, asks>>
Reloaded ==
  /\ deciding.action = "reload" /\ ~listing
  /\ deciding' = NoDecision /\ busy' = FALSE
  /\ UNCHANGED <<exception, listVars, detailVars, reviewVars, form, asks>>

\* moreUsage: merged into what is selected if it is still the same exception.
MoreUsage ==
  /\ selected # Nothing /\ ~busy /\ usage = Nothing /\ usage' = selected
  /\ UNCHANGED <<exception, listVars, opening, selected, reviewVars, decideVars, form, asks>>
UsageArrived ==
  /\ usage # Nothing /\ usage' = Nothing
  /\ UNCHANGED <<exception, listVars, opening, selected, reviewVars, decideVars, form, asks>>

\* The request form beside a candidate.
ToggleForm ==
  /\ form' = CASE form = "closed" -> "open" [] form = "open" -> "closed" [] OTHER -> form
  /\ form' # form
  /\ UNCHANGED <<exception, panelVars, asks>>
SubmitForm ==
  /\ \/ form = "open" /\ form' = "busy"
     \/ form = "busy" /\ form' \in {"open", "created"}
  /\ UNCHANGED <<exception, panelVars, asks>>

Receive == Listed \/ Selected \/ Decided \/ Reloaded \/ UsageArrived
Next ==
  \/ Load \/ Tick \/ Write \/ MoreUsage \/ ToggleForm \/ SubmitForm \/ Receive
  \/ \E e \in Exceptions : Select(e) \/ Expire(e)
  \/ \E action \in {"APPROVE", "REJECT", "REVOKE"} :
       Press(action) \/ \E e \in Exceptions : Elsewhere(e, action)
Spec == Init /\ [][Next]_exceptionVars
-------------------------------------------------------------------------------
\* An exception in force was approved by somebody else than its requester and, if
\* here, on the very exception and version that the box was ticked for: neither
\* another selection nor a refresh in between carries the tick over.
ApprovedAsReviewed ==
  /\ \A e \in Exceptions : exception[e].state = "APPROVED" => exception[e].approver # Requester[e]
  /\ deciding.action = "APPROVE" =>
       deciding.reviewed = [id |-> deciding.id, version |-> deciding.version]
===============================================================================
