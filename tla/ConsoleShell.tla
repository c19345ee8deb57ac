----------------------------- MODULE ConsoleShell -----------------------------
(* The manager's console around its views (App.tsx), with the alerts it keeps *)
(* for them and the view that works on alerts (AlertsView.tsx).  Loads of the *)
(* workspace are not numbered: their answers count whenever they come.        *)
EXTENDS Naturals, FiniteSets

CONSTANTS
  Alerts,
  Users,      \* user name -> role
  MaxLoads,   \* bound: loads of the workspace on their way
  MaxUpdates  \* bound: alert updates on their way

VARIABLES
  alert,      \* the table of alerts: id -> status
  boot, user, active,
  shown,      \* alerts on the screen: id -> status, or "none" after a failed load
  loads, refreshing, failed,
  pending,    \* AlertsView: the alert being updated
  linking,    \* the links of the log parser have been asked for
  updates     \* requests on their way, with the view that waits for them
shellVars == <<alert, boot, user, active, shown, loads, refreshing, failed, linking, pending, updates>>

NoUser  == "nobody"
NoAlert == "none"
Nothing == [a \in Alerts |-> "none"]
Role(u) == IF u = NoUser THEN "VIEWER" ELSE Users[u]
AllItems == {"overview", "alerts", "logparser", "settings"}
\* menuItemsForRole, canMutate.
menuItemsForRole(role) == IF role = "VIEWER" THEN AllItems \ {"settings"} ELSE AllItems
canMutate(role)        == role # "VIEWER"

\* activeView: what is shown while active is not on the menu of the role.
activeView == IF active \in menuItemsForRole(Role(user)) THEN active ELSE "overview"
\* The effect on menu and active.
Settled(a, u) == IF a \in menuItemsForRole(Role(u)) THEN a ELSE "overview"
-------------------------------------------------------------------------------
(* Start, login and logout.                                                  *)
\* loadBootstrapState.
Boot(state, u) ==
  /\ boot \in {"checking", "down"} /\ boot' = state /\ user' = u
  /\ active' = Settled(active, u)
  /\ IF state = "console" THEN loads' = loads \cup {[alerts |-> Nothing, stage |-> "sent"]} /\ refreshing' = TRUE
     ELSE UNCHANGED <<loads, refreshing>>
  /\ UNCHANGED <<alert, shown, failed, pending, updates, linking>>
Boots ==
  \/ Boot("setup", NoUser) \/ Boot("login", NoUser) \/ Boot("down", NoUser)
  \/ \E u \in DOMAIN Users : Boot("console", u)
createAdmin == boot = "setup" /\ boot' = "login" /\ UNCHANGED <<alert, user, active, shown, loads, refreshing, failed, pending, updates, linking>>

\* login, and the effect on boot.authenticated that loads the workspace.
login(u) ==
  /\ boot = "login" /\ Cardinality(loads) < MaxLoads
  /\ boot' = "console" /\ user' = u /\ active' = Settled(active, u)
  /\ loads' = loads \cup {[alerts |-> Nothing, stage |-> "sent"]}
  /\ refreshing' = TRUE /\ failed' = FALSE
  /\ UNCHANGED <<alert, shown, pending, updates, linking>>

\* The view that is left hears of its requests no more, the console does.
Unmount == pending' = NoAlert /\ updates' = {[u EXCEPT !.view = "none"] : u \in updates}

\* logout: assets and alerts stay in memory; the views are unmounted.
logout ==
  /\ boot = "console" /\ boot' = "login" /\ user' = NoUser
  /\ active' = "overview" /\ failed' = FALSE
  /\ Unmount
  /\ UNCHANGED <<alert, shown, loads, refreshing, linking>>

openMenuItem(i) ==
  /\ boot = "console" /\ i \in menuItemsForRole(Role(user)) \ {"logparser"} /\ i # active
  /\ active' = i
  /\ Unmount
  /\ UNCHANGED <<alert, boot, user, shown, loads, refreshing, failed, linking>>
\* openLogparserUi: a window with the first link, or without one its view here,
\* wherever the user has gone meanwhile.
AskLinks == boot = "console" /\ ~linking /\ linking' = TRUE
            /\ UNCHANGED <<alert, boot, user, active, shown, loads, refreshing, failed, pending, updates>>
LinksAnswered(found) ==
  /\ linking /\ linking' = FALSE
  /\ IF found THEN UNCHANGED <<active, pending, updates>> ELSE active' = "logparser" /\ Unmount
  /\ UNCHANGED <<alert, boot, user, shown, loads, refreshing, failed>>
-------------------------------------------------------------------------------
(* loadWorkspace: three requests, of which the alerts matter here.           *)
Refresh ==
  /\ boot = "console" /\ ~refreshing /\ Cardinality(loads) < MaxLoads
  /\ loads' = loads \cup {[alerts |-> Nothing, stage |-> "sent"]}
  /\ refreshing' = TRUE /\ failed' = FALSE
  /\ UNCHANGED <<alert, boot, user, active, shown, pending, updates, linking>>
ServeLoad(l) ==
  /\ l.stage = "sent"
  /\ loads' = (loads \ {l}) \cup {[alerts |-> alert, stage |-> "served"]}
  /\ UNCHANGED <<alert, boot, user, active, shown, refreshing, failed, pending, updates, linking>>
Loaded(l) ==
  /\ l.stage = "served"
  /\ loads' = loads \ {l} /\ shown' = l.alerts /\ refreshing' = FALSE /\ failed' \in BOOLEAN
  /\ UNCHANGED <<alert, boot, user, active, pending, updates, linking>>
LoadFailed(l) ==
  /\ loads' = loads \ {l} /\ shown' = Nothing /\ refreshing' = FALSE /\ failed' = TRUE
  /\ UNCHANGED <<alert, boot, user, active, pending, updates, linking>>
-------------------------------------------------------------------------------
(* AlertsView.update and OverviewView.acknowledgeSelected.                   *)
Open(a) == shown[a] \in {"ACTIVE", "ACKNOWLEDGED"}
Offered(a, to) == IF to = "ACKNOWLEDGED" THEN shown[a] = "ACTIVE" ELSE Open(a)
Ask(a, to) ==
  /\ Cardinality(updates) < MaxUpdates
  /\ updates' = updates \cup {[id |-> a, to |-> to, stage |-> "sent", role |-> Role(user), view |-> activeView]}
Update(a, to) ==
  /\ boot = "console" /\ activeView = "alerts" /\ pending = NoAlert
  /\ canMutate(Role(user)) /\ Offered(a, to)
  /\ Ask(a, to) /\ pending' = a
  /\ UNCHANGED <<alert, boot, user, active, shown, loads, refreshing, failed, linking>>
\* The overview does not look at the role: the manager refuses a viewer.
AcknowledgeSelected(a) ==
  /\ boot = "console" /\ activeView = "overview" /\ shown[a] = "ACTIVE"
  /\ Ask(a, "ACKNOWLEDGED")
  /\ UNCHANGED <<alert, boot, user, active, shown, loads, refreshing, failed, pending, linking>>

\* AlertController: any alert that is not merged takes the new status.
Serve(u) ==
  /\ u.stage = "sent" /\ alert[u.id] # "MERGED" /\ canMutate(u.role)
  /\ alert' = [alert EXCEPT ![u.id] = u.to]
  /\ updates' = (updates \ {u}) \cup {[u EXCEPT !.stage = "served"]}
  /\ UNCHANGED <<boot, user, active, shown, loads, refreshing, failed, pending, linking>>
Answered(u) ==
  /\ u.stage = "served"
  /\ updates' = updates \ {u}
  /\ shown' = [shown EXCEPT ![u.id] = IF @ = "none" THEN @ ELSE u.to]
  /\ pending' = IF u.view = "alerts" THEN NoAlert ELSE pending
  /\ UNCHANGED <<alert, boot, user, active, loads, refreshing, failed, linking>>
Refused(u) ==
  /\ updates' = updates \ {u} /\ failed' = (boot = "console" \/ failed)
  /\ pending' = IF u.view = "alerts" THEN NoAlert ELSE pending
  /\ UNCHANGED <<alert, boot, user, active, shown, loads, refreshing, linking>>

\* A colleague, and the engine that raises and merges alerts.
Elsewhere(a) ==
  /\ alert[a] # "MERGED"
  /\ \E s \in {"ACTIVE", "ACKNOWLEDGED", "RESOLVED", "MERGED"} \ {alert[a]} : alert' = [alert EXCEPT ![a] = s]
  /\ UNCHANGED <<boot, user, active, shown, loads, refreshing, failed, pending, updates, linking>>
-------------------------------------------------------------------------------
Init ==
  /\ alert \in [Alerts -> {"ACTIVE"}] /\ boot = "checking" /\ user = NoUser /\ active = "overview"
  /\ shown = Nothing /\ loads = {} /\ refreshing = FALSE /\ failed = FALSE
  /\ linking = FALSE /\ pending = NoAlert /\ updates = {}
Next ==
  \/ Boots \/ createAdmin \/ (\E u \in DOMAIN Users : login(u)) \/ logout
  \/ (\E i \in AllItems : openMenuItem(i)) \/ Refresh
  \/ AskLinks \/ LinksAnswered(TRUE) \/ LinksAnswered(FALSE)
  \/ \E a \in Alerts : \/ Update(a, "ACKNOWLEDGED") \/ Update(a, "RESOLVED")
                      \/ AcknowledgeSelected(a) \/ Elsewhere(a)
  \/ \E l \in loads : ServeLoad(l) \/ Loaded(l) \/ LoadFailed(l)
  \/ \E u \in updates : Serve(u) \/ Answered(u) \/ Refused(u)
Spec == Init /\ [][Next]_shellVars

\* Whoever logs in after whom, the view on the screen is on the menu of the role, and
\* the alerts view waits for one update at most, the one whose buttons it has locked.
ShellTrue ==
  /\ boot = "console" => activeView \in menuItemsForRole(Role(user))
  /\ {u.id : u \in {v \in updates : v.view = "alerts"}} = {pending} \ {NoAlert}

ShellAssumption == NoAlert \notin Alerts
Request(u) == DOMAIN u = {"id", "to", "stage", "role", "view"}
\* The alerts view waits for one request.
ShellInv ==
  /\ \A u \in updates : Request(u) /\ u.id \in Alerts
  /\ \A u, v \in updates : u.view = "alerts" /\ v.view = "alerts" => u = v
  /\ ShellTrue
===============================================================================
