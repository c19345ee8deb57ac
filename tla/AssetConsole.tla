----------------------------- MODULE AssetConsole -----------------------------
(* The asset view (AssetsView.tsx): the fleet list with its filters, the      *)
(* detail of one asset, refreshed every 30 s and after every change, and the  *)
(* forms that create, edit and delete assets, while others edit them too.     *)
EXTENDS Naturals, Sequences, FiniteSets, SequencesExt

CONSTANTS
  Assets,       \* uids; a registered asset has its uid for an id
  Observed,     \* assets that are collected: seen even when not registered
  Routers,      \* assets bound to a security router
  Ranges,
  Tabs,         \* of the detail, besides the first: "router", "files" and six more
  Healths,      \* states of health, worst first: a sequence
  HealthOf,     \* of every asset
  MaxLoads,     \* bound: overviews asked for at a time
  MaxSaves      \* bound: changes sent

VARIABLES
  registry,     \* server: the registered assets
  props,        \* App.tsx's copy of the registry, the fallback of a failed load
  range, overview, loads,
  uid,          \* the selected asset
  snapshot, detail, asked, detailLoading,
  editing, draft, creating, saves, sent,
  tab, binding, routerUid
assetVars == <<registry, props, range, overview, loads, uid, snapshot, detail,
               asked, detailLoading, editing, draft, creating, saves, sent, tab, binding, routerUid>>
fleet  == <<props, range, overview, loads>>
panel  == <<snapshot, detail, asked, detailLoading>>
forms  == <<editing, draft, creating, saves, sent>>
tabs   == <<tab, binding, routerUid>>

None    == "none"
NoRow   == [uid |-> None, health |-> Healths[1], id |-> FALSE]
Row(a)  == [uid |-> a, health |-> HealthOf[a], id |-> a \in registry]
Fleet   == {Row(a) : a \in registry \cup Observed}
\* fallbackOverview: the registered assets, their health unknown.
fallbackOverview == {[uid |-> a, health |-> Healths[Len(Healths)], id |-> TRUE] : a \in props}

Find(rows, a) == IF \E r \in rows : r.uid = a THEN CHOOSE r \in rows : r.uid = a ELSE NoRow
\* selectedAsset: its row of the overview, or else its snapshot.
Selected(rows, a, snap) == IF Find(rows, a) # NoRow THEN Find(rows, a)
                           ELSE IF snap.uid = a THEN snap ELSE NoRow
selectedAsset == IF uid = None THEN NoRow ELSE Selected(overview, uid, snapshot)
\* filteredAssets: what is listed under a filter.
filteredAssets(h) == {r \in overview : h \in {"all", r.health}}
\* What the panel is given: a detail of another asset is held back.
ShownDetail == IF detail.uid = selectedAsset.uid THEN detail ELSE NoRow
canMutateSelected == selectedAsset.id
-------------------------------------------------------------------------------
(* Effects that follow a change of the overview, the selection or the range. *)
\* The form is filled with the asset on the screen, when it appears there and not again;
\* the model keeps whose text it holds.
ResetDraft(row) == editing' = FALSE /\ draft' = row.uid
DraftFor(row)   == IF row.uid = selectedAsset.uid THEN UNCHANGED <<editing, draft>> ELSE ResetDraft(row)

\* The detail panel asks whether an agent binds the asset to a router, and starts on its first tab.
TabsFor(row) ==
  IF row.uid = selectedAsset.uid THEN UNCHANGED tabs
  ELSE tab' = "performance" /\ binding' = row.uid /\ routerUid' = None

\* The earlier request of the detail is cancelled, not aborted: its answer is dropped.
AskDetail(a, rg) ==
  IF a = None THEN detail' = NoRow /\ asked' = [uid |-> None, range |-> rg] /\ detailLoading' = FALSE
  ELSE detail' = detail /\ asked' = [uid |-> a, range |-> rg] /\ detailLoading' = TRUE
-------------------------------------------------------------------------------
(* loadMetrics.                                                              *)
Load(rg) ==
  /\ Cardinality(loads) < MaxLoads
  /\ loads' = loads \cup {[range |-> rg, rows |-> Fleet]}

Refresh == Load(range) /\ UNCHANGED <<registry, props, range, overview, uid, panel, forms, tabs>>

\* An answer, of whichever request: the selection is the one of now (a ref).
Loaded(l, ok) ==
  LET rows == IF ok THEN l.rows ELSE IF overview # {} THEN overview ELSE fallbackOverview
      seen == Find(IF ok THEN l.rows ELSE fallbackOverview, uid)
      snap == IF uid # None /\ seen # NoRow THEN seen ELSE snapshot
      next == IF uid = None THEN NoRow ELSE Selected(rows, uid, snap)
  IN /\ loads' = loads \ {l}
     /\ overview' = rows /\ snapshot' = snap
     /\ DraftFor(next) /\ TabsFor(next)
     /\ IF uid = None THEN UNCHANGED <<detail, asked, detailLoading>> ELSE AskDetail(uid, range)
     /\ UNCHANGED <<registry, props, range, uid, creating, saves, sent>>

SetRange(rg) ==
  /\ rg # range /\ uid = None /\ range' = rg
  /\ Load(rg) /\ AskDetail(uid, rg)
  /\ UNCHANGED <<registry, props, overview, uid, snapshot, forms, tabs>>

\* The detail's answer; a refused one leaves what is shown of this asset.
Detailed(ok) ==
  /\ detailLoading /\ asked.uid # None
  /\ LET row == Row(asked.uid) IN
     IF ok THEN detail' = row /\ snapshot' = row
     ELSE detail' = (IF detail.uid = asked.uid THEN detail ELSE NoRow) /\ UNCHANGED snapshot
  /\ detailLoading' = FALSE
  /\ LET next == Selected(overview, uid, snapshot') IN DraftFor(next) /\ TabsFor(next)
  /\ UNCHANGED <<registry, fleet, uid, asked, creating, saves, sent>>
-------------------------------------------------------------------------------
(* openAssetDetail, returnToList.                                            *)
openAssetDetail ==
  /\ uid = None
  /\ \E h \in {"all"} \cup Range(Healths) : \E row \in filteredAssets(h) :
       /\ uid' = row.uid /\ snapshot' = row
       /\ DraftFor(row) /\ TabsFor(row)
       /\ detail' = NoRow /\ asked' = [uid |-> row.uid, range |-> range] /\ detailLoading' = TRUE
  /\ UNCHANGED <<registry, fleet, creating, saves, sent>>

Leave == /\ uid' = None /\ snapshot' = NoRow /\ AskDetail(None, range)
         /\ ResetDraft(NoRow) /\ tab' = "performance" /\ binding' = None /\ routerUid' = None
returnToList == uid # None /\ Leave /\ UNCHANGED <<registry, fleet, creating, saves, sent>>
ToggleCreate == Leave /\ creating' = ~creating /\ UNCHANGED <<registry, fleet, saves, sent>>
-------------------------------------------------------------------------------
(* The forms.  Neither save button waits for the answer.                     *)
StartEdit == selectedAsset.id /\ ~editing /\ editing' = TRUE /\ UNCHANGED <<registry, fleet, uid, panel, draft, creating, saves, sent, tabs>>
CancelEdit ==
  /\ editing /\ editing' = FALSE /\ draft' = selectedAsset.uid
  /\ UNCHANGED <<registry, fleet, uid, panel, creating, saves, sent, tabs>>

Send(kind, a) ==
  /\ sent < MaxSaves /\ sent' = sent + 1
  /\ saves' = saves \cup {[kind |-> kind, uid |-> a, of |-> draft, done |-> FALSE]}
  /\ UNCHANGED <<registry, fleet, uid, panel, editing, draft, creating, tabs>>
submitEdit   == editing /\ selectedAsset.id /\ Send("update", selectedAsset.uid)
deleteSelectedAsset == canMutateSelected /\ Send("delete", selectedAsset.uid)
submitCreate == creating /\ \E a \in Assets : Send("create", a)

\* The server: an asset that is gone cannot be updated or deleted, a uid is registered once.
Serve(s) ==
  /\ ~s.done /\ ((s.kind = "create") = (s.uid \notin registry))
  /\ registry' = IF s.kind = "delete" THEN registry \ {s.uid} ELSE registry \cup {s.uid}
  /\ saves' = (saves \ {s}) \cup {[s EXCEPT !.done = TRUE]}
  /\ UNCHANGED <<fleet, uid, panel, editing, draft, creating, sent, tabs>>
Refused(s) == ~s.done /\ saves' = saves \ {s} /\ UNCHANGED <<registry, fleet, uid, panel, editing, draft, creating, sent, tabs>>

\* The answer closes whatever form is open by then, and the overview is read again.
Saved(s) ==
  /\ s.done /\ saves' = saves \ {s}
  /\ props' = IF s.kind = "delete" THEN props \ {s.uid} ELSE props \cup {s.uid}
  /\ Load(range)
  /\ CASE s.kind = "create" -> creating' = FALSE /\ UNCHANGED <<uid, panel, editing, draft, tabs>>
       [] s.kind = "update" -> editing' = FALSE /\ UNCHANGED <<uid, panel, draft, creating, tabs>>
       [] s.kind = "delete" -> Leave /\ UNCHANGED creating
  /\ UNCHANGED <<registry, range, overview, sent>>
-------------------------------------------------------------------------------
(* The detail panel's tabs: the router's only for a router, the files' only  *)
(* for an operator of a registered asset.                                    *)
Bound(ok) ==
  /\ binding # None
  /\ binding' = None
  /\ routerUid' = IF ok /\ binding \in Routers THEN binding ELSE routerUid
  /\ UNCHANGED <<registry, fleet, uid, panel, forms, tab>>
HasRouterTab == routerUid = selectedAsset.uid
OpenTab(t) ==
  /\ selectedAsset # NoRow /\ tab # t /\ (t = "router" => HasRouterTab)
  /\ tab' = t
  /\ UNCHANGED <<registry, fleet, uid, panel, forms, binding, routerUid>>

\* Somebody else deletes an asset.
Elsewhere ==
  /\ \E a \in registry : registry' = registry \ {a}
  /\ UNCHANGED <<fleet, uid, panel, forms, tabs>>
-------------------------------------------------------------------------------
Init ==
  /\ registry = Assets \ Observed
  /\ props = registry
  /\ range \in Ranges /\ overview = {}
  /\ loads = {[range |-> range, rows |-> Fleet]}
  /\ uid = None /\ snapshot = NoRow /\ detail = NoRow /\ asked = [uid |-> None, range |-> range] /\ detailLoading = FALSE
  /\ editing = FALSE /\ draft = None /\ creating = FALSE /\ saves = {} /\ sent = 0
  /\ tab = "performance" /\ binding = None /\ routerUid = None

Next ==
  \/ Refresh \/ (\E l \in loads, ok \in BOOLEAN : Loaded(l, ok)) \/ (\E rg \in Ranges : SetRange(rg))
  \/ (\E ok \in BOOLEAN : Detailed(ok) \/ Bound(ok))
  \/ openAssetDetail \/ returnToList \/ ToggleCreate \/ StartEdit \/ CancelEdit
  \/ submitEdit \/ deleteSelectedAsset \/ submitCreate
  \/ (\E s \in saves : Serve(s) \/ Refused(s) \/ Saved(s))
  \/ (\E t \in Tabs : OpenTab(t)) \/ Elsewhere
Spec == Init /\ [][Next]_assetVars

\* Whatever the order of the answers, the detail, the snapshot, the draft and the
\* router controls on the screen are those of the selected asset, and an update
\* carries the text of the asset that it changes.
OneAssetShown ==
  /\ detail.uid \in {None, uid} /\ snapshot.uid \in {None, uid} /\ routerUid \in {None, uid}
  /\ selectedAsset # NoRow => draft = uid
  /\ tab = "router" => HasRouterTab
  /\ \A s \in saves : s.kind = "update" => s.of = s.uid

AssetAssumption == None \notin Assets \cup Observed
\* Rows are of assets; what is asked of the detail and of the router is asked for the asset
\* that is selected.
RowsTrue ==
  /\ None \notin registry \cup props
  /\ \A r \in overview : r.uid # None
  /\ \A l \in loads : \A r \in l.rows : r.uid # None
  /\ \A s \in saves : /\ DOMAIN s = {"kind", "uid", "of", "done"}
                      /\ s.kind \in {"create", "update", "delete"} /\ s.uid # None
AssetInv ==
  /\ RowsTrue
  /\ asked.uid = uid /\ {binding, routerUid} \subseteq {None, selectedAsset.uid}
  /\ OneAssetShown
===============================================================================
