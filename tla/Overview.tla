------------------------------- MODULE Overview -------------------------------
(* The command centre (OverviewView.tsx): figures read every 30 s, each read  *)
(* given 5 s and the last good value kept; the asset under the inspector      *)
(* follows the table, and its detail follows the asset and the readings.      *)
(* The order of the table is FleetFigures': here its first row is any row.    *)
EXTENDS Naturals, FiniteSets

CONSTANTS
  Observed,    \* assets that may have figures
  Registered,  \* assets of the registry
  Ranges,
  Queries,     \* texts of the search, each with the assets it matches
  Matches,
  MaxReads,    \* bound: readings on their way
  MaxDetails   \* bound: details on their way

VARIABLES
  range, metrics, loading, refreshing, delayed,
  query, uid, detail, lostDetail,
  reads,       \* [range, known]: readings on their way
  details      \* [uid, live]: details on their way; only the last one is live
overviewVars == <<range, metrics, loading, refreshing, delayed, query, uid, detail, lostDetail, reads, details>>

NoAsset  == "none"
NoDetail == [uid |-> NoAsset, newest |-> FALSE]
\* buildManagedAssets, resourceRows.
managed(m) == m \cup Registered
rows(m, q) == {a \in managed(m) : a \in Matches[q]}

\* selectedAsset: the row last chosen while it is listed, else the first row, else
\* anything that is left of the choice.
Choice(m, q, u) ==
  IF u \in rows(m, q) THEN {u}
  ELSE IF rows(m, q) # {} THEN rows(m, q)
  ELSE IF u \in managed(m) THEN {u}
  ELSE IF managed(m) # {} THEN managed(m) ELSE {NoAsset}
\* selectedDetail.
selectedDetail == IF detail.uid = uid THEN detail ELSE NoDetail
-------------------------------------------------------------------------------
(* The effects of a render: the selection settles, and a new asset or a new   *)
(* reading asks for the detail again, which disowns the request before.       *)
Dead == {[d EXCEPT !.live = FALSE] : d \in details}
Settle(m, q, u, again) ==
  \E a \in Choice(m, q, u) :
    /\ uid' = a
    /\ IF a = NoAsset THEN detail' = NoDetail /\ details' = Dead /\ lostDetail' = FALSE
       ELSE IF a # uid \/ again
       THEN /\ Cardinality(details) < MaxDetails
            /\ details' = Dead \cup {[uid |-> a, live |-> TRUE]}
            /\ detail' = [detail EXCEPT !.newest = FALSE] /\ lostDetail' = FALSE
       ELSE UNCHANGED <<detail, details, lostDetail>>

\* loadOverview.
Known == metrics # {}
Read(r, refresh) ==
  /\ Cardinality(reads) < MaxReads
  /\ reads' = reads \cup {[range |-> r, known |-> Known]}
  /\ IF refresh /\ Known THEN refreshing' = TRUE /\ UNCHANGED loading ELSE loading' = TRUE /\ UNCHANGED refreshing
  /\ delayed' = FALSE
setRange(r) ==
  /\ r # range /\ range' = r /\ Read(r, FALSE)
  /\ UNCHANGED <<metrics, query, uid, detail, lostDetail, details>>
Tick    == Read(range, TRUE) /\ UNCHANGED <<range, metrics, query, uid, detail, lostDetail, details>>
Refresh == ~loading /\ ~refreshing /\ Tick

\* All four requests have an end, or their 5 s are over: what failed keeps its value.
ReadEnds(r, seen, all) ==
  /\ reads' = reads \ {r}
  /\ metrics' = seen
  /\ Settle(seen, query, uid, TRUE)
  /\ delayed' = ~all /\ loading' = FALSE /\ refreshing' = FALSE
  /\ UNCHANGED <<range, query>>
\* One that was asked with nothing known puts that nothing back, even over the figures
\* another has brought meanwhile.
ReadFails(r) ==
  /\ reads' = reads \ {r}
  /\ IF r.known THEN UNCHANGED <<metrics, uid, detail, lostDetail, details>>
     ELSE metrics' = {} /\ Settle({}, query, uid, TRUE)
  /\ delayed' = TRUE /\ loading' = FALSE /\ refreshing' = FALSE
  /\ UNCHANGED <<range, query>>

\* setQuery; setSelectedAssetUid; the registry changes with App's assets.
Type(q) ==
  /\ q # query /\ query' = q /\ Settle(metrics, q, uid, FALSE)
  /\ UNCHANGED <<range, metrics, loading, refreshing, delayed, reads>>
Select(a) ==
  /\ a \in rows(metrics, query) /\ a # uid /\ Settle(metrics, query, a, FALSE)
  /\ UNCHANGED <<range, metrics, loading, refreshing, delayed, query, reads>>

\* The detail's answer, taken unless its effect has been cleaned up; or its failure,
\* after which an older detail of the same asset is kept.
Counts(d) == d.live
DetailArrives(d) ==
  /\ details' = details \ {d}
  /\ IF Counts(d) THEN detail' = [uid |-> d.uid, newest |-> d.live] /\ lostDetail' = FALSE
     ELSE UNCHANGED <<detail, lostDetail>>
  /\ UNCHANGED <<range, metrics, loading, refreshing, delayed, query, uid, reads>>
DetailFails(d) ==
  /\ details' = details \ {d}
  /\ IF Counts(d) THEN /\ lostDetail' = TRUE
                       /\ detail' = IF detail.uid = d.uid THEN detail ELSE NoDetail
     ELSE UNCHANGED <<detail, lostDetail>>
  /\ UNCHANGED <<range, metrics, loading, refreshing, delayed, query, uid, reads>>
-------------------------------------------------------------------------------
Init ==
  /\ range \in Ranges /\ metrics = {} /\ loading = TRUE /\ refreshing = FALSE /\ delayed = FALSE
  /\ query = CHOOSE q \in Queries : Matches[q] = Observed \cup Registered
  /\ reads = {[range |-> range, known |-> FALSE]} /\ detail = NoDetail /\ lostDetail = FALSE
  /\ \E a \in IF Registered = {} THEN {NoAsset} ELSE Registered :
       /\ uid = a
       /\ details = IF a = NoAsset THEN {} ELSE {[uid |-> a, live |-> TRUE]}
Next ==
  \/ (\E r \in Ranges : setRange(r)) \/ Tick \/ Refresh
  \/ (\E q \in Queries : Type(q)) \/ (\E a \in Observed \cup Registered : Select(a))
  \/ \E r \in reads : ReadFails(r) \/ \E seen \in SUBSET Observed, all \in BOOLEAN : ReadEnds(r, seen, all)
  \/ \E d \in details : DetailArrives(d) \/ DetailFails(d)
Spec == Init /\ [][Next]_overviewVars

\* The inspector never shows another asset than the table, and once the newest request
\* has been answered it shows that answer, however the others were delayed.
InspectorTrue ==
  /\ uid \in managed(metrics) \cup {NoAsset}
  /\ (rows(metrics, query) # {} => uid \in rows(metrics, query))
  /\ (selectedDetail # NoDetail /\ ~\E d \in details : d.live) => selectedDetail.newest \/ lostDetail

\* The table has the first row before anything is read: the search is the empty one.
OverviewAssumption == \E q \in Queries : Matches[q] = Observed \cup Registered
DetailRequest(d) == DOMAIN d = {"uid", "live"}
Detail(d) == DOMAIN d = {"uid", "newest"}
\* The live request is for the asset that is selected.
OverviewInv ==
  /\ \A d \in details : DetailRequest(d) /\ (d.live => d.uid = uid)
  /\ Detail(detail)
  /\ InspectorTrue
===============================================================================
