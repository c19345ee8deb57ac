----------------------------- MODULE FleetFigures -----------------------------
(* The tables of the fleet: the command centre's matrix and summary           *)
(* (OverviewView.tsx) and the asset view's scan list (AssetsView.tsx), both   *)
(* computed from the figures of collected assets and the registry.            *)
EXTENDS Integers, Sequences, FiniteSets, FiniteSetsExt, SequencesExt

CONSTANTS
  Uids,        \* assets; their numbers order their names
  Registered,  \* those of the registry
  Figures,     \* what may be collected of one: [value, seen, health, stale, observed, reasons]
  Searches,    \* sets of assets that a text may match
  MaxCollected \* bound: collections

VARIABLES metrics, key, direction, search, health, collected
fleetVars == <<metrics, key, direction, search, health, collected>>

Missing == -1
Keys    == {"name", "health", "value"}
Order(rows, Before(_, _)) == SetToSortSeq(rows, Before)

\* buildManagedAssets: a collected row wins over the registry's.
NotObserved == [value |-> Missing, seen |-> Missing, health |-> "unknown", stale |-> TRUE, observed |-> FALSE,
                reasons |-> {"warning"}]
managedAssets == {[uid |-> u, is |-> IF u \in DOMAIN metrics THEN metrics[u] ELSE NotObserved] :
                  u \in DOMAIN metrics \cup Registered}

\* buildPriorityRow; resourceHealthTone.
severity(a)   == IF a.health = "critical" \/ "critical" \in a.reasons THEN "CRITICAL"
                 ELSE IF a.stale THEN "HIGH" ELSE "MEDIUM"
actionable(a) == severity(a) # "MEDIUM" \/ a.health = "warning" \/ a.reasons # {}
tone(a)       == IF ~a.observed THEN "unknown"
                 ELSE IF a.health \in {"critical", "warning"} THEN a.health
                 ELSE IF a.stale THEN "stale" ELSE a.health

\* resourceSortValue, for a figure (load, traffic or time) and for health.
sortValue(a, k) ==
  IF k = "value" THEN a.value
  ELSE CASE a.health = "critical" -> 5 [] a.health = "warning" -> 4
         [] a.observed /\ a.stale -> 3 [] a.health = "unknown" -> 2 [] OTHER -> 0

\* Variant: a missing figure is as good as any.
compareNumbers(x, y, d) == IF d = "asc" THEN x - y ELSE y - x

\* compareOptionalNumbers: a missing figure comes last in both directions.
compareOptionalNumbers(x, y, d) ==
  IF x = Missing \/ y = Missing THEN (IF x = Missing THEN 1 ELSE 0) - (IF y = Missing THEN 1 ELSE 0)
  ELSE IF d = "asc" THEN x - y ELSE y - x
compareResourceRows(x, y, k, d) ==
  IF k = "name" THEN (IF d = "asc" THEN x.uid - y.uid ELSE y.uid - x.uid)
  ELSE LET c == compareOptionalNumbers(sortValue(x.is, k), sortValue(y.is, k), d) IN IF c # 0 THEN c ELSE x.uid - y.uid
resourceRows ==
  Order({r \in managedAssets : r.uid \in search}, LAMBDA x, y : compareResourceRows(x, y, key, direction) < 0)

\* buildFleetResourceSummary.
Count(P(_)) == Cardinality({r \in managedAssets : P(r.is)})
reporting   == Count(LAMBDA a : a.observed)
stale       == Count(LAMBDA a : a.observed /\ a.stale)
attention   == Count(LAMBDA a : a.stale \/ a.health \in {"critical", "warning", "unknown"})
valued      == {r \in managedAssets : r.is.value # Missing}
sumPresentMetrics == IF valued = {} THEN Missing ELSE MapThenSumSet(LAMBDA r : r.is.value, valued)

\* AssetsView: filteredAssets, assetScanRank, sortAssetsForScan.
assetScanRank(a) == CASE a.health = "critical" -> 0 [] a.health = "warning" -> 1
                      [] a.stale -> 2 [] a.health = "unknown" -> 3 [] OTHER -> 4
Seen(a) == IF a.seen = Missing THEN 0 ELSE a.seen
scanAssets ==
  Order({r \in managedAssets : r.uid \in search /\ health \in {"all", r.is.health}},
        LAMBDA x, y : LET c == assetScanRank(x.is) - assetScanRank(y.is) IN
          IF c # 0 THEN c < 0 ELSE IF Seen(x.is) # Seen(y.is) THEN Seen(x.is) > Seen(y.is) ELSE x.uid < y.uid)
-------------------------------------------------------------------------------
Init ==
  /\ metrics \in UNION {[U -> Figures] : U \in SUBSET Uids}
  /\ key = "health" /\ direction = "desc" /\ search = Uids /\ health = "all" /\ collected = 0

\* sortResources: another column starts descending, the same one turns round.
sortResources(k) ==
  /\ key' = k /\ direction' = IF key = k /\ direction = "desc" THEN "asc" ELSE "desc"
  /\ UNCHANGED <<metrics, search, health, collected>>
setQuery(s)        == search' = s /\ UNCHANGED <<metrics, key, direction, health, collected>>
setHealthFilter(h) == health' = h /\ UNCHANGED <<metrics, key, direction, search, collected>>
\* A new collection of one asset.
Collect ==
  /\ collected < MaxCollected /\ collected' = collected + 1
  /\ \E u \in DOMAIN metrics, f \in Figures : metrics' = [metrics EXCEPT ![u] = f]
  /\ UNCHANGED <<key, direction, search, health>>
Next ==
  \/ (\E k \in Keys : sortResources(k)) \/ (\E s \in Searches : setQuery(s)) \/ Collect
  \/ \E h \in {"all", "critical", "unknown"} : setHealthFilter(h)
Spec == Init /\ [][Next]_fleetVars

Each(rows, set) == Len(rows) = Cardinality(set) /\ ToSet(rows) = set
Pairs(rows)     == {p \in (1 .. Len(rows)) \X (1 .. Len(rows)) : p[1] < p[2]}
\* Every asset that is looked for is listed once, by what was collected of it; what is
\* not known comes after all that is, whichever way the column is turned; the worst and
\* then the latest come first in the scan; and the summary counts the rows whose colour
\* is not that of health, all of which, but for an unknown state, ask for action.
TablesTrue ==
  /\ Each(resourceRows, {r \in managedAssets : r.uid \in search})
  /\ \A u \in DOMAIN metrics : [uid |-> u, is |-> metrics[u]] \in managedAssets
  /\ \A p \in Pairs(resourceRows) :
       LET x == resourceRows[p[1]] y == resourceRows[p[2]] IN
       key = "value" => \/ y.is.value = Missing /\ (x.is.value = Missing => x.uid < y.uid)
                        \/ x.is.value # Missing /\ (direction = "asc" => x.is.value <= y.is.value)
                           /\ (direction = "desc" => x.is.value >= y.is.value)
  /\ \A p \in Pairs(scanAssets) :
       LET x == scanAssets[p[1]].is y == scanAssets[p[2]].is IN
       /\ y.health = "critical" => x.health = "critical"
       /\ x.health = y.health /\ x.stale = y.stale => Seen(x) >= Seen(y)
  /\ attention = Count(LAMBDA a : tone(a) # "healthy") /\ stale <= reporting
  /\ \A r \in managedAssets : actionable(r.is) \/ tone(r.is) \in {"healthy", "unknown"}
  /\ sumPresentMetrics = Missing <=> valued = {}
===============================================================================
