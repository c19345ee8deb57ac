---------------------------- MODULE TrafficFigures ----------------------------
(* What the traffic view computes from the interfaces it has read             *)
(* (TrafficView.tsx): a row per asset, the rows under a filter, those above   *)
(* the display threshold, and the totals over them; and how the command       *)
(* centre merges them with the dashboard's own (OverviewView.tsx).            *)
EXTENDS Integers, Sequences, FiniteSets, FiniteSetsExt, SequencesExt

CONSTANTS
  Interfaces,  \* sequence of [asset, name], as the store lists them
  Flows,       \* what may be measured of one: [in, out, util, noise, status]
  Thresholds,  \* of the display; 0 turns it off
  Shown,       \* how many rows the panel of exceeding interfaces has room for
  MaxReads     \* bound: readings

VARIABLES flow, top, threshold, asset, matches, reads
trafficVars == <<flow, top, threshold, asset, matches, reads>>

Assets == {Interfaces[i].asset : i \in DOMAIN Interfaces}
Of(a)  == SelectSeq([i \in DOMAIN Interfaces |-> i], LAMBDA i : Interfaces[i].asset = a)
totalTraffic(i)  == flow[i].in + flow[i].out
exceedsTraffic(i) == (threshold > 0 /\ totalTraffic(i) >= threshold) \/ flow[i].util >= 80

\* mergeStatus: down wins, then the last state that says up.
mergeStatus(current, next) ==
  IF next \in {"down", "failed"} \/ current = "down" THEN "down"
  ELSE IF next \in {"up", "active", "healthy"} THEN "up"
  ELSE IF current = "unknown" THEN next ELSE current
statusClass(i) ==
  IF flow[i].status \in {"up", "active", "healthy"} THEN (IF flow[i].noise > 0 THEN "pending" ELSE "active")
  ELSE IF flow[i].status \in {"down", "failed"} THEN "blocked" ELSE "unknown"

\* buildAssetSummaries: the interfaces in their order.
NoSummary == [interfaceCount |-> 0, total |-> 0, peak |-> 0, noise |-> 0, exceedCount |-> 0, busiest |-> 0, status |-> "unknown"]
Add(s, i) ==
  [interfaceCount |-> s.interfaceCount + 1, total |-> s.total + totalTraffic(i),
   peak |-> IF flow[i].util > s.peak THEN flow[i].util ELSE s.peak, noise |-> s.noise + flow[i].noise,
   exceedCount |-> s.exceedCount + IF exceedsTraffic(i) THEN 1 ELSE 0,
   busiest |-> IF s.busiest = 0 THEN i ELSE IF totalTraffic(i) > totalTraffic(s.busiest) THEN i ELSE s.busiest,
   status |-> mergeStatus(s.status, flow[i].status)]
assetSummary == [a \in Assets |-> FoldLeft(Add, NoSummary, Of(a))]

\* filterRows and the rows above the threshold, the largest first; filterAssetSummaries
\* looks at the asset and at its busiest interface only.
visibleRows == SetToSortSeq({i \in DOMAIN Interfaces : asset \in {"ALL", Interfaces[i].asset} /\ i \in matches},
                            LAMBDA i, j : totalTraffic(i) > totalTraffic(j))
exceeding  == SelectSeq(visibleRows, exceedsTraffic)
exceedRows == SubSeq(exceeding, 1, IF Len(exceeding) < Shown THEN Len(exceeding) ELSE Shown)
visibleAssets == {a \in Assets : asset \in {"ALL", a} /\ assetSummary[a].busiest \in matches}
total       == FoldLeft(LAMBDA n, i : n + totalTraffic(i), 0, visibleRows)
exceedCount == Len(exceeding)

\* mergeTrafficRows: the larger figure of the two, and the later status.
Larger(x, y) == IF x > y THEN x ELSE y
mergeTrafficRows ==
  [i \in DOMAIN Interfaces |->
     IF i \notin DOMAIN top THEN flow[i]
     ELSE [in |-> Larger(flow[i].in, top[i].in), out |-> Larger(flow[i].out, top[i].out),
           util |-> Larger(flow[i].util, top[i].util), noise |-> Larger(flow[i].noise, top[i].noise),
           status |-> IF top[i].status # "" THEN top[i].status ELSE flow[i].status]]
-------------------------------------------------------------------------------
Init ==
  /\ flow \in [DOMAIN Interfaces -> Flows]
  /\ top \in UNION {[T -> Flows] : T \in {{}, {1}}}
  /\ threshold \in Thresholds /\ asset = "ALL" /\ matches = DOMAIN Interfaces /\ reads = 0
setThreshold(t) == threshold' = t /\ UNCHANGED <<flow, top, asset, matches, reads>>
setSelectedAsset(a) == asset' = a /\ UNCHANGED <<flow, top, threshold, matches, reads>>
\* A text matches interfaces by their own name or by their asset's.
setQuery ==
  /\ \E a \in SUBSET Assets, N \in SUBSET DOMAIN Interfaces :
       matches' = N \cup {i \in DOMAIN Interfaces : Interfaces[i].asset \in a}
  /\ UNCHANGED <<flow, top, threshold, asset, reads>>
Load ==
  /\ reads < MaxReads /\ reads' = reads + 1
  /\ \E i \in DOMAIN Interfaces, f \in Flows : flow' = [flow EXCEPT ![i] = f]
  /\ UNCHANGED <<top, threshold, asset, matches>>
Next ==
  \/ (\E t \in Thresholds : setThreshold(t)) \/ (\E a \in {"ALL"} \cup Assets : setSelectedAsset(a))
  \/ setQuery \/ Load
Spec == Init /\ [][Next]_trafficVars

\* The rows of the assets and the rows of the interfaces tell the same: without a text
\* the assets' totals and counts add up to those above them, an asset is down exactly
\* when one of its interfaces is, its busiest interface carries no less than another,
\* and the panel leaves out a row above the threshold only for a larger one.
FiguresAgree ==
  /\ matches = DOMAIN Interfaces =>
       /\ total = MapThenSumSet(LAMBDA a : assetSummary[a].total, visibleAssets)
       /\ exceedCount = MapThenSumSet(LAMBDA a : assetSummary[a].exceedCount, visibleAssets)
       /\ Len(visibleRows) = MapThenSumSet(LAMBDA a : assetSummary[a].interfaceCount, visibleAssets)
  /\ \A a \in Assets : \A i \in ToSet(Of(a)) :
       /\ totalTraffic(assetSummary[a].busiest) >= totalTraffic(i)
       /\ statusClass(i) = "blocked" => assetSummary[a].status = "down"
  /\ \A a \in Assets : assetSummary[a].status = "down" => \E i \in ToSet(Of(a)) : statusClass(i) = "blocked"
  /\ \A i \in ToSet(exceeding) \ ToSet(exceedRows) : \A j \in ToSet(exceedRows) : totalTraffic(j) >= totalTraffic(i)
  /\ \A i \in DOMAIN Interfaces : mergeTrafficRows[i].in + mergeTrafficRows[i].out >= totalTraffic(i)
===============================================================================
