----------------------------- MODULE HuntRelations -----------------------------
(* Process trees and connections of a hunt result: what the server makes of   *)
(* the events of one observed host (HuntRelations.java), and the panel that   *)
(* lists the nodes, each process under its parent (HuntRelationsPanel.tsx).   *)
EXTENDS Naturals, FiniteSets, FiniteSetsExt, SequencesExt

CONSTANTS
  Processes,
  Times,
  NodeLimit,   \* 1,000 in the code; the 2,000 edges of the code are not reached
  Step,        \* nodes listed at a time (50 in the code)
  MaxRows      \* bound on the events, which all come before the first query

VARIABLES
  rows,        \* the events the query found
  graph,       \* the result in the panel, or NoGraph
  selection, mode, limit,
  pending      \* the evidence of a node or a relation is being read
relationVars == <<rows, graph, selection, mode, limit, pending>>

None    == "none"
Nothing == [kind |-> "NONE", p |-> None, at |-> 0]
NoGraph == [nodes |-> <<>>, edges |-> {}, complete |-> FALSE]

\* An event of process p, which may name its parent and when that one started.
Rows ==
  [type : {"start", "exit", "network"}, p : Processes, parent : {None}, at : Times, since : {0}]
    \cup
  [type : {"start"}, p : Processes, parent : Processes, at : Times, since : {0} \cup Times]
-------------------------------------------------------------------------------
(* build.                                                                    *)
Of(x)       == {r \in rows : r.p = x}
parents(x)  == {r.parent : r \in Of(x)} \ {None}
starts(x)   == {r.at : r \in {q \in Of(x) : q.type = "start"}}
               \cup ({r.since : r \in {q \in rows : q.parent = x}} \ {0})
Exits(x)    == {r.at : r \in {q \in Of(x) : q.type = "exit"}}
Firsts(x)   == {r.at : r \in Of(x)}

\* Two starts, or anything before the start: no identity to rely on.
ambiguous(x) ==
  \/ Cardinality(starts(x)) > 1
  \/ \E s \in starts(x) : \E t \in Exits(x) \cup Firsts(x) : t < s
alive(x, t) ==
  /\ ~ambiguous(x)
  /\ \A s \in starts(x) : s <= t
  /\ \A e \in Exits(x) : t < e

\* parentCycle: up the chain as long as there is exactly one parent.
RECURSIVE Chain(_, _)
Chain(x, seen) ==
  IF x \in seen THEN TRUE
  ELSE Cardinality(parents(x)) = 1 /\ Chain(CHOOSE q \in parents(x) : TRUE, seen \cup {x})
parentCycle(x) == Chain(x, {})

\* Every reference is known before the first edge is accepted.
birth(r) == IF starts(r.p) = {} THEN r.at ELSE Min(starts(r.p))
Accepted(r) ==
  /\ r.parent # None /\ ~parentCycle(r.p)
  /\ Cardinality(parents(r.p)) = 1 /\ ~ambiguous(r.p) /\ alive(r.parent, birth(r))

\* Nodes in the order in which they are met: processes with events, processes
\* only named as parents, connections.
Sorted  == SetToSortSeq(rows, LAMBDA r, s : r.at < s.at)
Seen(seq, x) == IF \E i \in DOMAIN seq : seq[i] = x THEN seq ELSE Append(seq, x)
Proc(x) == [kind |-> "PROCESS", p |-> x, at |-> 0]
Flow(r) == [kind |-> "CONNECTION", p |-> r.p, at |-> r.at]
Nodes ==
  LET observed == FoldLeft(LAMBDA seq, r : Seen(seq, Proc(r.p)), <<>>, Sorted)
      named    == FoldLeft(LAMBDA seq, r : IF r.parent = None THEN seq ELSE Seen(seq, Proc(r.parent)),
                           observed, Sorted)
  IN FoldLeft(LAMBDA seq, r : IF r.type = "network" THEN Append(seq, Flow(r)) ELSE seq, named, Sorted)
Edges == {[from |-> Proc(r.parent), to |-> Proc(r.p), kind |-> "PARENT_OF"] : r \in {q \in rows : Accepted(q)}}
         \cup {[from |-> Proc(r.p), to |-> Flow(r), kind |-> "PROCESS_NETWORK"] :
                 r \in {q \in rows : q.type = "network" /\ alive(q.p, q.at)}}
Issues == \/ \E r \in rows : r.parent # None /\ ~Accepted(r)
          \/ \E r \in rows : r.type = "network" /\ ~alive(r.p, r.at)
          \/ \E x \in Processes : ambiguous(x)
          \/ \E r \in rows : r.parent # None /\ Of(r.parent) = {}

Upto(seq, n) == SubSeq(seq, 1, Min({n, Len(seq)}))
build ==
  LET selected == Upto(Nodes, NodeLimit)
      kept     == {e \in Edges : {e.from, e.to} \subseteq ToSet(selected)}
  IN [nodes |-> selected, edges |-> kept,
      complete |-> Len(Nodes) <= NodeLimit /\ kept = Edges /\ ~Issues]
-------------------------------------------------------------------------------
(* The panel.                                                                *)
\* orderNodes: roots first, children below them; whatever is left at the end.
RECURSIVE Visit(_, _, _, _)
Visit(g, done, x, depth) ==
  IF x \notin ToSet(g.nodes) \/ \E i \in DOMAIN done : done[i].node = x THEN done
  ELSE LET below == SelectSeq(g.nodes, LAMBDA y : [from |-> x, to |-> y, kind |-> "PARENT_OF"] \in g.edges)
       IN FoldLeft(LAMBDA acc, y : Visit(g, acc, y, depth + 1),
                   Append(done, [node |-> x, depth |-> depth]), below)
Root(g, x) == x.kind = "PROCESS" /\ \A e \in g.edges : e.kind = "PARENT_OF" => e.to # x
orderNodes(g) ==
  LET top == FoldLeft(LAMBDA acc, x : IF Root(g, x) THEN Visit(g, acc, x, 0) ELSE acc, <<>>, g.nodes)
  IN FoldLeft(LAMBDA acc, x : Visit(g, acc, x, 0), top, g.nodes)

filtered   == SelectSeq(orderNodes(graph), LAMBDA o : mode \in {"ALL", o.node.kind})
listed     == Upto(filtered, limit)
selectedId == IF selection \in ToSet(graph.nodes) THEN selection
              ELSE IF graph.nodes = <<>> THEN Nothing ELSE graph.nodes[1]
related    == {e \in graph.edges : selectedId \in {e.from, e.to}}

Init == rows = {} /\ graph = NoGraph /\ selection = Nothing /\ mode = "ALL" /\ limit = Step /\ pending = FALSE

Happen == /\ Cardinality(rows) < MaxRows /\ graph = NoGraph /\ \E r \in Rows \ rows : rows' = rows \cup {r}
          /\ UNCHANGED <<graph, selection, mode, limit, pending>>
\* A new result mounts the panel afresh.
Run == /\ ~pending /\ graph' = build
       /\ selection' = (IF Nodes = <<>> THEN Nothing ELSE Nodes[1])
       /\ mode' = "ALL" /\ limit' = Step /\ UNCHANGED <<rows, pending>>
\* A node of the list or of the diagram; the other end of a relation.
Select == /\ \E n \in {listed[i].node : i \in DOMAIN listed} \cup UNION {{e.from, e.to} : e \in related} :
               selection' = n
          /\ UNCHANGED <<rows, graph, mode, limit, pending>>
SetMode == /\ mode' \in {"ALL", "PROCESS", "CONNECTION"} /\ limit' = Step
           /\ UNCHANGED <<rows, graph, selection, pending>>
More == /\ Len(filtered) > limit /\ limit' = limit + Step
        /\ UNCHANGED <<rows, graph, selection, mode, pending>>
\* evidence: the buttons are disabled while one is read.
Evidence == /\ selectedId # Nothing /\ pending' = ~pending
            /\ UNCHANGED <<rows, graph, selection, mode, limit>>
Next == Happen \/ Run \/ Select \/ SetMode \/ More \/ Evidence
Spec == Init /\ [][Next]_relationVars
-------------------------------------------------------------------------------
\* No process is put under a parent that the events do not agree on: at most one
\* parent each, never in a circle, alive when the child was born; and what is cut
\* off or left open is said to be incomplete.
TreesAreEvident ==
  LET g == build
      up == {e \in g.edges : e.kind = "PARENT_OF"} IN
  /\ \A e, f \in up : e.to = f.to => e = f
  /\ \A e \in up : \A r \in Of(e.to.p) : r.parent \in {None, e.from.p}
  /\ \A e \in up : \A r \in Of(e.from.p) : r.type = "exit" => \A s \in starts(e.to.p) : s < r.at
  /\ g.complete => \A r \in rows : r.parent # None => \E e \in up : e.from = Proc(r.parent) /\ e.to = Proc(r.p)

\* The list names every node once, each child below its parent and one step in;
\* the diagram's relations only join nodes it has.
OutlineWhole ==
  LET o == orderNodes(graph) IN
  /\ Len(o) = Len(graph.nodes) /\ {o[i].node : i \in DOMAIN o} = ToSet(graph.nodes)
  /\ \A e \in graph.edges :
       /\ {e.from, e.to} \subseteq ToSet(graph.nodes)
       /\ e.kind = "PARENT_OF" => \E i, j \in DOMAIN o :
            i < j /\ o[i].node = e.from /\ o[j] = [node |-> e.to, depth |-> o[i].depth + 1]

RelationsTrue == TreesAreEvident /\ OutlineWhole
===============================================================================
