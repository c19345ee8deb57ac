------------------------------ MODULE HuntFilters ------------------------------
(* Compound conditions of a hunt query: the tree an analyst edits             *)
(* (HuntFilterEditor.tsx, huntFilters.ts), the conditions an aggregation row  *)
(* adds to it (HuntAggregationPanel.tsx), and what the server's SQL makes of  *)
(* the tree (HuntSql.java), where a missing number is NULL and a missing text *)
(* is empty.                                                                  *)
EXTENDS Naturals, FiniteSets, SequencesExt

CONSTANTS
  Numbers, Texts,        \* the fields of each type
  NumberValues, TextValues,
  MaxNodes, MaxDepth, MaxKids,   \* 100, 8 and 30 in the code
  MaxEdits               \* bound on the edits of a behaviour

VARIABLES
  filter,    \* the tree, or NoFilter
  warned,    \* the editor shows that an edit was refused for its size
  executed,  \* the tree of the query on screen, or NoFilter
  edits
filterVars == <<filter, warned, executed, edits>>

Null     == "null"
Fields   == Numbers \cup Texts
Values(f) == IF f \in Numbers THEN NumberValues ELSE TextValues
Groups   == {"and", "or", "not"}
NoFilter == [op |-> "none", field |-> "", values |-> {}, kids |-> <<>>]
Leaf(op, f, vs) == [op |-> op, field |-> f, values |-> vs, kids |-> <<>>]
Group(op, kids) == [op |-> op, field |-> "", values |-> {}, kids |-> kids]
IsGroup(n) == n.op \in Groups

\* Every combination of values, a missing one included.
Missing(f) == IF f \in Numbers THEN Null ELSE ""
Events == [Fields -> {Null, ""} \cup NumberValues \cup TextValues]
AllEvents == {e \in Events : \A f \in Fields : e[f] \in Values(f) \cup {Missing(f)}}
-------------------------------------------------------------------------------
(* huntFilters.ts.                                                           *)
operators(f) == {"eq", "neq", "in", "not_in", "exists"} \cup
                (IF f \in Numbers THEN {"gt", "gte", "lt", "lte"} ELSE {"contains", "prefix"})

RECURSIVE Nodes(_), Depth(_)
Nodes(n) == IF n = NoFilter THEN 0
            ELSE 1 + FoldLeft(LAMBDA sum, kid : sum + Nodes(kid), 0, n.kids)
Depth(n) == FoldLeft(LAMBDA deep, kid : Max({deep, 1 + Depth(kid)}), 0, n.kids)
Fits(n)  == Nodes(n) <= MaxNodes /\ Depth(n) <= MaxDepth

appendFilter(root, leaf) ==
  IF root.op = "and" THEN [root EXCEPT !.kids = Append(@, leaf)]
  ELSE Group("and", IF root = NoFilter THEN <<leaf>> ELSE <<root, leaf>>)

\* A removed branch takes the groups it leaves empty with it.
RECURSIVE replaceFilter(_, _, _)
replaceFilter(root, path, next) ==
  IF path = <<>> THEN next
  ELSE LET new  == replaceFilter(root.kids[Head(path)], Tail(path), next)
           kids == IF new = NoFilter THEN RemoveAt(root.kids, Head(path))
                   ELSE [root.kids EXCEPT ![Head(path)] = new]
       IN IF kids = <<>> THEN NoFilter ELSE [root EXCEPT !.kids = kids]

\* validateFilter; the server refuses the same trees.
RECURSIVE Accepted(_)
Accepted(n) ==
  IF IsGroup(n)
    THEN /\ n.kids # <<>> /\ Len(n.kids) <= MaxKids /\ (n.op = "not" => Len(n.kids) = 1)
         /\ \A i \in DOMAIN n.kids : Accepted(n.kids[i])
    ELSE /\ n.op \in operators(n.field)
         /\ n.op # "exists" => n.values # {} /\ n.values \subseteq Values(n.field)
         /\ n.op \notin {"exists", "in", "not_in"} => Cardinality(n.values) = 1
validateFilter(n) == n = NoFilter \/ (Fits(n) /\ Accepted(n))

\* querySignature: the leaf's values count only where the operator has any.
RECURSIVE Canonical(_)
Canonical(n) == IF IsGroup(n) THEN [n EXCEPT !.kids = [i \in DOMAIN @ |-> Canonical(@[i])]]
                ELSE IF n.op = "exists" THEN [n EXCEPT !.values = {}] ELSE n
Draft == Canonical(filter) # Canonical(executed)

\* Variant: the equality without the guard for a missing value.
groupUnguarded(dims, exclude) ==
  LET term(f) == IF dims[f] \in {Null, ""} THEN Group("not", <<Leaf("exists", f, {})>>)
                 ELSE Leaf("eq", f, {dims[f]})
      tuple   == LET fs == SetToSeq(DOMAIN dims) IN Group("and", [i \in DOMAIN fs |-> term(fs[i])])
  IN IF exclude THEN Group("not", <<tuple>>) ELSE tuple

\* groupFilter: the tuple of an aggregation row, or everything but that tuple.
groupFilter(dims, exclude) ==
  LET term(f) == IF dims[f] \in {Null, ""} THEN Group("not", <<Leaf("exists", f, {})>>)
                 ELSE Group("and", <<Leaf("exists", f, {}), Leaf("eq", f, {dims[f]})>>)
      tuple   == LET fs == SetToSeq(DOMAIN dims) IN Group("and", [i \in DOMAIN fs |-> term(fs[i])])
  IN IF exclude THEN Group("not", <<tuple>>) ELSE tuple
-------------------------------------------------------------------------------
(* HuntSql.predicate, in the three truth values of SQL.                      *)
Compare(n, v) ==
  CASE n.op \in {"eq", "in"}      -> v \in n.values
    [] n.op \in {"neq", "not_in"} -> v \notin n.values
    [] OTHER                      -> TRUE
RECURSIVE Truth(_, _)
Truth(n, e) ==
  IF n = NoFilter THEN "true"
  ELSE IF IsGroup(n)
    THEN LET parts == {Truth(n.kids[i], e) : i \in DOMAIN n.kids} IN
         CASE n.op = "and" -> IF "false" \in parts THEN "false"
                              ELSE IF Null \in parts THEN Null ELSE "true"
           [] n.op = "or"  -> IF "true" \in parts THEN "true"
                              ELSE IF Null \in parts THEN Null ELSE "false"
           [] n.op = "not" -> IF "true" \in parts THEN "false"
                              ELSE IF "false" \in parts THEN "true" ELSE Null
  ELSE IF n.op = "exists" THEN IF e[n.field] = Missing(n.field) THEN "false" ELSE "true"
  ELSE IF e[n.field] = Null THEN Null
  ELSE IF Compare(n, e[n.field]) THEN "true" ELSE "false"
Matches(n) == {e \in AllEvents : Truth(n, e) = "true"}
-------------------------------------------------------------------------------
(* The editor.                                                               *)
Init == filter = NoFilter /\ warned = FALSE /\ executed = NoFilter /\ edits = 0

RECURSIVE Paths(_)
Paths(n) == {<<>>} \cup UNION {{<<i>> \o p : p \in Paths(n.kids[i])} : i \in DOMAIN n.kids}
RECURSIVE At(_, _)
At(n, path) == IF path = <<>> THEN n ELSE At(n.kids[Head(path)], Tail(path))

\* commit: a tree that is too large is refused with a warning.
Commit(next) ==
  /\ edits < MaxEdits /\ edits' = edits + 1
  /\ filter' = IF Fits(next) THEN next ELSE filter
  /\ warned' = ~Fits(next)
  /\ UNCHANGED executed
Update(path, next) == Commit(replaceFilter(filter, path, next))

NewLeaf == Leaf("eq", CHOOSE f \in Fields : TRUE, {})
AddTop  == Commit(appendFilter(filter, NewLeaf))
ClearAll == filter # NoFilter /\ Commit(NoFilter)

Negate(path, n) ==
  Update(path, IF n.op = "not" THEN n.kids[1] ELSE Group("not", <<n>>))
Delete(path) == Update(path, NoFilter)
Combine(path, n, op) ==
  n.op \in {"and", "or"} /\ n.op # op /\ Update(path, [n EXCEPT !.op = op])
AddChild(path, n, child) ==
  n.op \in {"and", "or"} /\ Len(n.kids) < MaxKids /\ Update(path, [n EXCEPT !.kids = Append(@, child)])
SetField(path, n, f) ==
  ~IsGroup(n) /\ Update(path, [n EXCEPT !.field = f, !.op = IF @ \in operators(f) THEN @ ELSE "eq"])
SetOperator(path, n, op) ==
  ~IsGroup(n) /\ Update(path, [n EXCEPT !.op = op, !.values = IF op = "exists" THEN {} ELSE @])
SetValues(path, n, vs) == ~IsGroup(n) /\ n.op # "exists" /\ Update(path, [n EXCEPT !.values = vs])

Edit ==
  \/ AddTop \/ ClearAll
  \/ /\ filter # NoFilter
     /\ \E path \in Paths(filter) :
          LET n == At(filter, path) IN
          \/ Negate(path, n) \/ Delete(path) \/ Combine(path, n, "or") \/ Combine(path, n, "and")
          \/ AddChild(path, n, NewLeaf) \/ AddChild(path, n, Group("or", <<NewLeaf>>))
          \/ \E f \in Fields : SetField(path, n, f)
          \/ \E op \in {"neq", "not_in", "exists"} : SetOperator(path, n, op)
          \/ \E v \in NumberValues \cup TextValues : SetValues(path, n, {v})

\* The condition bar above the editor, and an aggregation row: appended as they
\* are, without a look at the size.
Extend(leaf) == /\ edits < MaxEdits /\ edits' = edits + 1
                /\ filter' = appendFilter(filter, leaf)
                /\ warned' = FALSE /\ UNCHANGED executed
addFilter(op, f, v) == (op # "exists" => v # "") /\ Extend(Leaf(op, f, IF op = "exists" THEN {} ELSE {v}))

\* A row of the aggregation: the values some event has in the fields grouped by.
RowsOf(fs) == {[f \in fs |-> e[f]] : e \in AllEvents}
FromRow(dims, exclude) == Extend(groupFilter(dims, exclude))

\* A query runs with the tree, if it is accepted; a saved one replaces it.
Execute == validateFilter(filter) /\ executed' = filter /\ UNCHANGED <<filter, warned, edits>>
Restore == /\ Draft /\ filter' = executed /\ warned' = FALSE /\ UNCHANGED <<executed, edits>>

Next ==
  \/ Edit \/ Execute \/ Restore
  \/ \E f \in Fields, op \in {"eq", "exists"} : \E v \in Values(f) : addFilter(op, f, v)
  \/ \E fs \in SUBSET Fields \ {{}} : \E dims \in RowsOf(fs), exclude \in BOOLEAN :
       FromRow(dims, exclude)
Spec == Init /\ [][Next]_filterVars
-------------------------------------------------------------------------------
InRow(e, dims) == \A f \in DOMAIN dims : e[f] = dims[f]

\* The tuple of a row and its exclusion divide the events between them: a row of
\* missing values is not lost when another tuple is excluded.
RowsDivide ==
  \A fs \in SUBSET Fields \ {{}} : \A dims \in RowsOf(fs) :
    /\ Matches(groupFilter(dims, FALSE)) = {e \in AllEvents : InRow(e, dims)}
    /\ Matches(groupFilter(dims, TRUE))  = {e \in AllEvents : ~InRow(e, dims)}

\* Appending narrows what the tree matched and nothing else, whatever its root
\* is; no edit leaves an empty group or a NOT of several parts behind.
RECURSIVE Whole(_)
Whole(n) == IsGroup(n) => /\ n.kids # <<>> /\ (n.op = "not" => Len(n.kids) = 1)
                          /\ \A i \in DOMAIN n.kids : Whole(n.kids[i])
TreeKeepsMeaning ==
  /\ filter = NoFilter \/ Whole(filter)
  /\ LET leaf == Leaf("exists", CHOOSE f \in Fields : TRUE, {}) IN
     Matches(appendFilter(filter, leaf)) = Matches(filter) \cap Matches(leaf)

\* What conditions mean survives the editor, the aggregation table and the SQL.
FiltersMean == RowsDivide /\ TreeKeepsMeaning
===============================================================================
