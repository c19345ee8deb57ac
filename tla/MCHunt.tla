-------------------------------- MODULE MCHunt --------------------------------
(* The hunt console for TLC, with the parts that are pure computation over    *)
(* trees beside it: the filter conditions, the prepared search and the        *)
(* process relations.                                                         *)
EXTENDS HuntConsole

CONSTANTS bo, c1, c2

VARIABLES
  filter, warned, executed, edits,
  search, asset, asked, result, touched, saved, storing, changes,
  rows, graph, selection, mode, limit, reading

treeVars     == <<filter, warned, executed, edits>>
searchVars   == <<search, asset, asked, result, touched, saved, storing, changes>>
relationVars == <<rows, graph, selection, mode, limit, reading>>
huntVars     == <<consoleVars, treeVars, searchVars, relationVars>>

MCJobs == {1, 2}

\* One case of a colleague, often enough for a review; two cases, one unsaved.
MCReviewed == [cases |-> {c1}, owner |-> [c \in {c1} |-> bo], unlisted |-> {c1}, unborn |-> {},
               teams |-> {<<Me, bo>>, <<bo, Me>>}, asks |-> 1]
MCDrafted  == [cases |-> {c1, c2}, owner |-> [c \in {c1, c2} |-> Me], unlisted |-> {},
               unborn |-> {c2}, teams |-> {}, asks |-> 2]
MCRequester == [e \in Exceptions |-> IF e = "x" THEN Me ELSE "other"]

Filters == INSTANCE HuntFilters WITH
  Numbers <- {"bytes"}, Texts <- {"actor"}, NumberValues <- {"1"}, TextValues <- {"a"},
  MaxNodes <- 4, MaxDepth <- 2, MaxKids <- 2, MaxEdits <- 3

Searches == INSTANCE HuntDraft WITH
  draft <- search, executed <- result, saving <- storing, edits <- changes,
  Instants <- {4, 9}, Bars <- 2, Conditions <- {"c"}, Scope <- {}, Texts <- {"w"},
  Dimensions <- {"d"}, MaxEdits <- 2, MaxSaved <- 1
Relations == INSTANCE HuntRelations WITH
  pending <- reading,
  Processes <- {"p", "q", "s"}, Times <- {1, 2}, NodeLimit <- 3, Step <- 2, MaxRows <- 2
-------------------------------------------------------------------------------
MCInit == ConsoleInit /\ Filters!Init /\ Searches!Init /\ Relations!Init

MCNext ==
  \/ ConsoleNext /\ UNCHANGED <<treeVars, searchVars, relationVars>>
  \/ part = "filters" /\ Filters!Next /\ UNCHANGED <<consoleVars, searchVars, relationVars>>
  \/ part = "searches" /\ Searches!Next /\ UNCHANGED <<consoleVars, treeVars, relationVars>>
  \/ part = "relations" /\ Relations!Next /\ UNCHANGED <<consoleVars, treeVars, searchVars>>

MCSpec == MCInit /\ [][MCNext]_huntVars
MCLiveSpec == MCSpec /\ Fairness /\ (part = "rules" => Rules!RuleFairness)
-------------------------------------------------------------------------------
\* Conditions, the chart's bars, aggregation rows and process trees say what the
\* events say, and results are not passed off as those of other conditions.
WhatIsShownIsMeant ==
  /\ part = "filters" => Filters!FiltersMean
  /\ part = "searches" => Searches!DraftTrue
  /\ part = "relations" => Relations!RelationsTrue
===============================================================================
