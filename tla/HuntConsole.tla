------------------------------ MODULE HuntConsole ------------------------------
(* The hunt console of the manager: the queries with the workbench over them, *)
(* investigations with their editor and review, repeated rules with the tab   *)
(* of their administrators, and the approved exceptions.  The parts keep no   *)
(* variable in common, so that their product says no more than their sum: a   *)
(* behaviour takes one of them and leaves the others as they start.  A part   *)
(* that is too large for one set of bounds is taken twice, with different     *)
(* ones.                                                                      *)
EXTENDS HuntQueries, Sequences

CONSTANTS
  Parts,        \* the parts of the console a behaviour may take
  Analysts, Nobody,
  MaxVersion,   \* bound on the versions of a case
  Reviewed,     \* the cases of the part "reviews": a record of the editor's constants
  Drafted,      \* those of the part "drafts"
  Needed,       \* complete runs a rule needs before activation (10 in the code)
  MaxQueries, MaxChanges, MaxResumed,  \* bounds of the part "rules"
  Entries, Indicators,  \* the lookups and indicators, and which are indicators
  MaxEntry,     \* bound on the versions of an entry
  Exceptions, Requester,
  MaxReadings   \* bound on the readings and decisions asked for in the panel

VARIABLES
  part,
  case, review, approved, textAt, tab, list, sel, edit, draft, lock, panel, loaded, working,
  proof, saving, caseNet, asks,
  rule, since, run, query, tick, late, catalogue, alerted, resumed,
  rules, runtime, busy, request, loads, entry, listed, form,
  exception, items, listing, opening, chosen, usage, reviewed, reason, deciding, occupied,
  requestForm, readings

caseVars    == <<case, review, approved, textAt, tab, list, sel, edit, draft, lock, panel, loaded,
                 working, proof, saving, caseNet, asks>>
ruleVars    == <<rule, since, run, query, tick, late, catalogue, alerted, resumed>>
tableVars   == <<rules, runtime, busy, request, loads, entry, listed, form>>
panelVars   == <<exception, items, listing, opening, chosen, usage, reviewed, reason, deciding,
                 occupied, requestForm, readings>>
consoleVars == <<part, allVars, caseVars, ruleVars, tableVars, panelVars>>

Reviews == INSTANCE HuntCaseProofs WITH
  pending <- saving, net <- caseNet, Cases <- Reviewed.cases, Owner <- Reviewed.owner,
  Unlisted <- Reviewed.unlisted, Unborn <- Reviewed.unborn, Teams <- Reviewed.teams,
  MaxAsks <- Reviewed.asks
Drafts == INSTANCE HuntCaseProofs WITH
  pending <- saving, net <- caseNet, Cases <- Drafted.cases, Owner <- Drafted.owner,
  Unlisted <- Drafted.unlisted, Unborn <- Drafted.unborn, Teams <- Drafted.teams,
  MaxAsks <- Drafted.asks

Rules == INSTANCE HuntRules WITH restarts <- resumed, MaxRestarts <- MaxResumed

Approvals == INSTANCE HuntExceptions WITH
  selected <- chosen, busy <- occupied, form <- requestForm, asks <- readings, MaxAsks <- MaxReadings

ASSUME CasesAssumption == Reviews!EditorAssumption /\ Drafts!EditorAssumption
ASSUME RulesAssumption == Needed \in Nat
-------------------------------------------------------------------------------
\* The queries once without a loss, and once in a single run with a loss.
NothingLost == lost = 0
SingleRun   == runs <= 1 /\ \A m \in net : m.op # "page"

\* The administrator's table with one run of its rule and no restart.
SmallTable ==
  /\ Len(query) <= 1 /\ (tick.at = "claimed" => query = <<>>)
  /\ rule.version <= 4 /\ resumed = 0

Alone(p, rest) == part = p /\ UNCHANGED <<part, rest>>

ConsoleInit ==
  /\ part \in Parts
  /\ Init
  /\ IF part = "reviews" THEN Reviews!Init ELSE Drafts!Init
  /\ Rules!Init /\ Approvals!Init

ConsoleNext ==
  \/ /\ Alone("queries", <<caseVars, ruleVars, tableVars, panelVars>>)
     /\ Next /\ NothingLost'
  \/ /\ Alone("losses", <<caseVars, ruleVars, tableVars, panelVars>>)
     /\ Next /\ SingleRun'
  \/ /\ Alone("reviews", <<allVars, ruleVars, tableVars, panelVars>>)
     /\ Reviews!Next
  \/ /\ Alone("drafts", <<allVars, ruleVars, tableVars, panelVars>>)
     /\ Drafts!Next
  \/ /\ Alone("rules", <<allVars, caseVars, tableVars, panelVars>>)
     /\ Rules!RuleNext
  \/ /\ Alone("operations", <<allVars, caseVars, entry, form, panelVars>>)
     /\ Rules!Next /\ SmallTable'
  \/ /\ Alone("indicators", <<allVars, caseVars, ruleVars, panelVars>>)
     /\ Rules!Next
  \/ /\ Alone("exceptions", <<allVars, caseVars, ruleVars, tableVars>>)
     /\ Approvals!Next

ConsoleSpec == ConsoleInit /\ [][ConsoleNext]_consoleVars
-------------------------------------------------------------------------------
\* What a job ended with is never taken back, neither in the table, where cancel,
\* the finishing thread, recovery and retention race, nor in the view, where answers
\* arrive late.
EndsStay == FinalStays /\ EndShownOnce

\* A draft is based on the very version it would replace, and all that surrounds it
\* on the screen belongs to the same case.
EditorTrue ==
  /\ part = "reviews" => Reviews!BaseIsTrue /\ Reviews!ShowsSelection
  /\ part = "drafts" => Drafts!BaseIsTrue /\ Drafts!ShowsSelection

\* A closed case holds the reviewed text, and its reviewer did not write it.
IndependentReview ==
  /\ part = "reviews" => Reviews!IndependentReview
  /\ part = "drafts" => Drafts!IndependentReview

\* A decision, a transition and a saved indicator start from what was on screen when
\* the button was pressed.
ActsOnWhatWasShown ==
  [][/\ part = "reviews" => Reviews!DecidesWhatWasShown
     /\ part = "drafts" => Drafts!DecidesWhatWasShown
     /\ Rules!StartsFromTheShown]_consoleVars

\* A rule is active only on complete runs of its own observation, and an exception
\* is in force only as another person reviewed it.
ApprovalsEarned == Rules!ActiveEarned /\ Approvals!ApprovedAsReviewed

\* An alert is published only while its rule is active.
AlertsWhileActive == Rules!AlertsWhileActive

\* Every query ends, the view does not stay locked, and no run holds a rule for ever.
Finish == JobsEnd /\ ViewUnlocks /\ (part = "rules" => Rules!RunsEnd)
===============================================================================
