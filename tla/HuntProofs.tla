------------------------------ MODULE HuntProofs ------------------------------
(* What the hunt console of the manager keeps for tables, pools, limits,      *)
(* numbers of analysts and bounds of every size: proofs about HuntConsole and *)
(* its parts, one section for each.                                           *)
EXTENDS HuntConsole, FiniteSetTheorems, TLAPS

-------------------------------------------------------------------------------
(* Proofs.  The records are honest by induction as they stand.  The limits   *)
(* need the sets to be finite: a table begins empty, create adds one row      *)
(* below both limits, take one thread below the pool's size, and every other  *)
(* step can only shrink the active rows and the running threads.              *)

Records == JobTypeOK /\ RunningIsHeld /\ AuditIsOfResults

Bounded ==
  /\ IsFiniteSet(AllActive) /\ Cardinality(AllActive) <= TotalLimit
  /\ \A u \in Users : Cardinality(ActiveOf(u)) <= OwnLimit
  /\ IsFiniteSet(running) /\ Cardinality(running) <= Threads

\* At the start there is nothing to be wrong about.
LEMMA RecordsInit == JobInit => Records
<1>1. "none" \in States /\ "none" \notin {"RUNNING", "COMPLETED"}
  BY DEF States
<1>2. ASSUME JobInit
      PROVE  JobTypeOK
  BY <1>1, <1>2, LimitsAssumption DEF JobInit, JobTypeOK
<1>3. ASSUME JobInit
      PROVE  RunningIsHeld /\ AuditIsOfResults
  BY <1>1, <1>3 DEF JobInit, RunningIsHeld, AuditIsOfResults
<1>. QED  BY <1>2, <1>3 DEF Records

\* Each step leaves the records honest: a row is claimed by the thread that
\* takes it, let go as it ends, and the exceptions are recorded with the result.
LEMMA RecordsNext == Records /\ [JobNext]_jobVars => Records'
<1>. SUFFICES ASSUME Records, [JobNext]_jobVars
              PROVE  Records'
  OBVIOUS
<1>. USE DEF Records, JobTypeOK, RunningIsHeld, AuditIsOfResults, States, Active, Final
<1>1. ASSUME NEW j \in Jobs, NEW u \in Users, Create(j, u)
      PROVE  Records'
  BY <1>1 DEF Create, Fresh
<1>2. ASSUME NEW j \in Jobs, NEW u \in Users, Cancel(j, u)
      PROVE  Records'
  BY <1>2 DEF Cancel
<1>3. CASE Scan
  BY <1>3 DEF Scan, Oldest, Waiting
<1>4. ASSUME NEW j \in Jobs, Take(j)
      PROVE  Records'
  <2>1. CASE Cardinality(running) >= Threads
    BY <1>4, <2>1 DEF Take
  <2>2. CASE ~ (Cardinality(running) >= Threads) /\ row[j] = "QUEUED"
    <3>1. /\ batch' = batch \ {j} /\ running' = running \cup {j}
          /\ row' = [row EXCEPT ![j] = "RUNNING"]
          /\ UNCHANGED <<owner, expired, audited, phase, restarts>>
      BY <1>4, <2>2 DEF Take
    <3>. QED  BY <3>1, <2>2
  <2>3. CASE ~ (Cardinality(running) >= Threads) /\ row[j] # "QUEUED"
    BY <1>4, <2>3 DEF Take
  <2>. QED  BY <2>1, <2>2, <2>3
<1>5. ASSUME NEW j \in Jobs, Complete(j)
      PROVE  Records'
  <2>1. CASE row[j] = "RUNNING"
    BY <1>5, <2>1 DEF Complete
  <2>2. CASE row[j] # "RUNNING"
    BY <1>5, <2>2 DEF Complete
  <2>. QED  BY <2>1, <2>2
<1>6. ASSUME NEW j \in Jobs, Fail(j)
      PROVE  Records'
  BY <1>6 DEF Fail
<1>7. ASSUME NEW j \in Jobs, Age(j)
      PROVE  Records'
  BY <1>7 DEF Age
<1>8. CASE Retire
  BY <1>8 DEF Retire, Stale
<1>9. CASE Stop
  BY <1>9, LimitsAssumption DEF Stop, Up
<1>10. CASE Start
  BY <1>10 DEF Start
<1>11. CASE Recover
  BY <1>11 DEF Recover
<1>12. CASE UNCHANGED jobVars
  BY <1>12 DEF jobVars
<1>. QED
  BY <1>1, <1>2, <1>3, <1>4, <1>5, <1>6, <1>7, <1>8, <1>9, <1>10, <1>11, <1>12
     DEF JobNext, Background

\* The active rows of one user are among the active rows of all.
LEMMA OwnAmongAll == \A u \in Users : ActiveOf(u) \subseteq AllActive
BY DEF ActiveOf, AllActive

LEMMA BoundedInit == JobInit => Bounded
<1>. SUFFICES ASSUME JobInit
              PROVE  Bounded
  OBVIOUS
<1>1. AllActive = {} /\ running = {} /\ \A u \in Users : ActiveOf(u) = {}
  BY DEF JobInit, AllActive, ActiveOf, Active
<1>. QED  BY <1>1, FS_EmptySet, LimitsAssumption DEF Bounded

\* A step after which no more rows are active, each its old owner's, and no more
\* threads run keeps within the limits.
LEMMA ShrinkingIsBounded ==
  ASSUME Bounded, AllActive' \subseteq AllActive, running' \subseteq running,
         owner' = owner
  PROVE  Bounded'
<1>1. IsFiniteSet(AllActive') /\ Cardinality(AllActive') <= Cardinality(AllActive)
  BY FS_Subset DEF Bounded
<1>2. IsFiniteSet(running') /\ Cardinality(running') <= Cardinality(running)
  BY FS_Subset DEF Bounded
<1>3. ASSUME NEW u \in Users
      PROVE  Cardinality(ActiveOf(u)') <= OwnLimit
  <2>1. ActiveOf(u)' \subseteq ActiveOf(u)
    BY DEF ActiveOf, AllActive
  <2>2. IsFiniteSet(ActiveOf(u))
    BY OwnAmongAll, FS_Subset DEF Bounded
  <2>3. /\ Cardinality(ActiveOf(u)') <= Cardinality(ActiveOf(u))
        /\ IsFiniteSet(ActiveOf(u)')
    BY <2>1, <2>2, FS_Subset
  <2>4. Cardinality(ActiveOf(u)) \in Nat /\ Cardinality(ActiveOf(u)') \in Nat
    BY <2>2, <2>3, FS_CardinalityType
  <2>. QED  BY <2>3, <2>4, LimitsAssumption DEF Bounded
<1>4. /\ Cardinality(AllActive) \in Nat /\ Cardinality(AllActive') \in Nat
      /\ Cardinality(running) \in Nat /\ Cardinality(running') \in Nat
  BY <1>1, <1>2, FS_CardinalityType DEF Bounded
<1>5. Cardinality(AllActive') <= TotalLimit /\ Cardinality(running') <= Threads
  BY <1>1, <1>2, <1>4, LimitsAssumption DEF Bounded
<1>. QED  BY <1>1, <1>2, <1>3, <1>5 DEF Bounded

\* create counts before it inserts, both under the service's monitor.
LEMMA CreateIsBounded ==
  ASSUME Records, Bounded, NEW j \in Jobs, NEW u \in Users, Create(j, u)
  PROVE  Bounded'
<1>1. /\ row[j] = "none" /\ row' = [row EXCEPT ![j] = "QUEUED"]
      /\ owner' = [owner EXCEPT ![j] = u] /\ running' = running
      /\ row \in [Jobs -> States] /\ owner \in [Jobs -> Users \cup {NoOwner}]
  BY DEF Create, Fresh, Records, JobTypeOK
<1>2. Cardinality(ActiveOf(u)) < OwnLimit /\ Cardinality(AllActive) < TotalLimit
  BY DEF Create, Room
<1>3. AllActive' = AllActive \cup {j} /\ j \notin AllActive
  BY <1>1 DEF AllActive, Active
<1>4. /\ IsFiniteSet(AllActive') /\ Cardinality(AllActive') = Cardinality(AllActive) + 1
      /\ Cardinality(AllActive) \in Nat
  BY <1>3, FS_AddElement, FS_CardinalityType DEF Bounded
<1>5. ASSUME NEW v \in Users
      PROVE  Cardinality(ActiveOf(v)') <= OwnLimit
  <2>1. IsFiniteSet(ActiveOf(v))
    BY OwnAmongAll, FS_Subset DEF Bounded
  <2>2. CASE v = u
    <3>1. ActiveOf(v)' = ActiveOf(v) \cup {j} /\ j \notin ActiveOf(v)
      BY <1>1, <2>2 DEF ActiveOf, Active
    <3>2. Cardinality(ActiveOf(v)') = Cardinality(ActiveOf(v)) + 1
      BY <2>1, <3>1, FS_AddElement
    <3>3. Cardinality(ActiveOf(v)) \in Nat
      BY <2>1, FS_CardinalityType
    <3>. QED  BY <1>2, <2>2, <3>2, <3>3, LimitsAssumption
  <2>3. CASE v # u
    <3>1. ActiveOf(v)' = ActiveOf(v)
      BY <1>1, <2>3 DEF ActiveOf, Active
    <3>. QED  BY <3>1 DEF Bounded
  <2>. QED  BY <2>2, <2>3
<1>6. Cardinality(AllActive') <= TotalLimit
  BY <1>2, <1>4, LimitsAssumption
<1>. QED  BY <1>1, <1>4, <1>5, <1>6 DEF Bounded

\* take counts the pool before it gives it a row; the row was active before.
LEMMA TakeIsBounded ==
  ASSUME Records, Bounded, NEW j \in Jobs, Take(j)
  PROVE  Bounded'
<1>1. AllActive' = AllActive /\ owner' = owner
  BY DEF Take, Records, JobTypeOK, AllActive, Active
<1>2. CASE running' = running
  BY <1>1, <1>2, ShrinkingIsBounded
<1>3. CASE running' # running
  <2>1. running' = running \cup {j} /\ ~ (Cardinality(running) >= Threads)
    BY <1>3 DEF Take
  <2>2. /\ IsFiniteSet(running') /\ Cardinality(running) \in Nat
        /\ Cardinality(running') \in {Cardinality(running), Cardinality(running) + 1}
    BY <2>1, FS_AddElement, FS_CardinalityType DEF Bounded
  <2>3. Cardinality(running') <= Threads
    BY <2>1, <2>2, LimitsAssumption
  <2>4. \A u \in Users : ActiveOf(u)' = ActiveOf(u)
    BY <1>1 DEF ActiveOf, AllActive
  <2>. QED  BY <1>1, <2>2, <2>3, <2>4 DEF Bounded
<1>. QED  BY <1>2, <1>3

LEMMA BoundedNext == Records /\ Bounded /\ [JobNext]_jobVars => Bounded'
<1>. SUFFICES ASSUME Records, Bounded, [JobNext]_jobVars
              PROVE  Bounded'
  OBVIOUS
<1>1. ASSUME NEW j \in Jobs, NEW u \in Users, Create(j, u)
      PROVE  Bounded'
  BY <1>1, CreateIsBounded
<1>2. ASSUME NEW j \in Jobs, Take(j)
      PROVE  Bounded'
  BY <1>2, TakeIsBounded
<1>3. ASSUME \/ \E j \in Jobs, u \in Users : Cancel(j, u)
             \/ Scan \/ Retire \/ Stop \/ Start \/ Recover \/ UNCHANGED jobVars
             \/ \E j \in Jobs : Complete(j) \/ Fail(j) \/ Age(j)
      PROVE  Bounded'
  <2>. USE DEF Records, JobTypeOK, AllActive, Active, Final
  <2>1. owner' = owner /\ running' \subseteq running
    BY <1>3 DEF Cancel, Scan, Retire, Stop, Start, Recover, Complete, Fail, Age, jobVars
  <2>2. CASE \E j \in Jobs, u \in Users : Cancel(j, u)
    BY <2>1, <2>2, ShrinkingIsBounded DEF Cancel
  <2>3. CASE \E j \in Jobs : Complete(j)
    BY <2>1, <2>3, ShrinkingIsBounded DEF Complete
  <2>4. CASE \E j \in Jobs : Fail(j)
    BY <2>1, <2>4, ShrinkingIsBounded DEF Fail
  <2>5. CASE Retire
    BY <2>1, <2>5, ShrinkingIsBounded DEF Retire, Stale
  <2>6. CASE Recover
    BY <2>1, <2>6, ShrinkingIsBounded DEF Recover
  <2>7. CASE Scan \/ Stop \/ Start \/ UNCHANGED jobVars \/ \E j \in Jobs : Age(j)
    <3>1. row' = row
      BY <2>7 DEF Scan, Stop, Start, Age, jobVars
    <3>. QED  BY <2>1, <3>1, ShrinkingIsBounded
  <2>. QED  BY <1>3, <2>2, <2>3, <2>4, <2>5, <2>6, <2>7
<1>. QED  BY <1>1, <1>2, <1>3 DEF JobNext, Background

\* The inductive part of JobTruth: types, RunningIsHeld and AuditIsOfResults hold
\* through every cancellation, full pool, expiry and restart.
THEOREM RecordsStay == JobSpec => []Records
BY RecordsInit, RecordsNext, PTL DEF JobSpec

\* JobTruth for tables, pools and limits of every size: a row that claims to run
\* has a thread, exceptions are recorded for kept results alone, and neither the
\* two limits of the API nor the pool is ever exceeded.
THEOREM JobsAreTrue == JobSpec => []JobTruth
<1>1. Records /\ Bounded => JobTruth
  BY DEF Records, Bounded, JobTruth, WithinLimits
<1>. QED
  BY <1>1, RecordsInit, RecordsNext, BoundedInit, BoundedNext, PTL DEF JobSpec

\* Whichever step comes first decides how a row ends.
LEMMA EndKept ==
  ASSUME Records, [JobNext]_jobVars, NEW j \in Jobs,
         row[j] \in Final \cup {"deleted"}
  PROVE  row'[j] = row[j] \/ (row'[j] = "deleted" /\ j \in expired)
<1>. USE DEF Records, JobTypeOK, Final, Active
<1>1. row[j] \notin {"none", "QUEUED", "RUNNING"}
  OBVIOUS
<1>2. ASSUME NEW i \in Jobs, NEW u \in Users, Create(i, u) \/ Cancel(i, u)
      PROVE  row'[j] = row[j]
  BY <1>1, <1>2 DEF Create, Fresh, Cancel
<1>3. ASSUME NEW i \in Jobs, Take(i) \/ Complete(i) \/ Fail(i) \/ Age(i)
      PROVE  row'[j] = row[j]
  BY <1>1, <1>3 DEF Take, Complete, Fail, Age
<1>4. CASE Retire
  BY <1>4 DEF Retire, Stale
<1>5. CASE Scan \/ Stop \/ Start \/ Recover \/ UNCHANGED jobVars
  BY <1>1, <1>5 DEF Scan, Stop, Start, Recover, jobVars
<1>. QED  BY <1>2, <1>3, <1>4, <1>5 DEF JobNext, Background

\* FinalStays: whichever of cancel, complete, the failing thread, recover and
\* retention is first decides how a row ends.
THEOREM EndsAreFinal == JobSpec => FinalStays
<1>1. Records /\ [JobNext]_jobVars =>
        [\A j \in Jobs : row[j] \in Final \cup {"deleted"} =>
           row'[j] = row[j] \/ (row'[j] = "deleted" /\ j \in expired)]_jobVars
  BY EndKept
<1>. QED  BY <1>1, RecordsStay, PTL DEF JobSpec, FinalStays

-------------------------------------------------------------------------------
(* The workbench over the jobs.  An answer that shows an end is of a row that *)
(* has ended, and rows do not change their ends; while the job on screen has  *)
(* ended nothing polls, and a job that was just created was never on screen.  *)

Known(j) == j \in Jobs /\ row[j] # "none"
Told     == {"poll", "cancel"}   \* the requests whose answers are shown as a state

MsgTrue(m) ==
  /\ m = [op |-> m.op, job |-> m.job, n |-> m.n, st |-> m.st] /\ m.op \in Ops
  /\ m.op = "create" =>
       /\ m.st \in {"sent", "error", "QUEUED"} /\ (m.job = None \/ Known(m.job))
       /\ m.st = "QUEUED" => Known(m.job)
  /\ m.op # "create" => Known(m.job)
  /\ m.op = "poll" => m.st \in {"sent", "error"} \cup Active \cup Final
  /\ m.op = "cancel" => m.st \in {"sent", "error"} \cup Final
  /\ m.op \in Told /\ m.st \in Final => row[m.job] \in {m.st, "deleted"}

\* No two answers under way tell different ends of a job.
EndsAgree == \A m, k \in net :
  m.op \in Told /\ m.st \in Final /\ k.op \in Told /\ k.st \in Final /\ m.job = k.job => m.st = k.st

\* What answers under way tell of the job on screen is the end it shows.
EndShown == \A m \in net :
  m.op \in Told /\ m.st \in Final /\ m.job = shown.job /\ shown.state \in Final => m.st = shown.state

Screen ==
  /\ shown = [job |-> shown.job, state |-> shown.state]
  /\ shown.state \in {"none"} \cup Active \cup Final
  /\ shown.job # None => Known(shown.job)
  /\ shown.job = None => shown.state = "none"
  /\ shown.state \in Final => row[shown.job] \in {shown.state, "deleted"}
  /\ watch.job # None => watch = shown /\ shown.state \in Active

OnePoll ==
  /\ \A m \in net : m.op = "poll" => watch.job # None /\ m.job = watch.job
  /\ \A m, k \in net : m.op = "poll" /\ k.op = "poll" => m = k

NewIsUnseen == \A m \in net :
  m.op = "create" /\ m.st = "QUEUED" => m.job # shown.job /\ \A k \in net : k.job = m.job => k = m

ViewInv ==
  (\A m \in net : MsgTrue(m)) /\ EndsAgree /\ EndShown /\ Screen /\ OnePoll /\ NewIsUnseen

LEMMA ViewInit == Init => ViewInv
BY DEF Init, ViewInv, EndsAgree, EndShown, Screen, OnePoll, NewIsUnseen, NoWatch, None, Final

\* Rows only go on: one that exists stays known, and its end stays.
RowsGoOn == \A j \in Jobs :
  /\ row[j] # "none" => row'[j] # "none"
  /\ row[j] \in Final \cup {"deleted"} => row'[j] \in {row[j], "deleted"}

LEMMA JobsGoOn ==
  ASSUME Records, [JobNext]_jobVars
  PROVE  RowsGoOn
<1>. SUFFICES ASSUME NEW j \in Jobs
              PROVE  /\ row[j] # "none" => row'[j] # "none"
                     /\ row[j] \in Final \cup {"deleted"} => row'[j] \in {row[j], "deleted"}
  BY DEF RowsGoOn
<1>1. row[j] \in Final \cup {"deleted"} => row'[j] \in {row[j], "deleted"}
  BY EndKept
<1>2. row[j] # "none" => row'[j] # "none"
  <2>. USE DEF Records, JobTypeOK, Final, Active
  <2>1. ASSUME NEW i \in Jobs, NEW u \in Users, Create(i, u) \/ Cancel(i, u)
        PROVE  row[j] # "none" => row'[j] # "none"
    BY <2>1 DEF Create, Fresh, Cancel
  <2>2. ASSUME NEW i \in Jobs, Take(i) \/ Complete(i) \/ Fail(i) \/ Age(i)
        PROVE  row[j] # "none" => row'[j] # "none"
    BY <2>2 DEF Take, Complete, Fail, Age
  <2>3. CASE Retire
    BY <2>3 DEF Retire, Stale
  <2>4. CASE Scan \/ Stop \/ Start \/ Recover \/ UNCHANGED jobVars
    BY <2>4 DEF Scan, Stop, Start, Recover, jobVars
  <2>. QED  BY <2>1, <2>2, <2>3, <2>4 DEF JobNext, Background
<1>. QED  BY <1>1, <1>2

LEMMA MsgStays ==
  ASSUME RowsGoOn, NEW m, MsgTrue(m)
  PROVE  MsgTrue(m)'
<1>1. ASSUME Known(m.job)
      PROVE  Known(m.job)'
  BY <1>1 DEF Known, RowsGoOn
<1>2. ASSUME m.op \in Told, m.st \in Final
      PROVE  row'[m.job] \in {m.st, "deleted"}
  <2>1. m.job \in Jobs /\ row[m.job] \in {m.st, "deleted"}
    BY <1>2 DEF MsgTrue, Told, Known
  <2>. QED  BY <1>2, <2>1 DEF RowsGoOn
<1>. QED  BY <1>1, <1>2 DEF MsgTrue

LEMMA ScreenStays ==
  ASSUME Screen, RowsGoOn, UNCHANGED <<shown, watch>>
  PROVE  Screen'
<1>1. shown.job # None => Known(shown.job)'
  BY DEF Screen, Known, RowsGoOn
<1>2. shown.state \in Final => row'[shown.job] \in {shown.state, "deleted"}
  <2>. SUFFICES ASSUME shown.state \in Final
                PROVE  row'[shown.job] \in {shown.state, "deleted"}
    OBVIOUS
  <2>1. shown.job \in Jobs /\ row[shown.job] \in {shown.state, "deleted"}
    BY DEF Screen, Known, Final
  <2>. QED  BY <2>1 DEF RowsGoOn
<1>. QED  BY <1>1, <1>2 DEF Screen

\* The view as it is, over rows that go on and no new messages.
LEMMA ViewStays ==
  ASSUME ViewInv, RowsGoOn, UNCHANGED <<shown, watch>>, net' \subseteq net
  PROVE  ViewInv'
<1>1. \A m \in net' : MsgTrue(m)'
  BY MsgStays DEF ViewInv
<1>2. Screen'
  BY ScreenStays DEF ViewInv
<1>. QED  BY <1>1, <1>2 DEF ViewInv, EndsAgree, EndShown, OnePoll, NewIsUnseen

\* A request is sent.
LEMMA AskKeeps ==
  ASSUME ViewInv, UNCHANGED <<row, shown, watch>>, NEW q, net' \subseteq net \cup {q},
         MsgTrue(q), q.st = "sent",
         \/ q.op = "create" /\ q.job = None
         \/ q.op # "create" /\ q.job = shown.job /\ q.job # None,
         q.op = "poll" => watch.job # None /\ \A m \in net : m.op # "poll"
  PROVE  ViewInv'
<1>1. \A m \in net' : MsgTrue(m)'
  <2>1. RowsGoOn
    BY DEF RowsGoOn
  <2>. QED  BY <2>1, MsgStays DEF ViewInv
<1>2. Screen'
  BY DEF ViewInv, Screen, Known
<1>3. EndsAgree' /\ EndShown'
  BY DEF ViewInv, EndsAgree, EndShown, Final
<1>4. OnePoll'
  BY DEF ViewInv, OnePoll, Screen
<1>5. NewIsUnseen'
  <2>1. ASSUME NEW m \in net, m.op = "create", m.st = "QUEUED"
        PROVE  m.job # None
    BY <2>1, JobsAssumption DEF ViewInv, MsgTrue, Known, None
  <2>. QED  BY <2>1 DEF ViewInv, NewIsUnseen
<1>. QED  BY <1>1, <1>2, <1>3, <1>4, <1>5 DEF ViewInv


\* The steps of the analyst and of the poll loop, and the answers that show no
\* state: what is on screen and what is polled stay.
LEMMA PlainStepKeeps ==
  ASSUME ViewInv,
         Click \/ Poll \/ \E m \in net : Paged(m) \/ Related(m) \/ (Created(m) /\ m.st = "error")
  PROVE  ViewInv' /\ UNCHANGED jobVars /\ UNCHANGED shown
<1>1. CASE Run
  <2>1. UNCHANGED <<shown, watch>> /\ UNCHANGED jobVars /\ net' = net \cup {Msg("create", None, runs + 1, "sent")}
    BY <1>1 DEF Run, Ask
  <2>2. PICK q : q = Msg("create", None, runs + 1, "sent")
    OBVIOUS
  <2>3. MsgTrue(q) /\ q.st = "sent" /\ q.op = "create" /\ q.job = None
    BY <2>2 DEF Msg, MsgTrue, Ops, Told
  <2>. QED  BY <2>1, <2>2, <2>3, AskKeeps DEF jobVars
<1>2. CASE Poll
  <2>1. /\ UNCHANGED <<shown, watch>> /\ UNCHANGED jobVars /\ net' = net \cup {Msg("poll", watch.job, 0, "sent")}
        /\ watch.job # None /\ \A m \in net : m.op # "poll"
    BY <1>2 DEF Poll, Ask, InFlight, viewVars
  <2>2. PICK q : q = Msg("poll", watch.job, 0, "sent")
    OBVIOUS
  <2>3. q.job = shown.job /\ Known(q.job)
    BY <2>1, <2>2 DEF Msg, ViewInv, Screen
  <2>4. MsgTrue(q) /\ q.st = "sent" /\ q.op = "poll" /\ q.job # None
    BY <2>1, <2>2, <2>3 DEF Msg, MsgTrue, Ops, Told, Final
  <2>. QED  BY <2>1, <2>2, <2>3, <2>4, AskKeeps DEF jobVars
<1>3. ASSUME NEW op \in {"cancel", "page", "event"}, NEW n, shown.job # None,
             UNCHANGED <<shown, watch>>, UNCHANGED jobVars,
             net' \subseteq net \cup {Msg(op, shown.job, n, "sent")}
      PROVE  ViewInv' /\ UNCHANGED jobVars /\ UNCHANGED shown
  <2>1. PICK q : q = Msg(op, shown.job, n, "sent")
    OBVIOUS
  <2>2. q.job = shown.job /\ Known(q.job)
    BY <1>3, <2>1 DEF Msg, ViewInv, Screen
  <2>3. MsgTrue(q) /\ q.st = "sent" /\ q.op = op /\ q.job # None
    BY <1>3, <2>1, <2>2 DEF Msg, MsgTrue, Ops, Told, Final
  <2>. QED  BY <1>3, <2>1, <2>2, <2>3, AskKeeps DEF jobVars
<1>4. CASE CancelRun
  BY <1>3, <1>4 DEF CancelRun, CanCancel, Ask, viewVars
<1>5. ASSUME NEW n \in 1 .. Pages, Paginate(n)
      PROVE  ViewInv' /\ UNCHANGED jobVars /\ UNCHANGED shown
  <2>1. /\ shown.job # None /\ UNCHANGED <<shown, watch>> /\ UNCHANGED jobVars
        /\ net' \subseteq net \cup {Msg("page", shown.job, n, "sent")}
    BY <1>5 DEF Paginate, CanPage
  <2>. QED  BY <1>3, <2>1
<1>6. CASE Relation
  <2>1. /\ shown.job # None /\ UNCHANGED <<shown, watch>> /\ UNCHANGED jobVars
        /\ net' \subseteq net \cup {Msg("event", shown.job, 0, "sent")}
    BY <1>6 DEF Relation, Ask, ViewInv, Screen
  <2>. QED  BY <1>3, <2>1
<1>7. CASE Select \/ Deselect \/ \E m \in net : Paged(m) \/ Related(m) \/ (Created(m) /\ m.st = "error")
  <2>1. UNCHANGED <<shown, watch>> /\ UNCHANGED jobVars /\ net' \subseteq net
    BY <1>7 DEF Select, Deselect, Paged, Related, Created, Without
  <2>2. RowsGoOn
    BY <2>1 DEF jobVars, RowsGoOn
  <2>. QED  BY <2>1, <2>2, ViewStays
<1>. QED  BY <1>1, <1>2, <1>4, <1>5, <1>6, <1>7 DEF Click

\* A created job appears on screen: it was never there before.
LEMMA CreatedKeeps ==
  ASSUME ViewInv, NEW m \in net, Created(m), m.st # "error"
  PROVE  ViewInv' /\ UNCHANGED jobVars /\ shown'.job # shown.job
<1>1. m.op = "create" /\ m.st = "QUEUED" /\ Known(m.job)
  BY DEF Created, InFlight, ViewInv, MsgTrue
<1>2. /\ watch' = [job |-> m.job, state |-> "QUEUED"] /\ shown' = [job |-> m.job, state |-> "QUEUED"]
      /\ UNCHANGED jobVars /\ UNCHANGED row
      /\ net' = {k \in net \ {m} : k.op \notin {"poll", "event"}}
  BY <1>1 DEF Created, Watch, Without, Active, jobVars
<1>3. m.job # shown.job /\ \A k \in net : k.job = m.job => k = m
  BY <1>1 DEF ViewInv, NewIsUnseen
<1>4. \A k \in net' : MsgTrue(k)'
  <2>1. RowsGoOn
    BY <1>2 DEF RowsGoOn
  <2>. QED  BY <1>2, <2>1, MsgStays DEF ViewInv
<1>5. EndsAgree' /\ EndShown'
  BY <1>2 DEF ViewInv, EndsAgree, EndShown, Final
<1>6. Screen'
  BY <1>1, <1>2, JobsAssumption DEF Screen, Known, Active, Final, None
<1>7. OnePoll' /\ NewIsUnseen'
  BY <1>2, <1>3 DEF ViewInv, OnePoll, NewIsUnseen
<1>. QED  BY <1>2, <1>3, <1>4, <1>5, <1>6, <1>7 DEF ViewInv

\* The answer of a poll: the job on screen was still alive.
LEMMA PolledKeeps ==
  ASSUME ViewInv, NEW m \in net, Polled(m)
  PROVE  ViewInv' /\ UNCHANGED jobVars /\ (shown' # shown => shown.state \notin Final)
<1>1. /\ m.op = "poll" /\ m.st # "sent" /\ net' = net \ {m} /\ UNCHANGED jobVars /\ UNCHANGED row
  BY DEF Polled, InFlight, Without, jobVars
<1>2. /\ watch.job # None /\ m.job = watch.job /\ watch = shown /\ shown.state \in Active
      /\ Known(m.job) /\ \A k \in net' : k.op # "poll"
  BY <1>1 DEF ViewInv, OnePoll, Screen, MsgTrue
<1>3. \A k \in net' : MsgTrue(k)'
  <2>1. RowsGoOn
    BY <1>1 DEF RowsGoOn
  <2>. QED  BY <1>1, <2>1, MsgStays DEF ViewInv
<1>4. CASE m.st = "error"
  <2>1. watch' = NoWatch /\ shown' = shown
    BY <1>4 DEF Polled
  <2>2. Screen'
    BY <1>1, <2>1 DEF ViewInv, Screen, Known, NoWatch
  <2>3. EndsAgree' /\ EndShown' /\ OnePoll' /\ NewIsUnseen'
    BY <1>1, <1>2, <2>1 DEF ViewInv, EndsAgree, EndShown, OnePoll, NewIsUnseen
  <2>. QED  BY <1>1, <1>3, <2>1, <2>2, <2>3 DEF ViewInv
<1>5. CASE m.st # "error"
  <2>1. /\ shown' = [job |-> m.job, state |-> m.st]
        /\ watch' = IF m.st \in Active THEN shown' ELSE NoWatch
        /\ m.st \in Active \cup Final
    BY <1>1, <1>5 DEF Polled, ViewInv, MsgTrue
  <2>2. m.st \in Final => row[m.job] \in {m.st, "deleted"}
    BY <1>1 DEF ViewInv, MsgTrue, Told
  <2>3. Screen'
    BY <1>1, <1>2, <2>1, <2>2 DEF Screen, Known, NoWatch, Active, Final, None
  <2>4. EndsAgree' /\ OnePoll'
    BY <1>1, <1>2 DEF ViewInv, EndsAgree, OnePoll
  <2>5. EndShown'
    BY <1>1, <2>1 DEF ViewInv, EndsAgree, EndShown, Told
  <2>6. NewIsUnseen'
    BY <1>1, <1>2, <2>1 DEF ViewInv, NewIsUnseen
  <2>7. shown.state \notin Final
    BY <1>2 DEF Active, Final
  <2>. QED  BY <1>1, <1>3, <2>3, <2>4, <2>5, <2>6, <2>7 DEF ViewInv
<1>. QED  BY <1>4, <1>5

\* The answer of a cancellation: a job that has ended on screen keeps its end.
LEMMA CancelledKeeps ==
  ASSUME ViewInv, NEW m \in net, Cancelled(m)
  PROVE  /\ ViewInv' /\ UNCHANGED jobVars
         /\ shown'.job = shown.job /\ shown.state \in Final => shown'.state = shown.state
<1>1. m.op = "cancel" /\ m.st # "sent" /\ UNCHANGED jobVars /\ UNCHANGED row /\ net' \subseteq net \ {m}
  BY DEF Cancelled, InFlight, Without, jobVars
<1>2. RowsGoOn
  BY <1>1 DEF RowsGoOn
<1>3. CASE m.st = "error"
  BY <1>1, <1>2, <1>3, ViewStays DEF Cancelled
<1>4. CASE m.st # "error"
  <2>1. /\ shown' = [job |-> m.job, state |-> m.st] /\ watch' = NoWatch
        /\ net' = {k \in net \ {m} : k.op \notin {"poll"}}
    BY <1>4 DEF Cancelled, Without
  <2>2. m.st \in Final /\ Known(m.job) /\ row[m.job] \in {m.st, "deleted"}
    BY <1>1, <1>4 DEF ViewInv, MsgTrue, Told
  <2>3. \A k \in net' : MsgTrue(k)'
    BY <1>1, <1>2, MsgStays DEF ViewInv
  <2>4. Screen'
    BY <1>1, <2>1, <2>2, JobsAssumption DEF Screen, Known, NoWatch, Final, None
  <2>5. EndsAgree' /\ EndShown'
    BY <1>1, <2>1, <2>2 DEF ViewInv, EndsAgree, EndShown, Told
  <2>6. OnePoll' /\ NewIsUnseen'
    BY <1>1, <2>1 DEF ViewInv, OnePoll, NewIsUnseen
  <2>7. m.job = shown.job /\ shown.state \in Final => m.st = shown.state
    BY <1>1, <2>2 DEF ViewInv, EndShown, Told
  <2>. QED  BY <1>1, <2>1, <2>3, <2>4, <2>5, <2>6, <2>7 DEF ViewInv
<1>. QED  BY <1>3, <1>4

\* A request is answered, or it or its answer is lost.
LEMMA AnswerKeeps ==
  ASSUME ViewInv, RowsGoOn, UNCHANGED <<shown, watch>>, NEW m \in net, NEW a,
         net' = (net \ {m}) \cup {a}, a.op = m.op, MsgTrue(a)',
         \/ a.job = m.job /\ ~(a.op = "create" /\ a.st = "QUEUED")
         \/ a.op = "create" /\ a.job = None /\ a.st = "error"
         \/ a.op = "create" /\ a.job # shown.job /\ \A k \in net : k.job # a.job,
         a.op \in Told /\ a.st \in Final => row'[a.job] = a.st
  PROVE  ViewInv'
<1>1. \A k \in net' : MsgTrue(k)'
  BY MsgStays DEF ViewInv
<1>2. Screen'
  BY ScreenStays DEF ViewInv
<1>3. OnePoll'
  BY DEF ViewInv, OnePoll
<1>4. ASSUME NEW k \in net, k.op \in Told, k.st \in Final, a.op \in Told, a.st \in Final, k.job = a.job
      PROVE  k.st = a.st
  <2>1. row'[a.job] = a.st /\ MsgTrue(k)'
    BY <1>4, MsgStays DEF ViewInv
  <2>2. row'[k.job] \in {k.st, "deleted"}
    BY <1>4, <2>1 DEF MsgTrue
  <2>. QED  BY <1>4, <2>1, <2>2 DEF Final
<1>5. EndsAgree'
  BY <1>4 DEF ViewInv, EndsAgree
<1>6. EndShown'
  <2>1. ASSUME a.op \in Told, a.st \in Final, a.job = shown.job, shown.state \in Final
        PROVE  a.st = shown.state
    <3>1. row'[shown.job] = a.st /\ row'[shown.job] \in {shown.state, "deleted"}
      BY <1>2, <2>1 DEF Screen
    <3>. QED  BY <2>1, <3>1 DEF Final
  <2>. QED  BY <2>1 DEF ViewInv, EndShown
<1>7. NewIsUnseen'
  <2>1. ASSUME NEW k \in net, k # m, k.op = "create", k.st = "QUEUED"
        PROVE  k.job # shown.job /\ a.job # k.job /\ \A x \in net : x.job = k.job => x = k
    <3>1. k.job # shown.job /\ \A x \in net : x.job = k.job => x = k
      BY <2>1 DEF ViewInv, NewIsUnseen
    <3>2. k.job # None
      BY <2>1, JobsAssumption DEF ViewInv, MsgTrue, Known, None
    <3>. QED  BY <2>1, <3>1, <3>2
  <2>. QED  BY <2>1 DEF NewIsUnseen
<1>. QED  BY <1>1, <1>2, <1>3, <1>5, <1>6, <1>7 DEF ViewInv

\* The table changes by its own steps alone, whoever asks for them.
LEMMA JobStep ==
  ASSUME ViewInv, [Next]_allVars
  PROVE  [JobNext]_jobVars
<1>1. CASE Click \/ Poll \/ Receive \/ (\E m \in net : Lose(m)) \/ UNCHANGED allVars
  BY <1>1 DEF Click, Run, CancelRun, Select, Deselect, Relation, Paginate, Poll, Receive, Created,
       Polled, Cancelled, Paged, Related, Lose, allVars
<1>2. CASE Server
  BY <1>2 DEF Server, JobNext
<1>3. ASSUME NEW m \in net, Serve(m)
      PROVE  [JobNext]_jobVars
  <2>1. m.op # "create" => m.job \in Jobs
    BY DEF ViewInv, MsgTrue, Known
  <2>2. Me \in Users
    BY ViewAssumption
  <2>. QED  BY <1>3, <2>1, <2>2 DEF Serve, ServeCreate, ServeCancel, ServeRead, JobNext
<1>4. ASSUME NEW j \in Jobs, NEW u \in Users, Elsewhere(j, u)
      PROVE  [JobNext]_jobVars
  BY <1>4 DEF Elsewhere, JobNext
<1>. QED  BY <1>1, <1>2, <1>3, <1>4 DEF Next

LEMMA AnswerRecord ==
  ASSUME NEW m, NEW a, NEW j, NEW st, MsgTrue(m), a = [m EXCEPT !.job = j, !.st = st]
  PROVE  a = [op |-> m.op, job |-> j, n |-> m.n, st |-> st]
BY DEF MsgTrue

\* The server answers: a created job is new, a cancelled one has ended, and a
\* state that was read is the row's.
LEMMA ServeKeeps ==
  ASSUME Records, ViewInv, RowsGoOn, NEW m \in net, Serve(m)
  PROVE  ViewInv' /\ UNCHANGED shown
<1>1. UNCHANGED <<shown, watch>> /\ m.st = "sent" /\ m.op \in Ops /\ MsgTrue(m)
  BY DEF Serve, viewVars, ViewInv, MsgTrue
<1>2. ASSUME NEW j, NEW st, Answer(m, j, st)
      PROVE  \E a : net' = (net \ {m}) \cup {a} /\ a = [op |-> m.op, job |-> j, n |-> m.n, st |-> st]
  <2>1. PICK a : a = [m EXCEPT !.job = j, !.st = st]
    OBVIOUS
  <2>2. a = [op |-> m.op, job |-> j, n |-> m.n, st |-> st]
    BY <1>1, <2>1, AnswerRecord
  <2>3. net' = (net \ {m}) \cup {a}
    BY <1>2, <2>1 DEF Answer
  <2>. QED  BY <2>2, <2>3
<1>3. ASSUME m.op = "create", NEW j \in Jobs, Create(j, Me), NEW a, net' = (net \ {m}) \cup {a},
             a = [op |-> m.op, job |-> j, n |-> m.n, st |-> "QUEUED"]
      PROVE  ViewInv'
  <2>1. row[j] = "none" /\ row'[j] = "QUEUED" /\ j # None
    BY <1>3, JobsAssumption DEF Create, Fresh, Records, JobTypeOK, None
  <2>2. a.op = m.op /\ a.op = "create" /\ a.op \notin Told /\ MsgTrue(a)'
    BY <1>3, <2>1 DEF MsgTrue, Known, Ops, Told
  <2>3. a.job # shown.job
    BY <1>3, <2>1 DEF ViewInv, Screen, Known
  <2>4. \A k \in net : k.job # a.job
    BY <1>3, <2>1 DEF ViewInv, MsgTrue, Known
  <2>. QED  BY <1>1, <1>3, <2>2, <2>3, <2>4, AnswerKeeps
<1>4. ASSUME NEW a, net' = (net \ {m}) \cup {a}, a.job = m.job \/ (m.op = "create" /\ a.job = None),
             a = [op |-> m.op, job |-> a.job, n |-> m.n, st |-> "error"]
      PROVE  ViewInv'
  <2>1. MsgTrue(m)'
    BY <1>1, MsgStays
  <2>2. a.op = m.op /\ a.st = "error" /\ a.st \notin Final /\ MsgTrue(a)'
    BY <1>1, <1>4, <2>1 DEF MsgTrue, Final
  <2>. QED  BY <1>1, <1>4, <2>2, AnswerKeeps
<1>5. ASSUME m.op # "create", NEW a, net' = (net \ {m}) \cup {a},
             a = [op |-> m.op, job |-> m.job, n |-> m.n, st |-> a.st],
             a.st \in Active \cup Final, row'[m.job] = a.st, m.op = "cancel" => a.st \in Final
      PROVE  ViewInv'
  <2>1. MsgTrue(m)'
    BY <1>1, MsgStays
  <2>2. a.op = m.op /\ a.job = m.job /\ a.op # "create" /\ row'[a.job] = a.st
    BY <1>5
  <2>3. MsgTrue(a)'
    BY <1>1, <1>5, <2>1, <2>2 DEF MsgTrue, Final, Told
  <2>. QED  BY <1>1, <1>5, <2>2, <2>3, AnswerKeeps
<1>6. ASSUME Answer(m, m.job, "error")
      PROVE  ViewInv'
  <2>1. PICK a : net' = (net \ {m}) \cup {a} /\ a = [op |-> m.op, job |-> m.job, n |-> m.n, st |-> "error"]
    BY <1>2, <1>6
  <2>. QED  BY <1>4, <2>1
<1>7. CASE m.op = "create"
  <2>1. CASE \E j \in Jobs : Create(j, Me) /\ Answer(m, j, "QUEUED")
    <3>1. PICK j \in Jobs : Create(j, Me) /\ Answer(m, j, "QUEUED")
      BY <2>1
    <3>2. PICK a : net' = (net \ {m}) \cup {a} /\ a = [op |-> m.op, job |-> j, n |-> m.n, st |-> "QUEUED"]
      BY <1>2, <3>1
    <3>. QED  BY <1>1, <1>3, <1>7, <3>1, <3>2
  <2>2. CASE Answer(m, None, "error")
    <3>1. PICK a : net' = (net \ {m}) \cup {a} /\ a = [op |-> m.op, job |-> None, n |-> m.n, st |-> "error"]
      BY <1>2, <2>2
    <3>. QED  BY <1>1, <1>4, <1>7, <3>1
  <2>3. ServeCreate(m)
    BY <1>7 DEF Serve
  <2>. QED  BY <2>1, <2>2, <2>3 DEF ServeCreate
<1>8. CASE m.op # "create"
  <2>1. m.job \in Jobs /\ row[m.job] \in States
    BY <1>1, <1>8 DEF MsgTrue, Known, Records, JobTypeOK
  <2>2. Visible(m.job, Me) => row[m.job] \in Active \cup Final
    BY <2>1 DEF Visible, States
  <2>3. CASE m.op = "cancel" /\ Cancel(m.job, Me) /\ Answer(m, m.job, row'[m.job])
    <3>1. row'[m.job] \in Final
      BY <2>1, <2>2, <2>3 DEF Cancel, Records, JobTypeOK, Final
    <3>2. PICK st : st = row'[m.job]
      OBVIOUS
    <3>3. Answer(m, m.job, st)
      BY <2>3, <3>2 DEF Answer
    <3>4. PICK a : net' = (net \ {m}) \cup {a} /\ a = [op |-> m.op, job |-> m.job, n |-> m.n, st |-> st]
      BY <1>2, <3>3
    <3>5. a.st = st
      BY <3>4
    <3>. QED  BY <1>1, <1>5, <1>8, <3>1, <3>2, <3>4, <3>5
  <2>4. CASE Answer(m, m.job, "error")
    BY <1>1, <1>6, <2>4
  <2>5. CASE m.op # "cancel" /\ UNCHANGED jobVars /\ Visible(m.job, Me) /\ Answer(m, m.job, row[m.job])
    <3>1. PICK st : st = row[m.job]
      OBVIOUS
    <3>2. row'[m.job] = st /\ Answer(m, m.job, st)
      BY <2>5, <3>1 DEF Answer, jobVars
    <3>3. PICK a : net' = (net \ {m}) \cup {a} /\ a = [op |-> m.op, job |-> m.job, n |-> m.n, st |-> st]
      BY <1>2, <3>2
    <3>4. a.st = st
      BY <3>3
    <3>. QED  BY <1>1, <1>5, <1>8, <2>2, <2>5, <3>1, <3>2, <3>3, <3>4
  <2>6. CASE m.op = "cancel"
    <3>1. ServeCancel(m)
      BY <2>6 DEF Serve
    <3>. QED  BY <2>3, <2>4, <2>6, <3>1 DEF ServeCancel
  <2>7. CASE m.op \in {"poll", "page", "event"}
    <3>1. ServeRead(m)
      BY <2>7 DEF Serve
    <3>2. CASE ~Visible(m.job, Me) \/ (m.op # "poll" /\ row[m.job] # "COMPLETED")
      BY <2>4, <3>1, <3>2 DEF ServeRead
    <3>3. CASE ~(~Visible(m.job, Me) \/ (m.op # "poll" /\ row[m.job] # "COMPLETED"))
      BY <2>5, <2>7, <3>1, <3>3 DEF ServeRead
    <3>. QED  BY <3>2, <3>3
  <2>. QED  BY <1>1, <1>8, <2>6, <2>7 DEF Ops
<1>. QED  BY <1>1, <1>7, <1>8

LEMMA LoseKeeps ==
  ASSUME ViewInv, NEW m \in net, Lose(m)
  PROVE  ViewInv' /\ UNCHANGED shown
<1>1. UNCHANGED <<shown, watch>> /\ UNCHANGED row /\ MsgTrue(m)
  BY DEF Lose, viewVars, jobVars, ViewInv
<1>2. PICK a : a = [m EXCEPT !.job = m.job, !.st = "error"]
  OBVIOUS
<1>3. net' = (net \ {m}) \cup {a}
  BY <1>2 DEF Lose, Answer
<1>4. RowsGoOn
  BY <1>1 DEF RowsGoOn
<1>5. MsgTrue(m)'
  BY <1>1, <1>4, MsgStays
<1>6. a = [op |-> m.op, job |-> m.job, n |-> m.n, st |-> "error"]
  BY <1>1, <1>2, AnswerRecord
<1>7. a.op = m.op /\ a.job = m.job /\ a.st = "error" /\ a.st \notin Final /\ MsgTrue(a)'
  BY <1>5, <1>6 DEF MsgTrue, Final
<1>. QED  BY <1>1, <1>3, <1>4, <1>7, AnswerKeeps

\* Every step of the workbench keeps the view true and an end that it shows.
LEMMA ViewNext ==
  ASSUME Records, ViewInv, [Next]_allVars
  PROVE  /\ ViewInv'
         /\ shown.job = shown'.job /\ shown.state \in Final => shown'.state = shown.state
<1>1. RowsGoOn
  BY JobStep, JobsGoOn
<1>2. CASE Click \/ Poll \/ \E m \in net : Paged(m) \/ Related(m) \/ (Created(m) /\ m.st = "error")
  BY <1>2, PlainStepKeeps
<1>3. ASSUME NEW m \in net, Created(m), m.st # "error"
      PROVE  ViewInv' /\ shown'.job # shown.job
  BY <1>3, CreatedKeeps
<1>4. ASSUME NEW m \in net, Polled(m)
      PROVE  ViewInv' /\ (shown' # shown => shown.state \notin Final)
  BY <1>4, PolledKeeps
<1>5. ASSUME NEW m \in net, Cancelled(m)
      PROVE  ViewInv' /\ (shown'.job = shown.job /\ shown.state \in Final => shown'.state = shown.state)
  BY <1>5, CancelledKeeps
<1>6. ASSUME NEW m \in net, Serve(m) \/ Lose(m)
      PROVE  ViewInv' /\ UNCHANGED shown
  BY <1>1, <1>6, ServeKeeps, LoseKeeps
<1>7. CASE Server \/ UNCHANGED allVars \/ \E j \in Jobs, u \in Users : Elsewhere(j, u)
  <2>1. UNCHANGED <<shown, watch>> /\ net' \subseteq net
    BY <1>7 DEF Server, Elsewhere, allVars, viewVars
  <2>. QED  BY <1>1, <2>1, ViewStays
<1>8. CASE Next
  <2>1. CASE Receive
    <3>1. PICK m \in net : Created(m) \/ Polled(m) \/ Cancelled(m) \/ Paged(m) \/ Related(m)
      BY <2>1 DEF Receive
    <3>. QED  BY <1>2, <1>3, <1>4, <1>5, <3>1
  <2>. QED  BY <1>2, <1>6, <1>7, <1>8, <2>1 DEF Next
<1>. QED  BY <1>7, <1>8

-------------------------------------------------------------------------------
(* The case editor, in both of its settings.                                  *)

\* The parts of the console leave each other alone.
LEMMA ReviewsStep ==
  ASSUME part = "reviews", [ConsoleNext]_consoleVars
  PROVE  part' = part /\ [Reviews!Next]_(Reviews!vars)
<1>1. CASE UNCHANGED consoleVars
  <2>1. part' = part /\ UNCHANGED caseVars
    BY <1>1 DEF consoleVars
  <2>2. UNCHANGED Reviews!vars
    BY <2>1 DEF caseVars, Reviews!vars, Reviews!record, Reviews!editor, Reviews!shownVars, Reviews!panelVars
  <2>. QED  BY <2>1, <2>2
<1>2. CASE ConsoleNext
  BY <1>2 DEF ConsoleNext, Alone
<1>. QED  BY <1>1, <1>2

LEMMA DraftsStep ==
  ASSUME part = "drafts", [ConsoleNext]_consoleVars
  PROVE  part' = part /\ [Drafts!Next]_(Drafts!vars)
<1>1. CASE UNCHANGED consoleVars
  <2>1. part' = part /\ UNCHANGED caseVars
    BY <1>1 DEF consoleVars
  <2>2. UNCHANGED Drafts!vars
    BY <2>1 DEF caseVars, Drafts!vars, Drafts!record, Drafts!editor, Drafts!shownVars, Drafts!panelVars
  <2>. QED  BY <2>1, <2>2
<1>2. CASE ConsoleNext
  BY <1>2 DEF ConsoleNext, Alone
<1>. QED  BY <1>1, <1>2

CasesInv ==
  /\ part = "reviews" => Reviews!CaseInv
  /\ part = "drafts" => Drafts!CaseInv

LEMMA CasesInit == ConsoleInit => CasesInv
<1>. SUFFICES ASSUME ConsoleInit
              PROVE  CasesInv
  OBVIOUS
<1>1. ASSUME part = "reviews"
      PROVE  Reviews!CaseInv
  <2>1. Reviews!EditorAssumption /\ Reviews!Init
    BY <1>1, CasesAssumption DEF ConsoleInit
  <2>. QED  BY <2>1, Reviews!CaseInvInit
<1>2. ASSUME part = "drafts"
      PROVE  Drafts!CaseInv
  <2>1. Drafts!EditorAssumption /\ Drafts!Init
    BY <1>2, CasesAssumption DEF ConsoleInit
  <2>. QED  BY <2>1, Drafts!CaseInvInit
<1>. QED  BY <1>1, <1>2 DEF CasesInv

LEMMA CasesNext == CasesInv /\ [ConsoleNext]_consoleVars => CasesInv'
<1>. SUFFICES ASSUME CasesInv, [ConsoleNext]_consoleVars
              PROVE  CasesInv'
  OBVIOUS
<1>0. part' = part
  BY DEF ConsoleNext, Alone, consoleVars
<1>1. ASSUME part = "reviews"
      PROVE  Reviews!CaseInv'
  <2>1. Reviews!EditorAssumption /\ Reviews!CaseInv /\ [Reviews!Next]_(Reviews!vars)
    BY <1>1, CasesAssumption, ReviewsStep DEF CasesInv
  <2>. QED  BY <2>1, Reviews!CaseInvNext
<1>2. ASSUME part = "drafts"
      PROVE  Drafts!CaseInv'
  <2>1. Drafts!EditorAssumption /\ Drafts!CaseInv /\ [Drafts!Next]_(Drafts!vars)
    BY <1>2, CasesAssumption, DraftsStep DEF CasesInv
  <2>. QED  BY <2>1, Drafts!CaseInvNext
<1>. QED  BY <1>0, <1>1, <1>2 DEF CasesInv


\* A decision is for what was on the screen, in both settings.
LEMMA DecisionsShown ==
  ASSUME CasesInv, [ConsoleNext]_consoleVars
  PROVE  /\ part = "reviews" => Reviews!DecidesWhatWasShown
         /\ part = "drafts" => Drafts!DecidesWhatWasShown
<1>1. ASSUME part = "reviews"
      PROVE  Reviews!DecidesWhatWasShown
  <2>1. Reviews!EditorAssumption /\ Reviews!CaseInv /\ [Reviews!Next]_(Reviews!vars)
    BY <1>1, CasesAssumption, ReviewsStep DEF CasesInv
  <2>. QED  BY <2>1, Reviews!DecisionShown
<1>2. ASSUME part = "drafts"
      PROVE  Drafts!DecidesWhatWasShown
  <2>1. Drafts!EditorAssumption /\ Drafts!CaseInv /\ [Drafts!Next]_(Drafts!vars)
    BY <1>2, CasesAssumption, DraftsStep DEF CasesInv
  <2>. QED  BY <2>1, Drafts!DecisionShown
<1>. QED  BY <1>1, <1>2

LEMMA CasesShow == CasesInv => EditorTrue /\ IndependentReview
<1>. SUFFICES ASSUME CasesInv
              PROVE  EditorTrue /\ IndependentReview
  OBVIOUS
<1>1. part = "reviews" => Reviews!BaseIsTrue /\ Reviews!ShowsSelection /\ Reviews!IndependentReview
  BY Reviews!CaseInvShows DEF CasesInv
<1>2. part = "drafts" => Drafts!BaseIsTrue /\ Drafts!ShowsSelection /\ Drafts!IndependentReview
  BY Drafts!CaseInvShows DEF CasesInv
<1>. QED  BY <1>1, <1>2 DEF EditorTrue, IndependentReview

-------------------------------------------------------------------------------
(* The approved exceptions.  What the ticked box stands for is what is on the *)
(* screen, or nothing, and a decision takes it along.                         *)

Shows(x) == x = [id |-> x.id, version |-> x.version]

IsException(r) == r = [state |-> r.state, version |-> r.version, approver |-> r.approver, expired |-> r.expired]
ExceptionsTrue(x) ==
  /\ x = [e \in Exceptions |-> x[e]]
  /\ \A e \in Exceptions :
       IsException(x[e]) /\ (x[e].state = "APPROVED" => x[e].approver # Requester[e])

PanelTrue ==
  /\ Shows(chosen) /\ reviewed \in {chosen, Approvals!Nothing}
  /\ opening # Approvals!Nothing => chosen = Approvals!Nothing /\ deciding.action = "none"
  /\ ~occupied => deciding.action = "none"
  /\ deciding.action \in {"none", "reload", "APPROVE", "REJECT", "REVOKE"}
  /\ deciding.action = "APPROVE" =>
       deciding.reviewed = [id |-> deciding.id, version |-> deciding.version]

ApprovalInv == ExceptionsTrue(exception) /\ PanelTrue

LEMMA ApprovalInit == Approvals!Init => ApprovalInv
BY DEF Approvals!Init, ApprovalInv, ExceptionsTrue, IsException, PanelTrue, Shows, Approvals!Nothing,
       Approvals!NoDecision


\* A record of an exception after a decision.
LEMMA DecidedRecord ==
  ASSUME NEW old, IsException(old), NEW s, NEW v, NEW a,
         NEW new, new = [old EXCEPT !.state = s, !.version = v, !.approver = a]
  PROVE  new = [state |-> s, version |-> v, approver |-> a, expired |-> old.expired]
<1>1. old = [state |-> old.state, version |-> old.version, approver |-> old.approver, expired |-> old.expired]
  BY DEF IsException
<1>. QED  BY <1>1

\* Nobody approves their own request, here or elsewhere.
LEMMA DecideHolds ==
  ASSUME ExceptionsTrue(exception), NEW who, NEW d, NEW v,
         NEW action \in {"APPROVE", "REJECT", "REVOKE"}, Approvals!Decide(who, d, v, action)
  PROVE  ExceptionsTrue(exception')
<1>. DEFINE a == IF action = "APPROVE" THEN who ELSE exception[d].approver
<1>1. /\ exception' = [exception EXCEPT ![d].state = Approvals!NextState(action), ![d].version = v + 1,
                                        ![d].approver = a]
      /\ exception = [e \in Exceptions |-> exception[e]]
  BY DEF Approvals!Decide, ExceptionsTrue
<1>2. exception' = [e \in Exceptions |-> exception'[e]]
  BY <1>1
<1>3. ASSUME NEW e \in Exceptions, e # d
      PROVE  exception'[e] = exception[e]
  BY <1>1, <1>3
<1>4. ASSUME d \in Exceptions
      PROVE  /\ IsException(exception'[d])
             /\ exception'[d].state = "APPROVED" => exception'[d].approver # Requester[d]
  <2>1. exception'[d] = [exception[d] EXCEPT !.state = Approvals!NextState(action), !.version = v + 1,
                                             !.approver = a]
    BY <1>1, <1>4
  <2>2. IsException(exception[d])
    BY <1>4 DEF ExceptionsTrue
  <2>3. exception'[d] = [state |-> Approvals!NextState(action), version |-> v + 1, approver |-> a,
                         expired |-> exception[d].expired]
    <3>1. PICK old : old = exception[d]
      OBVIOUS
    <3>2. PICK s, w, b : s = Approvals!NextState(action) /\ w = v + 1 /\ b = a
      OBVIOUS
    <3>3. IsException(old)
      BY <2>2, <3>1
    <3>4. PICK new : new = exception'[d]
      OBVIOUS
    <3>5. new = [old EXCEPT !.state = s, !.version = w, !.approver = b]
      BY <2>1, <3>1, <3>2, <3>4
    <3>6. new = [state |-> s, version |-> w, approver |-> b, expired |-> old.expired]
      BY <3>3, <3>5, DecidedRecord
    <3>. QED  BY <3>1, <3>2, <3>4, <3>6
  <2>4. IsException(exception'[d])
    BY <2>3 DEF IsException
  <2>5. CASE action = "APPROVE"
    <3>1. a = who /\ Requester[d] # who
      BY <2>5 DEF Approvals!Decide, Approvals!Rules
    <3>. QED  BY <2>3, <2>4, <3>1
  <2>6. CASE action # "APPROVE"
    <3>1. Approvals!NextState(action) # "APPROVED"
      BY <2>6 DEF Approvals!NextState
    <3>. QED  BY <2>3, <2>4, <3>1
  <2>. QED  BY <2>5, <2>6
<1>. QED  BY <1>2, <1>3, <1>4 DEF ExceptionsTrue

LEMMA ExpireHolds ==
  ASSUME ExceptionsTrue(exception), NEW d \in Exceptions, Approvals!Expire(d)
  PROVE  ExceptionsTrue(exception')
<1>1. /\ exception' = [exception EXCEPT ![d].expired = TRUE]
      /\ exception = [e \in Exceptions |-> exception[e]]
  BY DEF Approvals!Expire, ExceptionsTrue
<1>2. exception' = [e \in Exceptions |-> exception'[e]] /\ \A e \in Exceptions \ {d} : exception'[e] = exception[e]
  BY <1>1
<1>3. exception'[d] = [exception[d] EXCEPT !.expired = TRUE] /\ IsException(exception[d])
  BY <1>1 DEF ExceptionsTrue
<1>4. exception'[d] = [state |-> exception[d].state, version |-> exception[d].version,
                       approver |-> exception[d].approver, expired |-> TRUE]
  BY <1>3 DEF IsException
<1>. QED  BY <1>2, <1>4 DEF ExceptionsTrue, IsException

LEMMA ApprovalNext == ApprovalInv /\ [Approvals!Next]_(Approvals!exceptionVars) => ApprovalInv'
<1>. SUFFICES ASSUME ApprovalInv, [Approvals!Next]_(Approvals!exceptionVars)
              PROVE  ApprovalInv'
  OBVIOUS
<1>. USE DEF PanelTrue, Shows, Approvals!Nothing, Approvals!NoDecision
<1>1. ASSUME UNCHANGED exception, PanelTrue'
      PROVE  ApprovalInv'
  BY <1>1 DEF ApprovalInv, ExceptionsTrue
<1>2. ASSUME UNCHANGED <<chosen, reviewed, opening, deciding, occupied>>
      PROVE  PanelTrue'
  BY <1>2 DEF ApprovalInv
<1>3. CASE Approvals!Load \/ Approvals!Listed \/ Approvals!Write \/ Approvals!MoreUsage \/ Approvals!ToggleForm
           \/ Approvals!SubmitForm \/ Approvals!UsageArrived \/ UNCHANGED Approvals!exceptionVars
  BY <1>1, <1>2, <1>3 DEF Approvals!Load, Approvals!Listed, Approvals!Write, Approvals!MoreUsage,
       Approvals!ToggleForm, Approvals!SubmitForm, Approvals!UsageArrived, Approvals!exceptionVars,
       Approvals!panelVars, Approvals!listVars, Approvals!detailVars, Approvals!reviewVars, Approvals!decideVars
<1>4. ASSUME NEW e \in Exceptions, Approvals!Select(e)
      PROVE  ApprovalInv'
  BY <1>1, <1>4 DEF Approvals!Select, Approvals!decideVars, ApprovalInv
<1>5. CASE Approvals!Selected
  <2>1. chosen' \in {chosen, Approvals!At(opening.id)} /\ opening # Approvals!Nothing /\ opening' = Approvals!Nothing
        /\ UNCHANGED <<exception, reviewed, deciding, occupied>>
    BY <1>5 DEF Approvals!Selected, Approvals!decideVars, Approvals!reviewVars
  <2>2. chosen = Approvals!Nothing /\ reviewed = Approvals!Nothing /\ deciding.action = "none"
    BY <2>1 DEF ApprovalInv
  <2>. QED  BY <1>1, <2>1, <2>2 DEF ApprovalInv, Approvals!At
<1>6. CASE Approvals!Tick
  BY <1>1, <1>6 DEF Approvals!Tick, Approvals!detailVars, Approvals!decideVars, ApprovalInv
<1>7. ASSUME NEW action \in {"APPROVE", "REJECT", "REVOKE"}, Approvals!Press(action)
      PROVE  ApprovalInv'
  <2>1. /\ chosen # Approvals!Nothing /\ occupied' = TRUE
        /\ deciding' = [action |-> action, id |-> chosen.id, version |-> chosen.version, reviewed |-> reviewed]
        /\ UNCHANGED <<exception, chosen, reviewed, opening>>
        /\ action = "APPROVE" => reviewed # Approvals!Nothing
    BY <1>7 DEF Approvals!Press, Approvals!CanDecide, Approvals!detailVars, Approvals!reviewVars
  <2>2. opening = Approvals!Nothing
    BY <2>1 DEF ApprovalInv
  <2>3. action = "APPROVE" => reviewed = [id |-> chosen.id, version |-> chosen.version]
    BY <2>1 DEF ApprovalInv
  <2>4. PanelTrue'
    BY <2>1, <2>2, <2>3 DEF ApprovalInv
  <2>. QED  BY <1>1, <2>1, <2>4
<1>8. CASE Approvals!Decided
  <2>1. CASE /\ Approvals!Decide(Me, deciding.id, deciding.version, deciding.action)
             /\ chosen' = [id |-> deciding.id, version |-> deciding.version + 1]
             /\ reviewed' = Approvals!Nothing /\ deciding' = [action |-> "reload"]
             /\ UNCHANGED occupied
    <3>1. ExceptionsTrue(exception')
      BY <2>1, <1>8, DecideHolds DEF ApprovalInv, Approvals!Decided
    <3>2. PanelTrue'
      BY <2>1, <1>8 DEF ApprovalInv, Approvals!Decided
    <3>. QED  BY <3>1, <3>2 DEF ApprovalInv, ExceptionsTrue
  <2>2. CASE occupied' = FALSE /\ deciding' = Approvals!NoDecision /\ UNCHANGED <<exception, chosen, reviewed>>
    BY <1>1, <1>8, <2>2 DEF Approvals!Decided, ApprovalInv
  <2>. QED  BY <1>8, <2>1, <2>2 DEF Approvals!Decided, Approvals!reviewVars
<1>9. CASE Approvals!Reloaded
  BY <1>1, <1>9 DEF Approvals!Reloaded, Approvals!detailVars, Approvals!reviewVars, ApprovalInv
<1>10. ASSUME NEW e \in Exceptions, Approvals!Expire(e)
       PROVE  ApprovalInv'
  <2>1. ExceptionsTrue(exception')
    BY <1>10, ExpireHolds DEF ApprovalInv
  <2>2. PanelTrue'
    BY <1>2, <1>10 DEF Approvals!Expire, Approvals!panelVars, Approvals!detailVars, Approvals!reviewVars, Approvals!decideVars
  <2>. QED  BY <2>1, <2>2 DEF ApprovalInv, ExceptionsTrue
<1>11. ASSUME NEW e \in Exceptions, NEW action \in {"APPROVE", "REJECT", "REVOKE"}, Approvals!Elsewhere(e, action)
       PROVE  ApprovalInv'
  <2>1. ExceptionsTrue(exception')
    BY <1>11, DecideHolds DEF ApprovalInv, Approvals!Elsewhere
  <2>2. PanelTrue'
    BY <1>2, <1>11 DEF Approvals!Elsewhere, Approvals!panelVars, Approvals!detailVars, Approvals!reviewVars, Approvals!decideVars
  <2>. QED  BY <2>1, <2>2 DEF ApprovalInv, ExceptionsTrue
<1>. QED
  BY <1>3, <1>4, <1>5, <1>6, <1>7, <1>8, <1>9, <1>10, <1>11 DEF Approvals!Next, Approvals!Receive

-------------------------------------------------------------------------------
(* Repeated rules.  A run that still holds its rule was started in the        *)
(* observation that lasts: a new observation lets go of it.  What a tick has  *)
(* listed or started is old by the time it is used, but then the run no       *)
(* longer holds the rule either.                                              *)
Query == [end : Rules!Ends \cup {"open"}, began : Nat]

RuleTypeOK ==
  /\ rule = [state |-> rule.state, version |-> rule.version,
             scenarioVersion |-> rule.scenarioVersion, began |-> rule.began]
  /\ rule.state \in {"DRAFT", "OBSERVE", "ACTIVE", "PAUSED"}
  /\ rule.version \in Nat /\ rule.began \in Nat
RunTypeOK ==
  /\ run = [last |-> run.last, job |-> run.job, ready |-> run.ready]
  /\ IsFiniteSet(run.ready) /\ query \in Seq(Query)
TickTypeOK ==
  /\ tick.at \in {"idle", "listed", "read", "claimed", "created"}
  /\ tick.at \in {"listed", "read"} =>
       tick = [at |-> tick.at, state |-> tick.state, scenarioVersion |-> tick.scenarioVersion,
               last |-> tick.last, job |-> tick.job, late |-> tick.late, version |-> tick.version]
  /\ tick.at \in {"claimed", "created"} => tick = [at |-> tick.at, began |-> tick.began]
  /\ tick.at = "claimed" => tick.began \in Nat
Typed == RuleTypeOK /\ RunTypeOK /\ TickTypeOK

\* Query j was started in the observation that lasts.
OfNow(j) == j \in DOMAIN query /\ query[j].began = rule.began

RunTrue ==
  /\ \A j \in run.ready : OfNow(j)
  /\ run.last = "RUNNING" /\ run.job # 0 => OfNow(run.job)
  /\ rule.state = "ACTIVE" => Cardinality(run.ready) >= Needed

TickTrue ==
  run.last = "RUNNING" =>
    /\ tick.at \in {"listed", "read"} /\ tick.state = "ACTIVE" => rule.state \in {"ACTIVE", "PAUSED"}
    /\ tick.at = "claimed" => tick.began = rule.began
    /\ tick.at = "created" => OfNow(Len(query))

RuleInv == Typed /\ RunTrue /\ TickTrue

\* The rule only goes on to further versions, and alerts appear while it is active.
RuleStep ==
  /\ rule' = rule \/ rule'.version = rule.version + 1
  /\ alerted' # alerted => rule.state = "ACTIVE"

\* The count of the instance is the count.
LEMMA SameCount == \A S : Rules!Cardinality(S) = Cardinality(S)
BY DEF Rules!Cardinality, Cardinality

LEMMA RuleInit == Rules!RuleInit => RuleInv
<1>. SUFFICES ASSUME Rules!RuleInit
              PROVE  RuleInv
  OBVIOUS
<1>. USE DEF Rules!RuleInit, Rules!NoTick, Rules!None
<1>1. IsFiniteSet(run.ready)
  BY FS_EmptySet
<1>2. query \in Seq(Query)
  OBVIOUS
<1>3. Typed
  BY <1>1, <1>2 DEF Typed, RuleTypeOK, RunTypeOK, TickTypeOK
<1>. QED  BY <1>3 DEF RuleInv, RunTrue, TickTrue

\* The administrator's transitions.
LEMMA TransitionKeeps ==
  ASSUME RuleInv, NEW to \in {"OBSERVE", "ACTIVE", "PAUSED"}, NEW v, Rules!Transition(to, v)
  PROVE  /\ RuleInv' /\ rule'.version = rule.version + 1 /\ alerted' = alerted
         /\ v = rule.version
<1>. USE DEF RuleInv
<1>1. v = rule.version /\ Rules!Leads(rule.state, to) /\ UNCHANGED <<query, tick, alerted>>
  BY DEF Rules!Transition
<1>2. CASE to = "OBSERVE"
  <2>1. /\ run' = [last |-> "IDLE", job |-> 0, ready |-> {}]
        /\ rule' = [rule EXCEPT !.state = "OBSERVE", !.version = @ + 1,
                                !.scenarioVersion = catalogue, !.began = rule.version + 1]
    BY <1>2 DEF Rules!Transition, Rules!Observe, Rules!None
  <2>2. rule' = [state |-> "OBSERVE", version |-> rule.version + 1, scenarioVersion |-> catalogue,
                 began |-> rule.version + 1]
    BY <2>1 DEF Typed, RuleTypeOK, RunTypeOK, TickTypeOK
  <2>3. IsFiniteSet(run'.ready)
    BY <2>1, FS_EmptySet
  <2>4. Typed'
    <3>1. RuleTypeOK'
      BY <2>2 DEF Typed, RuleTypeOK
    <3>2. RunTypeOK'
      BY <1>1, <2>1, <2>3 DEF Typed, RunTypeOK
    <3>3. TickTypeOK'
      BY <1>1 DEF Typed, TickTypeOK
    <3>. QED  BY <3>1, <3>2, <3>3 DEF Typed
  <2>. QED  BY <1>1, <2>1, <2>2, <2>4 DEF RunTrue, TickTrue, Typed, RuleTypeOK, RunTypeOK, TickTypeOK
<1>3. CASE to # "OBSERVE"
  <2>1. /\ rule' = [rule EXCEPT !.state = to, !.version = @ + 1] /\ UNCHANGED run
        /\ to \in {"ACTIVE", "PAUSED"}
        /\ to = "ACTIVE" => rule.state = "OBSERVE" /\ Cardinality(run.ready) >= Needed
    <3>1. rule' = [rule EXCEPT !.state = to, !.version = @ + 1] /\ UNCHANGED run
      BY <1>3 DEF Rules!Transition
    <3>2. to \in {"ACTIVE", "PAUSED"}
      BY <1>3
    <3>3. to = "ACTIVE" => rule.state = "OBSERVE" /\ Cardinality(run.ready) >= Needed
      BY <1>1, SameCount DEF Rules!Leads, Rules!Eligible
    <3>. QED  BY <3>1, <3>2, <3>3
  <2>2. rule' = [state |-> to, version |-> rule.version + 1, scenarioVersion |-> rule.scenarioVersion,
                 began |-> rule.began]
    BY <2>1 DEF Typed, RuleTypeOK, RunTypeOK, TickTypeOK
  <2>3. Typed'
    <3>1. RuleTypeOK'
      <4>1. rule.version + 1 \in Nat /\ rule.began \in Nat /\ to \in {"ACTIVE", "PAUSED"}
        BY <2>1 DEF Typed, RuleTypeOK
      <4>. QED  BY <2>2, <4>1 DEF RuleTypeOK
    <3>2. RunTypeOK'
      BY <1>1, <2>1 DEF Typed, RunTypeOK
    <3>3. TickTypeOK'
      BY <1>1 DEF Typed, TickTypeOK
    <3>. QED  BY <3>1, <3>2, <3>3 DEF Typed
  <2>4. RunTrue'
    BY <1>1, <2>1, <2>2 DEF RunTrue, OfNow
  <2>5. TickTrue'
    BY <1>1, <2>1, <2>2 DEF TickTrue, OfNow, Typed, RuleTypeOK
  <2>. QED  BY <1>1, <2>2, <2>3, <2>4, <2>5
<1>. QED  BY <1>2, <1>3

\* A step of the tick that leaves the rule and its queries alone, the run with no
\* more than its last outcome, and the tick no further than it was.
LEMMA LetsGo ==
  ASSUME RuleInv, UNCHANGED <<rule, query>>, tick' = Rules!NoTick,
         run' = run \/ \E s : s # "RUNNING" /\ run' = [run EXCEPT !.last = s]
  PROVE  RuleInv'
<1>1. /\ run'.ready = run.ready /\ run'.job = run.job
      /\ run' = [last |-> run'.last, job |-> run'.job, ready |-> run'.ready]
      /\ run'.last = "RUNNING" => run.last = "RUNNING"
  BY DEF RuleInv, Typed, RuleTypeOK, RunTypeOK, TickTypeOK
<1>2. Typed'
  BY <1>1 DEF RuleInv, Typed, RuleTypeOK, RunTypeOK, TickTypeOK, Rules!NoTick
<1>3. RunTrue' /\ TickTrue'
  BY <1>1 DEF RuleInv, RunTrue, TickTrue, OfNow, Rules!NoTick
<1>. QED  BY <1>2, <1>3 DEF RuleInv

\* A result is counted for the observation it was started in, and published while
\* the rule is active.
LEMMA FinishKeeps ==
  ASSUME RuleInv, Rules!Finish
  PROVE  RuleInv' /\ RuleStep
<1>1. /\ UNCHANGED <<rule, query>> /\ tick' = Rules!NoTick /\ tick.at = "read" /\ tick.job # 0
  BY DEF Rules!Finish, Rules!Current, Rules!TickEnds, Rules!Ticks, Rules!None
<1>2. \/ /\ UNCHANGED alerted
         /\ run' = run \/ \E s : s # "RUNNING" /\ run' = [run EXCEPT !.last = s]
      \/ /\ run.last = "RUNNING" /\ run.job = tick.job /\ rule.state \in Rules!Runs
         /\ run' = [run EXCEPT !.last = "COMPLETED", !.ready = @ \cup {tick.job}]
         /\ alerted' # alerted => tick.state = "ACTIVE"
  <2>1. PICK end : end = query[tick.job].end
    OBVIOUS
  <2>2. CASE end = "open"
    BY <2>1, <2>2 DEF Rules!Finish, Rules!Ends
  <2>3. CASE end = "GONE"
    BY <2>1, <2>3 DEF Rules!Finish, Rules!Ends
  <2>4. CASE end \in Rules!Ends \ {"GONE"}
    <3>1. CASE run.last # "RUNNING" \/ run.job # tick.job
      BY <2>1, <2>4, <3>1 DEF Rules!Finish, Rules!Ends
    <3>2. CASE ~(run.last # "RUNNING" \/ run.job # tick.job) /\ Rules!Superseded
      BY <2>1, <2>4, <3>2 DEF Rules!Finish, Rules!Ends
    <3>3. CASE ~(run.last # "RUNNING" \/ run.job # tick.job) /\ ~Rules!Superseded
      <4>1. Rules!Publish(end) /\ run.last = "RUNNING" /\ run.job = tick.job /\ rule.state \in Rules!Runs
        BY <2>1, <2>4, <3>3 DEF Rules!Finish, Rules!Ends, Rules!Superseded
      <4>2. CASE end # "READY"
        BY <2>4, <4>1, <4>2 DEF Rules!Publish, Rules!Ends
      <4>3. CASE end = "READY"
        BY <4>1, <4>3 DEF Rules!Publish
      <4>. QED  BY <4>2, <4>3
    <3>. QED  BY <3>1, <3>2, <3>3
  <2>. QED  BY <2>1, <2>2, <2>3, <2>4 DEF Rules!Finish
<1>3. CASE UNCHANGED alerted /\ (run' = run \/ \E s : s # "RUNNING" /\ run' = [run EXCEPT !.last = s])
  BY <1>1, <1>3, LetsGo DEF RuleStep
<1>4. CASE /\ run.last = "RUNNING" /\ run.job = tick.job /\ rule.state \in Rules!Runs
           /\ run' = [run EXCEPT !.last = "COMPLETED", !.ready = @ \cup {tick.job}]
           /\ alerted' # alerted => tick.state = "ACTIVE"
  <2>1. run' = [last |-> "COMPLETED", job |-> run.job, ready |-> run.ready \cup {run.job}]
    BY <1>4 DEF RuleInv, Typed, RuleTypeOK, RunTypeOK, TickTypeOK
  <2>2. OfNow(run.job)
    BY <1>1, <1>4 DEF RuleInv, RunTrue
  <2>3. /\ IsFiniteSet(run'.ready)
        /\ Cardinality(run.ready) \in Nat /\ Cardinality(run'.ready) \in Nat
        /\ Cardinality(run'.ready) >= Cardinality(run.ready)
    <3>1. PICK s : s = run.ready
      OBVIOUS
    <3>2. PICK j : j = run.job
      OBVIOUS
    <3>3. IsFiniteSet(s)
      BY <3>1 DEF RuleInv, Typed, RuleTypeOK, RunTypeOK, TickTypeOK
    <3>4. IsFiniteSet(s \cup {j}) /\ Cardinality(s) \in Nat /\ Cardinality(s \cup {j}) \in Nat
      BY <3>3, FS_AddElement, FS_CardinalityType
    <3>5. Cardinality(s) <= Cardinality(s \cup {j})
      BY <3>4, FS_Subset
    <3>6. run'.ready = s \cup {j}
      BY <2>1, <3>1, <3>2
    <3>. QED  BY <3>1, <3>4, <3>5, <3>6
  <2>4. Typed'
    BY <1>1, <2>1, <2>3 DEF RuleInv, Typed, RuleTypeOK, RunTypeOK, TickTypeOK, Rules!NoTick
  <2>5. Cardinality(run.ready) >= Needed => Cardinality(run'.ready) >= Needed
    BY <2>3, RulesAssumption
  <2>6. RunTrue'
    BY <1>1, <2>1, <2>2, <2>5 DEF RuleInv, RunTrue, OfNow
  <2>7. TickTrue'
    BY <1>1, <2>1 DEF TickTrue
  <2>8. RuleStep
    BY <1>1, <1>4 DEF RuleInv, TickTrue, RuleStep, Rules!Runs
  <2>. QED  BY <2>4, <2>6, <2>7, <2>8 DEF RuleInv
<1>. QED  BY <1>2, <1>3, <1>4

\* Every step of the tick.
LEMMA TickKeeps ==
  ASSUME RuleInv, Rules!Tick
  PROVE  RuleInv' /\ RuleStep
<1>1. CASE Rules!Finish
  BY <1>1, FinishKeeps
<1>2. CASE Rules!Wait \/ Rules!Orphan
  <2>1. /\ UNCHANGED <<rule, query, alerted>> /\ tick' = Rules!NoTick
        /\ run' = run \/ run' = [run EXCEPT !.last = "FAILED"]
    BY <1>2 DEF Rules!Wait, Rules!Orphan, Rules!Ticks, Rules!TickEnds
  <2>. QED  BY <2>1, LetsGo DEF RuleStep
<1>3. CASE Rules!List
  <2>1. /\ UNCHANGED <<rule, query, alerted, run>>
        /\ tick' = [at |-> "listed", state |-> rule.state, scenarioVersion |-> rule.scenarioVersion,
                    last |-> run.last, job |-> run.job, late |-> late, version |-> 0]
    BY <1>3 DEF Rules!List, Rules!Ticks, Rules!None
  <2>2. Typed'
    BY <2>1 DEF RuleInv, Typed, RuleTypeOK, RunTypeOK, TickTypeOK
  <2>3. RunTrue' /\ TickTrue'
    BY <2>1 DEF RuleInv, RunTrue, TickTrue, OfNow
  <2>. QED  BY <2>1, <2>2, <2>3 DEF RuleInv, RuleStep
<1>4. CASE Rules!ReadRule
  <2>1. /\ UNCHANGED <<rule, query, alerted, run>> /\ tick.at = "listed"
        /\ tick' = [tick EXCEPT !.at = "read", !.version = rule.version]
    BY <1>4 DEF Rules!ReadRule, Rules!Ticks
  <2>2. tick' = [at |-> "read", state |-> tick.state, scenarioVersion |-> tick.scenarioVersion,
                 last |-> tick.last, job |-> tick.job, late |-> tick.late, version |-> rule.version]
    BY <2>1 DEF RuleInv, Typed, TickTypeOK
  <2>3. Typed'
    BY <2>1, <2>2 DEF RuleInv, Typed, RuleTypeOK, RunTypeOK, TickTypeOK
  <2>4. RunTrue' /\ TickTrue'
    BY <2>1, <2>2 DEF RuleInv, RunTrue, TickTrue, OfNow
  <2>. QED  BY <2>1, <2>3, <2>4 DEF RuleInv, RuleStep
<1>5. CASE Rules!DefinitionChanged
  <2>1. /\ UNCHANGED <<query, alerted>> /\ tick' = Rules!NoTick
        /\ IF rule.version # tick.version THEN UNCHANGED <<rule, run>>
           ELSE /\ rule' = [rule EXCEPT !.state = "PAUSED", !.version = @ + 1]
                /\ run' = [run EXCEPT !.last = "VERSION_MISMATCH"]
    BY <1>5 DEF Rules!DefinitionChanged, Rules!Ticks, Rules!TickEnds
  <2>2. CASE UNCHANGED <<rule, run>>
    BY <2>1, <2>2, LetsGo DEF RuleStep
  <2>3. CASE /\ rule' = [rule EXCEPT !.state = "PAUSED", !.version = @ + 1]
             /\ run' = [run EXCEPT !.last = "VERSION_MISMATCH"]
    <3>1. /\ rule' = [state |-> "PAUSED", version |-> rule.version + 1,
                      scenarioVersion |-> rule.scenarioVersion, began |-> rule.began]
          /\ run' = [last |-> "VERSION_MISMATCH", job |-> run.job, ready |-> run.ready]
      BY <2>3 DEF RuleInv, Typed, RuleTypeOK, RunTypeOK
    <3>2. Typed'
      BY <2>1, <3>1 DEF RuleInv, Typed, RuleTypeOK, RunTypeOK, TickTypeOK, Rules!NoTick
    <3>3. RunTrue' /\ TickTrue'
      BY <2>1, <3>1 DEF RuleInv, RunTrue, TickTrue, OfNow
    <3>. QED  BY <2>1, <3>1, <3>2, <3>3 DEF RuleInv, RuleStep
  <2>. QED  BY <2>1, <2>2, <2>3
<1>6. CASE Rules!Claim
  <2>1. UNCHANGED <<rule, query, alerted>>
    BY <1>6 DEF Rules!Claim, Rules!Ticks
  <2>2. CASE tick' = Rules!NoTick /\ UNCHANGED run
    BY <2>1, <2>2, LetsGo DEF RuleStep
  <2>3. CASE /\ run' = [run EXCEPT !.last = "RUNNING", !.job = Rules!None]
             /\ tick' = [at |-> "claimed", began |-> rule.began]
    <3>1. run' = [last |-> "RUNNING", job |-> 0, ready |-> run.ready]
      BY <2>3 DEF RuleInv, Typed, RunTypeOK, Rules!None
    <3>2. Typed'
      BY <2>1, <2>3, <3>1 DEF RuleInv, Typed, RuleTypeOK, RunTypeOK, TickTypeOK
    <3>3. RunTrue'
      BY <2>1, <3>1 DEF RuleInv, RunTrue, OfNow
    <3>4. TickTrue'
      BY <2>1, <2>3, <3>1 DEF TickTrue
    <3>. QED  BY <2>1, <3>2, <3>3, <3>4 DEF RuleInv, RuleStep
  <2>. QED  BY <1>6, <2>2, <2>3 DEF Rules!Claim, Rules!TickEnds
<1>7. CASE Rules!StartQuery
  <2>1. UNCHANGED <<rule, alerted>> /\ tick.at = "claimed"
    BY <1>7 DEF Rules!StartQuery, Rules!Ticks
  <2>2. CASE /\ query' = Append(query, [end |-> "open", began |-> tick.began])
             /\ tick' = [tick EXCEPT !.at = "created"] /\ UNCHANGED run
    <3>1. PICK new : new = [end |-> "open", began |-> tick.began]
      OBVIOUS
    <3>2. new \in Query
      BY <2>1, <3>1 DEF RuleInv, Typed, TickTypeOK, Query
    <3>3. /\ query \in Seq(Query) /\ query' = Append(query, new)
      BY <2>2, <3>1 DEF RuleInv, Typed, RunTypeOK
    <3>4. /\ query' \in Seq(Query) /\ Len(query') = Len(query) + 1 /\ query'[Len(query) + 1] = new
          /\ \A j \in DOMAIN query : j \in DOMAIN query' /\ query'[j] = query[j]
          /\ Len(query) + 1 \in DOMAIN query'
      BY <3>2, <3>3
    <3>5. tick' = [at |-> "created", began |-> tick.began]
      BY <2>1, <2>2 DEF RuleInv, Typed, TickTypeOK
    <3>6. Typed'
      BY <2>1, <2>2, <3>4, <3>5 DEF RuleInv, Typed, RuleTypeOK, RunTypeOK, TickTypeOK
    <3>7. RunTrue'
      BY <2>1, <2>2, <3>4 DEF RuleInv, RunTrue, OfNow
    <3>8. TickTrue'
      BY <2>1, <2>2, <3>1, <3>4, <3>5 DEF RuleInv, TickTrue, OfNow
    <3>. QED  BY <2>1, <3>6, <3>7, <3>8 DEF RuleInv, RuleStep
  <2>3. CASE run' = [run EXCEPT !.last = "FAILED"] /\ tick' = Rules!NoTick /\ UNCHANGED query
    BY <2>1, <2>3, LetsGo DEF RuleStep
  <2>. QED  BY <1>7, <2>2, <2>3 DEF Rules!StartQuery, Rules!TickEnds
<1>8. CASE Rules!Record
  <2>1. /\ UNCHANGED <<rule, query, alerted>> /\ tick.at = "created" /\ tick' = Rules!NoTick
        /\ run' = [run EXCEPT !.job = Len(query)]
    BY <1>8 DEF Rules!Record, Rules!Ticks, Rules!TickEnds
  <2>2. run' = [last |-> run.last, job |-> Len(query), ready |-> run.ready]
    BY <2>1 DEF RuleInv, Typed, RunTypeOK
  <2>3. Typed'
    BY <2>1, <2>2 DEF RuleInv, Typed, RuleTypeOK, RunTypeOK, TickTypeOK, Rules!NoTick
  <2>4. RunTrue' /\ TickTrue'
    BY <2>1, <2>2 DEF RuleInv, RunTrue, TickTrue, OfNow, Rules!NoTick
  <2>. QED  BY <2>1, <2>3, <2>4 DEF RuleInv, RuleStep
<1>. QED  BY <1>1, <1>2, <1>3, <1>4, <1>5, <1>6, <1>7, <1>8 DEF Rules!Tick

\* What stays of the queries when one of them ends is what they were started for.
LEMMA QueriesEnd ==
  ASSUME RuleInv, UNCHANGED <<rule, run>>, query' \in Seq(Query), Len(query') = Len(query),
         \A j \in DOMAIN query : query'[j].began = query[j].began,
         tick' = tick \/ tick' = Rules!NoTick
  PROVE  RuleInv'
<1>1. DOMAIN query' = DOMAIN query
  BY DEF RuleInv, Typed, RunTypeOK
<1>2. Typed'
  BY DEF RuleInv, Typed, RuleTypeOK, RunTypeOK, TickTypeOK, Rules!NoTick
<1>3. RunTrue' /\ TickTrue'
  BY <1>1 DEF RuleInv, RunTrue, TickTrue, OfNow, Rules!NoTick
<1>. QED  BY <1>2, <1>3 DEF RuleInv

LEMMA EndedQuery ==
  ASSUME NEW q \in Query, NEW end \in Rules!Ends
  PROVE  [q EXCEPT !.end = end] \in Query /\ [q EXCEPT !.end = end].began = q.began
BY DEF Query, Rules!Ends

LEMMA ElapseKeeps ==
  ASSUME RuleInv, Rules!Elapse
  PROVE  RuleInv' /\ RuleStep
<1>1. CASE Rules!WeekPasses \/ Rules!MinutesPass
  BY <1>1, QueriesEnd DEF Rules!WeekPasses, Rules!MinutesPass, RuleStep, RuleInv, Typed, RunTypeOK
<1>2. CASE Rules!Restart
  <2>1. /\ UNCHANGED <<rule, run, alerted>> /\ tick' = Rules!NoTick
        /\ query' = [j \in DOMAIN query |-> IF query[j].end = "open"
                       THEN [query[j] EXCEPT !.end = "FAILED"] ELSE query[j]]
        /\ query \in Seq(Query)
    BY <1>2 DEF Rules!Restart, RuleInv, Typed, RunTypeOK
  <2>2. ASSUME NEW j \in DOMAIN query
        PROVE  query'[j] \in Query /\ query'[j].began = query[j].began
    <3>1. query[j] \in Query
      BY <2>1, <2>2
    <3>2. query'[j] = query[j] \/ query'[j] = [query[j] EXCEPT !.end = "FAILED"]
      BY <2>1, <2>2
    <3>. QED  BY <3>1, <3>2, EndedQuery DEF Rules!Ends
  <2>3. query' \in Seq(Query) /\ Len(query') = Len(query)
    BY <2>1, <2>2
  <2>. QED  BY <2>1, <2>2, <2>3, QueriesEnd DEF RuleStep
<1>3. ASSUME NEW i \in DOMAIN query, NEW end \in Rules!Ends, Rules!QueryEnds(i, end)
      PROVE  RuleInv' /\ RuleStep
  <2>1. /\ UNCHANGED <<rule, run, alerted, tick>> /\ query' = [query EXCEPT ![i].end = end]
        /\ query \in Seq(Query)
    BY <1>3 DEF Rules!QueryEnds, RuleInv, Typed, RunTypeOK
  <2>2. ASSUME NEW j \in DOMAIN query
        PROVE  query'[j] \in Query /\ query'[j].began = query[j].began
    <3>1. query[j] \in Query
      BY <2>1, <2>2
    <3>2. query'[j] = query[j] \/ query'[j] = [query[j] EXCEPT !.end = end]
      BY <2>1, <2>2
    <3>3. PICK q \in Query : q = query[j]
      BY <3>1
    <3>4. [q EXCEPT !.end = end] \in Query /\ [q EXCEPT !.end = end].began = q.began
      BY EndedQuery
    <3>. QED  BY <3>2, <3>3, <3>4
  <2>3. query' \in Seq(Query) /\ Len(query') = Len(query)
    BY <2>1, <2>2
  <2>. QED  BY <2>1, <2>2, <2>3, QueriesEnd DEF RuleStep
<1>. QED  BY <1>1, <1>2, <1>3 DEF Rules!Elapse

\* The steps of the rule alone, with the administrators' transitions.
LEMMA RuleNextKeeps ==
  ASSUME RuleInv, Rules!RuleNext
  PROVE  RuleInv' /\ RuleStep
<1>1. ASSUME NEW to \in {"OBSERVE", "ACTIVE", "PAUSED"}, Rules!Transition(to, rule.version)
      PROVE  RuleInv' /\ RuleStep
  BY <1>1, TransitionKeeps DEF RuleStep
<1>. QED  BY <1>1, TickKeeps, ElapseKeeps DEF Rules!RuleNext

-------------------------------------------------------------------------------
(* The table over it: a row may be old, but a version never had two states.   *)
OneState(r) == r.version \in Nat /\ r.version <= rule.version /\ (r.version = rule.version => r.state = rule.state)

TableInv ==
  /\ OneState(rules)
  /\ request.op = "transition" =>
       /\ request.to \in {"OBSERVE", "ACTIVE", "PAUSED"} /\ OneState(request.shown)
  /\ request.op = "save" /\ request.id \in Indicators => request.version = request.base

\* What was one state of a rule stays so while the rule goes on.
LEMMA OneStateStays ==
  ASSUME RuleInv, RuleStep, NEW r, OneState(r)
  PROVE  OneState(r)'
BY DEF RuleInv, Typed, RuleTypeOK, RuleStep, OneState

LEMMA TableStays ==
  ASSUME RuleInv, TableInv, RuleStep, UNCHANGED <<rules, request>>
  PROVE  TableInv'
<1>1. OneState(rules)'
  <2>1. PICK r : r = rules
    OBVIOUS
  <2>2. OneState(r)'
    BY <2>1, OneStateStays DEF TableInv
  <2>. QED  BY <2>1, <2>2 DEF OneState
<1>2. request.op = "transition" => OneState(request.shown)'
  <2>. SUFFICES ASSUME request.op = "transition"
                PROVE  OneState(request.shown)'
    OBVIOUS
  <2>1. PICK r : r = request.shown
    OBVIOUS
  <2>2. OneState(r)'
    BY <2>1, OneStateStays DEF TableInv
  <2>. QED  BY <2>1, <2>2 DEF OneState
<1>. QED  BY <1>1, <1>2 DEF TableInv

LEMMA RulesInit == Rules!Init => RuleInv /\ TableInv
<1>. SUFFICES ASSUME Rules!Init
              PROVE  RuleInv /\ TableInv
  OBVIOUS
<1>1. RuleInv
  BY RuleInit DEF Rules!Init
<1>2. TableInv
  BY <1>1 DEF Rules!Init, Rules!Shown, Rules!NoRequest, TableInv, OneState, RuleInv, Typed, RuleTypeOK
<1>. QED  BY <1>1, <1>2

LEMMA RulesNext ==
  ASSUME RuleInv, TableInv, Rules!Next
  PROVE  RuleInv' /\ TableInv' /\ RuleStep /\ Rules!StartsFromTheShown
<1>. DEFINE Still == RuleInv' /\ RuleStep
<1>0. ASSUME UNCHANGED Rules!ruleVars
      PROVE  Still
  BY <1>0 DEF Rules!ruleVars, RuleInv, Typed, RuleTypeOK, RunTypeOK, TickTypeOK, RunTrue, TickTrue, OfNow, RuleStep
<1>1. ASSUME Still, UNCHANGED <<rules, request>>
      PROVE  TableInv' /\ Rules!StartsFromTheShown
  BY <1>1, TableStays DEF Rules!StartsFromTheShown
<1>2. CASE Rules!Work
  <2>1. Still /\ UNCHANGED <<rules, request>>
    BY <1>2, TickKeeps, ElapseKeeps DEF Rules!Work, Rules!consoleVars
  <2>. QED  BY <1>1, <2>1
<1>3. CASE Rules!Elsewhere
  <2>1. Still
    BY <1>0, <1>3, TransitionKeeps DEF Rules!Elsewhere, RuleStep
  <2>2. UNCHANGED <<rules, request>>
    BY <1>3 DEF Rules!Elsewhere, Rules!consoleVars
  <2>. QED  BY <1>1, <2>1, <2>2
<1>4. ASSUME NEW what \in loads, Rules!Loaded(what)
      PROVE  Still /\ TableInv' /\ Rules!StartsFromTheShown
  <2>1. UNCHANGED Rules!ruleVars /\ UNCHANGED rule /\ rules' \in {rules, [state |-> rule.state, version |-> rule.version]}
        /\ (request' = request \/ request' = [op |-> "none"])
    BY <1>4 DEF Rules!Loaded, Rules!Shown, Rules!NoRequest, Rules!ruleVars
  <2>2. Still
    BY <1>0, <2>1
  <2>3. TableInv'
    BY <2>1 DEF TableInv, OneState, RuleInv, Typed, RuleTypeOK
  <2>. QED  BY <2>1, <2>2, <2>3 DEF Rules!StartsFromTheShown
<1>5. CASE Rules!Refresh \/ Rules!Submit \/ \E e \in Entries : Rules!Fill(e)
  <2>1. UNCHANGED Rules!ruleVars /\ UNCHANGED rules
    BY <1>5 DEF Rules!Refresh, Rules!Submit, Rules!Fill, Rules!Start
  <2>2. \/ request' = request \/ request' = [op |-> "refresh"]
        \/ request' = [op |-> "save", id |-> form.id, version |-> Rules!Version, base |-> form.version]
    BY <1>5 DEF Rules!Refresh, Rules!Submit, Rules!Fill, Rules!Start
  <2>3. Still /\ UNCHANGED rule
    BY <1>0, <2>1 DEF Rules!ruleVars
  <2>4. TableInv'
    BY <2>1, <2>2, <2>3 DEF TableInv, OneState, Rules!Version
  <2>. QED  BY <2>2, <2>3, <2>4 DEF Rules!StartsFromTheShown
<1>6. ASSUME NEW to \in {"OBSERVE", "ACTIVE", "PAUSED"}, Rules!Press(to)
      PROVE  Still /\ TableInv' /\ Rules!StartsFromTheShown
  <2>1. UNCHANGED Rules!ruleVars /\ UNCHANGED rules
        /\ request' = [op |-> "transition", to |-> to, shown |-> rules]
    BY <1>6 DEF Rules!Press, Rules!Start
  <2>2. Still /\ UNCHANGED rule
    BY <1>0, <2>1 DEF Rules!ruleVars
  <2>3. TableInv'
    BY <2>1, <2>2 DEF TableInv, OneState
  <2>. QED  BY <2>1, <2>2, <2>3 DEF Rules!StartsFromTheShown
<1>7. CASE Rules!Refused /\ UNCHANGED rule
  <2>1. UNCHANGED Rules!ruleVars /\ UNCHANGED rules /\ request' = [op |-> "none"]
    BY <1>7 DEF Rules!Refused, Rules!NoRequest
  <2>2. Still /\ TableInv'
    BY <1>0, <1>7, <2>1 DEF TableInv, OneState
  <2>. QED  BY <2>1, <2>2 DEF Rules!StartsFromTheShown
<1>8. CASE Rules!Transitioned
  <2>1. CASE Rules!Refused
    BY <1>7, <2>1 DEF Rules!Refused, Rules!ruleVars
  <2>2. CASE Rules!Transition(request.to, request.shown.version) /\ Rules!Done
    <3>1. PICK to \in {"OBSERVE", "ACTIVE", "PAUSED"} : to = request.to
      BY <1>8 DEF Rules!Transitioned, TableInv
    <3>0. PICK v : v = request.shown.version
      OBVIOUS
    <3>2. Rules!Transition(to, v)
      BY <2>2, <3>0, <3>1
    <3>3. RuleInv' /\ RuleStep /\ v = rule.version
      BY <3>2, TransitionKeeps DEF RuleStep
    <3>4. rule.state = request.shown.state /\ request.op = "transition"
      BY <1>8, <3>0, <3>3 DEF Rules!Transitioned, TableInv, OneState
    <3>5. request' = [op |-> "reload"] /\ UNCHANGED rules
      BY <2>2 DEF Rules!Done
    <3>6. TableInv'
      <4>1. PICK r : r = rules
        OBVIOUS
      <4>2. OneState(r)'
        BY <3>3, <4>1, OneStateStays DEF TableInv
      <4>. QED  BY <3>5, <4>1, <4>2 DEF TableInv, OneState
    <3>. QED  BY <3>3, <3>4, <3>5, <3>6 DEF Rules!StartsFromTheShown
  <2>. QED  BY <1>8, <2>1, <2>2 DEF Rules!Transitioned
<1>9. CASE Rules!Saved
  <2>1. CASE Rules!Refused
    BY <1>7, <2>1 DEF Rules!Refused, Rules!ruleVars
  <2>2. CASE request.version = entry[request.id] /\ Rules!Done /\ UNCHANGED Rules!ruleVars
    <3>1. request' = [op |-> "reload"] /\ UNCHANGED <<rules, rule>> /\ request.op = "save"
      BY <1>9, <2>2 DEF Rules!Saved, Rules!Done, Rules!ruleVars
    <3>2. Still /\ TableInv'
      BY <1>0, <2>2, <3>1 DEF TableInv, OneState
    <3>. QED  BY <2>2, <3>1, <3>2 DEF Rules!StartsFromTheShown, TableInv
  <2>. QED  BY <1>9, <2>1, <2>2 DEF Rules!Saved
<1>10. CASE Rules!Refreshed
  <2>1. request' = [op |-> "reload"] /\ UNCHANGED <<rules, rule>> /\ request.op = "refresh" /\ UNCHANGED Rules!ruleVars
    BY <1>10 DEF Rules!Refreshed, Rules!Done, Rules!ruleVars
  <2>2. Still /\ TableInv'
    BY <1>0, <2>1 DEF TableInv, OneState
  <2>. QED  BY <2>1, <2>2 DEF Rules!StartsFromTheShown
<1>. QED  BY <1>2, <1>3, <1>4, <1>5, <1>6, <1>8, <1>9, <1>10, <1>1 DEF Rules!Next, Rules!Receive

-------------------------------------------------------------------------------
(* The console.  Each part keeps its own invariant, and a step of one part is *)
(* a stuttering step of every other.                                          *)
ConsoleInv ==
  Records /\ Bounded /\ ViewInv /\ CasesInv /\ RuleInv /\ TableInv /\ ApprovalInv

\* A step of the console is one of the workbench over the jobs, or leaves both.
LEMMA QueriesStep ==
  ASSUME [ConsoleNext]_consoleVars
  PROVE  [Next]_allVars
BY DEF ConsoleNext, Alone, consoleVars

LEMMA QueriesNext ==
  ASSUME Records, Bounded, ViewInv, [ConsoleNext]_consoleVars
  PROVE  /\ Records' /\ Bounded' /\ ViewInv' /\ [JobNext]_jobVars
         /\ shown.job = shown'.job /\ shown.state \in Final => shown'.state = shown.state
<1>1. [Next]_allVars
  BY QueriesStep
<1>2. [JobNext]_jobVars
  BY <1>1, JobStep
<1>. QED  BY <1>1, <1>2, RecordsNext, BoundedNext, ViewNext

\* A step of the console is one of the rule and its table, of the rule alone, or
\* leaves both.
LEMMA RulesPart ==
  ASSUME RuleInv, TableInv, [ConsoleNext]_consoleVars
  PROVE  RuleInv' /\ TableInv' /\ RuleStep /\ Rules!StartsFromTheShown
<1>1. ASSUME UNCHANGED ruleVars, UNCHANGED tableVars
      PROVE  RuleInv' /\ TableInv' /\ RuleStep /\ Rules!StartsFromTheShown
  <2>1. RuleInv' /\ RuleStep /\ UNCHANGED <<rules, request>>
    BY <1>1 DEF ruleVars, tableVars, RuleInv, Typed, RuleTypeOK, RunTypeOK, TickTypeOK, RunTrue,
         TickTrue, OfNow, RuleStep
  <2>. QED  BY <2>1, TableStays DEF Rules!StartsFromTheShown
<1>2. CASE Rules!RuleNext /\ UNCHANGED tableVars
  <2>1. RuleInv' /\ RuleStep /\ UNCHANGED <<rules, request>>
    BY <1>2, RuleNextKeeps DEF tableVars
  <2>. QED  BY <2>1, TableStays DEF Rules!StartsFromTheShown
<1>3. CASE Rules!Next
  BY <1>3, RulesNext
<1>4. \/ Rules!RuleNext /\ UNCHANGED tableVars
      \/ Rules!Next
      \/ UNCHANGED ruleVars /\ UNCHANGED tableVars
  BY DEF ConsoleNext, Alone, consoleVars
<1>. QED  BY <1>1, <1>2, <1>3, <1>4

\* A step of the console is one of the exceptions and their panel, or leaves both.
LEMMA ExceptionsPart ==
  ASSUME ApprovalInv, [ConsoleNext]_consoleVars
  PROVE  ApprovalInv'
<1>1. Approvals!Next \/ UNCHANGED panelVars
  BY DEF ConsoleNext, Alone, consoleVars
<1>2. UNCHANGED panelVars => UNCHANGED Approvals!exceptionVars
  BY DEF panelVars, Approvals!exceptionVars, Approvals!panelVars, Approvals!listVars,
       Approvals!detailVars, Approvals!reviewVars, Approvals!decideVars
<1>. QED  BY <1>1, <1>2, ApprovalNext

LEMMA ConsoleInvInit == ConsoleInit => ConsoleInv
<1>. SUFFICES ASSUME ConsoleInit
              PROVE  ConsoleInv
  OBVIOUS
<1>1. Init /\ JobInit /\ Rules!Init /\ Approvals!Init
  BY DEF ConsoleInit, Init
<1>. QED
  BY <1>1, RecordsInit, BoundedInit, ViewInit, CasesInit, RulesInit, ApprovalInit DEF ConsoleInv

LEMMA ConsoleInvNext == ConsoleInv /\ [ConsoleNext]_consoleVars => ConsoleInv'
<1>. SUFFICES ASSUME ConsoleInv, [ConsoleNext]_consoleVars
              PROVE  ConsoleInv'
  OBVIOUS
<1>1. Records' /\ Bounded' /\ ViewInv'
  BY QueriesNext DEF ConsoleInv
<1>2. CasesInv'
  BY CasesNext DEF ConsoleInv
<1>3. RuleInv' /\ TableInv'
  BY RulesPart DEF ConsoleInv
<1>4. ApprovalInv'
  BY ExceptionsPart DEF ConsoleInv
<1>. QED  BY <1>1, <1>2, <1>3, <1>4 DEF ConsoleInv

LEMMA ConsoleInvAlways == ConsoleSpec => []ConsoleInv
BY ConsoleInvInit, ConsoleInvNext, PTL DEF ConsoleSpec

\* JobTruth for the table under a workbench whose requests are lost, repeated and
\* overtaken, with tables, pools and limits of every size: a row that claims to run has
\* a thread, exceptions are recorded for kept results alone, and neither the two limits
\* of the API nor the pool is ever exceeded.
THEOREM TableIsTrue == ConsoleSpec => []JobTruth
<1>1. ConsoleInv => JobTruth
  BY DEF ConsoleInv, Records, Bounded, JobTruth, WithinLimits
<1>. QED  BY <1>1, ConsoleInvAlways, PTL

\* EditorTrue for every number of cases, analysts and versions: the base of a draft
\* is the version it would replace, and notes, relations, review and reports on the
\* screen belong to the case that is open, whichever answers arrive late.
THEOREM EditorIsTrue == ConsoleSpec => []EditorTrue
<1>1. ConsoleInv => EditorTrue
  BY CasesShow DEF ConsoleInv
<1>. QED  BY <1>1, ConsoleInvAlways, PTL

\* IndependentReview: whoever closes a case did not write its text, and the text
\* kept with the closed case is the reviewed one (HuntCases.java).
THEOREM ReviewIsIndependent == ConsoleSpec => []IndependentReview
<1>1. ConsoleInv => IndependentReview
  BY CasesShow DEF ConsoleInv
<1>. QED  BY <1>1, ConsoleInvAlways, PTL

\* ApprovalsEarned: the runs counted for a rule are those of its own observation and
\* as many as activation asks for, through restarts, pauses and changed definitions;
\* an exception in force was approved by another person than its requester, and on
\* the version that was ticked.
THEOREM ApprovalsAreEarned == ConsoleSpec => []ApprovalsEarned
<1>1. ConsoleInv => Rules!ActiveEarned
  BY SameCount DEF ConsoleInv, RuleInv, RunTrue, OfNow, Rules!ActiveEarned
<1>2. ConsoleInv => Approvals!ApprovedAsReviewed
  BY DEF ConsoleInv, ApprovalInv, ExceptionsTrue, PanelTrue, Approvals!ApprovedAsReviewed
<1>3. ConsoleInv => ApprovalsEarned
  BY <1>1, <1>2 DEF ApprovalsEarned
<1>. QED  BY <1>3, ConsoleInvAlways, PTL

\* EndsStay: of cancel, complete, the failing thread, recover and retention the first
\* decides how a query ends, and the workbench never takes back an end it has shown,
\* in whichever order the answers of polls and cancellations arrive.
THEOREM EndsAreKept == ConsoleSpec => EndsStay
<1>1. ConsoleInv /\ [ConsoleNext]_consoleVars =>
        [\A j \in Jobs : row[j] \in Final \cup {"deleted"} =>
           row'[j] = row[j] \/ (row'[j] = "deleted" /\ j \in expired)]_jobVars
  BY QueriesNext, EndKept DEF ConsoleInv
<1>2. ConsoleInv /\ [ConsoleNext]_consoleVars =>
        [(shown.job = shown'.job /\ shown.state \in Final) => shown'.state = shown.state]_allVars
  BY QueriesNext DEF ConsoleInv
<1>. QED
  BY <1>1, <1>2, ConsoleInvAlways, PTL DEF ConsoleSpec, EndsStay, FinalStays, EndShownOnce

\* ActsOnWhatWasShown: a review is decided on the text that was read, a transition
\* starts from the state that was shown, and an indicator replaces the version it was
\* opened from, whatever others change in between.
THEOREM ActionsAreInformed == ConsoleSpec => ActsOnWhatWasShown
<1>1. ConsoleInv /\ [ConsoleNext]_consoleVars =>
        [/\ part = "reviews" => Reviews!DecidesWhatWasShown
         /\ part = "drafts" => Drafts!DecidesWhatWasShown
         /\ Rules!StartsFromTheShown]_consoleVars
  BY DecisionsShown, RulesPart DEF ConsoleInv
<1>. QED  BY <1>1, ConsoleInvAlways, PTL DEF ConsoleSpec, ActsOnWhatWasShown

\* AlertsWhileActive: finish looks at the rule again under its lock, so that a rule
\* paused since the tick listed it raises no alert.
THEOREM AlertsAreOfActiveRules == ConsoleSpec => AlertsWhileActive
<1>1. ConsoleInv /\ [ConsoleNext]_consoleVars =>
        [alerted' # alerted => rule.state = "ACTIVE"]_(Rules!ruleVars)
  BY RulesPart DEF ConsoleInv, RuleStep
<1>. QED
  BY <1>1, ConsoleInvAlways, PTL DEF ConsoleSpec, AlertsWhileActive, Rules!AlertsWhileActive
===============================================================================
