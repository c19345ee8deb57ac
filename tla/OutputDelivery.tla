---------------------------- MODULE OutputDelivery ----------------------------
(***************************************************************************)
(* One output of the log parser: the delivery worker with its retry queue  *)
(* (OutputDeliveryWorker.java) around the adapter of ClickHouseOutput.     *)
(*                                                                         *)
(* Processing threads, the retry task, the flusher's failure report and    *)
(* close take turns on the delivery lock (op says whose turn it is); who   *)
(* holds it calls into the adapter and waits for the adapter's own         *)
(* monitor, which the flusher uses without the delivery lock.  A closed    *)
(* worker is replaced by a new one over the same tables and the same DLQ,  *)
(* and the process may die at any step.                                    *)
(***************************************************************************)
EXTENDS ClickHouseOutput

CONSTANTS
  MaxPending,     \* MAX_PENDING_EVENTS
  MaxQueueBytes,  \* MAX_PENDING_BYTES
  EventBytes,     \* EventBytes[e]: the estimate of what e takes in the retry queue
  Unserializable, \* events whose output payload cannot be serialized
  DrainBatch,     \* DRAIN_BATCH_SIZE
  Copies,         \* how often upstream may deliver the same event
  HotAdd,         \* whether events flow while the output is being added
  MaxStops        \* bound: closings and process deaths

ASSUME DeliveryAssumption ==
  /\ MaxPending \in Nat /\ MaxQueueBytes \in Nat
  /\ EventBytes \in [Events -> Nat \ {0}] /\ Unserializable \subseteq Events
  /\ DrainBatch \in Nat \ {0} /\ Copies \in Nat \ {0} /\ HotAdd \in BOOLEAN /\ MaxStops \in Nat

VARIABLES
  worker,    \* the fields of OutputDeliveryWorker
  pending,   \* its retry queue
  op,        \* the call that holds the delivery lock
  offered,   \* how often each event was given to deliver
  rejected,  \* events refused, and those a closing worker counts as rejected
  dropped,   \* events in the adapter's memory when its close failed
  crashed,   \* events in memory when the process died
  stops

workerVars == <<worker, pending, op, offered, rejected, dropped, crashed, stops>>
vars == <<chVars, workerVars>>

NewWorker == [started |-> FALSE, adapter |-> FALSE, retry |-> FALSE, flush |-> FALSE,
              closed |-> FALSE, paused |-> FALSE]
Free == [by |-> "none", at |-> "idle", ev |-> None, n |-> 0]

Init ==
  /\ ChInit
  /\ worker = NewWorker /\ pending = <<>> /\ op = Free
  /\ offered = [e \in Events |-> 0]
  /\ rejected = {} /\ dropped = {} /\ crashed = {} /\ stops = 0

------------------------------------------------------------------------------
(* fail, recovered and the retry queue                                      *)

\* Variant: only an adapter that exists is retried.
RetriedIfThere(w) == [w EXCEPT !.paused = w.adapter, !.retry = @ \/ (w.adapter /\ ~w.closed)]

\* Background flushing stops, and a retry is scheduled unless one is.
Failed(w) == [w EXCEPT !.paused = @ \/ w.adapter, !.retry = @ \/ ~w.closed]

Recovered(w) == [w EXCEPT !.paused = FALSE]

\* What the events of the queue are estimated to take, counted byte by byte.
BytesQueued(queue) == UNION {{i} \X (1..EventBytes[queue[i]]) : i \in DOMAIN queue}
PendingBytes == Cardinality(BytesQueued(pending))

\* Variant: what is queued is compared with the limit, without the new event.
EnqueueWhileRoom(e) ==
  IF e \in Unserializable \/ Len(pending) >= MaxPending \/ PendingBytes >= MaxQueueBytes
  THEN rejected' = rejected \cup {e} /\ UNCHANGED pending
  ELSE pending' = Append(pending, e) /\ UNCHANGED rejected

\* An event is refused whose bytes cannot be told, or that finds no room.
Enqueue(e) ==
  IF \/ e \in Unserializable
     \/ Len(pending) >= MaxPending \/ EventBytes[e] > MaxQueueBytes - PendingBytes
  THEN rejected' = rejected \cup {e} /\ UNCHANGED pending
  ELSE pending' = Append(pending, e) /\ UNCHANGED rejected

\* Variant: the event that fails is not kept.
GiveUp(e) == UNCHANGED <<pending, rejected>>

\* What deliver does about an event it could not send.
KeepFailed(e) == Enqueue(e)

\* An event may not overtake those that wait.
HoldBack == worker.retry \/ ~worker.adapter \/ pending # <<>>

------------------------------------------------------------------------------
(* start, deliver                                                           *)

\* addAdapterInternal has registered the worker; start takes its lock.
Start ==
  /\ ~worker.started /\ op = Free
  /\ worker' = [worker EXCEPT !.started = TRUE]
  /\ op' = [Free EXCEPT !.by = "start", !.at = "init"]
  /\ UNCHANGED <<chVars, pending, offered, rejected, dropped, crashed, stops>>

\* initialize succeeds or fails, for start and for the retry task.
Initialize ==
  /\ op.at = "init"
  /\ worker' = [worker EXCEPT !.adapter = TRUE]
  /\ op' = IF op.by = "start" THEN Free ELSE [op EXCEPT !.at = "flush"]
  /\ UNCHANGED <<chVars, pending, offered, rejected, dropped, crashed, stops>>

InitializeFails ==
  /\ op.at = "init" /\ failures < MaxFailures
  /\ failures' = failures + 1
  /\ worker' = Failed(worker) /\ op' = Free
  /\ UNCHANGED <<buffers, job, result, durable, pending, offered, rejected, dropped,
                 crashed, stops>>

Deliver(e) ==
  /\ op = Free /\ offered[e] < Copies
  /\ worker.started \/ HotAdd
  /\ offered' = [offered EXCEPT ![e] = @ + 1]
  /\ IF worker.closed THEN rejected' = rejected \cup {e} /\ UNCHANGED <<op, pending>>
     ELSE IF HoldBack THEN Enqueue(e) /\ UNCHANGED op
     ELSE /\ op' = [Free EXCEPT !.by = "deliver", !.at = "call", !.ev = e]
          /\ UNCHANGED <<pending, rejected>>
  /\ UNCHANGED <<chVars, worker, dropped, crashed, stops>>

\* The holder of the delivery lock enters the adapter's monitor.
Call ==
  /\ op.at = "call"
  /\ Enter(IF op.by = "close" THEN "close" ELSE "caller",
           IF op.ev = None THEN "flush" ELSE "send", op.ev)
  /\ op' = [op EXCEPT !.at = "wait"]
  /\ UNCHANGED <<buffers, result, durable, failures, worker, pending, offered, rejected,
                 dropped, crashed, stops>>

Returned(outcome) ==
  /\ op.at = "wait" /\ result.caller = outcome
  /\ result' = [result EXCEPT !.caller = "none"]
  /\ UNCHANGED <<buffers, job, durable, failures, offered, crashed, stops>>

Sent ==
  /\ Returned("ok") /\ op.by = "deliver"
  /\ worker' = Recovered(worker) /\ op' = Free
  /\ UNCHANGED <<pending, rejected, dropped>>

NotSent ==
  /\ Returned("failed") /\ op.by = "deliver"
  /\ worker' = Failed(worker) /\ op' = Free
  /\ KeepFailed(op.ev)
  /\ UNCHANGED dropped

------------------------------------------------------------------------------
(* retry                                                                    *)

RetryFires ==
  /\ worker.retry /\ op = Free
  /\ worker' = [worker EXCEPT !.retry = FALSE]
  /\ op' = IF worker.closed THEN Free
           ELSE [Free EXCEPT !.by = "retry",
                   !.at = IF worker.adapter THEN "flush" ELSE "init"]
  /\ UNCHANGED <<chVars, pending, offered, rejected, dropped, crashed, stops>>

\* The buffers a background flush could not write are written before anything else.
FlushFirst ==
  /\ op.at = "flush"
  /\ op' = [op EXCEPT !.at = IF worker.flush THEN "call" ELSE "drain", !.ev = None]
  /\ UNCHANGED <<chVars, worker, pending, offered, rejected, dropped, crashed, stops>>

Flushed ==
  /\ Returned("ok") /\ op.by = "retry" /\ op.ev = None
  /\ worker' = [worker EXCEPT !.flush = FALSE]
  /\ op' = [op EXCEPT !.at = "drain"]
  /\ UNCHANGED <<pending, rejected, dropped>>

DrainNext ==
  /\ op.at = "drain" /\ op.n < DrainBatch /\ pending # <<>> /\ ~worker.closed
  /\ op' = [op EXCEPT !.at = "call", !.ev = Head(pending), !.n = @ + 1]
  /\ UNCHANGED <<chVars, worker, pending, offered, rejected, dropped, crashed, stops>>

Drained ==
  /\ Returned("ok") /\ op.by = "retry" /\ op.ev # None
  /\ worker' = Recovered(worker) /\ pending' = Tail(pending)
  /\ op' = [op EXCEPT !.at = "drain"]
  /\ UNCHANGED <<rejected, dropped>>

RetryFails ==
  /\ Returned("failed") /\ op.by = "retry"
  /\ worker' = Failed(worker) /\ op' = Free
  /\ UNCHANGED <<pending, rejected, dropped>>

\* Variant: a drain that stops at its limit leaves the rest for later.
ScheduleNothing(w) == Recovered(w)

\* What is left after DRAIN_BATCH_SIZE events is continued at once.
ScheduleRest(w) == IF pending # <<>> THEN [w EXCEPT !.retry = TRUE] ELSE Recovered(w)

DrainEnds ==
  /\ op.at = "drain"
  /\ op.n = DrainBatch \/ pending = <<>> \/ worker.closed
  /\ worker' = IF worker.closed THEN worker ELSE ScheduleRest(worker)
  /\ op' = Free
  /\ UNCHANGED <<chVars, pending, offered, rejected, dropped, crashed, stops>>

------------------------------------------------------------------------------
(* The background flusher                                                   *)

ShutDown == op.by = "close" /\ op.at \in {"wait", "gone"}

\* flushQuietly is called and waits for the monitor.
FlushTick ==
  /\ worker.adapter /\ ~ShutDown
  /\ result.flusher = "none" /\ job.by # "flusher"
  /\ result' = [result EXCEPT !.flusher = "waiting"]
  /\ UNCHANGED <<buffers, job, durable, failures, workerVars>>

\* A paused adapter is left alone.
FlushEnters ==
  /\ result.flusher = "waiting" /\ job.by = "none"
  /\ result' = [result EXCEPT !.flusher = "none"]
  /\ IF worker.paused THEN UNCHANGED job ELSE Enter("flusher", "flush", None)
  /\ UNCHANGED <<buffers, durable, failures, workerVars>>

\* A scheduled retry owns the recovery.
Reported(w) ==
  IF w.retry THEN [w EXCEPT !.flush = TRUE] ELSE Failed([w EXCEPT !.flush = TRUE])

\* backgroundFailure: the flusher, outside the monitor, waits for the delivery lock.
Report ==
  /\ result.flusher = "failed" /\ op = Free
  /\ result' = [result EXCEPT !.flusher = "none"]
  /\ worker' = IF worker.closed THEN worker ELSE Reported(worker)
  /\ UNCHANGED <<buffers, job, durable, failures, pending, op, offered, rejected, dropped,
                 crashed, stops>>

------------------------------------------------------------------------------
(* close, and the worker that follows                                       *)

\* The flag is set, and a retry that has not begun is cancelled, without the lock.
CloseStarts ==
  /\ ~worker.closed /\ worker.started /\ op.by # "start" /\ stops < MaxStops
  /\ worker' = [worker EXCEPT !.closed = TRUE]
  /\ stops' = stops + 1
  /\ UNCHANGED <<chVars, pending, op, offered, rejected, dropped, crashed>>

CloseLocks ==
  /\ worker.closed /\ op = Free
  /\ rejected' = rejected \cup Range(pending) /\ pending' = <<>>
  /\ worker' = [worker EXCEPT !.retry = FALSE]
  /\ op' = [Free EXCEPT !.by = "close", !.at = IF worker.adapter THEN "call" ELSE "gone"]
  /\ UNCHANGED <<chVars, offered, dropped, crashed, stops>>

\* adapter.close threw or not: the adapter is let go, with what it still holds.
Closed ==
  /\ op.by = "close" /\ (\E outcome \in {"ok", "failed"} : Returned(outcome))
  /\ dropped' = dropped \cup Buffered
  /\ op' = [op EXCEPT !.at = "gone"]
  /\ UNCHANGED <<worker, pending, rejected>>

\* addAdapter registers a new worker for the same output.
Restart ==
  /\ op.at = "gone" /\ job = NoJob /\ result.flusher = "none"
  /\ worker' = NewWorker /\ op' = Free
  /\ legacy' = <<>> /\ order' = <<>> /\ old' = {} /\ got' = [c \in Chunks |-> {}]
  /\ UNCHANGED <<job, result, durable, failures, pending, offered, rejected, dropped,
                 crashed, stops>>

\* A report the flusher makes after close finds no handler.
ReportToNobody ==
  /\ op.at = "gone" /\ result.flusher = "failed"
  /\ result' = [result EXCEPT !.flusher = "none"]
  /\ UNCHANGED <<buffers, job, durable, failures, workerVars>>

InFlight == IF op.ev = None THEN {} ELSE {op.ev}

\* The process dies: ClickHouse and the DLQ remain.
Crash ==
  /\ stops < MaxStops
  /\ stops' = stops + 1
  /\ crashed' = crashed \cup Buffered \cup Range(pending) \cup InFlight
  /\ worker' = NewWorker /\ pending' = <<>> /\ op' = Free
  /\ legacy' = <<>> /\ order' = <<>> /\ old' = {} /\ got' = [c \in Chunks |-> {}]
  /\ job' = NoJob /\ result' = [caller |-> "none", flusher |-> "none"]
  /\ UNCHANGED <<durable, failures, offered, rejected, dropped>>

------------------------------------------------------------------------------
Adapter == (InMonitor \/ Failing \/ \E c \in Chunks : Age(c)) /\ UNCHANGED workerVars

\* Steps of whoever holds the delivery lock, or is about to close the worker.
Holding == \/ Start \/ Initialize \/ Call \/ Sent \/ NotSent \/ FlushFirst \/ Flushed
           \/ DrainNext \/ Drained \/ RetryFails \/ DrainEnds
           \/ CloseLocks \/ Closed \/ Restart

Flushing == FlushTick \/ FlushEnters \/ Report \/ ReportToNobody

Next == \/ Adapter \/ Holding \/ Flushing \/ InitializeFails \/ RetryFires
        \/ CloseStarts \/ Crash
        \/ \E e \in Events : Deliver(e)

Spec == Init /\ [][Next]_vars

\* The threads make progress, a scheduled retry runs, the flusher keeps ticking and
\* clocks advance; nothing has to fail, arrive, be closed or crash.  The flusher
\* sleeps between two ticks (scheduleWithFixedDelay), so a caller that waits for the
\* monitor gets it.
LivenessSpec ==
  /\ Spec
  /\ WF_vars(InMonitor /\ UNCHANGED workerVars)
  /\ WF_vars(Holding) /\ SF_vars(Call) /\ WF_vars(RetryFires) /\ WF_vars(Flushing)
  /\ \A c \in Chunks : WF_vars(Age(c) /\ UNCHANGED workerVars)

------------------------------------------------------------------------------
(* What must hold                                                           *)

Tokens == [table : Tables, chunk : Chunks \cup {None}, body : Seq(Events)]
JobType == [by : {"none", "caller", "close", "flusher"},
            at : {"idle", "send", "flush", "groups", "insert", "dlq", "best"},
            ev : Events \cup {None}, placed : BOOLEAN, what : {"none", "legacy", "group", "one"},
            chunk : Chunks \cup {None}, recs : Seq(Events), left : Seq(Tables), todo : Seq(Chunks)]
ResultType == [caller : {"none", "ok", "failed"}, flusher : {"none", "waiting", "failed"}]
WorkerType == [started : BOOLEAN, adapter : BOOLEAN, retry : BOOLEAN, flush : BOOLEAN,
               closed : BOOLEAN, paused : BOOLEAN]
OpType == [by : {"none", "start", "deliver", "retry", "close"},
           at : {"idle", "init", "call", "wait", "flush", "drain", "gone"},
           ev : Events \cup {None}, n : 0..DrainBatch]

\* Every variable has its type.
TypeOK ==
  /\ legacy \in Seq(Legacy) /\ order \in Seq(Chunks)
  /\ got \in [Chunks -> SUBSET Nat] /\ old \subseteq Chunks
  /\ job \in JobType /\ result \in ResultType
  /\ dlq \in Seq(Seq(Events)) /\ pruned \subseteq Events
  /\ rows \in [Tables -> [Events -> Nat]] /\ tokens \subseteq Tokens
  /\ failures \in 0..MaxFailures /\ stops \in 0..MaxStops
  /\ worker \in WorkerType /\ pending \in Seq(Events) /\ op \in OpType
  /\ offered \in [Events -> 0..Copies]
  /\ rejected \subseteq Events /\ dropped \subseteq Events /\ crashed \subseteq Events

\* e has its rows in every table it has rows for.
Stored(e) == \A t \in Tables : HasRows(e, t) => rows[t][e] > 0

\* Where an event may be once deliver has been called with it: OutputDeliveryWorker
\* and the adapter never lose one without a word, however calls fail and interleave.
NothingVanishes ==
  \A e \in Events : offered[e] > 0 =>
    \/ e \in Range(pending) \cup InFlight \cup Buffered \cup InDlq \cup pruned
    \/ Stored(e)
    \/ e \in rejected \cup dropped \cup crashed

\* The stable token of writeRecords: an item of a chunk has its rows once in each
\* canonical table, however often it is delivered, retried or replayed.
ChunkOnce ==
  \A e \in ChunkEvents : \A t \in RowsIn[e] : rows[t][e] <= 1

\* quarantineIncompleteRecords keeps an incomplete chunk out of the canonical
\* tables: each of them has all the rows of a chunk or none.
CanonicalWhole ==
  \A c \in Chunks, t \in Range(Canonical) :
    LET mine == {s \in 1..Items[c] : t \in RowsIn[<<c, s>>]} IN
    \/ \A s \in mine : rows[t][<<c, s>>] > 0
    \/ \A s \in mine : rows[t][<<c, s>>] = 0

\* A chunk that has reached some of its canonical tables and not the others is
\* still held in memory for the retry, unless memory was lost since.
HalfWrittenRetained ==
  \A c \in Chunks :
    LET mine    == {<<c, s>> : s \in 1..Items[c]}
        written == {e \in mine : Stored(e)} IN
    \/ written = mine
    \/ \A e \in mine : \A t \in RowsIn[e] : rows[t][e] = 0
    \/ ItemsOf(c) = mine \/ job.chunk = c
    \/ mine \cap (Range(pending) \cup InFlight \cup rejected \cup dropped \cup crashed) # {}

\* While nobody holds the delivery lock, waiting events, a missing adapter, an
\* unwritten buffer or a paused flusher have a retry scheduled that will see to them.
RetryArmed ==
  /\ op = Free /\ worker.started /\ ~worker.closed
  /\ pending # <<>> \/ ~worker.adapter \/ worker.flush \/ worker.paused
  => worker.retry

\* The buffers of the adapter, the retry queue (its events and their estimated bytes)
\* and the records of the DLQ stay within their configured limits.
MemoryBounded ==
  /\ LegacyBytes + ChunkBytes <= MaxPendingBytes
  /\ Len(order) <= MaxPendingGroups /\ ChunkItems <= MaxPendingItems
  /\ Len(pending) <= MaxPending /\ PendingBytes <= MaxQueueBytes
  /\ Len(dlq) <= MaxDlqRecords

Settled(e) == Stored(e) \/ e \in InDlq \cup pruned \cup rejected \cup dropped \cup crashed

\* With finitely many failures every event the output is given is stored,
\* quarantined or counted as rejected in the end, unless it was in memory when the
\* process died or the adapter could not be closed cleanly.
Settles == \A e \in Events : (offered[e] > 0) ~> Settled(e)

------------------------------------------------------------------------------
(* Instances of Items, Size, RowsIn and EventBytes for TLC.                 *)

TwoItems == [c \in Chunks |-> 2]
UnitSize == [e \in Events |-> 1]

\* All items of the first chunk fit; the second items of the others exceed a
\* limit of four bytes.
Uneven == [e \in Events |->
             IF e \in Legacy THEN 2
             ELSE IF e[2] = 1 THEN 1
             ELSE IF e[1] = (CHOOSE c \in Chunks : TRUE) THEN 2 ELSE 5]

\* The queue keeps an event with its text and an overhead.
WithOverhead == [e \in Events |-> 1 + Size[e]]

\* The first item has metrics, the second metrics and states; legacy events have none.
Mixed == [e \in Events |-> IF e \in Legacy THEN {}
                           ELSE IF e[2] = 1 THEN {"metric"} ELSE {"metric", "state"}]
==============================================================================
