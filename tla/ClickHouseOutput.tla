--------------------------- MODULE ClickHouseOutput ---------------------------
(***************************************************************************)
(* The ClickHouse output of the log parser (ClickHouseOutputAdapter.java). *)
(* Events of a telemetry chunk are gathered until the chunk is complete    *)
(* and inserted together under a token made from the chunk's identity;     *)
(* other events share a buffer whose token is made from its contents; a    *)
(* chunk that cannot be completed goes to a bounded directory, the DLQ.    *)
(*                                                                         *)
(* One thread at a time is inside the adapter's monitor (job): the caller, *)
(* which is whoever holds the delivery lock of OutputDelivery, or the      *)
(* background flusher.  Every request to ClickHouse and every write to the *)
(* DLQ is a step, which may fail, so a step of one call may be followed by *)
(* the failure of the next.                                                *)
(*                                                                         *)
(* A write goes to the raw table and then to each canonical table its      *)
(* records have rows for, one request a table.  ClickHouse is external: it *)
(* applies an insert unless it remembers its token, and a request that     *)
(* fails may have been applied.                                            *)
(***************************************************************************)
EXTENDS Integers, Sequences, FiniteSets, SequencesExt, FiniteSetsExt

CONSTANTS
  Chunks,      \* identities of telemetry chunks: source, batch, chunk index
  Items,       \* Items[c]: the chunk_item_count of c
  Legacy,      \* events without chunk metadata
  Size,        \* Size[e]: bytes of the event's JSON row
  RowsIn,      \* RowsIn[e]: the canonical tables e has rows for
  BatchSize, MaxPendingGroups, MaxPendingItems, MaxPendingBytes,
  MaxDlqRecords,
  RepliesLost, \* bound: whether a request that fails may have been applied
  DlqFails,    \* bound: whether a write to the DLQ may fail
  MaxFailures  \* bound: requests and DLQ writes that fail

ChunkEvents == UNION {{<<c, s>> : s \in 1..Items[c]} : c \in Chunks}
Events      == ChunkEvents \cup Legacy
None        == <<>>

Canonical == <<"metric", "state", "event">>
Tables    == {"raw"} \cup Range(Canonical)

ASSUME ClickHouseAssumption ==
  /\ None \notin Chunks \cup Legacy
  /\ Items \in [Chunks -> Nat \ {0}] /\ ChunkEvents \cap Legacy = {}
  /\ Size \in [Events -> Nat \ {0}]
  /\ RowsIn \in [Events -> SUBSET Range(Canonical)]
  /\ BatchSize \in Nat \ {0} /\ MaxPendingBytes \in Nat \ {0}
  /\ MaxPendingGroups \in Nat \ {0} /\ MaxPendingItems \in Nat \ {0}
  /\ MaxDlqRecords \in Nat \ {0} /\ MaxFailures \in Nat
  /\ RepliesLost \in BOOLEAN /\ DlqFails \in BOOLEAN

VARIABLES
  legacy,    \* legacyBuffer
  order,     \* the keys of pendingChunkGroups, in insertion order
  got,       \* got[c]: the item sequences the group of c holds
  old,       \* groups created more than incompleteGroupTimeoutMs ago
  job,       \* the call inside the monitor
  result,    \* how the last call of the caller, and of the flusher, ended
  dlq,       \* the records of the DLQ directory, oldest first
  rows,      \* rows[t][e]: how often table t has the rows of e
  tokens,    \* the deduplication tokens ClickHouse remembers
  pruned,    \* DLQ records removed to make room
  failures

buffers    == <<legacy, order, got, old>>
clickhouse == <<rows, tokens>>
durable    == <<dlq, pruned, clickhouse>>
chVars == <<buffers, job, result, durable, failures>>

NoJob == [by |-> "none", at |-> "idle", ev |-> None, placed |-> FALSE,
          what |-> "none", chunk |-> None, recs |-> <<>>, left |-> <<>>, todo |-> <<>>]

------------------------------------------------------------------------------
(* The buffers                                                              *)

\* Variant: chunk metadata is not looked at.
IgnoreMetadata(e) == FALSE

IsChunkAligned(e) == e \in ChunkEvents

\* What a sequence holds of a set, in its order.
Those(s, S) ==
  LET kept[n \in 0..Len(s)] == IF n = 0 THEN <<>>
                               ELSE IF s[n] \in S THEN Append(kept[n - 1], s[n]) ELSE kept[n - 1]
  IN  kept[Len(s)]

ItemsOf(c)  == {c} \X got[c]
InGroups    == UNION {ItemsOf(c) : c \in Chunks}
\* Bytes and items are counted one by one.
LegacyBytes == Cardinality(UNION {{i} \X (1..Size[legacy[i]]) : i \in DOMAIN legacy})
ChunkBytes  == Cardinality(UNION {{e} \X (1..Size[e]) : e \in InGroups})
ChunkItems  == Cardinality(InGroups)

\* A retained group is whole once every sequence number has come.
IsComplete(c) == Cardinality(got[c]) >= Items[c]

InSequenceOrder(c, sequences) ==
  Those([s \in 1..Items[c] |-> <<c, s>>], {c} \X sequences)

RecordsInSequenceOrder(c) == InSequenceOrder(c, got[c])

RemovePendingGroup(c) ==
  /\ order' = Those(order, Chunks \ {c})
  /\ got' = [got EXCEPT ![c] = {}]
  /\ old' = old \ {c}
  /\ UNCHANGED legacy

\* Time passes: a group reaches incompleteGroupTimeoutMs.
Age(c) ==
  /\ c \in Range(order) \ old
  /\ old' = old \cup {c}
  /\ UNCHANGED <<legacy, order, got, job, result, durable, failures>>

------------------------------------------------------------------------------
(* Entering and leaving the monitor                                         *)

Enter(by, at, e) ==
  /\ job.by = "none"
  /\ job' = [NoJob EXCEPT !.by = by, !.at = at, !.ev = e]

\* The call ends; the flusher's success is of no interest to anybody.
Leave(outcome) ==
  /\ job' = NoJob
  /\ result' = IF job.by # "flusher" THEN [result EXCEPT !.caller = outcome]
               ELSE IF outcome = "failed" THEN [result EXCEPT !.flusher = "failed"]
               ELSE result

HasRows(e, table) == table = "raw" \/ table \in RowsIn[e]

\* The tables a write goes to, in that order.
TablesOf(recs) ==
  <<"raw">> \o Those(Canonical, UNION {RowsIn[e] : e \in Range(recs)})

\* Start writing records: to the tables, or to the DLQ and then the raw table.
WriteJob(what, c, recs) ==
  [job EXCEPT !.at = "insert", !.what = what, !.chunk = c, !.recs = recs,
              !.left = TablesOf(recs)]
QuarantineJob(what, c, recs) ==
  [job EXCEPT !.at = "dlq", !.what = what, !.chunk = c, !.recs = recs,
              !.left = <<"raw">>]

FlushLegacy == WriteJob("legacy", None, legacy)

\* Variant: a group that has to go is inserted as it is.
FlushGroupUnchecked(c) == WriteJob("group", c, RecordsInSequenceOrder(c))

FlushChunkGroup(c) ==
  IF IsComplete(c) THEN WriteJob("group", c, RecordsInSequenceOrder(c))
  ELSE QuarantineJob("group", c, RecordsInSequenceOrder(c))

------------------------------------------------------------------------------
(* send                                                                     *)

NeedsLegacyFlush(e) ==
  legacy # <<>> /\ LegacyBytes + ChunkBytes + Size[e] > MaxPendingBytes

SendLegacy(e) ==
  IF NeedsLegacyFlush(e)
  THEN job' = FlushLegacy /\ UNCHANGED <<buffers, result>>
  ELSE IF order # <<>> /\ ChunkBytes + Size[e] > MaxPendingBytes
  THEN job' = FlushChunkGroup(Head(order)) /\ UNCHANGED <<buffers, result>>
  ELSE IF Size[e] > MaxPendingBytes
  THEN job' = WriteJob("one", None, <<e>>) /\ UNCHANGED <<buffers, result>>
  ELSE /\ legacy' = Append(legacy, e)
       /\ UNCHANGED <<order, got, old>>
       /\ IF Len(legacy) + 1 >= BatchSize \/ LegacyBytes + Size[e] >= MaxPendingBytes
          THEN job' = [WriteJob("legacy", None, Append(legacy, e)) EXCEPT !.placed = TRUE]
               /\ UNCHANGED result
          ELSE Leave("ok")

\* Room for one more item of e's chunk, which may already have a group.
HasRoom(e) ==
  LET c == e[1]  there == e[2] \in got[c] IN
  /\ Len(order) + (IF c \in Range(order) THEN 0 ELSE 1) <= MaxPendingGroups
  /\ ChunkItems + (IF there THEN 0 ELSE 1) <= MaxPendingItems
  /\ LegacyBytes + ChunkBytes + (IF there THEN 0 ELSE Size[e]) <= MaxPendingBytes

SendChunkItem(e) ==
  LET c == e[1]  filled == got[c] \cup {e[2]} IN
  IF Items[c] = 1
  THEN job' = WriteJob("one", c, <<e>>) /\ UNCHANGED <<buffers, result>>
  ELSE IF NeedsLegacyFlush(e)
  THEN job' = FlushLegacy /\ UNCHANGED <<buffers, result>>
  ELSE IF Size[e] > MaxPendingBytes
  THEN job' = QuarantineJob("one", c, <<e>>) /\ UNCHANGED <<buffers, result>>
  ELSE IF ~HasRoom(e)
  THEN job' = FlushChunkGroup(Head(order)) /\ UNCHANGED <<buffers, result>>
  ELSE /\ order' = IF c \in Range(order) THEN order ELSE Append(order, c)
       /\ got' = [got EXCEPT ![c] = filled]
       /\ UNCHANGED <<legacy, old>>
       /\ IF Cardinality(filled) >= Items[c]
          THEN job' = [WriteJob("group", c, InSequenceOrder(c, filled)) EXCEPT
                         !.placed = TRUE]
               /\ UNCHANGED result
          ELSE Leave("ok")

\* send is entered, and entered again each time it has made room.
Send ==
  /\ job.at = "send"
  /\ IF IsChunkAligned(job.ev) THEN SendChunkItem(job.ev) ELSE SendLegacy(job.ev)
  /\ UNCHANGED <<durable, failures>>

------------------------------------------------------------------------------
(* flushQuietly, retryPendingFlush and close                                *)

\* The shared buffer first, then the groups: those that have expired, or all.
Flush ==
  /\ job.at = "flush"
  /\ job' = IF legacy # <<>> THEN FlushLegacy
            ELSE [job EXCEPT !.at = "groups",
                    !.todo = IF job.by = "close" THEN order
                             ELSE Those(order, old)]
  /\ UNCHANGED <<buffers, result, durable, failures>>

FlushNextGroup ==
  /\ job.at = "groups" /\ job.todo # <<>>
  /\ job' = [FlushChunkGroup(Head(job.todo)) EXCEPT !.todo = Tail(@)]
  /\ UNCHANGED <<buffers, result, durable, failures>>

FlushEnds ==
  /\ job.at = "groups" /\ job.todo = <<>>
  /\ Leave("ok")
  /\ UNCHANGED <<buffers, durable, failures>>

------------------------------------------------------------------------------
(* writeRecords and quarantineIncompleteRecords                             *)

\* Variant: the token covers the time of sending, which every attempt renews.
TokenOfAttempt(table) == [table |-> table, chunk |-> None, body |-> <<failures>>]

RecordsFor(table) == Those(job.recs, {e \in Events : HasRows(e, table)})

\* The token of a complete chunk is its identity, that of anything else its body.
DeduplicationToken(table) ==
  IF job.at = "insert" /\ job.chunk # None
  THEN [table |-> table, chunk |-> job.chunk, body |-> <<>>]
  ELSE [table |-> table, chunk |-> None, body |-> RecordsFor(table)]

\* ClickHouse applies an insert whose token it does not remember.
Insert(table) ==
  LET token == DeduplicationToken(table)  recs == RecordsFor(table) IN
  /\ rows' = IF token \in tokens THEN rows
             ELSE [rows EXCEPT ![table] = [e \in Events |->
                     @[e] + Cardinality({i \in DOMAIN recs : recs[i] = e})]]
  /\ tokens' = tokens \cup {token}

\* What follows once the records are where they belong.
Resume ==
  IF job.placed THEN Leave("ok")
  ELSE /\ job' = [job EXCEPT !.what = "none", !.chunk = None, !.recs = <<>>,
                    !.left = <<>>, !.at = IF job.by = "caller" /\ job.ev # None THEN "send"
                           ELSE IF job.what = "legacy" THEN "flush" ELSE "groups"]
       /\ UNCHANGED result

Cleared ==
  CASE job.what = "legacy" -> legacy' = <<>> /\ UNCHANGED <<order, got, old>>
    [] job.what = "group"  -> RemovePendingGroup(job.chunk)
    [] OTHER               -> UNCHANGED buffers

Written == Cleared /\ IF job.what = "one" THEN Leave("ok") ELSE Resume

\* Variant: the buffers let go of what could not be written.
ThrowCleared == Leave("failed") /\ Cleared

\* deliveryFailure: the exception leaves the monitor, the buffers stay as they are.
Throw == Leave("failed") /\ UNCHANGED buffers

InsertNext ==
  /\ job.at \in {"insert", "best"}
  /\ Insert(Head(job.left))
  /\ IF Len(job.left) = 1 THEN Written
     ELSE job' = [job EXCEPT !.left = Tail(@)] /\ UNCHANGED <<buffers, result>>
  /\ UNCHANGED <<dlq, pruned, failures>>

\* A request fails; with lost, ClickHouse has applied it all the same.  Only the
\* audit copy of a quarantined group may be missed.
RequestFails(lost) ==
  /\ job.at \in {"insert", "best"} /\ failures < MaxFailures
  /\ lost => RepliesLost
  /\ failures' = failures + 1
  /\ IF lost THEN Insert(Head(job.left)) ELSE UNCHANGED clickhouse
  /\ IF job.at = "best" THEN Written ELSE Throw
  /\ UNCHANGED <<dlq, pruned>>

\* persist: the oldest record goes if the directory is full, then the new one is
\* published by a rename.
Persist ==
  /\ job.at = "dlq"
  /\ LET room == IF Len(dlq) < MaxDlqRecords THEN dlq ELSE Tail(dlq) IN
     /\ dlq' = Append(room, job.recs)
     /\ pruned' = pruned \cup (IF room = dlq THEN {} ELSE Range(Head(dlq)))
  /\ job' = [job EXCEPT !.at = "best"]
  /\ UNCHANGED <<buffers, result, clickhouse, failures>>

PersistFails ==
  /\ job.at = "dlq" /\ failures < MaxFailures /\ DlqFails
  /\ failures' = failures + 1
  /\ Throw
  /\ UNCHANGED durable

------------------------------------------------------------------------------
InMonitor == \/ Send \/ Flush \/ FlushNextGroup \/ FlushEnds
             \/ InsertNext \/ Persist

Failing == (\E lost \in BOOLEAN : RequestFails(lost)) \/ PersistFails

EmptyBuffers == /\ legacy = <<>> /\ order = <<>> /\ old = {}
                /\ got = [c \in Chunks |-> {}]

ChInit ==
  /\ EmptyBuffers
  /\ job = NoJob /\ result = [caller |-> "none", flusher |-> "none"]
  /\ dlq = <<>> /\ pruned = {} /\ tokens = {} /\ failures = 0
  /\ rows = [t \in Tables |-> [e \in Events |-> 0]]

\* Events the adapter holds in memory.
Buffered == Range(legacy) \cup InGroups
InDlq    == UNION {Range(dlq[i]) : i \in DOMAIN dlq}
==============================================================================
