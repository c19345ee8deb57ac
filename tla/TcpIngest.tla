------------------------------- MODULE TcpIngest -------------------------------
(***************************************************************************)
(* Telemetry from the agents' spools to the queue of the log parser's      *)
(* input: the sender (sender.go, FlushPending in agent.go) and the server  *)
(* (TcpMtlsGzipInputAdapter.java), with the connections between them.      *)
(*                                                                         *)
(* An agent sends the batches of its spool in order, one at a time, over a *)
(* connection it keeps; batch n of agent a is <<a, n>>, and client[a].next *)
(* stands for the spool: batches before it are acknowledged or rejected.   *)
(* The server reads frames in a thread per connection, puts the items of a *)
(* batch into its bounded queue, remembers the batch and answers.  One     *)
(* thread polls the queue and accepts a connection when it found nothing.  *)
(*                                                                         *)
(* The network is external: a connection is two directions that carry at   *)
(* most one message each, and may break at any time.                       *)
(***************************************************************************)
EXTENDS Integers, Sequences, FiniteSets, SequencesExt, FiniteSetsExt

CONSTANTS
  Agents,
  Batches,        \* bound: batches each agent has to send
  Unsendable,     \* batches the agent refuses: no JSON, or more than 8 MiB encoded
  Bad,            \* batches the server cannot accept: toLogEvents throws
  Items,          \* items of a batch
  Slots,          \* bound: connections of one agent at a time, old ones included
  QueueSize, MaxConnections,
  RecentLimit,    \* RECENT_BATCH_LIMIT
  MaxTroubles,    \* bound: timeouts, broken connections, agent restarts, TLS reloads
  MaxCloses,      \* bound: closings of the adapter (pipeline reload)
  MaxCrashes      \* bound: deaths of the log parser

Batch == Agents \X (1..Batches)
None  == <<>>

ASSUME IngestAssumption ==
  /\ Batches \in Nat /\ Bad \subseteq Batch /\ Unsendable \subseteq Batch /\ Items \in Nat \ {0}
  /\ Slots \in Nat \ {0} /\ QueueSize \in Nat \ {0} /\ MaxConnections \in Nat \ {0}
  /\ RecentLimit \in Nat /\ MaxTroubles \in Nat /\ MaxCloses \in Nat /\ MaxCrashes \in Nat

VARIABLES
  client,    \* client[a]: the sender of agent a
  link,      \* link[a][k]: the k-th connection of agent a, with its server thread
  queue,     \* eventQueue: items <<batch, i>>
  recent,    \* recentBatches, in insertion order
  holder,    \* who holds enqueueLock
  listener,  \* the server socket: "open", "lost" (restore failed), "closed"
  taken,     \* taken[b]: how often the running adapter put b into its queue
  ever,      \* batches put into a queue by any adapter
  rejected,  \* batches moved to the agent's dead letters
  dropped,   \* items in the queue of an adapter that was closed
  troubles, closes, crashes

server == <<queue, recent, holder, listener>>
ghosts == <<taken, ever, rejected, dropped>>
bounds == <<troubles, closes, crashes>>
vars == <<client, link, server, ghosts, bounds>>

Fresh(stage) == [stage |-> stage, up |-> None, down |-> "none", at |-> "idle",
                 batch |-> None, left |-> 0, old |-> FALSE]
NoLink == Fresh("none")
Idle == [at |-> "rest", conn |-> 0, reused |-> FALSE, again |-> FALSE, next |-> 1]

Init ==
  /\ client = [a \in Agents |-> Idle]
  /\ link = [a \in Agents |-> [k \in 1..Slots |-> NoLink]]
  /\ queue = <<>> /\ recent = <<>> /\ holder = None /\ listener = "open"
  /\ taken = [b \in Batch |-> 0] /\ ever = {}
  /\ rejected = {} /\ dropped = {}
  /\ troubles = 0 /\ closes = 0 /\ crashes = 0

Trouble == /\ troubles < MaxTroubles
           /\ troubles' = troubles + 1
           /\ UNCHANGED <<closes, crashes>>

------------------------------------------------------------------------------
(* The sender                                                               *)

Current(a) == client[a].conn
Sending(a) == <<a, client[a].next>>
Client(a, c) == client' = [client EXCEPT ![a] = c]

\* Variant: a connection on which an answer is overdue is kept.
KeepConnection(a) ==
  [client[a] EXCEPT !.at = "rest", !.again = FALSE]

\* sendEncoded fails: the connection is closed, and Send tries once more on a fresh
\* one if the connection was a cached one.
AfterError(a) ==
  IF client[a].reused /\ ~client[a].again
  THEN [client[a] EXCEPT !.at = "dial", !.conn = 0, !.reused = FALSE, !.again = TRUE]
  ELSE [client[a] EXCEPT !.at = "rest", !.conn = 0, !.reused = FALSE, !.again = FALSE]

\* A record that cannot be sent goes to the dead letters without the server.
RefuseLocally(a) ==
  /\ client[a].at = "rest" /\ Sending(a) \in Unsendable
  /\ rejected' = rejected \cup {Sending(a)}
  /\ Client(a, [client[a] EXCEPT !.next = @ + 1])
  /\ UNCHANGED <<link, server, taken, ever, dropped, bounds>>

\* FlushPending takes the next record; a cached connection is used again.
StartSend(a) ==
  /\ client[a].at = "rest" /\ Sending(a) \in Batch \ Unsendable
  /\ Client(a, [client[a] EXCEPT !.again = FALSE, !.reused = Current(a) # 0,
                  !.at = IF Current(a) # 0 THEN "write" ELSE "dial"])
  /\ UNCHANGED <<link, server, ghosts, bounds>>

\* The cached connection has not been used for maxIdle.
DropIdle(a) ==
  /\ client[a].at = "rest" /\ Current(a) # 0 /\ Trouble
  /\ Client(a, [client[a] EXCEPT !.conn = 0])
  /\ UNCHANGED <<link, server, ghosts>>

\* The TCP connection is established by the server's kernel; the handshake ends when
\* the server has accepted it.
Dial(a) ==
  LET free == {k \in 1..Slots : link[a][k].stage = "none"} IN
  /\ client[a].at = "dial" /\ listener = "open" /\ free # {}
  /\ link' = [link EXCEPT ![a][Min(free)] = Fresh("backlog")]
  /\ Client(a, [client[a] EXCEPT !.at = "write", !.conn = Min(free)])
  /\ UNCHANGED <<server, ghosts, bounds>>

DialFails(a) ==
  /\ client[a].at = "dial" /\ listener # "open" /\ Trouble
  /\ Client(a, AfterError(a))
  /\ UNCHANGED <<link, server, ghosts>>

Write(a) ==
  /\ client[a].at = "write" /\ link[a][Current(a)].stage = "serving"
  /\ link' = [link EXCEPT ![a][Current(a)].up = Sending(a)]
  /\ Client(a, [client[a] EXCEPT !.at = "await"])
  /\ UNCHANGED <<server, ghosts, bounds>>

\* The server has closed the connection: the handshake, the write or the read fails.
SeesClosed(a) ==
  /\ client[a].at \in {"write", "await"}
  /\ link[a][Current(a)].stage = "over" /\ link[a][Current(a)].down = "none"
  /\ Client(a, AfterError(a))
  /\ UNCHANGED <<link, server, ghosts, bounds>>

\* What a sender does when no answer comes: the deadline of the operation passes, or
\* the connection breaks.
Overdue(a) == AfterError(a)

TimesOut(a) ==
  /\ client[a].at = "await" /\ Trouble
  /\ Client(a, Overdue(a))
  /\ UNCHANGED <<link, server, ghosts>>

\* Variant: a full queue is taken for a verdict on the batch.
PermanentUnlessOk(code) == code # "ok"

Permanent(code) == code = "bad"

\* The answer is read.  The spool lets go of the record, unless removing it fails;
\* a permanent refusal closes the connection and moves the record to the dead
\* letters; a transient one ends FlushPending.
ReadReply(a) ==
  LET k == Current(a)  code == link[a][k].down
      rest == [client[a] EXCEPT !.at = "rest"] IN
  /\ client[a].at = "await" /\ code # "none"
  /\ link' = [link EXCEPT ![a][k].down = "none"]
  /\ \/ /\ code = "ok"
        /\ Client(a, [rest EXCEPT !.next = @ + 1])
        /\ UNCHANGED <<rejected, bounds>>
     \/ /\ code = "ok" /\ Trouble
        /\ Client(a, rest)
        /\ UNCHANGED rejected
     \/ /\ code # "ok" /\ Permanent(code)
        /\ Client(a, [rest EXCEPT !.conn = 0, !.next = @ + 1])
        /\ rejected' = rejected \cup {Sending(a)}
        /\ UNCHANGED bounds
     \/ /\ code # "ok" /\ ~Permanent(code)
        /\ Client(a, rest)
        /\ UNCHANGED <<rejected, bounds>>
  /\ UNCHANGED <<server, taken, ever, dropped>>

AgentRestarts(a) ==
  /\ client[a] # [Idle EXCEPT !.next = client[a].next] /\ Trouble
  /\ Client(a, [Idle EXCEPT !.next = client[a].next])
  /\ UNCHANGED <<link, server, ghosts>>

------------------------------------------------------------------------------
(* The server's connection threads                                          *)

Set(a, k, l) == link' = [link EXCEPT ![a][k] = l]
Attached(a, k) == Current(a) = k
Serving == {c \in Agents \X (1..Slots) : /\ link[c[1]][c[2]].stage = "serving"
                                         /\ ~link[c[1]][c[2]].old}
\* The adapter of this thread was closed.
Stopped(l) == l.old \/ listener = "closed"

\* The socket is closed and the permit released; a client that is still there can
\* read what was sent before.
Over(reply) == [stage |-> "over", up |-> None, down |-> reply, at |-> "idle",
                batch |-> None, left |-> 0, old |-> FALSE]
Ended(a, k) == Over(link[a][k].down)

\* writeAck or writeNack: the thread goes on reading, unless the frame was bad or
\* the adapter was closed meanwhile.
Answered(a, k, code) ==
  LET l == link[a][k]
      reply == IF Attached(a, k) THEN code ELSE "none" IN
  IF code # "bad" /\ ~Stopped(l)
  THEN [l EXCEPT !.at = "reading", !.batch = None, !.left = 0, !.down = reply]
  ELSE Over(reply)

ReadFrame(a, k) ==
  LET l == link[a][k] IN
  /\ l.at = "reading" /\ l.up # None
  /\ Set(a, k, IF l.up \in Bad THEN Answered(a, k, "bad")
               ELSE [l EXCEPT !.up = None, !.batch = l.up, !.at = "enqueue"])
  /\ UNCHANGED <<client, server, ghosts, bounds>>

\* The client has gone: EOF.
ReadsEnd(a, k) ==
  /\ link[a][k].at = "reading" /\ link[a][k].up = None /\ ~Attached(a, k)
  /\ Set(a, k, Ended(a, k))
  /\ UNCHANGED <<client, server, ghosts, bounds>>

\* Idle for timeoutMs.
Retire(a, k) ==
  /\ link[a][k].at = "reading" /\ link[a][k].up = None /\ Trouble
  /\ Set(a, k, Ended(a, k))
  /\ UNCHANGED <<client, server, ghosts>>

\* Variant: the lock is not taken.
AnyTime == TRUE

LockFree == holder = None

\* Variant: the key of a batch leaves its number out.
KeyOfSource(b) == <<b[1]>>

recentBatchKey(b) == b

\* Variant: one place stays free.
FitsLess == Items < QueueSize - Len(queue)

Fits == Items <= QueueSize - Len(queue)

\* enqueueBatchAtomically enters its lock: a known batch is acknowledged again, one
\* that does not fit is refused as a whole.
Enqueue(a, k) ==
  /\ link[a][k].at = "enqueue" /\ ~link[a][k].old /\ LockFree
  /\ IF recentBatchKey(link[a][k].batch) \in Range(recent)
     THEN Set(a, k, Answered(a, k, "ok")) /\ UNCHANGED holder
     ELSE IF ~Fits
     THEN Set(a, k, Answered(a, k, "full")) /\ UNCHANGED holder
     ELSE /\ Set(a, k, [link[a][k] EXCEPT !.at = "adding", !.left = Items])
          /\ holder' = <<a, k>>
  /\ UNCHANGED <<client, queue, recent, listener, ghosts, bounds>>

\* Variant: the memory is bounded by the wrong limit.
RememberLess(key) ==
  LET all == Append(recent, key) IN
  IF Len(all) > MaxConnections THEN Tail(all) ELSE all

Remember(key) ==
  LET all == Append(recent, key) IN
  IF Len(all) > RecentLimit THEN Tail(all) ELSE all

\* One item is added; the input thread may poll between two of them.
Add(a, k) ==
  LET l == link[a][k] IN
  /\ l.at = "adding" /\ ~l.old
  /\ queue' = Append(queue, <<l.batch, Items - l.left + 1>>)
  /\ IF l.left > 1
     THEN /\ Set(a, k, [l EXCEPT !.left = @ - 1])
          /\ UNCHANGED <<recent, holder, taken, ever>>
     ELSE /\ Set(a, k, Answered(a, k, "ok"))
          /\ recent' = Remember(recentBatchKey(l.batch)) /\ holder' = None
          /\ taken' = [taken EXCEPT ![l.batch] = @ + 1]
          /\ ever' = ever \cup {l.batch}
  /\ UNCHANGED <<client, listener, rejected, dropped, bounds>>

\* A thread that outlives its adapter adds to a queue nobody reads, if it has room.
AddToOld(a, k) ==
  LET l == link[a][k] IN
  /\ l.old /\ l.at \in {"enqueue", "adding"}
  /\ \/ /\ Set(a, k, Answered(a, k, "ok"))
        /\ ever' = ever \cup {l.batch}
        /\ dropped' = dropped \cup ({l.batch} \X (1..Items))
     \/ /\ l.at = "enqueue"
        /\ Set(a, k, Answered(a, k, "full"))
        /\ UNCHANGED <<ever, dropped>>
  /\ UNCHANGED <<client, server, taken, rejected, bounds>>

\* The connection breaks.  A thread busy with a batch notices nothing before it
\* answers: for its client this is TimesOut.
Breaks(a, k) ==
  /\ \/ link[a][k].stage = "backlog"
     \/ link[a][k].at = "reading"
  /\ Trouble
  /\ Set(a, k, Over("none"))
  /\ UNCHANGED <<client, server, ghosts>>

\* A connection neither side uses any more.
Forget(a, k) ==
  /\ ~Attached(a, k) /\ link[a][k].stage = "over"
  /\ Set(a, k, NoLink)
  /\ UNCHANGED <<client, server, ghosts, bounds>>

------------------------------------------------------------------------------
(* The input thread: run()                                                  *)

Poll ==
  /\ listener # "closed" /\ queue # <<>>
  /\ queue' = Tail(queue)
  /\ UNCHANGED <<client, link, recent, holder, listener, ghosts, bounds>>

\* poll found nothing (what is added between poll and accept changes nothing for
\* accept): a connection beyond maxConnections is closed at once.
Accept(a, k) ==
  /\ queue = <<>> /\ listener = "open" /\ link[a][k].stage = "backlog"
  /\ Set(a, k, IF Cardinality(Serving) < MaxConnections
               THEN [link[a][k] EXCEPT !.stage = "serving", !.at = "reading"]
               ELSE Ended(a, k))
  /\ UNCHANGED <<client, server, ghosts, bounds>>

\* Connections the kernel holds for a listener that is closed are reset.
BacklogReset ==
  [a \in Agents |-> [k \in 1..Slots |->
     IF link[a][k].stage = "backlog" THEN Ended(a, k) ELSE link[a][k]]]

\* refreshTlsListenerIfDue finds new material: the listener is bound anew, or lost
\* when neither the new nor the old one can be bound.
ReloadTls ==
  /\ listener = "open" /\ Trouble
  /\ link' = BacklogReset
  /\ listener' \in {"open", "lost"}
  /\ UNCHANGED <<client, queue, recent, holder, ghosts>>

\* A later check binds it again.
RestoreListener ==
  /\ listener = "lost"
  /\ listener' = "open"
  /\ UNCHANGED <<client, link, queue, recent, holder, ghosts, bounds>>

------------------------------------------------------------------------------
(* Closing the adapter and death of the process                             *)

\* close: the listener goes and the threads are interrupted, which ends those that
\* are reading; the others finish what they do.
CloseAdapter ==
  /\ listener # "closed" /\ closes < MaxCloses
  /\ closes' = closes + 1
  /\ listener' = "closed"
  /\ link' = [a \in Agents |-> [k \in 1..Slots |->
                IF link[a][k].at = "reading" THEN Ended(a, k) ELSE BacklogReset[a][k]]]
  /\ UNCHANGED <<client, queue, recent, holder, ghosts, troubles, crashes>>

NewAdapter ==
  /\ queue' = <<>> /\ recent' = <<>> /\ listener' = "open"
  /\ taken' = [b \in Batch |-> 0]

\* The pipeline is started again with an adapter of its own; nothing waits for the
\* threads of the old one.
ReopenAdapter ==
  /\ listener = "closed"
  /\ dropped' = dropped \cup Range(queue)
  /\ NewAdapter /\ holder' = None
  /\ link' = [a \in Agents |-> [k \in 1..Slots |->
                [link[a][k] EXCEPT !.old = link[a][k].stage = "serving"]]]
  /\ UNCHANGED <<client, ever, rejected, bounds>>

Crash ==
  /\ crashes < MaxCrashes
  /\ crashes' = crashes + 1
  /\ NewAdapter /\ holder' = None
  /\ link' = [a \in Agents |-> [k \in 1..Slots |->
                IF link[a][k].stage = "none" THEN NoLink
                ELSE Over("none")]]
  /\ UNCHANGED <<client, ever, rejected, dropped, troubles, closes>>

------------------------------------------------------------------------------
Send(a) == \/ RefuseLocally(a) \/ StartSend(a) \/ Dial(a) \/ Write(a) \/ SeesClosed(a)
           \/ ReadReply(a)

Serve(a, k) == \/ ReadFrame(a, k) \/ ReadsEnd(a, k) \/ Enqueue(a, k) \/ Add(a, k) \/ AddToOld(a, k)
               \/ Forget(a, k)

RunInput == \/ Poll \/ RestoreListener
            \/ \E a \in Agents, k \in 1..Slots : Accept(a, k)

Next ==
  \/ \E a \in Agents : \/ Send(a) \/ DropIdle(a) \/ DialFails(a) \/ TimesOut(a) \/ AgentRestarts(a)
  \/ \E a \in Agents, k \in 1..Slots : Serve(a, k) \/ Retire(a, k) \/ Breaks(a, k)
  \/ RunInput \/ ReloadTls \/ CloseAdapter \/ ReopenAdapter \/ Crash

Spec == Init /\ [][Next]_vars

\* The flush loop and the threads of the server run, and a pipeline that was stopped
\* for a reload is started again; nothing is assumed of the network.
Fairness ==
  /\ \A a \in Agents : WF_vars(Send(a))
  /\ \A a \in Agents, k \in 1..Slots : WF_vars(Serve(a, k))
  /\ WF_vars(RunInput) /\ WF_vars(ReopenAdapter)

LivenessSpec == Spec /\ Fairness

------------------------------------------------------------------------------
(* Properties                                                               *)

Item == Batch \X (1..Items)
ClientType == [at : {"rest", "dial", "write", "await"}, conn : 0..Slots,
               reused : BOOLEAN, again : BOOLEAN, next : 1..(Batches + 1)]
LinkType == [stage : {"none", "backlog", "serving", "over"}, up : Batch \cup {None},
             down : {"ok", "full", "bad", "none"},
             at : {"idle", "reading", "enqueue", "adding"},
             batch : Batch \cup {None}, left : 0..Items, old : BOOLEAN]

\* Every variable has its type.
TypeOK ==
  /\ client \in [Agents -> ClientType]
  /\ link \in [Agents -> [1..Slots -> LinkType]]
  /\ queue \in Seq(Item) /\ recent \in Seq(Batch)
  /\ holder \in (Agents \X (1..Slots)) \cup {None}
  /\ listener \in {"open", "lost", "closed"}
  /\ dropped \subseteq Item
  /\ taken \in [Batch -> Nat] /\ ever \subseteq Batch /\ rejected \subseteq Batch
  /\ troubles \in 0..MaxTroubles /\ closes \in 0..MaxCloses /\ crashes \in 0..MaxCrashes

\* What the spool of an agent lets go of was put into the server's queue as a whole,
\* or refused for good: no answer is ever taken for the answer to another batch
\* (sendEncoded closes a connection on which an answer is outstanding; the key of a
\* known batch names its source).
AckedTaken ==
  \A a \in Agents :
    \A n \in 1..(client[a].next - 1) : <<a, n>> \in ever \cup rejected

\* Only a batch that can never be accepted is given up: a full queue, a broken or a
\* closed connection never moves a record to the dead letters.
GivenUpOnlyHopeless == rejected \subseteq Bad \cup Unsendable

\* While its key is remembered, a batch that is sent again, after a lost answer, over
\* a second connection or next to its own first sending, is put into the queue once
\* (enqueueBatchAtomically).
TakenOnce == \A b \in Batch : taken[b] <= 1

\* The items of one batch lie in the queue in one piece and in order, whichever
\* threads add and while the input thread polls.
Unbroken ==
  \A i \in 1..(Len(queue) - 1) :
    queue[i][2] < Items => queue[i + 1] = <<queue[i][1], queue[i][2] + 1>>

\* However connections end, listeners are rebound and pipelines are reloaded, every
\* agent comes to the end of its spool.
Delivered == \A a \in Agents : <>(client[a].next > Batches)

\* What the log line of the reload says ("Waiting for input queue and in-flight events
\* to drain"): items accepted from an agent are not lost by closing the adapter.
ReloadDrains == \A i \in dropped : i[1][2] >= client[i[1][1]].next

------------------------------------------------------------------------------
(* Instances: which batches of which agent are the ones nobody can deliver.   *)

OneAgent   == CHOOSE a \in Agents : TRUE
OtherAgent == CHOOSE a \in Agents \ {OneAgent} : TRUE

NoBatch      == {}
FirstOfOne   == {<<OneAgent, 1>>}
FirstOfOther == {<<OtherAgent, 1>>}
LastOfOther  == {<<OtherAgent, Batches>>}
Sym          == Permutations(Agents)
==============================================================================
