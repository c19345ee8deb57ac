---------------------------- MODULE TcpIngestProofs ----------------------------
(* Proofs about TcpIngest: type correctness, the conversation on each          *)
(* connection, and what follows from it: no record leaves a spool without      *)
(* having been taken or being hopeless, no item of a batch is separated from   *)
(* its next, no batch is put into the queue while it is remembered.            *)
EXTENDS TcpIngest, FiniteSetTheorems, WellFoundedInduction, TLAPS

Links == Agents \X (1..Slots)
Of(c) == link[c[1]][c[2]]

\* A sender that is not at rest has a batch to send, and uses a connection from the
\* dial on.
SenderOK(a, c) ==
  /\ c.at # "rest" => <<a, c.next>> \in Batch \ Unsendable
  /\ c.at = "dial" => c.conn = 0
  /\ c.at \in {"write", "await"} => c.conn # 0

\* A thread is busy with a batch it may accept, and reads no frame meanwhile.
ThreadOK(l) ==
  /\ l.at # "idle" => l.stage = "serving"
  /\ l.at \in {"enqueue", "adding"} <=> l.batch # None
  /\ l.batch # None => l.up = None
  /\ l.at = "adding" => l.left # 0
  /\ l.batch \notin Bad \cup Unsendable /\ l.up \notin Unsendable

\* enqueueLock is held by the one thread that adds, and its batch is not a known one.
LockOK ==
  /\ holder # None => /\ Of(holder).at = "adding" /\ ~ Of(holder).old
                      /\ Of(holder).batch \notin Range(recent)
  /\ \A c \in Links : Of(c).at = "adding" /\ ~ Of(c).old => holder = c

\* On the connection an agent uses there is nothing but the batch it is sending, and
\* an answer to it is true.
TalkOK(a, c, l, E) ==
  IF c.at # "await" THEN l.up = None /\ l.batch = None /\ l.down = "none"
  ELSE /\ l.up \in {None, <<a, c.next>>} /\ l.batch \in {None, <<a, c.next>>}
       /\ l.down # "none" => l.up = None /\ l.batch = None
       /\ l.down = "ok" => <<a, c.next>> \in E
       /\ l.down = "bad" => <<a, c.next>> \in Bad
TalksOK ==
  \A a \in Agents : Current(a) # 0 => TalkOK(a, client[a], link[a][Current(a)], ever)

\* A batch is cut short at the end of the queue only, by the thread that adds the rest.
EndOK ==
  queue # <<>> /\ queue[Len(queue)][2] < Items =>
    /\ holder # None
    /\ queue[Len(queue)] = <<Of(holder).batch, Items - Of(holder).left>>

\* The inductive invariant.
IInv ==
  /\ TypeOK
  /\ \A a \in Agents : SenderOK(a, client[a])
  /\ \A a \in Agents, k \in 1..Slots : ThreadOK(link[a][k])
  /\ LockOK
  /\ TalksOK
  /\ Range(recent) \subseteq ever
  /\ AckedTaken /\ GivenUpOnlyHopeless
  /\ EndOK /\ Unbroken

--------------------------------------------------------------------------------
(* Values *)

LEMMA NoneIsNoBatch == None \notin Batch
<1>1. SUFFICES ASSUME NEW a \in Agents, NEW n \in 1..Batches, None = <<a, n>> PROVE FALSE
  BY DEF Batch
<1>2. Len(<<>>) = 0 /\ Len(<<a, n>>) = 2
  OBVIOUS
<1>. QED BY <1>1, <1>2 DEF None

LEMMA NoLinkOK == NoLink \in LinkType /\ ThreadOK(NoLink)
<1>1. None \notin Bad \cup Unsendable
  BY NoneIsNoBatch, IngestAssumption
<1>2. 0 \in 0..Items
  BY IngestAssumption
<1>. QED BY <1>1, <1>2 DEF NoLink, Fresh, LinkType, ThreadOK

LinkStates == [Agents -> [1..Slots -> LinkType]]

\* Setting one link leaves the others alone.
LEMMA SetLink ==
  ASSUME link \in LinkStates, NEW a \in Agents, NEW k \in 1..Slots, NEW l \in LinkType,
         Set(a, k, l)
  PROVE  /\ link' \in LinkStates
         /\ link'[a][k] = l
         /\ \A b \in Agents, j \in 1..Slots : <<b, j>> # <<a, k>> => link'[b][j] = link[b][j]
<1>1. link' = [link EXCEPT ![a] = [link[a] EXCEPT ![k] = l]]
  BY DEF Set
<1>2. link[a] \in [1..Slots -> LinkType]
  BY DEF LinkStates
<1> DEFINE mine == [link[a] EXCEPT ![k] = l]
<1>3. mine \in [1..Slots -> LinkType] /\ mine[k] = l /\ \A j \in 1..Slots : j # k => mine[j] = link[a][j]
  BY <1>2
<1>4. link' = [link EXCEPT ![a] = mine]
  BY <1>1
<1> HIDE DEF mine
<1>5. link' \in LinkStates /\ link'[a] = mine /\ \A b \in Agents : b # a => link'[b] = link[b]
  BY <1>3, <1>4 DEF LinkStates
<1>. QED BY <1>3, <1>5

\* What becomes of a connection that ends, and of one that is answered on.
LEMMA OverOK ==
  ASSUME NEW reply \in {"ok", "full", "bad", "none"}
  PROVE  Over(reply) \in LinkType /\ ThreadOK(Over(reply))
<1>1. None \notin Bad \cup Unsendable /\ 0 \in 0..Items
  BY NoneIsNoBatch, IngestAssumption
<1>. QED BY <1>1 DEF Over, LinkType, ThreadOK

LEMMA AnsweredOK ==
  ASSUME link \in LinkStates, NEW a \in Agents, NEW k \in 1..Slots, NEW code \in {"ok", "full", "bad"},
         link[a][k].at # "idle", ThreadOK(link[a][k])
  PROVE  /\ Answered(a, k, code) \in LinkType /\ ThreadOK(Answered(a, k, code))
         /\ Answered(a, k, code).batch = None
         /\ Answered(a, k, code).at # "adding"
         /\ Answered(a, k, code).up \in {None, link[a][k].up}
         /\ code = "bad" => Answered(a, k, code).up = None
         /\ Answered(a, k, code).down = IF Attached(a, k) THEN code ELSE "none"
<1> DEFINE reply == IF Attached(a, k) THEN code ELSE "none"
           goesOn == code # "bad" /\ ~ Stopped(link[a][k])
<1>1. PICK l \in LinkType : l = link[a][k]
  BY DEF LinkStates
<1>2. reply \in {"ok", "full", "bad", "none"}
  OBVIOUS
<1>3. Answered(a, k, code) = IF goesOn THEN [l EXCEPT !.at = "reading", !.batch = None, !.left = 0, !.down = reply]
                             ELSE Over(reply)
  BY <1>1 DEF Answered
<1> HIDE DEF reply, goesOn
<1>4. None \notin Bad \cup Unsendable /\ 0 \in 0..Items
  BY NoneIsNoBatch, IngestAssumption
<1> DEFINE on == [l EXCEPT !.at = "reading", !.batch = None, !.left = 0, !.down = reply]
<1>5. on \in LinkType /\ on.stage = l.stage /\ on.up = l.up /\ on.batch = None /\ on.at = "reading" /\ on.down = reply
  BY <1>2, <1>4 DEF LinkType
<1>6. ThreadOK(on)
  BY <1>1, <1>4, <1>5 DEF ThreadOK
<1> DEFINE over == Over(reply)
<1>7. over \in LinkType /\ ThreadOK(over)
  BY <1>2, OverOK
<1>8. over.up = None /\ over.batch = None /\ over.at = "idle" /\ over.down = reply
  BY DEF Over
<1>9. Answered(a, k, code) = on \/ Answered(a, k, code) = over
  BY <1>3
<1>10. code = "bad" => Answered(a, k, code) = over
  BY <1>3 DEF goesOn
<1> HIDE DEF on, over
<1>. QED BY <1>1, <1>5, <1>6, <1>7, <1>8, <1>9, <1>10 DEF reply

\* A live thread is the one that holds the lock.
Live(l) == l.at = "adding" /\ ~ l.old

\* What does not touch a live thread keeps the lock and the queue in order.
LEMMA Quiet ==
  ASSUME LockOK, EndOK, Unbroken, holder' = holder, queue' = queue, recent' = recent,
         holder \in Links \cup {None},
         \A c \in Links : Of(c)' = Of(c) \/ (~ Live(Of(c)) /\ ~ Live(Of(c)'))
  PROVE  LockOK' /\ EndOK' /\ Unbroken'
<1>1. ASSUME holder # None PROVE holder \in Links /\ Live(Of(holder)) /\ Of(holder)' = Of(holder)
  <2>1. holder \in Links /\ Live(Of(holder))
    BY <1>1 DEF LockOK, Live
  <2>. QED BY <2>1
<1>2. LockOK'
  <2>1. ASSUME holder' # None
        PROVE  Of(holder)'.at = "adding" /\ ~ Of(holder)'.old /\ Of(holder)'.batch \notin Range(recent')
    BY <1>1, <2>1 DEF LockOK
  <2>2. ASSUME NEW c \in Links, Of(c)'.at = "adding" /\ ~ Of(c)'.old PROVE holder' = c
    BY <2>2 DEF LockOK, Live
  <2>. QED BY <2>1, <2>2 DEF LockOK
<1>3. EndOK'
  BY <1>1 DEF EndOK
<1>4. Unbroken'
  BY DEF Unbroken
<1>. QED BY <1>2, <1>3, <1>4

--------------------------------------------------------------------------------
(* Steps of one agent, and of one thread of the server *)

\* The types of what a step of the network leaves alone.
Still == /\ queue' = queue /\ recent' = recent /\ holder' = holder
Counted == troubles' \in 0..MaxTroubles /\ closes' \in 0..MaxCloses /\ crashes' \in 0..MaxCrashes

LEMMA TroubleCounted == ASSUME TypeOK, Trouble PROVE Counted
  BY IngestAssumption DEF TypeOK, Trouble, Counted

LEMMA Types == ASSUME TypeOK PROVE /\ link \in LinkStates /\ client \in [Agents -> ClientType]
                                   /\ \A a \in Agents : client[a] \in ClientType /\ Current(a) \in 0..Slots
                                   /\ \A a \in Agents, k \in 1..Slots : link[a][k] \in LinkType
<1>1. link \in LinkStates /\ client \in [Agents -> ClientType]
  BY DEF TypeOK, LinkStates
<1>2. \A a \in Agents : client[a] \in ClientType /\ Current(a) \in 0..Slots
  BY <1>1 DEF ClientType, Current
<1>3. \A a \in Agents, k \in 1..Slots : link[a][k] \in LinkType
  BY <1>1 DEF LinkStates
<1>. QED BY <1>1, <1>2, <1>3

\* A step of an agent: what it lets go of was taken or is hopeless.
LEMMA AgentStep ==
  ASSUME IInv, NEW a \in Agents, NEW c \in ClientType, client' = [client EXCEPT ![a] = c],
         SenderOK(a, c), link' \in LinkStates,
         \A b \in Agents, k \in 1..Slots :
            \/ link'[b][k] = link[b][k]
            \/ b = a /\ ThreadOK(link'[b][k]) /\ ~ Live(link[b][k]) /\ ~ Live(link'[b][k]),
         c.conn # 0 => TalkOK(a, c, link'[a][c.conn], ever),
         Still, Counted, listener' = listener, ever' = ever, taken' = taken, dropped' = dropped,
         \/ c.next = client[a].next /\ rejected' = rejected
         \/ /\ c.next = client[a].next + 1 /\ Sending(a) \in Batch
            /\ \/ rejected' = rejected /\ Sending(a) \in ever
               \/ rejected' = rejected \cup {Sending(a)} /\ Sending(a) \in Bad \cup Unsendable
  PROVE  IInv'
<1>1. TypeOK
  BY DEF IInv
<1>2. client' \in [Agents -> ClientType] /\ client'[a] = c /\ \A b \in Agents : b # a => client'[b] = client[b]
  BY <1>1, Types
<1>3. TypeOK'
  <2>1. rejected' \subseteq Batch
    BY <1>1 DEF TypeOK
  <2>. QED BY <1>1, <1>2, <2>1 DEF TypeOK, Still, Counted, LinkStates
<1>4. \A b \in Agents : SenderOK(b, client[b])'
  BY <1>2 DEF IInv, SenderOK
<1>5. \A b \in Agents, k \in 1..Slots : ThreadOK(link[b][k])'
  <2>1. \A b \in Agents, k \in 1..Slots : ThreadOK(link[b][k])
    BY DEF IInv
  <2>. QED BY <2>1 DEF ThreadOK
<1>6. TalksOK'
  <2>1. SUFFICES ASSUME NEW b \in Agents, client'[b].conn # 0
                 PROVE  TalkOK(b, client'[b], link'[b][client'[b].conn], ever')
    BY DEF TalksOK, Current
  <2>2. CASE b = a
    BY <1>2, <2>1, <2>2
  <2>3. CASE b # a
    <3>1. client'[b] = client[b] /\ client[b].conn \in 1..Slots
      BY <1>1, <1>2, <2>1, <2>3, Types DEF Current
    <3>2. link'[b][client'[b].conn] = link[b][client[b].conn]
      BY <2>3, <3>1
    <3>3. TalkOK(b, client[b], link[b][client[b].conn], ever)
      BY <2>1, <3>1 DEF IInv, TalksOK, Current
    <3>. QED BY <3>1, <3>2, <3>3
  <2>. QED BY <2>2, <2>3
<1>7. LockOK' /\ EndOK' /\ Unbroken'
  <2>1. \A d \in Links : Of(d)' = Of(d) \/ (~ Live(Of(d)) /\ ~ Live(Of(d)'))
    BY DEF Links, Of
  <2>2. holder \in Links \cup {None}
    BY <1>1 DEF TypeOK, Links
  <2>. QED BY <2>1, <2>2, Quiet DEF IInv, Still
<1>8. Range(recent') \subseteq ever'
  BY DEF IInv, Still
<1>9. AckedTaken'
  <2>1. SUFFICES ASSUME NEW b \in Agents, NEW n \in 1..(client'[b].next - 1)
                 PROVE  <<b, n>> \in ever' \cup rejected'
    BY DEF AckedTaken
  <2>2. rejected \subseteq rejected'
    OBVIOUS
  <2>3. client[b].next \in Nat
    BY <1>1, Types, IngestAssumption DEF ClientType
  <2>4. n \in 1..(client[b].next - 1) => <<b, n>> \in ever \cup rejected
    BY DEF IInv, AckedTaken
  <2>5. CASE n \in 1..(client[b].next - 1)
    BY <2>2, <2>4, <2>5
  <2>6. CASE n \notin 1..(client[b].next - 1)
    <3>1. b = a /\ c.next = client[a].next + 1 /\ n = client[a].next
      BY <1>2, <2>3, <2>6
    <3>2. Sending(a) \in ever' \cup rejected'
      BY <3>1, <2>3
    <3>. QED BY <3>1, <3>2 DEF Sending
  <2>. QED BY <2>5, <2>6
<1>10. GivenUpOnlyHopeless'
  BY DEF IInv, GivenUpOnlyHopeless
<1>. QED BY <1>3, <1>4, <1>5, <1>6, <1>7, <1>8, <1>9, <1>10 DEF IInv

\* The connection is given up after an error, and dialled once more if it was a kept one.
LEMMA AfterErrorOK ==
  ASSUME IInv, NEW a \in Agents, client[a].at # "rest"
  PROVE  /\ AfterError(a) \in ClientType /\ SenderOK(a, AfterError(a))
         /\ AfterError(a).conn = 0 /\ AfterError(a).next = client[a].next
<1>1. PICK c \in ClientType : c = client[a]
  BY Types DEF IInv
<1>2. SenderOK(a, c) /\ c.at # "rest"
  BY <1>1 DEF IInv
<1> DEFINE dial == [c EXCEPT !.at = "dial", !.conn = 0, !.reused = FALSE, !.again = TRUE]
           rest == [c EXCEPT !.at = "rest", !.conn = 0, !.reused = FALSE, !.again = FALSE]
<1>3. 0 \in 0..Slots
  BY IngestAssumption
<1>4. dial \in ClientType /\ dial.conn = 0 /\ dial.next = c.next /\ dial.at = "dial"
  BY <1>3 DEF ClientType
<1>5. rest \in ClientType /\ rest.conn = 0 /\ rest.next = c.next /\ rest.at = "rest"
  BY <1>3 DEF ClientType
<1>6. AfterError(a) \in {dial, rest}
  BY <1>1 DEF AfterError
<1> HIDE DEF dial, rest
<1>7. SenderOK(a, dial) /\ SenderOK(a, rest)
  BY <1>2, <1>4, <1>5 DEF SenderOK
<1>. QED BY <1>1, <1>4, <1>5, <1>6, <1>7

LEMMA ErrorStep ==
  ASSUME IInv, NEW a \in Agents, client[a].at # "rest", Client(a, AfterError(a)),
         link' = link, Still, Counted, UNCHANGED <<listener, ghosts>>
  PROVE  IInv'
<1>1. PICK c \in ClientType : c = AfterError(a)
  BY AfterErrorOK
<1>2. SenderOK(a, c) /\ c.conn = 0 /\ c.next = client[a].next /\ client' = [client EXCEPT ![a] = c]
  BY <1>1, AfterErrorOK DEF Client
<1>3. link' \in LinkStates
  BY Types DEF IInv
<1>. QED BY <1>2, <1>3, AgentStep DEF ghosts

\* A sender at rest takes its next record, or lets a connection or everything it knew go.
LEMMA RestStep ==
  ASSUME IInv, NEW a \in Agents, NEW c \in ClientType, client' = [client EXCEPT ![a] = c],
         SenderOK(a, c), c.at # "await", c.next = client[a].next,
         c.conn = 0 \/ (c.conn = Current(a) /\ client[a].at # "await"),
         link' = link, Still, Counted, UNCHANGED <<listener, ghosts>>
  PROVE  IInv'
<1>1. link' \in LinkStates
  BY Types DEF IInv
<1>2. c.conn # 0 => TalkOK(a, c, link'[a][c.conn], ever)
  BY DEF IInv, TalksOK, TalkOK, Current
<1>. QED BY <1>1, <1>2, AgentStep DEF ghosts

LEMMA RefuseLocallyStep == ASSUME IInv, NEW a \in Agents, RefuseLocally(a) PROVE IInv'
<1>1. PICK c \in ClientType : c = client[a]
  BY Types DEF IInv
<1>2. <<a, c.next>> \in Unsendable /\ c.at = "rest"
  BY <1>1 DEF RefuseLocally, Sending
<1>3. <<a, c.next>> \in Batch /\ c.next \in 1..Batches
  BY <1>2, IngestAssumption DEF Batch
<1>4. c.next + 1 \in 1..(Batches + 1)
  BY <1>3, IngestAssumption
<1> DEFINE d == [c EXCEPT !.next = c.next + 1]
<1>5. d \in ClientType /\ d.at = "rest" /\ d.conn = c.conn /\ d.next = c.next + 1
  BY <1>2, <1>4 DEF ClientType
<1>6. client' = [client EXCEPT ![a] = d]
  BY <1>1 DEF RefuseLocally, Client
<1> HIDE DEF d
<1>7. SenderOK(a, d)
  BY <1>5 DEF SenderOK
<1>8. d.conn # 0 => TalkOK(a, d, link[a][d.conn], ever)
  BY <1>1, <1>2, <1>5 DEF IInv, TalksOK, TalkOK, Current
<1>9. Still /\ Counted /\ UNCHANGED <<link, listener, ever, taken, dropped>>
      /\ rejected' = rejected \cup {Sending(a)}
  BY DEF RefuseLocally, server, bounds, Still, Counted, IInv, TypeOK
<1>10. link' \in LinkStates
  BY <1>9, Types DEF IInv
<1>11. Sending(a) \in Batch /\ Sending(a) \in Bad \cup Unsendable /\ d.next = client[a].next + 1
  BY <1>1, <1>2, <1>3, <1>5 DEF Sending
<1>. QED BY <1>5, <1>6, <1>7, <1>8, <1>9, <1>10, <1>11, AgentStep

LEMMA StartSendStep == ASSUME IInv, NEW a \in Agents, StartSend(a) PROVE IInv'
<1>1. PICK c \in ClientType : c = client[a]
  BY Types DEF IInv
<1> DEFINE d == [c EXCEPT !.again = FALSE, !.reused = c.conn # 0, !.at = IF c.conn # 0 THEN "write" ELSE "dial"]
<1>2. d \in ClientType /\ d.conn = c.conn /\ d.next = c.next /\ d.at = IF c.conn # 0 THEN "write" ELSE "dial"
  BY DEF ClientType
<1>3. client' = [client EXCEPT ![a] = d]
  BY <1>1 DEF StartSend, Client, Current
<1> HIDE DEF d
<1>4. SenderOK(a, d)
  BY <1>1, <1>2 DEF SenderOK, StartSend, Sending
<1>5. link' = link /\ Still /\ Counted /\ UNCHANGED <<listener, ghosts>>
  BY DEF StartSend, server, bounds, Still, Counted, IInv, TypeOK
<1>6. client[a].at = "rest"
  BY DEF StartSend
<1>. QED BY <1>1, <1>2, <1>3, <1>4, <1>5, <1>6, RestStep DEF Current

LEMMA LetGoStep ==
  ASSUME IInv, NEW a \in Agents, DropIdle(a) \/ AgentRestarts(a)
  PROVE  IInv'
<1>1. PICK c \in ClientType : c = client[a]
  BY Types DEF IInv
<1>2. 0 \in 0..Slots
  BY IngestAssumption
<1> DEFINE d == [c EXCEPT !.conn = 0]
           e == [Idle EXCEPT !.next = c.next]
<1>3. d \in ClientType /\ d.conn = 0 /\ d.next = c.next /\ d.at = c.at
  BY <1>2 DEF ClientType
<1>4. e \in ClientType /\ e.conn = 0 /\ e.next = c.next /\ e.at = "rest"
  BY <1>2 DEF ClientType, Idle
<1>5. link' = link /\ Still /\ UNCHANGED <<listener, ghosts>> /\ Trouble
  BY DEF DropIdle, AgentRestarts, server, Still
<1>6. Counted
  BY <1>5, TroubleCounted DEF IInv
<1>7. CASE DropIdle(a)
  <2>1. client' = [client EXCEPT ![a] = d] /\ c.at = "rest"
    BY <1>1, <1>7 DEF DropIdle, Client
  <2> HIDE DEF d
  <2>2. SenderOK(a, d)
    BY <1>3, <2>1 DEF SenderOK
  <2>. QED BY <1>1, <1>3, <1>5, <1>6, <2>1, <2>2, RestStep
<1>8. CASE AgentRestarts(a)
  <2>1. client' = [client EXCEPT ![a] = e]
    BY <1>1, <1>8 DEF AgentRestarts, Client
  <2> HIDE DEF e
  <2>2. SenderOK(a, e)
    BY <1>4 DEF SenderOK
  <2>. QED BY <1>1, <1>4, <1>5, <1>6, <2>1, <2>2, RestStep
<1>. QED BY <1>7, <1>8

LEMMA SenderErrors ==
  ASSUME IInv, NEW a \in Agents, DialFails(a) \/ SeesClosed(a) \/ TimesOut(a)
  PROVE  IInv'
<1>1. client[a].at # "rest" /\ Client(a, AfterError(a)) /\ link' = link /\ Still /\ UNCHANGED <<listener, ghosts>>
  BY DEF DialFails, SeesClosed, TimesOut, Overdue, server, Still
<1>2. Counted
  <2>1. CASE SeesClosed(a)
    BY <2>1 DEF SeesClosed, bounds, Counted, IInv, TypeOK
  <2>2. CASE DialFails(a) \/ TimesOut(a)
    BY <2>2, TroubleCounted DEF DialFails, TimesOut, IInv
  <2>. QED BY <2>1, <2>2
<1>. QED BY <1>1, <1>2, ErrorStep

Below == {p \in Nat \X Nat : p[1] < p[2]}

LEMMA LeastSlot == ASSUME NEW S, S \subseteq 1..Slots, S # {} PROVE Min(S) \in S
<1>1. S \subseteq Nat
  BY IngestAssumption
<1>2. IsWellFoundedOn(Below, Nat)
  BY NatLessThanWellFounded DEF OpToRel, Below
<1>3. PICK x \in S : \A y \in S : ~ (<<y, x>> \in Below)
  BY <1>1, <1>2, WFMin
<1>4. ASSUME NEW y \in S PROVE x <= y
  <2>1. x \in Nat /\ y \in Nat /\ ~ (<<y, x>> \in Below)
    BY <1>1, <1>3
  <2>2. ~ (y < x)
    BY <2>1 DEF Below
  <2>. QED BY <2>1, <2>2
<1>. QED BY <1>4 DEF Min

LEMMA DialStep == ASSUME IInv, NEW a \in Agents, Dial(a) PROVE IInv'
<1>1. PICK c \in ClientType : c = client[a]
  BY Types DEF IInv
<1> DEFINE free == {k \in 1..Slots : link[a][k].stage = "none"}
<1>2. PICK k \in free : k = Min(free)
  BY LeastSlot DEF Dial
<1> DEFINE l == Fresh("backlog")
           d == [c EXCEPT !.at = "write", !.conn = k]
<1>3. l = Fresh("backlog")
  OBVIOUS
<1> HIDE DEF l
<1>4. l \in LinkType /\ ThreadOK(l) /\ l.up = None /\ l.batch = None /\ l.down = "none" /\ ~ Live(l)
  <2>1. None \notin Bad \cup Unsendable /\ 0 \in 0..Items
    BY NoneIsNoBatch, IngestAssumption
  <2>. QED BY <1>3, <2>1 DEF Fresh, LinkType, ThreadOK, Live
<1>5. Set(a, k, l)
  BY <1>2, <1>3 DEF Dial, Set
<1>6. d \in ClientType /\ d.at = "write" /\ d.conn = k /\ d.next = c.next /\ k # 0
  <2>1. k \in 0..Slots /\ k # 0
    BY <1>2, IngestAssumption
  <2>. QED BY <2>1 DEF ClientType
<1>7. client' = [client EXCEPT ![a] = d]
  BY <1>1, <1>2 DEF Dial, Client
<1>8. ~ Live(link[a][k])
  <2>1. ThreadOK(link[a][k]) /\ link[a][k].stage = "none"
    BY <1>2 DEF IInv
  <2>. QED BY <2>1 DEF ThreadOK, Live
<1> HIDE DEF d
<1>9. /\ link' \in LinkStates /\ link'[a][k] = l
      /\ \A b \in Agents, j \in 1..Slots : <<b, j>> # <<a, k>> => link'[b][j] = link[b][j]
  <2>1. link \in LinkStates /\ k \in 1..Slots
    BY Types DEF IInv
  <2>. QED BY <1>4, <1>5, <2>1, SetLink
<1>10. SenderOK(a, d)
  BY <1>1, <1>6 DEF IInv, SenderOK, Dial
<1>11. TalkOK(a, d, link'[a][d.conn], ever)
  BY <1>4, <1>6, <1>9 DEF TalkOK
<1>12. Still /\ Counted /\ UNCHANGED <<listener, ghosts>>
  BY DEF Dial, server, bounds, Still, Counted, IInv, TypeOK
<1>13. \A b \in Agents, j \in 1..Slots :
         \/ link'[b][j] = link[b][j]
         \/ b = a /\ ThreadOK(link'[b][j]) /\ ~ Live(link[b][j]) /\ ~ Live(link'[b][j])
  BY <1>4, <1>8, <1>9
<1>. QED BY <1>1, <1>6, <1>7, <1>9, <1>10, <1>11, <1>12, <1>13, AgentStep DEF ghosts

\* The agent writes its batch, or reads an answer, on the connection it uses.
LEMMA TalkStep ==
  ASSUME IInv, NEW a \in Agents, NEW c \in ClientType, client' = [client EXCEPT ![a] = c],
         SenderOK(a, c), Current(a) # 0, NEW l \in LinkType, Set(a, Current(a), l),
         ThreadOK(l), Live(l) <=> Live(link[a][Current(a)]),
         Live(l) => l = link[a][Current(a)],
         c.conn # 0 => c.conn = Current(a) /\ TalkOK(a, c, l, ever),
         Still, Counted, listener' = listener, ever' = ever, taken' = taken, dropped' = dropped,
         \/ c.next = client[a].next /\ rejected' = rejected
         \/ /\ c.next = client[a].next + 1 /\ Sending(a) \in Batch
            /\ \/ rejected' = rejected /\ Sending(a) \in ever
               \/ rejected' = rejected \cup {Sending(a)} /\ Sending(a) \in Bad \cup Unsendable
  PROVE  IInv'
<1>1. PICK k \in 1..Slots : k = Current(a)
  BY Types DEF IInv
<1>2. Set(a, k, l)
  BY <1>1
<1>3. /\ link' \in LinkStates /\ link'[a][k] = l
      /\ \A b \in Agents, j \in 1..Slots : <<b, j>> # <<a, k>> => link'[b][j] = link[b][j]
  <2>1. link \in LinkStates
    BY Types DEF IInv
  <2>. QED BY <1>2, <2>1, SetLink
<1>4. \A b \in Agents, j \in 1..Slots :
         \/ link'[b][j] = link[b][j]
         \/ b = a /\ ThreadOK(link'[b][j]) /\ ~ Live(link[b][j]) /\ ~ Live(link'[b][j])
  BY <1>1, <1>3
<1>5. c.conn # 0 => TalkOK(a, c, link'[a][c.conn], ever)
  BY <1>1, <1>3
<1>. QED BY <1>3, <1>4, <1>5, AgentStep

LEMMA WriteStep == ASSUME IInv, NEW a \in Agents, Write(a) PROVE IInv'
<1>1. PICK c \in ClientType : c = client[a]
  BY Types DEF IInv
<1>2. SenderOK(a, c) /\ c.at = "write" /\ c.conn # 0 /\ c.conn \in 1..Slots
  BY <1>1, Types DEF IInv, Write, SenderOK, Current
<1>3. PICK o \in LinkType : o = link[a][c.conn]
  BY <1>2, Types DEF IInv
<1>4. TalkOK(a, c, o, ever) /\ ThreadOK(o) /\ o.stage = "serving"
  BY <1>1, <1>2, <1>3 DEF IInv, TalksOK, Current, Write
<1> DEFINE d == [c EXCEPT !.at = "await"]
           l == [o EXCEPT !.up = <<a, c.next>>]
<1>5. d \in ClientType /\ d.at = "await" /\ d.conn = c.conn /\ d.next = c.next
  BY DEF ClientType
<1>6. <<a, c.next>> \in Batch \ Unsendable
  BY <1>2 DEF SenderOK
<1>7. l \in LinkType /\ l.up = <<a, c.next>> /\ l.batch = o.batch /\ l.down = o.down /\ l.at = o.at
      /\ l.stage = o.stage /\ l.left = o.left /\ l.old = o.old
  BY <1>6 DEF LinkType
<1>8. client' = [client EXCEPT ![a] = d]
  BY <1>1 DEF Write, Client
<1>9. Set(a, Current(a), l)
  <2>1. link' = [link EXCEPT ![a] = [link[a] EXCEPT ![c.conn] = [link[a][c.conn] EXCEPT !.up = <<a, c.next>>]]]
    BY <1>1 DEF Write, Current, Sending
  <2>. QED BY <1>1, <1>3, <2>1 DEF Set, Current
<1> HIDE DEF d, l
<1>10. o.up = None /\ o.batch = None /\ o.down = "none" /\ o.at \notin {"enqueue", "adding"}
  BY <1>2, <1>4 DEF TalkOK, ThreadOK
<1>11. ThreadOK(l) /\ ~ Live(l) /\ ~ Live(o)
  <2>1. None \notin Bad \cup Unsendable
    BY NoneIsNoBatch, IngestAssumption
  <2>. QED BY <1>4, <1>6, <1>7, <1>10, <2>1 DEF ThreadOK, Live
<1>12. TalkOK(a, d, l, ever)
  BY <1>5, <1>7, <1>10 DEF TalkOK
<1>13. SenderOK(a, d)
  BY <1>2, <1>5, <1>6 DEF SenderOK
<1>14. Still /\ Counted /\ UNCHANGED <<listener, ghosts>>
  BY DEF Write, server, bounds, Still, Counted, IInv, TypeOK
<1>. QED BY <1>1, <1>2, <1>3, <1>5, <1>7, <1>8, <1>9, <1>11, <1>12, <1>13, <1>14, TalkStep DEF Current, ghosts

\* The agent reads the answer: on to the next record, back to rest, or it gives up.
LEMMA ReadReplyStep == ASSUME IInv, NEW a \in Agents, ReadReply(a) PROVE IInv'
<1>1. PICK c \in ClientType : c = client[a]
  BY Types DEF IInv
<1>2. SenderOK(a, c) /\ c.at = "await" /\ c.conn # 0 /\ c.conn \in 1..Slots
  BY <1>1, Types DEF IInv, ReadReply, SenderOK, Current
<1>3. PICK o \in LinkType : o = link[a][c.conn]
  BY <1>2, Types DEF IInv
<1>4. TalkOK(a, c, o, ever) /\ ThreadOK(o) /\ o.down # "none"
  BY <1>1, <1>2, <1>3 DEF IInv, TalksOK, Current, ReadReply
<1>5. o.up = None /\ o.batch = None /\ ~ Live(o)
  BY <1>2, <1>4 DEF TalkOK, ThreadOK, Live
<1> DEFINE l == [o EXCEPT !.down = "none"]
<1>6. l \in LinkType /\ l.up = None /\ l.batch = None /\ l.down = "none" /\ l.at = o.at
      /\ l.stage = o.stage /\ l.left = o.left /\ l.old = o.old
  BY <1>5 DEF LinkType
<1>7. Set(a, Current(a), l)
  <2>1. link' = [link EXCEPT ![a] = [link[a] EXCEPT ![c.conn] = [link[a][c.conn] EXCEPT !.down = "none"]]]
    BY <1>1 DEF ReadReply, Current
  <2>. QED BY <1>1, <1>3, <2>1 DEF Set, Current
<1> HIDE DEF l
<1>8. ThreadOK(l) /\ ~ Live(l)
  BY <1>4, <1>5, <1>6 DEF ThreadOK, Live
<1>9. <<a, c.next>> \in Batch \ Unsendable /\ Sending(a) = <<a, c.next>>
  BY <1>1, <1>2 DEF SenderOK, Sending
<1>10. c.next + 1 \in 1..(Batches + 1) /\ 0 \in 0..Slots
  BY <1>9, IngestAssumption DEF Batch
<1> DEFINE rest == [c EXCEPT !.at = "rest"]
           onward == [rest EXCEPT !.next = rest.next + 1]
           onwardAnew == [rest EXCEPT !.conn = 0, !.next = rest.next + 1]
<1>11. rest \in ClientType /\ rest.at = "rest" /\ rest.conn = c.conn /\ rest.next = c.next
  BY DEF ClientType
<1>12. ReadReply(a) =>
         \/ o.down = "ok" /\ Client(a, onward) /\ UNCHANGED <<rejected, bounds>>
         \/ o.down = "ok" /\ Trouble /\ Client(a, rest) /\ UNCHANGED rejected
         \/ o.down = "bad" /\ Client(a, onwardAnew) /\ rejected' = rejected \cup {Sending(a)} /\ UNCHANGED bounds
         \/ Client(a, rest) /\ UNCHANGED <<rejected, bounds>>
  BY <1>1, <1>3 DEF ReadReply, Current, Permanent
<1> HIDE DEF rest
<1>13. onward \in ClientType /\ onward.at = "rest" /\ onward.conn = c.conn /\ onward.next = c.next + 1
  BY <1>10, <1>11 DEF ClientType
<1>14. onwardAnew \in ClientType /\ onwardAnew.at = "rest" /\ onwardAnew.conn = 0 /\ onwardAnew.next = c.next + 1
  BY <1>10, <1>11 DEF ClientType
<1> HIDE DEF onward, onwardAnew
<1>15. SenderOK(a, rest) /\ SenderOK(a, onward) /\ SenderOK(a, onwardAnew)
  BY <1>11, <1>13, <1>14 DEF SenderOK
<1>16. TalkOK(a, rest, l, ever) /\ TalkOK(a, onward, l, ever)
  BY <1>6, <1>11, <1>13 DEF TalkOK
<1>17. Still /\ UNCHANGED <<listener, ever, taken, dropped>>
  BY DEF ReadReply, server, Still
<1>18. UNCHANGED bounds => Counted
  BY DEF bounds, Counted, IInv, TypeOK
<1>19. Current(a) # 0 /\ Current(a) = c.conn /\ link[a][Current(a)] = o
  BY <1>1, <1>2, <1>3 DEF Current
<1>20. CASE o.down = "ok" /\ Client(a, onward) /\ UNCHANGED <<rejected, bounds>>
  <2>1. Sending(a) \in ever
    BY <1>2, <1>4, <1>9, <1>20 DEF TalkOK
  <2>2. client' = [client EXCEPT ![a] = onward]
    BY <1>20 DEF Client
  <2>. QED BY <1>1, <1>5, <1>6, <1>7, <1>8, <1>9, <1>13, <1>15, <1>16, <1>17, <1>18, <1>19, <1>20, <2>1, <2>2, TalkStep
<1>21. CASE Client(a, rest) /\ UNCHANGED rejected /\ Counted
  <2>1. client' = [client EXCEPT ![a] = rest]
    BY <1>21 DEF Client
  <2>. QED BY <1>1, <1>5, <1>6, <1>7, <1>8, <1>11, <1>15, <1>16, <1>17, <1>19, <1>21, <2>1, TalkStep
<1>22. CASE o.down = "bad" /\ Client(a, onwardAnew) /\ rejected' = rejected \cup {Sending(a)} /\ UNCHANGED bounds
  <2>1. Sending(a) \in Bad \cup Unsendable
    BY <1>2, <1>4, <1>9, <1>22 DEF TalkOK
  <2>2. client' = [client EXCEPT ![a] = onwardAnew]
    BY <1>22 DEF Client
  <2>. QED BY <1>1, <1>5, <1>6, <1>7, <1>8, <1>9, <1>14, <1>15, <1>17, <1>18, <1>19, <1>22, <2>1, <2>2, TalkStep
<1>23. Trouble => Counted
  BY TroubleCounted DEF IInv
<1>. QED BY <1>12, <1>18, <1>20, <1>21, <1>22, <1>23

--------------------------------------------------------------------------------
(* Steps of the server *)

\* What was taken once remains taken.
LEMMA TalkGrows ==
  ASSUME NEW a, NEW c, NEW l, NEW E, NEW F, E \subseteq F, TalkOK(a, c, l, E)
  PROVE  TalkOK(a, c, l, F)
  BY DEF TalkOK

LEMMA ServerStep ==
  ASSUME IInv, client' = client, rejected' = rejected, link' \in LinkStates,
         \A b \in Agents, j \in 1..Slots :
            ThreadOK(link'[b][j]) /\ (Attached(b, j) => TalkOK(b, client[b], link'[b][j], ever')),
         ever \subseteq ever', ever' \subseteq Batch, taken' \in [Batch -> Nat], dropped' \subseteq Item,
         listener' \in {"open", "lost", "closed"}, Counted,
         queue' \in Seq(Item), recent' \in Seq(Batch), holder' \in Links \cup {None},
         Range(recent') \subseteq ever', LockOK', EndOK', Unbroken'
  PROVE  IInv'
<1>1. TypeOK
  BY DEF IInv
<1>2. TypeOK'
  BY <1>1 DEF TypeOK, Counted, LinkStates, Links
<1>3. \A b \in Agents : SenderOK(b, client[b])'
  BY DEF IInv, SenderOK
<1>4. \A b \in Agents, k \in 1..Slots : ThreadOK(link[b][k])'
  BY DEF ThreadOK
<1>5. TalksOK'
  <2>1. SUFFICES ASSUME NEW b \in Agents, client[b].conn # 0
                 PROVE  TalkOK(b, client[b], link'[b][client[b].conn], ever')
    BY DEF TalksOK, Current
  <2>2. client[b].conn \in 1..Slots
    BY <1>1, <2>1, Types DEF Current
  <2>. QED BY <2>2 DEF Attached, Current
<1>6. AckedTaken'
  BY DEF IInv, AckedTaken
<1>7. GivenUpOnlyHopeless'
  BY DEF IInv, GivenUpOnlyHopeless
<1>. QED BY <1>2, <1>3, <1>4, <1>5, <1>6, <1>7 DEF IInv

\* What a step of the server does to one connection whose thread is not adding.
Frame == /\ client' = client /\ rejected' = rejected /\ taken' = taken
         /\ listener' = listener /\ Still /\ Counted

LEMMA ThreadStep ==
  ASSUME IInv, Frame, NEW a \in Agents, NEW k \in 1..Slots, NEW l \in LinkType, Set(a, k, l),
         ThreadOK(l), ~ Live(l), ~ Live(link[a][k]),
         ever \subseteq ever', ever' \subseteq Batch, dropped' \subseteq Item,
         Attached(a, k) => TalkOK(a, client[a], l, ever')
  PROVE  IInv'
<1>1. TypeOK /\ link \in LinkStates
  BY Types DEF IInv
<1>2. /\ link' \in LinkStates /\ link'[a][k] = l
      /\ \A b \in Agents, j \in 1..Slots : <<b, j>> # <<a, k>> => link'[b][j] = link[b][j]
  BY <1>1, SetLink
<1>3. ASSUME NEW b \in Agents, NEW j \in 1..Slots
      PROVE  ThreadOK(link'[b][j]) /\ (Attached(b, j) => TalkOK(b, client[b], link'[b][j], ever'))
  <2>1. CASE <<b, j>> = <<a, k>>
    BY <1>2, <2>1
  <2>2. CASE <<b, j>> # <<a, k>>
    <3>1. link'[b][j] = link[b][j] /\ ThreadOK(link[b][j])
      BY <1>2, <2>2 DEF IInv
    <3>2. j # 0
      BY IngestAssumption
    <3>3. Attached(b, j) => TalkOK(b, client[b], link[b][j], ever)
      BY <3>2 DEF IInv, TalksOK, Attached
    <3>. QED BY <3>1, <3>3, TalkGrows
  <2>. QED BY <2>1, <2>2
<1>4. LockOK' /\ EndOK' /\ Unbroken'
  <2>1. \A d \in Links : Of(d)' = Of(d) \/ (~ Live(Of(d)) /\ ~ Live(Of(d)'))
    <3>1. SUFFICES ASSUME NEW b \in Agents, NEW j \in 1..Slots
                   PROVE  \/ link'[b][j] = link[b][j]
                          \/ ~ Live(link[b][j]) /\ ~ Live(link'[b][j])
      BY DEF Links, Of
    <3>. QED BY <1>2
  <2>2. holder \in Links \cup {None}
    BY <1>1 DEF TypeOK, Links
  <2>. QED BY <2>1, <2>2, Quiet DEF IInv, Frame, Still
<1>5. /\ taken' \in [Batch -> Nat] /\ listener' \in {"open", "lost", "closed"}
      /\ queue' \in Seq(Item) /\ recent' \in Seq(Batch) /\ holder' \in Links \cup {None}
  BY <1>1 DEF TypeOK, Frame, Still, Links
<1>6. Range(recent') \subseteq ever'
  BY DEF IInv, Frame, Still
<1>. QED BY <1>2, <1>3, <1>4, <1>5, <1>6, ServerStep DEF Frame

LEMMA BoundsCounted == ASSUME TypeOK, UNCHANGED bounds PROVE Counted
  BY DEF TypeOK, bounds, Counted

\* What is known of one connection and of the sender that may still use it.
LEMMA OneLink ==
  ASSUME IInv, NEW a \in Agents, NEW k \in 1..Slots
  PROVE  /\ link[a][k] \in LinkType /\ ThreadOK(link[a][k])
         /\ Attached(a, k) => TalkOK(a, client[a], link[a][k], ever)
<1>1. k # 0
  BY IngestAssumption
<1>2. TypeOK
  BY DEF IInv
<1>. QED BY <1>1, <1>2, Types DEF IInv, TalksOK, Attached

LEMMA OverTalk ==
  ASSUME NEW a, NEW c, NEW l, NEW E, TalkOK(a, c, l, E)
  PROVE  TalkOK(a, c, Over(l.down), E)
  BY DEF TalkOK, Over

LEMMA NothingSaid == ASSUME NEW a, NEW c, NEW E
                     PROVE  TalkOK(a, c, Over("none"), E) /\ TalkOK(a, c, NoLink, E)
<1>1. /\ Over("none").up = None /\ Over("none").batch = None /\ Over("none").down = "none"
      /\ NoLink.up = None /\ NoLink.batch = None /\ NoLink.down = "none"
  BY DEF Over, NoLink, Fresh
<1>. QED BY <1>1 DEF TalkOK

\* A connection ends: what was said last can still be read, or is lost.
LEMMA EndStep ==
  ASSUME IInv, Frame, ever' = ever, dropped' = dropped, NEW a \in Agents, NEW k \in 1..Slots,
         ~ Live(link[a][k]),
         \/ Set(a, k, Over(link[a][k].down)) \/ Set(a, k, Over("none"))
         \/ Set(a, k, NoLink) /\ ~ Attached(a, k)
  PROVE  IInv'
<1>1. PICK o \in LinkType : o = link[a][k]
  BY OneLink
<1>2. ever' \subseteq Batch /\ dropped' \subseteq Item
  BY DEF IInv, TypeOK
<1>3. \A r \in {"ok", "full", "bad", "none"} : Over(r) \in LinkType /\ ThreadOK(Over(r)) /\ ~ Live(Over(r))
  BY OverOK DEF Live, Over
<1>4. NoLink \in LinkType /\ ThreadOK(NoLink) /\ ~ Live(NoLink)
  BY NoLinkOK DEF Live, NoLink, Fresh
<1>5. o.down \in {"ok", "full", "bad", "none"}
  BY DEF LinkType
<1>6. CASE Set(a, k, Over(o.down))
  <2>1. Attached(a, k) => TalkOK(a, client[a], Over(o.down), ever')
    BY <1>1, OneLink, OverTalk
  <2>2. PICK l \in LinkType : l = Over(o.down)
    BY <1>3, <1>5
  <2>3. Set(a, k, l) /\ ThreadOK(l) /\ ~ Live(l) /\ (Attached(a, k) => TalkOK(a, client[a], l, ever'))
    BY <1>3, <1>5, <1>6, <2>1, <2>2
  <2>. QED BY <1>2, <2>3, ThreadStep
<1>7. CASE Set(a, k, Over("none"))
  <2>1. PICK l \in LinkType : l = Over("none")
    BY <1>3
  <2>2. Set(a, k, l) /\ ThreadOK(l) /\ ~ Live(l) /\ TalkOK(a, client[a], l, ever')
    BY <1>3, <1>7, <2>1, NothingSaid
  <2>. QED BY <1>2, <2>2, ThreadStep
<1>8. CASE Set(a, k, NoLink) /\ ~ Attached(a, k)
  <2>1. PICK l \in LinkType : l = NoLink
    BY <1>4
  <2>2. Set(a, k, l) /\ ThreadOK(l) /\ ~ Live(l)
    BY <1>4, <1>8, <2>1
  <2>. QED BY <1>2, <1>8, <2>2, ThreadStep
<1>. QED BY <1>1, <1>6, <1>7, <1>8

LEMMA EndsStep ==
  ASSUME IInv, NEW a \in Agents, NEW k \in 1..Slots,
         ReadsEnd(a, k) \/ Retire(a, k) \/ Breaks(a, k) \/ Forget(a, k)
  PROVE  IInv'
<1>1. ThreadOK(link[a][k])
  BY OneLink
<1>2. ~ Live(link[a][k])
  BY <1>1 DEF ReadsEnd, Retire, Breaks, Forget, ThreadOK, Live
<1>3. \/ Set(a, k, Over(link[a][k].down)) \/ Set(a, k, Over("none"))
      \/ Set(a, k, NoLink) /\ ~ Attached(a, k)
  BY DEF ReadsEnd, Retire, Breaks, Forget, Ended
<1>4. client' = client /\ UNCHANGED <<server, ghosts>> /\ (Trouble \/ UNCHANGED bounds)
  BY DEF ReadsEnd, Retire, Breaks, Forget
<1>5. Counted
  BY <1>4, TroubleCounted, BoundsCounted DEF IInv
<1>. QED BY <1>2, <1>3, <1>4, <1>5, EndStep DEF Frame, Still, server, ghosts

\* An answer is written on a connection.
LEMMA AnswerTalk ==
  ASSUME IInv, NEW a \in Agents, NEW k \in 1..Slots, NEW E, ever \subseteq E,
         NEW code \in {"ok", "full", "bad"}, link[a][k].at # "idle",
         \/ link[a][k].batch # None /\ code # "bad" /\ (code = "ok" => link[a][k].batch \in E)
         \/ link[a][k].up \in Bad /\ code = "bad"
  PROVE  /\ Answered(a, k, code) \in LinkType /\ ThreadOK(Answered(a, k, code)) /\ ~ Live(Answered(a, k, code))
         /\ Attached(a, k) => TalkOK(a, client[a], Answered(a, k, code), E)
<1>1. PICK o \in LinkType : o = link[a][k]
  BY OneLink
<1>2. ThreadOK(o) /\ link \in LinkStates
  BY <1>1, OneLink, Types DEF IInv
<1>3. PICK l : l = Answered(a, k, code)
  OBVIOUS
<1>4. /\ l \in LinkType /\ ThreadOK(l) /\ l.batch = None /\ l.at # "adding" /\ l.up \in {None, o.up}
      /\ code = "bad" => l.up = None
      /\ l.down = IF Attached(a, k) THEN code ELSE "none"
  BY <1>1, <1>2, <1>3, AnsweredOK
<1>5. ASSUME Attached(a, k) PROVE TalkOK(a, client[a], l, E)
  <2>1. TalkOK(a, client[a], o, ever)
    BY <1>1, <1>5, OneLink
  <2>2. None \notin Bad
    BY NoneIsNoBatch, IngestAssumption
  <2>3. client[a].at = "await"
    BY <1>1, <2>1, <2>2 DEF TalkOK
  <2>4. l.up = None
    BY <1>1, <1>2, <1>4 DEF ThreadOK
  <2>5. code = "ok" => <<a, client[a].next>> \in E
    BY <1>1, <2>1, <2>3 DEF TalkOK
  <2>6. code = "bad" => <<a, client[a].next>> \in Bad
    BY <1>1, <2>1, <2>2, <2>3 DEF TalkOK
  <2>. QED BY <1>4, <1>5, <2>3, <2>4, <2>5, <2>6 DEF TalkOK
<1>. QED BY <1>3, <1>4, <1>5 DEF Live

LEMMA AnswerStep ==
  ASSUME IInv, Frame, NEW a \in Agents, NEW k \in 1..Slots, NEW code \in {"ok", "full", "bad"},
         link[a][k].at # "idle", ~ Live(link[a][k]), Set(a, k, Answered(a, k, code)),
         \/ link[a][k].batch # None /\ code # "bad" /\ (code = "ok" => link[a][k].batch \in ever')
         \/ link[a][k].up \in Bad /\ code = "bad",
         ever \subseteq ever', ever' \subseteq Batch, dropped' \subseteq Item
  PROVE  IInv'
<1>1. PICK l \in LinkType : l = Answered(a, k, code)
  BY AnswerTalk
<1>2. Set(a, k, l) /\ ThreadOK(l) /\ ~ Live(l) /\ (Attached(a, k) => TalkOK(a, client[a], l, ever'))
  BY <1>1, AnswerTalk
<1>. QED BY <1>2, ThreadStep

LEMMA ReadFrameStep == ASSUME IInv, NEW a \in Agents, NEW k \in 1..Slots, ReadFrame(a, k) PROVE IInv'
<1>1. PICK o \in LinkType : o = link[a][k]
  BY OneLink
<1>2. ThreadOK(o) /\ o.at = "reading" /\ o.up # None /\ ~ Live(o)
  BY <1>1, OneLink DEF ReadFrame, Live
<1>3. Frame /\ ever' = ever /\ dropped' = dropped
  BY BoundsCounted DEF ReadFrame, Frame, Still, server, ghosts, IInv
<1>4. ever \subseteq Batch /\ dropped \subseteq Item
  BY DEF IInv, TypeOK
<1>5. CASE o.up \in Bad
  <2>1. Set(a, k, Answered(a, k, "bad"))
    BY <1>1, <1>5 DEF ReadFrame
  <2>. QED BY <1>1, <1>2, <1>3, <1>4, <1>5, <2>1, AnswerStep
<1>6. CASE o.up \notin Bad
  <2> DEFINE l == [o EXCEPT !.up = None, !.batch = o.up, !.at = "enqueue"]
  <2>1. l \in LinkType /\ l.up = None /\ l.batch = o.up /\ l.at = "enqueue" /\ l.down = o.down /\ l.stage = o.stage
    BY DEF LinkType
  <2>2. Set(a, k, l)
    BY <1>1, <1>6 DEF ReadFrame
  <2> HIDE DEF l
  <2>3. None \notin Bad \cup Unsendable
    BY NoneIsNoBatch, IngestAssumption
  <2>4. ThreadOK(l) /\ ~ Live(l)
    BY <1>2, <1>6, <2>1, <2>3 DEF ThreadOK, Live
  <2>5. Attached(a, k) => TalkOK(a, client[a], l, ever)
    BY <1>1, <1>2, <2>1, OneLink DEF TalkOK
  <2>. QED BY <1>1, <1>2, <1>3, <1>4, <2>1, <2>2, <2>4, <2>5, ThreadStep
<1>. QED BY <1>5, <1>6

LEMMA AcceptStep == ASSUME IInv, NEW a \in Agents, NEW k \in 1..Slots, Accept(a, k) PROVE IInv'
<1>1. PICK o \in LinkType : o = link[a][k]
  BY OneLink
<1>2. ThreadOK(o) /\ o.stage = "backlog" /\ ~ Live(o)
  BY <1>1, OneLink DEF Accept, Live, ThreadOK
<1>3. Frame /\ ever' = ever /\ dropped' = dropped
  BY BoundsCounted DEF Accept, Frame, Still, server, ghosts, IInv
<1>4. ever \subseteq Batch /\ dropped \subseteq Item
  BY DEF IInv, TypeOK
<1> DEFINE l == [o EXCEPT !.stage = "serving", !.at = "reading"]
<1>5. l \in LinkType /\ l.up = o.up /\ l.batch = o.batch /\ l.at = "reading" /\ l.down = o.down /\ l.stage = "serving"
  BY DEF LinkType
<1>6. Set(a, k, l) \/ Set(a, k, Over(o.down))
  BY <1>1 DEF Accept, Ended
<1> HIDE DEF l
<1>7. ThreadOK(l) /\ ~ Live(l)
  BY <1>2, <1>5 DEF ThreadOK, Live
<1>8. Attached(a, k) => TalkOK(a, client[a], l, ever)
  BY <1>1, <1>5, OneLink DEF TalkOK
<1>9. CASE Set(a, k, l)
  BY <1>1, <1>2, <1>3, <1>4, <1>5, <1>7, <1>8, <1>9, ThreadStep
<1>10. CASE Set(a, k, Over(o.down))
  BY <1>1, <1>2, <1>3, <1>10, EndStep
<1>. QED BY <1>6, <1>9, <1>10

LEMMA AddToOldStep == ASSUME IInv, NEW a \in Agents, NEW k \in 1..Slots, AddToOld(a, k) PROVE IInv'
<1>1. PICK o \in LinkType : o = link[a][k]
  BY OneLink
<1>2. ThreadOK(o) /\ o.old /\ o.at \in {"enqueue", "adding"} /\ ~ Live(o)
  BY <1>1, OneLink DEF AddToOld, Live
<1>3. o.batch \in Batch /\ o.batch # None
  BY <1>2, NoneIsNoBatch DEF ThreadOK, LinkType
<1>4. Frame
  BY BoundsCounted DEF AddToOld, Frame, Still, server, IInv
<1>5. ever \subseteq Batch /\ dropped \subseteq Item
  BY DEF IInv, TypeOK
<1>6. CASE Set(a, k, Answered(a, k, "ok")) /\ ever' = ever \cup {o.batch} /\ dropped' = dropped \cup ({o.batch} \X (1..Items))
  <2>1. ever' \subseteq Batch /\ dropped' \subseteq Item
    BY <1>3, <1>5, <1>6 DEF Item
  <2>. QED BY <1>1, <1>2, <1>3, <1>4, <1>6, <2>1, AnswerStep
<1>7. CASE Set(a, k, Answered(a, k, "full")) /\ UNCHANGED <<ever, dropped>>
  BY <1>1, <1>2, <1>3, <1>4, <1>5, <1>7, AnswerStep
<1>. QED BY <1>1, <1>6, <1>7 DEF AddToOld

--------------------------------------------------------------------------------
(* The queue, the memory and the lock *)

LEMMA RangeAppend ==
  ASSUME NEW T, NEW s \in Seq(T), NEW e \in T
  PROVE  Range(Append(s, e)) = Range(s) \cup {e}
<1>1. /\ DOMAIN s = 1..Len(s) /\ Len(s) \in Nat /\ DOMAIN Append(s, e) = 1..(Len(s) + 1)
      /\ \A i \in 1..Len(s) : Append(s, e)[i] = s[i]
      /\ Append(s, e)[Len(s) + 1] = e
  OBVIOUS
<1>2. ASSUME NEW x \in Range(Append(s, e)) PROVE x \in Range(s) \cup {e}
  <2>1. PICK i \in 1..(Len(s) + 1) : x = Append(s, e)[i]
    BY <1>1, <1>2 DEF Range
  <2>2. CASE i = Len(s) + 1
    BY <1>1, <2>1, <2>2
  <2>3. CASE i # Len(s) + 1
    <3>1. i \in 1..Len(s)
      BY <1>1, <2>3
    <3>. QED BY <1>1, <2>1, <3>1 DEF Range
  <2>. QED BY <2>2, <2>3
<1>3. ASSUME NEW x \in Range(s) \cup {e} PROVE x \in Range(Append(s, e))
  <2>1. PICK i \in 1..(Len(s) + 1) : x = Append(s, e)[i]
    <3>1. CASE x = e
      <4>1. Len(s) + 1 \in 1..(Len(s) + 1)
        BY <1>1
      <4>. QED BY <1>1, <3>1, <4>1
    <3>2. CASE x \in Range(s)
      <4>1. PICK i \in 1..Len(s) : x = s[i]
        BY <1>1, <3>2 DEF Range
      <4>2. i \in 1..(Len(s) + 1)
        BY <1>1, <4>1
      <4>. QED BY <1>1, <4>1, <4>2
    <3>. QED BY <3>1, <3>2
  <2>. QED BY <1>1, <2>1 DEF Range
<1>. QED BY <1>2, <1>3

LEMMA RangeTail ==
  ASSUME NEW T, NEW s \in Seq(T), s # <<>>
  PROVE  Range(Tail(s)) \subseteq Range(s)
<1>1. /\ DOMAIN s = 1..Len(s) /\ Len(s) \in Nat \ {0} /\ DOMAIN Tail(s) = 1..(Len(s) - 1)
      /\ \A i \in 1..(Len(s) - 1) : Tail(s)[i] = s[i + 1]
  OBVIOUS
<1>2. ASSUME NEW x \in Range(Tail(s)) PROVE x \in Range(s)
  <2>1. PICK i \in 1..(Len(s) - 1) : x = Tail(s)[i]
    BY <1>1, <1>2 DEF Range
  <2>2. i + 1 \in 1..Len(s) /\ x = s[i + 1]
    BY <1>1, <2>1
  <2>. QED BY <1>1, <2>2 DEF Range
<1>. QED BY <1>2

LEMMA Remembered ==
  ASSUME recent \in Seq(Batch), NEW b \in Batch
  PROVE  Remember(b) \in Seq(Batch) /\ Range(Remember(b)) \subseteq Range(recent) \cup {b}
<1> DEFINE all == Append(recent, b)
<1>1. all \in Seq(Batch) /\ all # <<>> /\ Range(all) = Range(recent) \cup {b}
  BY RangeAppend
<1>2. Remember(b) = all \/ Remember(b) = Tail(all)
  BY DEF Remember
<1> HIDE DEF all
<1>3. Tail(all) \in Seq(Batch) /\ Range(Tail(all)) \subseteq Range(all)
  BY <1>1, RangeTail
<1>. QED BY <1>1, <1>2, <1>3

LEMMA NoneIsNoLink == None \notin Links
<1>1. SUFFICES ASSUME NEW a \in Agents, NEW k \in 1..Slots, None = <<a, k>> PROVE FALSE
  BY DEF Links
<1>2. Len(<<>>) = 0 /\ Len(<<a, k>>) = 2
  OBVIOUS
<1>. QED BY <1>1, <1>2 DEF None

\* The other connections of a step that sets one.
LEMMA Others ==
  ASSUME IInv, NEW a \in Agents, NEW k \in 1..Slots, NEW l \in LinkType, Set(a, k, l),
         ThreadOK(l), Attached(a, k) => TalkOK(a, client[a], l, ever'), ever \subseteq ever'
  PROVE  /\ link' \in LinkStates /\ Of(<<a, k>>)' = l
         /\ \A c \in Links : c # <<a, k>> => Of(c)' = Of(c)
         /\ \A b \in Agents, j \in 1..Slots :
              ThreadOK(link'[b][j]) /\ (Attached(b, j) => TalkOK(b, client[b], link'[b][j], ever'))
<1>1. TypeOK /\ link \in LinkStates
  BY Types DEF IInv
<1>2. /\ link' \in LinkStates /\ link'[a][k] = l
      /\ \A b \in Agents, j \in 1..Slots : <<b, j>> # <<a, k>> => link'[b][j] = link[b][j]
  BY <1>1, SetLink
<1>3. ASSUME NEW b \in Agents, NEW j \in 1..Slots
      PROVE  ThreadOK(link'[b][j]) /\ (Attached(b, j) => TalkOK(b, client[b], link'[b][j], ever'))
  <2>1. CASE <<b, j>> = <<a, k>>
    BY <1>2, <2>1
  <2>2. CASE <<b, j>> # <<a, k>>
    <3>1. link'[b][j] = link[b][j]
      BY <1>2, <2>2
    <3>. QED BY <3>1, OneLink, TalkGrows
  <2>. QED BY <2>1, <2>2
<1>4. Of(<<a, k>>)' = l
  BY <1>2 DEF Of
<1>5. \A c \in Links : c # <<a, k>> => Of(c)' = Of(c)
  BY <1>2 DEF Links, Of
<1>. QED BY <1>2, <1>3, <1>4, <1>5

LEMMA EnqueueStep == ASSUME IInv, NEW a \in Agents, NEW k \in 1..Slots, Enqueue(a, k) PROVE IInv'
<1>1. PICK o \in LinkType : o = link[a][k]
  BY OneLink
<1>2. ThreadOK(o) /\ o.at = "enqueue" /\ ~ o.old /\ ~ Live(o)
  BY <1>1, OneLink DEF Enqueue, Live
<1>3. o.batch \in Batch /\ o.batch # None
  BY <1>2, NoneIsNoBatch DEF ThreadOK, LinkType
<1>4. TypeOK /\ ever \subseteq Batch /\ dropped \subseteq Item /\ Counted
  BY BoundsCounted DEF IInv, TypeOK, Enqueue
<1>5. UNCHANGED <<client, queue, recent, listener, ghosts>> /\ holder = None
  BY DEF Enqueue, LockFree
<1>6. CASE holder' = holder /\ o.batch \in Range(recent) /\ Set(a, k, Answered(a, k, "ok"))
  <2>1. o.batch \in ever
    BY <1>6 DEF IInv
  <2>2. Frame
    BY <1>4, <1>5, <1>6 DEF Frame, Still, ghosts
  <2>. QED BY <1>1, <1>2, <1>3, <1>4, <1>5, <1>6, <2>1, <2>2, AnswerStep DEF ghosts
<1>7. CASE holder' = holder /\ Set(a, k, Answered(a, k, "full"))
  <2>1. Frame
    BY <1>4, <1>5, <1>7 DEF Frame, Still, ghosts
  <2>. QED BY <1>1, <1>2, <1>3, <1>4, <1>5, <1>7, <2>1, AnswerStep DEF ghosts
<1>8. CASE /\ o.batch \notin Range(recent) /\ holder' = <<a, k>>
           /\ Set(a, k, [o EXCEPT !.at = "adding", !.left = Items])
  <2> DEFINE l == [o EXCEPT !.at = "adding", !.left = Items]
  <2>1. Items \in 0..Items /\ Items # 0
    BY IngestAssumption
  <2>2. l \in LinkType /\ l.up = o.up /\ l.batch = o.batch /\ l.at = "adding" /\ l.down = o.down
        /\ l.stage = o.stage /\ l.left = Items /\ l.old = o.old
    BY <2>1 DEF LinkType
  <2>3. Set(a, k, l)
    BY <1>8
  <2> HIDE DEF l
  <2>4. ThreadOK(l)
    BY <1>2, <1>3, <2>1, <2>2 DEF ThreadOK
  <2>5. Attached(a, k) => TalkOK(a, client[a], l, ever')
    BY <1>1, <1>5, <2>2, OneLink DEF TalkOK, ghosts
  <2>6. /\ link' \in LinkStates /\ Of(<<a, k>>)' = l
        /\ \A c \in Links : c # <<a, k>> => Of(c)' = Of(c)
        /\ \A b \in Agents, j \in 1..Slots :
             ThreadOK(link'[b][j]) /\ (Attached(b, j) => TalkOK(b, client[b], link'[b][j], ever'))
    BY <1>5, <2>2, <2>3, <2>4, <2>5, Others DEF ghosts
  <2>7. LockOK'
    <3>1. \A c \in Links : ~ Live(Of(c))
      BY <1>5, NoneIsNoLink DEF IInv, LockOK, Live
    <3>2. \A c \in Links : Of(c)'.at = "adding" /\ ~ Of(c)'.old => c = <<a, k>>
      BY <2>6, <3>1 DEF Live
    <3>3. Of(holder)' = l /\ recent' = recent
      BY <1>5, <1>8, <2>6
    <3>. QED BY <1>2, <1>8, <2>2, <3>2, <3>3 DEF LockOK
  <2>8. EndOK' /\ Unbroken'
    BY <1>5 DEF IInv, EndOK, Unbroken
  <2>9. /\ taken' \in [Batch -> Nat] /\ listener' \in {"open", "lost", "closed"} /\ rejected' = rejected
        /\ queue' \in Seq(Item) /\ recent' \in Seq(Batch) /\ holder' \in Links \cup {None}
        /\ client' = client /\ ever' = ever /\ dropped' = dropped
    BY <1>4, <1>5, <1>8 DEF TypeOK, ghosts, Links
  <2>10. Range(recent') \subseteq ever'
    BY <1>5, <2>9 DEF IInv
  <2>. QED BY <1>4, <2>6, <2>7, <2>8, <2>9, <2>10, ServerStep
<1>. QED BY <1>1, <1>6, <1>7, <1>8 DEF Enqueue, recentBatchKey

\* The item after the last one of the queue follows it.
LEMMA Follows ==
  ASSUME IInv, NEW o, holder # None, o = Of(holder), o.left \in 1..Items,
         queue \in Seq(Item), o.batch \in Batch,
         queue' = Append(queue, <<o.batch, Items - o.left + 1>>)
  PROVE  /\ queue' \in Seq(Item) /\ Unbroken'
         /\ queue' # <<>> /\ queue'[Len(queue')] = <<o.batch, Items - o.left + 1>>
<1> DEFINE e == <<o.batch, Items - o.left + 1>>
<1>1. e \in Item /\ e[2] = Items - o.left + 1 /\ Items \in Nat
  BY IngestAssumption DEF Item
<1> HIDE DEF e
<1>2. /\ queue' \in Seq(Item) /\ Len(queue) \in Nat /\ Len(queue') = Len(queue) + 1
      /\ \A i \in 1..Len(queue) : queue'[i] = queue[i]
      /\ queue'[Len(queue')] = e /\ queue' # <<>>
  BY <1>1 DEF e
<1>3. ASSUME NEW i \in 1..(Len(queue') - 1), queue'[i][2] < Items
      PROVE  queue'[i + 1] = <<queue'[i][1], queue'[i][2] + 1>>
  <2>1. i \in 1..Len(queue) /\ queue'[i] = queue[i] /\ queue[i][2] < Items
    BY <1>2, <1>3
  <2>2. CASE i = Len(queue)
    <3>1. queue # <<>>
      BY <2>1
    <3>2. queue[i] = <<o.batch, Items - o.left>>
      BY <2>1, <2>2, <3>1 DEF IInv, EndOK
    <3>. QED BY <1>1, <1>2, <2>1, <2>2, <3>2 DEF e
  <2>3. CASE i # Len(queue)
    <3>1. i \in 1..(Len(queue) - 1) /\ i + 1 \in 1..Len(queue)
      BY <1>2, <2>1, <2>3
    <3>2. queue[i + 1] = <<queue[i][1], queue[i][2] + 1>>
      BY <2>1, <3>1 DEF IInv, Unbroken
    <3>. QED BY <1>2, <2>1, <3>1, <3>2
  <2>. QED BY <2>2, <2>3
<1>. QED BY <1>2, <1>3 DEF e, Unbroken

LEMMA AddStep == ASSUME IInv, NEW a \in Agents, NEW k \in 1..Slots, Add(a, k) PROVE IInv'
<1>1. PICK o \in LinkType : o = link[a][k]
  BY OneLink
<1>2. ThreadOK(o) /\ o.at = "adding" /\ ~ o.old /\ <<a, k>> \in Links
  BY <1>1, OneLink DEF Add, Links
<1>3. o.batch \in Batch /\ o.batch # None /\ o.left \in 1..Items
  BY <1>2, NoneIsNoBatch DEF ThreadOK, LinkType
<1>4. TypeOK /\ Counted /\ queue \in Seq(Item) /\ recent \in Seq(Batch) /\ taken \in [Batch -> Nat] /\ ever \subseteq Batch
  BY BoundsCounted DEF IInv, TypeOK, Add
<1>5. Of(<<a, k>>) = o /\ holder = <<a, k>>
  BY <1>1, <1>2 DEF Of, IInv, LockOK
<1>6. o.batch \notin Range(recent) /\ holder # None
  BY <1>2, <1>5, NoneIsNoLink DEF IInv, LockOK
<1>7. \A c \in Links : c # <<a, k>> => ~ Live(Of(c))
  BY <1>5 DEF IInv, LockOK, Live
<1>8. UNCHANGED <<client, listener, rejected, dropped>>
  BY DEF Add
<1>9. queue' = Append(queue, <<o.batch, Items - o.left + 1>>)
  BY <1>1 DEF Add
<1>10. /\ queue' \in Seq(Item) /\ Unbroken'
       /\ queue' # <<>> /\ queue'[Len(queue')] = <<o.batch, Items - o.left + 1>>
  BY <1>3, <1>4, <1>5, <1>6, <1>9, Follows
<1>11. CASE o.left > 1
  <2> DEFINE l == [o EXCEPT !.left = o.left - 1]
  <2>1. o.left - 1 \in 0..Items /\ o.left - 1 # 0
    BY <1>3, <1>11, IngestAssumption
  <2>2. l \in LinkType /\ l.up = o.up /\ l.batch = o.batch /\ l.at = "adding" /\ l.down = o.down
        /\ l.stage = o.stage /\ l.left = o.left - 1 /\ l.old = o.old
    BY <1>2, <2>1 DEF LinkType
  <2>3. Set(a, k, l) /\ UNCHANGED <<recent, holder, taken, ever>>
    BY <1>1, <1>11 DEF Add
  <2> HIDE DEF l
  <2>4. ThreadOK(l)
    BY <1>2, <1>3, <2>1, <2>2 DEF ThreadOK
  <2>5. Attached(a, k) => TalkOK(a, client[a], l, ever')
    BY <1>1, <2>2, <2>3, OneLink DEF TalkOK
  <2>6. /\ link' \in LinkStates /\ Of(<<a, k>>)' = l
        /\ \A c \in Links : c # <<a, k>> => Of(c)' = Of(c)
        /\ \A b \in Agents, j \in 1..Slots :
             ThreadOK(link'[b][j]) /\ (Attached(b, j) => TalkOK(b, client[b], link'[b][j], ever'))
    BY <2>2, <2>3, <2>4, <2>5, Others
  <2>7. Of(holder)' = l
    BY <1>5, <2>3, <2>6
  <2>8. LockOK'
    <3>1. \A c \in Links : Of(c)'.at = "adding" /\ ~ Of(c)'.old => c = <<a, k>>
      BY <1>7, <2>6 DEF Live
    <3>. QED BY <1>2, <1>5, <1>6, <2>2, <2>3, <2>7, <3>1 DEF LockOK
  <2>9. EndOK'
    <3>1. Items - (o.left - 1) = Items - o.left + 1
      BY <1>3, IngestAssumption
    <3>. QED BY <1>6, <1>10, <2>2, <2>3, <2>7, <3>1 DEF EndOK
  <2>10. /\ taken' \in [Batch -> Nat] /\ listener' \in {"open", "lost", "closed"} /\ rejected' = rejected
         /\ recent' \in Seq(Batch) /\ holder' \in Links \cup {None}
         /\ client' = client /\ ever' = ever /\ dropped' \subseteq Item
    BY <1>4, <1>8, <2>3 DEF TypeOK, Links
  <2>11. Range(recent') \subseteq ever'
    BY <2>3 DEF IInv
  <2>. QED BY <1>4, <1>10, <2>6, <2>8, <2>9, <2>10, <2>11, ServerStep
<1>12. CASE o.left = 1
  <2>1. /\ Set(a, k, Answered(a, k, "ok"))
        /\ recent' = Remember(o.batch) /\ holder' = None
        /\ taken' = [taken EXCEPT ![o.batch] = taken[o.batch] + 1]
        /\ ever' = ever \cup {o.batch}
    BY <1>1, <1>12 DEF Add, recentBatchKey
  <2>2. PICK l \in LinkType : l = Answered(a, k, "ok")
    BY <1>1, <1>2, <1>3, AnswerTalk, <2>1
  <2>3. Set(a, k, l) /\ ThreadOK(l) /\ ~ Live(l) /\ (Attached(a, k) => TalkOK(a, client[a], l, ever'))
    <3>1. ever \subseteq ever' /\ o.batch \in ever'
      BY <2>1
    <3>. QED BY <1>1, <1>2, <1>3, <2>1, <2>2, <3>1, AnswerTalk
  <2>4. /\ link' \in LinkStates /\ Of(<<a, k>>)' = l
        /\ \A c \in Links : c # <<a, k>> => Of(c)' = Of(c)
        /\ \A b \in Agents, j \in 1..Slots :
             ThreadOK(link'[b][j]) /\ (Attached(b, j) => TalkOK(b, client[b], link'[b][j], ever'))
    BY <2>1, <2>3, Others
  <2>5. LockOK'
    <3>1. \A c \in Links : ~ Live(Of(c)')
      BY <1>7, <2>3, <2>4
    <3>. QED BY <2>1, <3>1 DEF LockOK, Live
  <2>6. EndOK'
    <3>1. Items - o.left + 1 = Items
      BY <1>12, IngestAssumption
    <3>2. queue'[Len(queue')][2] = Items /\ ~ (Items < Items)
      BY <1>10, <3>1, IngestAssumption
    <3>. QED BY <3>2 DEF EndOK
  <2>7. recent' \in Seq(Batch) /\ Range(recent') \subseteq ever'
    <3>1. Range(recent) \subseteq ever
      BY DEF IInv
    <3>. QED BY <1>3, <1>4, <2>1, <3>1, Remembered
  <2>8. /\ taken' \in [Batch -> Nat] /\ listener' \in {"open", "lost", "closed"} /\ rejected' = rejected
        /\ holder' \in Links \cup {None} /\ client' = client /\ dropped' \subseteq Item
        /\ ever \subseteq ever' /\ ever' \subseteq Batch
    BY <1>3, <1>4, <1>8, <2>1 DEF TypeOK
  <2>. QED BY <1>4, <1>10, <2>4, <2>5, <2>6, <2>7, <2>8, ServerStep
<1>. QED BY <1>3, <1>11, <1>12

LEMMA PollStep == ASSUME IInv, Poll PROVE IInv'
<1>1. TypeOK /\ queue \in Seq(Item) /\ queue # <<>> /\ queue' = Tail(queue)
  BY DEF IInv, TypeOK, Poll
<1>2. /\ Len(queue) \in Nat \ {0} /\ queue' \in Seq(Item) /\ Len(queue') = Len(queue) - 1
      /\ \A i \in 1..Len(queue') : queue'[i] = queue[i + 1]
  BY <1>1
<1>3. UNCHANGED <<client, link, recent, holder, listener, ghosts, bounds>>
  BY DEF Poll
<1>4. LockOK'
  <2>1. \A c : Of(c)' = Of(c)
    BY <1>3 DEF Of
  <2>. QED BY <1>3, <2>1 DEF IInv, LockOK
<1>5. EndOK'
  <2>1. SUFFICES ASSUME queue' # <<>>, queue'[Len(queue')][2] < Items
                 PROVE  holder' # None /\ queue'[Len(queue')] = <<Of(holder)'.batch, Items - Of(holder)'.left>>
    BY DEF EndOK
  <2>2. Len(queue') \in 1..Len(queue') /\ Len(queue') + 1 = Len(queue)
    BY <1>2, <2>1
  <2>3. queue'[Len(queue')] = queue[Len(queue)]
    BY <1>2, <2>2
  <2>4. Of(holder)' = Of(holder)
    BY <1>3 DEF Of
  <2>. QED BY <1>1, <1>3, <2>1, <2>3, <2>4 DEF IInv, EndOK
<1>6. Unbroken'
  <2>1. SUFFICES ASSUME NEW i \in 1..(Len(queue') - 1), queue'[i][2] < Items
                 PROVE  queue'[i + 1] = <<queue'[i][1], queue'[i][2] + 1>>
    BY DEF Unbroken
  <2>2. i + 1 \in 1..(Len(queue) - 1) /\ i \in 1..Len(queue') /\ i + 1 \in 1..Len(queue')
    BY <1>2, <2>1
  <2>3. queue'[i] = queue[i + 1] /\ queue'[i + 1] = queue[i + 1 + 1]
    BY <1>2, <2>2
  <2>4. queue[i + 1 + 1] = <<queue[i + 1][1], queue[i + 1][2] + 1>>
    BY <2>1, <2>2, <2>3 DEF IInv, Unbroken
  <2>. QED BY <2>3, <2>4
<1>7. Counted
  BY <1>1, <1>3, BoundsCounted
<1>8. \A b \in Agents, j \in 1..Slots :
        ThreadOK(link'[b][j]) /\ (Attached(b, j) => TalkOK(b, client[b], link'[b][j], ever'))
  BY <1>3, OneLink DEF ghosts
<1>9. /\ link' \in LinkStates /\ ever' = ever /\ ever' \subseteq Batch /\ taken' \in [Batch -> Nat] /\ dropped' \subseteq Item
      /\ listener' \in {"open", "lost", "closed"} /\ recent' \in Seq(Batch) /\ holder' \in Links \cup {None}
      /\ client' = client /\ rejected' = rejected
  BY <1>1, <1>3 DEF TypeOK, ghosts, LinkStates, Links
<1>10. Range(recent') \subseteq ever'
  BY <1>3, <1>9 DEF IInv
<1>. QED BY <1>2, <1>4, <1>5, <1>6, <1>7, <1>8, <1>9, <1>10, ServerStep

--------------------------------------------------------------------------------
(* Listener, adapter and process *)

\* Threads that are not adding may end, all at once.
LEMMA EndsManyStep ==
  ASSUME IInv, client' = client, Still, Counted, UNCHANGED ghosts,
         listener' \in {"open", "lost", "closed"},
         link' = [a \in Agents |-> [k \in 1..Slots |-> link'[a][k]]],
         \A a \in Agents, k \in 1..Slots :
            \/ link'[a][k] = link[a][k]
            \/ link'[a][k] = Over(link[a][k].down) /\ ~ Live(link[a][k])
  PROVE  IInv'
<1>1. TypeOK
  BY DEF IInv
<1>2. ASSUME NEW a \in Agents, NEW k \in 1..Slots
      PROVE  /\ link'[a][k] \in LinkType /\ ThreadOK(link'[a][k])
             /\ Attached(a, k) => TalkOK(a, client[a], link'[a][k], ever)
             /\ link'[a][k] = link[a][k] \/ (~ Live(link[a][k]) /\ ~ Live(link'[a][k]))
  <2>1. CASE link'[a][k] = link[a][k]
    BY <2>1, OneLink
  <2>2. CASE link'[a][k] = Over(link[a][k].down) /\ ~ Live(link[a][k])
    <3>1. PICK o \in LinkType : o = link[a][k]
      BY OneLink
    <3>2. o.down \in {"ok", "full", "bad", "none"}
      BY DEF LinkType
    <3>3. Over(o.down) \in LinkType /\ ThreadOK(Over(o.down)) /\ ~ Live(Over(o.down))
      BY <3>2, OverOK DEF Live, Over
    <3>4. Attached(a, k) => TalkOK(a, client[a], Over(o.down), ever)
      BY <3>1, OneLink, OverTalk
    <3>. QED BY <2>2, <3>1, <3>3, <3>4
  <2>. QED BY <2>1, <2>2
<1>3. link' \in LinkStates
  BY <1>2 DEF LinkStates
<1>4. \A c \in Links : Of(c)' = Of(c) \/ (~ Live(Of(c)) /\ ~ Live(Of(c)'))
  BY <1>2 DEF Links, Of
<1>5. LockOK' /\ EndOK' /\ Unbroken'
  <2>1. holder \in Links \cup {None}
    BY <1>1 DEF TypeOK, Links
  <2>. QED BY <1>4, <2>1, Quiet DEF IInv, Still
<1>6. /\ ever' = ever /\ ever' \subseteq Batch /\ taken' \in [Batch -> Nat] /\ dropped' \subseteq Item
      /\ queue' \in Seq(Item) /\ recent' \in Seq(Batch) /\ holder' \in Links \cup {None}
      /\ rejected' = rejected
  BY <1>1 DEF TypeOK, ghosts, Still, Links
<1>7. Range(recent') \subseteq ever'
  BY <1>6 DEF IInv, Still
<1>. QED BY <1>2, <1>3, <1>5, <1>6, <1>7, ServerStep

LEMMA RestoreStep == ASSUME IInv, RestoreListener PROVE IInv'
<1>1. TypeOK /\ UNCHANGED <<client, link, ghosts, bounds>> /\ Still
  BY DEF IInv, RestoreListener, Still
<1>2. Counted
  BY <1>1, BoundsCounted
<1>3. link' = [a \in Agents |-> [k \in 1..Slots |-> link'[a][k]]]
  BY <1>1 DEF TypeOK
<1>. QED BY <1>1, <1>2, <1>3, EndsManyStep DEF RestoreListener

LEMMA CloseStep == ASSUME IInv, ReloadTls \/ CloseAdapter PROVE IInv'
<1>1. UNCHANGED <<client, ghosts>> /\ Still /\ listener' \in {"open", "lost", "closed"}
  BY DEF ReloadTls, CloseAdapter, Still
<1>2. Counted
  <2>1. CASE ReloadTls
    BY <2>1, TroubleCounted DEF ReloadTls, IInv
  <2>2. CASE CloseAdapter
    BY <2>2, IngestAssumption DEF CloseAdapter, Counted, IInv, TypeOK
  <2>. QED BY <2>1, <2>2
<1>3. link' = [a \in Agents |-> [k \in 1..Slots |-> link'[a][k]]]
  BY DEF ReloadTls, CloseAdapter, BacklogReset
<1>4. ASSUME NEW a \in Agents, NEW k \in 1..Slots
      PROVE  \/ link'[a][k] = link[a][k]
             \/ link'[a][k] = Over(link[a][k].down) /\ ~ Live(link[a][k])
  <2>1. ThreadOK(link[a][k])
    BY OneLink
  <2>2. link[a][k].stage = "backlog" \/ link[a][k].at = "reading" => ~ Live(link[a][k])
    BY <2>1 DEF ThreadOK, Live
  <2>3. CASE ReloadTls
    BY <2>2, <2>3 DEF ReloadTls, BacklogReset, Ended
  <2>4. CASE CloseAdapter
    BY <2>2, <2>4 DEF CloseAdapter, BacklogReset, Ended
  <2>. QED BY <2>3, <2>4
<1>. QED BY <1>1, <1>2, <1>3, <1>4, EndsManyStep

\* A new adapter starts with nothing, and no thread of the old one adds to its queue.
LEMMA NewAdapterStep ==
  ASSUME IInv, NewAdapter, holder' = None, UNCHANGED <<client, ever, rejected>>, Counted,
         dropped' \subseteq Item, link' \in LinkStates,
         \A a \in Agents, k \in 1..Slots :
            /\ ThreadOK(link'[a][k]) /\ ~ Live(link'[a][k])
            /\ Attached(a, k) => TalkOK(a, client[a], link'[a][k], ever)
  PROVE  IInv'
<1>1. LockOK'
  <2>1. \A c \in Links : ~ Live(Of(c)')
    BY DEF Links, Of
  <2>. QED BY <2>1 DEF LockOK, Live
<1>2. EndOK' /\ Unbroken'
  <2>1. queue' = <<>> /\ Len(queue') = 0
    BY DEF NewAdapter
  <2>. QED BY <2>1 DEF EndOK, Unbroken
<1>3. queue' \in Seq(Item) /\ recent' \in Seq(Batch) /\ Range(recent') \subseteq ever'
  BY DEF NewAdapter, Range
<1>4. taken' \in [Batch -> Nat] /\ listener' \in {"open", "lost", "closed"} /\ ever \subseteq Batch
  BY DEF NewAdapter, IInv, TypeOK
<1>. QED BY <1>1, <1>2, <1>3, <1>4, ServerStep

LEMMA ReopenStep == ASSUME IInv, ReopenAdapter PROVE IInv'
<1>1. TypeOK /\ NewAdapter /\ holder' = None /\ UNCHANGED <<client, ever, rejected, bounds>>
  BY DEF IInv, ReopenAdapter
<1>2. Counted
  BY <1>1, BoundsCounted
<1>3. dropped' \subseteq Item
  <2>1. \A x \in Range(queue) : x \in Item
    BY <1>1 DEF TypeOK, Range
  <2>. QED BY <1>1, <2>1 DEF TypeOK, ReopenAdapter
<1>4. ASSUME NEW a \in Agents, NEW k \in 1..Slots
      PROVE  /\ link'[a][k] \in LinkType /\ ThreadOK(link'[a][k]) /\ ~ Live(link'[a][k])
             /\ Attached(a, k) => TalkOK(a, client[a], link'[a][k], ever)
  <2>1. PICK o \in LinkType : o = link[a][k]
    BY OneLink
  <2>2. ThreadOK(o) /\ (Attached(a, k) => TalkOK(a, client[a], o, ever))
    BY <2>1, OneLink
  <2> DEFINE l == [o EXCEPT !.old = o.stage = "serving"]
  <2>3. l \in LinkType /\ l.up = o.up /\ l.batch = o.batch /\ l.at = o.at /\ l.down = o.down
        /\ l.stage = o.stage /\ l.left = o.left /\ l.old = (o.stage = "serving")
    BY DEF LinkType
  <2>4. link'[a][k] = l
    BY <2>1 DEF ReopenAdapter
  <2> HIDE DEF l
  <2>5. ThreadOK(l) /\ ~ Live(l)
    BY <2>2, <2>3 DEF ThreadOK, Live
  <2>6. Attached(a, k) => TalkOK(a, client[a], l, ever)
    BY <2>2, <2>3 DEF TalkOK
  <2>. QED BY <2>3, <2>4, <2>5, <2>6
<1>5. link' \in LinkStates
  <2>1. link' = [a \in Agents |-> [k \in 1..Slots |-> link'[a][k]]]
    BY DEF ReopenAdapter
  <2>. QED BY <1>4, <2>1 DEF LinkStates
<1>. QED BY <1>1, <1>2, <1>3, <1>4, <1>5, NewAdapterStep

LEMMA CrashStep == ASSUME IInv, Crash PROVE IInv'
<1>1. TypeOK /\ NewAdapter /\ holder' = None /\ UNCHANGED <<client, ever, rejected, dropped, troubles, closes>>
  BY DEF IInv, Crash
<1>2. Counted
  BY <1>1, IngestAssumption DEF Crash, Counted, TypeOK
<1>3. dropped' \subseteq Item
  BY <1>1 DEF TypeOK
<1>4. ASSUME NEW a \in Agents, NEW k \in 1..Slots
      PROVE  /\ link'[a][k] \in LinkType /\ ThreadOK(link'[a][k]) /\ ~ Live(link'[a][k])
             /\ Attached(a, k) => TalkOK(a, client[a], link'[a][k], ever)
  <2>1. link'[a][k] = NoLink \/ link'[a][k] = Over("none")
    BY DEF Crash
  <2>2. NoLink \in LinkType /\ ThreadOK(NoLink) /\ ~ Live(NoLink)
    BY NoLinkOK DEF NoLink, Fresh, Live
  <2>3. Over("none") \in LinkType /\ ThreadOK(Over("none")) /\ ~ Live(Over("none"))
    BY OverOK DEF Over, Live
  <2>4. TalkOK(a, client[a], NoLink, ever) /\ TalkOK(a, client[a], Over("none"), ever)
    BY NothingSaid
  <2>. QED BY <2>1, <2>2, <2>3, <2>4
<1>5. link' \in LinkStates
  <2>1. link' = [a \in Agents |-> [k \in 1..Slots |-> link'[a][k]]]
    BY DEF Crash
  <2>. QED BY <1>4, <2>1 DEF LinkStates
<1>. QED BY <1>1, <1>2, <1>3, <1>4, <1>5, NewAdapterStep

--------------------------------------------------------------------------------
(* The theorems *)

LEMMA InitOK == Init => IInv
<1> SUFFICES ASSUME Init PROVE IInv
  OBVIOUS
<1>1. Idle \in ClientType
  BY IngestAssumption DEF Idle, ClientType
<1>2. \A a \in Agents, k \in 1..Slots : link[a][k] = NoLink
  BY DEF Init
<1>3. \A a \in Agents : client[a] = Idle /\ Current(a) = 0 /\ SenderOK(a, client[a])
  BY DEF Init, Idle, Current, SenderOK
<1>4. TypeOK
  <2>1. link \in LinkStates
    BY NoLinkOK DEF Init, LinkStates
  <2>2. client \in [Agents -> ClientType]
    BY <1>1 DEF Init
  <2>. QED BY <2>1, <2>2, IngestAssumption DEF Init, TypeOK, LinkStates
<1>5. \A a \in Agents, k \in 1..Slots : ThreadOK(link[a][k]) /\ ~ Live(link[a][k])
  BY <1>2, NoLinkOK DEF NoLink, Fresh, Live
<1>6. LockOK
  <2>1. \A c \in Links : ~ Live(Of(c))
    BY <1>5 DEF Links, Of
  <2>. QED BY <2>1 DEF LockOK, Live, Init
<1>7. TalksOK
  BY <1>3 DEF TalksOK
<1>8. Range(recent) \subseteq ever
  BY DEF Init, Range
<1>9. AckedTaken /\ GivenUpOnlyHopeless
  <2>1. \A a \in Agents : client[a].next - 1 = 0
    BY <1>3 DEF Idle
  <2>. QED BY <2>1 DEF AckedTaken, GivenUpOnlyHopeless, Init
<1>10. EndOK /\ Unbroken
  <2>1. queue = <<>> /\ Len(queue) = 0
    BY DEF Init
  <2>. QED BY <2>1 DEF EndOK, Unbroken
<1>. QED BY <1>3, <1>4, <1>5, <1>6, <1>7, <1>8, <1>9, <1>10 DEF IInv

LEMMA StutterOK == IInv /\ UNCHANGED vars => IInv'
<1> SUFFICES ASSUME IInv, UNCHANGED vars PROVE IInv'
  OBVIOUS
<1>1. TypeOK /\ UNCHANGED <<client, link, ghosts, bounds>> /\ Still /\ listener' = listener
  BY DEF IInv, vars, server, Still
<1>2. Counted
  BY <1>1, BoundsCounted
<1>3. link' = [a \in Agents |-> [k \in 1..Slots |-> link'[a][k]]]
  BY <1>1 DEF TypeOK
<1>. QED BY <1>1, <1>2, <1>3, EndsManyStep DEF TypeOK

LEMMA NextOK == IInv /\ Next => IInv'
<1> SUFFICES ASSUME IInv, Next PROVE IInv'
  OBVIOUS
<1>1. ASSUME NEW a \in Agents, Send(a) PROVE IInv'
  BY <1>1, RefuseLocallyStep, StartSendStep, DialStep, WriteStep, SenderErrors, ReadReplyStep DEF Send
<1>2. ASSUME NEW a \in Agents, DropIdle(a) \/ DialFails(a) \/ TimesOut(a) \/ AgentRestarts(a) PROVE IInv'
  BY <1>2, LetGoStep, SenderErrors
<1>3. ASSUME NEW a \in Agents, NEW k \in 1..Slots, Serve(a, k) \/ Retire(a, k) \/ Breaks(a, k) PROVE IInv'
  BY <1>3, ReadFrameStep, EndsStep, EnqueueStep, AddStep, AddToOldStep DEF Serve
<1>4. RunInput => IInv'
  BY PollStep, RestoreStep, AcceptStep DEF RunInput
<1>. QED BY <1>1, <1>2, <1>3, <1>4, CloseStep, ReopenStep, CrashStep DEF Next

\* The invariant of the whole conversation: who holds the lock, what lies on each
\* connection, where the queue is cut.
THEOREM Inductive == Spec => []IInv
  BY InitOK, StutterOK, NextOK, PTL DEF Spec

\* Every variable keeps its type.
THEOREM TypeCorrect == Spec => []TypeOK
<1>1. IInv => TypeOK
  BY DEF IInv
<1>. QED BY <1>1, Inductive, PTL

\* What an agent's spool lets go of was put into the server's queue as a whole, or
\* refused for good, for any number of agents, batches, connections and failures.
THEOREM NothingLetGoUntaken == Spec => []AckedTaken
<1>1. IInv => AckedTaken
  BY DEF IInv
<1>. QED BY <1>1, Inductive, PTL

\* No record is moved to the dead letters that could still have been accepted.
THEOREM NothingGivenUp == Spec => []GivenUpOnlyHopeless
<1>1. IInv => GivenUpOnlyHopeless
  BY DEF IInv
<1>. QED BY <1>1, Inductive, PTL

\* The items of one batch lie together and in order in the queue.
THEOREM BatchesUnbroken == Spec => []Unbroken
<1>1. IInv => Unbroken
  BY DEF IInv
<1>. QED BY <1>1, Inductive, PTL

--------------------------------------------------------------------------------
(* The memory of the adapter *)

\* The steps that change what is remembered, or how often a batch was taken.
LEMMA WhoRemembers ==
  ASSUME Next
  PROVE  \/ UNCHANGED <<recent, taken>>
         \/ NewAdapter
         \/ \E a \in Agents, k \in 1..Slots : Add(a, k)
<1>1. ASSUME NEW a \in Agents, Send(a) \/ DropIdle(a) \/ DialFails(a) \/ TimesOut(a) \/ AgentRestarts(a)
      PROVE  UNCHANGED <<recent, taken>>
  BY <1>1 DEF Send, RefuseLocally, StartSend, Dial, Write, SeesClosed, ReadReply, DropIdle, DialFails, TimesOut,
       AgentRestarts, server, ghosts
<1>2. ASSUME NEW a \in Agents, NEW k \in 1..Slots, Serve(a, k) \/ Retire(a, k) \/ Breaks(a, k), ~ Add(a, k)
      PROVE  UNCHANGED <<recent, taken>>
  BY <1>2 DEF Serve, ReadFrame, ReadsEnd, Enqueue, AddToOld, Forget, Retire, Breaks, server, ghosts
<1>3. RunInput => UNCHANGED <<recent, taken>>
  BY DEF RunInput, Poll, RestoreListener, Accept, server, ghosts
<1>4. ReloadTls \/ CloseAdapter => UNCHANGED <<recent, taken>>
  BY DEF ReloadTls, CloseAdapter, ghosts
<1>5. ReopenAdapter \/ Crash => NewAdapter
  BY DEF ReopenAdapter, Crash
<1>. QED BY <1>1, <1>2, <1>3, <1>4, <1>5 DEF Next

\* The thread that adds the last item of a batch.
LEMMA AddsOnce ==
  ASSUME IInv, NEW a \in Agents, NEW k \in 1..Slots, Add(a, k)
  PROVE  \/ UNCHANGED <<recent, taken>>
         \/ \E b \in Batch \ (Bad \cup Unsendable \cup Range(recent)) :
              recent' = Remember(b) /\ taken' = [taken EXCEPT ![b] = taken[b] + 1]
<1>1. PICK o \in LinkType : o = link[a][k]
  BY OneLink
<1>2. ThreadOK(o) /\ o.at = "adding" /\ ~ o.old /\ <<a, k>> \in Links
  BY <1>1, OneLink DEF Add, Links
<1>3. o.batch \in Batch /\ o.batch \notin Bad \cup Unsendable
  BY <1>2, NoneIsNoBatch DEF ThreadOK, LinkType
<1>4. o.batch \notin Range(recent)
  <2>1. Of(<<a, k>>) = o /\ holder = <<a, k>>
    BY <1>1, <1>2 DEF Of, IInv, LockOK
  <2>. QED BY <1>2, <2>1, NoneIsNoLink DEF IInv, LockOK
<1>5. \/ UNCHANGED <<recent, taken>>
      \/ recent' = Remember(o.batch) /\ taken' = [taken EXCEPT ![o.batch] = taken[o.batch] + 1]
  BY <1>1 DEF Add, recentBatchKey
<1>. QED BY <1>3, <1>4, <1>5

KnownStaysOut == \A b \in Batch : taken'[b] > taken[b] => b \notin Range(recent)

\* No batch is put into the queue while the adapter remembers it, however many
\* connections carry it and however small the memory is.
THEOREM NoneTakenWhileRemembered == Spec => [][KnownStaysOut]_vars
<1>1. ASSUME IInv, Next PROVE KnownStaysOut
  <2>1. taken \in [Batch -> Nat]
    BY <1>1 DEF IInv, TypeOK
  <2>2. CASE UNCHANGED <<recent, taken>>
    BY <2>1, <2>2 DEF KnownStaysOut
  <2>3. CASE NewAdapter
    <3>1. \A b \in Batch : taken'[b] = 0 /\ taken[b] \in Nat
      BY <2>1, <2>3 DEF NewAdapter
    <3>. QED BY <3>1 DEF KnownStaysOut
  <2>4. ASSUME NEW a \in Agents, NEW k \in 1..Slots, Add(a, k) PROVE KnownStaysOut
    <3>1. ASSUME NEW b \in Batch \ Range(recent), taken' = [taken EXCEPT ![b] = taken[b] + 1]
          PROVE  KnownStaysOut
      <4>1. \A d \in Batch : d # b => taken'[d] = taken[d] /\ taken[d] \in Nat
        BY <2>1, <3>1
      <4>. QED BY <4>1 DEF KnownStaysOut
    <3>. QED BY <1>1, <2>2, <2>4, <3>1, AddsOnce
  <2>. QED BY <1>1, <2>2, <2>3, <2>4, WhoRemembers
<1>2. ASSUME IInv, UNCHANGED vars PROVE KnownStaysOut
  BY <1>2 DEF vars, ghosts, KnownStaysOut, IInv, TypeOK
<1>. QED BY <1>1, <1>2, Inductive, PTL DEF Spec

Deliverable == Batch \ (Bad \cup Unsendable)

\* What is remembered is remembered once, and nothing was forgotten.
MemoryOK ==
  /\ IsFiniteSet(Range(recent)) /\ Cardinality(Range(recent)) = Len(recent)
  /\ Range(recent) \subseteq Deliverable
  /\ \A b \in Batch : taken[b] # 0 => taken[b] = 1 /\ b \in Range(recent)

LEMMA MemoryStep ==
  ASSUME IInv, MemoryOK, Next, IsFiniteSet(Deliverable), Cardinality(Deliverable) <= RecentLimit
  PROVE  MemoryOK'
<1>1. taken \in [Batch -> Nat] /\ recent \in Seq(Batch)
  BY DEF IInv, TypeOK
<1>2. CASE UNCHANGED <<recent, taken>>
  BY <1>2 DEF MemoryOK
<1>3. CASE NewAdapter
  <2>1. Range(<<>>) = {} /\ Len(<<>>) = 0
    BY DEF Range
  <2>. QED BY <1>3, <2>1, FS_EmptySet DEF NewAdapter, MemoryOK
<1>4. ASSUME NEW b \in Deliverable, b \notin Range(recent), recent' = Remember(b),
             taken' = [taken EXCEPT ![b] = taken[b] + 1]
      PROVE  MemoryOK'
  <2> DEFINE all == Append(recent, b)
  <2>1. b \in Batch /\ Range(all) = Range(recent) \cup {b} /\ Len(all) = Len(recent) + 1 /\ Len(recent) \in Nat
    BY <1>1, <1>4, RangeAppend DEF Deliverable
  <2>2. IsFiniteSet(Range(all)) /\ Cardinality(Range(all)) = Len(all) /\ Range(all) \subseteq Deliverable
    BY <1>4, <2>1, FS_AddElement DEF MemoryOK
  <2>3. Cardinality(Range(all)) <= Cardinality(Deliverable) /\ Cardinality(Deliverable) \in Nat
    BY <2>2, FS_Subset, FS_CardinalityType
  <2>4. ~ (Len(all) > RecentLimit)
    BY <2>1, <2>2, <2>3, IngestAssumption
  <2>5. recent' = all
    BY <1>4, <2>4 DEF Remember
  <2> HIDE DEF all
  <2>6. \A d \in Batch : taken'[d] # 0 => taken'[d] = 1 /\ d \in Range(recent')
    BY <1>1, <1>4, <2>1, <2>5 DEF MemoryOK
  <2>. QED BY <2>2, <2>5, <2>6 DEF MemoryOK
<1>5. ASSUME NEW a \in Agents, NEW k \in 1..Slots, Add(a, k) PROVE MemoryOK'
  BY <1>2, <1>4, <1>5, AddsOnce DEF Deliverable
<1>. QED BY <1>2, <1>3, <1>5, WhoRemembers

\* When the memory holds every batch there is to deliver, the running adapter takes
\* none of them twice, over any number of resendings, connections and reloads.
THEOREM TakenAtMostOnce ==
  ASSUME IsFiniteSet(Deliverable), Cardinality(Deliverable) <= RecentLimit
  PROVE  Spec => []TakenOnce
<1>1. Init => MemoryOK
  <2>1. Range(<<>>) = {} /\ Len(<<>>) = 0
    BY DEF Range
  <2>. QED BY <2>1, FS_EmptySet DEF Init, MemoryOK
<1>2. IInv /\ MemoryOK /\ [Next]_vars => MemoryOK'
  <2>1. UNCHANGED vars /\ MemoryOK => MemoryOK'
    BY DEF vars, server, ghosts, MemoryOK
  <2>. QED BY <2>1, MemoryStep
<1>3. IInv /\ MemoryOK => TakenOnce
  BY DEF MemoryOK, TakenOnce, IInv, TypeOK
<1>. QED BY <1>1, <1>2, <1>3, Inductive, PTL DEF Spec

================================================================================
