--------------------------------- MODULE LiveTail ---------------------------------
(* Live Tail: the log parser's workers send every event to each open web socket   *)
(* (LiveTailService), and a page shows the latest of them (live-tail.tsx).  Its    *)
(* effect opens a socket while capture is enabled, and another whenever that one   *)
(* closes, the setting is read anew or somebody asks for it.                       *)
EXTENDS Naturals, FiniteSets, Sequences, SequencesExt

CONSTANTS
  Sockets,    \* connections of one page that exist at a time, {1, 2, ...}
  Workers,    \* workers of the dispatcher
  Kept,       \* events the page keeps, 500 in the code
  MaxEvents,  \* events that are broadcast
  MaxReads,   \* readings of the setting that are under way at a time
  MaxWire     \* events on their way on one socket

VARIABLES
  enabled,     \* the setting, at the server
  sessions,    \* sockets the server has registered
  made,        \* events broadcast so far, numbered in the order of their timestamps
  sending,     \* worker -> [event, owed, served]: what it is broadcasting
  socket,      \* socket -> [state, mine, up, wire]: at the page, and whether the server holds it open
  status,      \* the setting as last read, or unknown
  reads,       \* readings under way, each with what the server said
  post,        \* the change of the setting that is under way
  connection, timer, paused,
  events       \* the events shown, newest first

tailVars == <<enabled, sessions, made, sending, socket, status, reads, post, connection, timer, paused, events>>

Unknown == "unknown"
Other(setting) == IF setting = "on" THEN "off" ELSE "on"
Unused == [state |-> "closed", mine |-> FALSE, up |-> FALSE, wire |-> <<>>]
Idle == [event |-> 0, owed |-> {}, served |-> {}]

Free == {s \in Sockets : socket[s] = Unused /\ s \notin sessions /\ \A w \in Workers : s \notin sending[w].owed \cup sending[w].served}

Init ==
  /\ enabled \in {"on", "off"} /\ sessions = {} /\ made = 0 /\ sending = [w \in Workers |-> Idle]
  /\ socket = [s \in Sockets |-> Unused]
  /\ status = Unknown /\ reads = <<Unknown>> /\ post = Unknown
  /\ connection = "Disconnected" /\ timer = FALSE /\ paused = FALSE /\ events = <<>>

--------------------------------------------------------------------------------
(* The server: registerSession, removeSession, broadcastLog. *)
ServerOnly == UNCHANGED <<enabled, status, reads, post, connection, timer, paused, events>>

\* The connection is established; a session that is closed already is not registered.
registerSession(s) ==
  /\ socket[s].state = "connecting" /\ ~ socket[s].up
  /\ socket' = [socket EXCEPT ![s].up = TRUE]
  /\ sessions' = sessions \cup {s}
  /\ UNCHANGED <<made, sending>> /\ ServerOnly

\* The server learns that the page closed the connection.
removeSession(s) ==
  /\ socket[s].up /\ socket[s].state \in {"broken", "closing", "closed"}
  /\ socket' = [socket EXCEPT ![s].up = FALSE]
  /\ sessions' = sessions \ {s}
  /\ UNCHANGED <<made, sending>> /\ ServerOnly

\* The timestamp is taken first; workers then send at a pace of their own.
broadcastLog(w) ==
  /\ sending[w] = Idle /\ enabled = "on" /\ sessions # {} /\ made < MaxEvents
  /\ made' = made + 1
  /\ sending' = [sending EXCEPT ![w] = [event |-> made', owed |-> sessions, served |-> {}]]
  /\ UNCHANGED <<sessions, socket>> /\ ServerOnly
\* One session; the iterator may or may not come by one that is registered meanwhile.
sendMessage(w, s) ==
  /\ sending[w] # Idle /\ s \in (sending[w].owed \cup sessions) \ sending[w].served
  /\ Len(socket[s].wire) < MaxWire
  /\ socket' = [socket EXCEPT ![s].wire = IF socket[s].up /\ socket[s].state \in {"connecting", "open"} THEN Append(@, sending[w].event) ELSE @]
  /\ sending' = [sending EXCEPT ![w].served = @ \cup {s}]
  /\ UNCHANGED <<made, sessions>> /\ ServerOnly
\* Sessions that could not be written to are removed in the end.
broadcast(w) ==
  /\ sending[w] # Idle /\ sending[w].owed \subseteq sending[w].served
  /\ sending' = [sending EXCEPT ![w] = Idle]
  /\ sessions' = sessions \ {s \in sending[w].served : ~ socket[s].up}
  /\ UNCHANGED <<made, socket>> /\ ServerOnly

--------------------------------------------------------------------------------
(* The page: the effect and the callbacks of its sockets. *)
PageOnly == UNCHANGED <<enabled, sessions, made, sending, post>>

\* connect: a new socket, of the effect that runs.
connect(s, others) ==
  socket' = [others EXCEPT ![s] = [state |-> "connecting", mine |-> TRUE, up |-> FALSE, wire |-> <<>>]]

\* The cleanup stops the callbacks of the effect, its timer and its socket.
Stopped ==
  [s \in Sockets |->
    IF socket[s].mine /\ socket[s].state \in {"connecting", "open"}
    THEN [socket[s] EXCEPT !.mine = FALSE, !.state = "closing", !.wire = <<>>]
    ELSE [socket[s] EXCEPT !.mine = FALSE]]
Effect(on) ==
  /\ timer' = FALSE
  /\ IF on = "on"
     THEN \E s \in Free : connect(s, Stopped) /\ connection' = "Connecting"
     ELSE socket' = Stopped /\ connection' = "Disconnected"
SetStatus(value) ==
  /\ status' = value
  /\ IF value = status THEN UNCHANGED <<socket, timer, connection>> ELSE Effect(value)

onopen(s) ==
  /\ socket[s].state = "connecting" /\ socket[s].up
  /\ socket' = [socket EXCEPT ![s].state = "open"]
  /\ connection' = IF socket[s].mine THEN "Connected" ELSE connection
  /\ UNCHANGED <<status, reads, timer, paused, events>> /\ PageOnly

onmessage(s) ==
  /\ socket[s].state = "open" /\ socket[s].wire # <<>>
  /\ socket' = [socket EXCEPT ![s].wire = Tail(@)]
  /\ events' = IF ~ socket[s].mine \/ paused THEN events
               ELSE LET all == <<Head(socket[s].wire)>> \o events
                    IN  SubSeq(all, 1, IF Len(all) > Kept THEN Kept ELSE Len(all))
  /\ UNCHANGED <<status, reads, connection, timer, paused>> /\ PageOnly

\* The connection breaks, at the server's end or on the way; the page learns of it by onclose.
Break(s) ==
  /\ socket[s].state \in {"connecting", "open"}
  /\ socket' = [socket EXCEPT ![s].state = "broken", ![s].wire = <<>>]
  /\ UNCHANGED <<status, reads, connection, timer, paused, events>> /\ PageOnly
onerror(s) ==
  /\ socket[s].state = "broken" /\ socket[s].mine /\ connection' = "Connection error"
  /\ UNCHANGED <<socket, status, reads, timer, paused, events>> /\ PageOnly
reconnect(s) ==
  /\ socket[s].state \in {"broken", "closing"}
  /\ socket' = [socket EXCEPT ![s].state = "closed", ![s].mine = FALSE]
  /\ IF socket[s].mine THEN timer' = TRUE /\ connection' = "Reconnecting" ELSE UNCHANGED <<timer, connection>>
  /\ UNCHANGED <<status, reads, paused, events>> /\ PageOnly
Elapsed ==
  /\ timer /\ timer' = FALSE /\ connection' = "Connecting"
  /\ \E s \in Free : connect(s, socket)
  /\ UNCHANGED <<status, reads, paused, events>> /\ PageOnly

--------------------------------------------------------------------------------
(* useResource reads the setting again and again, and answers arrive in any order. *)
poll ==
  /\ Len(reads) < MaxReads /\ reads' = Append(reads, Unknown)
  /\ UNCHANGED <<socket, status, connection, timer, paused, events>> /\ PageOnly
Read(i) ==
  /\ reads[i] = Unknown /\ reads' = [reads EXCEPT ![i] = enabled]
  /\ UNCHANGED <<socket, status, connection, timer, paused, events>> /\ PageOnly
setData(i) ==
  /\ reads[i] # Unknown /\ reads' = RemoveAt(reads, i) /\ SetStatus(reads[i])
  /\ UNCHANGED <<paused, events>> /\ PageOnly
setError(i) ==
  /\ reads' = RemoveAt(reads, i)
  /\ UNCHANGED <<socket, status, connection, timer, paused, events>> /\ PageOnly
\* refresh forgets what is known, and the answers that are on their way.
refresh == SetStatus(Unknown) /\ reads' = <<Unknown>>

\* The dialog that changes the setting is modal until its request has ended.
toggle ==
  /\ post = Unknown /\ status # Unknown /\ post' = Other(status)
  /\ UNCHANGED <<enabled, sessions, made, sending, socket, status, reads, connection, timer, paused, events>>
\* The request may be carried out or not, and its answer arrive or not.
toggled(done, answered) ==
  /\ post # Unknown /\ post' = Unknown /\ (answered => done)
  /\ enabled' = IF done THEN post ELSE enabled
  /\ IF answered THEN refresh ELSE UNCHANGED <<socket, status, reads, connection, timer>>
  /\ UNCHANGED <<sessions, made, sending, paused, events>>
Elsewhere ==
  /\ enabled' = Other(enabled)
  /\ UNCHANGED <<sessions, made, sending, socket, status, reads, post, connection, timer, paused, events>>

Pause == paused' = ~ paused /\ UNCHANGED <<socket, status, reads, connection, timer, events>> /\ PageOnly
Clear == events # <<>> /\ events' = <<>> /\ UNCHANGED <<socket, status, reads, connection, timer, paused>> /\ PageOnly
Reconnect == status = "on" /\ Effect("on") /\ UNCHANGED <<status, reads, paused, events>> /\ PageOnly

Next ==
  \/ \E w \in Workers : broadcastLog(w) \/ broadcast(w) \/ \E s \in Sockets : sendMessage(w, s)
  \/ \E s \in Sockets : \/ registerSession(s) \/ removeSession(s) \/ Break(s)
                        \/ onopen(s) \/ onmessage(s) \/ onerror(s) \/ reconnect(s)
  \/ Elapsed \/ poll
  \/ \E i \in DOMAIN reads : Read(i) \/ setData(i) \/ setError(i)
  \/ toggle \/ \E done, answered \in BOOLEAN : toggled(done, answered)
  \/ post = Unknown /\ (Pause \/ Clear \/ Reconnect)
  \/ Elsewhere

Spec == Init /\ [][Next]_tailVars

--------------------------------------------------------------------------------
\* While the setting is read as enabled the page has exactly one socket, or the timer of one,
\* whose callbacks count, and otherwise none, however its sockets open, break and close;
\* "Connected" is said of that socket while it is open, or breaks and the page cannot know.
TailTrue ==
  /\ Cardinality({s \in Sockets : socket[s].mine}) + (IF timer THEN 1 ELSE 0) = IF status = "on" THEN 1 ELSE 0
  /\ connection = "Connected" => \E s \in Sockets : socket[s].mine /\ socket[s].state \in {"open", "broken"}
  /\ timer => connection = "Reconnecting"
  /\ status # "on" <=> connection = "Disconnected"

\* Two expectations of the page ("Newest first", and each event once) that do not hold: two
\* workers take the time of their events before they send, and the later may send first; a
\* broadcast under way when the page connects again may come by both of its sessions.
NewestFirst == \A i, j \in DOMAIN events : i < j => events[i] >= events[j]
ShownOnce == \A i, j \in DOMAIN events : events[i] = events[j] => i = j

\* Of the sockets one at most is the page's.
TailInv ==
  /\ timer \in BOOLEAN /\ DOMAIN socket = Sockets
  /\ \A s \in Sockets : DOMAIN socket[s] = {"state", "mine", "up", "wire"} /\ socket[s].mine \in BOOLEAN
  /\ \A s, r \in Sockets : socket[s].mine /\ socket[r].mine => s = r
  /\ (\E s \in Sockets : socket[s].mine) <=> status = "on" /\ ~ timer
  /\ timer => status = "on"
  /\ TailTrue
================================================================================
