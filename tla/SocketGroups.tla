----------------------------- MODULE SocketGroups -----------------------------
(* The process and socket map of an asset (AssetsView.tsx, netstat panel):    *)
(* sockets are put under the process that owns them, as far as the agent      *)
(* could tell, from two tables collected one after the other.                 *)
EXTENDS Integers, Sequences, FiniteSets, FiniteSetsExt, SequencesExt

CONSTANTS
  Processes,   \* sequences of [pid, name, keys, count] that may be collected
  Sockets,     \* sockets that may be: [key, pid, name, listening, port]
  MaxSockets   \* bound: rows of the socket table

VARIABLES processes, sockets
groupVars == <<processes, sockets>>

None  == "none"
NoPid == -1
NoProcess == [pid |-> NoPid, name |-> None, keys |-> {}, count |-> 0]
Latest(P(_)) == LET found == SelectSeq(processes, P) IN IF found = <<>> THEN NoProcess ELSE found[Len(found)]

\* processForSocket: by its pid, by its key, or by a name that one process only has.
processForSocket(s) ==
  LET byPid  == IF s.pid = NoPid THEN NoProcess ELSE Latest(LAMBDA p : p.pid = s.pid)
      byKey  == IF s.key = None THEN NoProcess ELSE Latest(LAMBDA p : s.key \in p.keys)
      byName == IF s.name = None THEN <<>> ELSE SelectSeq(processes, LAMBDA p : p.name = s.name)
  IN IF byPid # NoProcess THEN byPid
     ELSE IF byKey # NoProcess THEN byKey
     ELSE IF Len(byName) = 1 THEN byName[1] ELSE NoProcess

\* ensureGroup: a group per pid, or per name where no pid is known.
First(x, y, none) == IF x # none THEN x ELSE y
KeyOf(pid, name) == IF pid # NoPid THEN [pid |-> pid, name |-> None]
                    ELSE [pid |-> NoPid, name |-> First(name, "unknown process", None)]
SocketKey(s) == LET p == processForSocket(s) IN KeyOf(First(p.pid, s.pid, NoPid), First(p.name, s.name, None))
ProcessKey(p) == KeyOf(p.pid, p.name)
Counted == {p \in ToSet(processes) : p.count > 0}
Keys    == {SocketKey(s) : s \in ToSet(sockets)} \cup {ProcessKey(p) : p \in Counted}

\* socketComparator: listening sockets first, then by port.
Before(s, t) == IF s.listening # t.listening THEN s.listening ELSE s.port < t.port
GroupOf(k) == SortSeq(SelectSeq(sockets, LAMBDA s : SocketKey(s) = k), Before)
\* buildProcessSocketGroups: the largest group first.
Total(k)   == LET P == {p.count : p \in {q \in ToSet(processes) : ProcessKey(q) = k}} IN Max({Len(GroupOf(k))} \cup P)
groups     == SetToSortSeq(Keys, LAMBDA k, l : Total(k) > Total(l))
\* The panel of open ports.
openPorts  == SelectSeq(sockets, LAMBDA s : s.listening)
-------------------------------------------------------------------------------
Init == processes \in Processes /\ sockets = <<>>
\* A row of the socket table: the process may have ended, or begun, since the other was read.
Collect ==
  /\ Len(sockets) < MaxSockets
  /\ \E s \in Sockets : sockets' = Append(sockets, s)
  /\ UNCHANGED processes
Spec == Init /\ [][Collect]_groupVars

\* No socket is lost or shown twice, whatever the tables disagree on; a process that
\* counts sockets has its group; a socket whose process was collected is under it; and in
\* every group the sockets that wait for callers come first.
MapWhole ==
  /\ Len(sockets) = MapThenSumSet(LAMBDA k : Len(GroupOf(k)), Keys)
  /\ \A p \in ToSet(processes) : p.count > 0 => ProcessKey(p) \in ToSet(groups)
  /\ \A k \in Keys : \A i, j \in DOMAIN GroupOf(k) : i < j /\ GroupOf(k)[j].listening => GroupOf(k)[i].listening
  /\ \A s \in ToSet(sockets) :
       (\E p \in ToSet(processes) : p.pid = s.pid /\ s.pid # NoPid) => s \in ToSet(GroupOf(KeyOf(s.pid, None)))
===============================================================================
