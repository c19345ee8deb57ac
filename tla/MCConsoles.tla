------------------------------ MODULE MCConsoles ------------------------------
(* The web consoles for TLC: the parts of Consoles, and beside them those of which *)
(* nothing is proved and others of the same modules.  They share nothing, so that a *)
(* behaviour takes one of all; a part has the variables of its own names, and the   *)
(* slots s1, s2 ... for others.                                                     *)
(* Of the servers: two paths of which one is taken, two handlers or clients at a    *)
(* time; two officers, one of whom may ask as well; two people at one browser; a    *)
(* change of a router; an agent that renews its certificate, blocked and            *)
(* reactivated by others too; two updates, a fault and a death; and any copy of     *)
(* the key store put back.  What else a router or an agent goes through is taken    *)
(* apart: an ACL profile, a restart, enrolment, the policy.  Of the views: two      *)
(* folders' worth of files and two handlers; a registered router and a host that is *)
(* only observed; two choices and two texts of a filter; two readings and details.  *)
EXTENDS Consoles, TLC

CONSTANT
  Parts   \* the views and servers a run takes

VARIABLES
  \* those of a view, in the order the instances below give them
  s1, s2, s3, s4, s5, s6, s7, s8
slots == <<s1, s2, s3, s4, s5, s6, s7, s8>>

People == <<"u", "v">>
RootPaths == {<<"r">>}
Paths == {<<"r", "d">>, <<"r", "f">>, <<"r", "d", "f">>, <<"r", "d", "g">>}
PathsAtFirst == {<<"r">>, <<"r", "d">>, <<"r", "d", "f">>}
HealthNames == <<"critical", "unknown">>
HealthOfEach == [a |-> "critical", b |-> "unknown"]
RoleOf == [adm |-> "ADMIN", vie |-> "VIEWER"]
MatchesOf == [all |-> {"a", "b"}, onlyb |-> {"b"}, no |-> {}]
Machines == <<"a">>
Conf(body, prio, on) == [body |-> body, prio |-> prio, on |-> on]
Figure(value, seen, health, stale, reasons) ==
  [value |-> value, seen |-> seen, health |-> health, stale |-> stale, observed |-> TRUE, reasons |-> reasons]
Flow(in, out, util, noise, link) ==
  [in |-> in, out |-> out, util |-> util, noise |-> noise, status |-> link]
Process(pid, name, keys, count) == [pid |-> pid, name |-> name, keys |-> keys, count |-> count]
Socket(k, pid, name, listening, port) ==
  [key |-> k, pid |-> pid, name |-> name, listening |-> listening, port |-> port]

\* One registered host and two observed ones, one of the two dropped by a stale reading.
Table == INSTANCE FleetFigures WITH
  Uids <- {1, 2, 3}, Registered <- {2},
  Figures <- {Figure(-1, 0, "critical", FALSE, {"critical"}), Figure(1, 1, "healthy", FALSE, {}),
              Figure(2, 2, "healthy", TRUE, {"stale"}), Figure(0, -1, "unknown", FALSE, {}), Figure(2, 1, "warning", FALSE, {})},
  Searches <- {{1, 2, 3}, {1, 2}}, MaxCollected <- 1, direction <- s1, search <- s2, health <- s3,
  collected <- s4
Traffic == INSTANCE TrafficFigures WITH
  Interfaces <- <<[asset |-> "a", name |-> "x"], [asset |-> "b", name |-> "x"], [asset |-> "a", name |-> "y"]>>,
  Flows <- {Flow(1, 0, 0, 0, "up"), Flow(2, 2, 90, 1, "down"), Flow(0, 3, 10, 0, "dormant")},
  Thresholds <- {0, 3}, Shown <- 1, MaxReads <- 1, flow <- s1, top <- s2, threshold <- s3,
  asset <- s4, matches <- s5
\* Processes that share a key, a pid or a name, and sockets that match none.
Ports == INSTANCE SocketGroups WITH
  Processes <- {<<>>, <<Process(1, "a", {"x"}, 1), Process(2, "a", {}, 0)>>,
                 <<Process(1, "a", {"x"}, 0), Process(2, "b", {"y"}, 2), Process(1, "b", {"y"}, 0)>>,
                 <<Process(-1, "a", {}, 1), Process(3, "b", {"x"}, 0)>>},
  Sockets <- {Socket("x", 1, "a", TRUE, 80), Socket("y", -1, "b", FALSE, 40), Socket("none", -1, "a", FALSE, 50),
               Socket("none", -1, "none", TRUE, 90), Socket("x", 4, "b", FALSE, 20)},
  MaxSockets <- 4, processes <- s1, sockets <- s2
\* An input, a parser that the server stores in another form, a transform being added.
Studio == INSTANCE StudioTests WITH
  Listed <- <<"i", "p", "m", "new">>,
  Kind <- [i |-> "input", p |-> "parser", m |-> "transform", new |-> "transform"],
  Becomes <- [new |-> "m"], Begin <- [i |-> Conf("s", 0, TRUE), p |-> Conf("a", 10, TRUE)],
  Confs <- [i |-> {Conf("s", 0, TRUE)}, p |-> {Conf("a", 10, TRUE), Conf("b", 10, TRUE)},
            m |-> {Conf("f", 10, FALSE), Conf("f", 10, TRUE)}, new |-> {Conf("f", 10, FALSE)}],
  Meaning <- [s |-> "s", a |-> "a", b |-> "b", f |-> "f"],
  Kept <- [s |-> "s", a |-> "a", b |-> "a", f |-> "f"], Invalid <- {}, Lenient <- {},
  Mappings <- {"empty"}, Samples <- {}, Preset <- [s |-> "syslog"], Others <- {}, MaxTests <- 2,
  MaxSaves <- 1, store <- s1, editor <- s2, mapping <- s3, outputKey <- s4, sample <- s5,
  lastInput <- s6, cache <- s7, run <- s8
\* An input tested with other samples than its own.
Sampled == INSTANCE StudioTests WITH
  Listed <- <<"i", "p">>, Kind <- [i |-> "input", p |-> "parser"], Becomes <- <<>>,
  Begin <- [i |-> Conf("s", 0, TRUE), p |-> Conf("a", 10, TRUE)],
  Confs <- [i |-> {Conf("s", 0, TRUE)}, p |-> {Conf("a", 10, TRUE)}],
  Meaning <- [s |-> "s", a |-> "a"], Kept <- [s |-> "s", a |-> "a"], Invalid <- {}, Lenient <- {},
  Mappings <- {"empty"}, Samples <- {"u"}, Preset <- [s |-> "syslog"], Others <- {}, MaxTests <- 1,
  MaxSaves <- 0, store <- s1, editor <- s2, mapping <- s3, outputKey <- s4, sample <- s5,
  lastInput <- s6, cache <- s7, run <- s8
\* Two parsers in either order, an output, and a mapping that others change too.
Mapping == INSTANCE StudioTests WITH
  Listed <- <<"p", "q", "o">>, Kind <- [p |-> "parser", q |-> "parser", o |-> "output"],
  Becomes <- <<>>,
  Begin <- [p |-> Conf("a", 10, TRUE), q |-> Conf("a", 20, TRUE), o |-> Conf("f", 0, TRUE)],
  Confs <- [p |-> {Conf("a", 10, TRUE)}, q |-> {Conf("a", 20, TRUE)}, o |-> {Conf("f", 0, TRUE)}],
  Meaning <- [a |-> "a", f |-> "f"], Kept <- [a |-> "a", f |-> "f"], Invalid <- {},
  Lenient <- {"a"}, Mappings <- {"empty", "m"}, Samples <- {}, Preset <- [s |-> "syslog"],
  Others <- {"structured"}, MaxTests <- 1, MaxSaves <- 1, store <- s1, editor <- s2, mapping <- s3,
  outputKey <- s4, sample <- s5, lastInput <- s6, cache <- s7, run <- s8
\* Two components without a message type, and what is typed into them.
List == INSTANCE StudioDesk WITH
  Views <- {"list"}, Types <- <<>>, Listed <- <<"a", "b">>, TypeOf <- [a |-> "", b |-> ""],
  Begin <- {"a"}, Keys <- {}, Drafts <- {1}, Templates <- {}, PageSize <- 2, MaxSent <- 1,
  hash <- s1, queued <- s2, dirty <- s3, templates <- s4, store <- s5, theirs <- s6, touched <- s7
\* The list of components, a row to a page, with its filter.
Pages == INSTANCE StudioDesk WITH
  Views <- {"list"}, Types <- <<"x">>, Listed <- <<"a", "b">>, TypeOf <- [a |-> "x", b |-> "x"],
  Begin <- {"a"}, Keys <- {}, Drafts <- {}, Templates <- {}, PageSize <- 1, MaxSent <- 1,
  hash <- s1, queued <- s2, dirty <- s3, templates <- s4, store <- s5, theirs <- s6, touched <- s7
\* The mapping of two message types.
Schema == INSTANCE StudioDesk WITH
  Views <- {"mapping"}, Types <- <<"x", "y">>, Listed <- <<"a">>, TypeOf <- [a |-> "x"],
  Begin <- {"a"}, Keys <- {}, Drafts <- {1}, Templates <- {}, PageSize <- 1, MaxSent <- 1,
  hash <- s1, queued <- s2, dirty <- s3, templates <- s4, store <- s5, theirs <- s6, touched <- s7
\* The templates of a message type's mapping.
Templated == INSTANCE StudioDesk WITH
  Views <- {"mapping"}, Types <- <<"x">>, Listed <- <<"a">>, TypeOf <- [a |-> "x"], Begin <- {"a"},
  Keys <- {}, Drafts <- {1}, Templates <- {"t"}, PageSize <- 1, MaxSent <- 1, hash <- s1,
  queued <- s2, dirty <- s3, templates <- s4, store <- s5, theirs <- s6, touched <- s7
\* The settings, and a page that edits nothing.
Settings == INSTANCE StudioDesk WITH
  Views <- {"settings", "docs"}, Types <- <<"x">>, Listed <- <<"a">>, TypeOf <- [a |-> "x"],
  Begin <- {}, Keys <- {"k", "l"}, Drafts <- {1}, Templates <- {}, PageSize <- 1, MaxSent <- 1,
  hash <- s1, queued <- s2, dirty <- s3, templates <- s4, store <- s5, theirs <- s6, touched <- s7
\* Two entries of a map.
Entries == INSTANCE SnmpForm WITH
  Trim <- ("" :> "" @@ "a" :> "a" @@ " a" :> "a" @@ "b" :> "b" @@ "constructor" :> "constructor"),
  Values <- {"", "v"}, Begin <- [value |-> <<[key |-> "a", value |-> "v"]>>, oids |-> <<>>],
  Canonical <- ("" :> ""), TypedOids <- {}, Presets <- {}, Objects <- <<>>, Instance <- <<>>,
  TypedSuffixes <- {}, Numbered <- <<>>, Named <- <<>>, MaxRows <- 2, reported <- s1, value <- s2,
  oids <- s3, initial <- s4, suffix <- s5, import <- s6, merged <- s7
\* A scalar and a column of a MIB that take the name a row has.
Oids == INSTANCE SnmpForm WITH
  Trim <- ("" :> ""), Values <- {},
  Begin <- [value |-> <<>>, oids |-> <<[name |-> "n", oid |-> ".1"]>>],
  Canonical <- ("" :> "" @@ ".1" :> "1" @@ "1" :> "1" @@ "2" :> "2"), TypedOids <- {".1"},
  Presets <- {[name |-> "n", oid |-> "1"]},
  Objects <- <<[name |-> "n", table |-> ""], [name |-> "o", table |-> "t"]>>,
  Instance <- (<<"n", "">> :> "1" @@ <<"o", "">> :> "" @@ <<"o", "1">> :> "1" @@ <<"o", "2">> :> "2"),
  TypedSuffixes <- {"", "1", "2"},
  Numbered <- (<<"n", 2>> :> "n_2" @@ <<"n", 3>> :> "n_3" @@ <<"n", 4>> :> "n_4"),
  Named <- [x \in {"n", "o"} \X {"1", "2"} |-> "n"], MaxRows <- 2, reported <- s1, value <- s2,
  oids <- s3, initial <- s4, suffix <- s5, import <- s6, merged <- s7
\* An ACL profile that a port uses or not.
Editor == INSTANCE RouterControl WITH
  Commands <- {"c"}, Profiles <- {"p"}, Services <- {}, MaxJobs <- 0, MaxClaims <- 1
\* A service of a router that is restarted.
Restart == INSTANCE RouterControl WITH
  Commands <- {"c"}, Profiles <- {}, Services <- {"s"}, MaxJobs <- 0, MaxClaims <- 1
\* An agent that enrols.
Joining == INSTANCE AgentLifecycle WITH
  Agents <- <<"a">>, Enrolled <- {}, Policies <- {}, Others <- {}, MaxTokens <- 1, MaxCerts <- 1,
  MaxTasks <- 1
\* The update policy, and two handlers at once.
Updates == INSTANCE AgentLifecycle WITH
  Agents <- <<"a">>, Enrolled <- {}, Policies <- {"on"}, Others <- {"policy"}, MaxTokens <- 0,
  MaxCerts <- 0, MaxTasks <- 2
\* The constants of Consoles, as its proofs assume them.
ASSUME ServersAssumption /\ ScreensAssumption

-------------------------------------------------------------------------------
\* The parts that are of the same module.
OfTests   == {"studio", "samples", "mapping"}
OfLists   == {"list", "pages", "schema", "templates", "settings"}
OfForms   == {"entries", "oids"}
OfRouters == {"router", "policy", "restart"}
OfAgents  == {"agents", "enrolment", "updates"}

\* What a part has no use for is 0 and stays so.
Idle ==
  /\ IF part \in {"vault"} THEN TRUE ELSE
       row = 0 /\ listed = 0 /\ selectedId = 0
  /\ IF part \in {"vault"} \cup OfTests THEN TRUE ELSE
       stored = 0
  /\ IF part \in {"vault", "files"} \cup OfAgents THEN TRUE ELSE
       tasks = 0
  /\ IF part \in {"vault", "files"} THEN TRUE ELSE
       started = 0
  /\ IF part \in {"vault", "desk"} THEN TRUE ELSE
       history = 0 /\ dialog = 0
  /\ IF part \in {"keys"} THEN TRUE ELSE
       version = 0 /\ needs = 0 /\ granted = 0
  /\ IF part \in {"keys", "files"} \cup OfLists THEN TRUE ELSE
       current = 0
  /\ IF part \in {"keys", "shell"} \cup OfRouters THEN TRUE ELSE
       pending = 0
  /\ IF part \in {"desk"} THEN TRUE ELSE
       stamp = 0 /\ cookie = 0 /\ session = 0 /\ logins = 0 /\ load = 0 /\ ask = 0 /\ opened = 0 /\ runs = 0 /\
       done = 0
  /\ IF part \in {"desk"} \cup OfLists THEN TRUE ELSE
       page = 0
  /\ IF part \in {"services"} THEN TRUE ELSE
       service = 0 /\ tokens = 0 /\ csrs = 0 /\ release = 0
  /\ IF part \in {"services"} \cup OfAgents THEN TRUE ELSE
       certs = 0 /\ form = 0
  /\ IF part \in {"services"} \cup OfRouters THEN TRUE ELSE
       open = 0
  /\ IF part \in OfRouters THEN TRUE ELSE
       router = 0 /\ command = 0 /\ task = 0 /\ clock = 0 /\ claimed = 0 /\ phase = 0 /\ journal = 0 /\
       carried = 0 /\ config = 0 /\ work = 0
  /\ IF part \in {"update"} \cup OfRouters THEN TRUE ELSE
       state = 0
  /\ IF part \in {"assets"} \cup OfRouters THEN TRUE ELSE
       draft = 0 /\ asked = 0
  /\ IF part \in {"tail"} \cup OfAgents THEN TRUE ELSE
       status = 0
  /\ IF part \in OfAgents THEN TRUE ELSE
       held = 0 /\ token = 0 /\ policy = 0 /\ policiesLoaded = 0 /\ confirm = 0 /\ working = 0
  /\ IF part \in OfLists \cup OfAgents THEN TRUE ELSE
       list = 0
  /\ IF part \in {"files", "logs"} \cup OfTests \cup OfForms \cup OfAgents THEN TRUE ELSE
       selected = 0
  /\ IF part \in {"logs", "overview"} \cup OfAgents THEN TRUE ELSE
       loading = 0
  /\ IF part \in {"update"} THEN TRUE ELSE
       target = 0 /\ previous = 0 /\ staged = 0 /\ attempt = 0 /\ proven = 0 /\ gaveUp = 0
  /\ IF part \in {"update", "store"} THEN TRUE ELSE
       proc = 0
  /\ IF part \in {"update"} \cup OfTests THEN TRUE ELSE
       left = 0
  /\ IF part \in {"store"} THEN TRUE ELSE
       file = 0 /\ db = 0 /\ checkpoint = 0 /\ copies = 0 /\ archives = 0 /\ told = 0 /\ faults = 0
  /\ IF part \in {"store"} \cup OfForms THEN TRUE ELSE
       entries = 0
  /\ IF part \in {"files"} THEN TRUE ELSE
       disk = 0 /\ late = 0 /\ access = 0 /\ clipboard = 0 /\ back = 0 /\ forward = 0 /\ busy = 0
  /\ IF part \in {"files", "shell"} THEN TRUE ELSE
       shown = 0
  /\ IF part \in {"assets"} THEN TRUE ELSE
       registry = 0 /\ props = 0 /\ overview = 0 /\ snapshot = 0 /\ detailLoading = 0 /\ editing = 0 /\
       tab = 0 /\ binding = 0 /\ routerUid = 0
  /\ IF part \in {"assets", "overview"} THEN TRUE ELSE
       range = 0 /\ uid = 0 /\ detail = 0
  /\ IF part \in {"assets", "shell"} THEN TRUE ELSE
       loads = 0
  /\ IF part \in {"assets"} \cup OfTests THEN TRUE ELSE
       creating = 0 /\ saves = 0
  /\ IF part \in {"assets"} \cup OfLists THEN TRUE ELSE
       sent = 0
  /\ IF part \in {"logs"} THEN TRUE ELSE
       view = 0 /\ typed = 0 /\ asks = 0
  /\ IF part \in {"logs", "fleet"} THEN TRUE ELSE
       key = 0
  /\ IF part \in {"logs"} \cup OfTests \cup OfLists THEN TRUE ELSE
       data = 0
  /\ IF part \in {"logs"} \cup OfForms THEN TRUE ELSE
       error = 0
  /\ IF part \in {"logs", "shell"} THEN TRUE ELSE
       active = 0
  /\ IF part \in {"shell"} THEN TRUE ELSE
       alert = 0 /\ boot = 0 /\ user = 0 /\ linking = 0 /\ updates = 0
  /\ IF part \in {"shell", "overview"} THEN TRUE ELSE
       refreshing = 0
  /\ IF part \in {"shell"} \cup OfLists THEN TRUE ELSE
       failed = 0
  /\ IF part \in {"overview", "fleet"} THEN TRUE ELSE
       metrics = 0
  /\ IF part \in {"overview"} THEN TRUE ELSE
       delayed = 0 /\ query = 0 /\ lostDetail = 0 /\ details = 0
  /\ IF part \in {"overview", "tail", "traffic"} THEN TRUE ELSE
       reads = 0
  /\ IF part \in {"tail"} THEN TRUE ELSE
       enabled = 0 /\ sessions = 0 /\ made = 0 /\ sending = 0 /\ socket = 0 /\ post = 0 /\ connection = 0 /\
       timer = 0 /\ paused = 0 /\ events = 0
  /\ IF part \in {"fleet", "traffic", "sockets"} \cup OfTests \cup OfLists \cup OfForms THEN TRUE ELSE
       s1 = 0 /\ s2 = 0
  /\ IF part \in {"fleet", "traffic"} \cup OfTests \cup OfLists \cup OfForms THEN TRUE ELSE
       s3 = 0 /\ s4 = 0
  /\ IF part \in {"traffic"} \cup OfTests \cup OfLists \cup OfForms THEN TRUE ELSE
       s5 = 0
  /\ IF part \in OfTests \cup OfLists \cup OfForms THEN TRUE ELSE
       s6 = 0 /\ s7 = 0
  /\ IF part \in OfTests THEN TRUE ELSE
       s8 = 0
IdleStays ==
  /\ part \notin {"vault"} => UNCHANGED
       <<row, listed, selectedId>>
  /\ part \notin {"vault"} \cup OfTests => UNCHANGED
       <<stored>>
  /\ part \notin {"vault", "files"} \cup OfAgents => UNCHANGED
       <<tasks>>
  /\ part \notin {"vault", "files"} => UNCHANGED
       <<started>>
  /\ part \notin {"vault", "desk"} => UNCHANGED
       <<history, dialog>>
  /\ part \notin {"keys"} => UNCHANGED
       <<version, needs, granted>>
  /\ part \notin {"keys", "files"} \cup OfLists => UNCHANGED
       <<current>>
  /\ part \notin {"keys", "shell"} \cup OfRouters => UNCHANGED
       <<pending>>
  /\ part \notin {"desk"} => UNCHANGED
       <<stamp, cookie, session, logins, load, ask, opened, runs, done>>
  /\ part \notin {"desk"} \cup OfLists => UNCHANGED
       <<page>>
  /\ part \notin {"services"} => UNCHANGED
       <<service, tokens, csrs, release>>
  /\ part \notin {"services"} \cup OfAgents => UNCHANGED
       <<certs, form>>
  /\ part \notin {"services"} \cup OfRouters => UNCHANGED
       <<open>>
  /\ part \notin OfRouters => UNCHANGED
       <<router, command, task, clock, claimed, phase, journal, carried, config, work>>
  /\ part \notin {"update"} \cup OfRouters => UNCHANGED
       <<state>>
  /\ part \notin {"assets"} \cup OfRouters => UNCHANGED
       <<draft, asked>>
  /\ part \notin {"tail"} \cup OfAgents => UNCHANGED
       <<status>>
  /\ part \notin OfAgents => UNCHANGED
       <<held, token, policy, policiesLoaded, confirm, working>>
  /\ part \notin OfLists \cup OfAgents => UNCHANGED
       <<list>>
  /\ part \notin {"files", "logs"} \cup OfTests \cup OfForms \cup OfAgents => UNCHANGED
       <<selected>>
  /\ part \notin {"logs", "overview"} \cup OfAgents => UNCHANGED
       <<loading>>
  /\ part \notin {"update"} => UNCHANGED
       <<target, previous, staged, attempt, proven, gaveUp>>
  /\ part \notin {"update", "store"} => UNCHANGED
       <<proc>>
  /\ part \notin {"update"} \cup OfTests => UNCHANGED
       <<left>>
  /\ part \notin {"store"} => UNCHANGED
       <<file, db, checkpoint, copies, archives, told, faults>>
  /\ part \notin {"store"} \cup OfForms => UNCHANGED
       <<entries>>
  /\ part \notin {"files"} => UNCHANGED
       <<disk, late, access, clipboard, back, forward, busy>>
  /\ part \notin {"files", "shell"} => UNCHANGED
       <<shown>>
  /\ part \notin {"assets"} => UNCHANGED
       <<registry, props, overview, snapshot, detailLoading, editing, tab, binding, routerUid>>
  /\ part \notin {"assets", "overview"} => UNCHANGED
       <<range, uid, detail>>
  /\ part \notin {"assets", "shell"} => UNCHANGED
       <<loads>>
  /\ part \notin {"assets"} \cup OfTests => UNCHANGED
       <<creating, saves>>
  /\ part \notin {"assets"} \cup OfLists => UNCHANGED
       <<sent>>
  /\ part \notin {"logs"} => UNCHANGED
       <<view, typed, asks>>
  /\ part \notin {"logs", "fleet"} => UNCHANGED
       <<key>>
  /\ part \notin {"logs"} \cup OfTests \cup OfLists => UNCHANGED
       <<data>>
  /\ part \notin {"logs"} \cup OfForms => UNCHANGED
       <<error>>
  /\ part \notin {"logs", "shell"} => UNCHANGED
       <<active>>
  /\ part \notin {"shell"} => UNCHANGED
       <<alert, boot, user, linking, updates>>
  /\ part \notin {"shell", "overview"} => UNCHANGED
       <<refreshing>>
  /\ part \notin {"shell"} \cup OfLists => UNCHANGED
       <<failed>>
  /\ part \notin {"overview", "fleet"} => UNCHANGED
       <<metrics>>
  /\ part \notin {"overview"} => UNCHANGED
       <<delayed, query, lostDetail, details>>
  /\ part \notin {"overview", "tail", "traffic"} => UNCHANGED
       <<reads>>
  /\ part \notin {"tail"} => UNCHANGED
       <<enabled, sessions, made, sending, socket, post, connection, timer, paused, events>>
  /\ part \notin {"fleet", "traffic", "sockets"} \cup OfTests \cup OfLists \cup OfForms => UNCHANGED
       <<s1, s2>>
  /\ part \notin {"fleet", "traffic"} \cup OfTests \cup OfLists \cup OfForms => UNCHANGED
       <<s3, s4>>
  /\ part \notin {"traffic"} \cup OfTests \cup OfLists \cup OfForms => UNCHANGED
       <<s5>>
  /\ part \notin OfTests \cup OfLists \cup OfForms => UNCHANGED
       <<s6, s7>>
  /\ part \notin OfTests => UNCHANGED
       <<s8>>

MCInit ==
  /\ part \in Parts
  /\ \/ Init
     \/ part = "fleet" /\ Table!Init
     \/ part = "traffic" /\ Traffic!Init
     \/ part = "sockets" /\ Ports!Init
     \/ part = "studio" /\ Studio!Init
     \/ part = "samples" /\ Sampled!Init
     \/ part = "mapping" /\ Mapping!Init
     \/ part = "list" /\ List!Init
     \/ part = "pages" /\ Pages!Init
     \/ part = "schema" /\ Schema!Init
     \/ part = "templates" /\ Templated!Init
     \/ part = "settings" /\ Settings!Init
     \/ part = "entries" /\ Entries!Init
     \/ part = "oids" /\ Oids!Init
     \/ part = "policy" /\ Editor!Init
     \/ part = "restart" /\ Restart!Init
     \/ part = "enrolment" /\ Joining!Init
     \/ part = "updates" /\ Updates!Init
  /\ Idle

\* What stays is said first, once for all the steps of a state.
MCNext ==
  /\ IdleStays
  /\ \/ Next
     \/ part = "fleet" /\ Table!Next /\ UNCHANGED part
     \/ part = "traffic" /\ Traffic!Next /\ UNCHANGED part
     \/ part = "sockets" /\ Ports!Collect /\ UNCHANGED part
     \/ part = "studio" /\ Studio!Next /\ UNCHANGED part
     \/ part = "samples" /\ Sampled!Next /\ UNCHANGED part
     \/ part = "mapping" /\ Mapping!Next /\ UNCHANGED part
     \/ part = "list" /\ List!Next /\ UNCHANGED part
     \/ part = "pages" /\ Pages!Next /\ UNCHANGED part
     \/ part = "schema" /\ Schema!Next /\ UNCHANGED part
     \/ part = "templates" /\ Templated!Next /\ UNCHANGED part
     \/ part = "settings" /\ Settings!Next /\ UNCHANGED part
     \/ part = "entries" /\ Entries!Next /\ UNCHANGED part
     \/ part = "oids" /\ Oids!Next /\ UNCHANGED part
     \/ part = "policy" /\ Editor!Next /\ UNCHANGED part
     \/ part = "restart" /\ Restart!Next /\ UNCHANGED part
     \/ part = "enrolment" /\ Joining!Next /\ UNCHANGED part
     \/ part = "updates" /\ Updates!Next /\ UNCHANGED part

MCSpec == MCInit /\ [][MCNext]_<<consolesVars, slots>>

\* What a test, a list, a form, a total, a rank and a group show is of the data they are
\* taken over; and what a router and an agent go through apart is what their servers say.
ResultsTrue ==
  /\ part = "fleet" => Table!TablesTrue
  /\ part = "traffic" => Traffic!FiguresAgree
  /\ part = "sockets" => Ports!MapWhole
  /\ part = "studio" => Studio!ResultTrue
  /\ part = "mapping" => Mapping!ResultTrue
  /\ part = "samples" => Sampled!ResultTrue
  /\ part = "list" => List!DeskTrue
  /\ part = "pages" => Pages!DeskTrue
  /\ part = "schema" => Schema!DeskTrue
  /\ part = "templates" => Templated!DeskTrue
  /\ part = "settings" => Settings!DeskTrue
  /\ part = "entries" => Entries!FormTrue
  /\ part = "oids" => Oids!FormTrue
  /\ part = "policy" => Editor!RouterTrue
  /\ part = "restart" => Restart!RouterTrue
  /\ part = "enrolment" => Joining!LifecycleTrue
  /\ part = "updates" => Updates!LifecycleTrue
===============================================================================
