------------------------------ MODULE AssetFiles ------------------------------
(* The file manager of an asset (AssetFileManager.tsx): every operation is a  *)
(* command that the manager relays to the agent, polled until it has an end.  *)
(* A double click on a folder is not held back by busy, so that handlers may  *)
(* overlap, each with the current path of the moment it was started in.       *)
EXTENDS Naturals, Sequences, FiniteSets, FiniteSetsExt

CONSTANTS
  Roots,        \* paths of length 1
  Below,        \* the other paths that may come to exist: sequences of names
  DirNames,     \* names that are folders
  OnDisk,       \* what the agent's host holds at first
  MaxTasks,     \* bound: handlers at a time
  MaxCommands   \* bound: handlers started

VARIABLES
  disk,         \* the files of the host
  late,         \* commands nobody polls any longer
  access, current, shown, selected, clipboard, back, forward, busy,
  tasks,        \* running handlers
  started       \* how many were started
fileVars == <<disk, late, access, current, shown, selected, clipboard, back, forward, busy, tasks, started>>

Home    == <<>>
NoList  == [path |-> Home, entries |-> {}]
Empty   == [mode |-> "none", paths |-> {}]
Front(p) == SubSeq(p, 1, Len(p) - 1)
Last(p)  == p[Len(p)]
\* parentPath, joinPath.
parentPath(p)  == IF Len(p) <= 1 THEN Home ELSE Front(p)
joinPath(d, n) == Append(d, n)
Directory(p)   == Len(p) = 1 \/ Last(p) \in DirNames

\* The answer to LIST and ROOTS.
Listing(p) == [path |-> p, entries |-> IF p = Home THEN Roots ELSE {q \in disk : Len(q) > 1 /\ Front(q) = p}]

NoTask == [op |-> "none", paths |-> {}, to |-> Home, from |-> Home, nav |-> "stay", cut |-> FALSE,
           list |-> NoList, stage |-> "sent"]
canOperate   == access /\ ~busy
selectedFile == Cardinality(selected) = 1 /\ \A p \in selected : ~Directory(p)
-------------------------------------------------------------------------------
(* Handlers: what a click sends.                                             *)
Start(t) ==
  /\ Cardinality(tasks) < MaxTasks /\ started < MaxCommands /\ t \notin tasks
  /\ tasks' = tasks \cup {t}
  /\ started' = started + 1
  /\ busy' = TRUE
  /\ UNCHANGED <<disk, late, access, current, shown, selected, clipboard, back, forward>>

Load(to, nav) == [NoTask EXCEPT !.op = "LIST", !.to = to, !.from = current, !.nav = nav]

\* openPath: root buttons and the address line; a double click on a folder.
openPath(p)    == access /\ p # current /\ Start(Load(p, "open"))
OpenShown      == canOperate /\ \E p \in {Home} \cup Roots \cup {q \in disk : Directory(q)} : openPath(p)
DoubleClick    == \E p \in shown.entries : Directory(p) /\ openPath(p)
navigateUp     == canOperate /\ current # Home /\ openPath(parentPath(current))
navigateBack   == canOperate /\ back # <<>> /\ Start(Load(back[Len(back)], "back"))
navigateForward == canOperate /\ forward # <<>> /\ Start(Load(forward[1], "forward"))
Reload         == canOperate /\ Start(Load(current, "stay"))

\* runMutation, handleUpload, downloadSelected.
Mutate(op, paths, to, cut) ==
  canOperate /\ Start([NoTask EXCEPT !.op = op, !.paths = paths, !.to = to, !.from = current, !.cut = cut])
createFolder   == current # Home /\ \E n \in DirNames : Mutate("MKDIR", {}, joinPath(current, n), FALSE)
upload         == current # Home /\ \E n \in {Last(p) : p \in Below} \ DirNames : Mutate("UPLOAD", {}, joinPath(current, n), FALSE)
renameSelected ==
  /\ Cardinality(selected) = 1
  /\ \E p \in selected : \E n \in {Last(q) : q \in Below} \ {Last(p)} :
       (n \in DirNames <=> Directory(p)) /\ Mutate("RENAME", {p}, joinPath(Front(p), n), FALSE)
deleteSelected == selected # {} /\ Mutate("DELETE", selected, Home, FALSE)
downloadSelected == selectedFile /\ Mutate("DOWNLOAD", selected, Home, FALSE)
pasteClipboard ==
  /\ clipboard # Empty /\ current # Home
  /\ Mutate(IF clipboard.mode = "copy" THEN "COPY" ELSE "MOVE", clipboard.paths, current, clipboard.mode = "cut")

\* copySelected, cutSelected.
Take(mode) ==
  /\ canOperate /\ selected # {}
  /\ clipboard' = [mode |-> mode, paths |-> selected]
  /\ UNCHANGED <<disk, late, access, current, shown, selected, back, forward, busy, tasks, started>>

\* toggleSelection: a click selects one row, with the control key it adds or removes it.
toggleSelection(p, ctrl) ==
  /\ selected' = IF ~ctrl THEN {p} ELSE IF p \in selected THEN selected \ {p} ELSE selected \cup {p}
  /\ UNCHANGED <<disk, late, access, current, shown, clipboard, back, forward, busy, tasks, started>>
-------------------------------------------------------------------------------
(* The agent (filemanager.go).  A command without a listener may still be     *)
(* carried out.  Commands on several paths take one after the other, and may  *)
(* stop where one cannot be done.                                             *)
Inside(q, p)    == Len(q) >= Len(p) /\ SubSeq(q, 1, Len(p)) = p
Under(files, p) == {q \in files : Inside(q, p)}
Target(c, p)    == IF c.op = "RENAME" THEN c.to ELSE joinPath(c.to, Last(p))

\* The place a command names is there: resolveExisting, resolveNew.
PlaceOK(c) ==
  CASE c.op \in {"MKDIR", "UPLOAD"}        -> Front(c.to) \in disk
    [] c.op \in {"LIST", "COPY", "MOVE"}   -> c.to = Home \/ (c.to \in disk /\ Directory(c.to))
    [] OTHER                               -> TRUE

\* The agent begins with p: validateCopyTarget keeps a folder out of itself.
PathOK(c, p) ==
  /\ p \in disk
  /\ c.op \in {"DELETE", "RENAME", "MOVE"} => p \notin Roots
  /\ c.op = "RENAME" => c.to \notin disk
  /\ c.op \in {"COPY", "MOVE"} => ~Inside(Target(c, p), p)
  /\ c.op = "DOWNLOAD" => ~Directory(p)

\* overwrite removes the target first, and with it a source that lies inside.
SourceLost(c, p) == c.op \in {"COPY", "MOVE"} /\ Inside(p, Target(c, p))

\* RemoveAll, copyPath, Rename.
Without(files, p) == files \ Under(files, p)
Copied(files, p, target) ==
  LET kept == Without(files, target) IN
  kept \cup {target \o SubSeq(q, Len(p) + 1, Len(q)) : q \in Under(kept, p)}
OnPath(c, p, files) ==
  CASE c.op = "DELETE" -> Without(files, p)
    [] c.op = "COPY"   -> Copied(files, p, Target(c, p))
    [] c.op \in {"RENAME", "MOVE"} -> Without(Copied(files, p, Target(c, p)), p)
    [] OTHER           -> files

\* The files once the agent has done what c asks of some of its paths.
Effect(c, paths) == FoldSet(LAMBDA p, files : OnPath(c, p, files),
                            IF c.op \in {"MKDIR", "UPLOAD"} THEN disk \cup {c.to} ELSE disk, paths)
Leaves(files) == files \subseteq Roots \cup Below /\ disk' = files

Does(c) ==
  /\ PlaceOK(c) /\ \A p \in c.paths : PathOK(c, p) /\ ~SourceLost(c, p)
  /\ Leaves(Effect(c, c.paths))
\* The command fails, after some of its paths have been dealt with.
StopsShort(c) ==
  \/ UNCHANGED disk
  \/ /\ PlaceOK(c)
     /\ \E done \in SUBSET {p \in c.paths : PathOK(c, p)} :
          (done # c.paths \/ \E p \in done : SourceLost(c, p)) /\ Leaves(Effect(c, done))

AgentDoes(t) ==
  /\ t.stage = "sent" /\ Does(t)
  /\ tasks' = (tasks \ {t}) \cup
       {[t EXCEPT !.stage = "done", !.list = IF t.op = "LIST" THEN Listing(t.to) ELSE t.list]}
  /\ UNCHANGED <<late, access, current, shown, selected, clipboard, back, forward, busy, started>>
AgentDoesLate(c) ==
  /\ Does(c) \/ StopsShort(c)
  /\ late' = late \ {c}
  /\ UNCHANGED <<access, current, shown, selected, clipboard, back, forward, busy, tasks, started>>
-------------------------------------------------------------------------------
(* Ends of handlers.                                                         *)
\* loadPath: list, path and selection change together; openPath and the arrows
\* then move the stacks with the path their click saw.
Fresh(list) == selected' = {}
Loaded(t) ==
  /\ t.op = "LIST" /\ t.stage = "done"
  /\ shown' = t.list /\ current' = t.to /\ Fresh(t.list) /\ busy' = FALSE
  /\ tasks' = tasks \ {t}
  /\ clipboard' = IF t.cut THEN Empty ELSE clipboard
  /\ CASE t.nav = "open"    -> back' = Append(back, t.from) /\ forward' = <<>>
       [] t.nav = "back"    -> back' = (IF back = <<>> THEN <<>> ELSE Front(back)) /\ forward' = <<t.from>> \o forward
       [] t.nav = "forward" -> forward' = (IF forward = <<>> THEN <<>> ELSE Tail(forward)) /\ back' = Append(back, t.from)
       [] OTHER             -> UNCHANGED <<back, forward>>
  /\ UNCHANGED <<disk, late, access, started>>

\* A mutation has succeeded: its folder is read again; a download ends here.
Mutated(t) ==
  /\ t.op # "LIST" /\ t.stage = "done"
  /\ IF t.op = "DOWNLOAD" THEN tasks' = tasks \ {t} /\ busy' = FALSE
     ELSE /\ tasks' = (tasks \ {t}) \cup {[NoTask EXCEPT !.op = "LIST", !.to = t.from, !.from = t.from, !.cut = t.cut]}
          /\ busy' = TRUE
  /\ UNCHANGED <<disk, late, access, current, shown, selected, clipboard, back, forward, started>>

\* FAILED, or no end within the polls: the command itself may live on.
Failed(t, heard) ==
  /\ t.stage = "sent"
  /\ IF heard THEN StopsShort(t) ELSE UNCHANGED disk
  /\ tasks' = tasks \ {t}
  /\ late' = IF heard \/ t.op \in {"LIST", "DOWNLOAD"} THEN late ELSE late \cup {t}
  /\ busy' = FALSE
  /\ clipboard' = IF t.op = "LIST" /\ t.cut THEN Empty ELSE clipboard
  /\ UNCHANGED <<access, current, shown, selected, back, forward, started>>

\* The effect on access: the view is locked, and starts again at home.
Lock == access /\ access' = FALSE /\ UNCHANGED <<disk, late, current, shown, selected, clipboard, back, forward, busy, tasks, started>>
Unlock ==
  /\ ~access /\ Cardinality(tasks) < MaxTasks /\ started < MaxCommands
  /\ access' = TRUE /\ current' = Home /\ back' = <<>> /\ forward' = <<>> /\ busy' = TRUE
  /\ tasks' = tasks \cup {Load(Home, "stay")} /\ started' = started + 1
  /\ UNCHANGED <<disk, late, shown, selected, clipboard>>
-------------------------------------------------------------------------------
Init ==
  /\ disk = OnDisk /\ late = {} /\ access = FALSE /\ current = Home
  /\ shown = NoList /\ selected = {} /\ clipboard = Empty
  /\ back = <<>> /\ forward = <<>> /\ busy = FALSE /\ tasks = {} /\ started = 0

Click ==
  \/ OpenShown \/ DoubleClick \/ navigateUp \/ navigateBack \/ navigateForward \/ Reload
  \/ createFolder \/ upload \/ renameSelected \/ deleteSelected \/ downloadSelected \/ pasteClipboard
  \/ Take("copy") \/ Take("cut")
  \/ \E p \in shown.entries, ctrl \in BOOLEAN : access /\ toggleSelection(p, ctrl)
Next ==
  \/ Click \/ Lock \/ Unlock
  \/ \E t \in tasks : AgentDoes(t) \/ Loaded(t) \/ Mutated(t) \/ Failed(t, TRUE) \/ Failed(t, FALSE)
  \/ \E c \in late : AgentDoesLate(c)
Spec == Init /\ [][Next]_fileVars

\* What is selected, and so what delete, cut and rename act on, is in the list on the
\* screen, and a folder is pasted and uploaded into only while its list is the one shown.
ActsOnTheListed == selected \subseteq shown.entries /\ (current # Home => current = shown.path)

Handler(t) == DOMAIN t = {"op", "paths", "to", "from", "nav", "cut", "list", "stage"}
\* A list that has been read is that of the folder it was asked for.
FilesInv ==
  /\ \A t \in tasks : Handler(t) /\ (t.op = "LIST" /\ t.stage = "done" => t.list.path = t.to)
  /\ ActsOnTheListed
===============================================================================
