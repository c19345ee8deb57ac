------------------------------- MODULE StudioTests -------------------------------
(* Pipeline Studio of the log parser (pipeline-studio.tsx, pipeline-preview.ts): *)
(* the components of one message type, the editor that is open, and the tests    *)
(* that run one step at a time on the kept result of the step before.            *)
EXTENDS Naturals, Sequences, SequencesExt, TLC

CONSTANTS
  Listed,     \* every component, in the order of stages and identifiers
  Kind,       \* component -> "input", "parser", "transform" or "output"
  Becomes,    \* a component being added -> the component the server makes of it
  Begin,      \* the components saved in the beginning, with their configurations
  Confs,      \* component -> the configurations it is given: [body, prio, on]
  Meaning,    \* body -> what semanticConfig leaves of it
  Kept,       \* body -> the body the server stores
  Invalid,    \* bodies that validate refuses
  Lenient,    \* bodies of parsers that continue on failure
  Mappings,   \* structured mappings, "empty" among them
  Samples,    \* sample events that somebody types
  Preset,     \* body of an input -> its example event
  Others,     \* components, and Structured, that other administrators change meanwhile
  MaxTests,   \* tests started
  MaxSaves    \* saves, deletions and reorders started

VARIABLES
  store,     \* the saved components, in the log parser's database
  stored,    \* the saved mapping
  data,      \* the components as last loaded
  selected,  \* the component chosen, or None
  creating,  \* the component being added, or None
  editor,    \* the editor of a component: [key, opened, value, busy]
  mapping,   \* [draft, saved, first, read]: first by the Studio, read by the open MappingEditor
  outputKey, \* the output chosen last
  sample, lastInput,
  cache,     \* component -> its kept result
  run,       \* the test in flight
  saves,     \* what is on its way to the server: [kind, key, value, order, nodes, of, wrote, mine]
  left       \* bounds of the model: [tests, saves] still to be started

studioVars == <<store, stored, data, selected, creating, editor, mapping, outputKey, sample,
                lastInput, cache, run, saves, left>>

--------------------------------------------------------------------------------
None == "none"
Structured == "structured"
NoConf == [body |-> None, prio |-> 0, on |-> FALSE]
NoEditor == [key |-> None, opened |-> NoConf, value |-> NoConf, busy |-> FALSE]
NoResult == [sig |-> <<None, <<>>>>, made |-> <<>>, end |-> None]
NoRun == [key |-> None, sig |-> <<None, <<>>>>, made |-> <<>>, live |-> FALSE]

Tested == Range(Listed) \cup {Structured}
Steps(d) == {k \in DOMAIN d : Kind[k] \in {"parser", "transform"}}
Of(kind, d) == SelectSeq(Listed, LAMBDA k : k \in DOMAIN d /\ Kind[k] = kind)
semanticConfig(c) == [body |-> Meaning[c.body], prio |-> c.prio, on |-> c.on]

\* The configuration a component has on screen: an open draft goes before what is saved.
Conf(k) == IF editor.key = k THEN editor.value ELSE data[k]

\* orderedSteps sorts by priority and leaves equal ones in the order of stage and identifier.
Place(k) == CHOOSE i \in DOMAIN Listed : Listed[i] = k
orderedSteps(S, conf) ==
  SortSeq(SelectSeq(Listed, LAMBDA k : k \in S),
          LAMBDA j, k : conf[j].prio < conf[k].prio \/ (conf[j].prio = conf[k].prio /\ Place(j) < Place(k)))

activeKey(d, key) ==
  IF key # None THEN key
  ELSE Head(Of("input", d) \o orderedSteps(Steps(d), d) \o Of("output", d) \o <<None>>)
Current == IF creating # None THEN creating ELSE activeKey(data, selected)

\* The output at the end of the chain: the one being added, the one chosen (last), the first
\* that is switched on, or the first.
FirstOf(keys) == IF keys = <<>> THEN <<>> ELSE <<Head(keys)>>
WantedOutput(active) ==
  IF active \in Range(Listed) /\ Kind[active] = "output" THEN active ELSE outputKey
chosenOutput(active) ==
  LET added == SelectSeq(<<creating>>, LAMBDA k : k # None /\ Kind[k] = "output")
      wanted == SelectSeq(Of("output", data), LAMBDA k : k = WantedOutput(active))
      on == SelectSeq(Of("output", data), LAMBDA k : Conf(k).on)
  IN  FirstOf(added \o wanted \o on \o Of("output", data))

\* The chain of steps a test runs along; an input is a preview of its own.
NodesOf(keys) == [i \in DOMAIN keys |-> [key |-> keys[i], conf |-> semanticConfig(Conf(keys[i]))]]
Chain(current, active) ==
  LET mine == Steps(data) \cup (IF creating # None /\ Kind[creating] # "output" THEN {creating} ELSE {})
      shown == {k \in mine : Conf(k).on \/ k = active}
      map == [key |-> Structured,
              conf |-> [body |-> IF mapping.draft = "unread" THEN "empty" ELSE mapping.draft, prio |-> 0, on |-> TRUE]]
  IN  IF current \in Range(Listed) /\ Kind[current] = "input"
      THEN NodesOf(IF current \in DOMAIN data \cup {creating} THEN <<current>> ELSE <<>>)
      ELSE NodesOf(orderedSteps(shown, [k \in mine |-> Conf(k)])) \o <<map>> \o NodesOf(chosenOutput(active))
nodes == Chain(Current, activeKey(data, selected))

\* findIndex, counted from 1; 0 for what is not there.
findIndex(ns, k) == IF \E i \in DOMAIN ns : ns[i].key = k THEN CHOOSE i \in DOMAIN ns : ns[i].key = k ELSE 0
signature(ns, i, s) == <<s, SubSeq(ns, 1, i)>>
testIndex == findIndex(nodes, Current)

\* What the selected step consumes: <<>> when nothing may be tested.
Source(ns, at) ==
  IF at = 0 THEN <<>>
  ELSE IF at = 1 THEN <<<<>>>>
  ELSE LET before == cache[ns[at - 1].key]
       IN  IF before.end = "done" /\ before.sig = signature(ns, at - 1, sample) THEN <<before.made>> ELSE <<>>
testSource == Source(nodes, testIndex)

Without(kept, gone) == [k \in Tested |-> IF k \in gone THEN NoResult ELSE kept[k]]

\* Results move with a saved component; if saving changed what it means, they go from there on.
cacheAfterSave(kept, ns, old, saved, s) ==
  LET i == findIndex(ns, old)
      next == [j \in DOMAIN ns |-> IF ns[j].key = old THEN saved ELSE ns[j]]
      changed == ns[i].conf # saved.conf
      moved == {j \in DOMAIN ns : ~ (changed /\ j >= i) /\ kept[ns[j].key].sig = signature(ns, j, s)}
      others == Without(kept, {old} \cup {ns[j].key : j \in {j \in DOMAIN ns : changed /\ j >= i}})
  IN  IF i = 0 THEN kept
      ELSE [k \in Tested |-> IF \E j \in moved : next[j].key = k
                             THEN LET j == CHOOSE j \in moved : next[j].key = k
                                  IN  [kept[ns[j].key] EXCEPT !.sig = signature(next, j, s)]
                             ELSE others[k]]

--------------------------------------------------------------------------------
Init ==
  /\ store = Begin /\ data = Begin /\ stored \in Mappings
  /\ selected = None /\ creating = None /\ outputKey = None
  /\ LET key == activeKey(Begin, None) IN
       /\ editor = [key |-> key, opened |-> Begin[key], value |-> Begin[key], busy |-> FALSE]
       /\ lastInput = IF Kind[key] = "input" THEN Begin[key].body ELSE None
       /\ sample = IF Kind[key] = "input" THEN Preset[Begin[key].body] ELSE "syslog"
  /\ mapping = [draft |-> "unread", saved |-> "unread", first |-> "reading", read |-> "none"]
  /\ cache = [k \in Tested |-> NoResult] /\ run = NoRun /\ saves = {} /\ left = [tests |-> MaxTests, saves |-> MaxSaves]

\* The sample follows the type of the input that is open, unless somebody wrote it.
Follow(kept, live) ==
  LET changed == editor'.key # None /\ Kind[editor'.key] = "input" /\ editor'.value.body # lastInput
  IN  IF ~ changed
      THEN cache' = kept /\ run' = [run EXCEPT !.live = @ /\ live] /\ UNCHANGED <<sample, lastInput>>
      ELSE /\ lastInput' = editor'.value.body
           /\ sample' = IF sample \in Samples THEN sample ELSE Preset[editor'.value.body]
           /\ cache' = Without(cache, Tested) /\ run' = [run EXCEPT !.live = FALSE]

Opened(key, value) == [key |-> key, opened |-> value, value |-> value, busy |-> FALSE]
OpenedOf(d, key) == IF key \in DOMAIN d THEN Opened(key, d[key]) ELSE NoEditor
\* An editor is mounted anew on what is chosen; what the old one had on its way no longer finds it.
Mount(d, chosen, added) ==
  /\ selected' = chosen
  /\ editor' = IF added # NoConf THEN Opened(creating', added) ELSE OpenedOf(d, activeKey(d, chosen))
Unmounted == {[s EXCEPT !.mine = FALSE] : s \in saves}
Reading(key) == IF key = Structured THEN "reading" ELSE "none"

\* discardEditorDrafts: a mapping that was not saved goes, with the results that came after it.
discarded == mapping.draft # mapping.saved
discardEditorDrafts ==
  IF discarded THEN Without(cache, {Structured} \cup {k \in Range(Listed) : Kind[k] = "output"}) ELSE cache

choose(key) ==
  /\ key \in DOMAIN data \cup {Structured}
  /\ creating' = None /\ Mount(data, key, NoConf)
  /\ outputKey' = IF key # Structured /\ Kind[key] = "output" THEN key ELSE outputKey
  /\ mapping' = [mapping EXCEPT !.draft = mapping.saved, !.read = Reading(key)]
  /\ saves' = Unmounted
  /\ Follow(discardEditorDrafts, ~ discarded)
  /\ UNCHANGED <<store, stored, data, left>>

New(key, conf) ==
  /\ key \in DOMAIN Becomes /\ Becomes[key] \notin DOMAIN store /\ conf \in Confs[key] /\ ~ conf.on
  /\ creating' = key /\ Mount(data, key, conf)
add(key, conf) ==
  /\ New(key, conf)
  /\ mapping' = [mapping EXCEPT !.draft = mapping.saved, !.read = "none"]
  /\ saves' = Unmounted
  /\ Follow(discardEditorDrafts, ~ discarded)
  /\ UNCHANGED <<store, stored, data, outputKey, left>>

\* A copy of the open component starts disabled; the mapping keeps its draft.
duplicate(key) ==
  /\ key \in DOMAIN Becomes /\ editor.key \in DOMAIN store /\ ~ editor.busy /\ Kind[key] = Kind[editor.key]
  /\ New(key, [editor.value EXCEPT !.on = FALSE])
  /\ saves' = Unmounted
  /\ Follow(cache, TRUE)
  /\ UNCHANGED <<store, stored, data, mapping, outputKey, left>>

edit(conf) ==
  /\ editor.key # None /\ ~ editor.busy /\ conf \in Confs[editor.key] /\ conf # editor.value
  /\ selected # None \/ conf.prio = editor.value.prio  \* a bound: only what was chosen is moved by an edit
  /\ editor' = [editor EXCEPT !.value = conf]
  /\ Follow(cache, TRUE)
  /\ UNCHANGED <<store, stored, data, selected, creating, mapping, outputKey, saves, left>>

\* Discard of a component that was never saved closes it; of another, it takes the edits back.
discard ==
  /\ editor.key # None /\ ~ editor.busy
  /\ IF creating # None
     THEN creating' = None /\ Mount(data, None, NoConf) /\ Follow(Without(cache, Tested), TRUE)
     ELSE /\ editor' = [editor EXCEPT !.value = editor.opened]
          /\ Follow(cache, TRUE) /\ UNCHANGED <<selected, creating>>
  /\ UNCHANGED <<store, stored, data, mapping, outputKey, saves, left>>

--------------------------------------------------------------------------------
(* Testing. *)
changeSample(s) ==
  /\ s # sample /\ sample' = s
  /\ cache' = Without(cache, Tested) /\ run' = [run EXCEPT !.live = FALSE]
  /\ UNCHANGED <<store, stored, data, selected, creating, editor, mapping, outputKey, lastInput, saves, left>>

\* Testing a step again takes the results from it on away.
Starts(ns, at, source) ==
  /\ run = NoRun /\ left.tests > 0 /\ source # <<>> /\ left' = [left EXCEPT !.tests = @ - 1]
  /\ Current = Structured => mapping.first # "failed"
  /\ run' = [key |-> Current, sig |-> signature(ns, at, sample), made |-> source[1], live |-> TRUE]
  /\ cache' = Without(cache, {k \in Tested : findIndex(ns, k) >= at})
  /\ UNCHANGED <<store, stored, data, selected, creating, editor, mapping, outputKey, sample, lastInput, saves>>
runTest == Starts(nodes, testIndex, testSource)

\* What a test can come to: a parser or a mapping fails, a filter drops the event.
Ends(k) == {"done"} \cup IF k = Structured THEN {"failed"} ELSE IF Kind[k] = "parser" THEN {"failed"}
                        ELSE IF Kind[k] = "transform" THEN {"dropped"} ELSE {}

\* The answer counts if the step on screen, all before it and the sample are what they were.
Tests(end, kept) ==
  LET step == run.sig[2][Len(run.sig[2])]
      current == run.live /\ testIndex # 0 /\ run.sig = signature(nodes, testIndex, sample)
  IN  /\ run # NoRun /\ run' = NoRun /\ end \in Ends(run.key)
      /\ kept => step.conf.body \in Lenient
      /\ cache' = IF ~ current THEN cache
                  ELSE [cache EXCEPT ![run.key] =
                         [sig |-> run.sig, end |-> end, made |-> Append(run.made, [conf |-> step.conf, kept |-> kept])]]
      /\ UNCHANGED <<store, stored, data, selected, creating, editor, mapping, outputKey, sample, lastInput, saves, left>>

--------------------------------------------------------------------------------
(* The structured mapping: read by the Studio once, and by its editor whenever it opens. *)
mappingVars == <<store, data, selected, creating, editor, outputKey, sample, lastInput, cache>>
DraftMapping(m) ==
  /\ mapping' = m
  /\ UNCHANGED <<stored, run, saves, left>> /\ UNCHANGED mappingVars
FirstRead(ok) ==
  /\ mapping.first = "reading"
  /\ LET answer(was) == IF ok /\ was = "unread" THEN stored ELSE was IN
       DraftMapping([mapping EXCEPT !.first = IF ok THEN "read" ELSE "failed", !.draft = answer(@), !.saved = answer(@)])
EditorRead(ok) ==
  /\ mapping.read = "reading"
  /\ DraftMapping(IF ok THEN [mapping EXCEPT !.read = "read", !.draft = stored, !.saved = stored] ELSE [mapping EXCEPT !.read = "failed"])
readAgain == mapping.read = "failed" /\ DraftMapping([mapping EXCEPT !.read = "reading"])
mappingBusy == \E s \in saves : s.kind = "mapping" /\ s.mine
editMapping(m) ==
  /\ mapping.read = "read" /\ ~ mappingBusy /\ m \in Mappings /\ m # mapping.draft
  /\ DraftMapping([mapping EXCEPT !.draft = m])

--------------------------------------------------------------------------------
(* What is on its way to the server. *)
Sent(kind, key, value, order, ns, of) ==
  [kind |-> kind, key |-> key, value |-> value, order |-> order, nodes |-> ns, of |-> of, wrote |-> <<>>, mine |-> TRUE]
Send(s) ==
  /\ left.saves > 0 /\ left' = [left EXCEPT !.saves = @ - 1] /\ saves' = saves \cup {s}
  /\ UNCHANGED <<store, stored, data, selected, creating, mapping, outputKey, sample, lastInput, cache, run>>
save ==
  /\ editor.key # None /\ ~ editor.busy /\ editor.value.body \notin Invalid
  /\ creating # None \/ editor.value # editor.opened
  /\ editor' = [editor EXCEPT !.busy = TRUE]
  /\ Send(Sent("save", Current, editor.value, <<>>, nodes, sample))
delete ==
  /\ editor.key \in DOMAIN data /\ ~ editor.busy
  /\ Send(Sent("delete", editor.key, NoConf, <<>>, <<>>, None)) /\ UNCHANGED editor
saveMapping ==
  /\ mapping.read = "read" /\ ~ mappingBusy /\ mapping.draft # mapping.saved
  /\ Send(Sent("mapping", Structured, [NoConf EXCEPT !.body = mapping.draft], <<>>, <<>>, None)) /\ UNCHANGED editor
reorder(i) ==
  LET steps == orderedSteps(Steps(data), [k \in Steps(data) |-> Conf(k)]) IN
  /\ left.saves > 0 /\ i \in 2..Len(steps) /\ ~ \E s \in saves : s.kind = "order"
  /\ Send(Sent("order", None, NoConf, [steps EXCEPT ![i] = steps[i - 1], ![i - 1] = steps[i]], <<>>, None)) /\ UNCHANGED editor

\* The server carries a request out, whole or not at all.
Allowed(s) ==
  CASE s.kind = "save" -> s.key \in DOMAIN Becomes \/ s.key \in DOMAIN store
    [] s.kind = "delete" -> s.key \in DOMAIN store
    [] s.kind = "order" -> Range(s.order) = Steps(store)
    [] OTHER -> TRUE
Name(s) == IF s.key \in DOMAIN Becomes THEN Becomes[s.key] ELSE s.key
Written(s) ==
  CASE s.kind = "save" -> [k \in DOMAIN store \cup {Name(s)} |-> IF k = Name(s) THEN [s.value EXCEPT !.body = Kept[@]] ELSE store[k]]
    [] s.kind = "delete" -> [k \in DOMAIN store \ {s.key} |-> store[k]]
    [] s.kind = "order" -> [k \in DOMAIN store |-> IF k \in Range(s.order) THEN [store[k] EXCEPT !.prio = 10 * (CHOOSE n \in DOMAIN s.order : s.order[n] = k)] ELSE store[k]]
    [] OTHER -> store
Serve(s) ==
  /\ s.wrote = <<>> /\ Allowed(s)
  /\ store' = Written(s) /\ stored' = IF s.kind = "mapping" THEN s.value.body ELSE stored
  /\ saves' = (saves \ {s}) \cup {[s EXCEPT !.wrote = <<store'>>]}
  /\ UNCHANGED <<data, selected, creating, editor, mapping, outputKey, sample, lastInput, cache, run, left>>
\* An error, or an answer that is lost: nothing on screen changes but the message.
Fail(s) ==
  /\ saves' = saves \ {s}
  /\ editor' = IF s.mine /\ s.kind = "save" THEN [editor EXCEPT !.busy = FALSE] ELSE editor
  /\ UNCHANGED <<store, stored, data, selected, creating, mapping, outputKey, sample, lastInput, cache, run, left>>

\* refresh may fail, and may bring what was saved at any time since the request was made.
Refreshed(s) == {data, store, s.wrote[1]}
onSaved(s, d) ==
  /\ s.kind = "save" /\ s.wrote # <<>> /\ d \in Refreshed(s) /\ data' = d
  /\ creating' = None /\ Mount(d, Name(s), NoConf)
  /\ mapping' = [mapping EXCEPT !.read = "none"] /\ saves' = {[t EXCEPT !.mine = FALSE] : t \in saves \ {s}}
  /\ Follow(cacheAfterSave(cache, s.nodes, s.key, [key |-> Name(s), conf |-> semanticConfig(s.wrote[1][Name(s)])], s.of), TRUE)
  /\ UNCHANGED <<store, stored, outputKey, left>>
onDeleted(s, d) ==
  /\ s.kind = "delete" /\ s.wrote # <<>> /\ d \in Refreshed(s) /\ data' = d
  /\ creating' = None /\ Mount(d, None, NoConf)
  /\ mapping' = [mapping EXCEPT !.read = "none"] /\ saves' = {[t EXCEPT !.mine = FALSE] : t \in saves \ {s}}
  /\ Follow(Without(cache, Tested), TRUE)
  /\ UNCHANGED <<store, stored, outputKey, left>>
mappingSaved(s) ==
  /\ s.kind = "mapping" /\ s.wrote # <<>> /\ saves' = saves \ {s}
  /\ mapping' = IF s.mine THEN [mapping EXCEPT !.saved = s.value.body] ELSE mapping
  /\ UNCHANGED <<stored, run, left>> /\ UNCHANGED mappingVars
\* The editor opens anew, on the components as they are before they are loaded again.
reordered(s, d) ==
  /\ s.kind = "order" /\ s.wrote # <<>> /\ d \in Refreshed(s) /\ data' = d
  /\ IF creating = None THEN Mount(data, selected, NoConf)
     ELSE editor' = [editor EXCEPT !.value = editor.opened, !.busy = FALSE] /\ UNCHANGED selected
  /\ mapping' = [mapping EXCEPT !.draft = mapping.saved, !.read = Reading(Current)] /\ saves' = {[t EXCEPT !.mine = FALSE] : t \in saves \ {s}}
  /\ Follow(Without(cache, Tested), ~ discarded)
  /\ UNCHANGED <<store, stored, creating, outputKey, left>>

\* Reload configuration, and what other administrators do.
Reload ==
  /\ data' = store
  /\ IF activeKey(store, selected) = editor.key \/ creating # None \/ Current = Structured THEN UNCHANGED editor
     ELSE editor' = OpenedOf(store, activeKey(store, selected))
  /\ Follow(cache, TRUE)
  /\ UNCHANGED <<store, stored, selected, creating, mapping, outputKey, saves, left>>
Elsewhere ==
  /\ \/ \E k \in DOMAIN store \cap Others : \E c \in Confs[k] : store' = [store EXCEPT ![k] = c] /\ UNCHANGED stored
     \/ Structured \in Others /\ \E m \in Mappings : stored' = m /\ UNCHANGED store
  /\ UNCHANGED <<data, selected, creating, editor, mapping, outputKey, sample, lastInput, cache, run, saves, left>>

Press ==
  \/ \E key \in Tested : choose(key) \/ duplicate(key) \/ \E c \in UNION Range(Confs) : add(key, c)
  \/ \E c \in UNION Range(Confs) : edit(c)
  \/ discard \/ save \/ delete \/ saveMapping \/ runTest \/ Reload \/ readAgain
  \/ \E m \in Mappings : editMapping(m)
  \/ \E i \in DOMAIN Listed : reorder(i)
  \/ \E s \in Samples : changeSample(s)
Answer ==
  \/ \E ok \in BOOLEAN : FirstRead(ok) \/ EditorRead(ok)
  \/ \E end \in {"done", "dropped", "failed"}, kept \in BOOLEAN : Tests(end, kept)
  \/ \E s \in saves : \/ Serve(s) \/ Fail(s) \/ mappingSaved(s)
                      \/ s.wrote # <<>> /\ \E d \in Refreshed(s) : onSaved(s, d) \/ onDeleted(s, d) \/ reordered(s, d)
Next ==
  \/ (\A s \in saves : s.kind # "delete") /\ Press
  \/ Answer
  \/ Elsewhere

Spec == Init /\ [][Next]_studioVars

--------------------------------------------------------------------------------
\* A result that is shown as current is what the steps as they are on screen make of the
\* sample as it is, whatever was edited, saved, reordered or loaded since the test was run.
ResultTrue ==
  Current \in Tested /\ cache[Current] # NoResult =>
    LET shown == cache[Current]  ns == nodes  at == findIndex(ns, Current) IN
    at # 0 /\ shown.sig = signature(ns, at, sample) =>
      [i \in DOMAIN shown.made |-> shown.made[i].conf] = [i \in 1..at |-> ns[i].conf]

\* Stated in pipeline-studio.tsx ("Retesting an upstream node invalidates downstream results,
\* even if its config is unchanged") and not so: the result of a step that is not on the chain
\* at that moment, of another output say, is kept and comes back with it.
DownstreamForgotten ==
  LET shown == cache[Current] IN
  testIndex > 1 /\ shown.sig = signature(nodes, testIndex, sample) =>
    LET before == cache[nodes[testIndex - 1].key] IN
    before.sig = signature(nodes, testIndex - 1, sample) /\ before.end = "done" => before.made = SubSeq(shown.made, 1, testIndex - 1)

\* The list shows the steps in the order they are saved in, once nothing is on its way or
\* unsaved.  Not so: the editor that opens anew after a move keeps the priority of before.
OrderShown ==
  saves = {} /\ creating = None /\ data = store /\ editor.value = editor.opened =>
    orderedSteps(Steps(data), [k \in Steps(data) |-> Conf(k)]) = orderedSteps(Steps(store), store)
================================================================================
