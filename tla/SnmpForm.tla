--------------------------------- MODULE SnmpForm ---------------------------------
(* The form of an SNMP input (adapter-form.tsx, collection-fields.tsx): a map that *)
(* is edited row by row, the list of OIDs, and the import of MIB files             *)
(* (snmp-mib-import.tsx, snmp-mib.ts), which has a mapping template made first and  *)
(* adds the OIDs to the draft when that is done.                                    *)
EXTENDS Naturals, FiniteSets, Sequences, SequencesExt

CONSTANTS
  Trim,       \* what is typed as the key of an entry -> the key
  Values,     \* what is typed as its value
  Begin,      \* the input as saved: [entries, oids]
  Canonical,  \* how an OID is written in a row -> the OID that is
  TypedOids,  \* what is typed as an OID
  Presets,    \* common OIDs: [name, oid]
  Objects,    \* the objects of a MIB: [name, table], with "" for the table of a scalar
  Instance,   \* [object, suffix] -> the OID, or "" where the suffix makes none
  TypedSuffixes, \* what is typed as the suffix of a table, "" among them
  Numbered,   \* [name, n] -> the name with a number, which tells it from others
  Named,      \* [object, oid] -> the name that the object gives the OID
  MaxRows     \* rows of a list, beyond which nothing more is added

VARIABLES
  entries, error,   \* EntriesField: its rows [key, value], and the error it shows
  reported,         \* the error as the form knows it
  value, oids,      \* the draft: the map, in the order of its keys, and the rows [name, oid]
  initial,          \* [value, oids] as the editor was opened with
  selected, suffix, \* objects chosen from the MIB; table -> its suffix
  import,           \* "none", "preview", or "sent"
  merged            \* what the request under way will add to the draft, and its template

formVars == <<entries, error, reported, value, oids, initial, selected, suffix, import, merged>>

--------------------------------------------------------------------------------
(* Entries. *)
Keys(rows) == [i \in DOMAIN rows |-> Trim[rows[i].key]]

\* Object.fromEntries: a key stays where it came first and takes the value that comes last.
output(rows) ==
  LET keys == Keys(rows)
      firsts == SelectSeq([i \in DOMAIN rows |-> i], LAMBDA i : \A j \in 1 .. i - 1 : keys[j] # keys[i])
      last(key) == CHOOSE j \in DOMAIN rows : keys[j] = key /\ \A k \in j + 1 .. Len(rows) : keys[k] # key
  IN  [n \in DOMAIN firsts |-> [key |-> keys[firsts[n]], value |-> rows[last(keys[firsts[n]])].value]]

issue(rows) ==
  LET keys == Keys(rows) IN
  IF "" \in Range(keys) THEN "incomplete"
  ELSE IF Cardinality(Range(keys)) # Len(keys) THEN "twice"
  ELSE IF "constructor" \in Range(keys) THEN "reserved"
  ELSE ""

Busy == import = "sent"

\* update: the draft takes the rows even where they have an error.
update(rows) ==
  /\ ~ Busy /\ Len(rows) <= MaxRows
  /\ entries' = rows /\ error' = issue(rows) /\ reported' = issue(rows) /\ value' = output(rows)
  /\ UNCHANGED <<oids, initial, selected, suffix, import, merged>>
Typed == [key : DOMAIN Trim, value : Values]
addEntry == update(Append(entries, [key |-> "", value |-> ""]))
editEntry(i, row) == i \in DOMAIN entries /\ row # entries[i] /\ update([entries EXCEPT ![i] = row])
removeEntry(i) == i \in DOMAIN entries /\ update(RemoveAt(entries, i))

\* Discard: rows are decoded anew only if the map that is taken back to is another one.
discard ==
  /\ ~ Busy /\ value' = initial.value /\ oids' = initial.oids /\ reported' = ""
  /\ IF value = initial.value THEN UNCHANGED <<entries, error>> ELSE entries' = initial.value /\ error' = ""
  /\ UNCHANGED <<initial, selected, suffix, import, merged>>

--------------------------------------------------------------------------------
(* OIDs. *)
Draft(rows) ==
  /\ ~ Busy /\ Len(rows) <= MaxRows /\ oids' = rows
  /\ UNCHANGED <<entries, error, reported, value, initial, selected, suffix, import, merged>>
editOid(i, oid) == i \in DOMAIN oids /\ oids[i].oid # oid /\ Draft([oids EXCEPT ![i].oid = oid])
removeOid(i) == i \in DOMAIN oids /\ Draft(RemoveAt(oids, i))

NamesOf(rows) == {rows[i].name : i \in DOMAIN rows}
OidsOf(rows) == {Canonical[rows[i].oid] : i \in DOMAIN rows}
\* The name itself, or the first numbered one that no row has.
FreshName(base, names) ==
  IF base \notin names THEN base
  ELSE LET n == CHOOSE n \in 2 .. Cardinality(names) + 2 :
                  Numbered[base, n] \notin names /\ \A m \in 2 .. n - 1 : Numbered[base, m] \in names
       IN  Numbered[base, n]
\* SnmpOidPicker offers an OID that no row has, under a name that no row has.
onAdd(preset) ==
  /\ preset.oid \notin OidsOf(oids)
  /\ Draft(Append(oids, [preset EXCEPT !.name = FreshName(@, NamesOf(oids))]))

\* mergeMibOids: chosen OIDs are added unless a row has them; metrics are their rows, once per name.
mergeMibOids(existing, chosen) ==
  LET Add(m, item) ==
        LET same == {i \in DOMAIN m.rows : Canonical[m.rows[i].oid] = item.oid}
            first == CHOOSE i \in same : \A j \in same : i <= j
            entry == IF same # {} THEN [name |-> m.rows[first].name, oid |-> item.oid]
                     ELSE [name |-> FreshName(Named[item.object.name, item.oid], m.names), oid |-> item.oid]
        IN  [rows |-> IF same # {} THEN m.rows ELSE Append(m.rows, entry),
             metrics |-> IF \E x \in Range(m.metrics) : x.name = entry.name THEN m.metrics ELSE Append(m.metrics, entry),
             names |-> m.names \cup {entry.name}]
  IN  FoldLeft(Add, [rows |-> existing, metrics |-> <<>>, names |-> NamesOf(existing)], chosen)

instanceOid(object) == Instance[object.name, IF object.table = "" THEN "" ELSE suffix[object.table]]
chosen == SelectSeq(Objects, LAMBDA o : o \in selected)
instances == [i \in DOMAIN chosen |-> [object |-> chosen[i], oid |-> instanceOid(chosen[i])]]
invalid == \E i \in DOMAIN instances : instances[i].oid = ""

\* An upload replaces the preview, its selection and the suffixes.
upload(ok) ==
  /\ ~ Busy /\ import' = IF ok THEN "preview" ELSE "none"
  /\ IF ok THEN selected' = {o \in Range(Objects) : o.table = ""} /\ suffix' = [t \in DOMAIN suffix |-> ""]
     ELSE UNCHANGED <<selected, suffix>>
  /\ UNCHANGED <<entries, error, reported, value, oids, initial, merged>>
Choose(objects, suffixes) ==
  /\ import = "preview" /\ selected' = objects /\ suffix' = suffixes
  /\ UNCHANGED <<entries, error, reported, value, oids, initial, import, merged>>
setSelected(o) == Choose((selected \ {o}) \cup ({o} \ selected), suffix)
setSuffix(t, x) == x # suffix[t] /\ Choose(selected, [suffix EXCEPT ![t] = x])

\* Add OIDs and template; the whole form is disabled until the answer.
create ==
  /\ import = "preview" /\ chosen # <<>> /\ ~ invalid /\ Len(oids) < MaxRows
  /\ import' = "sent" /\ merged' = mergeMibOids(oids, instances)
  /\ UNCHANGED <<entries, error, reported, value, oids, initial, selected, suffix>>
created(ok) ==
  /\ Busy /\ merged' = mergeMibOids(<<>>, <<>>)
  /\ import' = IF ok THEN "none" ELSE "preview"
  /\ IF ok THEN oids' = merged.rows ELSE UNCHANGED oids
  /\ UNCHANGED <<entries, error, reported, value, initial, selected, suffix>>

--------------------------------------------------------------------------------
\* Validation refuses OIDs that are not filled in; a saved input is what the editor opens with.
save ==
  /\ ~ Busy /\ reported = "" /\ \A i \in DOMAIN oids : oids[i].oid # ""
  /\ initial' = [value |-> value, oids |-> oids]
  /\ entries' = value /\ error' = "" /\ import' = "none" /\ selected' = {} /\ suffix' = [t \in DOMAIN suffix |-> ""]
  /\ UNCHANGED <<reported, value, oids, merged>>

Init ==
  /\ initial = Begin /\ value = Begin.value /\ entries = Begin.value /\ oids = Begin.oids
  /\ error = "" /\ reported = "" /\ import = "none" /\ selected = {}
  /\ suffix = [t \in {o.table : o \in Range(Objects)} \ {""} |-> ""]
  /\ merged = mergeMibOids(<<>>, <<>>)

Next ==
  \/ addEntry \/ \E i \in 1 .. MaxRows : removeEntry(i) \/ removeOid(i) \/ \E row \in Typed : editEntry(i, row)
  \/ \E i \in 1 .. MaxRows, oid \in TypedOids : editOid(i, oid)
  \/ \E preset \in Presets : onAdd(preset)
  \/ \E ok \in BOOLEAN : upload(ok) \/ created(ok)
  \/ \E o \in Range(Objects) : setSelected(o)
  \/ \E t \in DOMAIN suffix, x \in TypedSuffixes : setSuffix(t, x)
  \/ create \/ save \/ discard

Spec == Init /\ [][Next]_formVars

--------------------------------------------------------------------------------
\* The draft holds each row that is shown without an error, and a form that may be saved holds no
\* entry without a name, or one twice; what is being imported adds to the OIDs of the draft and
\* takes none away, collects each chosen OID, once, and gives every metric of the template the
\* row of its name, as long as the names of the rows told them apart before.
FormTrue ==
  /\ error = "" => value = [i \in DOMAIN entries |-> [entries[i] EXCEPT !.key = Trim[@]]]
  /\ reported # "" => error = reported
  /\ reported = "" => issue(value) = ""
  /\ Busy =>
       /\ IsPrefix(oids, merged.rows)
       /\ \A i \in DOMAIN instances : instances[i].oid \in OidsOf(merged.rows)
       /\ Len(merged.rows) - Len(oids) = Cardinality(OidsOf(merged.rows) \ OidsOf(oids))
       /\ Cardinality(NamesOf(oids)) = Len(oids) =>
            /\ Cardinality(NamesOf(merged.rows)) = Len(merged.rows)
            /\ {m.oid : m \in Range(merged.metrics)} = {instances[i].oid : i \in DOMAIN instances}
            /\ \A m \in Range(merged.metrics) : \E r \in Range(merged.rows) : r.name = m.name /\ Canonical[r.oid] = m.oid

\* Expected of a form that shows an error, and not so: Discard forgets the error, and where the
\* map is the one it goes back to, the rows that have the error stay.
ErrorBlocks == error # "" => reported # ""
================================================================================
