---------------------------- MODULE OutputProofs ----------------------------
(* Proofs about OutputDelivery and the adapter it calls: the shape of the     *)
(* buffers and of the call inside the monitor, what ClickHouse's tokens stand *)
(* for, whose turn it is, and what follows: a chunk is in a canonical table   *)
(* once and whole, no event is lost without a word, what has to be written    *)
(* again is still held, a retry is scheduled, the limits are kept.            *)
EXTENDS OutputDelivery, FiniteSetTheorems, WellFoundedInduction, TLAPS

--------------------------------------------------------------------------------
(* Filtering a sequence                                                         *)

Below == {p \in Nat \X Nat : p[1] < p[2]}

\* Induction over the natural numbers, for a set of them.
LEMMA Induction ==
  ASSUME NEW S, S \subseteq Nat, 0 \in S, \A n \in S : n + 1 \in S
  PROVE  \A n \in Nat : n \in S
<1>1. IsWellFoundedOn(Below, Nat)
  BY NatLessThanWellFounded DEF OpToRel, Below
<1>2. SUFFICES ASSUME Nat \ S # {} PROVE FALSE
  OBVIOUS
<1>3. PICK x \in Nat \ S : \A y \in Nat \ S : ~ (<<y, x>> \in Below)
  BY <1>1, <1>2, WFMin
<1>4. x # 0 /\ x - 1 \in Nat
  BY <1>3
<1>5. x - 1 \notin S
  <2>1. x - 1 \in S => (x - 1) + 1 \in S
    OBVIOUS
  <2>. QED BY <1>3, <1>4, <2>1
<1>6. <<x - 1, x>> \in Below
  BY <1>4 DEF Below
<1>. QED BY <1>3, <1>4, <1>5, <1>6

Step(s, S, g, n) == IF n = 0 THEN <<>> ELSE IF s[n] \in S THEN Append(g[n - 1], s[n]) ELSE g[n - 1]
Filtering(s, S, m, g) == g = [n \in 0..m |-> Step(s, S, g, n)]

LEMMA RecursionExists == ASSUME NEW s, NEW S, NEW m \in Nat PROVE \E g : Filtering(s, S, m, g)
<1> DEFINE Extended(g, n) == Step(s, S, g, n)
           Good == {k \in Nat : \E g : Filtering(s, S, k, g)}
<1> USE DEF Filtering
<1>1. 0 \in Good
  <2>1. [n \in 0..0 |-> <<>>] = [n \in 0..0 |-> Extended([i \in 0..0 |-> <<>>], n)]
    BY DEF Step
  <2>. QED BY <2>1
<1>2. ASSUME NEW k \in Good PROVE k + 1 \in Good
  <2>1. PICK g : g = [n \in 0..k |-> Extended(g, n)]
    OBVIOUS
  <2> DEFINE h == [n \in 0..(k + 1) |-> IF n = k + 1 THEN Extended(g, n) ELSE g[n]]
  <2>2. ASSUME NEW n \in 0..(k + 1) PROVE h[n] = Extended(h, n)
    <3>1. CASE n = 0
      BY <2>1, <3>1 DEF Step
    <3>2. CASE n # 0
      <4>1. n - 1 \in 0..k /\ n - 1 # k + 1 /\ n - 1 \in 0..(k + 1)
        BY <3>2
      <4>2. h[n - 1] = g[n - 1]
        BY <4>1
      <4>3. Extended(h, n) = Extended(g, n)
        BY <3>2, <4>2 DEF Step
      <4>4. CASE n = k + 1
        BY <4>3, <4>4
      <4>5. CASE n # k + 1
        <5>1. n \in 0..k
          BY <4>5
        <5>2. g[n] = Extended(g, n)
          BY <2>1, <5>1
        <5>. QED BY <4>3, <4>5, <5>2
      <4>. QED BY <4>4, <4>5
    <3>. QED BY <3>1, <3>2
  <2>3. h = [n \in 0..(k + 1) |-> Extended(h, n)]
    BY <2>2
  <2> HIDE DEF h, Extended
  <2>4. k \in Nat
    BY DEF Good
  <2>5. Filtering(s, S, k + 1, h)
    BY <2>3 DEF Extended
  <2> HIDE DEF Filtering
  <2>. QED BY <2>4, <2>5 DEF Good
<1> HIDE DEF Good
<1>3. m \in Good
  <2>1. Good \subseteq Nat
    BY DEF Good
  <2>. QED BY <1>1, <1>2, <2>1, Induction
<1>. QED BY <1>3 DEF Good


\* The elements of a set that a sequence holds, in its order and as often as it does.
LEMMA ThoseOK ==
  ASSUME NEW T, NEW s \in Seq(T), NEW S
  PROVE  /\ Those(s, S) \in Seq(T)
         /\ Range(Those(s, S)) = Range(s) \cap S
         /\ Len(Those(s, S)) <= Len(s)
         /\ (\A i, j \in 1..Len(s) : s[i] = s[j] => i = j)
              => \A i, j \in 1..Len(Those(s, S)) : Those(s, S)[i] = Those(s, S)[j] => i = j
<1> DEFINE Rec(g) == Filtering(s, S, Len(s), g)
           kept == CHOOSE g : Rec(g)
<1>0. Len(s) \in Nat /\ DOMAIN s = 1..Len(s) /\ \A i \in 1..Len(s) : s[i] \in T
  OBVIOUS
<1>1. Those(s, S) = kept[Len(s)]
  BY DEF Those, Filtering, Step
<1>2. Rec(kept)
  <2>1. \E g : Rec(g)
    BY <1>0, RecursionExists
  <2> HIDE DEF Rec
  <2>. QED BY <2>1
<1> HIDE DEF kept
<1>3. kept[0] = <<>> /\ \A n \in 1..Len(s) : kept[n] = IF s[n] \in S THEN Append(kept[n - 1], s[n]) ELSE kept[n - 1]
  <2>1. \A n \in 0..Len(s) : kept[n] = Step(s, S, kept, n)
    BY <1>2 DEF Filtering
  <2>2. 0 \in 0..Len(s) /\ \A n \in 1..Len(s) : n \in 0..Len(s) /\ n # 0
    BY <1>0
  <2>. QED BY <2>1, <2>2 DEF Step
<1> HIDE DEF Rec
<1> DEFINE Distinct(t) == \A i, j \in 1..Len(t) : t[i] = t[j] => i = j
           P(n) == n \in 0..Len(s) =>
             /\ kept[n] \in Seq(T)
             /\ Len(kept[n]) <= n
             /\ \A x : (\E i \in 1..Len(kept[n]) : kept[n][i] = x) <=> (x \in S /\ \E i \in 1..n : s[i] = x)
             /\ Distinct(s) => Distinct(kept[n])
           Good == {n \in Nat : P(n)}
<1>4. 0 \in Good
  <2>1. P(0)
    BY <1>3
  <2>. QED BY <2>1
<1>5. ASSUME NEW n \in Good PROVE n + 1 \in Good
  <2>0. SUFFICES P(n + 1)
    <3>1. n \in Nat
      OBVIOUS
    <3> HIDE DEF P
    <3>. QED BY <3>1
  <2> HIDE DEF Distinct
  <2>1. SUFFICES ASSUME n + 1 \in 0..Len(s)
        PROVE  /\ kept[n + 1] \in Seq(T)
               /\ Len(kept[n + 1]) <= n + 1
               /\ \A x : (\E i \in 1..Len(kept[n + 1]) : kept[n + 1][i] = x) <=> (x \in S /\ \E i \in 1..(n + 1) : s[i] = x)
               /\ Distinct(s) => Distinct(kept[n + 1])
    OBVIOUS
  <2>2. n \in Nat /\ P(n) /\ n \in 0..Len(s) /\ n + 1 \in 1..Len(s) /\ s[n + 1] \in T
    BY <1>0, <2>1
  <2>3. kept[n + 1] = IF s[n + 1] \in S THEN Append(kept[n], s[n + 1]) ELSE kept[n]
    BY <1>3, <2>2
  <2>4. PICK k \in Seq(T) : k = kept[n]
    BY <2>2
  <2>5. /\ Len(k) <= n /\ Len(k) \in Nat
        /\ \A x : (\E i \in 1..Len(k) : k[i] = x) <=> (x \in S /\ \E i \in 1..n : s[i] = x)
        /\ Distinct(s) => Distinct(k)
    BY <2>2, <2>4
  <2> HIDE DEF Good
  <2>6. \A i : i \in 1..(n + 1) <=> i \in 1..n \/ i = n + 1
    BY <2>2
  <2>7. CASE s[n + 1] \notin S
    <3>1. kept[n + 1] = k
      BY <2>3, <2>4, <2>7
    <3>2. \A x : (\E i \in 1..Len(k) : k[i] = x) <=> (x \in S /\ \E i \in 1..(n + 1) : s[i] = x)
      BY <2>5, <2>6, <2>7
    <3>. QED BY <2>2, <2>5, <3>1, <3>2
  <2>8. CASE s[n + 1] \in S
    <3> DEFINE l == Append(k, s[n + 1])
    <3>1. kept[n + 1] = l
      BY <2>3, <2>4, <2>8
    <3>2. l \in Seq(T) /\ Len(l) = Len(k) + 1 /\ (\A i \in 1..Len(k) : l[i] = k[i]) /\ l[Len(k) + 1] = s[n + 1]
      BY <2>2
    <3> HIDE DEF l
    <3>3. \A i : i \in 1..Len(l) <=> i \in 1..Len(k) \/ i = Len(k) + 1
      BY <2>5, <3>2
    <3>4. ASSUME NEW x PROVE (\E i \in 1..Len(l) : l[i] = x) <=> (x \in S /\ \E i \in 1..(n + 1) : s[i] = x)
      <4>1. (\E i \in 1..Len(l) : l[i] = x) <=> (\E i \in 1..Len(k) : k[i] = x) \/ x = s[n + 1]
        BY <3>2, <3>3
      <4>2. (\E i \in 1..(n + 1) : s[i] = x) <=> (\E i \in 1..n : s[i] = x) \/ x = s[n + 1]
        BY <2>6
      <4>. QED BY <2>5, <2>8, <4>1, <4>2
    <3>5. ASSUME Distinct(s), NEW i \in 1..Len(l), NEW j \in 1..Len(l), l[i] = l[j]
          PROVE  i = j
      <4>1. \A m \in 1..Len(k) : k[m] # s[n + 1]
        <5>1. SUFFICES ASSUME NEW m \in 1..Len(k), k[m] = s[n + 1] PROVE FALSE
          OBVIOUS
        <5>2. PICK o \in 1..n : s[o] = s[n + 1]
          BY <2>5, <5>1
        <5>3. o \in 1..Len(s) /\ o # n + 1
          BY <2>2
        <5>. QED BY <2>2, <3>5, <5>2, <5>3 DEF Distinct
      <4>. QED BY <2>5, <3>2, <3>3, <3>5, <4>1 DEF Distinct
    <3>. QED BY <2>2, <2>5, <3>1, <3>2, <3>4, <3>5 DEF Distinct
  <2>. QED BY <2>7, <2>8
<1>6. P(Len(s))
  <2>1. Len(s) \in Nat /\ Good \subseteq Nat
    OBVIOUS
  <2> HIDE DEF Good
  <2>2. Len(s) \in Good
    BY <1>4, <1>5, <2>1, Induction
  <2>. QED BY <2>2 DEF Good
<1>7. PICK t : t = Those(s, S)
  OBVIOUS
<1>8. /\ t \in Seq(T) /\ Len(t) <= Len(s)
      /\ \A x : (\E i \in 1..Len(t) : t[i] = x) <=> (x \in S /\ \E i \in 1..Len(s) : s[i] = x)
      /\ (\A i, j \in 1..Len(s) : s[i] = s[j] => i = j) => \A i, j \in 1..Len(t) : t[i] = t[j] => i = j
  BY <1>0, <1>1, <1>6, <1>7
<1>9. DOMAIN t = 1..Len(t) /\ DOMAIN s = 1..Len(s)
  BY <1>8
<1>10. Range(t) = Range(s) \cap S
  BY <1>8, <1>9 DEF Range
<1>. QED BY <1>7, <1>8, <1>10

--------------------------------------------------------------------------------
(* Sequences                                                                    *)

LEMMA Ends ==
  ASSUME NEW T, NEW s \in Seq(T), s # <<>>
  PROVE  /\ Head(s) \in T /\ Tail(s) \in Seq(T) /\ Len(Tail(s)) = Len(s) - 1
         /\ Len(s) \in Nat \ {0}
         /\ Range(s) = {Head(s)} \cup Range(Tail(s))
         /\ Tail(s) = <<>> <=> Len(s) = 1
<1>1. /\ Head(s) = s[1] /\ Head(s) \in T /\ Tail(s) \in Seq(T) /\ Len(Tail(s)) = Len(s) - 1
      /\ Len(s) \in Nat \ {0}
      /\ \A i \in 1..Len(Tail(s)) : Tail(s)[i] = s[i + 1]
  OBVIOUS
<1>2. DOMAIN s = 1..Len(s) /\ DOMAIN Tail(s) = 1..Len(Tail(s))
  BY <1>1
<1>3. ASSUME NEW i \in 1..Len(s) PROVE s[i] = Head(s) \/ s[i] \in Range(Tail(s))
  <2>1. CASE i = 1
    BY <1>1, <2>1
  <2>2. CASE i # 1
    <3>1. i - 1 \in 1..Len(Tail(s)) /\ (i - 1) + 1 = i
      BY <1>1, <2>2
    <3>. QED BY <1>1, <1>2, <3>1 DEF Range
  <2>. QED BY <2>1, <2>2
<1>4. ASSUME NEW i \in 1..Len(Tail(s)) PROVE Tail(s)[i] \in Range(s)
  <2>1. i + 1 \in 1..Len(s)
    BY <1>1
  <2>. QED BY <1>1, <1>2, <2>1 DEF Range
<1>5. Head(s) \in Range(s)
  BY <1>1, <1>2 DEF Range
<1>6. Range(s) = {Head(s)} \cup Range(Tail(s))
  BY <1>2, <1>3, <1>4, <1>5 DEF Range
<1>7. Tail(s) = <<>> <=> Len(Tail(s)) = 0
  BY <1>1
<1>. QED BY <1>1, <1>6, <1>7

LEMMA AppendOK ==
  ASSUME NEW T, NEW s \in Seq(T), NEW x \in T
  PROVE  /\ Append(s, x) \in Seq(T) /\ Len(Append(s, x)) = Len(s) + 1 /\ Append(s, x) # <<>>
         /\ Range(Append(s, x)) = Range(s) \cup {x}
<1>1. /\ Append(s, x) \in Seq(T) /\ Len(Append(s, x)) = Len(s) + 1 /\ Len(s) \in Nat
      /\ \A i \in 1..Len(s) : Append(s, x)[i] = s[i]
      /\ Append(s, x)[Len(s) + 1] = x
  OBVIOUS
<1>2. DOMAIN s = 1..Len(s) /\ DOMAIN Append(s, x) = 1..Len(s) + 1
  BY <1>1
<1>3. \A i : i \in 1..Len(s) + 1 <=> i \in 1..Len(s) \/ i = Len(s) + 1
  BY <1>1
<1>4. Range(Append(s, x)) = Range(s) \cup {x}
  BY <1>1, <1>2, <1>3 DEF Range
<1>5. Append(s, x) # <<>>
  <2>1. Len(<<>>) = 0
    OBVIOUS
  <2>. QED BY <1>1, <2>1
<1>. QED BY <1>1, <1>4, <1>5

LEMMA RangeOK ==
  ASSUME NEW T, NEW s \in Seq(T)
  PROVE  /\ Range(s) \subseteq T /\ DOMAIN s = 1..Len(s)
         /\ s = <<>> <=> Range(s) = {}
         /\ \A x : x \in Range(s) <=> \E i \in 1..Len(s) : s[i] = x
<1>1. DOMAIN s = 1..Len(s) /\ Len(s) \in Nat /\ (s = <<>> <=> Len(s) = 0) /\ \A i \in 1..Len(s) : s[i] \in T
  OBVIOUS
<1>2. \A x : x \in Range(s) <=> \E i \in 1..Len(s) : s[i] = x
  BY <1>1 DEF Range
<1>3. Len(s) # 0 => s[1] \in Range(s)
  BY <1>1, <1>2
<1>. QED BY <1>1, <1>2, <1>3

LEMMA EmptyOK ==
  /\ Range(<<>>) = {} /\ Len(<<>>) = 0 /\ \A T : <<>> \in Seq(T)
BY DEF Range

LEMMA SingleOK ==
  ASSUME NEW T, NEW x \in T
  PROVE  <<x>> \in Seq(T) /\ <<x>> # <<>> /\ Range(<<x>>) = {x} /\ Len(<<x>>) = 1 /\ Head(<<x>>) = x
<1>1. <<x>> \in Seq(T) /\ Len(<<x>>) = 1 /\ <<x>>[1] = x /\ Head(<<x>>) = x /\ <<x>> # <<>>
  OBVIOUS
<1>2. DOMAIN <<x>> = 1..1
  OBVIOUS
<1>. QED BY <1>1, <1>2 DEF Range

--------------------------------------------------------------------------------
(* The shape of the buffers and of the call inside the monitor                  *)

MineOf(c) == {c} \X (1..Items[c])

Distinct(s) == \A i, j \in 1..Len(s) : s[i] = s[j] => i = j

\* A chunk has a place in the order while its group holds something.
BuffersOK(l, o, g) ==
  /\ Range(l) \subseteq Legacy
  /\ \A c \in Chunks : g[c] \subseteq 1..Items[c] /\ (g[c] # {} <=> c \in Range(o))
  /\ Distinct(o)

\* What is written to the tables: the shared buffer, a whole group, or the event of
\* the call when it needs no buffer.
Writes(j, l, g) ==
  \/ j.what = "legacy" /\ j.chunk = None /\ j.recs = l
  \/ /\ j.what = "group" /\ j.chunk \in Chunks /\ g[j.chunk] = 1..Items[j.chunk]
     /\ j.recs = InSequenceOrder(j.chunk, g[j.chunk])
  \/ /\ j.what = "one" /\ j.by = "caller" /\ j.ev \in Events /\ j.recs = <<j.ev>> /\ ~ j.placed
     /\ \/ j.chunk = None /\ j.ev \in Legacy
        \/ j.chunk \in Chunks /\ Items[j.chunk] = 1 /\ j.ev \in MineOf(j.chunk)

\* What goes to the DLQ: a group that is not whole, or an item that fits no buffer.
SetsAside(j, g) ==
  /\ j.left = <<"raw">> /\ j.chunk \in Chunks /\ ~ j.placed
  /\ \/ /\ j.what = "group" /\ g[j.chunk] # 1..Items[j.chunk]
        /\ j.recs = InSequenceOrder(j.chunk, g[j.chunk])
     \/ /\ j.what = "one" /\ j.by = "caller" /\ j.ev \in MineOf(j.chunk) /\ j.recs = <<j.ev>>
        /\ Items[j.chunk] # 1

JobOK(j, l, o, g) ==
  /\ j.at = "idle" => j = NoJob
  /\ j.by = "none" => j = NoJob
  /\ j.by # "caller" => j.ev = None /\ ~ j.placed
  /\ j.at \in {"send", "flush", "groups"} => ~ j.placed /\ j.what = "none"
  /\ j.at = "send" => j.by = "caller" /\ j.ev \in Events
  /\ j.at = "insert" => Writes(j, l, g) /\ j.left # <<>>
  /\ j.at \in {"dlq", "best"} => SetsAside(j, g)
  /\ j.placed => j.at = "insert" /\ j.ev \in Range(j.recs)

ChTypeOK ==
  /\ legacy \in Seq(Legacy) /\ order \in Seq(Chunks)
  /\ got \in [Chunks -> SUBSET Nat] /\ old \subseteq Chunks
  /\ job \in JobType /\ result \in ResultType

Shape == ChTypeOK /\ BuffersOK(legacy, order, got) /\ JobOK(job, legacy, order, got)

LEMMA ChunkEvent ==
  /\ \A c \in Chunks : Items[c] \in Nat \ {0}
  /\ \A e : e \in ChunkEvents <=> \E c \in Chunks : e \in MineOf(c)
  /\ \A c \in Chunks : MineOf(c) \subseteq ChunkEvents /\ MineOf(c) \subseteq Events
  /\ \A c, d \in Chunks : c # d => MineOf(c) \cap MineOf(d) = {}
  /\ \A e \in ChunkEvents : e[1] \in Chunks /\ e \in MineOf(e[1]) /\ e[2] \in 1..Items[e[1]] /\ e = <<e[1], e[2]>>
  /\ \A c \in Chunks : \A s \in 1..Items[c] : <<c, s>> \in MineOf(c)
<1>1. \A c \in Chunks : Items[c] \in Nat \ {0}
  BY ClickHouseAssumption
<1>2. \A e : e \in ChunkEvents <=> \E c \in Chunks : e \in MineOf(c)
  BY DEF ChunkEvents, MineOf
<1>. QED BY <1>1, <1>2 DEF MineOf, Events

LEMMA NoneIsNothing == None \notin Events /\ None \notin Chunks
<1>1. None \notin Chunks /\ None \notin Legacy
  BY ClickHouseAssumption
<1>2. None \notin ChunkEvents
  <2>1. SUFFICES ASSUME NEW c \in Chunks, NEW s \in 1..Items[c], None = <<c, s>> PROVE FALSE
    BY DEF ChunkEvents
  <2>2. Len(<<>>) = 0 /\ Len(<<c, s>>) = 2
    OBVIOUS
  <2>. QED BY <2>1, <2>2 DEF None
<1>. QED BY <1>1, <1>2 DEF Events

\* The records of a group, in order.
LEMMA SequenceOK ==
  ASSUME NEW c \in Chunks, NEW S, S \subseteq 1..Items[c]
  PROVE  /\ InSequenceOrder(c, S) \in Seq(Events)
         /\ Range(InSequenceOrder(c, S)) = {c} \X S
         /\ Distinct(InSequenceOrder(c, S))
<1> DEFINE whole == [s \in 1..Items[c] |-> <<c, s>>]
<1>1. Items[c] \in Nat
  BY ChunkEvent
<1>2. whole \in Seq(Events)
  BY <1>1, ChunkEvent DEF MineOf
<1>3. Range(whole) = MineOf(c)
  <2>1. DOMAIN whole = 1..Items[c] /\ \A s \in 1..Items[c] : whole[s] = <<c, s>>
    OBVIOUS
  <2> HIDE DEF whole
  <2>2. \A x : x \in Range(whole) <=> \E s \in 1..Items[c] : x = <<c, s>>
    BY <2>1 DEF Range
  <2>3. \A x : x \in MineOf(c) <=> \E s \in 1..Items[c] : x = <<c, s>>
    BY DEF MineOf
  <2>. QED BY <2>2, <2>3
<1>4. InSequenceOrder(c, S) = Those(whole, {c} \X S)
  BY DEF InSequenceOrder
<1> HIDE DEF whole
<1>5. Those(whole, {c} \X S) \in Seq(Events) /\ Range(Those(whole, {c} \X S)) = Range(whole) \cap ({c} \X S)
  BY <1>2, ThoseOK
<1>d. Distinct(Those(whole, {c} \X S))
  <2>1. Distinct(whole)
    BY <1>1 DEF whole, Distinct
  <2>. QED BY <1>2, <2>1, ThoseOK DEF Distinct
<1>6. MineOf(c) \cap ({c} \X S) = {c} \X S
  BY DEF MineOf
<1>. QED BY <1>3, <1>4, <1>5, <1>6, <1>d

LEMMA IntervalOK ==
  ASSUME NEW n \in Nat
  PROVE  IsFiniteSet(1..n) /\ Cardinality(1..n) = n
<1>1. 1 \in Int /\ n \in Int
  OBVIOUS
<1>2. IsFiniteSet(1..n) /\ Cardinality(1..n) = IF 1 > n THEN 0 ELSE n - 1 + 1
  BY <1>1, FS_Interval
<1>. QED BY <1>2

\* A group is whole when it has as many items as the chunk.
LEMMA CompleteOK ==
  ASSUME NEW c \in Chunks, NEW S, S \subseteq 1..Items[c]
  PROVE  Cardinality(S) >= Items[c] <=> S = 1..Items[c]
<1>1. Items[c] \in Nat
  BY ChunkEvent
<1>2. IsFiniteSet(1..Items[c]) /\ Cardinality(1..Items[c]) = Items[c]
  BY <1>1, IntervalOK
<1>3. IsFiniteSet(S) /\ Cardinality(S) <= Items[c] /\ (Cardinality(S) = Items[c] => S = 1..Items[c])
  BY <1>2, FS_Subset
<1>4. Cardinality(S) \in Nat
  BY <1>3, FS_CardinalityType
<1>. QED BY <1>1, <1>2, <1>3, <1>4

LEMMA TablesOfOK ==
  ASSUME NEW recs
  PROVE  /\ TablesOf(recs) \in Seq(Tables) /\ TablesOf(recs) # <<>>
         /\ Range(TablesOf(recs)) \subseteq Tables
         /\ \A t \in Tables, e \in Range(recs) : HasRows(e, t) => t \in Range(TablesOf(recs))
<1> DEFINE mine == UNION {RowsIn[e] : e \in Range(recs)}
           them == Those(Canonical, mine)
<1>1. Canonical \in Seq(Range(Canonical)) /\ Canonical \in Seq(Tables)
  <2>1. Canonical \in Seq({"metric", "state", "event"}) /\ DOMAIN Canonical = 1..3
    BY DEF Canonical
  <2>2. Range(Canonical) = {"metric", "state", "event"}
    <3>1. Canonical[1] = "metric" /\ Canonical[2] = "state" /\ Canonical[3] = "event"
      BY DEF Canonical
    <3>2. \A i : i \in 1..3 <=> i = 1 \/ i = 2 \/ i = 3
      OBVIOUS
    <3>. QED BY <2>1, <3>1, <3>2 DEF Range
  <2>. QED BY <2>1, <2>2 DEF Tables
<1>2. them \in Seq(Tables) /\ Range(them) = Range(Canonical) \cap mine
  BY <1>1, ThoseOK
<1> HIDE DEF mine
<1>3. TablesOf(recs) = <<"raw">> \o them
  BY DEF TablesOf, mine
<1> HIDE DEF them
<1>4. "raw" \in Tables
  BY DEF Tables
<1> DEFINE all == <<"raw">> \o them
<1>5. all \in Seq(Tables) /\ Len(all) = Len(them) + 1 /\ all[1] = "raw" /\ \A i \in 1..Len(them) : all[i + 1] = them[i]
  BY <1>2, <1>4
<1> HIDE DEF all
<1>6. Len(them) \in Nat /\ DOMAIN them = 1..Len(them) /\ DOMAIN all = 1..Len(all)
  BY <1>2, <1>5
<1>7. "raw" \in Range(all) /\ Range(them) \subseteq Range(all)
  <2>1. 1 \in 1..Len(all) /\ \A i \in 1..Len(them) : i + 1 \in 1..Len(all)
    BY <1>5, <1>6
  <2>. QED BY <1>5, <1>6, <2>1 DEF Range
<1>8. all # <<>> /\ Range(all) \subseteq Tables
  <2>1. Len(<<>>) = 0
    OBVIOUS
  <2>. QED BY <1>5, <1>6, <2>1, RangeOK
<1>9. ASSUME NEW t \in Tables, NEW e \in Range(recs), HasRows(e, t) PROVE t \in Range(all)
  <2>1. CASE t = "raw"
    BY <1>7, <2>1
  <2>2. CASE t # "raw"
    <3>1. t \in Range(Canonical) /\ t \in RowsIn[e]
      BY <1>9, <2>2 DEF Tables, HasRows
    <3>2. t \in mine
      BY <3>1 DEF mine
    <3>. QED BY <1>2, <1>7, <3>1, <3>2
  <2>. QED BY <2>1, <2>2
<1>. QED BY <1>3, <1>5, <1>8, <1>9 DEF all

--------------------------------------------------------------------------------
(* Calls                                                                        *)

Ats == {"idle", "send", "flush", "groups", "insert", "dlq", "best"}

LEMMA NoJobOK ==
  /\ NoJob \in JobType /\ NoJob.by = "none" /\ NoJob.at = "idle" /\ NoJob.ev = None
  /\ NoJob.placed = FALSE /\ NoJob.what = "none" /\ NoJob.left = <<>> /\ NoJob.todo = <<>> /\ NoJob.recs = <<>>
  /\ \A l, o, g : JobOK(NoJob, l, o, g)
<1>1. <<>> \in Seq(Events) /\ <<>> \in Seq(Tables) /\ <<>> \in Seq(Chunks)
  OBVIOUS
<1>2. NoJob.placed = FALSE /\ NoJob.at = "idle"
  BY DEF NoJob
<1>3. \A l, o, g : JobOK(NoJob, l, o, g)
  BY <1>2 DEF JobOK, NoJob
<1>4. NoJob \in JobType
  BY <1>1 DEF NoJob, JobType
<1>. QED BY <1>3, <1>4 DEF NoJob

LEMMA WriteJobOK ==
  ASSUME job \in JobType, NEW what \in {"legacy", "group", "one"}, NEW c \in Chunks \cup {None},
         NEW recs \in Seq(Events)
  PROVE  LET j == WriteJob(what, c, recs) IN
         /\ j \in JobType /\ j.by = job.by /\ j.ev = job.ev /\ j.placed = job.placed /\ j.todo = job.todo
         /\ j.at = "insert" /\ j.what = what /\ j.chunk = c /\ j.recs = recs /\ j.left = TablesOf(recs)
<1> DEFINE tables == TablesOf(recs)
<1>1. tables \in Seq(Tables)
  BY TablesOfOK
<1>2. WriteJob(what, c, recs) = [job EXCEPT !.at = "insert", !.what = what, !.chunk = c, !.recs = recs, !.left = tables]
  BY DEF WriteJob
<1> HIDE DEF tables
<1> DEFINE d == [job EXCEPT !.at = "insert", !.what = what, !.chunk = c, !.recs = recs, !.left = tables]
<1>3. /\ d \in JobType /\ d.by = job.by /\ d.ev = job.ev /\ d.placed = job.placed /\ d.todo = job.todo
      /\ d.at = "insert" /\ d.what = what /\ d.chunk = c /\ d.recs = recs /\ d.left = tables
  BY <1>1 DEF JobType
<1> HIDE DEF d
<1>4. WriteJob(what, c, recs) = d
  BY <1>2 DEF d
<1>. QED BY <1>3, <1>4 DEF tables

LEMMA QuarantineJobOK ==
  ASSUME job \in JobType, NEW what \in {"legacy", "group", "one"}, NEW c \in Chunks \cup {None},
         NEW recs \in Seq(Events)
  PROVE  LET j == QuarantineJob(what, c, recs) IN
         /\ j \in JobType /\ j.by = job.by /\ j.ev = job.ev /\ j.placed = job.placed /\ j.todo = job.todo
         /\ j.at = "dlq" /\ j.what = what /\ j.chunk = c /\ j.recs = recs /\ j.left = <<"raw">>
<1>1. <<"raw">> \in Seq(Tables)
  BY DEF Tables
<1> DEFINE d == [job EXCEPT !.at = "dlq", !.what = what, !.chunk = c, !.recs = recs, !.left = <<"raw">>]
<1>2. /\ d \in JobType /\ d.by = job.by /\ d.ev = job.ev /\ d.placed = job.placed /\ d.todo = job.todo
      /\ d.at = "dlq" /\ d.what = what /\ d.chunk = c /\ d.recs = recs /\ d.left = <<"raw">>
  BY <1>1 DEF JobType
<1> HIDE DEF d
<1>3. QuarantineJob(what, c, recs) = d
  BY DEF QuarantineJob, d
<1>. QED BY <1>2, <1>3

\* A write of a whole group, or the quarantine of one that is not.
LEMMA FlushChunkGroupOK ==
  ASSUME NEW c \in Chunks, Shape, ~ job.placed
  PROVE  LET j == FlushChunkGroup(c) IN
         /\ j \in JobType /\ j.by = job.by /\ j.ev = job.ev /\ ~ j.placed /\ j.todo = job.todo
         /\ j.what = "group" /\ j.chunk = c /\ j.recs = InSequenceOrder(c, got[c])
         /\ \/ j.at = "insert" /\ Writes(j, legacy, got) /\ j.left # <<>> /\ j.left = TablesOf(j.recs)
            \/ j.at = "dlq" /\ SetsAside(j, got)
<1> DEFINE recs == InSequenceOrder(c, got[c])
           w == WriteJob("group", c, recs)
           q == QuarantineJob("group", c, recs)
<1>1. job \in JobType /\ got[c] \subseteq 1..Items[c]
  BY DEF Shape, ChTypeOK, BuffersOK
<1>2. recs \in Seq(Events)
  BY <1>1, SequenceOK
<1>3. IsComplete(c) <=> got[c] = 1..Items[c]
  BY <1>1, CompleteOK DEF IsComplete
<1>4. FlushChunkGroup(c) = IF IsComplete(c) THEN w ELSE q
  BY DEF FlushChunkGroup, RecordsInSequenceOrder
<1>5. TablesOf(recs) # <<>>
  BY TablesOfOK
<1> HIDE DEF recs
<1>6. /\ w \in JobType /\ w.by = job.by /\ w.ev = job.ev /\ w.placed = job.placed /\ w.todo = job.todo
      /\ w.at = "insert" /\ w.what = "group" /\ w.chunk = c /\ w.recs = recs /\ w.left = TablesOf(recs)
  BY <1>1, <1>2, WriteJobOK
<1>7. /\ q \in JobType /\ q.by = job.by /\ q.ev = job.ev /\ q.placed = job.placed /\ q.todo = job.todo
      /\ q.at = "dlq" /\ q.what = "group" /\ q.chunk = c /\ q.recs = recs /\ q.left = <<"raw">>
  BY <1>1, <1>2, QuarantineJobOK
<1> HIDE DEF w, q
<1>8. CASE IsComplete(c)
  <2>1. FlushChunkGroup(c) = w /\ got[c] = 1..Items[c]
    BY <1>3, <1>4, <1>8
  <2>. QED BY <1>5, <1>6, <2>1 DEF Writes, recs
<1>9. CASE ~ IsComplete(c)
  <2>1. FlushChunkGroup(c) = q /\ got[c] # 1..Items[c]
    BY <1>3, <1>4, <1>9
  <2>. QED BY <1>7, <2>1 DEF SetsAside, recs
<1>. QED BY <1>8, <1>9

LEMMA FlushLegacyOK ==
  ASSUME Shape
  PROVE  LET j == FlushLegacy IN
         /\ j \in JobType /\ j.by = job.by /\ j.ev = job.ev /\ j.placed = job.placed /\ j.todo = job.todo
         /\ j.what = "legacy" /\ j.chunk = None /\ j.recs = legacy
         /\ j.at = "insert" /\ Writes(j, legacy, got) /\ j.left # <<>> /\ j.left = TablesOf(j.recs)
<1>1. job \in JobType /\ legacy \in Seq(Legacy)
  BY DEF Shape, ChTypeOK
<1>2. legacy \in Seq(Events)
  BY <1>1 DEF Events
<1> DEFINE w == WriteJob("legacy", None, legacy)
<1>3. /\ w \in JobType /\ w.by = job.by /\ w.ev = job.ev /\ w.placed = job.placed /\ w.todo = job.todo
      /\ w.at = "insert" /\ w.what = "legacy" /\ w.chunk = None /\ w.recs = legacy /\ w.left = TablesOf(legacy)
  <2>1. PICK n \in Chunks \cup {None} : n = None
    OBVIOUS
  <2>2. PICK r \in Seq(Events) : r = legacy
    BY <1>2
  <2>3. PICK what \in {"legacy", "group", "one"} : what = "legacy"
    OBVIOUS
  <2> HIDE DEF w
  <2>4. w = WriteJob(what, n, r)
    BY <2>1, <2>2, <2>3 DEF w
  <2>5. LET j == WriteJob(what, n, r) IN
         /\ j \in JobType /\ j.by = job.by /\ j.ev = job.ev /\ j.placed = job.placed /\ j.todo = job.todo
         /\ j.at = "insert" /\ j.what = what /\ j.chunk = n /\ j.recs = r /\ j.left = TablesOf(r)
    BY <1>1, WriteJobOK, SMTT(30)
  <2>. QED BY <2>1, <2>2, <2>3, <2>4, <2>5
<1>4. TablesOf(legacy) # <<>>
  BY TablesOfOK
<1>5. FlushLegacy = w
  BY DEF FlushLegacy
<1> HIDE DEF w
<1>. QED BY <1>3, <1>4, <1>5 DEF Writes

--------------------------------------------------------------------------------
(* The steps of the monitor                                                     *)

\* A call that has begun to write, or to set aside.
Begun(j) ==
  /\ j \in JobType /\ j.by = job.by /\ j.ev = job.ev /\ j.at \in {"insert", "dlq"}
  /\ j.at = "insert" => j.left = TablesOf(j.recs)

LEMMA BegunOK ==
  ASSUME Shape, job.at \in {"send", "flush", "groups"}, NEW j \in JobType, NEW l, NEW o, NEW g,
         j.by = job.by, j.ev = job.ev,
         \/ j.at = "insert" /\ Writes(j, l, g) /\ j.left # <<>>
         \/ j.at = "dlq" /\ SetsAside(j, g),
         j.placed => j.at = "insert" /\ j.by = "caller" /\ j.ev \in Range(j.recs)
  PROVE  JobOK(j, l, o, g)
<1>1. job.by # "none"
  <2>1. job = NoJob => job.at = "idle"
    BY NoJobOK
  <2>. QED BY <2>1 DEF Shape, JobOK
<1>2. job.by # "caller" => job.ev = None
  BY DEF Shape, JobOK
<1>. QED BY <1>1, <1>2 DEF JobOK

LEMMA LeaveOK ==
  ASSUME job \in JobType, result \in ResultType, NEW outcome \in {"ok", "failed"}, Leave(outcome)
  PROVE  /\ job' = NoJob /\ job' \in JobType /\ result' \in ResultType
         /\ job.by # "flusher" => result'.caller = outcome /\ result'.flusher = result.flusher
         /\ job.by = "flusher" => result'.caller = result.caller
         /\ JobOK(job', legacy', order', got')
<1> DEFINE c == [result EXCEPT !.caller = outcome]
           f == [result EXCEPT !.flusher = "failed"]
<1>1. c \in ResultType /\ c.caller = outcome /\ c.flusher = result.flusher
  BY DEF ResultType
<1>2. f \in ResultType /\ f.caller = result.caller
  BY DEF ResultType
<1>3. job' = NoJob /\ result' = IF job.by # "flusher" THEN c ELSE IF outcome = "failed" THEN f ELSE result
  BY DEF Leave
<1> HIDE DEF c, f
<1>. QED BY <1>1, <1>2, <1>3, NoJobOK

\* The call has put its event into a buffer.
Puts(e) ==
  /\ \/ /\ e \in Legacy /\ legacy' = Append(legacy, e) /\ UNCHANGED <<order, got, old>>
     \/ /\ e \in ChunkEvents /\ Items[e[1]] # 1 /\ got' = [got EXCEPT ![e[1]] = got[e[1]] \cup {e[2]}]
        /\ order' = IF e[1] \in Range(order) THEN order ELSE Append(order, e[1])
        /\ UNCHANGED <<legacy, old>>
  /\ \/ Leave("ok")
     \/ Begun(job') /\ job'.placed /\ job'.at = "insert" /\ UNCHANGED result

LEMMA PutLegacyOK ==
  ASSUME Shape, NEW e \in Legacy
  PROVE  /\ Append(legacy, e) \in Seq(Legacy) /\ e \in Range(Append(legacy, e))
         /\ BuffersOK(Append(legacy, e), order, got)
<1>1. legacy \in Seq(Legacy) /\ BuffersOK(legacy, order, got)
  BY DEF Shape, ChTypeOK
<1>2. Append(legacy, e) \in Seq(Legacy) /\ Range(Append(legacy, e)) = Range(legacy) \cup {e}
  BY <1>1, AppendOK
<1>. QED BY <1>1, <1>2 DEF BuffersOK

LEMMA PutChunkItemOK ==
  ASSUME Shape, NEW e \in ChunkEvents
  PROVE  LET c == e[1]
             g == [got EXCEPT ![c] = got[c] \cup {e[2]}]
             o == IF c \in Range(order) THEN order ELSE Append(order, c) IN
         /\ g \in [Chunks -> SUBSET Nat] /\ g[c] = got[c] \cup {e[2]} /\ g[c] \subseteq 1..Items[c]
         /\ \A d \in Chunks : d # c => g[d] = got[d]
         /\ o \in Seq(Chunks) /\ BuffersOK(legacy, o, g)
<1> DEFINE c == e[1]
           filled == got[c] \cup {e[2]}
           g == [got EXCEPT ![c] = filled]
           o == IF c \in Range(order) THEN order ELSE Append(order, c)
<1>1. c \in Chunks /\ e[2] \in 1..Items[c] /\ Items[c] \in Nat
  BY ChunkEvent
<1>2. got \in [Chunks -> SUBSET Nat] /\ order \in Seq(Chunks) /\ BuffersOK(legacy, order, got)
  BY DEF Shape, ChTypeOK
<1>3. filled \subseteq 1..Items[c] /\ filled # {} /\ filled \subseteq Nat
  BY <1>1, <1>2 DEF BuffersOK
<1> HIDE DEF filled, c
<1>4. g \in [Chunks -> SUBSET Nat] /\ g[c] = filled /\ \A d \in Chunks : d # c => g[d] = got[d]
  BY <1>1, <1>2, <1>3
<1>5. o \in Seq(Chunks) /\ Range(o) = Range(order) \cup {c}
  BY <1>1, <1>2, AppendOK
<1>6. ASSUME NEW i \in 1..Len(o), NEW j \in 1..Len(o), o[i] = o[j] PROVE i = j
  <2>1. CASE c \in Range(order)
    BY <1>2, <1>6, <2>1 DEF BuffersOK, Distinct
  <2>2. CASE c \notin Range(order)
    <3>1. Len(order) \in Nat /\ o = Append(order, c)
      BY <1>2, <2>2
    <3>2. Len(o) = Len(order) + 1 /\ o[Len(order) + 1] = c /\ \A k \in 1..Len(order) : o[k] = order[k]
      BY <1>1, <1>2, <3>1
    <3>3. \A k \in 1..Len(order) : order[k] # c
      BY <1>2, <2>2, RangeOK
    <3> HIDE DEF o
    <3>4. \A k \in 1..Len(o) : k \in 1..Len(order) \/ k = Len(order) + 1
      BY <3>1, <3>2
    <3>. QED BY <1>2, <1>6, <3>2, <3>3, <3>4 DEF BuffersOK, Distinct
  <2>. QED BY <2>1, <2>2
<1> HIDE DEF g, o
<1>7. ASSUME NEW d \in Chunks PROVE g[d] \subseteq 1..Items[d] /\ (g[d] # {} <=> d \in Range(o))
  BY <1>2, <1>3, <1>4, <1>5 DEF BuffersOK
<1>8. BuffersOK(legacy, o, g)
  BY <1>2, <1>6, <1>7 DEF BuffersOK, Distinct
<1>. QED BY <1>3, <1>4, <1>5, <1>8 DEF g, o, c, filled

--------------------------------------------------------------------------------
(* Counting bytes and items                                                     *)

LEMMA UnionFinite ==
  ASSUME NEW D, IsFiniteSet(D), NEW f, DOMAIN f = D, \A x \in D : IsFiniteSet(f[x])
  PROVE  IsFiniteSet(UNION {f[x] : x \in D})
<1> DEFINE T == {f[x] : x \in D}
           h == [x \in D |-> f[x]]
<1>1. h \in Surjection(D, T)
  BY DEF Surjection
<1>2. IsFiniteSet(T)
  BY <1>1, FS_Surjection
<1>. QED BY <1>2, FS_UNION

LEMMA BlockOK ==
  ASSUME NEW x, NEW n \in Nat
  PROVE  IsFiniteSet({x} \X (1..n)) /\ Cardinality({x} \X (1..n)) = n
<1>1. IsFiniteSet({x}) /\ Cardinality({x}) = 1
  BY FS_Singleton
<1>2. IsFiniteSet(1..n) /\ Cardinality(1..n) = n
  BY IntervalOK
<1> DEFINE A == {x}
           B == 1..n
<1> HIDE DEF A, B
<1>3. IsFiniteSet(A \X B) /\ Cardinality(A \X B) = Cardinality(A) * Cardinality(B)
  BY <1>1, <1>2, FS_Product DEF A, B
<1>4. Cardinality(A) = 1 /\ Cardinality(B) = n
  BY <1>1, <1>2 DEF A, B
<1>5. 1 * n = n
  OBVIOUS
<1>. QED BY <1>3, <1>4, <1>5 DEF A, B

\* Adding a block of n to a finite set adds at most n.
LEMMA AddBlock ==
  ASSUME NEW S, IsFiniteSet(S), NEW x, NEW n \in Nat
  PROVE  /\ IsFiniteSet(S \cup ({x} \X (1..n)))
         /\ Cardinality(S \cup ({x} \X (1..n))) <= Cardinality(S) + n
<1> DEFINE B == {x} \X (1..n)
<1>1. IsFiniteSet(B) /\ Cardinality(B) = n
  BY BlockOK
<1> HIDE DEF B
<1>2. IsFiniteSet(S \cup B) /\ Cardinality(S \cup B) = Cardinality(S) + Cardinality(B) - Cardinality(S \cap B)
  BY <1>1, FS_Union
<1>3. Cardinality(S) \in Nat /\ Cardinality(S \cap B) \in Nat
  BY FS_Intersection, FS_CardinalityType
<1>4. Cardinality(S \cup B) <= Cardinality(S) + n
  BY <1>1, <1>2, <1>3
<1>. QED BY <1>2, <1>4 DEF B

BytesOf(l)   == UNION {{i} \X (1..Size[l[i]]) : i \in DOMAIN l}
ItemBytes(S) == UNION {{e} \X (1..Size[e]) : e \in S}
GroupsOf(g)  == UNION {{c} \X g[c] : c \in Chunks}

LEMMA SizeOK == \A e \in Events : Size[e] \in Nat \ {0}
BY ClickHouseAssumption

LEMMA LegacyBytesOK ==
  ASSUME NEW l \in Seq(Legacy)
  PROVE  IsFiniteSet(BytesOf(l)) /\ Cardinality(BytesOf(l)) \in Nat
<1> DEFINE f == [i \in 1..Len(l) |-> {i} \X (1..Size[l[i]])]
<1>1. DOMAIN l = 1..Len(l) /\ Len(l) \in Nat /\ \A i \in 1..Len(l) : l[i] \in Events
  BY DEF Events
<1>2. \A i \in 1..Len(l) : IsFiniteSet(f[i])
  BY <1>1, SizeOK, BlockOK
<1>3. IsFiniteSet(1..Len(l))
  BY <1>1, FS_Interval
<1>4. BytesOf(l) = UNION {f[i] : i \in 1..Len(l)}
  BY <1>1 DEF BytesOf
<1>5. DOMAIN f = 1..Len(l)
  OBVIOUS
<1> HIDE DEF f
<1>6. IsFiniteSet(BytesOf(l))
  BY <1>2, <1>3, <1>4, <1>5, UnionFinite
<1>. QED BY <1>6, FS_CardinalityType

LEMMA AppendBytes ==
  ASSUME NEW l \in Seq(Legacy), NEW e \in Legacy
  PROVE  Cardinality(BytesOf(Append(l, e))) <= Cardinality(BytesOf(l)) + Size[e]
<1> DEFINE m == Append(l, e)
<1>1. /\ DOMAIN l = 1..Len(l) /\ Len(l) \in Nat /\ DOMAIN m = 1..(Len(l) + 1)
      /\ m[Len(l) + 1] = e /\ \A i \in 1..Len(l) : m[i] = l[i]
  OBVIOUS
<1>2. \A i : i \in 1..(Len(l) + 1) <=> i \in 1..Len(l) \/ i = Len(l) + 1
  BY <1>1
<1> HIDE DEF m
<1>3. BytesOf(m) = BytesOf(l) \cup ({Len(l) + 1} \X (1..Size[e]))
  BY <1>1, <1>2 DEF BytesOf
<1>4. Size[e] \in Nat
  BY SizeOK DEF Events
<1>. QED BY <1>3, <1>4, AddBlock, LegacyBytesOK DEF m

LEMMA ItemBytesOK ==
  ASSUME NEW S, S \subseteq Events, IsFiniteSet(S)
  PROVE  IsFiniteSet(ItemBytes(S)) /\ Cardinality(ItemBytes(S)) \in Nat
<1> DEFINE f == [e \in S |-> {e} \X (1..Size[e])]
<1>1. DOMAIN f = S /\ \A e \in S : IsFiniteSet(f[e])
  BY SizeOK, BlockOK
<1>2. ItemBytes(S) = UNION {f[e] : e \in S}
  BY DEF ItemBytes
<1> HIDE DEF f
<1>3. IsFiniteSet(ItemBytes(S))
  BY <1>1, <1>2, UnionFinite
<1>. QED BY <1>3, FS_CardinalityType

LEMMA AddItem ==
  ASSUME NEW S, S \subseteq Events, IsFiniteSet(S), NEW e \in Events
  PROVE  Cardinality(ItemBytes(S \cup {e})) <= Cardinality(ItemBytes(S)) + (IF e \in S THEN 0 ELSE Size[e])
<1>1. Size[e] \in Nat /\ IsFiniteSet(ItemBytes(S)) /\ Cardinality(ItemBytes(S)) \in Nat
  BY SizeOK, ItemBytesOK
<1>2. CASE e \in S
  <2>1. S \cup {e} = S
    BY <1>2
  <2>. QED BY <1>1, <1>2, <2>1
<1>3. CASE e \notin S
  <2>1. ItemBytes(S \cup {e}) = ItemBytes(S) \cup ({e} \X (1..Size[e]))
    BY DEF ItemBytes
  <2>. QED BY <1>1, <1>3, <2>1, AddBlock
<1>. QED BY <1>2, <1>3

\* What is in the groups is finite, though there may be infinitely many chunks.
LEMMA GroupsOK ==
  ASSUME NEW l, NEW o \in Seq(Chunks), NEW g \in [Chunks -> SUBSET Nat], BuffersOK(l, o, g)
  PROVE  /\ IsFiniteSet(GroupsOf(g)) /\ GroupsOf(g) \subseteq Events /\ Cardinality(GroupsOf(g)) \in Nat
         /\ o = <<>> => GroupsOf(g) = {}
<1> DEFINE f == [i \in 1..Len(o) |-> {o[i]} \X g[o[i]]]
<1>1. Len(o) \in Nat /\ \A i \in 1..Len(o) : o[i] \in Chunks
  OBVIOUS
<1>2. ASSUME NEW i \in 1..Len(o) PROVE IsFiniteSet(f[i])
  <2>1. Items[o[i]] \in Nat /\ g[o[i]] \subseteq 1..Items[o[i]]
    BY <1>1, ChunkEvent DEF BuffersOK
  <2>2. IsFiniteSet({o[i]} \X (1..Items[o[i]]))
    BY <2>1, BlockOK
  <2>3. f[i] \in SUBSET ({o[i]} \X (1..Items[o[i]]))
    BY <2>1
  <2>. QED BY <2>2, <2>3, FS_Subset
<1>3. IsFiniteSet(1..Len(o)) /\ DOMAIN f = 1..Len(o)
  BY <1>1, FS_Interval
<1>4. GroupsOf(g) = UNION {f[i] : i \in 1..Len(o)}
  <2>1. \A c \in Chunks : g[c] # {} => \E i \in 1..Len(o) : o[i] = c
    BY RangeOK DEF BuffersOK
  <2>. QED BY <1>1, <2>1 DEF GroupsOf
<1> HIDE DEF f
<1>5. IsFiniteSet(GroupsOf(g))
  BY <1>2, <1>3, <1>4, UnionFinite
<1>6. GroupsOf(g) \subseteq Events
  BY ChunkEvent DEF GroupsOf, BuffersOK, MineOf
<1>7. o = <<>> => GroupsOf(g) = {}
  BY <1>4
<1>. QED BY <1>5, <1>6, <1>7, FS_CardinalityType

LEMMA BytesOK ==
  ASSUME ChTypeOK, BuffersOK(legacy, order, got)
  PROVE  /\ LegacyBytes = Cardinality(BytesOf(legacy)) /\ LegacyBytes \in Nat
         /\ ChunkBytes = Cardinality(ItemBytes(GroupsOf(got))) /\ ChunkBytes \in Nat
         /\ ChunkItems = Cardinality(GroupsOf(got)) /\ ChunkItems \in Nat
         /\ legacy = <<>> => LegacyBytes = 0
         /\ order = <<>> => ChunkBytes = 0 /\ ChunkItems = 0
<1>1. InGroups = GroupsOf(got)
  BY DEF InGroups, ItemsOf, GroupsOf
<1>2. /\ LegacyBytes = Cardinality(BytesOf(legacy)) /\ ChunkBytes = Cardinality(ItemBytes(GroupsOf(got)))
      /\ ChunkItems = Cardinality(GroupsOf(got))
  BY <1>1 DEF LegacyBytes, ChunkBytes, ChunkItems, BytesOf, ItemBytes
<1>3. LegacyBytes \in Nat /\ ChunkBytes \in Nat /\ ChunkItems \in Nat
  BY <1>2, LegacyBytesOK, GroupsOK, ItemBytesOK DEF ChTypeOK
<1>4. legacy = <<>> => BytesOf(legacy) = {}
  BY DEF BytesOf
<1>5. order = <<>> => GroupsOf(got) = {} /\ ItemBytes(GroupsOf(got)) = {}
  <2>1. order = <<>> => GroupsOf(got) = {}
    BY GroupsOK DEF ChTypeOK
  <2>. QED BY <2>1 DEF ItemBytes
<1>. QED BY <1>2, <1>3, <1>4, <1>5, FS_EmptySet


\* A write the call's own event is part of.
LEMMA PlacedOK ==
  ASSUME NEW w \in JobType, w.by = job.by, w.ev = job.ev, w.at = "insert", w.left = TablesOf(w.recs)
  PROVE  LET j == [w EXCEPT !.placed = TRUE] IN
         /\ Begun(j) /\ j.placed /\ j.at = "insert" /\ j.what = w.what /\ j.chunk = w.chunk
         /\ j.recs = w.recs /\ j.left # <<>> /\ j.ev = w.ev
<1> DEFINE j == [w EXCEPT !.placed = TRUE]
<1>1. /\ j \in JobType /\ j.by = w.by /\ j.ev = w.ev /\ j.placed /\ j.at = w.at /\ j.what = w.what
      /\ j.chunk = w.chunk /\ j.recs = w.recs /\ j.left = w.left
  BY DEF JobType
<1> HIDE DEF j
<1>2. j.left # <<>>
  BY <1>1, TablesOfOK
<1>3. Begun(j)
  BY <1>1 DEF Begun
<1>. QED BY <1>1, <1>2, <1>3 DEF j

\* The call has begun to write or to set aside what is in its way, or an event that
\* fits no buffer.
Diverts ==
  /\ Begun(job') /\ ~ job'.placed /\ UNCHANGED <<buffers, result>>
  /\ \/ job'.at = "insert" /\ Writes(job', legacy, got) /\ job'.left # <<>>
     \/ job'.at = "dlq" /\ SetsAside(job', got)

LEMMA SendDoes ==
  ASSUME Shape, Send
  PROVE  \/ Diverts
         \/ /\ Puts(job.ev)
            /\ Begun(job') => /\ job'.left # <<>> /\ Writes(job', legacy', got')
                              /\ job'.ev \in Range(job'.recs)
<1>a. PICK e \in Events :
        /\ job \in JobType /\ result \in ResultType /\ job.at = "send" /\ job.by = "caller" /\ e = job.ev
        /\ ~ job.placed /\ ChTypeOK /\ BuffersOK(legacy, order, got)
  BY DEF Send, Shape, ChTypeOK, JobOK
<1>0. job \in JobType
  BY <1>a
<1>c. CASE e \in ChunkEvents
  <2>1. PICK c \in Chunks : c = e[1] /\ e \in MineOf(c) /\ Items[c] \in Nat
    BY <1>c, ChunkEvent
  <2>2. SendChunkItem(e)
    BY <1>a, <1>c DEF Send, IsChunkAligned
  <2>3. CASE Items[c] = 1
    <3>1. PICK r \in Seq(Events) : r = <<e>>
      BY <1>a, SingleOK
    <3>2. job' = WriteJob("one", c, r) /\ UNCHANGED <<buffers, result>>
      BY <2>1, <2>2, <2>3, <3>1 DEF SendChunkItem
    <3> DEFINE w == WriteJob("one", c, r)
    <3>3. /\ w \in JobType /\ w.by = job.by /\ w.ev = job.ev /\ w.placed = job.placed
          /\ w.at = "insert" /\ w.what = "one" /\ w.chunk = c /\ w.recs = r /\ w.left = TablesOf(r)
      BY <1>0, WriteJobOK
    <3>4. job' = w
      BY <3>2
    <3> HIDE DEF w
    <3>5. Begun(job') /\ ~ job'.placed /\ job'.left # <<>>
      BY <1>a, <3>3, <3>4, TablesOfOK DEF Diverts, Begun
    <3>6. Writes(job', legacy, got)
      BY <1>a, <2>1, <2>3, <3>1, <3>3, <3>4 DEF Writes
    <3>. QED BY <3>2, <3>3, <3>4, <3>5, <3>6 DEF Diverts
  <2>4. CASE Items[c] # 1 /\ NeedsLegacyFlush(e)
    <3>1. job' = FlushLegacy /\ UNCHANGED <<buffers, result>>
      BY <2>1, <2>2, <2>4 DEF SendChunkItem
    <3>. QED BY <1>a, <3>1, FlushLegacyOK DEF Diverts, Begun
  <2>5. CASE Items[c] # 1 /\ ~ NeedsLegacyFlush(e) /\ Size[e] > MaxPendingBytes
    <3>1. PICK r \in Seq(Events) : r = <<e>>
      BY <1>a, SingleOK
    <3>2. job' = QuarantineJob("one", c, r) /\ UNCHANGED <<buffers, result>>
      BY <2>1, <2>2, <2>5, <3>1 DEF SendChunkItem
    <3> DEFINE w == QuarantineJob("one", c, r)
    <3>3. /\ w \in JobType /\ w.by = job.by /\ w.ev = job.ev /\ w.placed = job.placed
          /\ w.at = "dlq" /\ w.what = "one" /\ w.chunk = c /\ w.recs = r /\ w.left = <<"raw">>
      BY <1>0, QuarantineJobOK
    <3>4. job' = w
      BY <3>2
    <3> HIDE DEF w
    <3>5. Begun(job') /\ ~ job'.placed
      BY <1>a, <3>3, <3>4 DEF Diverts, Begun
    <3>6. SetsAside(job', got)
      BY <1>a, <2>1, <2>5, <3>1, <3>3, <3>4 DEF SetsAside
    <3>. QED BY <3>2, <3>3, <3>4, <3>5, <3>6 DEF Diverts
  <2>6. CASE Items[c] # 1 /\ ~ NeedsLegacyFlush(e) /\ ~ (Size[e] > MaxPendingBytes) /\ ~ HasRoom(e) /\ order # <<>>
    <3>1. job' = FlushChunkGroup(Head(order)) /\ UNCHANGED <<buffers, result>>
      BY <2>1, <2>2, <2>6 DEF SendChunkItem
    <3>2. Head(order) \in Chunks
      BY <1>a, <2>6, Ends DEF ChTypeOK
    <3>. QED BY <1>a, <3>1, <3>2, FlushChunkGroupOK DEF Diverts, Begun
  <2>7. CASE Items[c] # 1 /\ ~ NeedsLegacyFlush(e) /\ ~ (Size[e] > MaxPendingBytes) /\ HasRoom(e)
    <3> DEFINE filled == got[c] \cup {e[2]}
               g == [got EXCEPT ![c] = filled]
               recs == InSequenceOrder(c, filled)
               w == [WriteJob("group", c, recs) EXCEPT !.placed = TRUE]
    <3>1. /\ order' = IF c \in Range(order) THEN order ELSE Append(order, c)
          /\ got' = g /\ UNCHANGED <<legacy, old>>
          /\ IF Cardinality(filled) >= Items[c] THEN job' = w /\ UNCHANGED result ELSE Leave("ok")
      BY <2>1, <2>2, <2>7 DEF SendChunkItem
    <3>2. filled \subseteq 1..Items[c] /\ g[c] = filled
      BY <1>c, <2>1, PutChunkItemOK
    <3>3. recs \in Seq(Events) /\ Range(recs) = {c} \X filled
      BY <2>1, <3>2, SequenceOK
    <3> HIDE DEF recs, g
    <3>4. Begun(w) /\ w.placed /\ w.at = "insert" /\ w.what = "group" /\ w.chunk = c /\ w.recs = recs /\ w.left # <<>>
      <4>1. PICK r \in Seq(Events) : r = recs
        BY <3>3
      <4> DEFINE u == WriteJob("group", c, r)
      <4>2. /\ u \in JobType /\ u.by = job.by /\ u.ev = job.ev
            /\ u.at = "insert" /\ u.what = "group" /\ u.chunk = c /\ u.recs = r /\ u.left = TablesOf(r)
        BY <1>0, WriteJobOK
      <4>3. w = [u EXCEPT !.placed = TRUE]
        BY <4>1
      <4> HIDE DEF w, u
      <4>. QED BY <4>1, <4>2, <4>3, PlacedOK
    <3> HIDE DEF w
    <3>5. CASE Cardinality(filled) >= Items[c]
      <4>1. job' = w /\ UNCHANGED result
        BY <3>1, <3>5
      <4>2. filled = 1..Items[c]
        BY <2>1, <3>2, <3>5, CompleteOK
      <4>3. Writes(w, legacy', got')
        BY <2>1, <3>1, <3>2, <3>4, <4>2 DEF Writes, recs
      <4>4. w.ev \in Range(w.recs)
        <5>1. e = <<c, e[2]>> /\ e[2] \in filled /\ w.ev = e
          BY <1>a, <1>c, <2>1, <3>4, ChunkEvent DEF Begun
        <5>. QED BY <3>3, <3>4, <5>1
      <4>5. Puts(e)
        BY <1>a, <1>c, <2>1, <2>7, <3>1, <3>4, <4>1 DEF Puts, g, filled
      <4>. QED BY <1>a, <3>4, <4>1, <4>3, <4>4, <4>5
    <3>6. CASE ~ (Cardinality(filled) >= Items[c])
      <4>1. Leave("ok")
        BY <3>1, <3>6
      <4>2. Puts(e)
        BY <1>a, <1>c, <2>1, <2>7, <3>1, <4>1 DEF Puts, g, filled
      <4>3. ~ Begun(job')
        BY <4>1, NoJobOK DEF Leave, Begun
      <4>. QED BY <1>a, <4>2, <4>3
    <3>. QED BY <3>5, <3>6
  <2>8. order = <<>> /\ ~ NeedsLegacyFlush(e) /\ ~ (Size[e] > MaxPendingBytes) => HasRoom(e)
    <3>1. SUFFICES ASSUME order = <<>>, ~ NeedsLegacyFlush(e), ~ (Size[e] > MaxPendingBytes) PROVE HasRoom(e)
      OBVIOUS
    <3>2. LegacyBytes + ChunkBytes + Size[e] <= MaxPendingBytes
      <4>1. ChunkBytes = 0 /\ LegacyBytes \in Int /\ Size[e] \in Nat /\ MaxPendingBytes \in Nat
        BY <1>a, <3>1, BytesOK, ClickHouseAssumption
      <4>2. CASE legacy = <<>>
        BY <1>a, <3>1, <4>1, <4>2, BytesOK
      <4>3. CASE legacy # <<>>
        BY <3>1, <4>1, <4>3 DEF NeedsLegacyFlush
      <4>. QED BY <1>a, <4>2, <4>3
    <3>3. Len(order) = 0 /\ Range(order) = {} /\ ChunkItems = 0 /\ got[c] = {}
      BY <1>a, <2>1, <3>1, BytesOK, EmptyOK DEF BuffersOK
    <3>. QED BY <1>a, <2>1, <3>2, <3>3, ClickHouseAssumption, EmptyOK DEF HasRoom
  <2>. QED BY <2>3, <2>4, <2>5, <2>6, <2>7, <2>8
<1>l. CASE e \in Legacy
  <2>1. SendLegacy(e)
    BY <1>a, <1>l, ClickHouseAssumption DEF Send, IsChunkAligned
  <2>2. CASE NeedsLegacyFlush(e)
    <3>1. job' = FlushLegacy /\ UNCHANGED <<buffers, result>>
      BY <2>1, <2>2 DEF SendLegacy
    <3>. QED BY <1>a, <3>1, FlushLegacyOK DEF Diverts, Begun
  <2>3. CASE ~ NeedsLegacyFlush(e) /\ order # <<>> /\ ChunkBytes + Size[e] > MaxPendingBytes
    <3>1. job' = FlushChunkGroup(Head(order)) /\ UNCHANGED <<buffers, result>>
      BY <2>1, <2>3 DEF SendLegacy
    <3>2. Head(order) \in Chunks
      BY <1>a, <2>3, Ends DEF ChTypeOK
    <3>. QED BY <1>a, <3>1, <3>2, FlushChunkGroupOK DEF Diverts, Begun
  <2>4. CASE ~ NeedsLegacyFlush(e) /\ ~ (order # <<>> /\ ChunkBytes + Size[e] > MaxPendingBytes) /\ Size[e] > MaxPendingBytes
    <3>1. PICK r \in Seq(Events), n \in Chunks \cup {None} : r = <<e>> /\ n = None
      BY <1>a, SingleOK
    <3>2. job' = WriteJob("one", n, r) /\ UNCHANGED <<buffers, result>>
      BY <2>1, <2>4, <3>1 DEF SendLegacy
    <3> DEFINE w == WriteJob("one", n, r)
    <3>3. /\ w \in JobType /\ w.by = job.by /\ w.ev = job.ev /\ w.placed = job.placed
          /\ w.at = "insert" /\ w.what = "one" /\ w.chunk = n /\ w.recs = r /\ w.left = TablesOf(r)
      BY <1>0, WriteJobOK
    <3>4. job' = w
      BY <3>2
    <3> HIDE DEF w
    <3>5. Begun(job') /\ ~ job'.placed /\ job'.left # <<>>
      BY <1>a, <3>3, <3>4, TablesOfOK DEF Diverts, Begun
    <3>6. Writes(job', legacy, got)
      BY <1>a, <1>l, <3>1, <3>3, <3>4 DEF Writes
    <3>. QED BY <3>2, <3>3, <3>4, <3>5, <3>6 DEF Diverts
  <2>5. CASE ~ NeedsLegacyFlush(e) /\ ~ (order # <<>> /\ ChunkBytes + Size[e] > MaxPendingBytes) /\ ~ (Size[e] > MaxPendingBytes)
    <3> DEFINE filled == Append(legacy, e)
               w == [WriteJob("legacy", None, filled) EXCEPT !.placed = TRUE]
    <3>1. /\ legacy' = filled /\ UNCHANGED <<order, got, old>>
          /\ (job' = w /\ UNCHANGED result) \/ Leave("ok")
      BY <2>1, <2>5 DEF SendLegacy
    <3>2. filled \in Seq(Legacy) /\ e \in Range(filled)
      BY <1>l, PutLegacyOK
    <3>3. filled \in Seq(Events)
      BY <3>2 DEF Events
    <3> HIDE DEF filled
    <3>4. Begun(w) /\ w.placed /\ w.at = "insert" /\ w.what = "legacy" /\ w.chunk = None /\ w.recs = filled /\ w.left # <<>>
      <4>1. PICK n \in Chunks \cup {None}, r \in Seq(Events) : n = None /\ r = filled
        BY <3>3
      <4> DEFINE u == WriteJob("legacy", n, r)
      <4>2. /\ u \in JobType /\ u.by = job.by /\ u.ev = job.ev
            /\ u.at = "insert" /\ u.what = "legacy" /\ u.chunk = n /\ u.recs = r /\ u.left = TablesOf(r)
        BY <1>0, WriteJobOK
      <4>3. w = [u EXCEPT !.placed = TRUE]
        BY <4>1
      <4> HIDE DEF w, u
      <4>. QED BY <4>1, <4>2, <4>3, PlacedOK
    <3> HIDE DEF w
    <3>5. CASE job' = w /\ UNCHANGED result
      <4>1. Writes(w, legacy', got')
        BY <3>1, <3>4 DEF Writes
      <4>2. w.ev \in Range(w.recs)
        BY <1>a, <3>2, <3>4 DEF Begun
      <4>3. Puts(e)
        BY <1>l, <3>1, <3>4, <3>5 DEF Puts, filled
      <4>. QED BY <1>a, <3>4, <3>5, <4>1, <4>2, <4>3
    <3>6. CASE Leave("ok")
      <4>1. Puts(e)
        BY <1>l, <3>1, <3>6 DEF Puts, filled
      <4>2. ~ Begun(job')
        BY <3>6, NoJobOK DEF Leave, Begun
      <4>. QED BY <1>a, <4>1, <4>2
    <3>. QED BY <3>1, <3>5, <3>6
  <2>. QED BY <2>2, <2>3, <2>4, <2>5
<1>. QED BY <1>a, <1>c, <1>l DEF Events

\* What send does first: it puts the event into a buffer, or diverts.
LEMMA SendOK ==
  ASSUME Shape, Send
  PROVE  Shape' /\ (Puts(job.ev) \/ Diverts)
<1> DEFINE e == job.ev
           c == e[1]
<1>1. /\ job \in JobType /\ result \in ResultType /\ job.at = "send" /\ job.by = "caller" /\ e \in Events
      /\ ~ job.placed /\ ChTypeOK /\ BuffersOK(legacy, order, got)
  BY DEF Send, Shape, ChTypeOK, JobOK
<1>2. \/ Diverts
      \/ /\ Puts(e)
         /\ Begun(job') => /\ job'.left # <<>> /\ Writes(job', legacy', got')
                           /\ job'.ev \in Range(job'.recs)
  BY SendDoes
<1>3. CASE Puts(e)
  <2>1. /\ legacy' \in Seq(Legacy) /\ order' \in Seq(Chunks) /\ got' \in [Chunks -> SUBSET Nat] /\ old' \subseteq Chunks
        /\ BuffersOK(legacy', order', got')
    <3>1. CASE e \in Legacy /\ legacy' = Append(legacy, e) /\ UNCHANGED <<order, got, old>>
      BY <1>1, <3>1, PutLegacyOK DEF ChTypeOK
    <3>2. CASE /\ e \in ChunkEvents /\ Items[c] # 1 /\ got' = [got EXCEPT ![c] = got[c] \cup {e[2]}]
               /\ order' = IF c \in Range(order) THEN order ELSE Append(order, c)
               /\ UNCHANGED <<legacy, old>>
      BY <1>1, <3>2, PutChunkItemOK DEF ChTypeOK
    <3>. QED BY <1>3, <3>1, <3>2 DEF Puts
  <2>2. CASE Leave("ok")
    <3>1. job' \in JobType /\ result' \in ResultType /\ JobOK(job', legacy', order', got')
      BY <1>1, <2>2, LeaveOK
    <3>. QED BY <1>3, <2>1, <3>1 DEF Shape, ChTypeOK
  <2>3. CASE Begun(job') /\ job'.placed /\ job'.at = "insert" /\ UNCHANGED result
    <3>1. job'.by = job.by /\ job'.ev = job.ev /\ job' \in JobType
      BY <2>3 DEF Begun
    <3>2. JobOK(job', legacy', order', got')
      <4>1. Writes(job', legacy', got') /\ job'.left # <<>> /\ job'.ev \in Range(job'.recs)
        <5>1. ~ Diverts
          BY <2>3 DEF Diverts
        <5>. QED BY <1>2, <2>3, <5>1
      <4>2. PICK j \in JobType : j = job'
        BY <3>1
      <4>3. JobOK(j, legacy', order', got')
        BY <1>1, <2>3, <3>1, <4>1, <4>2, BegunOK
      <4>. QED BY <4>2, <4>3
    <3>. QED BY <1>1, <1>3, <2>1, <2>3, <3>1, <3>2 DEF Shape, ChTypeOK
  <2>. QED BY <1>3, <2>2, <2>3 DEF Puts
<1>4. CASE ~ Puts(e)
  <2>1. Diverts
    BY <1>2, <1>4
  <2>2. legacy' = legacy /\ order' = order /\ got' = got /\ old' = old /\ result' = result
    BY <2>1 DEF Diverts, buffers
  <2>3. PICK j \in JobType : j = job'
    BY <2>1 DEF Diverts, Begun
  <2>4. JobOK(job', legacy', order', got')
    BY <1>1, <2>1, <2>2, <2>3, BegunOK DEF Diverts, Begun
  <2>. QED BY <1>1, <2>1, <2>2, <2>3, <2>4 DEF Shape, ChTypeOK
<1>. QED BY <1>3, <1>4


LEMMA AtInsert ==
  ASSUME Shape, job.at \in {"insert", "dlq", "best"}
  PROVE  /\ job \in JobType /\ result \in ResultType /\ job.by # "none" /\ job.left # <<>>
         /\ job.what \in {"legacy", "group", "one"} /\ (job.what = "group" => job.chunk \in Chunks)
         /\ job.by # "caller" => job.ev = None /\ ~ job.placed
         /\ Range(job.left) \subseteq Tables
<1>1. job \in JobType /\ result \in ResultType /\ JobOK(job, legacy, order, got)
  BY DEF Shape, ChTypeOK
<1>2. job.by # "none"
  BY <1>1, NoJobOK DEF JobOK
<1>3. <<"raw">> # <<>>
  OBVIOUS
<1>4. job.left # <<>> /\ job.what \in {"legacy", "group", "one"} /\ (job.what = "group" => job.chunk \in Chunks)
  <2>1. CASE job.at = "insert"
    BY <1>1, <2>1 DEF JobOK, Writes
  <2>2. CASE job.at # "insert"
    BY <1>1, <1>3, <2>2 DEF JobOK, SetsAside
  <2>. QED BY <2>1, <2>2
<1>5. job.left \in Seq(Tables)
  BY <1>1 DEF JobType
<1>6. Range(job.left) \subseteq Tables
  BY <1>5, RangeOK
<1>. QED BY <1>1, <1>2, <1>4, <1>6 DEF JobOK

LEMMA RemoveOK ==
  ASSUME Shape, NEW c \in Chunks, RemovePendingGroup(c)
  PROVE  /\ legacy' = legacy /\ order' \in Seq(Chunks) /\ got' \in [Chunks -> SUBSET Nat] /\ old' \subseteq Chunks
         /\ BuffersOK(legacy', order', got')
         /\ got'[c] = {} /\ \A d \in Chunks : d # c => got'[d] = got[d]
         /\ Len(order') <= Len(order)
<1>1. /\ order \in Seq(Chunks) /\ got \in [Chunks -> SUBSET Nat] /\ old \subseteq Chunks /\ BuffersOK(legacy, order, got)
  BY DEF Shape, ChTypeOK
<1>2. /\ legacy' = legacy /\ order' = Those(order, Chunks \ {c}) /\ got' = [got EXCEPT ![c] = {}] /\ old' = old \ {c}
  BY DEF RemovePendingGroup
<1>3. /\ order' \in Seq(Chunks) /\ Range(order') = Range(order) \cap (Chunks \ {c})
      /\ Len(order') <= Len(order)
      /\ \A i, j \in 1..Len(order') : order'[i] = order'[j] => i = j
  <2> DEFINE o == Those(order, Chunks \ {c})
  <2>1. \A i, j \in 1..Len(order) : order[i] = order[j] => i = j
    BY <1>1 DEF BuffersOK, Distinct
  <2>2. /\ o \in Seq(Chunks) /\ Range(o) = Range(order) \cap (Chunks \ {c}) /\ Len(o) <= Len(order)
        /\ \A i, j \in 1..Len(o) : o[i] = o[j] => i = j
    BY <1>1, <2>1, ThoseOK
  <2>. QED BY <1>2, <2>2
<1>4. Range(order) \subseteq Chunks
  BY <1>1, RangeOK
<1>5. got' \in [Chunks -> SUBSET Nat] /\ got'[c] = {} /\ \A d \in Chunks : d # c => got'[d] = got[d]
  BY <1>1, <1>2
<1>6. ASSUME NEW d \in Chunks PROVE got'[d] \subseteq 1..Items[d] /\ (got'[d] # {} <=> d \in Range(order'))
  BY <1>1, <1>3, <1>4, <1>5 DEF BuffersOK
<1>7. BuffersOK(legacy', order', got')
  BY <1>1, <1>2, <1>3, <1>6 DEF BuffersOK, Distinct
<1>. QED BY <1>1, <1>2, <1>3, <1>5, <1>7

\* Letting go of what has been written or set aside.
LEMMA ClearedOK ==
  ASSUME Shape, job.at \in {"insert", "best"}, Cleared
  PROVE  /\ legacy' \in Seq(Legacy) /\ order' \in Seq(Chunks) /\ got' \in [Chunks -> SUBSET Nat] /\ old' \subseteq Chunks
         /\ BuffersOK(legacy', order', got')
         /\ legacy' = IF job.what = "legacy" THEN <<>> ELSE legacy
         /\ \A d \in Chunks : got'[d] = IF job.what = "group" /\ d = job.chunk THEN {} ELSE got[d]
         /\ Len(order') <= Len(order)
<1>1. /\ legacy \in Seq(Legacy) /\ order \in Seq(Chunks) /\ got \in [Chunks -> SUBSET Nat] /\ old \subseteq Chunks
      /\ BuffersOK(legacy, order, got) /\ Len(order) \in Nat
  BY DEF Shape, ChTypeOK
<1>2. job.what \in {"legacy", "group", "one"} /\ (job.what = "group" => job.chunk \in Chunks)
  BY AtInsert
<1>3. CASE job.what = "legacy"
  <2>1. legacy' = <<>> /\ order' = order /\ got' = got /\ old' = old
    BY <1>3 DEF Cleared
  <2>2. BuffersOK(<<>>, order, got)
    BY <1>1, EmptyOK DEF BuffersOK
  <2>. QED BY <1>1, <1>3, <2>1, <2>2, EmptyOK
<1>4. CASE job.what = "group"
  <2>1. RemovePendingGroup(job.chunk)
    BY <1>4 DEF Cleared
  <2>2. PICK c \in Chunks : c = job.chunk
    BY <1>2, <1>4
  <2>3. RemovePendingGroup(c)
    BY <2>1, <2>2
  <2>. QED BY <1>1, <1>4, <2>2, <2>3, RemoveOK
<1>5. CASE job.what = "one"
  <2>1. legacy' = legacy /\ order' = order /\ got' = got /\ old' = old
    BY <1>5 DEF Cleared, buffers
  <2>. QED BY <1>1, <1>5, <2>1
<1>. QED BY <1>2, <1>3, <1>4, <1>5

\* Where a call goes on that has written what was in its way.
LEMMA ResumeOK ==
  ASSUME Shape, job.at \in {"insert", "best"}, Resume
  PROVE  \/ Leave("ok") /\ job.placed
         \/ /\ job' \in JobType /\ job'.by = job.by /\ job'.ev = job.ev /\ ~ job.placed /\ ~ job'.placed
            /\ job'.at \in {"send", "flush", "groups"} /\ UNCHANGED result /\ job'.what = "none"
            /\ JobOK(job', legacy', order', got')
<1>1. /\ job \in JobType /\ result \in ResultType /\ job.by # "none"
      /\ job.by # "caller" => job.ev = None /\ ~ job.placed
  BY AtInsert
<1>2. CASE job.placed
  BY <1>2 DEF Resume
<1>3. CASE ~ job.placed
  <2> DEFINE at == IF job.by = "caller" /\ job.ev # None THEN "send"
                           ELSE IF job.what = "legacy" THEN "flush" ELSE "groups"
  <2>1. /\ job' = [job EXCEPT !.what = "none", !.chunk = None, !.recs = <<>>, !.left = <<>>, !.at = at]
        /\ UNCHANGED result
    BY <1>3 DEF Resume
  <2>2. at \in {"send", "flush", "groups"} /\ (at = "send" => job.by = "caller" /\ job.ev # None)
    OBVIOUS
  <2> HIDE DEF at
  <2>3. <<>> \in Seq(Events) /\ <<>> \in Seq(Tables)
    OBVIOUS
  <2> DEFINE j == [job EXCEPT !.what = "none", !.chunk = None, !.recs = <<>>, !.left = <<>>, !.at = at]
  <2>4. j \in JobType /\ j.by = job.by /\ j.ev = job.ev /\ j.placed = job.placed /\ j.what = "none" /\ j.at = at
    BY <1>1, <2>2, <2>3 DEF JobType
  <2>5. job' = j
    BY <2>1
  <2> HIDE DEF j
  <2>6. at = "send" => job.ev \in Events
    BY <1>1, <2>2 DEF JobType
  <2>7. JobOK(j, legacy', order', got')
    BY <1>1, <1>3, <2>2, <2>4, <2>6 DEF JobOK
  <2>. QED BY <1>3, <2>1, <2>2, <2>4, <2>5, <2>7
<1>. QED BY <1>2, <1>3

LEMMA WrittenOK ==
  ASSUME Shape, job.at \in {"insert", "best"}, Written
  PROVE  Shape'
<1>1. job \in JobType /\ result \in ResultType
  BY AtInsert
<1>2. /\ legacy' \in Seq(Legacy) /\ order' \in Seq(Chunks) /\ got' \in [Chunks -> SUBSET Nat] /\ old' \subseteq Chunks
      /\ BuffersOK(legacy', order', got')
  BY ClearedOK DEF Written
<1>3. CASE Leave("ok")
  BY <1>1, <1>2, <1>3, LeaveOK DEF Shape, ChTypeOK
<1>4. CASE ~ Leave("ok")
  <2>1. Resume
    BY <1>4 DEF Written
  <2>. QED BY <1>1, <1>2, <1>4, <2>1, ResumeOK DEF Shape, ChTypeOK
<1>. QED BY <1>3, <1>4

LEMMA ThrowOK ==
  ASSUME Shape, Throw
  PROVE  Shape'
<1>1. job \in JobType /\ result \in ResultType /\ UNCHANGED <<legacy, order, got, old>> /\ Leave("failed")
  BY DEF Shape, ChTypeOK, Throw, buffers
<1>. QED BY <1>1, LeaveOK DEF Shape, ChTypeOK


LEMMA FlushOK ==
  ASSUME Shape, Flush \/ FlushNextGroup \/ FlushEnds
  PROVE  /\ Shape' /\ UNCHANGED buffers /\ job'.at # "best"
         /\ \/ Leave("ok") /\ job.at = "groups"
            \/ job'.by = job.by /\ job'.ev = job.ev /\ ~ job'.placed /\ UNCHANGED result
               /\ (job'.at = "insert" => job'.left = TablesOf(job'.recs))
<1>1. /\ job \in JobType /\ result \in ResultType /\ JobOK(job, legacy, order, got) /\ order \in Seq(Chunks)
      /\ job.at \in {"flush", "groups"} /\ ~ job.placed /\ job.what = "none" /\ job.by # "none"
  BY NoJobOK DEF Shape, ChTypeOK, JobOK, Flush, FlushNextGroup, FlushEnds
<1>2. UNCHANGED buffers
  BY DEF Flush, FlushNextGroup, FlushEnds
<1>3. SUFFICES /\ job' \in JobType /\ result' \in ResultType /\ JobOK(job', legacy, order, got) /\ job'.at # "best"
               /\ \/ Leave("ok") /\ job.at = "groups"
                  \/ job'.by = job.by /\ job'.ev = job.ev /\ ~ job'.placed /\ UNCHANGED result
                     /\ (job'.at = "insert" => job'.left = TablesOf(job'.recs))
  BY <1>2 DEF Shape, ChTypeOK, buffers
<1>4. CASE Flush /\ legacy # <<>>
  <2>1. job' = FlushLegacy /\ UNCHANGED result
    BY <1>4 DEF Flush
  <2>2. /\ job' \in JobType /\ job'.by = job.by /\ job'.ev = job.ev /\ ~ job'.placed
        /\ job'.at = "insert" /\ Writes(job', legacy, got) /\ job'.left # <<>> /\ job'.left = TablesOf(job'.recs)
    BY <1>1, <2>1, FlushLegacyOK
  <2>3. JobOK(job', legacy, order, got)
    <3>1. PICK j \in JobType : j = job'
      BY <2>2
    <3>2. JobOK(j, legacy, order, got)
      BY <1>1, <2>2, <3>1, BegunOK
    <3>. QED BY <3>1, <3>2
  <2>. QED BY <1>1, <2>1, <2>2, <2>3
<1>5. CASE Flush /\ legacy = <<>>
  <2> DEFINE todo == IF job.by = "close" THEN order ELSE Those(order, old)
  <2>1. todo \in Seq(Chunks)
    BY <1>1, ThoseOK
  <2>2. job' = [job EXCEPT !.at = "groups", !.todo = todo] /\ UNCHANGED result
    BY <1>5 DEF Flush
  <2> HIDE DEF todo
  <2>3. PICK j \in JobType : j = job
    BY <1>1
  <2> DEFINE d == [j EXCEPT !.at = "groups", !.todo = todo]
  <2>4. d \in JobType /\ d.by = j.by /\ d.ev = j.ev /\ d.placed = j.placed /\ d.at = "groups" /\ d.what = j.what
    BY <2>1 DEF JobType
  <2>5. job' = d
    BY <2>2, <2>3
  <2> HIDE DEF d
  <2>6. JobOK(d, legacy, order, got)
    BY <1>1, <2>3, <2>4 DEF JobOK
  <2>. QED BY <1>1, <2>2, <2>3, <2>4, <2>5, <2>6
<1>6. CASE FlushNextGroup
  <2>1. /\ job.at = "groups" /\ job.todo # <<>> /\ UNCHANGED result
        /\ job' = [FlushChunkGroup(Head(job.todo)) EXCEPT !.todo = Tail(@)]
    BY <1>6 DEF FlushNextGroup
  <2>2. job.todo \in Seq(Chunks)
    BY <1>1 DEF JobType
  <2>3. PICK c \in Chunks : c = Head(job.todo)
    BY <2>1, <2>2, Ends
  <2> DEFINE j == FlushChunkGroup(c)
             rest == Tail(j.todo)
  <2>4. /\ j \in JobType /\ j.by = job.by /\ j.ev = job.ev /\ ~ j.placed /\ j.todo = job.todo
        /\ j.what = "group" /\ j.chunk = c /\ j.recs = InSequenceOrder(c, got[c])
        /\ \/ j.at = "insert" /\ Writes(j, legacy, got) /\ j.left # <<>> /\ j.left = TablesOf(j.recs)
           \/ j.at = "dlq" /\ SetsAside(j, got)
    BY <1>1, FlushChunkGroupOK
  <2>5. job' = [j EXCEPT !.todo = rest]
    BY <2>1, <2>3
  <2> HIDE DEF j
  <2>6. rest \in Seq(Chunks)
    BY <2>1, <2>2, <2>4, Ends
  <2> HIDE DEF rest
  <2> DEFINE d == [j EXCEPT !.todo = rest]
  <2>7. /\ d \in JobType /\ d.by = j.by /\ d.ev = j.ev /\ d.placed = j.placed /\ d.at = j.at /\ d.what = j.what
        /\ d.chunk = j.chunk /\ d.recs = j.recs /\ d.left = j.left
    BY <2>4, <2>6 DEF JobType
  <2>8. job' = d
    BY <2>5
  <2> HIDE DEF d
  <2>9. \/ d.at = "insert" /\ Writes(d, legacy, got) /\ d.left # <<>> /\ d.left = TablesOf(d.recs)
        \/ d.at = "dlq" /\ SetsAside(d, got)
    BY <2>4, <2>7 DEF Writes, SetsAside
  <2>10. JobOK(d, legacy, order, got)
    BY <1>1, <2>4, <2>7, <2>9, BegunOK
  <2>. QED BY <1>1, <2>1, <2>4, <2>7, <2>8, <2>9, <2>10
<1>7. CASE FlushEnds
  <2>1. Leave("ok") /\ job.at = "groups"
    BY <1>7 DEF FlushEnds
  <2>2. job' = NoJob /\ result' \in ResultType
    BY <1>1, <2>1, LeaveOK
  <2>. QED BY <2>1, <2>2, NoJobOK
<1>. QED BY <1>4, <1>5, <1>6, <1>7

\* One table more is done.
LEMMA NextTableOK ==
  ASSUME Shape, job.at \in {"insert", "best"}, Len(job.left) # 1, job' = [job EXCEPT !.left = Tail(@)],
         UNCHANGED <<buffers, result>>
  PROVE  /\ Shape' /\ job'.at = "insert" /\ job.at = "insert" /\ job'.by = job.by /\ job'.ev = job.ev /\ job'.recs = job.recs
         /\ job'.chunk = job.chunk /\ job'.what = job.what /\ job'.placed = job.placed
         /\ Range(job.left) = {Head(job.left)} \cup Range(job'.left)
<1>1. /\ job \in JobType /\ result \in ResultType /\ job.left # <<>> /\ JobOK(job, legacy, order, got)
  BY AtInsert DEF Shape
<1>2. job.left \in Seq(Tables)
  BY <1>1 DEF JobType
<1>3. job.at = "insert"
  <2>1. SUFFICES ASSUME job.at = "best" PROVE FALSE
    OBVIOUS
  <2>2. job.left = <<"raw">>
    BY <1>1, <2>1 DEF JobOK, SetsAside
  <2>. QED BY <2>2
<1> DEFINE rest == Tail(job.left)
<1>4. rest \in Seq(Tables) /\ rest # <<>> /\ Range(job.left) = {Head(job.left)} \cup Range(rest)
  BY <1>1, <1>2, Ends
<1>5. job' = [job EXCEPT !.left = rest]
  OBVIOUS
<1> HIDE DEF rest
<1> DEFINE d == [job EXCEPT !.left = rest]
<1>6. /\ d \in JobType /\ d.by = job.by /\ d.ev = job.ev /\ d.placed = job.placed /\ d.at = job.at /\ d.what = job.what
      /\ d.chunk = job.chunk /\ d.recs = job.recs /\ d.left = rest
  BY <1>1, <1>4 DEF JobType
<1>7. job' = d
  BY <1>5
<1> HIDE DEF d
<1>8. Writes(d, legacy, got)
  BY <1>1, <1>3, <1>6 DEF JobOK, Writes
<1>9. JobOK(d, legacy, order, got)
  BY <1>1, <1>3, <1>4, <1>6, <1>8, NoJobOK DEF JobOK
<1>10. Shape'
  BY <1>6, <1>7, <1>9 DEF Shape, ChTypeOK, buffers
<1>. QED BY <1>3, <1>4, <1>6, <1>7, <1>10

LEMMA PersistedOK ==
  ASSUME Shape, Persist
  PROVE  /\ Shape' /\ job'.at = "best" /\ job'.by = job.by /\ job'.ev = job.ev /\ job'.recs = job.recs
         /\ job'.chunk = job.chunk /\ job'.what = job.what /\ ~ job'.placed
<1>1. /\ job \in JobType /\ result \in ResultType /\ JobOK(job, legacy, order, got) /\ job.at = "dlq"
      /\ UNCHANGED <<buffers, result>> /\ job' = [job EXCEPT !.at = "best"]
  BY DEF Persist, Shape, ChTypeOK
<1> DEFINE d == [job EXCEPT !.at = "best"]
<1>2. /\ d \in JobType /\ d.by = job.by /\ d.ev = job.ev /\ d.placed = job.placed /\ d.at = "best" /\ d.what = job.what
      /\ d.chunk = job.chunk /\ d.recs = job.recs /\ d.left = job.left
  BY <1>1 DEF JobType
<1>3. job' = d
  BY <1>1
<1> HIDE DEF d
<1>4. SetsAside(d, got)
  BY <1>1, <1>2 DEF JobOK, SetsAside
<1>5. JobOK(d, legacy, order, got)
  BY <1>1, <1>2, <1>4, NoJobOK DEF JobOK, SetsAside
<1>6. Shape'
  BY <1>1, <1>2, <1>3, <1>5 DEF Shape, ChTypeOK, buffers
<1>. QED BY <1>2, <1>3, <1>4, <1>6 DEF SetsAside

LEMMA EnterOK ==
  ASSUME Shape, NEW by \in {"caller", "close", "flusher"}, NEW at \in {"send", "flush"}, NEW e \in Events \cup {None},
         Enter(by, at, e), UNCHANGED buffers, result' \in ResultType,
         by # "caller" => e = None, at = "send" => by = "caller" /\ e # None
  PROVE  Shape' /\ job' \in JobType /\ job'.by = by /\ job'.at = at /\ job'.ev = e /\ ~ job'.placed /\ job = NoJob
<1>1. job' = [NoJob EXCEPT !.by = by, !.at = at, !.ev = e] /\ job.by = "none"
  BY DEF Enter
<1>2. PICK n \in JobType : n = NoJob /\ n.placed = FALSE /\ n.what = "none"
  BY NoJobOK
<1> DEFINE d == [n EXCEPT !.by = by, !.at = at, !.ev = e]
<1>3. d \in JobType /\ d.by = by /\ d.at = at /\ d.ev = e /\ d.placed = FALSE /\ d.what = "none"
  BY <1>2 DEF JobType
<1>4. job' = d
  BY <1>1, <1>2
<1> HIDE DEF d
<1>5. JobOK(d, legacy, order, got)
  BY <1>3 DEF JobOK
<1>6. Shape'
  BY <1>3, <1>4, <1>5 DEF Shape, ChTypeOK, buffers
<1>. QED BY <1>1, <1>3, <1>4, <1>6 DEF Shape, JobOK


\* A call goes on, or it ends with an outcome.
GoesOn   == job.by # "none" /\ job'.by = job.by /\ job'.ev = job.ev /\ UNCHANGED result
EndsCall == job.by # "none" /\ \E outcome \in {"ok", "failed"} : Leave(outcome)

LEMMA InsertNextOK ==
  ASSUME Shape, InsertNext
  PROVE  Shape' /\ (GoesOn \/ EndsCall)
<1>1. Shape /\ job.at \in {"insert", "best"} /\ job.by # "none"
  BY AtInsert DEF InsertNext
<1>2. CASE Len(job.left) = 1
  <2>1. Written
    BY <1>2 DEF InsertNext
  <2>2. (job.what = "one" => Leave("ok")) /\ (job.what # "one" => Resume)
    BY <2>1 DEF Written
  <2>3. CASE Leave("ok")
    BY <1>1, <2>1, <2>3, WrittenOK DEF EndsCall
  <2>4. CASE ~ Leave("ok")
    <3>1. Resume
      BY <2>2, <2>4
    <3>2. job'.by = job.by /\ job'.ev = job.ev /\ UNCHANGED result
      BY <1>1, <2>4, <3>1, ResumeOK
    <3>. QED BY <1>1, <2>1, <3>2, WrittenOK DEF GoesOn
  <2>. QED BY <2>3, <2>4
<1>3. CASE Len(job.left) # 1
  <2>1. job' = [job EXCEPT !.left = Tail(@)] /\ UNCHANGED <<buffers, result>>
    BY <1>3 DEF InsertNext
  <2>. QED BY <1>1, <1>3, <2>1, NextTableOK DEF GoesOn
<1>. QED BY <1>2, <1>3

LEMMA RequestFailsOK ==
  ASSUME Shape, NEW lost \in BOOLEAN, RequestFails(lost)
  PROVE  Shape' /\ (GoesOn \/ EndsCall)
<1>1. Shape /\ job.at \in {"insert", "best"} /\ job.by # "none"
  BY AtInsert DEF RequestFails
<1>2. CASE job.at = "best"
  <2>1. Written
    BY <1>2 DEF RequestFails
  <2>2. (job.what = "one" => Leave("ok")) /\ (job.what # "one" => Resume)
    BY <2>1 DEF Written
  <2>3. CASE Leave("ok")
    BY <1>1, <2>1, <2>3, WrittenOK DEF EndsCall
  <2>4. CASE ~ Leave("ok")
    <3>1. Resume
      BY <2>2, <2>4
    <3>2. job'.by = job.by /\ job'.ev = job.ev /\ UNCHANGED result
      BY <1>1, <2>4, <3>1, ResumeOK
    <3>. QED BY <1>1, <2>1, <3>2, WrittenOK DEF GoesOn
  <2>. QED BY <2>3, <2>4
<1>3. CASE job.at # "best"
  <2>1. Throw
    BY <1>3 DEF RequestFails
  <2>. QED BY <1>1, <2>1, ThrowOK DEF EndsCall, Throw
<1>. QED BY <1>2, <1>3

Monitor == InMonitor \/ Failing \/ \E c \in Chunks : Age(c)

LEMMA MonitorOK ==
  ASSUME Shape, Monitor
  PROVE  Shape' /\ (GoesOn \/ EndsCall \/ UNCHANGED <<legacy, order, got, job, result>>)
<1>1. CASE Send
  <2>1. Shape' /\ (Puts(job.ev) \/ Diverts) /\ job.by # "none"
    BY <1>1, SendOK, NoJobOK DEF Send, Shape, JobOK
  <2>. QED BY <2>1 DEF Puts, Diverts, Begun, GoesOn, EndsCall
<1>2. CASE Flush \/ FlushNextGroup \/ FlushEnds
  <2>1. job.by # "none"
    BY <1>2, NoJobOK DEF Shape, JobOK, Flush, FlushNextGroup, FlushEnds
  <2>. QED BY <1>2, <2>1, FlushOK DEF GoesOn, EndsCall
<1>3. CASE InsertNext
  BY <1>3, InsertNextOK
<1>4. CASE Persist
  <2>1. job.at \in {"insert", "dlq", "best"} /\ UNCHANGED result
    BY <1>4 DEF Persist
  <2>2. job.by # "none"
    BY <2>1, AtInsert
  <2>. QED BY <1>4, <2>1, <2>2, PersistedOK DEF GoesOn
<1>5. CASE \E lost \in BOOLEAN : RequestFails(lost)
  BY <1>5, RequestFailsOK
<1>6. CASE PersistFails
  <2>1. job.at \in {"insert", "dlq", "best"} /\ Throw
    BY <1>6 DEF PersistFails
  <2>2. job.by # "none"
    BY <2>1, AtInsert
  <2>. QED BY <2>1, <2>2, ThrowOK DEF Throw, EndsCall
<1>7. CASE \E c \in Chunks : Age(c)
  <2>1. UNCHANGED <<legacy, order, got, job, result>> /\ old' \subseteq Chunks
    BY <1>7 DEF Age, Shape, ChTypeOK
  <2>. QED BY <2>1 DEF Shape, ChTypeOK
<1>. QED BY <1>1, <1>2, <1>3, <1>4, <1>5, <1>6, <1>7 DEF Monitor, InMonitor, Failing

--------------------------------------------------------------------------------
(* What the tables hold, and what the tokens stand for                          *)

StoreTypeOK ==
  /\ dlq \in Seq(Seq(Events)) /\ pruned \subseteq Events
  /\ rows \in [Tables -> [Events -> Nat]] /\ tokens \subseteq Tokens
  /\ failures \in 0..MaxFailures

TokenOf(t, c) == [table |-> t, chunk |-> c, body |-> <<>>]

\* The token of a chunk is remembered exactly if its rows are in the canonical table,
\* once; what a token stands for is in its table.
TokensOK ==
  /\ \A t \in Range(Canonical), c \in Chunks : \A e \in MineOf(c) : t \in RowsIn[e] =>
       rows[t][e] = IF TokenOf(t, c) \in tokens THEN 1 ELSE 0
  /\ \A k \in tokens :
       IF k.chunk = None THEN \A e \in Range(k.body) : rows[k.table][e] > 0
       ELSE \A e \in MineOf(k.chunk) : HasRows(e, k.table) => rows[k.table][e] > 0

\* A write has put its records into the tables it has left behind.
WrittenSoFar ==
  job.at = "insert" =>
    \A t \in Tables \ Range(job.left), e \in Range(job.recs) : HasRows(e, t) => rows[t][e] > 0

LEMMA CanonicalOK == Range(Canonical) \subseteq Tables /\ "raw" \in Tables /\ "raw" \notin Range(Canonical)
<1>1. Range(Canonical) = {"metric", "state", "event"}
  <2>1. Canonical[1] = "metric" /\ Canonical[2] = "state" /\ Canonical[3] = "event" /\ DOMAIN Canonical = 1..3
    BY DEF Canonical
  <2>2. \A i : i \in 1..3 <=> i = 1 \/ i = 2 \/ i = 3
    OBVIOUS
  <2>. QED BY <2>1, <2>2 DEF Range
<1>. QED BY <1>1 DEF Tables

\* How often a sequence holds an event.
LEMMA CountOK ==
  ASSUME NEW r \in Seq(Events), NEW e \in Events
  PROVE  LET n == Cardinality({i \in DOMAIN r : r[i] = e}) IN
         /\ n \in Nat /\ (e \notin Range(r) => n = 0) /\ (e \in Range(r) => n > 0)
         /\ e \in Range(r) /\ Distinct(r) => n = 1
<1> DEFINE S == {i \in DOMAIN r : r[i] = e}
<1>1. DOMAIN r = 1..Len(r) /\ Len(r) \in Nat
  OBVIOUS
<1>2. IsFiniteSet(1..Len(r)) /\ S \in SUBSET (1..Len(r))
  BY <1>1, IntervalOK
<1>3. IsFiniteSet(S)
  BY <1>2, FS_Subset
<1>4. Cardinality(S) \in Nat /\ (Cardinality(S) = 0 <=> S = {})
  BY <1>3, FS_CardinalityType, FS_EmptySet
<1>5. S = {} <=> e \notin Range(r)
  BY DEF Range
<1>6. e \in Range(r) /\ Distinct(r) => Cardinality(S) = 1
  <2>1. SUFFICES ASSUME e \in Range(r), Distinct(r) PROVE Cardinality(S) = 1
    OBVIOUS
  <2>2. PICK i \in 1..Len(r) : r[i] = e
    BY <1>1, <2>1 DEF Range
  <2>3. S = {i}
    BY <1>1, <2>1, <2>2 DEF Distinct
  <2>. QED BY <2>3, FS_Singleton
<1>. QED BY <1>4, <1>5, <1>6

\* What a call writes or sets aside.
LEMMA RecsOK ==
  ASSUME Shape, job.at \in {"insert", "dlq", "best"}
  PROVE  /\ job.recs \in Seq(Events) /\ (job.chunk # None => Distinct(job.recs))
         /\ job.at = "insert" /\ job.chunk # None => job.chunk \in Chunks /\ Range(job.recs) = MineOf(job.chunk)
         /\ job.at = "insert" /\ job.chunk = None => Range(job.recs) \subseteq Legacy
         /\ job.at = "best" => Head(job.left) = "raw"
         /\ job.what = "legacy" => job.recs = legacy /\ job.at = "insert"
         /\ job.what = "group" => Range(job.recs) = {job.chunk} \X got[job.chunk]
         /\ job.what = "one" => job.by = "caller" /\ job.recs = <<job.ev>> /\ Range(job.recs) = {job.ev} /\ job.ev \in Events
         /\ Head(job.left) \in Tables
<1>1. /\ job \in JobType /\ JobOK(job, legacy, order, got) /\ BuffersOK(legacy, order, got) /\ legacy \in Seq(Legacy)
      /\ job.left # <<>>
  BY AtInsert DEF Shape, ChTypeOK
<1>2. job.recs \in Seq(Events) /\ job.left \in Seq(Tables)
  BY <1>1 DEF JobType
<1>3. \A e \in Events : <<e>> \in Seq(Events) /\ Range(<<e>>) = {e} /\ Distinct(<<e>>)
  <2>1. \A e \in Events : <<e>> \in Seq(Events) /\ Range(<<e>>) = {e} /\ Len(<<e>>) = 1
    BY SingleOK
  <2>. QED BY <2>1 DEF Distinct
<1>4. Head(job.left) \in Tables
  BY <1>1, <1>2, Ends
<1>5. \A c \in Chunks : MineOf(c) \subseteq Events /\ got[c] \subseteq 1..Items[c]
  BY <1>1, ChunkEvent DEF BuffersOK
<1>6. CASE job.at = "insert"
  <2>1. Writes(job, legacy, got)
    BY <1>1, <1>6 DEF JobOK
  <2>2. CASE job.what = "legacy"
    BY <1>1, <1>2, <1>4, <1>6, <2>1, <2>2 DEF Writes, BuffersOK
  <2>3. CASE job.what = "group"
    <3>1. PICK c \in Chunks : c = job.chunk /\ got[c] = 1..Items[c] /\ job.recs = InSequenceOrder(c, got[c])
      BY <2>1, <2>3 DEF Writes
    <3>2. Range(job.recs) = {c} \X got[c] /\ Distinct(job.recs)
      <4>1. got[c] \subseteq 1..Items[c]
        BY <1>5
      <4>2. Range(InSequenceOrder(c, got[c])) = {c} \X got[c] /\ Distinct(InSequenceOrder(c, got[c]))
        BY <4>1, SequenceOK
      <4>. QED BY <3>1, <4>2
    <3>3. Range(job.recs) = MineOf(c)
      BY <3>1, <3>2 DEF MineOf
    <3>. QED BY <1>2, <1>4, <1>6, <2>3, <3>1, <3>2, <3>3, NoneIsNothing
  <2>4. CASE job.what = "one"
    <3>1. job.by = "caller" /\ job.ev \in Events /\ job.recs = <<job.ev>>
      BY <2>1, <2>4 DEF Writes
    <3>2. Range(job.recs) = {job.ev} /\ Distinct(job.recs)
      BY <1>3, <3>1
    <3>3. CASE job.chunk = None
      <4>1. job.ev \in Legacy
        BY <2>1, <2>4, <3>3, NoneIsNothing DEF Writes
      <4>. QED BY <1>2, <1>4, <1>6, <2>4, <3>1, <3>2, <3>3, <4>1
    <3>4. CASE job.chunk # None
      <4>1. job.chunk \in Chunks /\ Items[job.chunk] = 1 /\ job.ev \in MineOf(job.chunk)
        BY <2>1, <2>4, <3>4 DEF Writes
      <4>2. MineOf(job.chunk) = {job.ev}
        BY <4>1 DEF MineOf
      <4>. QED BY <1>2, <1>4, <1>6, <2>4, <3>1, <3>2, <3>4, <4>1, <4>2
    <3>. QED BY <3>3, <3>4
  <2>. QED BY <2>1, <2>2, <2>3, <2>4 DEF Writes
<1>7. CASE job.at \in {"dlq", "best"}
  <2>1. SetsAside(job, got)
    BY <1>1, <1>7 DEF JobOK
  <2>2. Head(<<"raw">>) = "raw"
    OBVIOUS
  <2>3. job.chunk \in Chunks /\ job.left = <<"raw">> /\ job.chunk # None
    BY <2>1, NoneIsNothing DEF SetsAside
  <2>4. CASE job.what = "group"
    <3>1. PICK c \in Chunks : c = job.chunk /\ job.recs = InSequenceOrder(c, got[c])
      BY <2>1, <2>4 DEF SetsAside
    <3>2. Range(job.recs) = {c} \X got[c] /\ Distinct(job.recs)
      <4>1. got[c] \subseteq 1..Items[c]
        BY <1>5
      <4>2. Range(InSequenceOrder(c, got[c])) = {c} \X got[c] /\ Distinct(InSequenceOrder(c, got[c]))
        BY <4>1, SequenceOK
      <4>. QED BY <3>1, <4>2
    <3>. QED BY <1>2, <1>4, <1>7, <2>2, <2>3, <2>4, <3>1, <3>2
  <2>5. CASE job.what = "one"
    <3>1. job.by = "caller" /\ job.ev \in Events /\ job.recs = <<job.ev>>
      BY <2>1, <2>5, ChunkEvent DEF SetsAside
    <3>2. Range(job.recs) = {job.ev} /\ Distinct(job.recs)
      BY <1>3, <3>1
    <3>. QED BY <1>2, <1>4, <1>7, <2>2, <2>3, <2>5, <3>1, <3>2
  <2>. QED BY <2>1, <2>4, <2>5 DEF SetsAside
<1>. QED BY <1>6, <1>7

LEMMA RecordsForOK ==
  ASSUME job.recs \in Seq(Events), NEW t
  PROVE  /\ RecordsFor(t) \in Seq(Events)
         /\ Range(RecordsFor(t)) = {e \in Range(job.recs) : HasRows(e, t)}
         /\ Distinct(job.recs) => Distinct(RecordsFor(t))
<1> DEFINE S == {e \in Events : HasRows(e, t)}
<1>1. RecordsFor(t) = Those(job.recs, S)
  BY DEF RecordsFor
<1>2. Range(job.recs) \subseteq Events
  BY RangeOK
<1>3. Range(job.recs) \cap S = {e \in Range(job.recs) : HasRows(e, t)}
  BY <1>2
<1> HIDE DEF S
<1>4. Those(job.recs, S) \in Seq(Events) /\ Range(Those(job.recs, S)) = Range(job.recs) \cap S
  BY ThoseOK
<1>5. Distinct(job.recs) => Distinct(Those(job.recs, S))
  BY ThoseOK DEF Distinct
<1>. QED BY <1>1, <1>3, <1>4, <1>5


\* A request that ClickHouse applies.
LEMMA InsertOK ==
  ASSUME Shape, StoreTypeOK, job.at \in {"insert", "best"}, NEW t \in Tables, Insert(t)
  PROVE  /\ rows' \in [Tables -> [Events -> Nat]] /\ tokens' \subseteq Tokens
         /\ tokens' = tokens \cup {DeduplicationToken(t)}
         /\ \A u \in Tables, e \in Events : rows'[u][e] >= rows[u][e]
         /\ \A u \in Tables, e \in Events : u # t \/ e \notin Range(job.recs) => rows'[u][e] = rows[u][e]
         /\ DeduplicationToken(t) \in tokens => rows' = rows
         /\ DeduplicationToken(t) \notin tokens =>
              \A e \in Range(job.recs) : HasRows(e, t) =>
                rows'[t][e] > 0 /\ (job.chunk # None => rows'[t][e] = rows[t][e] + 1)
<1> DEFINE recs == RecordsFor(t)
           Count(e) == Cardinality({i \in DOMAIN recs : recs[i] = e})
           token == DeduplicationToken(t)
           row == [e \in Events |-> rows[t][e] + Count(e)]
<1>1. /\ job \in JobType /\ job.recs \in Seq(Events) /\ (job.chunk # None => Distinct(job.recs))
      /\ Range(job.recs) \subseteq Events
  BY RecsOK, RangeOK DEF Shape, ChTypeOK
<1>2. /\ recs \in Seq(Events) /\ Range(recs) = {e \in Range(job.recs) : HasRows(e, t)}
      /\ (job.chunk # None => Distinct(recs))
  BY <1>1, RecordsForOK
<1>3. tokens' = tokens \cup {token} /\ rows' = IF token \in tokens THEN rows ELSE [rows EXCEPT ![t] = row]
  BY DEF Insert
<1>4. token \in Tokens
  <2>1. job.at = "insert" /\ job.chunk # None => job.chunk \in Chunks /\ <<>> \in Seq(Events)
    BY RecsOK
  <2>2. None \in Chunks \cup {None}
    OBVIOUS
  <2>3. CASE job.at = "insert" /\ job.chunk # None
    BY <2>1, <2>3 DEF DeduplicationToken, Tokens
  <2>4. CASE ~ (job.at = "insert" /\ job.chunk # None)
    BY <1>2, <2>2, <2>4 DEF DeduplicationToken, Tokens
  <2>. QED BY <2>3, <2>4
<1>5. ASSUME NEW e \in Events
      PROVE  /\ Count(e) \in Nat /\ (e \notin Range(recs) => Count(e) = 0) /\ (e \in Range(recs) => Count(e) > 0)
             /\ e \in Range(recs) /\ Distinct(recs) => Count(e) = 1
  <2> HIDE DEF recs
  <2>. QED BY <1>2, CountOK
<1> HIDE DEF Count, token
<1>6. rows \in [Tables -> [Events -> Nat]] /\ tokens \subseteq Tokens
  BY DEF StoreTypeOK
<1>7. row \in [Events -> Nat] /\ \A e \in Events : row[e] = rows[t][e] + Count(e)
  BY <1>5, <1>6
<1> HIDE DEF row, recs
<1>8. CASE token \in tokens
  <2>1. rows' = rows
    BY <1>3, <1>8
  <2>2. \A u \in Tables, e \in Events : rows[u][e] >= rows[u][e]
    BY <1>6
  <2>. QED BY <1>3, <1>4, <1>6, <1>8, <2>1, <2>2 DEF token
<1>9. CASE token \notin tokens
  <2>1. rows' = [rows EXCEPT ![t] = row]
    BY <1>3, <1>9
  <2>2. rows' \in [Tables -> [Events -> Nat]] /\ rows'[t] = row /\ \A u \in Tables : u # t => rows'[u] = rows[u]
    BY <1>6, <1>7, <2>1
  <2>3. ASSUME NEW u \in Tables, NEW e \in Events
        PROVE  rows'[u][e] >= rows[u][e] /\ (u # t \/ e \notin Range(job.recs) => rows'[u][e] = rows[u][e])
    <3>1. rows[u][e] \in Nat
      BY <1>6
    <3>2. CASE u # t
      BY <2>2, <3>1, <3>2
    <3>3. CASE u = t
      BY <1>2, <1>5, <1>7, <2>2, <3>1, <3>3
    <3>. QED BY <3>2, <3>3
  <2>4. ASSUME NEW e \in Range(job.recs), HasRows(e, t)
        PROVE  rows'[t][e] > 0 /\ (job.chunk # None => rows'[t][e] = rows[t][e] + 1)
    <3>1. e \in Events /\ e \in Range(recs) /\ rows[t][e] \in Nat
      BY <1>1, <1>2, <1>6, <2>4
    <3>2. rows'[t][e] = rows[t][e] + Count(e)
      BY <1>7, <2>2, <3>1
    <3>. QED BY <1>2, <1>5, <3>1, <3>2
  <2>. QED BY <1>3, <1>4, <1>6, <1>9, <2>2, <2>3, <2>4 DEF token
<1>. QED BY <1>8, <1>9

LEMMA TokenIs ==
  ASSUME NEW t, NEW c, NEW u, NEW d, TokenOf(t, c) = TokenOf(u, d)
  PROVE  t = u /\ c = d
<1>1. TokenOf(t, c).table = t /\ TokenOf(t, c).chunk = c /\ TokenOf(u, d).table = u /\ TokenOf(u, d).chunk = d
  BY DEF TokenOf
<1>. QED BY <1>1

\* A request that is applied keeps the tokens true, and its table has the records.
LEMMA InsertTokens ==
  ASSUME Shape, StoreTypeOK, TokensOK, job.at \in {"insert", "best"}, NEW t \in Tables, Insert(t),
         job.at = "best" => t = "raw"
  PROVE  /\ TokensOK'
         /\ \A e \in Range(job.recs) : HasRows(e, t) => rows'[t][e] > 0
<1> DEFINE token == DeduplicationToken(t)
<1>1. /\ rows' \in [Tables -> [Events -> Nat]] /\ tokens' \subseteq Tokens /\ tokens' = tokens \cup {token}
      /\ \A u \in Tables, e \in Events : rows'[u][e] >= rows[u][e]
      /\ \A u \in Tables, e \in Events : u # t \/ e \notin Range(job.recs) => rows'[u][e] = rows[u][e]
      /\ token \in tokens => rows' = rows
      /\ token \notin tokens =>
              \A e \in Range(job.recs) : HasRows(e, t) =>
                rows'[t][e] > 0 /\ (job.chunk # None => rows'[t][e] = rows[t][e] + 1)
  BY InsertOK
<1>2. /\ job.recs \in Seq(Events) /\ Range(job.recs) \subseteq Events
      /\ job.at = "insert" /\ job.chunk # None => job.chunk \in Chunks /\ Range(job.recs) = MineOf(job.chunk)
      /\ job.at = "insert" /\ job.chunk = None => Range(job.recs) \subseteq Legacy
  BY RecsOK, RangeOK
<1>3. Range(RecordsFor(t)) = {e \in Range(job.recs) : HasRows(e, t)}
  BY <1>2, RecordsForOK
<1>4. rows \in [Tables -> [Events -> Nat]] /\ tokens \subseteq Tokens
  BY DEF StoreTypeOK
<1>5. \/ /\ job.at = "insert" /\ job.chunk # None /\ token = TokenOf(t, job.chunk)
      \/ /\ ~ (job.at = "insert" /\ job.chunk # None)
         /\ token = [table |-> t, chunk |-> None, body |-> RecordsFor(t)]
  BY DEF DeduplicationToken, TokenOf
<1> HIDE DEF token
<1>6. token.table = t
  BY <1>5 DEF TokenOf
<1>7. \A e \in Range(job.recs) : HasRows(e, t) => rows'[t][e] > 0
  <2>1. CASE token \notin tokens
    BY <1>1, <2>1
  <2>2. CASE token \in tokens
    <3>1. rows' = rows
      BY <1>1, <2>2
    <3>2. CASE job.at = "insert" /\ job.chunk # None
      <4>1. token.chunk = job.chunk /\ token.chunk # None
        BY <1>5, <3>2 DEF TokenOf
      <4>. QED BY <1>2, <1>6, <2>2, <3>1, <3>2, <4>1 DEF TokensOK
    <3>3. CASE ~ (job.at = "insert" /\ job.chunk # None)
      <4>1. token.chunk = None /\ token.body = RecordsFor(t)
        BY <1>5, <3>3
      <4>. QED BY <1>3, <1>6, <2>2, <3>1, <4>1 DEF TokensOK
    <3>. QED BY <3>2, <3>3
  <2>. QED BY <2>1, <2>2
<1>8. ASSUME NEW u \in Range(Canonical), NEW c \in Chunks, NEW e \in MineOf(c), u \in RowsIn[e]
      PROVE  rows'[u][e] = IF TokenOf(u, c) \in tokens' THEN 1 ELSE 0
  <2>1. /\ rows[u][e] = IF TokenOf(u, c) \in tokens THEN 1 ELSE 0
        /\ u \in Tables /\ u # "raw" /\ e \in Events /\ e \notin Legacy /\ c # None /\ HasRows(e, u)
    <3>1. rows[u][e] = IF TokenOf(u, c) \in tokens THEN 1 ELSE 0
      BY <1>8 DEF TokensOK
    <3>2. e \in ChunkEvents /\ e \in Events
      BY ChunkEvent
    <3>. QED BY <1>8, <3>1, <3>2, CanonicalOK, NoneIsNothing, ClickHouseAssumption DEF HasRows
  <2>2. CASE job.at = "insert" /\ job.chunk # None
    <3>1. token = TokenOf(t, job.chunk)
      BY <1>5, <2>2
    <3>2. CASE u = t /\ c = job.chunk
      <4>1. e \in Range(job.recs)
        BY <1>2, <2>2, <3>2
      <4>2. TokenOf(u, c) = token
        BY <3>1, <3>2
      <4>. QED BY <1>1, <2>1, <2>2, <3>2, <4>1, <4>2
    <3>3. CASE ~ (u = t /\ c = job.chunk)
      <4>1. TokenOf(u, c) # token
        BY <3>1, <3>3, TokenIs
      <4>2. u # t \/ e \notin Range(job.recs)
        <5>1. c # job.chunk => MineOf(c) \cap MineOf(job.chunk) = {}
          BY <1>2, <2>2, ChunkEvent
        <5>. QED BY <1>2, <2>2, <3>3, <5>1
      <4>. QED BY <1>1, <2>1, <4>1, <4>2
    <3>. QED BY <3>2, <3>3
  <2>3. CASE ~ (job.at = "insert" /\ job.chunk # None)
    <3>1. TokenOf(u, c) # token
      <4>1. TokenOf(u, c).chunk = c /\ token.chunk = None
        BY <1>5, <2>3 DEF TokenOf
      <4>. QED BY <2>1, <4>1
    <3>2. u # t \/ e \notin Range(job.recs)
      BY <1>2, <2>1, <2>3
    <3>. QED BY <1>1, <2>1, <3>1, <3>2
  <2>. QED BY <2>2, <2>3
<1>9. ASSUME NEW k \in tokens'
      PROVE  IF k.chunk = None THEN \A e \in Range(k.body) : rows'[k.table][e] > 0
             ELSE \A e \in MineOf(k.chunk) : HasRows(e, k.table) => rows'[k.table][e] > 0
  <2>1. CASE k \in tokens
    <3>1. k \in Tokens
      BY <1>4, <2>1
    <3>2. k.table \in Tables /\ k.body \in Seq(Events) /\ k.chunk \in Chunks \cup {None}
      BY <3>1 DEF Tokens
    <3>3. Range(k.body) \subseteq Events /\ (k.chunk # None => MineOf(k.chunk) \subseteq Events)
      BY <3>2, RangeOK, ChunkEvent
    <3>4. \A e \in Events : rows[k.table][e] > 0 => rows'[k.table][e] > 0
      <4>1. \A e \in Events : rows[k.table][e] \in Nat /\ rows'[k.table][e] \in Nat /\ rows'[k.table][e] >= rows[k.table][e]
        BY <1>1, <1>4, <3>2
      <4>. QED BY <4>1
    <3>. QED BY <2>1, <3>3, <3>4 DEF TokensOK
  <2>2. CASE k = token
    <3>1. CASE job.at = "insert" /\ job.chunk # None
      <4>1. k.chunk = job.chunk /\ k.table = t
        BY <1>5, <2>2, <3>1 DEF TokenOf
      <4>. QED BY <1>2, <1>7, <3>1, <4>1
    <3>2. CASE ~ (job.at = "insert" /\ job.chunk # None)
      <4>1. k.chunk = None /\ k.table = t /\ k.body = RecordsFor(t)
        BY <1>5, <2>2, <3>2
      <4>. QED BY <1>3, <1>7, <4>1
    <3>. QED BY <3>1, <3>2
  <2>. QED BY <1>1, <2>1, <2>2
<1>. QED BY <1>7, <1>8, <1>9 DEF TokensOK


\* Once a request is answered, and after a failed one, nothing is being inserted unless
\* there is a table more.
LEMMA NotInserting ==
  ASSUME Shape, job.at \in {"insert", "best"}, Written \/ Throw
  PROVE  job'.at \notin {"insert", "dlq", "best"}
<1>1. CASE Throw \/ (Written /\ Leave("ok"))
  BY <1>1, NoJobOK DEF Throw, Leave
<1>2. CASE Written /\ ~ Leave("ok")
  BY <1>2, ResumeOK DEF Written
<1>. QED BY <1>1, <1>2

LEMMA RequestOK ==
  ASSUME Shape, StoreTypeOK, TokensOK, job.at \in {"insert", "best"}, Insert(Head(job.left))
  PROVE  /\ rows' \in [Tables -> [Events -> Nat]] /\ tokens' \subseteq Tokens /\ TokensOK'
         /\ \A e \in Range(job.recs) : HasRows(e, Head(job.left)) => rows'[Head(job.left)][e] > 0
         /\ \A u \in Tables, e \in Events : rows'[u][e] >= rows[u][e]
<1>1. PICK t \in Tables : t = Head(job.left) /\ (job.at = "best" => t = "raw")
  BY RecsOK
<1>2. Insert(t)
  BY <1>1
<1>3. rows' \in [Tables -> [Events -> Nat]] /\ tokens' \subseteq Tokens /\ \A u \in Tables, e \in Events : rows'[u][e] >= rows[u][e]
  BY <1>2, InsertOK
<1>4. TokensOK' /\ \A e \in Range(job.recs) : HasRows(e, t) => rows'[t][e] > 0
  BY <1>1, <1>2, InsertTokens
<1>. QED BY <1>1, <1>3, <1>4

LEMMA TablesStart ==
  ASSUME job'.at = "insert", job'.left = TablesOf(job'.recs)
  PROVE  WrittenSoFar'
BY TablesOfOK DEF WrittenSoFar

LEMMA MonitorStore ==
  ASSUME Shape, StoreTypeOK, TokensOK, WrittenSoFar, Monitor
  PROVE  StoreTypeOK' /\ TokensOK' /\ WrittenSoFar'
<1> DEFINE Same == UNCHANGED durable /\ UNCHANGED failures
<1>1. Same => StoreTypeOK' /\ TokensOK'
  BY DEF durable, clickhouse, StoreTypeOK, TokensOK
<1>2. job'.at # "insert" => WrittenSoFar'
  BY DEF WrittenSoFar
<1>3. CASE Send
  <2>1. Same
    BY <1>3 DEF Send
  <2>2. job'.at = "insert" => job'.left = TablesOf(job'.recs)
    BY <1>3, SendOK, NoJobOK DEF Puts, Diverts, Begun, Leave
  <2>. QED BY <1>1, <1>2, <2>1, <2>2, TablesStart
<1>4. CASE Flush \/ FlushNextGroup \/ FlushEnds
  <2>1. Same
    BY <1>4 DEF Flush, FlushNextGroup, FlushEnds
  <2>2. job'.at = "insert" => job'.left = TablesOf(job'.recs)
    BY <1>4, FlushOK, NoJobOK DEF Leave
  <2>. QED BY <1>1, <1>2, <2>1, <2>2, TablesStart
<1>5. CASE InsertNext
  <2>1. job.at \in {"insert", "best"} /\ Insert(Head(job.left)) /\ UNCHANGED <<dlq, pruned, failures>>
    BY <1>5 DEF InsertNext
  <2>2. /\ rows' \in [Tables -> [Events -> Nat]] /\ tokens' \subseteq Tokens /\ TokensOK'
        /\ \A e \in Range(job.recs) : HasRows(e, Head(job.left)) => rows'[Head(job.left)][e] > 0
        /\ \A u \in Tables, e \in Events : rows'[u][e] >= rows[u][e]
    BY <2>1, RequestOK
  <2>3. StoreTypeOK'
    BY <2>1, <2>2 DEF StoreTypeOK
  <2>4. CASE Len(job.left) = 1
    <3>1. Written
      BY <1>5, <2>4 DEF InsertNext
    <3>. QED BY <1>2, <2>1, <2>2, <2>3, <3>1, NotInserting
  <2>5. CASE Len(job.left) # 1
    <3>1. job' = [job EXCEPT !.left = Tail(@)] /\ UNCHANGED <<buffers, result>>
      BY <1>5, <2>5 DEF InsertNext
    <3>2. job.at = "insert" /\ job'.recs = job.recs /\ Range(job.left) = {Head(job.left)} \cup Range(job'.left)
      BY <2>1, <2>5, <3>1, NextTableOK
    <3>3. Range(job.recs) \subseteq Events /\ rows \in [Tables -> [Events -> Nat]]
      BY <2>1, RecsOK, RangeOK DEF StoreTypeOK
    <3>4. ASSUME NEW t \in Tables \ Range(job'.left), NEW e \in Range(job'.recs), HasRows(e, t)
          PROVE  rows'[t][e] > 0
      <4>1. CASE t = Head(job.left)
        BY <2>2, <3>2, <3>4, <4>1
      <4>2. CASE t # Head(job.left)
        <5>1. rows[t][e] > 0 /\ e \in Events
          BY <3>2, <3>3, <3>4, <4>2 DEF WrittenSoFar
        <5>2. rows[t][e] \in Nat /\ rows'[t][e] \in Nat /\ rows'[t][e] >= rows[t][e]
          BY <2>2, <3>3, <5>1
        <5>. QED BY <5>1, <5>2
      <4>. QED BY <4>1, <4>2
    <3>5. WrittenSoFar'
      BY <3>4 DEF WrittenSoFar
    <3>. QED BY <2>2, <2>3, <3>5
  <2>. QED BY <2>4, <2>5
<1>6. CASE \E lost \in BOOLEAN : RequestFails(lost)
  <2>1. PICK lost \in BOOLEAN : RequestFails(lost)
    BY <1>6
  <2>2. /\ job.at \in {"insert", "best"} /\ failures < MaxFailures /\ failures' = failures + 1 /\ UNCHANGED <<dlq, pruned>>
        /\ Insert(Head(job.left)) \/ UNCHANGED clickhouse
        /\ Written \/ Throw
    BY <2>1 DEF RequestFails
  <2>3. failures' \in 0..MaxFailures
    BY <2>2, ClickHouseAssumption DEF StoreTypeOK
  <2>4. CASE Insert(Head(job.left))
    BY <1>2, <2>2, <2>3, <2>4, RequestOK, NotInserting DEF StoreTypeOK
  <2>5. CASE UNCHANGED clickhouse
    <3>1. UNCHANGED <<rows, tokens>>
      BY <2>5 DEF clickhouse
    <3>2. StoreTypeOK' /\ TokensOK'
      BY <2>2, <2>3, <3>1 DEF StoreTypeOK, TokensOK
    <3>. QED BY <1>2, <2>2, <3>2, NotInserting
  <2>. QED BY <2>2, <2>4, <2>5
<1>7. CASE Persist
  <2>1. /\ job.at \in {"insert", "dlq", "best"} /\ UNCHANGED <<rows, tokens, failures>>
    BY <1>7 DEF Persist, clickhouse
  <2>2. job.recs \in Seq(Events) /\ Range(job.recs) \subseteq Events
    BY <2>1, RecsOK, RangeOK
  <2>3. dlq' \in Seq(Seq(Events)) /\ pruned' \subseteq Events
    <3>1. dlq \in Seq(Seq(Events)) /\ pruned \subseteq Events
      BY DEF StoreTypeOK
    <3>2. Len(dlq) >= MaxDlqRecords => dlq # <<>>
      BY <3>1, ClickHouseAssumption, EmptyOK
    <3> DEFINE room == IF Len(dlq) < MaxDlqRecords THEN dlq ELSE Tail(dlq)
    <3>3. dlq' = Append(room, job.recs) /\ pruned' = pruned \cup (IF room = dlq THEN {} ELSE Range(Head(dlq)))
      BY <1>7 DEF Persist
    <3>4. room \in Seq(Seq(Events)) /\ (room # dlq => dlq # <<>>)
      BY <3>1, <3>2, Ends, ClickHouseAssumption
    <3>5. dlq # <<>> => Range(Head(dlq)) \subseteq Events
      BY <3>1, Ends, RangeOK
    <3> HIDE DEF room
    <3>. QED BY <2>2, <3>1, <3>3, <3>4, <3>5, AppendOK
  <2>4. TokensOK' /\ StoreTypeOK'
    BY <2>1, <2>3 DEF TokensOK, StoreTypeOK
  <2>5. job'.at # "insert"
    BY <1>7, PersistedOK
  <2>. QED BY <1>2, <2>4, <2>5
<1>8. CASE PersistFails
  <2>1. Throw /\ UNCHANGED durable /\ failures < MaxFailures /\ failures' = failures + 1
    BY <1>8 DEF PersistFails
  <2>2. failures' \in 0..MaxFailures
    BY <2>1, ClickHouseAssumption DEF StoreTypeOK
  <2>3. TokensOK' /\ StoreTypeOK'
    BY <2>1, <2>2 DEF TokensOK, StoreTypeOK, durable, clickhouse
  <2>4. job'.at # "insert"
    BY <2>1, NoJobOK DEF Throw, Leave
  <2>. QED BY <1>2, <2>3, <2>4
<1>9. CASE \E c \in Chunks : Age(c)
  <2>1. Same /\ UNCHANGED job
    BY <1>9 DEF Age
  <2>2. WrittenSoFar'
    BY <2>1 DEF WrittenSoFar, durable, clickhouse
  <2>. QED BY <1>1, <2>1, <2>2
<1>. QED BY <1>3, <1>4, <1>5, <1>6, <1>7, <1>8, <1>9 DEF Monitor, InMonitor, Failing

--------------------------------------------------------------------------------
(* The worker                                                                   *)

WorkTypeOK ==
  /\ worker \in WorkerType /\ pending \in Seq(Events) /\ op \in OpType
  /\ offered \in [Events -> 0..Copies] /\ stops \in 0..MaxStops
  /\ rejected \subseteq Events /\ dropped \subseteq Events /\ crashed \subseteq Events

LEMMA FreeOK == Free \in OpType /\ Free.by = "none" /\ Free.at = "idle" /\ Free.ev = None /\ Free.n = 0
<1>1. 0 \in 0..DrainBatch
  BY DeliveryAssumption
<1>. QED BY <1>1 DEF Free, OpType

Opens(o, by, at) == o \in OpType /\ o.by = by /\ o.at = at /\ o.ev = None /\ o.n = 0

LEMMA FreeSet ==
  /\ Opens([Free EXCEPT !.by = "start", !.at = "init"], "start", "init")
  /\ Opens([Free EXCEPT !.by = "retry", !.at = "flush"], "retry", "flush")
  /\ Opens([Free EXCEPT !.by = "retry", !.at = "init"], "retry", "init")
  /\ Opens([Free EXCEPT !.by = "close", !.at = "call"], "close", "call")
  /\ Opens([Free EXCEPT !.by = "close", !.at = "gone"], "close", "gone")
<1>1. PICK f \in OpType : f = Free /\ f.ev = None /\ f.n = 0
  BY FreeOK
<1>2. Opens([f EXCEPT !.by = "start", !.at = "init"], "start", "init")
  BY <1>1 DEF OpType, Opens
<1>3. Opens([f EXCEPT !.by = "retry", !.at = "flush"], "retry", "flush")
  BY <1>1 DEF OpType, Opens
<1>4. Opens([f EXCEPT !.by = "retry", !.at = "init"], "retry", "init")
  BY <1>1 DEF OpType, Opens
<1>5. Opens([f EXCEPT !.by = "close", !.at = "call"], "close", "call")
  BY <1>1 DEF OpType, Opens
<1>6. Opens([f EXCEPT !.by = "close", !.at = "gone"], "close", "gone")
  BY <1>1 DEF OpType, Opens
<1>. QED BY <1>1, <1>2, <1>3, <1>4, <1>5, <1>6

LEMMA FreeDeliver ==
  ASSUME NEW e \in Events
  PROVE  LET o == [Free EXCEPT !.by = "deliver", !.at = "call", !.ev = e] IN
         o \in OpType /\ o.by = "deliver" /\ o.at = "call" /\ o.ev = e /\ o.n = 0
<1>1. PICK f \in OpType : f = Free /\ f.n = 0
  BY FreeOK
<1> DEFINE o == [f EXCEPT !.by = "deliver", !.at = "call", !.ev = e]
<1>2. o \in OpType /\ o.by = "deliver" /\ o.at = "call" /\ o.ev = e /\ o.n = f.n
  BY DEF OpType
<1>. QED BY <1>1, <1>2

\* What the helpers make of a worker.
LEMMA FailedOK ==
  ASSUME NEW w \in WorkerType
  PROVE  /\ Failed(w) \in WorkerType /\ Failed(w).started = w.started /\ Failed(w).adapter = w.adapter
         /\ Failed(w).flush = w.flush /\ Failed(w).closed = w.closed
         /\ Failed(w).retry = (w.retry \/ ~ w.closed) /\ Failed(w).paused = (w.paused \/ w.adapter)
BY DEF Failed, WorkerType

LEMMA RecoveredOK ==
  ASSUME NEW w \in WorkerType
  PROVE  /\ Recovered(w) \in WorkerType /\ Recovered(w).started = w.started /\ Recovered(w).adapter = w.adapter
         /\ Recovered(w).flush = w.flush /\ Recovered(w).closed = w.closed
         /\ Recovered(w).retry = w.retry /\ Recovered(w).paused = FALSE
BY DEF Recovered, WorkerType

LEMMA ReportedOK ==
  ASSUME NEW w \in WorkerType
  PROVE  /\ Reported(w) \in WorkerType /\ Reported(w).started = w.started /\ Reported(w).adapter = w.adapter
         /\ Reported(w).flush = TRUE /\ Reported(w).closed = w.closed
         /\ Reported(w).retry = (w.retry \/ ~ w.closed)
<1> DEFINE v == [w EXCEPT !.flush = TRUE]
<1>1. /\ v \in WorkerType /\ v.started = w.started /\ v.adapter = w.adapter /\ v.retry = w.retry
      /\ v.flush = TRUE /\ v.closed = w.closed /\ v.paused = w.paused
  BY DEF WorkerType
<1>2. Reported(w) = IF w.retry THEN v ELSE Failed(v)
  BY DEF Reported
<1> HIDE DEF v
<1>3. CASE w.retry
  BY <1>1, <1>2, <1>3
<1>4. CASE ~ w.retry
  BY <1>1, <1>2, <1>4, FailedOK
<1>. QED BY <1>3, <1>4

LEMMA ScheduleRestOK ==
  ASSUME NEW w \in WorkerType
  PROVE  /\ ScheduleRest(w) \in WorkerType /\ ScheduleRest(w).started = w.started /\ ScheduleRest(w).adapter = w.adapter
         /\ ScheduleRest(w).flush = w.flush /\ ScheduleRest(w).closed = w.closed
         /\ pending # <<>> => ScheduleRest(w).retry = TRUE /\ ScheduleRest(w).paused = w.paused
         /\ pending = <<>> => ScheduleRest(w).retry = w.retry /\ ScheduleRest(w).paused = FALSE
<1>1. pending # <<>> => ScheduleRest(w) = [w EXCEPT !.retry = TRUE]
  BY DEF ScheduleRest
<1>2. pending = <<>> => ScheduleRest(w) = Recovered(w)
  BY DEF ScheduleRest
<1>. QED BY <1>1, <1>2, RecoveredOK DEF WorkerType

LEMMA NewWorkerOK ==
  /\ NewWorker \in WorkerType /\ NewWorker.started = FALSE /\ NewWorker.adapter = FALSE /\ NewWorker.retry = FALSE
  /\ NewWorker.flush = FALSE /\ NewWorker.closed = FALSE /\ NewWorker.paused = FALSE
BY DEF NewWorker, WorkerType

LEMMA EnqueueOK ==
  ASSUME pending \in Seq(Events), NEW e \in Events, Enqueue(e), rejected \subseteq Events
  PROVE  /\ pending' \in Seq(Events) /\ rejected' \subseteq Events
         /\ \/ /\ pending' = Append(pending, e) /\ rejected' = rejected /\ Len(pending) < MaxPending
               /\ ~ (EventBytes[e] > MaxQueueBytes - PendingBytes)
            \/ pending' = pending /\ rejected' = rejected \cup {e}
         /\ Range(pending') \cup rejected' = Range(pending) \cup rejected \cup {e}
<1>1. \/ /\ pending' = Append(pending, e) /\ rejected' = rejected /\ ~ (Len(pending) >= MaxPending)
         /\ ~ (EventBytes[e] > MaxQueueBytes - PendingBytes)
      \/ pending' = pending /\ rejected' = rejected \cup {e}
  BY DEF Enqueue
<1>2. Append(pending, e) \in Seq(Events) /\ Range(Append(pending, e)) = Range(pending) \cup {e} /\ Len(pending) \in Nat
  BY AppendOK
<1>3. CASE pending' = pending /\ rejected' = rejected \cup {e}
  BY <1>3
<1>4. CASE /\ pending' = Append(pending, e) /\ rejected' = rejected /\ ~ (Len(pending) >= MaxPending)
           /\ ~ (EventBytes[e] > MaxQueueBytes - PendingBytes)
  <2>1. Len(pending) < MaxPending
    BY <1>2, <1>4, DeliveryAssumption
  <2>. QED BY <1>2, <1>4, <2>1
<1>. QED BY <1>1, <1>3, <1>4

LEMMA BufferedOK == ASSUME Shape PROVE Buffered \subseteq Events
<1>1. Range(legacy) \subseteq Legacy /\ \A c \in Chunks : got[c] \subseteq 1..Items[c]
  BY DEF Shape, BuffersOK
<1>2. \A c \in Chunks : ItemsOf(c) \subseteq Events
  BY <1>1, ChunkEvent DEF ItemsOf, MineOf
<1>. QED BY <1>1, <1>2 DEF Buffered, InGroups, Events

\* Steps after which the worker and the call that holds the lock have their types.
LEMMA WorkTypes ==
  ASSUME WorkTypeOK, Shape, [Next]_vars,
         op.by = "deliver" => op.ev \in Events,
         op.by = "retry" /\ op.at = "wait" /\ op.ev # None => pending # <<>>
  PROVE  WorkTypeOK'
<1>1. /\ worker \in WorkerType /\ pending \in Seq(Events) /\ op \in OpType
      /\ offered \in [Events -> 0..Copies] /\ stops \in 0..MaxStops
      /\ rejected \subseteq Events /\ dropped \subseteq Events /\ crashed \subseteq Events
  BY DEF WorkTypeOK
<1>2. stops < MaxStops => stops + 1 \in 0..MaxStops
  BY <1>1, DeliveryAssumption
<1>3. CASE UNCHANGED workerVars
  BY <1>1, <1>3 DEF workerVars, WorkTypeOK
<1>4. CASE Start \/ Initialize \/ InitializeFails
  <2>1. [worker EXCEPT !.started = TRUE] \in WorkerType /\ [worker EXCEPT !.adapter = TRUE] \in WorkerType
    BY <1>1 DEF WorkerType
  <2>2. Failed(worker) \in WorkerType
    BY <1>1, FailedOK
  <2>3. [Free EXCEPT !.by = "start", !.at = "init"] \in OpType
    BY FreeSet DEF Opens
  <2>4. [op EXCEPT !.at = "flush"] \in OpType
    BY <1>1 DEF OpType
  <2>. QED BY <1>1, <1>4, <2>1, <2>2, <2>3, <2>4, FreeOK DEF Start, Initialize, InitializeFails, WorkTypeOK
<1>5. ASSUME NEW e \in Events, Deliver(e)
      PROVE  WorkTypeOK'
  <2>1. [Free EXCEPT !.by = "deliver", !.at = "call", !.ev = e] \in OpType
    BY FreeDeliver
  <2>2. offered' \in [Events -> 0..Copies]
    <3>1. offered' = [offered EXCEPT ![e] = @ + 1] /\ offered[e] < Copies
      BY <1>5 DEF Deliver
    <3>2. offered[e] + 1 \in 0..Copies
      BY <1>1, <3>1, DeliveryAssumption
    <3>. QED BY <1>1, <3>1, <3>2
  <2>3. op' \in OpType
    BY <1>1, <1>5, <2>1 DEF Deliver
  <2>4. pending' \in Seq(Events) /\ rejected' \subseteq Events
    BY <1>1, <1>5, EnqueueOK DEF Deliver
  <2>. QED BY <1>1, <1>5, <2>2, <2>3, <2>4 DEF Deliver, WorkTypeOK
<1>6. CASE Call \/ FlushFirst
  <2>1. [op EXCEPT !.at = "wait"] \in OpType
    BY <1>1 DEF OpType
  <2>2. [op EXCEPT !.at = IF worker.flush THEN "call" ELSE "drain", !.ev = None] \in OpType
    BY <1>1 DEF OpType
  <2>. QED BY <1>1, <1>6, <2>1, <2>2 DEF Call, FlushFirst, WorkTypeOK
<1>7. CASE Sent \/ RetryFails
  BY <1>1, <1>7, FreeOK, RecoveredOK, FailedOK DEF Sent, RetryFails, Returned, WorkTypeOK
<1>8. CASE NotSent
  <2>1. op.ev \in Events => pending' \in Seq(Events) /\ rejected' \subseteq Events
    BY <1>1, <1>8, EnqueueOK DEF NotSent, KeepFailed
  <2>2. op.ev \in Events
    BY <1>8 DEF NotSent
  <2>. QED BY <1>1, <1>8, <2>1, <2>2, FreeOK, FailedOK DEF NotSent, Returned, WorkTypeOK
<1>9. CASE RetryFires
  <2>1. [worker EXCEPT !.retry = FALSE] \in WorkerType
    BY <1>1 DEF WorkerType
  <2>2. [Free EXCEPT !.by = "retry", !.at = IF worker.adapter THEN "flush" ELSE "init"] \in OpType
    <3>1. CASE worker.adapter
      BY <3>1, FreeSet DEF Opens
    <3>2. CASE ~ worker.adapter
      BY <3>2, FreeSet DEF Opens
    <3>. QED BY <3>1, <3>2
  <2>. QED BY <1>1, <1>9, <2>1, <2>2, FreeOK DEF RetryFires, WorkTypeOK
<1>10. CASE Flushed \/ Drained
  <2>1. [worker EXCEPT !.flush = FALSE] \in WorkerType
    BY <1>1 DEF WorkerType
  <2>2. [op EXCEPT !.at = "drain"] \in OpType
    BY <1>1 DEF OpType
  <2>3. Drained => pending' \in Seq(Events)
    BY <1>1, Ends DEF Drained, Returned
  <2>4. Flushed => WorkTypeOK'
    BY <1>1, <2>1, <2>2 DEF Flushed, Returned, WorkTypeOK
  <2>5. Drained => WorkTypeOK'
    BY <1>1, <2>2, <2>3, RecoveredOK DEF Drained, Returned, WorkTypeOK
  <2>. QED BY <1>10, <2>4, <2>5
<1>11. CASE DrainNext
  <2>1. op.n + 1 \in 0..DrainBatch /\ Head(pending) \in Events
    BY <1>1, <1>11, Ends, DeliveryAssumption DEF DrainNext, OpType
  <2>2. [op EXCEPT !.at = "call", !.ev = Head(pending), !.n = @ + 1] \in OpType
    BY <1>1, <2>1 DEF OpType
  <2>. QED BY <1>1, <1>11, <2>2 DEF DrainNext, WorkTypeOK
<1>12. CASE DrainEnds
  BY <1>1, <1>12, FreeOK, ScheduleRestOK DEF DrainEnds, WorkTypeOK
<1>13. CASE Report
  BY <1>1, <1>13, ReportedOK DEF Report, WorkTypeOK
<1>14. CASE CloseStarts
  <2>1. [worker EXCEPT !.closed = TRUE] \in WorkerType
    BY <1>1 DEF WorkerType
  <2>. QED BY <1>1, <1>2, <1>14, <2>1 DEF CloseStarts, WorkTypeOK
<1>15. CASE CloseLocks
  <2>1. [worker EXCEPT !.retry = FALSE] \in WorkerType
    BY <1>1 DEF WorkerType
  <2>2. [Free EXCEPT !.by = "close", !.at = IF worker.adapter THEN "call" ELSE "gone"] \in OpType
    <3>1. CASE worker.adapter
      BY <3>1, FreeSet DEF Opens
    <3>2. CASE ~ worker.adapter
      BY <3>2, FreeSet DEF Opens
    <3>. QED BY <3>1, <3>2
  <2>3. Range(pending) \subseteq Events
    BY <1>1, RangeOK
  <2>. QED BY <1>1, <1>15, <2>1, <2>2, <2>3, EmptyOK DEF CloseLocks, WorkTypeOK
<1>16. CASE Closed
  <2>1. [op EXCEPT !.at = "gone"] \in OpType
    BY <1>1 DEF OpType
  <2>. QED BY <1>1, <1>16, <2>1, BufferedOK DEF Closed, Returned, WorkTypeOK
<1>17. CASE Restart
  BY <1>1, <1>17, NewWorkerOK, FreeOK DEF Restart, WorkTypeOK
<1>18. CASE Crash
  <2>1. Range(pending) \subseteq Events /\ InFlight \subseteq Events
    BY <1>1, RangeOK DEF InFlight, OpType
  <2>. QED BY <1>1, <1>2, <1>18, <2>1, BufferedOK, NewWorkerOK, FreeOK, EmptyOK DEF Crash, WorkTypeOK
<1>19. CASE FlushTick \/ FlushEnters \/ ReportToNobody \/ Adapter \/ UNCHANGED vars
  BY <1>3, <1>19 DEF FlushTick, FlushEnters, ReportToNobody, Adapter, vars
<1>. QED BY <1>4, <1>5, <1>6, <1>7, <1>8, <1>9, <1>10, <1>11, <1>12, <1>13, <1>14, <1>15, <1>16, <1>17, <1>18, <1>19
        DEF Next, Holding, Flushing


\* Who holds the lock and waits is served by the monitor, or has an answer.
Awaited == job.by \in {"caller", "close"} \/ result.caller # "none"

TurnOK ==
  /\ op.at = "wait" <=> Awaited
  /\ job.by \in {"caller", "close"} => result.caller = "none"
  /\ job.by = "caller" => op.by \in {"deliver", "retry"} /\ job.ev = op.ev
  /\ job.by = "close" => op.by = "close"
  /\ op.by = "none" => op = Free
  /\ op.by = "start" => op.at = "init" /\ op.ev = None
  /\ op.by = "deliver" => op.at \in {"call", "wait"} /\ op.ev \in Events
  /\ op.by = "retry" => op.at \in {"init", "flush", "drain", "call", "wait"}
  /\ op.by = "retry" /\ op.at \in {"init", "flush"} => op.ev = None
  /\ op.by = "retry" /\ op.at \in {"call", "wait"} /\ op.ev # None => pending # <<>> /\ op.ev = Head(pending)
  /\ op.by = "close" => op.at \in {"call", "wait", "gone"} /\ op.ev = None /\ pending = <<>> /\ worker.closed

ChOK == Shape /\ StoreTypeOK /\ TokensOK /\ WrittenSoFar
Core == ChOK /\ WorkTypeOK /\ TurnOK

\* Steps that leave the adapter alone, but for an answer taken or asked for.
LEMMA StillOK ==
  ASSUME ChOK, UNCHANGED <<buffers, job, durable>>, result' \in ResultType, failures' \in 0..MaxFailures
  PROVE  ChOK'
BY DEF ChOK, Shape, ChTypeOK, StoreTypeOK, TokensOK, WrittenSoFar, buffers, durable, clickhouse

LEMMA ReturnedOK ==
  ASSUME ChOK, NEW outcome, Returned(outcome)
  PROVE  /\ ChOK' /\ job' = job /\ result'.caller = "none" /\ result'.flusher = result.flusher /\ op.at = "wait"
         /\ result.caller = outcome /\ UNCHANGED <<buffers, durable, failures, crashed, offered, stops>>
<1>1. result \in ResultType /\ failures \in 0..MaxFailures
  BY DEF ChOK, Shape, ChTypeOK, StoreTypeOK
<1>2. result' = [result EXCEPT !.caller = "none"]
  BY DEF Returned
<1>3. result' \in ResultType /\ result'.caller = "none" /\ result'.flusher = result.flusher
  BY <1>1, <1>2 DEF ResultType
<1>4. UNCHANGED <<buffers, job, durable, failures, crashed, offered, stops>> /\ op.at = "wait" /\ result.caller = outcome
  BY DEF Returned
<1>. QED BY <1>1, <1>3, <1>4, StillOK

LEMMA EnteredOK ==
  ASSUME ChOK, NEW by \in {"caller", "close", "flusher"}, NEW at \in {"send", "flush"}, NEW e \in Events \cup {None},
         Enter(by, at, e), UNCHANGED buffers, UNCHANGED <<durable, failures>>, result' \in ResultType,
         by # "caller" => e = None, at = "send" => by = "caller" /\ e # None
  PROVE  ChOK' /\ job'.by = by /\ job'.at = at /\ job'.ev = e /\ job = NoJob
<1>1. Shape' /\ job' \in JobType /\ job'.by = by /\ job'.at = at /\ job'.ev = e /\ ~ job'.placed /\ job = NoJob
  BY EnterOK DEF ChOK
<1>. QED BY <1>1 DEF ChOK, StoreTypeOK, TokensOK, WrittenSoFar, durable, clickhouse

LEMMA CallOK ==
  ASSUME Core, Call
  PROVE  /\ ChOK' /\ job = NoJob /\ result' = result /\ job'.ev = op.ev
         /\ job'.by = IF op.by = "close" THEN "close" ELSE "caller"
         /\ job'.at = IF op.ev = None THEN "flush" ELSE "send"
<1> DEFINE by == IF op.by = "close" THEN "close" ELSE "caller"
           at == IF op.ev = None THEN "flush" ELSE "send"
<1>1. /\ Enter(by, at, op.ev) /\ UNCHANGED <<buffers, result, durable, failures>>
  BY DEF Call
<1>2. by \in {"caller", "close", "flusher"} /\ at \in {"send", "flush"}
  OBVIOUS
<1>3. op.ev \in Events \cup {None} /\ (by # "caller" => op.ev = None) /\ (at = "send" => by = "caller" /\ op.ev # None)
  BY DEF Core, WorkTypeOK, OpType, TurnOK
<1>4. result \in ResultType /\ ChOK
  BY DEF Core, ChOK, Shape, ChTypeOK
<1> HIDE DEF by, at
<1>5. PICK b \in {"caller", "close", "flusher"}, a \in {"send", "flush"}, e \in Events \cup {None} :
        b = by /\ a = at /\ e = op.ev
  BY <1>2, <1>3
<1>6. ChOK' /\ job'.by = b /\ job'.at = a /\ job'.ev = e /\ job = NoJob
  BY <1>1, <1>3, <1>4, <1>5, EnteredOK
<1>7. job'.by = IF op.by = "close" THEN "close" ELSE "caller"
  BY <1>5, <1>6 DEF by
<1>8. job'.at = IF op.ev = None THEN "flush" ELSE "send"
  BY <1>5, <1>6 DEF at
<1>. QED BY <1>1, <1>5, <1>6, <1>7, <1>8

LEMMA FlushEntersOK ==
  ASSUME ChOK, FlushEnters
  PROVE  /\ ChOK' /\ result'.caller = result.caller /\ result'.flusher = "none" /\ result.flusher = "waiting"
         /\ job = NoJob /\ (job' = job \/ (job'.by = "flusher" /\ job'.at = "flush" /\ job'.ev = None))
<1>1. result \in ResultType /\ failures \in 0..MaxFailures /\ job.by = "none" /\ UNCHANGED <<buffers, durable, failures>>
      /\ result' = [result EXCEPT !.flusher = "none"] /\ (job' = job \/ Enter("flusher", "flush", None))
      /\ result.flusher = "waiting"
  BY DEF ChOK, Shape, ChTypeOK, StoreTypeOK, FlushEnters
<1>2. result' \in ResultType /\ result'.caller = result.caller /\ result'.flusher = "none"
  BY <1>1 DEF ResultType
<1>3. job = NoJob
  BY <1>1 DEF ChOK, Shape, JobOK
<1>4. CASE job' = job
  BY <1>1, <1>2, <1>3, <1>4, StillOK
<1>5. CASE Enter("flusher", "flush", None)
  <2>1. PICK b \in {"caller", "close", "flusher"}, a \in {"send", "flush"}, e \in Events \cup {None} :
          b = "flusher" /\ a = "flush" /\ e = None
    OBVIOUS
  <2>2. Enter(b, a, e)
    BY <1>5, <2>1
  <2>3. ChOK' /\ job'.by = b /\ job'.at = a /\ job'.ev = e
    BY <1>1, <1>2, <2>1, <2>2, EnteredOK
  <2>. QED BY <1>1, <1>2, <1>3, <2>1, <2>3
<1>. QED BY <1>1, <1>4, <1>5

\* Memory is empty again.
LEMMA EmptiedOK ==
  ASSUME ChOK, legacy' = <<>>, order' = <<>>, old' = {}, got' = [c \in Chunks |-> {}], job' = NoJob,
         result' \in ResultType, UNCHANGED <<durable, failures>>
  PROVE  ChOK'
<1>1. BuffersOK(<<>>, <<>>, got') /\ got' \in [Chunks -> SUBSET Nat]
  BY EmptyOK DEF BuffersOK, Distinct
<1>2. job' \in JobType /\ JobOK(job', legacy', order', got') /\ job'.at = "idle"
  BY NoJobOK
<1>3. Shape'
  BY <1>1, <1>2, EmptyOK DEF Shape, ChTypeOK
<1>. QED BY <1>2, <1>3 DEF ChOK, StoreTypeOK, TokensOK, WrittenSoFar, durable, clickhouse

LEMMA ChSteps ==
  ASSUME Core, [Next]_vars
  PROVE  ChOK'
<1>1. ChOK /\ result \in ResultType /\ failures \in 0..MaxFailures
  BY DEF Core, ChOK, Shape, ChTypeOK, StoreTypeOK
<1>2. CASE Adapter
  <2>1. Monitor
    BY <1>2 DEF Adapter, Monitor
  <2>. QED BY <1>1, <2>1, MonitorOK, MonitorStore DEF ChOK
<1>3. CASE UNCHANGED chVars
  BY <1>1, <1>3, StillOK DEF chVars
<1>4. CASE InitializeFails
  <2>1. failures' \in 0..MaxFailures
    BY <1>1, <1>4, ClickHouseAssumption DEF InitializeFails
  <2>. QED BY <1>1, <1>4, <2>1, StillOK DEF InitializeFails
<1>5. CASE Call
  BY <1>5, CallOK
<1>6. CASE Sent \/ NotSent \/ Flushed \/ Drained \/ RetryFails \/ Closed
  BY <1>1, <1>6, ReturnedOK DEF Sent, NotSent, Flushed, Drained, RetryFails, Closed
<1>7. CASE FlushTick \/ Report \/ ReportToNobody
  <2>1. result' \in ResultType
    <3>1. [result EXCEPT !.flusher = "waiting"] \in ResultType /\ [result EXCEPT !.flusher = "none"] \in ResultType
      BY <1>1 DEF ResultType
    <3>. QED BY <1>7, <3>1 DEF FlushTick, Report, ReportToNobody
  <2>. QED BY <1>1, <1>7, <2>1, StillOK DEF FlushTick, Report, ReportToNobody
<1>8. CASE FlushEnters
  BY <1>1, <1>8, FlushEntersOK
<1>9. CASE Restart
  BY <1>1, <1>9, EmptiedOK DEF Restart
<1>10. CASE Crash
  <2>1. [caller |-> "none", flusher |-> "none"] \in ResultType
    BY DEF ResultType
  <2>. QED BY <1>1, <1>10, <2>1, EmptiedOK DEF Crash
<1>11. CASE UNCHANGED vars
  BY <1>3, <1>11 DEF vars
<1>12. CASE Start \/ Initialize \/ RetryFires \/ FlushFirst \/ DrainNext \/ DrainEnds \/ CloseStarts \/ CloseLocks
            \/ \E e \in Events : Deliver(e)
  BY <1>3, <1>12 DEF Start, Initialize, RetryFires, FlushFirst, DrainNext, DrainEnds, CloseStarts, CloseLocks, Deliver
<1>. QED BY <1>2, <1>4, <1>5, <1>6, <1>7, <1>8, <1>9, <1>10, <1>11, <1>12 DEF Next, Holding, Flushing

\* Whose turn it is, from one step to the next.
LEMMA TurnSteps ==
  ASSUME Core, [Next]_vars
  PROVE  TurnOK'
<1>1. /\ ChOK /\ WorkTypeOK /\ TurnOK /\ Shape /\ job \in JobType /\ result \in ResultType /\ op \in OpType
      /\ pending \in Seq(Events) /\ worker \in WorkerType
  BY DEF Core, ChOK, Shape, ChTypeOK, WorkTypeOK
<1> DEFINE Calm == job'.by = job.by /\ job'.ev = job.ev /\ result'.caller = result.caller
<1>2. Calm => (Awaited' <=> Awaited)
  BY DEF Awaited
<1>3. CASE Adapter
  <2>1. Monitor /\ UNCHANGED <<op, pending, worker>>
    BY <1>3 DEF Adapter, Monitor, workerVars
  <2>2. GoesOn \/ EndsCall \/ UNCHANGED <<legacy, order, got, job, result>>
    BY <1>1, <2>1, MonitorOK
  <2>3. CASE GoesOn \/ UNCHANGED <<legacy, order, got, job, result>>
    <3>1. Calm
      BY <2>3 DEF GoesOn
    <3>. QED BY <1>1, <1>2, <2>1, <3>1 DEF TurnOK
  <2>4. CASE EndsCall
    <3>1. PICK outcome \in {"ok", "failed"} : job.by # "none" /\ Leave(outcome)
      BY <2>4 DEF EndsCall
    <3>2. /\ job' = NoJob /\ (job.by # "flusher" => result'.caller = outcome)
          /\ (job.by = "flusher" => result'.caller = result.caller)
      BY <1>1, <3>1, LeaveOK
    <3>3. job'.by = "none" /\ job.by \in {"caller", "close", "flusher"}
      BY <1>1, <3>1, <3>2, NoJobOK DEF JobType
    <3>4. CASE job.by = "flusher"
      <4>1. Awaited' <=> Awaited
        BY <3>2, <3>3, <3>4 DEF Awaited
      <4>. QED BY <1>1, <2>1, <3>3, <4>1 DEF TurnOK
    <3>5. CASE job.by # "flusher"
      <4>1. Awaited' /\ Awaited
        BY <3>2, <3>3, <3>5 DEF Awaited
      <4>. QED BY <1>1, <2>1, <3>3, <4>1 DEF TurnOK
    <3>. QED BY <3>4, <3>5
  <2>. QED BY <2>2, <2>3, <2>4
<1>4. CASE FlushTick \/ Report \/ ReportToNobody \/ CloseStarts \/ UNCHANGED vars
  <2>1. [result EXCEPT !.flusher = "waiting"].caller = result.caller /\ [result EXCEPT !.flusher = "none"].caller = result.caller
    BY <1>1 DEF ResultType
  <2>2. Calm /\ op' = op /\ pending' = pending
    BY <1>4, <2>1 DEF FlushTick, Report, ReportToNobody, CloseStarts, vars, chVars, workerVars
  <2>3. worker.closed => worker'.closed
    <3>1. [worker EXCEPT !.closed = TRUE].closed
      BY <1>1 DEF WorkerType
    <3>2. CASE Report
      BY <1>1, <3>2, ReportedOK DEF Report
    <3>. QED BY <1>4, <3>1, <3>2 DEF FlushTick, ReportToNobody, CloseStarts, vars, workerVars
  <2>. QED BY <1>1, <1>2, <2>2, <2>3 DEF TurnOK
<1>5. CASE FlushEnters
  <2>1. /\ result'.caller = result.caller /\ job = NoJob /\ (job' = job \/ (job'.by = "flusher" /\ job'.ev = None))
        /\ UNCHANGED <<op, pending, worker>>
    BY <1>1, <1>5, FlushEntersOK DEF FlushEnters, workerVars
  <2>2. job.by = "none" /\ job'.by \notin {"caller", "close"}
    BY <2>1, NoJobOK
  <2>3. Awaited' <=> Awaited
    BY <2>1, <2>2 DEF Awaited
  <2>. QED BY <1>1, <2>1, <2>2, <2>3 DEF TurnOK
<1>6. CASE Call
  <2>1. /\ result' = result /\ job'.ev = op.ev /\ job'.by = IF op.by = "close" THEN "close" ELSE "caller"
        /\ op.at = "call" /\ op' = [op EXCEPT !.at = "wait"] /\ UNCHANGED <<worker, pending>>
    <3>1. op.at = "call" /\ op' = [op EXCEPT !.at = "wait"] /\ UNCHANGED <<worker, pending>>
      BY <1>6 DEF Call
    <3>2. result' = result /\ job'.ev = op.ev /\ job'.by = IF op.by = "close" THEN "close" ELSE "caller"
      BY <1>6, CallOK
    <3>. QED BY <3>1, <3>2
  <2>2. op'.at = "wait" /\ op'.by = op.by /\ op'.ev = op.ev
    BY <1>1, <2>1 DEF OpType
  <2>3. result.caller = "none" /\ op.by \in {"deliver", "retry", "close"}
    BY <1>1, <2>1, FreeOK DEF TurnOK, Awaited, OpType
  <2>4. Awaited'
    BY <2>1 DEF Awaited
  <2>. QED BY <1>1, <2>1, <2>2, <2>3, <2>4 DEF TurnOK
<1>7. ASSUME NEW outcome \in {"ok", "failed"}, Returned(outcome), 
             \/ op' = Free
             \/ op' = [op EXCEPT !.at = "drain"] /\ op.by = "retry"
             \/ op' = [op EXCEPT !.at = "gone"] /\ op.by = "close" /\ UNCHANGED <<worker, pending>>
      PROVE  TurnOK'
  <2>1. job' = job /\ result'.caller = "none" /\ op.at = "wait" /\ result.caller = outcome
    BY <1>1, <1>7, ReturnedOK
  <2>2. job.by \notin {"caller", "close"}
    BY <1>1, <2>1 DEF TurnOK
  <2>3. ~ Awaited'
    BY <2>1, <2>2 DEF Awaited
  <2>4. CASE op' = Free
    BY <2>1, <2>2, <2>3, <2>4, FreeOK DEF TurnOK
  <2>5. CASE op' = [op EXCEPT !.at = "drain"] /\ op.by = "retry"
    <3>1. op'.at = "drain" /\ op'.by = "retry"
      BY <1>1, <2>5 DEF OpType
    <3>. QED BY <2>1, <2>2, <2>3, <3>1 DEF TurnOK
  <2>6. CASE op' = [op EXCEPT !.at = "gone"] /\ op.by = "close" /\ UNCHANGED <<worker, pending>>
    <3>1. op'.at = "gone" /\ op'.by = "close" /\ op'.ev = op.ev
      BY <1>1, <2>6 DEF OpType
    <3>. QED BY <1>1, <2>1, <2>2, <2>3, <2>6, <3>1 DEF TurnOK
  <2>. QED BY <1>7, <2>4, <2>5, <2>6
<1>8. CASE Sent \/ NotSent \/ Flushed \/ Drained \/ RetryFails \/ Closed
  <2>1. CASE Sent \/ Flushed \/ Drained
    BY <1>7, <2>1 DEF Sent, Flushed, Drained
  <2>2. CASE NotSent \/ RetryFails
    BY <1>7, <2>2 DEF NotSent, RetryFails
  <2>3. CASE Closed
    BY <1>7, <2>3 DEF Closed
  <2>. QED BY <1>8, <2>1, <2>2, <2>3
\* Steps of the worker alone.
<1>9. ASSUME UNCHANGED <<job, result>>, op.at # "wait",
             \/ op' = Free
             \/ Opens(op', "start", "init") \/ Opens(op', "retry", "init") \/ Opens(op', "retry", "flush")
             \/ op'.by = "deliver" /\ op'.at = "call" /\ op'.ev \in Events
             \/ op'.by = "retry" /\ op'.at = "flush" /\ op'.ev = None
             \/ op'.by = "retry" /\ op'.at = "call" /\ op'.ev = None
             \/ op'.by = "retry" /\ op'.at = "drain"
             \/ op'.by = "retry" /\ op'.at = "call" /\ pending' # <<>> /\ op'.ev = Head(pending')
             \/ (Opens(op', "close", "call") \/ Opens(op', "close", "gone")) /\ pending' = <<>> /\ worker'.closed
      PROVE  TurnOK'
  <2>1. ~ Awaited' /\ job'.by \notin {"caller", "close"}
    BY <1>1, <1>9 DEF TurnOK, Awaited
  <2>. QED BY <1>9, <2>1, FreeOK DEF TurnOK, Opens
<1>10. CASE Start
  <2>1. Opens(op', "start", "init") /\ UNCHANGED <<job, result>> /\ op.at # "wait"
    BY <1>10, FreeSet, FreeOK DEF Start, chVars
  <2>. QED BY <1>9, <2>1
<1>11. CASE Initialize \/ InitializeFails
  <2>1. op.at = "init" /\ UNCHANGED <<job, result>> 
    BY <1>11 DEF Initialize, InitializeFails, chVars
  <2>2. op.by = "start" \/ op.by = "retry"
    BY <1>1, <2>1, FreeOK DEF TurnOK, OpType
  <2>3. op' = Free \/ (op' = [op EXCEPT !.at = "flush"] /\ op.by = "retry")
    BY <1>11, <2>2 DEF Initialize, InitializeFails
  <2>4. op' = Free \/ (op'.by = "retry" /\ op'.at = "flush" /\ op'.ev = None)
    BY <1>1, <2>1, <2>3 DEF TurnOK, OpType
  <2>. QED BY <1>9, <2>1, <2>4
<1>12. CASE RetryFires
  <2>1. UNCHANGED <<job, result>> /\ op.at # "wait"
    BY <1>12, FreeOK DEF RetryFires, chVars
  <2>2. op' = Free \/ Opens(op', "retry", "init") \/ Opens(op', "retry", "flush")
    BY <1>12, FreeSet DEF RetryFires
  <2>. QED BY <1>9, <2>1, <2>2
<1>13. CASE CloseLocks
  <2>1. /\ UNCHANGED <<job, result>> /\ op.at # "wait" /\ pending' = <<>> /\ worker.closed
        /\ worker' = [worker EXCEPT !.retry = FALSE]
    BY <1>13, FreeOK DEF CloseLocks, chVars
  <2>2. Opens(op', "close", "call") \/ Opens(op', "close", "gone")
    BY <1>13, FreeSet DEF CloseLocks
  <2>3. worker'.closed
    BY <1>1, <2>1 DEF WorkerType
  <2>. QED BY <1>9, <2>1, <2>2, <2>3
<1>14. CASE FlushFirst
  <2>1. /\ UNCHANGED <<job, result>> /\ op.at = "flush"
        /\ op' = [op EXCEPT !.at = IF worker.flush THEN "call" ELSE "drain", !.ev = None]
    BY <1>14 DEF FlushFirst, chVars
  <2>2. op.by = "retry"
    BY <1>1, <2>1, FreeOK DEF TurnOK, OpType
  <2>3. op'.by = "retry" /\ (op'.at = "call" \/ op'.at = "drain") /\ op'.ev = None
    BY <1>1, <2>1, <2>2 DEF OpType
  <2>. QED BY <1>9, <2>1, <2>3
<1>15. CASE DrainNext \/ DrainEnds
  <2>1. UNCHANGED <<job, result>> /\ op.at = "drain"
    BY <1>15 DEF DrainNext, DrainEnds, chVars
  <2>2. op.by = "retry"
    BY <1>1, <2>1, FreeOK DEF TurnOK, OpType
  <2>3. CASE DrainNext
    <3>1. pending # <<>> /\ pending' = pending /\ op' = [op EXCEPT !.at = "call", !.ev = Head(pending), !.n = @ + 1]
      BY <2>3 DEF DrainNext
    <3>2. op'.by = "retry" /\ op'.at = "call" /\ pending' # <<>> /\ op'.ev = Head(pending')
      BY <1>1, <2>2, <3>1 DEF OpType
    <3>. QED BY <1>9, <2>1, <3>2
  <2>4. CASE DrainEnds
    <3>1. op' = Free
      BY <2>4 DEF DrainEnds
    <3>. QED BY <1>9, <2>1, <3>1
  <2>. QED BY <1>15, <2>3, <2>4
<1>16. ASSUME NEW e \in Events, Deliver(e)
       PROVE  TurnOK'
  <2>1. UNCHANGED <<job, result>> /\ op = Free /\ op.at # "wait"
    BY <1>16, FreeOK DEF Deliver, chVars
  <2>2. op' = op \/ op' = [Free EXCEPT !.by = "deliver", !.at = "call", !.ev = e]
    BY <1>16 DEF Deliver
  <2>3. op' = Free \/ (op'.by = "deliver" /\ op'.at = "call" /\ op'.ev \in Events)
    <3>1. CASE op' = op
      BY <2>1, <3>1
    <3>2. CASE op' = [Free EXCEPT !.by = "deliver", !.at = "call", !.ev = e]
      <4>1. op'.by = "deliver" /\ op'.at = "call" /\ op'.ev = e
        BY <3>2, FreeDeliver
      <4>. QED BY <4>1
    <3>. QED BY <2>2, <3>1, <3>2
  <2>. QED BY <1>9, <2>1, <2>3
<1>17. CASE Restart
  <2>1. UNCHANGED <<job, result>> /\ op.at # "wait" /\ op' = Free
    BY <1>17 DEF Restart
  <2>. QED BY <1>9, <2>1
<1>18. CASE Crash
  <2>1. job' = NoJob /\ result'.caller = "none" /\ op' = Free
    BY <1>18 DEF Crash
  <2>. QED BY <2>1, NoJobOK, FreeOK DEF TurnOK, Awaited
<1>. QED BY <1>3, <1>4, <1>5, <1>6, <1>8, <1>10, <1>11, <1>12, <1>13, <1>14, <1>15, <1>16, <1>17, <1>18
        DEF Next, Holding, Flushing

LEMMA CoreInit == Init => Core
<1>1. SUFFICES ASSUME Init PROVE Core
  OBVIOUS
<1>2. /\ legacy = <<>> /\ order = <<>> /\ old = {} /\ got = [c \in Chunks |-> {}]
      /\ job = NoJob /\ result = [caller |-> "none", flusher |-> "none"]
      /\ dlq = <<>> /\ pruned = {} /\ tokens = {} /\ failures = 0
      /\ rows = [t \in Tables |-> [e \in Events |-> 0]]
      /\ worker = NewWorker /\ pending = <<>> /\ op = Free
      /\ offered = [e \in Events |-> 0]
      /\ rejected = {} /\ dropped = {} /\ crashed = {} /\ stops = 0
  BY <1>1 DEF Init, ChInit, EmptyBuffers
<1>3. Shape
  <2>1. BuffersOK(<<>>, <<>>, got) /\ got \in [Chunks -> SUBSET Nat]
    BY <1>2, EmptyOK DEF BuffersOK, Distinct
  <2>2. job \in JobType /\ JobOK(job, legacy, order, got)
    BY <1>2, NoJobOK
  <2>3. result \in ResultType
    BY <1>2 DEF ResultType
  <2>. QED BY <1>2, <2>1, <2>2, <2>3, EmptyOK DEF Shape, ChTypeOK
<1>4. StoreTypeOK
  BY <1>2, EmptyOK, ClickHouseAssumption DEF StoreTypeOK
<1>5. TokensOK
  <2>1. \A t \in Range(Canonical), c \in Chunks : \A e \in MineOf(c) : t \in Tables /\ e \in Events /\ rows[t][e] = 0
    BY <1>2, CanonicalOK, ChunkEvent
  <2>. QED BY <1>2, <2>1 DEF TokensOK
<1>6. WrittenSoFar
  BY <1>2, NoJobOK DEF WrittenSoFar
<1>7. WorkTypeOK
  BY <1>2, NewWorkerOK, FreeOK, EmptyOK, DeliveryAssumption DEF WorkTypeOK
<1>8. TurnOK
  <2>1. job.by = "none" /\ result.caller = "none"
    BY <1>2, NoJobOK
  <2>. QED BY <1>2, <2>1, FreeOK DEF TurnOK, Awaited
<1>. QED BY <1>3, <1>4, <1>5, <1>6, <1>7, <1>8 DEF Core, ChOK

LEMMA CoreStep == Core /\ [Next]_vars => Core'
<1>1. SUFFICES ASSUME Core, [Next]_vars PROVE Core'
  OBVIOUS
<1>2. WorkTypeOK'
  BY <1>1, WorkTypes DEF Core, ChOK, TurnOK
<1>. QED BY <1>1, <1>2, ChSteps, TurnSteps DEF Core

\* The inductive invariant: the buffers, the call inside the monitor, the tables and
\* their tokens, and whose turn it is, fit together.
THEOREM Consistent == Spec => []Core
BY CoreInit, CoreStep, PTL DEF Spec

\* Every variable has its type.
THEOREM TypeCorrect == Spec => []TypeOK
<1>1. Core => TypeOK
  BY DEF Core, ChOK, Shape, ChTypeOK, StoreTypeOK, WorkTypeOK, TypeOK
<1>. QED BY <1>1, Consistent, PTL

\* The stable token of writeRecords: however often an item of a chunk is delivered,
\* retried or replayed, each canonical table has its rows at most once.
THEOREM OnceInEachTable == Spec => []ChunkOnce
<1>1. Core => ChunkOnce
  <2>1. SUFFICES ASSUME Core, NEW e \in ChunkEvents, NEW t \in RowsIn[e] PROVE rows[t][e] <= 1
    BY DEF ChunkOnce
  <2>2. PICK c \in Chunks : e \in MineOf(c)
    BY ChunkEvent
  <2>3. t \in Range(Canonical)
    <3>1. e \in Events
      BY DEF Events
    <3>. QED BY <3>1, ClickHouseAssumption
  <2>4. rows[t][e] = 1 \/ rows[t][e] = 0
    BY <2>1, <2>2, <2>3 DEF Core, ChOK, TokensOK
  <2>. QED BY <2>4
<1>. QED BY <1>1, Consistent, PTL

\* An incomplete chunk stays out of the canonical tables: each of them has all the rows
\* of a chunk or none.
THEOREM ChunksWhole == Spec => []CanonicalWhole
<1>1. Core => CanonicalWhole
  <2>1. SUFFICES ASSUME Core, NEW c \in Chunks, NEW t \in Range(Canonical)
                 PROVE  LET mine == {s \in 1..Items[c] : t \in RowsIn[<<c, s>>]} IN
                        \/ \A s \in mine : rows[t][<<c, s>>] > 0
                        \/ \A s \in mine : rows[t][<<c, s>>] = 0
    BY DEF CanonicalWhole
  <2>2. \A s \in 1..Items[c] : <<c, s>> \in MineOf(c)
    BY ChunkEvent
  <2>3. \A s \in 1..Items[c] : t \in RowsIn[<<c, s>>] =>
          rows[t][<<c, s>>] = IF TokenOf(t, c) \in tokens THEN 1 ELSE 0
    BY <2>1, <2>2 DEF Core, ChOK, TokensOK
  <2>4. CASE TokenOf(t, c) \in tokens
    BY <2>3, <2>4
  <2>5. CASE TokenOf(t, c) \notin tokens
    BY <2>3, <2>5
  <2>. QED BY <2>4, <2>5
<1>. QED BY <1>1, Consistent, PTL

--------------------------------------------------------------------------------
(* Where there is an adapter                                                    *)

\* Whoever calls into the adapter has one.
HasAdapter(w, o) ==
  /\ o.by = "deliver" => w.adapter
  /\ o.by = "retry" /\ o.at # "init" => w.adapter
  /\ o.by = "close" /\ o.at \in {"call", "wait"} => w.adapter

\* Without an adapter there is nothing in memory and nobody in the monitor.
NoAdapter == ~ worker.adapter => job = NoJob /\ result.flusher = "none" /\ legacy = <<>> /\ order = <<>>

There == Core /\ HasAdapter(worker, op) /\ NoAdapter

LEMMA ThereFacts ==
  ASSUME There
  PROVE  /\ Core /\ ChOK /\ WorkTypeOK /\ TurnOK /\ Shape /\ job \in JobType /\ result \in ResultType
         /\ op \in OpType /\ pending \in Seq(Events) /\ worker \in WorkerType
         /\ HasAdapter(worker, op) /\ NoAdapter
BY DEF There, Core, ChOK, Shape, ChTypeOK, WorkTypeOK

\* The fields of the call that holds the lock, after a step of it.
LEMMA OpFields ==
  ASSUME NEW o \in OpType, NEW at \in {"idle", "init", "call", "wait", "flush", "drain", "gone"}
  PROVE  [o EXCEPT !.at = at].by = o.by /\ [o EXCEPT !.at = at].at = at /\ [o EXCEPT !.at = at].ev = o.ev
BY DEF OpType

LEMMA HasAdapterSteps ==
  ASSUME There, [Next]_vars
  PROVE  HasAdapter(worker', op')
<1>1. /\ Core /\ ChOK /\ WorkTypeOK /\ TurnOK /\ Shape /\ op \in OpType /\ worker \in WorkerType /\ HasAdapter(worker, op)
  BY ThereFacts
<1>2. ASSUME op' = Free PROVE HasAdapter(worker', op')
  BY <1>2, FreeOK DEF HasAdapter
<1>3. ASSUME op' = op, worker'.adapter = worker.adapter PROVE HasAdapter(worker', op')
  BY <1>1, <1>3 DEF HasAdapter
<1>4. ASSUME op'.by = op.by, worker'.adapter = worker.adapter, op.at \notin {"init", "gone"}
      PROVE  HasAdapter(worker', op')
  BY <1>1, <1>4 DEF HasAdapter, TurnOK
<1>5. CASE Adapter \/ FlushTick \/ FlushEnters \/ ReportToNobody \/ UNCHANGED vars
  BY <1>3, <1>5 DEF Adapter, FlushTick, FlushEnters, ReportToNobody, vars, workerVars
<1>6. CASE Report \/ CloseStarts
  <2>1. [worker EXCEPT !.closed = TRUE].adapter = worker.adapter
    BY <1>1 DEF WorkerType
  <2>. QED BY <1>1, <1>3, <1>6, <2>1, ReportedOK DEF Report, CloseStarts
<1>7. CASE InitializeFails \/ Sent \/ NotSent \/ RetryFails \/ DrainEnds \/ Restart \/ Crash
  BY <1>2, <1>7 DEF InitializeFails, Sent, NotSent, RetryFails, DrainEnds, Restart, Crash
<1>8. CASE Start
  <2>1. op'.by = "start"
    BY <1>8, FreeSet DEF Start, Opens
  <2>. QED BY <2>1 DEF HasAdapter
<1>9. CASE Initialize
  <2>1. worker'.adapter
    BY <1>1, <1>9 DEF Initialize, WorkerType
  <2>. QED BY <2>1 DEF HasAdapter
<1>10. CASE Call \/ FlushFirst \/ DrainNext \/ Flushed \/ Drained \/ Closed
  <2>1. op.at \notin {"init", "gone"}
    BY <1>10 DEF Call, FlushFirst, DrainNext, Flushed, Drained, Closed, Returned
  <2>2. op'.by = op.by
    <3>1. CASE Call \/ Flushed \/ Drained \/ Closed
      BY <1>1, <3>1 DEF Call, Flushed, Drained, Closed, OpType
    <3>2. CASE FlushFirst \/ DrainNext
      BY <1>1, <3>2 DEF FlushFirst, DrainNext, OpType
    <3>. QED BY <1>10, <3>1, <3>2
  <2>3. worker'.adapter = worker.adapter
    <3>1. [worker EXCEPT !.flush = FALSE].adapter = worker.adapter
      BY <1>1 DEF WorkerType
    <3>2. Recovered(worker).adapter = worker.adapter
      BY <1>1, RecoveredOK
    <3>. QED BY <1>10, <3>1, <3>2 DEF Call, FlushFirst, DrainNext, Flushed, Drained, Closed
  <2>. QED BY <1>4, <2>1, <2>2, <2>3
<1>11. CASE RetryFires
  <2>1. /\ worker' = [worker EXCEPT !.retry = FALSE]
        /\ op' = IF worker.closed THEN Free
                 ELSE [Free EXCEPT !.by = "retry", !.at = IF worker.adapter THEN "flush" ELSE "init"]
    BY <1>11 DEF RetryFires
  <2>2. worker'.adapter = worker.adapter
    BY <1>1, <2>1 DEF WorkerType
  <2>3. op' = Free \/ (worker.adapter /\ Opens(op', "retry", "flush")) \/ Opens(op', "retry", "init")
    BY <2>1, FreeSet
  <2>. QED BY <1>2, <2>2, <2>3 DEF HasAdapter, Opens
<1>12. CASE CloseLocks
  <2>1. /\ worker' = [worker EXCEPT !.retry = FALSE]
        /\ op' = [Free EXCEPT !.by = "close", !.at = IF worker.adapter THEN "call" ELSE "gone"]
    BY <1>12 DEF CloseLocks
  <2>2. worker'.adapter = worker.adapter
    BY <1>1, <2>1 DEF WorkerType
  <2>3. (worker.adapter /\ Opens(op', "close", "call")) \/ Opens(op', "close", "gone")
    BY <2>1, FreeSet
  <2>. QED BY <2>2, <2>3 DEF HasAdapter, Opens
<1>13. ASSUME NEW e \in Events, Deliver(e) PROVE HasAdapter(worker', op')
  <2>1. UNCHANGED worker
    BY <1>13 DEF Deliver
  <2>2. CASE worker.closed \/ HoldBack
    BY <1>3, <1>13, <2>1, <2>2 DEF Deliver
  <2>3. CASE ~ HoldBack
    <3>1. worker.adapter
      BY <2>3 DEF HoldBack
    <3>. QED BY <2>1, <3>1 DEF HasAdapter
  <2>. QED BY <2>2, <2>3
<1>. QED BY <1>5, <1>6, <1>7, <1>8, <1>9, <1>10, <1>11, <1>12, <1>13 DEF Next, Holding, Flushing

LEMMA NoAdapterSteps ==
  ASSUME There, [Next]_vars
  PROVE  NoAdapter'
<1>1. /\ Core /\ ChOK /\ WorkTypeOK /\ TurnOK /\ Shape /\ job \in JobType /\ result \in ResultType
      /\ op \in OpType /\ pending \in Seq(Events) /\ worker \in WorkerType
      /\ HasAdapter(worker, op) /\ NoAdapter
  BY ThereFacts
<1>2. CASE UNCHANGED <<legacy, order, job>> /\ result'.flusher = result.flusher /\ worker'.adapter = worker.adapter
  BY <1>1, <1>2 DEF NoAdapter
<1>3. CASE UNCHANGED chVars /\ worker'.adapter = worker.adapter
  BY <1>2, <1>3 DEF chVars, buffers
<1>4. CASE Adapter
  <2>1. Monitor /\ UNCHANGED worker
    BY <1>4 DEF Adapter, Monitor, workerVars
  <2>2. GoesOn \/ EndsCall \/ UNCHANGED <<legacy, order, got, job, result>>
    BY <1>1, <2>1, MonitorOK
  <2>3. worker.adapter \/ UNCHANGED <<legacy, order, got, job, result>>
    BY <1>1, <2>2, NoJobOK DEF NoAdapter, GoesOn, EndsCall
  <2>. QED BY <1>2, <2>1, <2>3 DEF NoAdapter
<1>5. ASSUME UNCHANGED worker, worker.adapter PROVE NoAdapter'
  BY <1>5 DEF NoAdapter
<1>6. CASE FlushTick \/ FlushEnters
  <2>1. worker.adapter
    BY <1>1, <1>6 DEF FlushTick, FlushEnters, NoAdapter
  <2>. QED BY <1>5, <1>6, <2>1 DEF FlushTick, FlushEnters, workerVars
<1>7. CASE Call
  <2>1. op.at = "call" /\ UNCHANGED worker
    BY <1>7 DEF Call
  <2>2. op.by \in {"deliver", "retry", "close"}
    BY <1>1, <2>1, FreeOK DEF TurnOK, OpType
  <2>3. worker.adapter
    BY <1>1, <2>1, <2>2 DEF HasAdapter
  <2>. QED BY <1>5, <2>1, <2>3
<1>8. CASE Report \/ ReportToNobody
  <2>1. worker.adapter
    BY <1>1, <1>8 DEF Report, ReportToNobody, NoAdapter
  <2>2. worker'.adapter
    BY <1>1, <1>8, <2>1, ReportedOK DEF Report, ReportToNobody, workerVars
  <2>. QED BY <2>2 DEF NoAdapter
<1>9. ASSUME NEW outcome, Returned(outcome), worker' \in {worker, Failed(worker), Recovered(worker), [worker EXCEPT !.flush = FALSE]}
      PROVE  NoAdapter'
  <2>1. job' = job /\ result'.flusher = result.flusher /\ UNCHANGED <<legacy, order>>
    BY <1>1, <1>9, ReturnedOK DEF buffers
  <2>2. worker'.adapter = worker.adapter
    <3>1. [worker EXCEPT !.flush = FALSE].adapter = worker.adapter
      BY <1>1 DEF WorkerType
    <3>2. Failed(worker).adapter = worker.adapter
      BY <1>1, FailedOK
    <3>3. Recovered(worker).adapter = worker.adapter
      BY <1>1, RecoveredOK
    <3>4. \/ worker' = worker \/ worker' = Failed(worker) \/ worker' = Recovered(worker)
          \/ worker' = [worker EXCEPT !.flush = FALSE]
      BY <1>9
    <3>. QED BY <3>1, <3>2, <3>3, <3>4
  <2>. QED BY <1>2, <2>1, <2>2
<1>10. CASE Sent \/ NotSent \/ Flushed \/ Drained \/ RetryFails \/ Closed
  BY <1>9, <1>10 DEF Sent, NotSent, Flushed, Drained, RetryFails, Closed
<1>11. CASE Initialize
  <2>1. [worker EXCEPT !.adapter = TRUE].adapter
    BY <1>1 DEF WorkerType
  <2>. QED BY <1>11, <2>1 DEF Initialize, NoAdapter
<1>12. CASE InitializeFails
  BY <1>1, <1>2, <1>12, FailedOK DEF InitializeFails, buffers
<1>13. CASE Start \/ RetryFires \/ CloseStarts \/ CloseLocks
  <2>1. /\ [worker EXCEPT !.started = TRUE].adapter = worker.adapter /\ [worker EXCEPT !.retry = FALSE].adapter = worker.adapter
        /\ [worker EXCEPT !.closed = TRUE].adapter = worker.adapter
    BY <1>1 DEF WorkerType
  <2>. QED BY <1>3, <1>13, <2>1 DEF Start, RetryFires, CloseStarts, CloseLocks
<1>14. CASE FlushFirst \/ DrainNext \/ UNCHANGED vars \/ \E e \in Events : Deliver(e)
  BY <1>3, <1>14 DEF FlushFirst, DrainNext, vars, workerVars, Deliver
<1>15. CASE DrainEnds
  BY <1>1, <1>3, <1>15, ScheduleRestOK DEF DrainEnds
<1>16. CASE Restart
  BY <1>16 DEF Restart, NoAdapter
<1>17. CASE Crash
  <2>1. result' = [caller |-> "none", flusher |-> "none"] /\ job' = NoJob /\ legacy' = <<>> /\ order' = <<>>
    BY <1>17 DEF Crash
  <2>. QED BY <2>1 DEF NoAdapter
<1>. QED BY <1>4, <1>6, <1>7, <1>8, <1>10, <1>11, <1>12, <1>13, <1>14, <1>15, <1>16, <1>17 DEF Next, Holding, Flushing

LEMMA ThereInit == Init => There
<1>1. SUFFICES ASSUME Init PROVE There
  OBVIOUS
<1>2. Core
  BY <1>1, CoreInit
<1>3. op = Free /\ job = NoJob /\ legacy = <<>> /\ order = <<>> /\ result.flusher = "none"
  BY <1>1 DEF Init, ChInit, EmptyBuffers
<1>. QED BY <1>2, <1>3, FreeOK DEF There, HasAdapter, NoAdapter

LEMMA ThereStep == There /\ [Next]_vars => There'
<1>1. SUFFICES ASSUME There, [Next]_vars PROVE There'
  OBVIOUS
<1>2. Core'
  BY <1>1, CoreStep DEF There
<1>. QED BY <1>1, <1>2, HasAdapterSteps, NoAdapterSteps DEF There

--------------------------------------------------------------------------------
(* A retry is scheduled when there is something to retry                        *)

LockOK(w, p, o) ==
  /\ ~ w.started => w = NewWorker /\ p = <<>>
  /\ o.by # "none" => w.started
  /\ o.by = "start" => ~ w.adapter /\ p = <<>> /\ ~ w.flush /\ ~ w.paused
  /\ o.by = "deliver" => p = <<>> /\ ~ w.flush /\ ~ w.paused
  /\ o.by = "retry" /\ (o.at = "drain" \/ o.ev # None) => ~ w.flush
  /\ o.by = "none" /\ w.started /\ ~ w.closed /\ (p # <<>> \/ ~ w.adapter \/ w.flush \/ w.paused) => w.retry

Scheduled == There /\ LockOK(worker, pending, op)

LEMMA ScheduledFacts ==
  ASSUME Scheduled
  PROVE  /\ Core /\ ChOK /\ WorkTypeOK /\ TurnOK /\ Shape /\ job \in JobType /\ result \in ResultType
         /\ op \in OpType /\ pending \in Seq(Events) /\ worker \in WorkerType
         /\ LockOK(worker, pending, op) /\ NoAdapter /\ HasAdapter(worker, op)
BY ThereFacts DEF Scheduled

LEMMA LockSteps ==
  ASSUME HotAdd = FALSE, Scheduled, [Next]_vars
  PROVE  LockOK(worker', pending', op')
<1>1. /\ Core /\ ChOK /\ WorkTypeOK /\ TurnOK /\ Shape /\ job \in JobType /\ result \in ResultType
      /\ op \in OpType /\ pending \in Seq(Events) /\ worker \in WorkerType
      /\ LockOK(worker, pending, op) /\ NoAdapter /\ HasAdapter(worker, op)
  BY ScheduledFacts
<1>f. /\ Failed(worker) \in WorkerType /\ Failed(worker).started = worker.started /\ Failed(worker).adapter = worker.adapter
      /\ Failed(worker).flush = worker.flush /\ Failed(worker).closed = worker.closed
      /\ Failed(worker).retry = (worker.retry \/ ~ worker.closed) /\ Failed(worker).paused = (worker.paused \/ worker.adapter)
  BY <1>1, FailedOK
<1>r. /\ Recovered(worker) \in WorkerType /\ Recovered(worker).started = worker.started
      /\ Recovered(worker).adapter = worker.adapter /\ Recovered(worker).flush = worker.flush
      /\ Recovered(worker).closed = worker.closed /\ Recovered(worker).retry = worker.retry /\ Recovered(worker).paused = FALSE
  BY <1>1, RecoveredOK
<1>2. CASE Adapter \/ FlushTick \/ FlushEnters \/ ReportToNobody \/ UNCHANGED vars
  BY <1>1, <1>2 DEF Adapter, FlushTick, FlushEnters, ReportToNobody, vars, workerVars
<1>3. CASE Start
  <2>1. /\ Opens(op', "start", "init") /\ worker' = [worker EXCEPT !.started = TRUE] /\ pending' = pending
        /\ ~ worker.started
    BY <1>3, FreeSet DEF Start
  <2>2. worker = NewWorker /\ pending = <<>>
    BY <1>1, <2>1 DEF HasAdapter, LockOK
  <2>3. worker'.started /\ worker'.adapter = worker.adapter /\ worker'.flush = worker.flush /\ worker'.paused = worker.paused
    BY <1>1, <2>1 DEF WorkerType
  <2>. QED BY <2>1, <2>2, <2>3, NewWorkerOK DEF HasAdapter, LockOK, Opens
<1>4. CASE Initialize
  <2>1. /\ op.at = "init" /\ worker' = [worker EXCEPT !.adapter = TRUE] /\ pending' = pending
        /\ op' = IF op.by = "start" THEN Free ELSE [op EXCEPT !.at = "flush"]
    BY <1>4 DEF Initialize
  <2>2. /\ worker'.adapter /\ worker'.started = worker.started /\ worker'.flush = worker.flush
        /\ worker'.paused = worker.paused /\ worker'.closed = worker.closed /\ worker'.retry = worker.retry
    BY <1>1, <2>1 DEF WorkerType
  <2>3. op.by = "start" \/ (op.by = "retry" /\ op.ev = None)
    BY <1>1, <2>1, FreeOK DEF TurnOK, OpType
  <2>4. worker.started
    BY <1>1, <2>3 DEF HasAdapter, LockOK
  <2>5. CASE op.by = "start"
    BY <1>1, <2>1, <2>2, <2>4, <2>5, FreeOK DEF HasAdapter, LockOK
  <2>6. CASE op.by = "retry"
    <3>1. op'.by = "retry" /\ op'.at = "flush" /\ op'.ev = None
      BY <1>1, <2>1, <2>3, <2>6, OpFields
    <3>. QED BY <2>2, <2>4, <3>1 DEF HasAdapter, LockOK
  <2>. QED BY <2>3, <2>5, <2>6
<1>5. CASE InitializeFails
  <2>1. op.at = "init" /\ worker' = Failed(worker) /\ op' = Free /\ pending' = pending
    BY <1>5 DEF InitializeFails
  <2>2. op.by = "start" \/ op.by = "retry"
    BY <1>1, <2>1, FreeOK DEF TurnOK, OpType
  <2>3. worker.started
    BY <1>1, <2>2 DEF HasAdapter, LockOK
  <2>. QED BY <1>f, <2>1, <2>3, FreeOK DEF HasAdapter, LockOK
<1>6. ASSUME NEW e \in Events, Deliver(e)
      PROVE  LockOK(worker', pending', op')
  <2>1. op = Free /\ worker.started /\ worker' = worker /\ op.by = "none"
    BY <1>6, FreeOK DEF Deliver
  <2>2. CASE worker.closed \/ HoldBack
    <3>1. op' = op /\ (~ worker.closed => HoldBack)
      BY <1>6, <2>2 DEF Deliver
    <3>2. CASE worker.closed
      BY <2>1, <3>1, <3>2 DEF HasAdapter, LockOK
    <3>3. CASE ~ worker.closed
      <4>1. worker.retry
        BY <1>1, <2>1, <3>1, <3>3 DEF HasAdapter, LockOK, HoldBack
      <4>. QED BY <2>1, <3>1, <4>1 DEF HasAdapter, LockOK
    <3>. QED BY <3>2, <3>3
  <2>3. CASE ~ worker.closed /\ ~ HoldBack
    <3>1. op' = [Free EXCEPT !.by = "deliver", !.at = "call", !.ev = e] /\ pending' = pending
      BY <1>6, <2>3 DEF Deliver
    <3>2. op'.by = "deliver"
      BY <3>1, FreeDeliver
    <3>3. pending = <<>> /\ worker.adapter /\ ~ worker.flush /\ ~ worker.paused
      BY <1>1, <2>1, <2>3 DEF HasAdapter, LockOK, HoldBack
    <3>. QED BY <2>1, <3>1, <3>2, <3>3 DEF HasAdapter, LockOK
  <2>. QED BY <2>2, <2>3
<1>7. CASE Call
  <2>1. op.at = "call" /\ op' = [op EXCEPT !.at = "wait"] /\ UNCHANGED <<worker, pending>>
    BY <1>7 DEF Call
  <2>2. op'.by = op.by /\ op'.at = "wait" /\ op'.ev = op.ev
    BY <1>1, <2>1, OpFields
  <2>. QED BY <1>1, <2>1, <2>2 DEF HasAdapter, LockOK
<1>8. CASE Sent
  <2>1. op.by = "deliver" /\ worker' = Recovered(worker) /\ op' = Free /\ pending' = pending
    BY <1>8 DEF Sent
  <2>. QED BY <1>1, <1>r, <2>1, FreeOK DEF HasAdapter, LockOK
<1>9. CASE NotSent
  <2>1. op.by = "deliver" /\ worker' = Failed(worker) /\ op' = Free
    BY <1>9 DEF NotSent
  <2>. QED BY <1>1, <1>f, <2>1, FreeOK DEF HasAdapter, LockOK
<1>10. CASE RetryFails
  <2>1. op.by = "retry" /\ worker' = Failed(worker) /\ op' = Free /\ pending' = pending
    BY <1>10 DEF RetryFails
  <2>. QED BY <1>1, <1>f, <2>1, FreeOK DEF HasAdapter, LockOK
<1>11. CASE RetryFires
  <2>1. /\ worker.retry /\ op.by = "none" /\ worker' = [worker EXCEPT !.retry = FALSE] /\ pending' = pending
        /\ op' = IF worker.closed THEN Free
                 ELSE [Free EXCEPT !.by = "retry", !.at = IF worker.adapter THEN "flush" ELSE "init"]
    BY <1>11, FreeOK DEF RetryFires
  <2>2. /\ worker'.started = worker.started /\ worker'.adapter = worker.adapter /\ worker'.closed = worker.closed
        /\ worker'.flush = worker.flush
    BY <1>1, <2>1 DEF WorkerType
  <2>3. worker.started
    BY <1>1, <2>1, NewWorkerOK DEF HasAdapter, LockOK
  <2>4. CASE worker.closed
    BY <2>1, <2>2, <2>3, <2>4, FreeOK DEF HasAdapter, LockOK
  <2>5. CASE ~ worker.closed /\ worker.adapter
    <3>1. Opens(op', "retry", "flush")
      BY <2>1, <2>5, FreeSet
    <3>. QED BY <2>1, <2>2, <2>3, <2>5, <3>1 DEF HasAdapter, LockOK, Opens
  <2>6. CASE ~ worker.closed /\ ~ worker.adapter
    <3>1. Opens(op', "retry", "init")
      BY <2>1, <2>6, FreeSet
    <3>. QED BY <2>1, <2>2, <2>3, <2>6, <3>1 DEF HasAdapter, LockOK, Opens
  <2>. QED BY <2>4, <2>5, <2>6
<1>12. CASE FlushFirst
  <2>1. /\ op.at = "flush" /\ UNCHANGED <<worker, pending>>
        /\ op' = [op EXCEPT !.at = IF worker.flush THEN "call" ELSE "drain", !.ev = None]
    BY <1>12 DEF FlushFirst
  <2>2. op'.by = op.by /\ op'.ev = None /\ op'.at = IF worker.flush THEN "call" ELSE "drain"
    BY <1>1, <2>1 DEF OpType
  <2>3. op.by = "retry"
    BY <1>1, <2>1, FreeOK DEF TurnOK, OpType
  <2>. QED BY <1>1, <2>1, <2>2, <2>3 DEF HasAdapter, LockOK
<1>13. CASE Flushed
  <2>1. /\ op.by = "retry" /\ op.at = "wait" /\ worker' = [worker EXCEPT !.flush = FALSE] /\ pending' = pending
        /\ op' = [op EXCEPT !.at = "drain"]
    BY <1>13 DEF Flushed, Returned
  <2>2. op'.by = "retry" /\ op'.at = "drain" /\ op'.ev = op.ev
    BY <1>1, <2>1, OpFields
  <2>3. worker'.started = worker.started /\ worker'.adapter = worker.adapter /\ worker'.flush = FALSE
    BY <1>1, <2>1 DEF WorkerType
  <2>. QED BY <1>1, <2>1, <2>2, <2>3 DEF HasAdapter, LockOK
<1>14. CASE DrainNext
  <2>1. /\ op.at = "drain" /\ UNCHANGED <<worker, pending>>
        /\ op' = [op EXCEPT !.at = "call", !.ev = Head(pending), !.n = @ + 1]
    BY <1>14 DEF DrainNext
  <2>2. op'.by = op.by /\ op'.at = "call"
    BY <1>1, <2>1 DEF OpType
  <2>3. op.by = "retry"
    BY <1>1, <2>1, FreeOK DEF TurnOK, OpType
  <2>. QED BY <1>1, <2>1, <2>2, <2>3 DEF HasAdapter, LockOK
<1>15. CASE Drained
  <2>1. /\ op.by = "retry" /\ op.ev # None /\ op.at = "wait" /\ worker' = Recovered(worker)
        /\ op' = [op EXCEPT !.at = "drain"]
    BY <1>15 DEF Drained, Returned
  <2>2. op'.by = "retry" /\ op'.at = "drain"
    BY <1>1, <2>1, OpFields
  <2>. QED BY <1>1, <1>r, <2>1, <2>2 DEF HasAdapter, LockOK
<1>16. CASE DrainEnds
  <2>1. /\ op.at = "drain" /\ op' = Free /\ pending' = pending
        /\ worker' = IF worker.closed THEN worker ELSE ScheduleRest(worker)
    BY <1>16 DEF DrainEnds
  <2>2. op.by = "retry"
    BY <1>1, <2>1, FreeOK DEF TurnOK, OpType
  <2>3. worker.started /\ worker.adapter /\ ~ worker.flush
    BY <1>1, <2>1, <2>2 DEF HasAdapter, LockOK
  <2>4. CASE worker.closed
    BY <2>1, <2>3, <2>4, FreeOK DEF HasAdapter, LockOK
  <2>5. CASE ~ worker.closed
    <3>1. /\ worker'.started = worker.started /\ worker'.adapter = worker.adapter /\ worker'.flush = worker.flush
          /\ pending # <<>> => worker'.retry = TRUE
          /\ pending = <<>> => worker'.paused = FALSE
      BY <1>1, <2>1, <2>5, ScheduleRestOK
    <3>. QED BY <2>1, <2>3, <3>1, FreeOK DEF HasAdapter, LockOK
  <2>. QED BY <2>4, <2>5
<1>17. CASE Report
  <2>1. /\ op.by = "none" /\ UNCHANGED <<op, pending>> /\ worker' = IF worker.closed THEN worker ELSE Reported(worker)
        /\ result.flusher = "failed"
    BY <1>17, FreeOK DEF Report
  <2>2. worker.adapter
    BY <1>1, <2>1 DEF NoAdapter
  <2>3. worker.started
    BY <1>1, <2>2, NewWorkerOK DEF HasAdapter, LockOK
  <2>4. CASE worker.closed
    BY <1>1, <2>1, <2>4 DEF HasAdapter, LockOK
  <2>5. CASE ~ worker.closed
    <3>1. worker'.started = worker.started /\ worker'.retry = (worker.retry \/ ~ worker.closed)
      BY <1>1, <2>1, <2>5, ReportedOK
    <3>. QED BY <2>1, <2>3, <2>5, <3>1 DEF HasAdapter, LockOK
  <2>. QED BY <2>4, <2>5
<1>18. CASE CloseStarts
  <2>1. worker.started /\ worker' = [worker EXCEPT !.closed = TRUE] /\ UNCHANGED <<op, pending>>
    BY <1>18 DEF CloseStarts
  <2>2. /\ worker'.started = worker.started /\ worker'.adapter = worker.adapter /\ worker'.flush = worker.flush
        /\ worker'.paused = worker.paused /\ worker'.closed = TRUE
    BY <1>1, <2>1 DEF WorkerType
  <2>. QED BY <1>1, <2>1, <2>2 DEF HasAdapter, LockOK
<1>19. CASE CloseLocks
  <2>1. /\ worker.closed /\ worker' = [worker EXCEPT !.retry = FALSE] /\ pending' = <<>>
        /\ op' = [Free EXCEPT !.by = "close", !.at = IF worker.adapter THEN "call" ELSE "gone"]
    BY <1>19 DEF CloseLocks
  <2>2. worker'.started = worker.started /\ worker'.adapter = worker.adapter
    BY <1>1, <2>1 DEF WorkerType
  <2>3. worker.started
    BY <1>1, <2>1, NewWorkerOK DEF HasAdapter, LockOK
  <2>4. CASE worker.adapter
    <3>1. Opens(op', "close", "call")
      BY <2>1, <2>4, FreeSet
    <3>. QED BY <2>2, <2>3, <2>4, <3>1 DEF HasAdapter, LockOK, Opens
  <2>5. CASE ~ worker.adapter
    <3>1. Opens(op', "close", "gone")
      BY <2>1, <2>5, FreeSet
    <3>. QED BY <2>2, <2>3, <3>1 DEF HasAdapter, LockOK, Opens
  <2>. QED BY <2>4, <2>5
<1>20. CASE Closed
  <2>1. op.by = "close" /\ op' = [op EXCEPT !.at = "gone"] /\ UNCHANGED <<worker, pending>>
    BY <1>20 DEF Closed
  <2>2. op'.by = "close" /\ op'.at = "gone" /\ op'.ev = op.ev
    BY <1>1, <2>1, OpFields
  <2>. QED BY <1>1, <2>1, <2>2 DEF HasAdapter, LockOK
<1>21. CASE Restart
  <2>1. op.at = "gone" /\ worker' = NewWorker /\ op' = Free /\ pending' = pending
    BY <1>21 DEF Restart
  <2>2. op.by = "close"
    BY <1>1, <2>1, FreeOK DEF TurnOK, OpType
  <2>3. pending = <<>>
    BY <1>1, <2>2 DEF TurnOK
  <2>. QED BY <2>1, <2>3, NewWorkerOK, FreeOK DEF HasAdapter, LockOK
<1>22. CASE Crash
  <2>1. worker' = NewWorker /\ pending' = <<>> /\ op' = Free
    BY <1>22 DEF Crash
  <2>. QED BY <2>1, NewWorkerOK, FreeOK DEF HasAdapter, LockOK
<1>. QED BY <1>2, <1>3, <1>4, <1>5, <1>6, <1>7, <1>8, <1>9, <1>10, <1>11, <1>12, <1>13, <1>14, <1>15, <1>16, <1>17,
            <1>18, <1>19, <1>20, <1>21, <1>22 DEF Next, Holding, Flushing

LEMMA ScheduledInit == Init => Scheduled
<1>1. SUFFICES ASSUME Init PROVE Scheduled
  OBVIOUS
<1>2. There
  BY <1>1, ThereInit
<1>3. worker = NewWorker /\ pending = <<>> /\ op = Free
  BY <1>1 DEF Init
<1>. QED BY <1>2, <1>3, NewWorkerOK, FreeOK DEF Scheduled, LockOK

LEMMA ScheduledStep == ASSUME HotAdd = FALSE PROVE Scheduled /\ [Next]_vars => Scheduled'
<1>1. SUFFICES ASSUME Scheduled, [Next]_vars PROVE Scheduled'
  OBVIOUS
<1>2. There'
  BY <1>1, ThereStep DEF Scheduled
<1>. QED BY <1>1, <1>2, LockSteps DEF Scheduled

\* While nobody holds the delivery lock, whatever waits for a retry has one scheduled,
\* provided that no event is delivered before start has taken the lock.
THEOREM RetryScheduled == ASSUME HotAdd = FALSE PROVE Spec => []RetryArmed
<1>1. Init => Scheduled
  BY ScheduledInit
<1>2. Scheduled /\ [Next]_vars => Scheduled'
  BY ScheduledStep
<1>3. Scheduled => RetryArmed
  BY FreeOK DEF Scheduled, LockOK, RetryArmed
<1>. QED BY <1>1, <1>2, <1>3, PTL DEF Spec

--------------------------------------------------------------------------------
(* The limits of memory                                                         *)

Bounds(l, o, g) ==
  /\ Cardinality(BytesOf(l)) + Cardinality(ItemBytes(GroupsOf(g))) <= MaxPendingBytes
  /\ Len(o) <= MaxPendingGroups
  /\ Cardinality(GroupsOf(g)) <= MaxPendingItems

Limits ==
  /\ Bounds(legacy, order, got)
  /\ Len(pending) <= MaxPending /\ PendingBytes <= MaxQueueBytes
  /\ Len(dlq) <= MaxDlqRecords

LEMMA LimitsMean == Shape /\ Limits => MemoryBounded
BY BytesOK DEF Shape, Limits, Bounds, MemoryBounded

\* The bytes of a retry queue are finitely many.
LEMMA QueuedOK ==
  ASSUME NEW q \in Seq(Events)
  PROVE  IsFiniteSet(BytesQueued(q)) /\ Cardinality(BytesQueued(q)) \in Nat
<1> DEFINE f == [i \in 1..Len(q) |-> {i} \X (1..EventBytes[q[i]])]
<1>1. DOMAIN q = 1..Len(q) /\ Len(q) \in Nat /\ \A i \in 1..Len(q) : q[i] \in Events
  OBVIOUS
<1>2. \A i \in 1..Len(q) : IsFiniteSet(f[i])
  BY <1>1, BlockOK, DeliveryAssumption
<1>3. IsFiniteSet(1..Len(q))
  BY <1>1, FS_Interval
<1>4. BytesQueued(q) = UNION {f[i] : i \in 1..Len(q)}
  BY <1>1 DEF BytesQueued
<1>5. DOMAIN f = 1..Len(q)
  OBVIOUS
<1> HIDE DEF f
<1>6. IsFiniteSet(BytesQueued(q))
  BY <1>2, <1>3, <1>4, <1>5, UnionFinite
<1>. QED BY <1>6, FS_CardinalityType

\* An event that joins the queue adds its estimate.
LEMMA QueuedAppend ==
  ASSUME NEW q \in Seq(Events), NEW e \in Events
  PROVE  Cardinality(BytesQueued(Append(q, e))) <= Cardinality(BytesQueued(q)) + EventBytes[e]
<1> DEFINE m == Append(q, e)
<1>1. /\ DOMAIN q = 1..Len(q) /\ Len(q) \in Nat /\ DOMAIN m = 1..(Len(q) + 1)
      /\ m[Len(q) + 1] = e /\ \A i \in 1..Len(q) : m[i] = q[i]
  OBVIOUS
<1>2. \A i : i \in 1..(Len(q) + 1) <=> i \in 1..Len(q) \/ i = Len(q) + 1
  BY <1>1
<1> HIDE DEF m
<1>3. BytesQueued(m) = BytesQueued(q) \cup ({Len(q) + 1} \X (1..EventBytes[e]))
  BY <1>1, <1>2 DEF BytesQueued
<1>4. EventBytes[e] \in Nat
  BY DeliveryAssumption
<1>. QED BY <1>3, <1>4, AddBlock, QueuedOK DEF m

\* What is left of the queue takes no more than the whole: its bytes move up by one place.
LEMMA QueuedTail ==
  ASSUME NEW q \in Seq(Events), q # <<>>
  PROVE  Cardinality(BytesQueued(Tail(q))) <= Cardinality(BytesQueued(q))
<1> DEFINE S == BytesQueued(Tail(q))
           T == BytesQueued(q)
           f == [x \in S |-> <<x[1] + 1, x[2]>>]
<1>1. /\ Tail(q) \in Seq(Events) /\ DOMAIN Tail(q) = 1..(Len(q) - 1) /\ DOMAIN q = 1..Len(q)
      /\ Len(q) \in Nat \ {0} /\ \A i \in 1..(Len(q) - 1) : Tail(q)[i] = q[i + 1]
  BY Ends
<1>2. ASSUME NEW x \in S
      PROVE  x[1] \in 1..(Len(q) - 1) /\ x = <<x[1], x[2]>> /\ x[2] \in 1..EventBytes[q[x[1] + 1]]
  BY <1>1 DEF BytesQueued
<1>3. ASSUME NEW x \in S
      PROVE  f[x] \in T
  <2>1. x[1] + 1 \in DOMAIN q
    BY <1>1, <1>2
  <2>2. <<x[1] + 1, x[2]>> \in {x[1] + 1} \X (1..EventBytes[q[x[1] + 1]])
    BY <1>2
  <2>. QED BY <2>1, <2>2 DEF BytesQueued
<1>4. ASSUME NEW x \in S, NEW y \in S, f[x] = f[y]
      PROVE  x = y
  <2>1. <<x[1] + 1, x[2]>> = <<y[1] + 1, y[2]>>
    BY <1>4
  <2>2. x[1] + 1 = y[1] + 1 /\ x[2] = y[2] /\ x[1] \in Int /\ y[1] \in Int
    BY <1>1, <1>2, <2>1
  <2>. QED BY <1>2, <2>2
<1> HIDE DEF S, T
<1>5. f \in Injection(S, T)
  BY <1>3, <1>4 DEF Injection, IsInjective
<1>6. IsFiniteSet(T)
  BY QueuedOK DEF T
<1>. QED BY <1>5, <1>6, FS_Injection DEF S, T

LEMMA BoundsTypes ==
  ASSUME NEW l \in Seq(Legacy), NEW o \in Seq(Chunks), NEW g \in [Chunks -> SUBSET Nat], BuffersOK(l, o, g)
  PROVE  /\ Cardinality(BytesOf(l)) \in Nat /\ Cardinality(ItemBytes(GroupsOf(g))) \in Nat
         /\ Cardinality(GroupsOf(g)) \in Nat /\ Len(o) \in Nat
         /\ IsFiniteSet(GroupsOf(g)) /\ GroupsOf(g) \subseteq Events /\ IsFiniteSet(ItemBytes(GroupsOf(g)))
<1>1. Cardinality(BytesOf(l)) \in Nat /\ Len(o) \in Nat
  BY LegacyBytesOK
<1>2. IsFiniteSet(GroupsOf(g)) /\ GroupsOf(g) \subseteq Events /\ Cardinality(GroupsOf(g)) \in Nat
  BY GroupsOK
<1> DEFINE S == GroupsOf(g)
<1> HIDE DEF S
<1>3. IsFiniteSet(ItemBytes(S)) /\ Cardinality(ItemBytes(S)) \in Nat
  BY <1>2, ItemBytesOK DEF S
<1>. QED BY <1>1, <1>2, <1>3 DEF S

LEMMA SumLess ==
  ASSUME NEW a \in Nat, NEW b \in Nat, NEW c \in Nat, NEW d \in Nat, NEW m \in Nat, a <= c, b <= d, c + d <= m
  PROVE  a + b <= m
OBVIOUS

\* Letting go of the shared buffer or of a group.
LEMMA BoundsShrink ==
  ASSUME NEW l \in Seq(Legacy), NEW o \in Seq(Chunks), NEW g \in [Chunks -> SUBSET Nat], BuffersOK(l, o, g),
         NEW m \in Seq(Legacy), NEW p \in Seq(Chunks), NEW h \in [Chunks -> SUBSET Nat], BuffersOK(m, p, h),
         m = l \/ m = <<>>, Len(p) <= Len(o), \A c \in Chunks : h[c] \subseteq g[c],
         Bounds(l, o, g)
  PROVE  Bounds(m, p, h)
<1>1. Cardinality(BytesOf(m)) <= Cardinality(BytesOf(l))
  <2>1. BytesOf(<<>>) = {}
    BY DEF BytesOf
  <2>2. BytesOf(m) \in SUBSET BytesOf(l)
    BY <2>1
  <2>. QED BY <2>2, LegacyBytesOK, FS_Subset
<1>2. GroupsOf(h) \in SUBSET GroupsOf(g)
  BY DEF GroupsOf
<1>3. Cardinality(GroupsOf(h)) <= Cardinality(GroupsOf(g))
  BY <1>2, BoundsTypes, FS_Subset
<1>4. Cardinality(ItemBytes(GroupsOf(h))) <= Cardinality(ItemBytes(GroupsOf(g)))
  <2>1. ItemBytes(GroupsOf(h)) \in SUBSET ItemBytes(GroupsOf(g))
    BY <1>2 DEF ItemBytes
  <2>. QED BY <2>1, BoundsTypes, FS_Subset
<1>5. /\ Cardinality(BytesOf(m)) \in Nat /\ Cardinality(ItemBytes(GroupsOf(h))) \in Nat
      /\ Cardinality(GroupsOf(h)) \in Nat /\ Len(p) \in Nat
  BY BoundsTypes
<1>6. /\ Cardinality(BytesOf(l)) \in Nat /\ Cardinality(ItemBytes(GroupsOf(g))) \in Nat
      /\ Cardinality(GroupsOf(g)) \in Nat /\ Len(o) \in Nat
  BY BoundsTypes
<1>7. /\ Cardinality(BytesOf(l)) + Cardinality(ItemBytes(GroupsOf(g))) <= MaxPendingBytes
      /\ Len(o) <= MaxPendingGroups /\ Cardinality(GroupsOf(g)) <= MaxPendingItems
      /\ MaxPendingBytes \in Nat /\ MaxPendingGroups \in Nat /\ MaxPendingItems \in Nat
  BY ClickHouseAssumption DEF Bounds
<1>8. Cardinality(BytesOf(m)) + Cardinality(ItemBytes(GroupsOf(h))) <= MaxPendingBytes
  BY <1>1, <1>4, <1>5, <1>6, <1>7, SumLess
<1>9. Len(p) <= MaxPendingGroups
  BY <1>5, <1>6, <1>7
<1>10. Cardinality(GroupsOf(h)) <= MaxPendingItems
  BY <1>3, <1>5, <1>6, <1>7
<1>. QED BY <1>8, <1>9, <1>10 DEF Bounds

\* send has put an event into the shared buffer.
LEMMA BoundsLegacy ==
  ASSUME Shape, Limits, Send, job.ev \notin ChunkEvents, ~ UNCHANGED buffers
  PROVE  Bounds(legacy', order', got')
<1>1. SendLegacy(job.ev) /\ job.ev \in Legacy
  BY DEF Send, IsChunkAligned, Shape, JobOK, Events
<1>2. PICK e \in Legacy : e = job.ev
  BY <1>1
<1>3. /\ ~ NeedsLegacyFlush(e) /\ ~ (order # <<>> /\ ChunkBytes + Size[e] > MaxPendingBytes)
      /\ ~ (Size[e] > MaxPendingBytes) /\ legacy' = Append(legacy, e) /\ UNCHANGED <<order, got>>
  BY <1>1, <1>2 DEF SendLegacy
<1>4. /\ legacy \in Seq(Legacy) /\ ChTypeOK /\ BuffersOK(legacy, order, got) /\ Size[e] \in Nat
  BY SizeOK DEF Shape, ChTypeOK, Events
<1>5. /\ LegacyBytes = Cardinality(BytesOf(legacy)) /\ LegacyBytes \in Nat
      /\ ChunkBytes = Cardinality(ItemBytes(GroupsOf(got))) /\ ChunkBytes \in Nat
      /\ legacy = <<>> => LegacyBytes = 0
      /\ order = <<>> => ChunkBytes = 0
  BY <1>4, BytesOK
<1>6. LegacyBytes + ChunkBytes + Size[e] <= MaxPendingBytes
  <2>1. CASE legacy # <<>>
    BY <1>3, <1>4, <1>5, <2>1, ClickHouseAssumption DEF NeedsLegacyFlush
  <2>2. CASE legacy = <<>>
    BY <1>3, <1>4, <1>5, <2>2, ClickHouseAssumption
  <2>. QED BY <2>1, <2>2
<1>7. Cardinality(BytesOf(legacy')) <= LegacyBytes + Size[e] /\ Cardinality(BytesOf(legacy')) \in Nat
  <2>1. Cardinality(BytesOf(Append(legacy, e))) <= Cardinality(BytesOf(legacy)) + Size[e]
    BY <1>4, AppendBytes
  <2>2. Append(legacy, e) \in Seq(Legacy)
    BY <1>4, AppendOK
  <2>3. Cardinality(BytesOf(Append(legacy, e))) \in Nat
    BY <2>2, LegacyBytesOK
  <2>. QED BY <1>3, <1>5, <2>1, <2>3
<1>8. Cardinality(BytesOf(legacy')) + ChunkBytes <= MaxPendingBytes
  BY <1>4, <1>5, <1>6, <1>7, ClickHouseAssumption
<1>. QED BY <1>3, <1>5, <1>8 DEF Bounds, Limits

\* send has put an item into its group.
LEMMA BoundsItem ==
  ASSUME Shape, Limits, Send, job.ev \in ChunkEvents, ~ UNCHANGED buffers
  PROVE  Bounds(legacy', order', got')
<1>1. SendChunkItem(job.ev)
  BY DEF Send, IsChunkAligned
<1>2. PICK e \in ChunkEvents : e = job.ev /\ e \in Events
  BY DEF Events
<1>3. PICK c \in Chunks, s \in Nat : c = e[1] /\ s = e[2] /\ e = <<c, s>>
  <2>1. e[1] \in Chunks /\ e[2] \in 1..Items[e[1]] /\ e = <<e[1], e[2]>> /\ Items[e[1]] \in Nat
    BY ChunkEvent
  <2>. QED BY <2>1
<1>4. /\ HasRoom(e) /\ legacy' = legacy /\ got' = [got EXCEPT ![c] = got[c] \cup {s}]
      /\ order' = IF c \in Range(order) THEN order ELSE Append(order, c)
  BY <1>1, <1>2, <1>3 DEF SendChunkItem
<1>5. /\ legacy \in Seq(Legacy) /\ order \in Seq(Chunks) /\ got \in [Chunks -> SUBSET Nat] /\ ChTypeOK
      /\ BuffersOK(legacy, order, got) /\ Size[e] \in Nat
  BY <1>2, SizeOK DEF Shape, ChTypeOK
<1>6. /\ LegacyBytes = Cardinality(BytesOf(legacy)) /\ LegacyBytes \in Nat
      /\ ChunkBytes = Cardinality(ItemBytes(GroupsOf(got))) /\ ChunkBytes \in Nat
      /\ ChunkItems = Cardinality(GroupsOf(got)) /\ ChunkItems \in Nat
  BY <1>5, BytesOK
<1> DEFINE there == s \in got[c]
<1>7. /\ Len(order) + (IF c \in Range(order) THEN 0 ELSE 1) <= MaxPendingGroups
      /\ ChunkItems + (IF there THEN 0 ELSE 1) <= MaxPendingItems
      /\ LegacyBytes + ChunkBytes + (IF there THEN 0 ELSE Size[e]) <= MaxPendingBytes
  BY <1>3, <1>4 DEF HasRoom
<1>8. GroupsOf(got') = GroupsOf(got) \cup {e}
  <2>1. got'[c] = got[c] \cup {s} /\ \A d \in Chunks : d # c => got'[d] = got[d]
    BY <1>4, <1>5
  <2>2. {c} \X got'[c] = ({c} \X got[c]) \cup {e}
    BY <1>3, <2>1
  <2>3. ASSUME NEW x \in GroupsOf(got') PROVE x \in GroupsOf(got) \cup {e}
    <3>1. PICK d \in Chunks : x \in {d} \X got'[d]
      BY DEF GroupsOf
    <3>. QED BY <2>1, <2>2, <3>1 DEF GroupsOf
  <2>4. ASSUME NEW x \in GroupsOf(got) PROVE x \in GroupsOf(got')
    <3>1. PICK d \in Chunks : x \in {d} \X got[d]
      BY DEF GroupsOf
    <3>. QED BY <2>1, <2>2, <3>1 DEF GroupsOf
  <2>5. e \in GroupsOf(got')
    BY <2>2 DEF GroupsOf
  <2>. QED BY <2>3, <2>4, <2>5
<1>9. there <=> e \in GroupsOf(got)
  BY <1>3 DEF GroupsOf
<1>10. GroupsOf(got) \subseteq Events /\ IsFiniteSet(GroupsOf(got))
  BY <1>5, BoundsTypes
<1> DEFINE G == GroupsOf(got)
<1>11. Cardinality(ItemBytes(G \cup {e})) <= Cardinality(ItemBytes(G)) + (IF e \in G THEN 0 ELSE Size[e])
  <2> HIDE DEF G
  <2>1. G \subseteq Events /\ IsFiniteSet(G)
    BY <1>10 DEF G
  <2>. QED BY <1>2, <2>1, AddItem
<1>12. Cardinality(G \cup {e}) = IF e \in G THEN Cardinality(G) ELSE Cardinality(G) + 1
  BY <1>10, FS_AddElement
<1>13. IsFiniteSet(G \cup {e}) /\ G \cup {e} \subseteq Events
  BY <1>2, <1>10, FS_AddElement
<1>14. Cardinality(ItemBytes(G \cup {e})) \in Nat
  BY <1>13, ItemBytesOK
<1>15. Len(order') <= MaxPendingGroups
  BY <1>4, <1>5, <1>7, AppendOK
<1>16. Cardinality(GroupsOf(got')) <= MaxPendingItems
  BY <1>6, <1>7, <1>8, <1>9, <1>12
<1>17. Cardinality(BytesOf(legacy')) + Cardinality(ItemBytes(GroupsOf(got'))) <= MaxPendingBytes
  <2>1. Cardinality(ItemBytes(GroupsOf(got'))) <= ChunkBytes + (IF there THEN 0 ELSE Size[e])
    BY <1>6, <1>8, <1>9, <1>11
  <2>2. Cardinality(ItemBytes(GroupsOf(got'))) \in Nat /\ Cardinality(BytesOf(legacy')) = LegacyBytes
    BY <1>4, <1>6, <1>8, <1>14
  <2>3. PICK x \in Nat : x = IF there THEN 0 ELSE Size[e]
    BY <1>5
  <2>4. LegacyBytes + ChunkBytes + x <= MaxPendingBytes /\ MaxPendingBytes \in Nat
    BY <1>7, <2>3, ClickHouseAssumption
  <2>5. LegacyBytes + (ChunkBytes + x) <= MaxPendingBytes /\ ChunkBytes + x \in Nat
    BY <1>6, <2>4
  <2>6. Cardinality(ItemBytes(GroupsOf(got'))) <= ChunkBytes + x
    BY <2>1, <2>3
  <2>. QED BY <1>6, <2>2, <2>4, <2>5, <2>6, SumLess
<1>. QED BY <1>15, <1>16, <1>17 DEF Bounds

LEMMA ClearedShrinks ==
  ASSUME Shape, job.at \in {"insert", "best"}, Cleared, Bounds(legacy, order, got)
  PROVE  Bounds(legacy', order', got')
<1>1. /\ legacy \in Seq(Legacy) /\ order \in Seq(Chunks) /\ got \in [Chunks -> SUBSET Nat] /\ BuffersOK(legacy, order, got)
  BY DEF Shape, ChTypeOK
<1>2. PICK m \in Seq(Legacy), p \in Seq(Chunks), h \in [Chunks -> SUBSET Nat] :
        /\ m = legacy' /\ p = order' /\ h = got' /\ BuffersOK(m, p, h) /\ (m = legacy \/ m = <<>>)
        /\ Len(p) <= Len(order) /\ \A c \in Chunks : h[c] \subseteq got[c]
  BY ClearedOK
<1>3. Bounds(m, p, h)
  BY <1>1, <1>2, BoundsShrink
<1>. QED BY <1>2, <1>3

\* The write ends: its last table has been reached, or the audit copy is given up.
Finishes == (InsertNext /\ Len(job.left) = 1) \/ (job.at = "best" /\ \E lost \in BOOLEAN : RequestFails(lost))

\* What a step of the monitor does to the buffers.
LEMMA MonitorBuffers ==
  ASSUME Shape, Monitor
  PROVE  \/ UNCHANGED <<legacy, order, got>>
         \/ Send /\ ~ UNCHANGED buffers
         \/ job.at \in {"insert", "best"} /\ Cleared /\ Finishes
<1>1. CASE Send
  BY <1>1 DEF buffers
<1>2. CASE Flush \/ FlushNextGroup \/ FlushEnds \/ Persist \/ PersistFails \/ \E c \in Chunks : Age(c)
  BY <1>2 DEF Flush, FlushNextGroup, FlushEnds, Persist, PersistFails, Age, Throw, buffers
<1>3. CASE InsertNext
  BY <1>3 DEF InsertNext, Written, Finishes, buffers
<1>4. CASE \E lost \in BOOLEAN : RequestFails(lost)
  BY <1>4 DEF RequestFails, Written, Finishes, Throw, buffers
<1>. QED BY <1>1, <1>2, <1>3, <1>4 DEF Monitor, InMonitor, Failing

LEMMA LimitsSteps ==
  ASSUME Core, Limits, [Next]_vars
  PROVE  Limits'
<1>1. /\ ChOK /\ WorkTypeOK /\ TurnOK /\ Shape /\ pending \in Seq(Events) /\ dlq \in Seq(Seq(Events))
      /\ op \in OpType /\ rejected \subseteq Events
  BY DEF Core, ChOK, WorkTypeOK, StoreTypeOK
<1>2. MaxPending \in Nat /\ MaxQueueBytes \in Nat /\ MaxDlqRecords \in Nat \ {0}
  BY DeliveryAssumption, ClickHouseAssumption
<1>3. Bounds(legacy', order', got')
  <2>1. CASE UNCHANGED <<legacy, order, got>>
    BY <2>1 DEF Limits
  <2>2. CASE Adapter
    <3>1. Monitor
      BY <2>2 DEF Adapter, Monitor
    <3>2. CASE Send /\ ~ UNCHANGED buffers
      BY <1>1, <3>2, BoundsLegacy, BoundsItem
    <3>. QED BY <1>1, <2>1, <3>1, <3>2, MonitorBuffers, ClearedShrinks DEF Limits
  <2>3. CASE Restart \/ Crash
    <3>1. legacy' = <<>> /\ order' = <<>> /\ got' = [c \in Chunks |-> {}]
      BY <2>3 DEF Restart, Crash
    <3>2. BytesOf(legacy') = {} /\ GroupsOf(got') = {} /\ Len(order') = 0
      BY <3>1, EmptyOK DEF BytesOf, GroupsOf
    <3>3. ItemBytes(GroupsOf(got')) = {}
      BY <3>2 DEF ItemBytes
    <3>. QED BY <3>2, <3>3, FS_EmptySet, ClickHouseAssumption DEF Bounds
  <2>. QED BY <2>1, <2>2, <2>3 DEF Next, Holding, Flushing, Start, Initialize, Call, Sent, NotSent, FlushFirst, Flushed, DrainNext,
              Drained, RetryFails, DrainEnds, CloseLocks, Closed, FlushTick, FlushEnters, Report, ReportToNobody,
              InitializeFails, RetryFires, CloseStarts, Deliver, Returned, buffers, chVars, vars
<1> DEFINE Small == Len(pending') <= MaxPending /\ Cardinality(BytesQueued(pending')) <= MaxQueueBytes
<1>4. Small
  <2>1. /\ Len(pending) <= MaxPending /\ Len(pending) \in Nat
        /\ Cardinality(BytesQueued(pending)) <= MaxQueueBytes /\ Cardinality(BytesQueued(pending)) \in Nat
    BY <1>1, QueuedOK DEF Limits, PendingBytes
  <2>2. ASSUME NEW e \in Events, Enqueue(e) PROVE Small
    <3>1. CASE /\ pending' = Append(pending, e) /\ Len(pending) < MaxPending
               /\ ~ (EventBytes[e] > MaxQueueBytes - PendingBytes)
      <4>1. Len(pending') = Len(pending) + 1 /\ pending' \in Seq(Events)
        BY <1>1, <3>1, AppendOK
      <4>2. Cardinality(BytesQueued(pending')) <= Cardinality(BytesQueued(pending)) + EventBytes[e]
        BY <1>1, <3>1, QueuedAppend
      <4>3. EventBytes[e] \in Nat /\ Cardinality(BytesQueued(pending')) \in Nat
        BY <4>1, QueuedOK, DeliveryAssumption
      <4>4. Cardinality(BytesQueued(pending)) + EventBytes[e] <= MaxQueueBytes
        BY <1>2, <2>1, <3>1, <4>3 DEF PendingBytes
      <4>. QED BY <1>2, <2>1, <3>1, <4>1, <4>2, <4>3, <4>4
    <3>2. CASE pending' = pending
      BY <2>1, <3>2
    <3>. QED BY <1>1, <2>2, <3>1, <3>2, EnqueueOK
  <2>3. CASE pending' = pending \/ pending' = <<>>
    <3>1. BytesQueued(<<>>) = {}
      BY DEF BytesQueued
    <3>. QED BY <1>2, <2>1, <2>3, <3>1, EmptyOK, FS_EmptySet
  <2>4. CASE NotSent
    <3>1. op.ev \in Events /\ Enqueue(op.ev)
      BY <1>1, <2>4 DEF NotSent, KeepFailed, TurnOK
    <3>. QED BY <2>2, <3>1
  <2>5. CASE Drained
    <3>1. pending # <<>> /\ pending' = Tail(pending)
      BY <1>1, <2>5 DEF Drained, Returned, TurnOK
    <3>2. Len(pending') = Len(pending) - 1 /\ pending' \in Seq(Events)
      BY <1>1, <3>1, Ends
    <3>3. /\ Cardinality(BytesQueued(pending')) <= Cardinality(BytesQueued(pending))
          /\ Cardinality(BytesQueued(pending')) \in Nat
      BY <1>1, <3>1, <3>2, QueuedTail, QueuedOK
    <3>. QED BY <1>2, <2>1, <3>2, <3>3
  <2>6. ASSUME NEW e \in Events, Deliver(e) PROVE Small
    BY <2>2, <2>3, <2>6 DEF Deliver
  <2> HIDE DEF Small
  <2>7. UNCHANGED pending => Small
    BY <2>3
  <2>8. CASE CloseLocks \/ Crash
    BY <2>3, <2>8 DEF CloseLocks, Crash
  <2>. QED BY <2>4, <2>5, <2>6, <2>7, <2>8 DEF Next, Adapter, Holding, Flushing, Start, Initialize, Call, Sent, FlushFirst, Flushed, DrainNext,
              RetryFails, DrainEnds, Closed, Restart, FlushTick, FlushEnters, Report, ReportToNobody,
              InitializeFails, RetryFires, CloseStarts, workerVars, vars
<1>5. Len(dlq') <= MaxDlqRecords
  <2>1. Len(dlq) <= MaxDlqRecords /\ Len(dlq) \in Nat
    BY <1>1 DEF Limits
  <2>2. CASE UNCHANGED dlq
    BY <2>1, <2>2
  <2>3. CASE Persist
    <3>1. job.recs \in Seq(Events)
      BY <1>1, <2>3, RecsOK DEF Persist
    <3> DEFINE room == IF Len(dlq) < MaxDlqRecords THEN dlq ELSE Tail(dlq)
    <3>2. dlq' = Append(room, job.recs)
      BY <2>3 DEF Persist
    <3>3. Len(dlq) >= MaxDlqRecords => dlq # <<>>
      BY <1>1, <1>2, EmptyOK
    <3>4. room \in Seq(Seq(Events)) /\ Len(room) < MaxDlqRecords /\ Len(room) \in Nat
      <4>1. CASE Len(dlq) < MaxDlqRecords
        BY <1>1, <2>1, <4>1
      <4>2. CASE ~ (Len(dlq) < MaxDlqRecords)
        <5>1. dlq # <<>>
          BY <1>2, <2>1, <3>3, <4>2
        <5>2. Tail(dlq) \in Seq(Seq(Events)) /\ Len(Tail(dlq)) = Len(dlq) - 1 /\ Len(dlq) \in Nat \ {0}
          BY <1>1, <5>1, Ends
        <5>. QED BY <1>2, <2>1, <4>2, <5>2
      <4>. QED BY <4>1, <4>2
    <3> HIDE DEF room
    <3>5. Len(dlq') = Len(room) + 1
      BY <3>1, <3>2, <3>4, AppendOK
    <3>. QED BY <1>2, <3>4, <3>5
  <2>4. CASE Adapter
    <3>. QED BY <2>2, <2>3, <2>4 DEF Adapter, InMonitor, Failing, Send, Flush, FlushNextGroup, FlushEnds, InsertNext,
                RequestFails, PersistFails, Age, durable
  <2>. QED BY <2>2, <2>4 DEF Next, Holding, Flushing, Start, Initialize, Call, Sent, NotSent, FlushFirst, Flushed, DrainNext,
              Drained, RetryFails, DrainEnds, CloseLocks, Closed, Restart, FlushTick, FlushEnters, Report, ReportToNobody,
              InitializeFails, RetryFires, CloseStarts, Crash, Deliver, Returned, durable, chVars, vars
<1>. QED BY <1>3, <1>4, <1>5 DEF Limits, PendingBytes

\* The buffers of the adapter, the retry queue (its events and their estimated bytes, as
\* enqueue of OutputDeliveryWorker limits them) and the DLQ's records stay within their
\* configured limits.
THEOREM WithinLimits == Spec => []MemoryBounded
<1>1. Init => Core /\ Limits
  <2>1. SUFFICES ASSUME Init PROVE Limits
    BY CoreInit
  <2>2. legacy = <<>> /\ order = <<>> /\ got = [c \in Chunks |-> {}] /\ pending = <<>> /\ dlq = <<>>
    BY <2>1 DEF Init, ChInit, EmptyBuffers
  <2>3. BytesOf(legacy) = {} /\ GroupsOf(got) = {}
    BY <2>2 DEF BytesOf, GroupsOf
  <2>4. ItemBytes(GroupsOf(got)) = {}
    BY <2>3 DEF ItemBytes
  <2>5. /\ Cardinality(BytesOf(legacy)) = 0 /\ Cardinality(GroupsOf(got)) = 0
        /\ Cardinality(ItemBytes(GroupsOf(got))) = 0 /\ Len(order) = 0 /\ Len(pending) = 0 /\ Len(dlq) = 0
    BY <2>2, <2>3, <2>4, EmptyOK, FS_EmptySet
  <2>6. PendingBytes = 0
    BY <2>2, FS_EmptySet DEF PendingBytes, BytesQueued
  <2>. QED BY <2>5, <2>6, ClickHouseAssumption, DeliveryAssumption DEF Limits, Bounds
<1>2. Core /\ Limits /\ [Next]_vars => Core' /\ Limits'
  BY CoreStep, LimitsSteps
<1>3. Core /\ Limits => MemoryBounded
  BY LimitsMean DEF Core, ChOK
<1>. QED BY <1>1, <1>2, <1>3, PTL DEF Spec

--------------------------------------------------------------------------------
(* Where an event the adapter has been given is                                 *)

Kept(e) == e \in Buffered \cup InDlq \cup pruned \/ Stored(e)

\* Only a call without an event of its own flushes.
QuietOK == job.at \in {"flush", "groups"} => job.ev = None

\* The audit copy is written after the DLQ record.
BestOK == job.at = "best" => Range(job.recs) \subseteq InDlq \cup pruned

DlqOf(s) == UNION {Range(s[i]) : i \in DOMAIN s}

LEMMA DlqOfOK ==
  ASSUME NEW s \in Seq(Seq(Events))
  PROVE  /\ \A r \in Seq(Events) : DlqOf(Append(s, r)) = DlqOf(s) \cup Range(r)
         /\ s # <<>> => DlqOf(s) = Range(Head(s)) \cup DlqOf(Tail(s))
<1>1. ASSUME NEW q \in Seq(Seq(Events)), NEW x
      PROVE  x \in DlqOf(q) <=> \E r \in Range(q) : x \in Range(r)
  <2>1. DOMAIN q = 1..Len(q) /\ \A r : r \in Range(q) <=> \E i \in 1..Len(q) : q[i] = r
    BY RangeOK
  <2>2. x \in DlqOf(q) <=> \E i \in 1..Len(q) : x \in Range(q[i])
    BY <2>1 DEF DlqOf
  <2>. QED BY <2>1, <2>2
<1>2. ASSUME NEW r \in Seq(Events) PROVE DlqOf(Append(s, r)) = DlqOf(s) \cup Range(r)
  <2>1. Append(s, r) \in Seq(Seq(Events)) /\ Range(Append(s, r)) = Range(s) \cup {r}
    BY AppendOK
  <2>2. \A x : x \in DlqOf(Append(s, r)) <=> x \in DlqOf(s) \/ x \in Range(r)
    BY <1>1, <2>1
  <2>. QED BY <2>2
<1>3. ASSUME s # <<>> PROVE DlqOf(s) = Range(Head(s)) \cup DlqOf(Tail(s))
  <2>1. Tail(s) \in Seq(Seq(Events)) /\ Range(s) = {Head(s)} \cup Range(Tail(s))
    BY <1>3, Ends
  <2>2. \A x : x \in DlqOf(s) <=> x \in Range(Head(s)) \/ x \in DlqOf(Tail(s))
    BY <1>1, <2>1
  <2>. QED BY <2>2
<1>. QED BY <1>2, <1>3

\* What is set aside stays in the DLQ or has been pruned.
LEMMA SetAsideStays ==
  ASSUME ChOK, Monitor
  PROVE  /\ InDlq \cup pruned \subseteq InDlq' \cup pruned'
         /\ Persist => Range(job.recs) \subseteq InDlq'
<1>1. CASE Persist
  <2>1. job.recs \in Seq(Events) /\ dlq \in Seq(Seq(Events))
    BY <1>1, RecsOK DEF ChOK, StoreTypeOK, Persist
  <2> DEFINE room == IF Len(dlq) < MaxDlqRecords THEN dlq ELSE Tail(dlq)
  <2>2. dlq' = Append(room, job.recs) /\ pruned' = pruned \cup (IF room = dlq THEN {} ELSE Range(Head(dlq)))
    BY <1>1 DEF Persist
  <2>3. room \in Seq(Seq(Events)) /\ (room # dlq => dlq # <<>>)
    <3>1. Len(dlq) >= MaxDlqRecords => dlq # <<>>
      BY <2>1, EmptyOK, ClickHouseAssumption
    <3>. QED BY <2>1, <3>1, Ends, ClickHouseAssumption
  <2>4. DlqOf(dlq) \subseteq DlqOf(room) \cup (IF room = dlq THEN {} ELSE Range(Head(dlq)))
    <3>1. CASE room = dlq
      BY <3>1
    <3>2. CASE room # dlq
      <4>1. room = Tail(dlq) /\ dlq # <<>>
        BY <2>3, <3>2
      <4>. QED BY <2>1, <3>2, <4>1, DlqOfOK
    <3>. QED BY <3>1, <3>2
  <2> HIDE DEF room
  <2>5. DlqOf(dlq') = DlqOf(room) \cup Range(job.recs)
    BY <2>1, <2>2, <2>3, DlqOfOK
  <2>6. InDlq = DlqOf(dlq) /\ InDlq' = DlqOf(dlq')
    BY DEF InDlq, DlqOf
  <2>. QED BY <2>2, <2>4, <2>5, <2>6
<1>2. CASE ~ Persist
  <2>1. UNCHANGED <<dlq, pruned>>
    BY <1>2 DEF Monitor, InMonitor, Failing, Send, Flush, FlushNextGroup, FlushEnds, InsertNext, RequestFails, PersistFails,
                Age, durable
  <2>. QED BY <1>2, <2>1 DEF InDlq
<1>. QED BY <1>1, <1>2

\* Rows do not go away.
LEMMA RowsGrow ==
  ASSUME ChOK, Monitor
  PROVE  \A u \in Tables, e \in Events : rows'[u][e] >= rows[u][e]
<1>1. Shape /\ StoreTypeOK /\ TokensOK /\ rows \in [Tables -> [Events -> Nat]]
  BY DEF ChOK, StoreTypeOK
<1>2. CASE UNCHANGED clickhouse
  BY <1>1, <1>2 DEF clickhouse
<1>3. CASE job.at \in {"insert", "best"} /\ Insert(Head(job.left))
  BY <1>1, <1>3, RequestOK
<1>4. UNCHANGED clickhouse \/ (job.at \in {"insert", "best"} /\ Insert(Head(job.left)))
  BY DEF Monitor, InMonitor, Failing, Send, Flush, FlushNextGroup, FlushEnds, InsertNext, RequestFails, Persist, PersistFails,
         Age, durable
<1>. QED BY <1>2, <1>3, <1>4

LEMMA StoredStays ==
  ASSUME ChOK, Monitor, NEW e \in Events, Stored(e)
  PROVE  Stored(e)'
<1>1. \A t \in Tables : rows[t][e] \in Nat /\ rows'[t][e] \in Nat
  BY MonitorStore DEF ChOK, StoreTypeOK
<1>2. \A t \in Tables : rows'[t][e] >= rows[t][e]
  BY RowsGrow
<1>3. \A t \in Tables : HasRows(e, t) => rows'[t][e] > 0
  BY <1>1, <1>2 DEF Stored
<1>4. Stored(e)' <=> \A t \in Tables : HasRows(e, t) => rows'[t][e] > 0
  BY DEF Stored, HasRows
<1>. QED BY <1>3, <1>4

\* When a write ends, its records are stored or set aside.
LEMMA FinishedKept ==
  ASSUME ChOK, BestOK, Monitor, Finishes, NEW e \in Range(job.recs)
  PROVE  /\ job.at = "insert" => Stored(e)'
         /\ job.at # "insert" => job.at = "best" /\ e \in InDlq' \cup pruned'
<1>1. Shape /\ StoreTypeOK /\ TokensOK /\ WrittenSoFar /\ job.at \in {"insert", "best"}
  BY DEF ChOK, Finishes, InsertNext
<1>2. CASE job.at = "best"
  BY <1>2, SetAsideStays DEF BestOK
<1>3. CASE job.at = "insert"
  <2>1. InsertNext /\ Len(job.left) = 1 /\ Insert(Head(job.left))
    BY <1>3 DEF Finishes, InsertNext
  <2>2. /\ \A x \in Range(job.recs) : HasRows(x, Head(job.left)) => rows'[Head(job.left)][x] > 0
        /\ \A u \in Tables, x \in Events : rows'[u][x] >= rows[u][x]
        /\ rows' \in [Tables -> [Events -> Nat]]
    BY <1>1, <2>1, RequestOK
  <2>3. e \in Events /\ job.left \in Seq(Tables) /\ job.left # <<>>
    <3>1. job.recs \in Seq(Events) /\ job \in JobType /\ job.left # <<>>
      BY <1>1, RecsOK, AtInsert DEF Shape, ChTypeOK
    <3>. QED BY <3>1, RangeOK DEF JobType
  <2>4. \A x \in Range(job.left) : x = Head(job.left)
    <3>1. Range(job.left) = {Head(job.left)} \cup Range(Tail(job.left)) /\ (Tail(job.left) = <<>> <=> Len(job.left) = 1)
      BY <2>3, Ends
    <3>. QED BY <2>1, <3>1, EmptyOK
  <2>5. ASSUME NEW t \in Tables, HasRows(e, t) PROVE rows'[t][e] > 0
    <3>1. CASE t = Head(job.left)
      BY <2>2, <2>5, <3>1
    <3>2. CASE t # Head(job.left)
      <4>1. t \in Tables \ Range(job.left)
        BY <2>4, <3>2
      <4>2. rows[t][e] > 0
        BY <1>1, <1>3, <2>5, <4>1 DEF WrittenSoFar
      <4>3. rows[t][e] \in Nat /\ rows'[t][e] \in Nat /\ rows'[t][e] >= rows[t][e]
        BY <1>1, <2>2, <2>3 DEF StoreTypeOK
      <4>. QED BY <4>2, <4>3
    <3>. QED BY <3>1, <3>2
  <2>. QED BY <1>3, <2>5 DEF Stored, HasRows
<1>. QED BY <1>1, <1>2, <1>3

\* What leaves the buffers has been written.
LEMMA ClearedKeeps ==
  ASSUME Shape, job.at \in {"insert", "best"}, Cleared, NEW e \in Buffered
  PROVE  e \in Buffered' \/ e \in Range(job.recs)
<1>1. /\ legacy' = IF job.what = "legacy" THEN <<>> ELSE legacy
      /\ \A d \in Chunks : got'[d] = IF job.what = "group" /\ d = job.chunk THEN {} ELSE got[d]
  BY ClearedOK
<1>2. /\ job.what = "legacy" => job.recs = legacy
      /\ job.what = "group" => Range(job.recs) = {job.chunk} \X got[job.chunk]
  BY RecsOK
<1>3. CASE e \in Range(legacy)
  BY <1>1, <1>2, <1>3 DEF Buffered
<1>4. CASE e \in InGroups
  <2>1. PICK c \in Chunks : e \in {c} \X got[c]
    BY <1>4 DEF InGroups, ItemsOf
  <2>2. CASE job.what = "group" /\ c = job.chunk
    BY <1>2, <2>1, <2>2
  <2>3. CASE ~ (job.what = "group" /\ c = job.chunk)
    <3>1. e \in {c} \X got'[c]
      BY <1>1, <2>1, <2>3
    <3>. QED BY <3>1 DEF Buffered, InGroups, ItemsOf
  <2>. QED BY <2>2, <2>3
<1>. QED BY <1>3, <1>4 DEF Buffered

LEMMA PutsBuffered ==
  ASSUME Shape, NEW e \in Events, Puts(e)
  PROVE  Buffered \subseteq Buffered' /\ e \in Buffered'
<1>1. legacy \in Seq(Legacy) /\ got \in [Chunks -> SUBSET Nat]
  BY DEF Shape, ChTypeOK
<1>2. CASE e \in Legacy /\ legacy' = Append(legacy, e) /\ UNCHANGED <<order, got, old>>
  <2>1. Range(legacy') = Range(legacy) \cup {e}
    BY <1>1, <1>2, AppendOK
  <2>. QED BY <1>2, <2>1 DEF Buffered, InGroups, ItemsOf
<1>3. CASE e \in ChunkEvents /\ got' = [got EXCEPT ![e[1]] = got[e[1]] \cup {e[2]}] /\ legacy' = legacy
  <2>1. PICK c \in Chunks, s \in 1..Items[e[1]] : c = e[1] /\ s = e[2] /\ e = <<c, s>>
    BY <1>3, ChunkEvent
  <2>2. got'[c] = got[c] \cup {s} /\ \A d \in Chunks : got[d] \subseteq got'[d]
    BY <1>1, <1>3, <2>1
  <2>3. e \in {c} \X got'[c]
    BY <2>1, <2>2
  <2>. QED BY <1>3, <2>2, <2>3 DEF Buffered, InGroups, ItemsOf
<1>. QED BY <1>2, <1>3 DEF Puts

LEMMA KeptStays ==
  ASSUME ChOK, BestOK, Monitor, NEW e \in Events, Kept(e)
  PROVE  Kept(e)'
<1>1. Shape
  BY DEF ChOK
<1>2. CASE Stored(e)
  BY <1>2, StoredStays DEF Kept
<1>3. CASE e \in InDlq \cup pruned
  BY <1>3, SetAsideStays DEF Kept
<1>4. CASE e \in Buffered
  <2>1. CASE UNCHANGED <<legacy, order, got>>
    BY <1>4, <2>1 DEF Kept, Buffered, InGroups, ItemsOf
  <2>2. CASE Send /\ ~ UNCHANGED buffers
    <3>1. Puts(job.ev) /\ job.ev \in Events
      BY <1>1, <2>2, SendOK DEF Diverts, Send, Shape, JobOK
    <3>. QED BY <1>1, <1>4, <3>1, PutsBuffered DEF Kept
  <2>3. CASE job.at \in {"insert", "best"} /\ Cleared /\ Finishes
    <3>1. e \in Buffered' \/ e \in Range(job.recs)
      BY <1>1, <1>4, <2>3, ClearedKeeps
    <3>. QED BY <2>3, <3>1, FinishedKept DEF Kept
  <2>. QED BY <1>1, <2>1, <2>2, <2>3, MonitorBuffers
<1>. QED BY <1>2, <1>3, <1>4 DEF Kept

LEMMA BestSteps ==
  ASSUME ChOK, BestOK, Monitor
  PROVE  BestOK'
<1>1. Shape /\ job \in JobType
  BY DEF ChOK, Shape, ChTypeOK
<1>2. job'.at # "best" => BestOK'
  BY DEF BestOK
<1>3. CASE Persist
  <2>1. job'.recs = job.recs /\ Range(job.recs) \subseteq InDlq'
    BY <1>1, <1>3, PersistedOK, SetAsideStays
  <2>. QED BY <2>1 DEF BestOK
<1>4. CASE Send
  <2>1. job'.at # "best"
    BY <1>1, <1>4, SendOK, NoJobOK DEF Puts, Diverts, Begun, Leave
  <2>. QED BY <1>2, <2>1
<1>5. CASE Flush \/ FlushNextGroup \/ FlushEnds
  BY <1>1, <1>2, <1>5, FlushOK
<1>6. CASE job.at \in {"insert", "best"} /\ (Written \/ Throw)
  <2>1. CASE \E outcome \in {"ok", "failed"} : Leave(outcome)
    BY <1>2, <2>1, NoJobOK DEF Leave
  <2>2. CASE Resume
    BY <1>1, <1>2, <1>6, <2>2, ResumeOK, NoJobOK DEF Leave
  <2>. QED BY <1>6, <2>1, <2>2 DEF Written, Throw
<1>7. CASE InsertNext /\ Len(job.left) # 1
  <2>1. job.at \in {"insert", "best"} /\ job' = [job EXCEPT !.left = Tail(@)] /\ UNCHANGED <<buffers, result>>
    BY <1>7 DEF InsertNext
  <2>2. job'.at = "insert"
    BY <1>1, <1>7, <2>1, NextTableOK
  <2>. QED BY <1>2, <2>2
<1>8. CASE (InsertNext /\ Len(job.left) = 1) \/ (\E lost \in BOOLEAN : RequestFails(lost))
  BY <1>6, <1>8 DEF InsertNext, RequestFails
<1>9. CASE PersistFails
  <2>1. Leave("failed")
    BY <1>9 DEF PersistFails, Throw
  <2>. QED BY <1>2, <2>1, NoJobOK DEF Leave
<1>10. CASE \E c \in Chunks : Age(c)
  <2>1. UNCHANGED <<job, dlq, pruned>>
    BY <1>10 DEF Age, durable
  <2>. QED BY <2>1 DEF BestOK, InDlq
<1>. QED BY <1>3, <1>4, <1>5, <1>7, <1>8, <1>9, <1>10 DEF Monitor, InMonitor, Failing

LEMMA QuietSteps ==
  ASSUME ChOK, QuietOK, Monitor
  PROVE  QuietOK'
<1>1. Shape /\ job \in JobType
  BY DEF ChOK, Shape, ChTypeOK
<1>2. job'.at \notin {"flush", "groups"} => QuietOK'
  BY DEF QuietOK
<1>3. CASE Persist
  BY <1>1, <1>2, <1>3, PersistedOK
<1>4. CASE Send
  <2>1. job'.at \notin {"flush", "groups"}
    BY <1>1, <1>4, SendOK, NoJobOK DEF Puts, Diverts, Begun, Leave
  <2>. QED BY <1>2, <2>1
<1>5. CASE Flush \/ FlushNextGroup \/ FlushEnds
  <2>1. job.ev = None
    BY <1>5 DEF QuietOK, Flush, FlushNextGroup, FlushEnds
  <2>2. job'.ev = None
    BY <1>1, <1>5, <2>1, FlushOK, NoJobOK DEF Leave
  <2>. QED BY <2>2 DEF QuietOK
<1>6. CASE job.at \in {"insert", "best"} /\ (Written \/ Throw)
  <2>1. CASE \E outcome \in {"ok", "failed"} : Leave(outcome)
    BY <1>2, <2>1, NoJobOK DEF Leave
  <2>2. CASE Resume /\ ~ job.placed
    <3>1. job.by # "caller" => job.ev = None
      BY <1>1, <1>6, AtInsert
    <3> DEFINE at == IF job.by = "caller" /\ job.ev # None THEN "send"
                     ELSE IF job.what = "legacy" THEN "flush" ELSE "groups"
    <3>2. job' = [job EXCEPT !.what = "none", !.chunk = None, !.recs = <<>>, !.left = <<>>, !.at = at]
      BY <2>2 DEF Resume
    <3>3. job'.at = at /\ job'.ev = job.ev
      BY <1>1, <3>2 DEF JobType
    <3>. QED BY <3>1, <3>3 DEF QuietOK
  <2>3. CASE Resume /\ job.placed
    BY <2>1, <2>3 DEF Resume
  <2>. QED BY <1>6, <2>1, <2>2, <2>3 DEF Written, Throw
<1>7. CASE InsertNext /\ Len(job.left) # 1
  <2>1. job.at \in {"insert", "best"} /\ job' = [job EXCEPT !.left = Tail(@)] /\ UNCHANGED <<buffers, result>>
    BY <1>7 DEF InsertNext
  <2>2. job'.at = "insert"
    BY <1>1, <1>7, <2>1, NextTableOK
  <2>. QED BY <1>2, <2>2
<1>8. CASE (InsertNext /\ Len(job.left) = 1) \/ (\E lost \in BOOLEAN : RequestFails(lost))
  BY <1>6, <1>8 DEF InsertNext, RequestFails
<1>9. CASE PersistFails
  <2>1. Leave("failed")
    BY <1>9 DEF PersistFails, Throw
  <2>. QED BY <1>2, <2>1, NoJobOK DEF Leave
<1>10. CASE \E c \in Chunks : Age(c)
  <2>1. UNCHANGED job
    BY <1>10 DEF Age
  <2>. QED BY <2>1 DEF QuietOK
<1>. QED BY <1>3, <1>4, <1>5, <1>7, <1>8, <1>9, <1>10 DEF Monitor, InMonitor, Failing

\* A send that returns has kept its event; the only item of its chunk is stored.
LEMMA SentKept ==
  ASSUME ChOK, BestOK, QuietOK, Monitor, job.by = "caller", result.caller = "none", result'.caller = "ok",
         NEW e \in Events, job.ev = e
  PROVE  Kept(e)' /\ (e \in ChunkEvents /\ Items[e[1]] = 1 => Stored(e)')
<1>1. Shape /\ job \in JobType /\ result \in ResultType /\ JobOK(job, legacy, order, got)
  BY DEF ChOK, Shape, ChTypeOK
<1>2. result' # result /\ e # None /\ job.ev = e
  BY NoneIsNothing
<1>3. ~ Leave("failed")
  BY <1>1, LeaveOK
<1>4. CASE Send
  <2>1. Puts(e)
    BY <1>1, <1>2, <1>4, SendOK DEF Diverts
  <2>2. e \in ChunkEvents => Items[e[1]] # 1
    BY <2>1, ClickHouseAssumption DEF Puts
  <2>. QED BY <1>1, <2>1, <2>2, PutsBuffered DEF Kept
<1>5. CASE Flush \/ FlushNextGroup \/ FlushEnds
  BY <1>2, <1>5 DEF QuietOK, Flush, FlushNextGroup, FlushEnds
<1>6. CASE Finishes /\ Written
  <2>1. job.at \in {"insert", "best"}
    BY <1>6 DEF Finishes, InsertNext
  <2>2. e \in Range(job.recs)
    <3>1. CASE job.what = "one"
      BY <1>1, <1>2, <2>1, <3>1, RecsOK
    <3>2. CASE job.what # "one"
      <4>1. Resume
        BY <1>6, <3>2 DEF Written
      <4>2. job.placed
        BY <1>2, <4>1 DEF Resume
      <4>. QED BY <1>1, <1>2, <4>2 DEF JobOK
    <3>. QED BY <3>1, <3>2
  <2>3. CASE job.at = "insert"
    BY <1>6, <2>2, <2>3, FinishedKept DEF Kept
  <2>4. CASE job.at = "best"
    <3>1. SetsAside(job, got)
      BY <1>1, <2>4 DEF JobOK
    <3>2. job.what = "one"
      <4>1. SUFFICES ASSUME job.what # "one" PROVE FALSE
        OBVIOUS
      <4>2. Resume
        BY <1>6, <4>1 DEF Written
      <4>. QED BY <1>2, <3>1, <4>2 DEF Resume, SetsAside
    <3>3. e \in MineOf(job.chunk) /\ Items[job.chunk] # 1 /\ job.chunk \in Chunks
      BY <1>2, <3>1, <3>2 DEF SetsAside
    <3>4. e[1] = job.chunk
      BY <3>3 DEF MineOf
    <3>. QED BY <1>6, <2>2, <2>4, <3>3, <3>4, FinishedKept DEF Kept
  <2>. QED BY <2>1, <2>3, <2>4
<1>7. CASE InsertNext
  BY <1>2, <1>6, <1>7 DEF InsertNext, Finishes
<1>8. CASE \E lost \in BOOLEAN : RequestFails(lost)
  <2>1. job.at = "best" /\ Written
    BY <1>3, <1>8 DEF RequestFails, Throw
  <2>. QED BY <1>6, <1>8, <2>1 DEF Finishes
<1>9. CASE Persist \/ \E c \in Chunks : Age(c)
  BY <1>2, <1>9 DEF Persist, Age
<1>10. CASE PersistFails
  BY <1>3, <1>10 DEF PersistFails, Throw
<1>. QED BY <1>4, <1>5, <1>7, <1>8, <1>9, <1>10 DEF Monitor, InMonitor, Failing

--------------------------------------------------------------------------------
(* No event is lost without a word                                              *)

\* What a send that has returned may rely on: its event is kept, and stored if it is
\* the only item of its chunk.
Safe(e) == Kept(e) /\ (e \in ChunkEvents /\ Items[e[1]] = 1 => Stored(e))

\* The event of the call has been sent, until the lock is given up or the next is sent.
Done(e) == op.ev = e /\ ((op.at = "wait" /\ result.caller = "ok") \/ op.at = "drain")
SentOK  == op.ev # None /\ Done(op.ev) => Safe(op.ev)

\* An adapter that has been let go holds nothing that is not counted as dropped.
GoneOK == op.at = "gone" /\ worker.adapter => Buffered \subseteq dropped

Accounted == There /\ QuietOK /\ BestOK /\ SentOK /\ GoneOK

LEMMA AccountedFacts ==
  ASSUME Accounted
  PROVE  /\ There /\ Core /\ ChOK /\ WorkTypeOK /\ TurnOK /\ Shape /\ job \in JobType /\ result \in ResultType
         /\ op \in OpType /\ pending \in Seq(Events) /\ worker \in WorkerType
         /\ HasAdapter(worker, op) /\ NoAdapter /\ QuietOK /\ BestOK /\ SentOK /\ GoneOK
BY ThereFacts DEF Accounted

\* Steps outside the monitor leave what is kept where it is.
Outside == UNCHANGED <<buffers, durable>>

LEMMA OutsideOK ==
  ASSUME Outside
  PROVE  /\ \A e : Kept(e)' <=> Kept(e)
         /\ \A e : Safe(e)' <=> Safe(e)
         /\ \A e : Stored(e)' <=> Stored(e)
         /\ Buffered' = Buffered /\ InDlq' = InDlq /\ pruned' = pruned
BY DEF Outside, buffers, durable, clickhouse, Safe, Kept, Stored, HasRows, Buffered, InGroups, ItemsOf, InDlq

LEMMA StepsOutside ==
  ASSUME [Next]_vars
  PROVE  (Adapter /\ Monitor) \/ Restart \/ Crash \/ Outside
BY DEF Next, Adapter, Monitor, Holding, Flushing, Start, Initialize, Call, Sent, NotSent, FlushFirst, Flushed, DrainNext,
       Drained, RetryFails, DrainEnds, CloseLocks, Closed, FlushTick, FlushEnters, Report, ReportToNobody,
       InitializeFails, RetryFires, CloseStarts, Deliver, Returned, Outside, chVars, vars

LEMMA QuietBestSteps ==
  ASSUME Accounted, [Next]_vars
  PROVE  QuietOK' /\ BestOK'
<1>1. Core /\ ChOK /\ QuietOK /\ BestOK /\ Shape /\ TurnOK
  BY AccountedFacts
<1>2. CASE Adapter /\ Monitor
  BY <1>1, <1>2, BestSteps, QuietSteps
<1>3. CASE Restart \/ Crash
  <2>1. job'.at = "idle"
    BY <1>3, NoJobOK DEF Restart, Crash
  <2>. QED BY <2>1 DEF QuietOK, BestOK
<1>4. CASE Outside /\ UNCHANGED job
  BY <1>1, <1>4, OutsideOK DEF QuietOK, BestOK
<1>5. CASE Call
  <2>1. job'.ev = op.ev /\ job'.at = IF op.ev = None THEN "flush" ELSE "send"
    BY <1>1, <1>5, CallOK
  <2>. QED BY <2>1 DEF QuietOK, BestOK
<1>6. CASE FlushEnters /\ ~ UNCHANGED job
  <2>1. job'.at = "flush" /\ job'.ev = None
    BY <1>1, <1>6, FlushEntersOK
  <2>. QED BY <2>1 DEF QuietOK, BestOK
<1>7. (Adapter /\ Monitor) \/ Restart \/ Crash \/ Call \/ FlushEnters \/ UNCHANGED job
  BY DEF Next, Adapter, Monitor, Holding, Flushing, Start, Initialize, Sent, NotSent, FlushFirst, Flushed, DrainNext,
       Drained, RetryFails, DrainEnds, CloseLocks, Closed, FlushTick, Report, ReportToNobody,
       InitializeFails, RetryFires, CloseStarts, Deliver, Returned, chVars, vars
<1>. QED BY <1>2, <1>3, <1>4, <1>5, <1>6, <1>7, StepsOutside

LEMMA GoneSteps ==
  ASSUME Accounted, [Next]_vars
  PROVE  GoneOK'
<1>1. /\ There /\ Core /\ ChOK /\ WorkTypeOK /\ TurnOK /\ Shape /\ op \in OpType /\ worker \in WorkerType /\ GoneOK
  BY AccountedFacts
<1>2. ASSUME op'.at # "gone" PROVE GoneOK'
  BY <1>2 DEF GoneOK
<1>3. CASE Adapter /\ Monitor
  <2>1. UNCHANGED <<op, worker, dropped>>
    BY <1>3 DEF Adapter, workerVars
  <2>2. CASE op.at = "gone"
    <3>1. ~ Send
      BY <1>1, <2>2 DEF TurnOK, Awaited, Send, Shape, JobOK
    <3>2. UNCHANGED <<legacy, order, got>> \/ (job.at \in {"insert", "best"} /\ Cleared)
      BY <1>1, <1>3, <3>1, MonitorBuffers
    <3>3. Buffered' \subseteq Buffered
      <4>1. CASE UNCHANGED <<legacy, order, got>>
        BY <4>1 DEF Buffered, InGroups, ItemsOf
      <4>2. CASE job.at \in {"insert", "best"} /\ Cleared
        <5>1. /\ legacy' = IF job.what = "legacy" THEN <<>> ELSE legacy
              /\ \A d \in Chunks : got'[d] = IF job.what = "group" /\ d = job.chunk THEN {} ELSE got[d]
          BY <1>1, <4>2, ClearedOK
        <5>2. Range(legacy') \subseteq Range(legacy) /\ \A d \in Chunks : {d} \X got'[d] \subseteq {d} \X got[d]
          BY <5>1, EmptyOK
        <5>. QED BY <5>2 DEF Buffered, InGroups, ItemsOf
      <4>. QED BY <3>2, <4>1, <4>2
    <3>. QED BY <1>1, <2>1, <2>2, <3>3 DEF GoneOK
  <2>. QED BY <1>2, <2>1, <2>2
<1>4. CASE Restart \/ Crash
  <2>1. op' = Free
    BY <1>4 DEF Restart, Crash
  <2>. QED BY <1>2, <2>1, FreeOK
<1>5. CASE Outside /\ op' = op /\ worker'.adapter = worker.adapter /\ dropped' = dropped
  BY <1>1, <1>5, OutsideOK DEF GoneOK
<1>6. CASE Closed
  <2>1. Outside /\ dropped' = dropped \cup Buffered
    BY <1>6 DEF Closed, Returned, Outside
  <2>. QED BY <2>1, OutsideOK DEF GoneOK
<1>7. CASE CloseLocks
  <2>1. /\ worker' = [worker EXCEPT !.retry = FALSE]
        /\ op' = [Free EXCEPT !.by = "close", !.at = IF worker.adapter THEN "call" ELSE "gone"]
    BY <1>7 DEF CloseLocks
  <2>2. worker'.adapter = worker.adapter
    BY <1>1, <2>1 DEF WorkerType
  <2>3. worker.adapter => Opens(op', "close", "call")
    BY <2>1, FreeSet
  <2>. QED BY <2>2, <2>3 DEF GoneOK, Opens
<1>8. CASE Start \/ RetryFires
  <2>1. op' = Free \/ Opens(op', "start", "init") \/ Opens(op', "retry", "flush") \/ Opens(op', "retry", "init")
    BY <1>8, FreeSet DEF Start, RetryFires
  <2>. QED BY <1>2, <2>1, FreeOK DEF Opens
<1>9. CASE Initialize \/ InitializeFails \/ Sent \/ NotSent \/ RetryFails \/ DrainEnds \/ Call \/ FlushFirst \/ Flushed \/ DrainNext \/ Drained
  <2>1. op'.at # "gone"
    BY <1>1, <1>9, FreeOK DEF Initialize, InitializeFails, Sent, NotSent, RetryFails, DrainEnds, Call, FlushFirst, Flushed,
                              DrainNext, Drained, OpType
  <2>. QED BY <1>2, <2>1
<1>10. ASSUME NEW e \in Events, Deliver(e) PROVE GoneOK'
  <2>1. op = Free /\ (op' = Free \/ op'.at = "call")
    BY <1>10, FreeDeliver DEF Deliver
  <2>. QED BY <1>2, <2>1, FreeOK
<1>11. CASE FlushTick \/ FlushEnters \/ ReportToNobody \/ Report \/ CloseStarts \/ UNCHANGED vars
  <2>1. op' = op /\ dropped' = dropped /\ Outside
    BY <1>11 DEF FlushTick, FlushEnters, ReportToNobody, Report, CloseStarts, vars, workerVars, Outside, chVars
  <2>2. worker'.adapter = worker.adapter
    <3>1. [worker EXCEPT !.closed = TRUE].adapter = worker.adapter
      BY <1>1 DEF WorkerType
    <3>2. Reported(worker).adapter = worker.adapter
      BY <1>1, ReportedOK
    <3>. QED BY <1>11, <3>1, <3>2 DEF FlushTick, FlushEnters, ReportToNobody, Report, CloseStarts, vars, workerVars
  <2>. QED BY <1>5, <2>1, <2>2
<1>12. Adapter => Monitor
  BY DEF Adapter, Monitor
<1>. QED BY <1>3, <1>4, <1>6, <1>7, <1>8, <1>9, <1>10, <1>11, <1>12 DEF Next, Holding, Flushing

\* The answer of a send, as it comes out of the monitor.
LEMMA AnswerOK ==
  ASSUME Accounted, Adapter, NEW e \in Events, op.ev = e, op.at = "wait", result'.caller = "ok"
  PROVE  result.caller = "ok" \/ Safe(e)'
<1>1. /\ There /\ Core /\ ChOK /\ TurnOK /\ Shape /\ job \in JobType /\ result \in ResultType /\ QuietOK /\ BestOK
  BY AccountedFacts
<1>2. Monitor
  BY DEF Adapter, Monitor
<1>3. SUFFICES ASSUME result.caller # "ok"
               PROVE  Safe(e)'
  OBVIOUS
<1>4. GoesOn \/ EndsCall \/ UNCHANGED <<legacy, order, got, job, result>>
  BY <1>1, <1>2, MonitorOK
<1>5. EndsCall
  BY <1>3, <1>4 DEF GoesOn
<1>6. PICK outcome \in {"ok", "failed"} : job.by # "none" /\ Leave(outcome)
  BY <1>5 DEF EndsCall
<1>7. job.by # "flusher"
  BY <1>1, <1>3, <1>6, LeaveOK
<1>8. job.by \in {"caller", "close"}
  BY <1>1, <1>6, <1>7 DEF JobType
<1>9. e # None
  BY NoneIsNothing
<1>10. job.by = "caller" /\ job.ev = e /\ result.caller = "none"
  BY <1>1, <1>8, <1>9 DEF TurnOK
<1>. QED BY <1>1, <1>2, <1>10, SentKept DEF Safe

LEMMA SentSteps ==
  ASSUME Accounted, [Next]_vars
  PROVE  SentOK'
<1>1. /\ There /\ Core /\ ChOK /\ WorkTypeOK /\ TurnOK /\ Shape /\ op \in OpType /\ worker \in WorkerType /\ SentOK /\ BestOK
  BY AccountedFacts
<1>2. ASSUME op'.at \notin {"wait", "drain"} PROVE SentOK'
  BY <1>2 DEF SentOK, Done
<1>3. ASSUME op'.ev = None PROVE SentOK'
  BY <1>3 DEF SentOK, Done
<1>4. CASE Adapter
  <2>1. UNCHANGED op /\ Monitor
    BY <1>4 DEF Adapter, Monitor, workerVars
  <2>2. SUFFICES ASSUME op.ev # None, (op.at = "wait" /\ result'.caller = "ok") \/ op.at = "drain"
                 PROVE  Safe(op.ev)'
    BY <2>1 DEF SentOK, Done
  <2>3. PICK e \in Events : e = op.ev
    BY <1>1, <2>2 DEF OpType
  <2>4. CASE op.at = "drain" \/ result.caller = "ok"
    <3>1. Safe(e)
      BY <1>1, <2>2, <2>3, <2>4 DEF SentOK, Done
    <3>2. Safe(e)'
      BY <1>1, <2>1, <3>1, KeptStays, StoredStays DEF Safe
    <3>. QED BY <2>1, <2>3, <3>2
  <2>5. CASE op.at = "wait" /\ result'.caller = "ok" /\ result.caller # "ok"
    <3>1. Safe(e)'
      BY <1>4, <2>3, <2>5, AnswerOK
    <3>. QED BY <2>1, <2>3, <3>1
  <2>. QED BY <2>2, <2>4, <2>5
<1>5. CASE Outside /\ op' = op /\ result'.caller = result.caller
  BY <1>1, <1>5, OutsideOK DEF SentOK, Done
<1>6. CASE FlushTick \/ FlushEnters \/ ReportToNobody \/ Report \/ CloseStarts \/ UNCHANGED vars
  <2>1. op' = op /\ Outside
    BY <1>6 DEF FlushTick, FlushEnters, ReportToNobody, Report, CloseStarts, vars, workerVars, Outside, chVars
  <2>2. result'.caller = result.caller
    <3>1. [result EXCEPT !.flusher = "waiting"].caller = result.caller /\ [result EXCEPT !.flusher = "none"].caller = result.caller
      BY <1>1 DEF Shape, ChTypeOK, ResultType
    <3>. QED BY <1>6, <3>1 DEF FlushTick, FlushEnters, ReportToNobody, Report, CloseStarts, vars, chVars
  <2>. QED BY <1>5, <2>1, <2>2
<1>7. CASE Initialize \/ InitializeFails \/ Sent \/ NotSent \/ RetryFails \/ DrainEnds \/ DrainNext \/ Closed \/ Restart \/ Crash
  <2>1. op'.at \notin {"wait", "drain"}
    BY <1>1, <1>7, FreeOK DEF Initialize, InitializeFails, Sent, NotSent, RetryFails, DrainEnds, DrainNext, Closed, Restart, Crash, OpType
  <2>. QED BY <1>2, <2>1
<1>8. CASE Start \/ RetryFires \/ CloseLocks
  <2>1. \/ op' = Free \/ Opens(op', "start", "init") \/ Opens(op', "retry", "flush") \/ Opens(op', "retry", "init")
        \/ Opens(op', "close", "call") \/ Opens(op', "close", "gone")
    BY <1>8, FreeSet DEF Start, RetryFires, CloseLocks
  <2>. QED BY <1>2, <2>1, FreeOK DEF Opens
<1>9. CASE Call
  <2>1. result' = result /\ op.at = "call"
    BY <1>1, <1>9, CallOK DEF Call
  <2>2. result.caller = "none"
    BY <1>1, <2>1 DEF TurnOK, Awaited
  <2>3. op'.at = "wait"
    BY <1>1, <1>9 DEF Call, OpType
  <2>. QED BY <2>1, <2>2, <2>3 DEF SentOK, Done
<1>10. CASE FlushFirst
  <2>1. op'.ev = None
    BY <1>1, <1>10 DEF FlushFirst, OpType
  <2>. QED BY <1>3, <2>1
<1>11. CASE Flushed
  <2>1. op'.ev = None
    BY <1>1, <1>11 DEF Flushed, OpType
  <2>. QED BY <1>3, <2>1
<1>12. CASE Drained
  <2>1. Outside /\ op.at = "wait" /\ result.caller = "ok" /\ op.ev # None /\ op' = [op EXCEPT !.at = "drain"]
    BY <1>12 DEF Drained, Returned, Outside
  <2>2. Safe(op.ev) /\ op'.ev = op.ev
    BY <1>1, <2>1 DEF SentOK, Done, OpType
  <2>. QED BY <2>1, <2>2, OutsideOK DEF SentOK, Done
<1>13. ASSUME NEW e \in Events, Deliver(e) PROVE SentOK'
  <2>1. op = Free /\ (op' = Free \/ op'.at = "call")
    BY <1>13, FreeDeliver DEF Deliver
  <2>. QED BY <1>2, <2>1, FreeOK
<1>. QED BY <1>4, <1>6, <1>7, <1>8, <1>9, <1>10, <1>11, <1>12, <1>13 DEF Next, Holding, Flushing

LEMMA AccountedInit == Init => Accounted
<1>1. SUFFICES ASSUME Init PROVE Accounted
  OBVIOUS
<1>2. There
  BY <1>1, ThereInit
<1>3. op = Free /\ job = NoJob
  BY <1>1 DEF Init, ChInit
<1>. QED BY <1>2, <1>3, FreeOK, NoJobOK DEF Accounted, QuietOK, BestOK, SentOK, GoneOK

LEMMA AccountedStep == Accounted /\ [Next]_vars => Accounted'
<1>1. SUFFICES ASSUME Accounted, [Next]_vars PROVE Accounted'
  OBVIOUS
<1>2. There'
  BY <1>1, ThereStep, AccountedFacts
<1>. QED BY <1>1, <1>2, QuietBestSteps, GoneSteps, SentSteps DEF Accounted

Where(e) == e \in Range(pending) \cup InFlight \cup rejected \cup dropped \cup crashed \/ Kept(e)

\* Where a step that leaves the adapter alone takes an event.
Moves(e) ==
  /\ rejected \subseteq rejected' /\ dropped \subseteq dropped' /\ crashed \subseteq crashed'
  /\ e \in Range(pending) \cup InFlight => e \in Range(pending') \cup InFlight' \cup rejected' \/ Done(e)

LEMMA MovesOK ==
  ASSUME Accounted, [Next]_vars, NEW e \in Events
  PROVE  Adapter \/ Restart \/ Crash \/ Moves(e)
<1>1. /\ There /\ Core /\ ChOK /\ WorkTypeOK /\ TurnOK /\ Shape /\ op \in OpType /\ worker \in WorkerType
      /\ pending \in Seq(Events) /\ rejected \subseteq Events
  BY AccountedFacts DEF WorkTypeOK
<1>f. /\ op = Free => InFlight = {}
      /\ op.ev = None => InFlight = {}
      /\ op.ev # None => InFlight = {op.ev}
  BY FreeOK DEF InFlight
<1>g. op'.ev = op.ev => InFlight' = InFlight
  BY DEF InFlight
<1>3. CASE FlushTick \/ FlushEnters \/ ReportToNobody \/ Report \/ CloseStarts \/ UNCHANGED vars
  <2>1. UNCHANGED <<op, pending, rejected, dropped, crashed>> /\ Outside
    BY <1>3 DEF FlushTick, FlushEnters, ReportToNobody, Report, CloseStarts, vars, workerVars, Outside, chVars
  <2>. QED BY <1>g, <2>1 DEF Moves
<1>4. CASE Start \/ RetryFires
  <2>1. UNCHANGED <<pending, rejected, dropped, crashed>> /\ Outside /\ op = Free
    BY <1>4 DEF Start, RetryFires, Outside, chVars
  <2>. QED BY <1>f, <2>1 DEF Moves
<1>5. CASE Initialize \/ InitializeFails
  <2>1. UNCHANGED <<pending, rejected, dropped, crashed>> /\ Outside /\ op.at = "init"
    BY <1>5 DEF Initialize, InitializeFails, Outside, chVars
  <2>2. op.by = "start" \/ op.by = "retry"
    BY <1>1, <2>1, FreeOK DEF TurnOK, OpType
  <2>3. op.ev = None
    BY <1>1, <2>1, <2>2 DEF TurnOK
  <2>. QED BY <1>f, <2>1, <2>3 DEF Moves
<1>6. ASSUME NEW d \in Events, Deliver(d) PROVE Moves(e)
  <2>1. Outside /\ op = Free /\ dropped' = dropped /\ crashed' = crashed
    BY <1>6 DEF Deliver, Outside, chVars
  <2>2. rejected \subseteq rejected' /\ Range(pending) \subseteq Range(pending') \cup rejected'
    <3>1. CASE Enqueue(d)
      <4>1. \/ pending' = Append(pending, d) /\ rejected' = rejected
            \/ pending' = pending /\ rejected' = rejected \cup {d}
        BY <1>1, <3>1, EnqueueOK
      <4>2. Range(Append(pending, d)) = Range(pending) \cup {d}
        BY <1>1, AppendOK
      <4>. QED BY <4>1, <4>2
    <3>. QED BY <1>6, <3>1 DEF Deliver
  <2>. QED BY <1>f, <2>1, <2>2 DEF Moves
<1>7. CASE Call
  <2>1. UNCHANGED <<pending, rejected, dropped, crashed>> /\ Outside /\ op' = [op EXCEPT !.at = "wait"]
    BY <1>7 DEF Call, Outside
  <2>2. op'.ev = op.ev
    BY <1>1, <2>1 DEF OpType
  <2>. QED BY <1>g, <2>1, <2>2 DEF Moves
<1>8. CASE Sent
  <2>1. /\ UNCHANGED <<pending, rejected, dropped, crashed>> /\ Outside /\ op.by = "deliver" /\ op.at = "wait"
        /\ result.caller = "ok"
    BY <1>8 DEF Sent, Returned, Outside
  <2>. QED BY <1>f, <2>1 DEF Moves, Done
<1>9. CASE NotSent
  <2>1. /\ UNCHANGED <<dropped, crashed>> /\ Outside /\ op.by = "deliver" /\ Enqueue(op.ev)
    BY <1>9 DEF NotSent, Returned, Outside, KeepFailed
  <2>2. PICK d \in Events : d = op.ev
    BY <1>1, <2>1 DEF TurnOK
  <2>3. /\ Range(pending') \cup rejected' = Range(pending) \cup rejected \cup {d}
        /\ rejected \subseteq rejected'
    BY <1>1, <2>1, <2>2, EnqueueOK
  <2>4. InFlight = {d}
    BY <1>f, <2>2, NoneIsNothing
  <2>. QED BY <2>1, <2>3, <2>4 DEF Moves
<1>10. CASE FlushFirst
  <2>1. UNCHANGED <<pending, rejected, dropped, crashed>> /\ Outside /\ op.at = "flush"
    BY <1>10 DEF FlushFirst, Outside, chVars
  <2>2. op.by = "retry"
    BY <1>1, <2>1, FreeOK DEF TurnOK, OpType
  <2>3. op.ev = None
    BY <1>1, <2>1, <2>2 DEF TurnOK
  <2>. QED BY <1>f, <2>1, <2>3 DEF Moves
<1>11. CASE Flushed
  <2>1. UNCHANGED <<pending, rejected, dropped, crashed>> /\ Outside /\ op.ev = None
    BY <1>11 DEF Flushed, Returned, Outside
  <2>. QED BY <1>f, <2>1 DEF Moves
<1>12. CASE DrainNext \/ DrainEnds
  <2>1. UNCHANGED <<pending, rejected, dropped, crashed>> /\ Outside /\ op.at = "drain"
    BY <1>12 DEF DrainNext, DrainEnds, Outside, chVars
  <2>. QED BY <1>f, <2>1 DEF Moves, Done
<1>13. CASE Drained
  <2>1. /\ UNCHANGED <<rejected, dropped, crashed>> /\ Outside /\ op.by = "retry" /\ op.at = "wait" /\ op.ev # None
        /\ pending' = Tail(pending) /\ op' = [op EXCEPT !.at = "drain"]
    BY <1>13 DEF Drained, Returned, Outside
  <2>2. pending # <<>> /\ op.ev = Head(pending) /\ op'.ev = op.ev
    BY <1>1, <2>1 DEF TurnOK, OpType
  <2>3. Range(pending) = {op.ev} \cup Range(pending')
    BY <1>1, <2>1, <2>2, Ends
  <2>4. InFlight' = {op.ev}
    BY <1>f, <1>g, <2>1, <2>2
  <2>. QED BY <1>f, <2>1, <2>3, <2>4 DEF Moves
<1>14. CASE RetryFails
  <2>1. UNCHANGED <<pending, rejected, dropped, crashed>> /\ Outside /\ op.by = "retry" /\ op.at = "wait"
    BY <1>14 DEF RetryFails, Returned, Outside
  <2>2. op.ev # None => pending # <<>> /\ op.ev = Head(pending)
    BY <1>1, <2>1 DEF TurnOK
  <2>3. op.ev # None => op.ev \in Range(pending)
    BY <1>1, <2>2, Ends
  <2>. QED BY <1>f, <2>1, <2>3 DEF Moves
<1>15. CASE CloseLocks
  <2>1. UNCHANGED <<dropped, crashed>> /\ Outside /\ op = Free /\ rejected' = rejected \cup Range(pending)
    BY <1>15 DEF CloseLocks, Outside, chVars
  <2>. QED BY <1>f, <2>1 DEF Moves
<1>16. CASE Closed
  <2>1. /\ UNCHANGED <<pending, rejected, crashed>> /\ Outside /\ dropped' = dropped \cup Buffered
        /\ op' = [op EXCEPT !.at = "gone"]
    BY <1>16 DEF Closed, Returned, Outside
  <2>2. op'.ev = op.ev
    BY <1>1, <2>1 DEF OpType
  <2>. QED BY <1>g, <2>1, <2>2 DEF Moves
<1>. QED BY <1>3, <1>4, <1>5, <1>6, <1>7, <1>8, <1>9, <1>10, <1>11, <1>12, <1>13, <1>14, <1>15, <1>16
        DEF Next, Holding, Flushing

\* Restart, which replaces an adapter that has been let go.
LEMMA RestartOK ==
  ASSUME Accounted, Restart
  PROVE  /\ UNCHANGED <<pending, rejected, dropped, crashed, durable>> /\ InFlight = {} /\ pending = <<>>
         /\ Buffered \subseteq dropped
<1>1. /\ There /\ Core /\ TurnOK /\ Shape /\ op \in OpType /\ GoneOK /\ NoAdapter
  BY AccountedFacts
<1>2. UNCHANGED <<pending, rejected, dropped, crashed, durable>> /\ op.at = "gone"
  BY DEF Restart
<1>3. op.by = "close"
  BY <1>1, <1>2, FreeOK DEF TurnOK, OpType
<1>4. InFlight = {} /\ pending = <<>>
  BY <1>1, <1>3 DEF TurnOK, InFlight
<1>5. CASE worker.adapter
  BY <1>1, <1>2, <1>4, <1>5 DEF GoneOK
<1>6. CASE ~ worker.adapter
  <2>1. legacy = <<>> /\ order = <<>>
    BY <1>1, <1>6 DEF NoAdapter
  <2>2. \A c \in Chunks : got[c] = {}
    BY <1>1, <2>1, EmptyOK DEF Shape, BuffersOK
  <2>3. Buffered = {}
    BY <2>1, <2>2, EmptyOK DEF Buffered, InGroups, ItemsOf
  <2>. QED BY <1>2, <1>4, <2>3
<1>. QED BY <1>5, <1>6

LEMMA WhereSteps ==
  ASSUME Accounted, [Next]_vars, NEW e \in Events, Where(e)
  PROVE  Where(e)'
<1>1. ChOK /\ SentOK /\ BestOK
  BY AccountedFacts
<1>2. CASE Adapter
  <2>1. Monitor /\ UNCHANGED workerVars
    BY <1>2 DEF Adapter, Monitor
  <2>2. Kept(e) => Kept(e)'
    BY <1>1, <2>1, KeptStays
  <2>. QED BY <2>1, <2>2 DEF Where, workerVars, InFlight
<1>3. CASE Restart
  <2>1. e \in InDlq \cup pruned \/ Stored(e) => Kept(e)'
    BY <1>3, RestartOK DEF Kept, InDlq, Stored, HasRows, durable, clickhouse
  <2>. QED BY <1>3, <2>1, RestartOK DEF Where, Kept
<1>4. CASE Crash
  <2>1. UNCHANGED <<rejected, dropped, durable>> /\ crashed' = crashed \cup Buffered \cup Range(pending) \cup InFlight
    BY <1>4 DEF Crash
  <2>2. e \in InDlq \cup pruned \/ Stored(e) => Kept(e)'
    BY <2>1 DEF Kept, InDlq, Stored, HasRows, durable, clickhouse
  <2>. QED BY <2>1, <2>2 DEF Where, Kept
<1>5. CASE Moves(e) /\ Outside
  <2>1. Kept(e)' <=> Kept(e)
    BY <1>5, OutsideOK
  <2>2. Done(e) => Kept(e)
    BY <1>1, NoneIsNothing DEF SentOK, Done, Safe
  <2>. QED BY <1>5, <2>1, <2>2 DEF Where, Moves
<1>. QED BY <1>2, <1>3, <1>4, <1>5, MovesOK, StepsOutside

\* deliver has somewhere to put every event.
LEMMA DeliveredSomewhere ==
  ASSUME Accounted, NEW e \in Events, Deliver(e)
  PROVE  Where(e)'
<1>1. WorkTypeOK /\ pending \in Seq(Events) /\ rejected \subseteq Events
  BY AccountedFacts DEF WorkTypeOK
<1>2. CASE Enqueue(e)
  BY <1>1, <1>2, EnqueueOK DEF Where
<1>3. CASE rejected' = rejected \cup {e}
  BY <1>3 DEF Where
<1>4. CASE op' = [Free EXCEPT !.by = "deliver", !.at = "call", !.ev = e]
  <2>1. op'.ev = e /\ e # None
    BY <1>4, FreeDeliver, NoneIsNothing
  <2>. QED BY <2>1 DEF Where, InFlight
<1>. QED BY <1>2, <1>3, <1>4 DEF Deliver

AllSomewhere == \A e \in Events : offered[e] > 0 => Where(e)

LEMMA SomewhereStep ==
  ASSUME Accounted, AllSomewhere, [Next]_vars
  PROVE  AllSomewhere'
<1>1. SUFFICES ASSUME NEW e \in Events, offered'[e] > 0 PROVE Where(e)'
  BY DEF AllSomewhere
<1>2. CASE Where(e)
  BY <1>2, WhereSteps
<1>3. CASE ~ Where(e)
  <2>1. offered[e] \in Nat /\ ~ (offered[e] > 0)
    BY <1>3, AccountedFacts, DeliveryAssumption DEF AllSomewhere, WorkTypeOK
  <2>2. offered' # offered
    BY <1>1, <2>1
  <2>3. PICK d \in Events : Deliver(d)
    BY <2>2 DEF Next, Adapter, Holding, Flushing, Start, Initialize, Call, Sent, NotSent, FlushFirst, Flushed, DrainNext,
       Drained, RetryFails, DrainEnds, CloseLocks, Closed, Restart, Crash, FlushTick, FlushEnters, Report, ReportToNobody,
       InitializeFails, RetryFires, CloseStarts, Returned, workerVars, vars
  <2>4. offered \in [Events -> 0..Copies] /\ offered' = [offered EXCEPT ![d] = @ + 1]
    BY <2>3, AccountedFacts DEF WorkTypeOK, Deliver
  <2>5. d = e
    BY <1>1, <2>1, <2>4
  <2>. QED BY <2>3, <2>5, DeliveredSomewhere
<1>. QED BY <1>2, <1>3

\* No event is lost without a word: once deliver has been called with it, it waits for
\* a retry, is being sent, is in a buffer, in its tables or in the DLQ, has been pruned
\* from there, or is counted as rejected, unless its memory was let go.
THEOREM NoneVanishes == Spec => []NothingVanishes
<1>1. Init => Accounted /\ AllSomewhere
  <2>1. SUFFICES ASSUME Init PROVE AllSomewhere
    BY AccountedInit
  <2>2. \A e \in Events : ~ (offered[e] > 0)
    BY <2>1 DEF Init
  <2>. QED BY <2>2 DEF AllSomewhere
<1>2. Accounted /\ AllSomewhere /\ [Next]_vars => Accounted' /\ AllSomewhere'
  BY AccountedStep, SomewhereStep
<1>3. AllSomewhere => NothingVanishes
  BY DEF AllSomewhere, Where, Kept, NothingVanishes
<1>. QED BY <1>1, <1>2, <1>3, PTL DEF Spec

--------------------------------------------------------------------------------
(* What has to be written again is still held                                   *)

AllStored(c) == \A e \in MineOf(c) : Stored(e)
Untouched(c) == \A e \in MineOf(c) : \A t \in RowsIn[e] : rows[t][e] = 0
Whole(c)     == got[c] = 1..Items[c]
Lost(c)      == MineOf(c) \cap (rejected \cup dropped \cup crashed) # {}
Alone(c)     == Items[c] = 1 /\ MineOf(c) \cap (Range(pending) \cup InFlight) # {}

\* A chunk some of whose tables have it is whole in its group, or it is one item that
\* waits to be sent or is being sent.
Retained(c) == AllStored(c) \/ Untouched(c) \/ Whole(c) \/ Lost(c) \/ Alone(c)

\* A group that is whole stays so until its chunk is stored.
LEMMA WholeStays ==
  ASSUME ChOK, BestOK, Monitor, NEW c \in Chunks, Whole(c)
  PROVE  AllStored(c)' \/ Whole(c)'
<1>1. Shape /\ got \in [Chunks -> SUBSET Nat] /\ JobOK(job, legacy, order, got)
  BY DEF ChOK, Shape, ChTypeOK
<1>2. CASE UNCHANGED <<legacy, order, got>>
  BY <1>2 DEF Whole
<1>3. CASE Send /\ ~ UNCHANGED buffers
  <2>1. PICK e \in Events : e = job.ev /\ Puts(e)
    BY <1>1, <1>3, SendOK DEF Diverts, Send, JobOK
  <2>2. CASE e \in Legacy /\ UNCHANGED got
    BY <2>2 DEF Whole
  <2>3. CASE e \in ChunkEvents /\ got' = [got EXCEPT ![e[1]] = got[e[1]] \cup {e[2]}]
    <3>1. e[1] \in Chunks /\ e[2] \in 1..Items[e[1]]
      BY <2>3, ChunkEvent
    <3>2. CASE e[1] = c
      BY <1>1, <2>3, <3>1, <3>2 DEF Whole
    <3>3. CASE e[1] # c
      BY <1>1, <2>3, <3>1, <3>3 DEF Whole
    <3>. QED BY <3>2, <3>3
  <2>. QED BY <2>1, <2>2, <2>3 DEF Puts
<1>4. CASE job.at \in {"insert", "best"} /\ Cleared /\ Finishes
  <2>1. \A d \in Chunks : got'[d] = IF job.what = "group" /\ d = job.chunk THEN {} ELSE got[d]
    BY <1>1, <1>4, ClearedOK
  <2>2. CASE ~ (job.what = "group" /\ c = job.chunk)
    BY <2>1, <2>2 DEF Whole
  <2>3. CASE job.what = "group" /\ c = job.chunk
    <3>1. job.at = "insert"
      BY <1>1, <1>4, <2>3 DEF JobOK, SetsAside, Whole
    <3>2. Range(job.recs) = MineOf(c)
      BY <1>1, <2>3, <3>1, RecsOK, NoneIsNothing
    <3>3. \A e \in MineOf(c) : Stored(e)'
      BY <1>4, <3>1, <3>2, FinishedKept
    <3>4. MineOf(c)' = MineOf(c)
      BY DEF MineOf
    <3>. QED BY <3>3, <3>4 DEF AllStored
  <2>. QED BY <2>2, <2>3
<1>. QED BY <1>1, <1>2, <1>3, <1>4, MonitorBuffers

\* The first table that gets something of a chunk gets all of it, from a group that is
\* whole or from the call of the only item.
LEMMA TouchedHeld ==
  ASSUME Accounted, Monitor, NEW c \in Chunks, NEW e \in MineOf(c), NEW t \in RowsIn[e], rows'[t][e] # rows[t][e]
  PROVE  Whole(c) \/ Alone(c)
<1>1. ChOK /\ TurnOK /\ Shape /\ StoreTypeOK /\ JobOK(job, legacy, order, got) /\ op \in OpType
  BY AccountedFacts DEF ChOK, Shape
<1>2. e \in ChunkEvents /\ e \in Events
  BY ChunkEvent
<1>3. t \in Range(Canonical) /\ t \in Tables /\ t # "raw"
  BY <1>2, CanonicalOK, ClickHouseAssumption
<1>4. job.at \in {"insert", "best"} /\ Insert(Head(job.left))
  BY DEF Monitor, InMonitor, Failing, Send, Flush, FlushNextGroup, FlushEnds, InsertNext, RequestFails, Persist, PersistFails,
         Age, durable, clickhouse
<1>5. Head(job.left) \in Tables
  BY <1>1, <1>4, RecsOK
<1>6. t = Head(job.left) /\ e \in Range(job.recs)
  BY <1>1, <1>2, <1>3, <1>4, <1>5, InsertOK
<1>7. job.at = "insert"
  BY <1>1, <1>3, <1>4, <1>6, RecsOK
<1>8. job.chunk # None
  BY <1>1, <1>2, <1>6, <1>7, RecsOK, ClickHouseAssumption
<1>9. job.chunk \in Chunks /\ e \in MineOf(job.chunk)
  BY <1>1, <1>6, <1>7, <1>8, RecsOK
<1>10. job.chunk = c
  BY <1>9, ChunkEvent
<1>11. Writes(job, legacy, got)
  BY <1>1, <1>7 DEF JobOK
<1>12. CASE job.what = "group"
  BY <1>10, <1>11, <1>12 DEF Writes, Whole
<1>13. CASE job.what = "one"
  <2>1. job.by = "caller" /\ job.ev \in Events /\ Items[c] = 1 /\ job.ev \in MineOf(c)
    BY <1>8, <1>10, <1>11, <1>13 DEF Writes
  <2>2. op.ev = job.ev /\ op.ev # None
    BY <1>1, <2>1, NoneIsNothing DEF TurnOK
  <2>. QED BY <2>1, <2>2 DEF Alone, InFlight
<1>. QED BY <1>8, <1>11, <1>12, <1>13 DEF Writes

LEMMA RetainedInMonitor ==
  ASSUME Accounted, Monitor, UNCHANGED workerVars, NEW c \in Chunks, Retained(c)
  PROVE  Retained(c)'
<1>1. ChOK /\ BestOK /\ MineOf(c) \subseteq Events /\ MineOf(c)' = MineOf(c)
  BY AccountedFacts, ChunkEvent DEF MineOf
<1>2. CASE AllStored(c)
  <2>1. \A e \in MineOf(c) : Stored(e)'
    BY <1>1, <1>2, StoredStays DEF AllStored
  <2>. QED BY <1>1, <2>1 DEF Retained, AllStored
<1>3. CASE Lost(c) \/ Alone(c)
  BY <1>1, <1>3 DEF Retained, Lost, Alone, workerVars, InFlight
<1>4. CASE Whole(c)
  BY <1>1, <1>4, WholeStays DEF Retained
<1>5. CASE Untouched(c)
  <2>1. CASE \A e \in MineOf(c) : \A t \in RowsIn[e] : rows'[t][e] = rows[t][e]
    BY <1>1, <1>5, <2>1 DEF Retained, Untouched
  <2>2. CASE \E e \in MineOf(c) : \E t \in RowsIn[e] : rows'[t][e] # rows[t][e]
    BY <1>3, <1>4, <2>2, TouchedHeld
  <2>. QED BY <2>1, <2>2
<1>. QED BY <1>2, <1>3, <1>4, <1>5 DEF Retained

\* Steps outside the monitor leave the tables alone.
LEMMA TablesKept ==
  ASSUME UNCHANGED durable, NEW c \in Chunks
  PROVE  /\ MineOf(c)' = MineOf(c)
         /\ AllStored(c) => AllStored(c)'
         /\ Untouched(c) => Untouched(c)'
BY DEF durable, clickhouse, AllStored, Untouched, Stored, HasRows, MineOf

\* A chunk whose group is whole has something in memory.
LEMMA WholeBuffered ==
  ASSUME NEW c \in Chunks, Whole(c)
  PROVE  MineOf(c) \cap Buffered # {}
<1>1. Items[c] \in Nat \ {0}
  BY ChunkEvent
<1>2. 1 \in got[c] /\ 1 \in 1..Items[c]
  BY <1>1 DEF Whole
<1>3. <<c, 1>> \in MineOf(c) /\ <<c, 1>> \in ItemsOf(c)
  BY <1>2 DEF MineOf, ItemsOf
<1>. QED BY <1>3 DEF Buffered, InGroups

LEMMA RetainedSteps ==
  ASSUME Accounted, [Next]_vars, NEW c \in Chunks, Retained(c)
  PROVE  Retained(c)'
<1>1. SentOK /\ MineOf(c) \subseteq Events /\ MineOf(c) \subseteq ChunkEvents
  BY AccountedFacts, ChunkEvent
<1>2. CASE Adapter /\ Monitor
  BY <1>2, RetainedInMonitor DEF Adapter
<1>3. CASE Restart
  <2>1. UNCHANGED durable /\ UNCHANGED <<rejected, dropped, crashed>> /\ Buffered \subseteq dropped
        /\ InFlight = {} /\ Range(pending) = {}
    BY <1>3, RestartOK, EmptyOK
  <2>2. ~ Alone(c)
    BY <2>1 DEF Alone
  <2>3. Whole(c) => Lost(c)
    BY <2>1, WholeBuffered DEF Lost
  <2>4. Lost(c) => Lost(c)'
    BY <2>1, TablesKept DEF Lost
  <2>. QED BY <2>1, <2>2, <2>3, <2>4, TablesKept DEF Retained
<1>4. CASE Crash
  <2>1. /\ UNCHANGED durable /\ UNCHANGED <<rejected, dropped>>
        /\ crashed' = crashed \cup Buffered \cup Range(pending) \cup InFlight
    BY <1>4 DEF Crash
  <2>2. Whole(c) \/ Lost(c) \/ Alone(c) => Lost(c)'
    BY <2>1, TablesKept, WholeBuffered DEF Lost, Alone
  <2>. QED BY <2>1, <2>2, TablesKept DEF Retained
<1>5. CASE Outside /\ \A e \in Events : Moves(e)
  <2>1. UNCHANGED durable /\ got' = got /\ MineOf(c)' = MineOf(c)
    BY <1>5, TablesKept DEF Outside, buffers
  <2>2. Whole(c) => Whole(c)'
    BY <2>1 DEF Whole
  <2>3. PICK e \in Events : Moves(e)
    <3>1. Items[c] \in Nat \ {0}
      BY ChunkEvent
    <3>2. 1 \in 1..Items[c]
      BY <3>1
    <3>3. <<c, 1>> \in Events
      BY <1>1, <3>2, ChunkEvent
    <3>. QED BY <1>5, <3>3
  <2>4. Lost(c) => Lost(c)'
    BY <2>1, <2>3 DEF Lost, Moves
  <2>5. CASE Alone(c)
    <3>1. PICK d \in MineOf(c) : d \in Range(pending) \cup InFlight
      BY <2>5 DEF Alone
    <3>2. d \in Range(pending') \cup InFlight' \cup rejected' \/ Done(d)
      BY <1>1, <1>5, <3>1 DEF Moves
    <3>3. CASE d \in Range(pending') \cup InFlight'
      BY <2>1, <2>5, <3>3 DEF Alone, Retained
    <3>4. CASE d \in rejected'
      BY <2>1, <3>4 DEF Lost, Retained
    <3>5. CASE Done(d)
      <4>1. d # None /\ op.ev = d
        BY <1>1, <3>5, NoneIsNothing DEF Done
      <4>2. Safe(d) /\ d[1] = c
        BY <1>1, <3>1, <3>5, <4>1 DEF SentOK, MineOf
      <4>3. Stored(d)
        BY <1>1, <2>5, <4>2 DEF Safe, Alone
      <4>4. MineOf(c) = {d}
        <5>1. 1..Items[c] = {1}
          BY <2>5 DEF Alone
        <5>. QED BY <3>1, <5>1 DEF MineOf
      <4>5. AllStored(c)
        BY <4>3, <4>4 DEF AllStored
      <4>. QED BY <2>1, <4>5, TablesKept DEF Retained
    <3>. QED BY <3>2, <3>3, <3>4, <3>5
  <2>. QED BY <2>1, <2>2, <2>4, <2>5, TablesKept DEF Retained
<1>6. CASE Adapter \/ Restart \/ Crash
  BY <1>2, <1>3, <1>4, <1>6 DEF Adapter, Monitor
<1>7. CASE ~ (Adapter \/ Restart \/ Crash)
  BY <1>5, <1>7, StepsOutside, MovesOK
<1>. QED BY <1>6, <1>7

\* A chunk that has reached some of its canonical tables and not the others is still
\* held in memory for the retry, unless memory was let go since.
THEOREM HalfWrittenHeld == Spec => []HalfWrittenRetained
<1> DEFINE AllRetained == \A c \in Chunks : Retained(c)
<1>1. Init => Accounted /\ AllRetained
  <2>1. SUFFICES ASSUME Init, NEW c \in Chunks PROVE Untouched(c)
    BY AccountedInit DEF Retained
  <2>2. rows = [t \in Tables |-> [e \in Events |-> 0]]
    BY <2>1 DEF Init, ChInit
  <2>3. \A e \in MineOf(c) : e \in Events /\ \A t \in RowsIn[e] : t \in Tables
    BY ChunkEvent, CanonicalOK, ClickHouseAssumption
  <2>. QED BY <2>2, <2>3 DEF Untouched
<1>2. Accounted /\ AllRetained /\ [Next]_vars => Accounted' /\ AllRetained'
  BY AccountedStep, RetainedSteps
<1>3. Accounted /\ AllRetained => HalfWrittenRetained
  <2>1. SUFFICES ASSUME Accounted, NEW c \in Chunks, Retained(c)
                 PROVE  LET mine    == {<<c, s>> : s \in 1..Items[c]}
                            written == {e \in mine : Stored(e)} IN
                        \/ written = mine
                        \/ \A e \in mine : \A t \in RowsIn[e] : rows[t][e] = 0
                        \/ ItemsOf(c) = mine \/ job.chunk = c
                        \/ mine \cap (Range(pending) \cup InFlight \cup rejected \cup dropped \cup crashed) # {}
    BY DEF HalfWrittenRetained
  <2>2. {<<c, s>> : s \in 1..Items[c]} = MineOf(c)
    BY DEF MineOf
  <2>. QED BY <2>1, <2>2 DEF Retained, AllStored, Untouched, Whole, Lost, Alone, ItemsOf, MineOf
<1>. QED BY <1>1, <1>2, <1>3, PTL DEF Spec
================================================================================
