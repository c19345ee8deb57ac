---------------------------- MODULE HuntCaseProofs ----------------------------
(* Proofs about investigations and their editor, for any number of cases,      *)
(* versions, colleagues and requests.                                          *)
(*                                                                             *)
(* The records come first, without the editor: RecordInv says of each case     *)
(* that its text is the one noted for its version, and that a review under     *)
(* way, or the one it was closed with, is of that very text.  Every guarded    *)
(* change either keeps a case as it is or adds a version (WriteKeeps), so      *)
(* that no text that was current is replaced (InOrder).  Over it, EditorInv    *)
(* says that whatever the list, the fields and the requests under way hold of  *)
(* a case is a version there was with its text; the lemmas of the second part  *)
(* treat the pieces the handlers share (Open, Clear, Rebase, PanelFor), and    *)
(* Carried takes all of it over a step of the records.                         *)
EXTENDS HuntCaseEditor, TLAPS

\* What is assumed of the constants: nobody is neither an analyst nor a case, and
\* there is room for the first version that CaseInit gives a case.
EditorAssumption ==
  /\ Nobody \notin Cases /\ Me \in Analysts
  /\ MaxVersion \in Nat \ {0}
-------------------------------------------------------------------------------
(* The record.                                                               *)
IsCase(r) ==
  r = [version |-> r.version, text |-> r.text, assignee |-> r.assignee, reviewer |-> r.reviewer,
       status |-> r.status, editor |-> r.editor, evidence |-> r.evidence]

RecordTypeOK ==
  /\ case = [c \in Cases |-> case[c]] /\ review = [c \in Cases |-> review[c]]
  /\ approved = [c \in Cases |-> approved[c]] /\ textAt = [c \in Cases |-> textAt[c]]
  /\ \A c \in Cases :
       /\ IsCase(case[c]) /\ case[c].version \in 0 .. MaxVersion
       /\ case[c].status \in {"INVESTIGATING", "REVIEW", "CLOSED"}
       /\ textAt[c] = [v \in 1 .. MaxVersion |-> textAt[c][v]]

\* Case c: its text is the one noted for its version, a review that is pending is
\* for that text, and so was the one it was closed with.
CaseTrue(c) ==
  /\ case[c].version > 0 => case[c].text = textAt[c][case[c].version]
  /\ case[c].version = 0 => case[c].status = "INVESTIGATING"
  /\ case[c].status = "REVIEW" <=> review[c].version # 0
  /\ case[c].status = "REVIEW" => review[c].text = case[c].text
  /\ case[c].status = "CLOSED" <=> approved[c].version # 0
  /\ case[c].status = "CLOSED" =>
       /\ approved[c].text = case[c].text
       /\ approved[c].reviewer \notin {approved[c].by, case[c].editor}

RecordInv == RecordTypeOK /\ \A c \in Cases : CaseTrue(c)

\* A step from which case c only goes on: no version is taken back and no text
\* that was current is replaced.
GoesOn(c) ==
  /\ case[c].version <= case'[c].version
  /\ \A w \in 1 .. case[c].version : textAt'[c][w] = textAt[c][w]

LEMMA WriteShape ==
  ASSUME RecordTypeOK, MaxVersion \in Nat, NEW c \in Cases, NEW v, NEW new,
         IsCase(new), new.status \in {"INVESTIGATING", "REVIEW", "CLOSED"}, Write(c, v, new)
  PROVE  /\ v = case[c].version /\ v \in 0 .. MaxVersion /\ v + 1 \in 1 .. MaxVersion
         /\ case' = [d \in Cases |-> case'[d]] /\ textAt' = [d \in Cases |-> textAt'[d]]
         /\ \A d \in Cases :
              /\ IsCase(case'[d]) /\ case'[d].version \in 0 .. MaxVersion
              /\ case'[d].status \in {"INVESTIGATING", "REVIEW", "CLOSED"}
              /\ textAt'[d] = [w \in 1 .. MaxVersion |-> textAt'[d][w]]
         /\ case'[c] = [version |-> v + 1, text |-> new.text, assignee |-> new.assignee,
                        reviewer |-> new.reviewer, status |-> new.status,
                        editor |-> new.editor, evidence |-> new.evidence]
         /\ \A d \in Cases \ {c} : case'[d] = case[d] /\ textAt'[d] = textAt[d]
         /\ textAt'[c][v + 1] = new.text
         /\ \A w \in 1 .. MaxVersion : w # v + 1 => textAt'[c][w] = textAt[c][w]
         /\ \A d \in Cases : GoesOn(d)
<1>1. /\ case' = [case EXCEPT ![c] = [new EXCEPT !.version = v + 1]]
      /\ textAt' = [textAt EXCEPT ![c][v + 1] = new.text]
      /\ v = case[c].version /\ v < MaxVersion
  BY DEF Write
<1>2. [new EXCEPT !.version = v + 1] =
        [version |-> v + 1, text |-> new.text, assignee |-> new.assignee,
         reviewer |-> new.reviewer, status |-> new.status,
         editor |-> new.editor, evidence |-> new.evidence]
  BY DEF IsCase
<1>3. v \in 0 .. MaxVersion /\ v + 1 \in 1 .. MaxVersion
  BY <1>1 DEF RecordTypeOK
<1>4. /\ case' = [d \in Cases |-> case'[d]]
      /\ case'[c] = [new EXCEPT !.version = v + 1]
      /\ \A d \in Cases \ {c} : case'[d] = case[d]
  BY <1>1 DEF RecordTypeOK
<1>5. /\ textAt' = [d \in Cases |-> textAt'[d]]
      /\ textAt'[c] = [textAt[c] EXCEPT ![v + 1] = new.text]
      /\ \A d \in Cases \ {c} : textAt'[d] = textAt[d]
  BY <1>1 DEF RecordTypeOK
<1>6. textAt[c] = [w \in 1 .. MaxVersion |-> textAt[c][w]]
  BY DEF RecordTypeOK
<1>7. /\ textAt'[c] = [w \in 1 .. MaxVersion |-> textAt'[c][w]]
      /\ textAt'[c][v + 1] = new.text
      /\ \A w \in 1 .. MaxVersion : w # v + 1 => textAt'[c][w] = textAt[c][w]
  BY <1>3, <1>5, <1>6
<1>8. IsCase(case'[c]) /\ case'[c].version \in 0 .. MaxVersion
      /\ case'[c].status \in {"INVESTIGATING", "REVIEW", "CLOSED"}
  BY <1>2, <1>3, <1>4 DEF IsCase
<1>9. ASSUME NEW d \in Cases
      PROVE  GoesOn(d)
  <2>1. CASE d = c
    BY <1>1, <1>2, <1>3, <1>4, <1>7, <2>1 DEF GoesOn
  <2>2. CASE d # c
    BY <1>4, <1>5, <2>2 DEF GoesOn, RecordTypeOK
  <2>. QED  BY <2>1, <2>2
<1>10. ASSUME NEW d \in Cases
      PROVE  /\ IsCase(case'[d]) /\ case'[d].version \in 0 .. MaxVersion
             /\ case'[d].status \in {"INVESTIGATING", "REVIEW", "CLOSED"}
             /\ textAt'[d] = [w \in 1 .. MaxVersion |-> textAt'[d][w]]
  <2>1. CASE d = c
    BY <1>7, <1>8, <2>1
  <2>2. CASE d # c
    <3>1. case'[d] = case[d] /\ textAt'[d] = textAt[d]
      BY <1>4, <1>5, <2>2
    <3>. QED  BY <3>1 DEF RecordTypeOK
  <2>. QED  BY <2>1, <2>2
<1>. QED  BY <1>1, <1>2, <1>3, <1>4, <1>5, <1>7, <1>9, <1>10

\* A step of case c that leaves the record in order.
InOrder == RecordInv' /\ \A d \in Cases : GoesOn(d)

\* A write of case c leaves the other cases alone: it remains to show that c itself
\* is still in order.
LEMMA WriteKeeps ==
  ASSUME RecordInv, MaxVersion \in Nat, NEW c \in Cases, NEW v, NEW new,
         IsCase(new), new.status \in {"INVESTIGATING", "REVIEW", "CLOSED"}, Write(c, v, new),
         review' = [d \in Cases |-> review'[d]], approved' = [d \in Cases |-> approved'[d]],
         \A d \in Cases \ {c} : review'[d] = review[d] /\ approved'[d] = approved[d],
         \/ new.status = "INVESTIGATING" /\ review'[c].version = 0 /\ approved'[c].version = 0
         \/ new.status = "REVIEW" /\ review'[c].version # 0 /\ approved'[c].version = 0
            /\ review'[c].text = new.text
         \/ new.status = "CLOSED" /\ review'[c].version = 0 /\ approved'[c].version # 0
            /\ approved'[c].text = new.text
            /\ approved'[c].reviewer \notin {approved'[c].by, new.editor}
  PROVE  InOrder
<1>1. /\ v = case[c].version /\ v \in 0 .. MaxVersion /\ v + 1 \in 1 .. MaxVersion
      /\ case' = [d \in Cases |-> case'[d]] /\ textAt' = [d \in Cases |-> textAt'[d]]
      /\ \A d \in Cases :
           /\ IsCase(case'[d]) /\ case'[d].version \in 0 .. MaxVersion
           /\ case'[d].status \in {"INVESTIGATING", "REVIEW", "CLOSED"}
           /\ textAt'[d] = [w \in 1 .. MaxVersion |-> textAt'[d][w]]
      /\ case'[c] = [version |-> v + 1, text |-> new.text, assignee |-> new.assignee,
                     reviewer |-> new.reviewer, status |-> new.status,
                     editor |-> new.editor, evidence |-> new.evidence]
      /\ \A d \in Cases \ {c} : case'[d] = case[d] /\ textAt'[d] = textAt[d]
      /\ textAt'[c][v + 1] = new.text
      /\ \A d \in Cases : GoesOn(d)
  BY WriteShape DEF RecordInv
<1>2. RecordTypeOK'
  BY <1>1 DEF RecordTypeOK
<1>3. CaseTrue(c)'
  <2>1. /\ case'[c].version = v + 1 /\ case'[c].text = new.text
        /\ case'[c].status = new.status /\ case'[c].editor = new.editor
        /\ textAt'[c][v + 1] = new.text /\ v + 1 # 0
    BY <1>1
  <2>2. CASE new.status = "INVESTIGATING"
    BY <2>1, <2>2 DEF CaseTrue
  <2>3. CASE new.status = "REVIEW"
    BY <2>1, <2>3 DEF CaseTrue
  <2>4. CASE new.status = "CLOSED"
    BY <2>1, <2>4 DEF CaseTrue
  <2>. QED  BY <2>2, <2>3, <2>4
<1>4. ASSUME NEW d \in Cases
      PROVE  CaseTrue(d)'
  <2>1. CASE d # c
    <3>1. /\ case'[d] = case[d] /\ textAt'[d] = textAt[d]
          /\ review'[d] = review[d] /\ approved'[d] = approved[d]
      BY <1>1, <2>1
    <3>2. CaseTrue(d)
      BY DEF RecordInv
    <3>. QED  BY <3>1, <3>2 DEF CaseTrue
  <2>. QED  BY <1>3, <2>1
<1>5. RecordInv'
  BY <1>2, <1>4 DEF RecordInv
<1>. QED  BY <1>1, <1>5 DEF InOrder

LEMMA StillInOrder ==
  ASSUME RecordInv, MaxVersion \in Nat, UNCHANGED record
  PROVE  InOrder
<1>1. case' = case /\ review' = review /\ approved' = approved /\ textAt' = textAt
  BY DEF record
<1>2. RecordTypeOK'
  BY <1>1 DEF RecordTypeOK, RecordInv
<1>3. ASSUME NEW d \in Cases
      PROVE  CaseTrue(d)'
  BY <1>1 DEF CaseTrue, RecordInv
<1>4. ASSUME NEW d \in Cases
      PROVE  GoesOn(d)
  BY <1>1 DEF GoesOn, RecordInv, RecordTypeOK
<1>5. RecordInv'
  BY <1>2, <1>3 DEF RecordInv
<1>. QED  BY <1>4, <1>5 DEF InOrder

\* Changing two fields of a record of this shape.
LEMMA ChangedText ==
  ASSUME NEW old, IsCase(old), NEW x, NEW y, NEW new, new = [old EXCEPT !.text = x, !.editor = y]
  PROVE  new = [version |-> old.version, text |-> x, assignee |-> old.assignee,
                reviewer |-> old.reviewer, status |-> old.status,
                editor |-> y, evidence |-> old.evidence]
BY DEF IsCase

LEMMA ChangedEvidence ==
  ASSUME NEW old, IsCase(old), NEW x, NEW y, NEW new, new = [old EXCEPT !.evidence = x, !.editor = y]
  PROVE  new = [version |-> old.version, text |-> old.text, assignee |-> old.assignee,
                reviewer |-> old.reviewer, status |-> old.status,
                editor |-> y, evidence |-> x]
BY DEF IsCase

LEMMA ChangedPeople ==
  ASSUME NEW old, IsCase(old), NEW x, NEW y, NEW new, new = [old EXCEPT !.assignee = x, !.reviewer = y]
  PROVE  new = [version |-> old.version, text |-> old.text, assignee |-> x,
                reviewer |-> y, status |-> old.status,
                editor |-> old.editor, evidence |-> old.evidence]
BY DEF IsCase

\* A write of a case under investigation, by which it stays under investigation:
\* whoever wrote it, there is no review it could have slipped into.
LEMMA EditKeeps ==
  ASSUME RecordInv, MaxVersion \in Nat, NEW c \in Cases, NEW v, NEW new,
         IsCase(new), new.status = "INVESTIGATING", case[c].status = "INVESTIGATING",
         Write(c, v, new), UNCHANGED <<review, approved>>
  PROVE  InOrder
<1>1. CaseTrue(c)
  BY DEF RecordInv
<1>2. review[c].version = 0 /\ approved[c].version = 0
  BY <1>1 DEF CaseTrue
<1>3. review' = [d \in Cases |-> review'[d]] /\ approved' = [d \in Cases |-> approved'[d]]
  BY DEF RecordInv, RecordTypeOK
<1>. QED  BY <1>2, <1>3, WriteKeeps

LEMMA SaveKeeps ==
  ASSUME RecordInv, MaxVersion \in Nat, NEW u, NEW c \in Cases, NEW v, NEW t, Save(u, c, v, t)
  PROVE  InOrder
<1>. DEFINE new == [case[c] EXCEPT !.text = t, !.editor = u]
<1>1. case[c].status = "INVESTIGATING" /\ IsCase(case[c])
  BY DEF Save, Edits, Editable, RecordInv, RecordTypeOK
<1>2. IsCase(new) /\ new.status = case[c].status
  <2>1. new = [version |-> case[c].version, text |-> t, assignee |-> case[c].assignee,
               reviewer |-> case[c].reviewer, status |-> case[c].status,
               editor |-> u, evidence |-> case[c].evidence]
    BY <1>1, ChangedText
  <2>. QED  BY <2>1 DEF IsCase
<1>3. Write(c, v, new) /\ UNCHANGED <<review, approved>>
  BY DEF Save
<1>. HIDE DEF new
<1>. QED  BY <1>1, <1>2, <1>3, EditKeeps

LEMMA CreateKeeps ==
  ASSUME RecordInv, MaxVersion \in Nat, NEW u, NEW c \in Cases, NEW t, Create(u, c, t)
  PROVE  InOrder
<1>. DEFINE new == [case[c] EXCEPT !.text = t]
<1>1. case[c].version = 0 /\ IsCase(case[c]) /\ CaseTrue(c)
  BY DEF Create, RecordInv, RecordTypeOK
<1>2. IsCase(new) /\ new.status = case[c].status
  <2>1. new = [version |-> case[c].version, text |-> t, assignee |-> case[c].assignee,
               reviewer |-> case[c].reviewer, status |-> case[c].status,
               editor |-> case[c].editor, evidence |-> case[c].evidence]
    BY <1>1 DEF IsCase
  <2>. QED  BY <2>1 DEF IsCase
<1>3. PICK v : v = 0
  OBVIOUS
<1>4. Write(c, v, new) /\ UNCHANGED <<review, approved>>
  BY <1>3 DEF Create
<1>5. case[c].status = "INVESTIGATING"
  BY <1>1 DEF CaseTrue
<1>. HIDE DEF new
<1>. QED  BY <1>2, <1>4, <1>5, EditKeeps

LEMMA PinKeeps ==
  ASSUME RecordInv, MaxVersion \in Nat, NEW u, NEW c \in Cases, Pin(u, c)
  PROVE  InOrder
<1>. DEFINE new == [case[c] EXCEPT !.evidence = case[c].version + 1, !.editor = u]
<1>1. case[c].status = "INVESTIGATING" /\ IsCase(case[c])
  BY DEF Pin, Edits, Editable, RecordInv, RecordTypeOK
<1>2. IsCase(new) /\ new.status = case[c].status
  <2>1. new = [version |-> case[c].version, text |-> case[c].text, assignee |-> case[c].assignee,
               reviewer |-> case[c].reviewer, status |-> case[c].status,
               editor |-> u, evidence |-> case[c].version + 1]
    BY <1>1, ChangedEvidence
  <2>. QED  BY <2>1 DEF IsCase
<1>3. CASE case[c].evidence = 0
  <2>1. PICK v : v = case[c].version
    OBVIOUS
  <2>2. Write(c, v, new) /\ UNCHANGED <<review, approved>>
    BY <1>3, <2>1 DEF Pin
  <2>. HIDE DEF new
  <2>. QED  BY <1>1, <1>2, <2>2, EditKeeps
<1>4. CASE case[c].evidence # 0
  <2>1. UNCHANGED record
    BY <1>4 DEF Pin, record
  <2>. QED  BY <2>1, StillInOrder
<1>. QED  BY <1>3, <1>4

LEMMA AssignKeeps ==
  ASSUME RecordInv, MaxVersion \in Nat, NEW u, NEW c \in Cases, NEW v, NEW a, NEW r,
         Assign(u, c, v, a, r)
  PROVE  InOrder
<1>. DEFINE new == [case[c] EXCEPT !.assignee = a, !.reviewer = r]
<1>1. case[c].status = "INVESTIGATING" /\ IsCase(case[c])
  BY DEF Assign, Editable, RecordInv, RecordTypeOK
<1>2. IsCase(new) /\ new.status = case[c].status
  <2>1. new = [version |-> case[c].version, text |-> case[c].text, assignee |-> a,
               reviewer |-> r, status |-> case[c].status,
               editor |-> case[c].editor, evidence |-> case[c].evidence]
    BY <1>1, ChangedPeople
  <2>. QED  BY <2>1 DEF IsCase
<1>3. Write(c, v, new) /\ UNCHANGED <<review, approved>>
  BY DEF Assign
<1>. HIDE DEF new
<1>. QED  BY <1>1, <1>2, <1>3, EditKeeps

\* The review that is asked for is for the text of that moment.
LEMMA SubmitKeeps ==
  ASSUME RecordInv, MaxVersion \in Nat, NEW u, NEW c \in Cases, NEW v, Submit(u, c, v)
  PROVE  InOrder
<1>. DEFINE new == [case[c] EXCEPT !.status = "REVIEW"]
<1>1. case[c].status = "INVESTIGATING" /\ IsCase(case[c]) /\ CaseTrue(c)
      /\ v = case[c].version /\ v \in 0 .. MaxVersion
  BY DEF Submit, Write, Edits, Editable, RecordInv, RecordTypeOK
<1>2. IsCase(new) /\ new.status = "REVIEW" /\ new.text = case[c].text
  <2>1. new = [version |-> case[c].version, text |-> case[c].text, assignee |-> case[c].assignee,
               reviewer |-> case[c].reviewer, status |-> "REVIEW",
               editor |-> case[c].editor, evidence |-> case[c].evidence]
    BY <1>1 DEF IsCase
  <2>. QED  BY <2>1 DEF IsCase
<1>3. Write(c, v, new) /\ approved' = approved
  BY DEF Submit
<1>4. review' = [review EXCEPT ![c] =
       [version |-> v + 1, text |-> case[c].text, evidence |-> case[c].evidence,
        by |-> u, reviewer |-> case[c].reviewer]]
  BY DEF Submit
<1>5. /\ review' = [d \in Cases |-> review'[d]] /\ approved' = [d \in Cases |-> approved'[d]]
      /\ review'[c].version = v + 1 /\ review'[c].text = case[c].text
      /\ \A d \in Cases \ {c} : review'[d] = review[d] /\ approved'[d] = approved[d]
  BY <1>3, <1>4 DEF RecordInv, RecordTypeOK
<1>6. v + 1 # 0 /\ approved'[c].version = 0
  BY <1>1, <1>3 DEF CaseTrue
<1>. HIDE DEF new
<1>. QED  BY <1>2, <1>3, <1>5, <1>6, WriteKeeps

\* A decision is by the reviewer named in the request, who neither asked nor wrote
\* last, and the text has not changed since it was asked for.
LEMMA DecideKeeps ==
  ASSUME RecordInv, MaxVersion \in Nat, NEW u, NEW c \in Cases, NEW v, NEW approve \in BOOLEAN,
         Decide(u, c, v, approve)
  PROVE  InOrder
<1>. DEFINE new == [case[c] EXCEPT !.status = IF approve THEN "CLOSED" ELSE "INVESTIGATING"]
<1>1. /\ case[c].status = "REVIEW" /\ IsCase(case[c]) /\ CaseTrue(c)
      /\ review[c].version # 0 /\ review[c].reviewer = u
      /\ u \notin {review[c].by, case[c].editor}
  BY DEF Decide, Decides, RecordInv, RecordTypeOK
<1>2. /\ IsCase(new) /\ new.status = (IF approve THEN "CLOSED" ELSE "INVESTIGATING")
      /\ new.text = case[c].text /\ new.editor = case[c].editor
  <2>1. new = [version |-> case[c].version, text |-> case[c].text, assignee |-> case[c].assignee,
               reviewer |-> case[c].reviewer, status |-> (IF approve THEN "CLOSED" ELSE "INVESTIGATING"),
               editor |-> case[c].editor, evidence |-> case[c].evidence]
    BY <1>1 DEF IsCase
  <2>. QED  BY <2>1 DEF IsCase
<1>3. /\ Write(c, v, new) /\ review' = [review EXCEPT ![c] = NoReview]
      /\ approved' = [approved EXCEPT ![c] = IF approve THEN review[c] ELSE @]
  BY DEF Decide
<1>4. /\ review' = [d \in Cases |-> review'[d]] /\ approved' = [d \in Cases |-> approved'[d]]
      /\ review'[c].version = 0 /\ approved'[c] = (IF approve THEN review[c] ELSE approved[c])
      /\ \A d \in Cases \ {c} : review'[d] = review[d] /\ approved'[d] = approved[d]
  BY <1>3 DEF RecordInv, RecordTypeOK, NoReview
<1>5. approved[c].version = 0 /\ review[c].text = case[c].text
  BY <1>1 DEF CaseTrue
<1>. HIDE DEF new
<1>6. CASE approve
  <2>1. /\ new.status = "CLOSED" /\ approved'[c].version # 0 /\ approved'[c].text = new.text
        /\ approved'[c].reviewer \notin {approved'[c].by, new.editor}
    BY <1>1, <1>2, <1>4, <1>5, <1>6
  <2>. QED  BY <1>2, <1>3, <1>4, <2>1, WriteKeeps
<1>7. CASE ~approve
  <2>1. new.status = "INVESTIGATING" /\ approved'[c].version = 0
    BY <1>2, <1>4, <1>5, <1>7
  <2>. QED  BY <1>2, <1>3, <1>4, <2>1, WriteKeeps
<1>. QED  BY <1>6, <1>7

LEMMA ReopenKeeps ==
  ASSUME RecordInv, MaxVersion \in Nat, NEW u, NEW c \in Cases, NEW v, Reopen(u, c, v)
  PROVE  InOrder
<1>. DEFINE new == [case[c] EXCEPT !.status = "INVESTIGATING"]
<1>1. IsCase(case[c])
  BY DEF RecordInv, RecordTypeOK
<1>2. IsCase(new) /\ new.status = "INVESTIGATING"
  <2>1. new = [version |-> case[c].version, text |-> case[c].text, assignee |-> case[c].assignee,
               reviewer |-> case[c].reviewer, status |-> "INVESTIGATING",
               editor |-> case[c].editor, evidence |-> case[c].evidence]
    BY <1>1 DEF IsCase
  <2>. QED  BY <2>1 DEF IsCase
<1>3. /\ Write(c, v, new) /\ review' = [review EXCEPT ![c] = NoReview]
      /\ approved' = [approved EXCEPT ![c] = NoReview]
  BY DEF Reopen
<1>4. /\ review' = [d \in Cases |-> review'[d]] /\ approved' = [d \in Cases |-> approved'[d]]
      /\ review'[c].version = 0 /\ approved'[c].version = 0
      /\ \A d \in Cases \ {c} : review'[d] = review[d] /\ approved'[d] = approved[d]
  BY <1>3 DEF RecordInv, RecordTypeOK, NoReview
<1>. HIDE DEF new
<1>. QED  BY <1>2, <1>3, <1>4, WriteKeeps

LEMMA LapseKeeps ==
  ASSUME RecordInv, MaxVersion \in Nat, NEW c \in Cases, Lapse(c)
  PROVE  InOrder /\ UNCHANGED <<review, approved, textAt>>
<1>1. /\ case' = [case EXCEPT ![c].evidence = 0]
      /\ review' = review /\ approved' = approved /\ textAt' = textAt
  BY DEF Lapse
<1>2. /\ case' = [d \in Cases |-> case'[d]]
      /\ \A d \in Cases : IsCase(case[d])
      /\ \A d \in Cases : case'[d] = IF d = c THEN [case[c] EXCEPT !.evidence = 0] ELSE case[d]
  BY <1>1 DEF RecordInv, RecordTypeOK
<1>3. ASSUME NEW d \in Cases
      PROVE  /\ IsCase(case'[d]) /\ case'[d].version = case[d].version
             /\ case'[d].status = case[d].status /\ case'[d].text = case[d].text
             /\ case'[d].editor = case[d].editor
  BY <1>2 DEF IsCase
<1>4. RecordTypeOK'
  BY <1>1, <1>2, <1>3 DEF RecordTypeOK, RecordInv
<1>5. ASSUME NEW d \in Cases
      PROVE  CaseTrue(d)'
  <2>1. CaseTrue(d)
    BY DEF RecordInv
  <2>. QED  BY <1>1, <1>3, <2>1 DEF CaseTrue
<1>6. ASSUME NEW d \in Cases
      PROVE  GoesOn(d)
  BY <1>1, <1>3 DEF GoesOn, RecordInv, RecordTypeOK
<1>7. RecordInv'
  BY <1>4, <1>5 DEF RecordInv
<1>. QED  BY <1>1, <1>6, <1>7 DEF InOrder

\* Every step of a case keeps the record in order, whoever takes it.
LEMMA ActKeeps ==
  ASSUME RecordInv, MaxVersion \in Nat, NEW u, NEW c \in Cases, NEW v, Act(u, c, v)
  PROVE  InOrder
<1>1. CASE Save(u, c, v, NewText(c))
  BY <1>1, SaveKeeps
<1>2. CASE Create(u, c, NewText(c))
  BY <1>2, CreateKeeps
<1>3. CASE Pin(u, c) \/ Submit(u, c, v) \/ Reopen(u, c, v)
  BY <1>3, PinKeeps, SubmitKeeps, ReopenKeeps
<1>4. ASSUME NEW team \in Teams, Assign(u, c, v, team[1], team[2])
      PROVE  InOrder
  BY <1>4, AssignKeeps
<1>5. ASSUME NEW approve \in BOOLEAN, Decide(u, c, v, approve)
      PROVE  InOrder
  BY <1>5, DecideKeeps
<1>. QED  BY <1>1, <1>2, <1>3, <1>4, <1>5 DEF Act

LEMMA GrantedKeeps ==
  ASSUME RecordInv, MaxVersion \in Nat, NEW m, NEW c \in Cases, Granted(m, c)
  PROVE  InOrder
<1>1. CASE Save(Me, c, m.version, m.text)
  BY <1>1, SaveKeeps
<1>2. CASE Create(Me, c, m.text)
  BY <1>2, CreateKeeps
<1>3. CASE Pin(Me, c)
  BY <1>3, PinKeeps
<1>4. CASE Assign(Me, c, m.version, m.who[1], m.who[2])
  BY <1>4, AssignKeeps
<1>5. CASE Submit(Me, c, m.version)
  BY <1>5, SubmitKeeps
<1>6. CASE Reopen(Me, c, m.version)
  BY <1>6, ReopenKeeps
<1>7. CASE Decide(Me, c, m.version, TRUE)
  BY <1>7, DecideKeeps
<1>8. CASE Decide(Me, c, m.version, FALSE)
  BY <1>8, DecideKeeps
<1>9. CASE UNCHANGED record
  BY <1>9, StillInOrder
<1>. QED  BY <1>1, <1>2, <1>3, <1>4, <1>5, <1>6, <1>7, <1>8, <1>9 DEF Granted

LEMMA RecordInit ==
  ASSUME EditorAssumption, CaseInit
  PROVE  RecordInv
<1>1. PICK team \in [Cases -> Teams \cup {<<Nobody, Nobody>>}], asked \in SUBSET (Cases \ Unborn) :
        /\ case = [c \in Cases |->
             [version |-> First(c), text |-> First(c), assignee |-> team[c][1], reviewer |-> team[c][2],
              status |-> IF c \in asked THEN "REVIEW" ELSE "INVESTIGATING",
              editor |-> Owner[c], evidence |-> 0]]
        /\ review = [c \in Cases |-> IF c \in asked
             THEN [version |-> 1, text |-> 1, evidence |-> 0, by |-> Owner[c], reviewer |-> team[c][2]]
             ELSE NoReview]
        /\ approved = [c \in Cases |-> NoReview]
        /\ textAt = [c \in Cases |-> [v \in 1 .. MaxVersion |-> IF v = 1 THEN First(c) ELSE 0]]
  BY DEF CaseInit
<1>2. ASSUME NEW c \in Cases
      PROVE  /\ IsCase(case[c]) /\ case[c].version = First(c) /\ case[c].text = First(c)
             /\ case[c].status = (IF c \in asked THEN "REVIEW" ELSE "INVESTIGATING")
             /\ textAt[c] = [v \in 1 .. MaxVersion |-> textAt[c][v]]
             /\ textAt[c][1] = First(c)
             /\ approved[c].version = 0
             /\ c \in asked => review[c].version = 1 /\ review[c].text = 1 /\ First(c) = 1
             /\ c \notin asked => review[c].version = 0
  BY <1>1 DEF IsCase, NoReview, First, EditorAssumption
<1>3. RecordTypeOK
  BY <1>1, <1>2 DEF RecordTypeOK, First, EditorAssumption
<1>4. ASSUME NEW c \in Cases
      PROVE  CaseTrue(c)
  <2>1. First(c) \in {0, 1} /\ (case[c].version > 0 => case[c].text = textAt[c][case[c].version])
    <3>1. First(c) \in {0, 1}
      BY DEF First
    <3>2. CASE First(c) = 0
      <4>1. case[c].version = 0
        BY <1>2, <3>2
      <4>. QED  BY <3>2, <4>1
    <3>3. CASE First(c) = 1
      BY <1>2, <3>3
    <3>. QED  BY <3>1, <3>2, <3>3
  <2>2. CASE c \in asked
    <3>1. /\ case[c].status = "REVIEW" /\ case[c].version = 1 /\ case[c].text = 1
          /\ review[c].version = 1 /\ review[c].text = 1 /\ approved[c].version = 0
      BY <1>2, <2>2
    <3>. QED  BY <2>1, <3>1 DEF CaseTrue
  <2>3. CASE c \notin asked
    BY <1>2, <2>1, <2>3 DEF CaseTrue
  <2>. QED  BY <2>2, <2>3
<1>. QED  BY <1>3, <1>4 DEF RecordInv

\* A closed case holds the reviewed text, and its reviewer neither asked for the
\* review nor wrote last.
LEMMA InOrderIsReviewed == RecordInv => IndependentReview
BY DEF RecordInv, RecordTypeOK, CaseTrue, IndependentReview

(* What the editor holds.                                                    *)
IsItem(r) == r = [id |-> r.id, version |-> r.version, text |-> r.text]
IsReq(m) ==
  m = [kind |-> m.kind, id |-> m.id, version |-> m.version, live |-> m.live, st |-> m.st,
       text |-> m.text, from |-> m.from, who |-> m.who, item |-> m.item, may |-> m.may]

\* An item says what some version of its case said.
Known(item) ==
  item = NoEdit \/ /\ item.id \in Cases /\ item.version \in 1 .. case[item.id].version
                   /\ item.text = textAt[item.id][item.version]
Changes == {"assign", "submit", "approve", "changes", "reopen"}

\* A request under way: what it carries of a case was said by a version of it.
Sound(m) ==
  /\ IsReq(m) /\ m.id \in Cases \cup {Nobody} /\ m.live \in BOOLEAN
  /\ m.st \in {"sent", "ok", "error"}
  /\ m.id = Nobody => m.kind = "save"
  /\ m.st = "ok" => /\ m.id \in Cases /\ IsItem(m.item) /\ m.item.id = m.id
                    /\ Known(m.item)
  /\ (m.kind \in Changes) => m.version \in 1 .. case[m.id].version
  /\ (m.kind = "approve") => m.text = textAt[m.id][m.version]
  /\ (m.kind \in {"assign", "pin"} /\ m.st = "ok") =>
       /\ m.version \in 1 .. case[m.id].version
       /\ m.item.text = textAt[m.id][m.version]

\* A request of the panel's present generation is about the item in the editor.
Live(m, e) ==
  m.live /\ m.kind \in PanelKinds => m.id = e.id /\ (m.kind \in Changes => m.version = e.version)

ListTrue(l) ==
  /\ l = [c \in Cases |-> l[c]]
  /\ \A c \in Cases : IsItem(l[c]) /\ Known(l[c]) /\ (l[c] = NoEdit \/ l[c].id = c)
Surrounds(e, s, p, k, q) ==
  /\ IsItem(e) /\ Known(e) /\ e.id = s
  /\ p \in {Nobody, s} /\ k.id \in {Nobody, s} /\ q.id \in {Nobody, s}
AllSound(n, e) == \A m \in n : Sound(m) /\ Live(m, e)

EditorInv ==
  ListTrue(list) /\ Surrounds(edit, sel, proof, lock, panel) /\ AllSound(net, edit)

\* What was true of a version stays true of it.
LEMMA KnownStays ==
  ASSUME RecordInv, InOrder, NEW item, Known(item)
  PROVE  Known(item)'
<1>1. CASE item = NoEdit
  BY <1>1 DEF Known
<1>2. CASE item # NoEdit
  <2>1. /\ item.id \in Cases /\ item.version \in 1 .. case[item.id].version
        /\ item.text = textAt[item.id][item.version]
    BY <1>2 DEF Known
  <2>2. PICK c \in Cases : c = item.id
    BY <2>1
  <2>3. case[c].version <= case'[c].version /\ case[c].version \in Int /\ case'[c].version \in Int
        /\ \A w \in 1 .. case[c].version : textAt'[c][w] = textAt[c][w]
    BY DEF InOrder, GoesOn, RecordInv, RecordTypeOK
  <2>4. item.version \in 1 .. case'[c].version /\ item.text = textAt'[c][item.version]
    BY <2>1, <2>2, <2>3
  <2>. QED  BY <2>1, <2>2, <2>4 DEF Known
<1>. QED  BY <1>1, <1>2

LEMMA SoundStays ==
  ASSUME RecordInv, InOrder, NEW m, Sound(m)
  PROVE  Sound(m)'
<1>1. PICK i : i = m.item
  OBVIOUS
<1>2. m.st = "ok" => Known(i)'
  BY <1>1, KnownStays DEF Sound
<1>3. m.st = "ok" => Known(m.item)'
  BY <1>1, <1>2
<1>4. ASSUME m.id \in Cases, m.version \in 1 .. case[m.id].version
      PROVE  /\ m.version \in 1 .. case'[m.id].version
             /\ textAt'[m.id][m.version] = textAt[m.id][m.version]
  <2>1. PICK c \in Cases : c = m.id
    BY <1>4
  <2>2. case[c].version <= case'[c].version /\ case[c].version \in Int /\ case'[c].version \in Int
        /\ \A w \in 1 .. case[c].version : textAt'[c][w] = textAt[c][w]
    BY DEF InOrder, GoesOn, RecordInv, RecordTypeOK
  <2>. QED  BY <1>4, <2>1, <2>2
<1>5. m.kind # "save" => m.id \in Cases
  BY DEF Sound
<1>. QED  BY <1>3, <1>4, <1>5 DEF Sound, Changes

LEMMA HeldStays ==
  ASSUME RecordInv, InOrder, NEW l, NEW e, NEW s, NEW p, NEW k, NEW q, NEW n,
         ListTrue(l), Surrounds(e, s, p, k, q), AllSound(n, e)
  PROVE  ListTrue(l)' /\ Surrounds(e, s, p, k, q)' /\ AllSound(n, e)'
<1>1. ListTrue(l)'
  <2>1. ASSUME NEW c \in Cases
        PROVE  Known(l[c])'
    <3>1. PICK i : i = l[c]
      OBVIOUS
    <3>2. Known(i)'
      BY <3>1, KnownStays DEF ListTrue
    <3>. QED  BY <3>1, <3>2
  <2>. QED  BY <2>1 DEF ListTrue, NoEdit
<1>2. Surrounds(e, s, p, k, q)'
  BY KnownStays DEF Surrounds
<1>3. AllSound(n, e)'
  BY SoundStays DEF AllSound, Live
<1>. QED  BY <1>1, <1>2, <1>3

(* The parts of the handlers.                                                *)
\* Requests that were outdated, or not.
LEMMA OutdateSound ==
  ASSUME NEW sent, NEW kinds, NEW e, AllSound(sent, e)
  PROVE  /\ AllSound(Outdate(sent, kinds), e)
         /\ \A m \in Outdate(sent, kinds) : m.kind \in kinds => ~m.live
<1>1. ASSUME NEW m \in Outdate(sent, kinds)
      PROVE  Sound(m) /\ Live(m, e) /\ (m.kind \in kinds => ~m.live)
  <2>1. PICK n \in sent : m = IF n.kind \in kinds THEN [n EXCEPT !.live = FALSE] ELSE n
    BY DEF Outdate
  <2>2. Sound(n) /\ Live(n, e)
    BY DEF AllSound
  <2>3. CASE n.kind \notin kinds
    BY <2>1, <2>2, <2>3
  <2>4. CASE n.kind \in kinds
    <3>1. m = [kind |-> n.kind, id |-> n.id, version |-> n.version, live |-> FALSE, st |-> n.st,
               text |-> n.text, from |-> n.from, who |-> n.who, item |-> n.item, may |-> n.may]
      BY <2>1, <2>2, <2>4 DEF Sound, IsReq
    <3>2. Sound(m)
      BY <2>2, <3>1 DEF Sound, IsReq
    <3>. QED  BY <3>1, <3>2 DEF Live
  <2>. QED  BY <2>3, <2>4
<1>. QED  BY <1>1 DEF AllSound

LEMMA AskedSound ==
  ASSUME EditorAssumption, NEW k \in {"flow", "proof", "reload", "pin"}, NEW c \in Cases, NEW v
  PROVE  Sound(Req(k, c, v))
<1>1. PICK r : r = Req(k, c, v)
  OBVIOUS
<1>2. r = [kind |-> k, id |-> c, version |-> v, live |-> TRUE, st |-> "sent", text |-> 0,
           from |-> c, who |-> <<Nobody, Nobody>>, item |-> NoEdit, may |-> {}]
  BY <1>1 DEF Req
<1>3. IsReq(r)
  BY <1>2 DEF IsReq
<1>4. /\ r.kind = k /\ r.id = c /\ r.live = TRUE /\ r.st = "sent"
      /\ k \notin Changes /\ k # "approve" /\ k # "save" /\ "sent" # "ok"
  BY <1>2 DEF Changes
<1>5. Sound(r)
  BY <1>3, <1>4 DEF Sound, EditorAssumption
<1>. QED  BY <1>1, <1>5

LEMMA RefreshSound ==
  ASSUME EditorAssumption, NEW sent, NEW e, AllSound(sent, e), NEW c \in Cases
  PROVE  AllSound(Refresh(sent, c), e)
<1>1. AllSound(Unread(sent), e)
  BY OutdateSound DEF Unread
<1>2. PICK r : r = Req("proof", c, 0)
  OBVIOUS
<1>3. Sound(r) /\ r.kind = "proof"
  BY <1>2, AskedSound DEF Req
<1>. QED  BY <1>1, <1>2, <1>3 DEF Refresh, AllSound, Live, PanelKinds

\* The panel follows the item it is mounted with: what belonged to another one is
\* outdated, and nothing of it stays.
LEMMA PanelFollows ==
  ASSUME EditorAssumption, NEW item, NEW at, NEW sent, IsItem(item), Known(item),
         AllSound(sent, edit), IsItem(edit), panel.id \in {Nobody, edit.id}, PanelFor(item, at, sent)
  PROVE  AllSound(net', item) /\ panel'.id \in {Nobody, item.id}
<1>1. CASE item.id = edit.id /\ item.version = edit.version /\ at = tab
  BY <1>1 DEF PanelFor, panelVars, AllSound, Live
<1>2. CASE ~(item.id = edit.id /\ item.version = edit.version /\ at = tab)
  <2>1. /\ panel' = NoFlow
        /\ net' = Outdate(sent, PanelKinds) \cup
                    IF Mounts(item, at) THEN {Req("flow", item.id, item.version)} ELSE {}
    BY <1>2 DEF PanelFor
  <2>2. ASSUME NEW m \in Outdate(sent, PanelKinds)
        PROVE  Sound(m) /\ Live(m, item)
    BY OutdateSound DEF AllSound, Live
  <2>3. ASSUME Mounts(item, at)
        PROVE  \A m \in {Req("flow", item.id, item.version)} : Sound(m) /\ Live(m, item)
    <3>1. item.id \in Cases
      BY <2>3 DEF Mounts, Known
    <3>2. PICK r : r = Req("flow", item.id, item.version)
      OBVIOUS
    <3>3. Sound(r)
      BY <3>1, <3>2, AskedSound
    <3>4. r.id = item.id /\ r.kind = "flow"
      BY <3>2 DEF Req
    <3>. QED  BY <3>2, <3>3, <3>4 DEF Live, Changes
  <2>4. AllSound(net', item)
    BY <2>1, <2>2, <2>3 DEF AllSound
  <2>. QED  BY <2>1, <2>4 DEF NoFlow
<1>. QED  BY <1>1, <1>2

\* What surrounds the fields after a step.
After == /\ Surrounds(edit', sel', proof', lock', panel') /\ AllSound(net', edit')

LEMMA OpenHolds ==
  ASSUME EditorAssumption, EditorInv, NEW item, NEW sent, IsItem(item), Known(item),
         item.id \in Cases, AllSound(sent, edit), Open(item, sent)
  PROVE  After
<1>1. AllSound(Refresh(sent, item.id), edit)
  BY RefreshSound
<1>2. IsItem(edit) /\ panel.id \in {Nobody, edit.id}
  BY DEF EditorInv, Surrounds
<1>3. PICK t : t = tab
  OBVIOUS
<1>4. PICK s : s = Refresh(sent, item.id)
  OBVIOUS
<1>5. AllSound(net', item) /\ panel'.id \in {Nobody, item.id}
  BY <1>1, <1>2, <1>3, <1>4, PanelFollows DEF Open
<1>6. /\ sel' = item.id /\ edit' = item /\ lock' = NoFlow /\ proof' = Nobody
  BY DEF Open
<1>. QED  BY <1>5, <1>6 DEF After, Surrounds, NoFlow

LEMMA ClearHolds ==
  ASSUME EditorAssumption, EditorInv, NEW sent, AllSound(sent, edit), Clear(sent)
  PROVE  After
<1>1. AllSound(Unread(sent), edit)
  BY OutdateSound DEF Unread
<1>2. IsItem(edit) /\ panel.id \in {Nobody, edit.id}
  BY DEF EditorInv, Surrounds
<1>3. PICK t : t = tab
  OBVIOUS
<1>4. PICK s : s = Unread(sent)
  OBVIOUS
<1>5. PICK item : item = NoEdit
  OBVIOUS
<1>6. IsItem(item) /\ Known(item) /\ item.id = Nobody
  BY <1>5 DEF IsItem, Known, NoEdit
<1>7. AllSound(net', item) /\ panel'.id \in {Nobody, item.id}
  BY <1>1, <1>2, <1>3, <1>4, <1>5, <1>6, PanelFollows DEF Clear
<1>8. sel' = Nobody /\ edit' = item /\ lock' = NoFlow /\ proof' = Nobody
  BY <1>5 DEF Clear
<1>. QED  BY <1>6, <1>7, <1>8 DEF After, Surrounds, NoFlow

LEMMA KeepHolds ==
  ASSUME EditorInv, NEW sent, AllSound(sent, edit), Keep(sent)
  PROVE  After
BY DEF Keep, EditorInv, After, shownVars, panelVars

\* The version in hand moves on to one that says the same.
LEMMA RebaseHolds ==
  ASSUME EditorAssumption, EditorInv, NEW v, NEW sent, AllSound(sent, edit), edit.id \in Cases,
         v \in 1 .. case[edit.id].version, textAt[edit.id][v] = edit.text, Rebase(v, sent)
  PROVE  After
<1>1. AllSound(Refresh(sent, edit.id), edit)
  BY RefreshSound
<1>2. IsItem(edit) /\ panel.id \in {Nobody, edit.id} /\ edit.id = sel
      /\ lock.id \in {Nobody, sel} /\ proof \in {Nobody, sel}
  BY DEF EditorInv, Surrounds
<1>3. PICK t : t = tab
  OBVIOUS
<1>4. PICK s : s = Refresh(sent, edit.id)
  OBVIOUS
<1>5. PICK item : item = edit'
  OBVIOUS
<1>6. item = [id |-> edit.id, version |-> v, text |-> edit.text]
  BY <1>2, <1>5 DEF Rebase, IsItem
<1>7. IsItem(item) /\ Known(item) /\ item.id = edit.id
  BY <1>6 DEF IsItem, Known
<1>8. PanelFor(item, t, s)
  BY <1>3, <1>4, <1>5 DEF Rebase
<1>9. AllSound(net', item) /\ panel'.id \in {Nobody, item.id}
  BY <1>1, <1>2, <1>4, <1>7, <1>8, PanelFollows
<1>10. /\ sel' = sel /\ proof' = proof /\ lock' \in {lock, NoFlow}
  BY DEF Rebase
<1>. QED  BY <1>2, <1>5, <1>7, <1>9, <1>10 DEF After, Surrounds, NoFlow

(* The analyst's clicks.                                                     *)
Holds == ListTrue(list') /\ After

LEMMA Carried ==
  ASSUME EditorInv, RecordInv, InOrder, Holds
  PROVE  EditorInv'
<1>1. PICK l, e, s, p, k, q, n :
        l = list' /\ e = edit' /\ s = sel' /\ p = proof' /\ k = lock' /\ q = panel' /\ n = net'
  OBVIOUS
<1>2. ListTrue(l) /\ Surrounds(e, s, p, k, q) /\ AllSound(n, e)
  BY <1>1 DEF Holds, After
<1>3. ListTrue(l)' /\ Surrounds(e, s, p, k, q)' /\ AllSound(n, e)'
  BY <1>2, HeldStays
<1>4. ListTrue(list)'
  BY <1>1, <1>3 DEF ListTrue, Known, IsItem, NoEdit
<1>5. Surrounds(edit, sel, proof, lock, panel)'
  BY <1>1, <1>3 DEF Surrounds, Known, IsItem, NoEdit
<1>6. AllSound(net, edit)'
  BY <1>1, <1>3 DEF AllSound, Sound, Live, Known, IsItem, IsReq, NoEdit, Changes, PanelKinds
<1>. QED  BY <1>4, <1>5, <1>6 DEF EditorInv

\* A request is added and nothing else changes.
LEMMA AskHolds ==
  ASSUME EditorInv, NEW r, Sound(r), Live(r, edit), net' = net \cup {r},
         UNCHANGED <<list, sel, edit, proof, lock, panel>>
  PROVE  Holds
BY DEF EditorInv, Holds, After, AllSound

LEMMA ClickHolds ==
  ASSUME EditorAssumption, EditorInv, Click
  PROVE  Holds
<1>0. /\ ListTrue(list) /\ AllSound(net, edit) /\ IsItem(edit) /\ Known(edit) /\ edit.id = sel
      /\ panel.id \in {Nobody, edit.id} /\ lock.id \in {Nobody, sel} /\ proof \in {Nobody, sel}
  BY DEF EditorInv, Surrounds
<1>1. CASE SwitchTab
  <2>1. PICK at : at = tab'
    OBVIOUS
  <2>2. PICK item, s : item = edit /\ s = net
    OBVIOUS
  <2>3. /\ PanelFor(item, at, s) /\ lock' \in {NoFlow, lock}
        /\ list' = list /\ sel' = sel /\ edit' = edit /\ proof' = proof
    BY <1>1, <2>1, <2>2 DEF SwitchTab
  <2>4. AllSound(net', item) /\ panel'.id \in {Nobody, item.id}
    BY <1>0, <2>2, <2>3, PanelFollows
  <2>. QED  BY <1>0, <2>2, <2>3, <2>4 DEF Holds, After, Surrounds, NoFlow
<1>2. ASSUME NEW c \in Cases, PickCase(c)
      PROVE  Holds
  <2>1. PICK item, s : item = list[c] /\ s = net
    OBVIOUS
  <2>2. IsItem(item) /\ Known(item) /\ item.id \in Cases /\ Open(item, s) /\ list' = list
    BY <1>0, <1>2, <2>1 DEF PickCase, ListTrue
  <2>3. AllSound(s, edit)
    BY <1>0, <2>1
  <2>. QED  BY <1>0, <2>2, <2>3, OpenHolds DEF Holds
<1>3. CASE NewCase
  <2>1. Clear(net) /\ list' = list
    BY <1>3 DEF NewCase
  <2>. QED  BY <1>0, <2>1, ClearHolds DEF Holds
<1>4. CASE Type
  BY <1>0, <1>4 DEF Type, panelVars, Holds, After, Surrounds
<1>5. CASE SaveCase
  <2>1. PICK r : r = [Req("save", edit.id, edit.version) EXCEPT !.text = draft]
    OBVIOUS
  <2>2. r = [kind |-> "save", id |-> edit.id, version |-> edit.version, live |-> TRUE, st |-> "sent",
             text |-> draft, from |-> edit.id, who |-> <<Nobody, Nobody>>, item |-> NoEdit, may |-> {}]
    BY <2>1 DEF Req
  <2>3. edit.id \in Cases \cup {Nobody}
    BY <1>0 DEF Known, NoEdit
  <2>4. Sound(r)
    BY <2>2, <2>3 DEF Sound, IsReq, Changes
  <2>5. Live(r, edit)
    BY <2>2 DEF Live, PanelKinds
  <2>6. net' = net \cup {r} /\ UNCHANGED <<list, sel, edit, proof, lock, panel>>
    BY <1>5, <2>1 DEF SaveCase, Ask, shownVars, panelVars
  <2>. QED  BY <2>4, <2>5, <2>6, AskHolds
<1>6. ASSUME NEW c \in Cases, PinEvent(c)
      PROVE  Holds
  <2>1. PICK r : r = Req("pin", c, 0)
    OBVIOUS
  <2>2. Sound(r) /\ Live(r, edit)
    BY <2>1, AskedSound DEF Live, PanelKinds, Req
  <2>3. net' = net \cup {r} /\ UNCHANGED <<list, sel, edit, proof, lock, panel>>
    BY <1>6, <2>1 DEF PinEvent, Ask, shownVars, panelVars
  <2>. QED  BY <2>2, <2>3, AskHolds
<1>7. ASSUME NEW kind \in Changes, NEW a, NEW b, PanelAct(kind, a, b)
      PROVE  Holds
  <2>1. PICK r : r = [Req(kind, edit.id, edit.version) EXCEPT !.who = <<a, b>>, !.text = edit.text]
    OBVIOUS
  <2>2. r = [kind |-> kind, id |-> edit.id, version |-> edit.version, live |-> TRUE, st |-> "sent",
             text |-> edit.text, from |-> edit.id, who |-> <<a, b>>, item |-> NoEdit, may |-> {}]
    BY <2>1 DEF Req
  <2>3. edit # NoEdit
    BY <1>7 DEF PanelAct, Offers, Mounted, Mounts
  <2>4. /\ edit.id \in Cases /\ edit.version \in 1 .. case[edit.id].version
        /\ edit.text = textAt[edit.id][edit.version]
    BY <1>0, <2>3 DEF Known
  <2>5. IsReq(r) /\ r.id \in Cases /\ r.id # Nobody /\ r.st = "sent"
    BY <2>2, <2>4 DEF IsReq, EditorAssumption
  <2>6. /\ r.version \in 1 .. case[r.id].version /\ r.text = textAt[r.id][r.version]
        /\ r.live = TRUE /\ r.id = edit.id /\ r.version = edit.version
    BY <2>2, <2>4
  <2>7. Sound(r) /\ Live(r, edit)
    BY <2>5, <2>6 DEF Sound, Live
  <2>8. net' = net \cup {r} /\ UNCHANGED <<list, sel, edit, proof, lock, panel>>
    BY <1>7, <2>1 DEF PanelAct, Ask, shownVars
  <2>. QED  BY <2>7, <2>8, AskHolds
<1>8. CASE Reload
  <2>1. PICK r : r = Req("reload", sel, 0)
    OBVIOUS
  <2>2. edit # NoEdit
    BY <1>8 DEF Reload, Mounted, Mounts
  <2>3. sel \in Cases
    BY <1>0, <2>2 DEF Known
  <2>4. Sound(r) /\ r.id = edit.id /\ r.kind = "reload"
    BY <1>0, <2>1, <2>3, AskedSound DEF Req
  <2>5. Live(r, edit)
    BY <2>4 DEF Live, Changes
  <2>6. net' = net \cup {r} /\ UNCHANGED <<list, sel, edit, proof, lock, panel>>
    BY <1>8, <2>1 DEF Reload, Ask, shownVars
  <2>. QED  BY <2>4, <2>5, <2>6, AskHolds
<1>9. CASE Assigns \/ Reviews
  BY <1>7, <1>9 DEF Assigns, Reviews, Changes
<1>. QED  BY <1>1, <1>2, <1>3, <1>4, <1>5, <1>6, <1>8, <1>9 DEF Click

(* Answers arrive.                                                           *)
\* What a fresh reading of the list returns.
LEMMA HeardTrue ==
  ASSUME RecordInv
  PROVE  ListTrue(Heard)
<1>1. ASSUME NEW c \in Cases
      PROVE  IsItem(Heard[c]) /\ Known(Heard[c]) /\ (Heard[c] = NoEdit \/ Heard[c].id = c)
  <2>1. CASE Reads(Me, c)
    <3>1. Heard[c] = [id |-> c, version |-> case[c].version, text |-> case[c].text]
      BY <2>1 DEF Heard, Item
    <3>2. case[c].version \in 1 .. case[c].version /\ case[c].text = textAt[c][case[c].version]
      BY <2>1 DEF Reads, RecordInv, RecordTypeOK, CaseTrue
    <3>. QED  BY <3>1, <3>2 DEF IsItem, Known
  <2>2. CASE ~Reads(Me, c)
    BY <2>2 DEF Heard, IsItem, Known, NoEdit
  <2>. QED  BY <2>1, <2>2
<1>2. Heard = [c \in Cases |-> Heard[c]]
  BY DEF Heard
<1>. QED  BY <1>1, <1>2 DEF ListTrue

\* The list with one entry replaced.
LEMMA ListedTrue ==
  ASSUME NEW l, ListTrue(l), NEW c \in Cases, NEW item, IsItem(item), Known(item),
         item = NoEdit \/ item.id = c
  PROVE  ListTrue([l EXCEPT ![c] = item])
BY DEF ListTrue

LEMMA ForgotTrue ==
  ASSUME NEW l, ListTrue(l), NEW c \in Cases
  PROVE  ListTrue([l EXCEPT ![c] = NoEdit])
BY DEF ListTrue, Known, IsItem, NoEdit

LEMMA ForgetHolds ==
  ASSUME EditorAssumption, EditorInv, NEW id, NEW sent, AllSound(sent, edit), Forget(id, sent)
  PROVE  After
BY ClearHolds, KeepHolds DEF Forget

LEMMA ReceiveHolds ==
  ASSUME EditorAssumption, RecordInv, EditorInv, NEW m \in net, Receive(m)
  PROVE  Holds
<1>. DEFINE rest == net \ {m}
<1>0. /\ ListTrue(list) /\ AllSound(rest, edit) /\ IsItem(edit) /\ Known(edit) /\ edit.id = sel
      /\ panel.id \in {Nobody, edit.id} /\ lock.id \in {Nobody, sel} /\ proof \in {Nobody, sel}
      /\ Sound(m) /\ Live(m, edit)
  BY DEF EditorInv, Surrounds, AllSound
<1>1. ASSUME m.st # "sent", ~Failed(m)
      PROVE  /\ m.st = "ok" /\ m.id \in Cases /\ IsItem(m.item) /\ m.item.id = m.id
             /\ m.item # NoEdit /\ Known(m.item)
             /\ m.item.version \in 1 .. case[m.id].version
             /\ m.item.text = textAt[m.id][m.item.version]
  <2>1. m.st = "ok"
    BY <1>0, <1>1 DEF Sound, Failed
  <2>2. m.id \in Cases /\ IsItem(m.item) /\ m.item.id = m.id /\ Known(m.item)
    BY <1>0, <2>1 DEF Sound
  <2>3. m.item # NoEdit
    BY <2>2 DEF NoEdit, EditorAssumption
  <2>. QED  BY <2>1, <2>2, <2>3 DEF Known
<1>. HIDE DEF rest
<1>2. PICK s : s = rest
  OBVIOUS
<1>3. PICK item : item = m.item
  OBVIOUS
<1>4. AllSound(s, edit)
  BY <1>0, <1>2
<1>5. CASE Saved(m)
  <2>1. CASE Failed(m)
    <3>1. Keep(s) /\ list' = list
      BY <1>2, <1>5, <2>1 DEF Saved, rest
    <3>. QED  BY <1>0, <1>4, <3>1, KeepHolds DEF Holds
  <2>2. CASE ~Failed(m)
    <3>1. m.st # "sent"
      BY <1>5 DEF Saved, Arrived
    <3>2. m.id \in Cases /\ IsItem(item) /\ Known(item) /\ item.id \in Cases
      BY <1>1, <1>3, <2>2, <3>1
    <3>3. list' = Heard \/ list' = [Heard EXCEPT ![m.id] = NoEdit]
      BY <1>5, <2>2 DEF Saved
    <3>4. ListTrue(list')
      BY <3>2, <3>3, HeardTrue, ForgotTrue
    <3>5. Forget(m.id, s) \/ Open(item, s) \/ Keep(s)
      BY <1>2, <1>3, <1>5, <2>2 DEF Saved, rest
    <3>6. After
      BY <1>4, <3>2, <3>5, ForgetHolds, OpenHolds, KeepHolds
    <3>. QED  BY <3>4, <3>6 DEF Holds
  <2>. QED  BY <2>1, <2>2
<1>6. CASE Pinned(m)
  <2>1. list' = list
    BY <1>6 DEF Pinned
  <2>2. CASE Failed(m) \/ sel # m.id
    <3>1. Keep(s)
      BY <1>2, <1>6, <2>2 DEF Pinned, rest
    <3>. QED  BY <1>0, <1>4, <2>1, <3>1, KeepHolds DEF Holds
  <2>3. CASE ~Failed(m) /\ sel = m.id
    <3>1. m.st # "sent" /\ m.kind = "pin"
      BY <1>6 DEF Pinned, Arrived
    <3>2. PICK v : v = IF edit.version = m.version THEN m.item.version ELSE edit.version
      OBVIOUS
    <3>3. Rebase(v, s)
      BY <1>2, <1>6, <2>3, <3>2 DEF Pinned, rest
    <3>4. /\ m.id \in Cases /\ m.st = "ok"
          /\ m.item.version \in 1 .. case[m.id].version
          /\ m.item.text = textAt[m.id][m.item.version]
      BY <1>1, <2>3, <3>1
    <3>5. m.item.text = textAt[m.id][m.version]
      BY <1>0, <3>1, <3>4 DEF Sound
    <3>6. edit.id = m.id /\ edit # NoEdit
      BY <1>0, <2>3, <3>4 DEF NoEdit, EditorAssumption
    <3>7. edit.version \in 1 .. case[edit.id].version /\ edit.text = textAt[edit.id][edit.version]
      BY <1>0, <3>6 DEF Known
    <3>8. v \in 1 .. case[edit.id].version /\ textAt[edit.id][v] = edit.text
      BY <3>2, <3>4, <3>5, <3>6, <3>7
    <3>9. After
      BY <1>4, <3>3, <3>4, <3>6, <3>8, RebaseHolds
    <3>. QED  BY <1>0, <2>1, <3>9 DEF Holds
  <2>. QED  BY <2>2, <2>3
<1>7. CASE FlowArrived(m)
  <2>1. /\ net' = rest /\ list' = list /\ sel' = sel /\ edit' = edit /\ proof' = proof
    BY <1>7 DEF FlowArrived, rest
  <2>2. CASE ~m.live \/ Failed(m)
    <3>1. panel' = panel /\ lock' = lock
      BY <1>7, <2>2 DEF FlowArrived
    <3>. QED  BY <1>0, <2>1, <3>1 DEF Holds, After, Surrounds
  <2>3. CASE m.live /\ ~Failed(m)
    <3>1. panel' = [id |-> m.id, version |-> m.item.version, may |-> m.may] /\ lock' \in {lock, panel'}
      BY <1>7, <2>3 DEF FlowArrived
    <3>2. m.kind \in PanelKinds
      BY <1>7 DEF FlowArrived, Arrived, PanelKinds
    <3>3. m.id = edit.id
      BY <1>0, <2>3, <3>2 DEF Live
    <3>4. panel'.id = sel /\ lock'.id \in {Nobody, sel}
      BY <1>0, <3>1, <3>3
    <3>. QED  BY <1>0, <2>1, <3>4 DEF Holds, After, Surrounds
  <2>. QED  BY <2>2, <2>3
<1>8. CASE ActDone(m)
  <2>0. m.st # "sent" /\ m.kind \in Changes /\ m.kind \in PanelKinds
    BY <1>8 DEF ActDone, Arrived, Changes, PanelKinds
  <2>1. CASE ~m.live
    <3>1. Keep(s) /\ list' = list
      BY <1>2, <1>8, <2>1 DEF ActDone, rest
    <3>. QED  BY <1>0, <1>4, <3>1, KeepHolds DEF Holds
  <2>2. CASE m.live /\ Failed(m)
    <3>1. /\ net' = rest /\ panel' = panel /\ list' = list
          /\ sel' = sel /\ edit' = edit /\ lock' = lock /\ proof' = proof
      BY <1>8, <2>2 DEF ActDone, rest, shownVars
    <3>. QED  BY <1>0, <3>1 DEF Holds, After, Surrounds
  <2>3. CASE m.live /\ ~Failed(m)
    <3>1. /\ m.id \in Cases /\ m.st = "ok" /\ IsItem(item) /\ Known(item) /\ item.id = m.id
          /\ m.item.version \in 1 .. case[m.id].version
          /\ m.item.text = textAt[m.id][m.item.version]
      BY <1>1, <1>3, <2>0, <2>3
    <3>2. CASE ~Readable(m)
      <4>1. list' = [list EXCEPT ![m.id] = NoEdit] /\ Forget(m.id, s)
        BY <1>2, <1>8, <2>3, <3>2 DEF ActDone, rest
      <4>2. ListTrue(list')
        BY <1>0, <3>1, <4>1, ForgotTrue
      <4>3. After
        BY <1>4, <4>1, ForgetHolds
      <4>. QED  BY <4>2, <4>3 DEF Holds
    <3>3. CASE Readable(m)
      <4>1. list' = [list EXCEPT ![m.id] = item]
        BY <1>3, <1>8, <2>3, <3>3 DEF ActDone
      <4>2. ListTrue(list')
        BY <1>0, <3>1, <4>1, ListedTrue
      <4>3. CASE m.kind = "assign"
        <5>1. PICK v : v = m.item.version
          OBVIOUS
        <5>2. Rebase(v, s)
          BY <1>2, <1>8, <2>3, <3>3, <4>3, <5>1 DEF ActDone, rest
        <5>3. m.item.text = textAt[m.id][m.version]
          BY <1>0, <3>1, <4>3 DEF Sound
        <5>4. edit.id = m.id /\ edit.version = m.version /\ edit # NoEdit
          BY <1>0, <2>0, <2>3, <3>1 DEF Live, NoEdit, EditorAssumption
        <5>5. edit.text = textAt[edit.id][edit.version]
          BY <1>0, <5>4 DEF Known
        <5>6. v \in 1 .. case[edit.id].version /\ textAt[edit.id][v] = edit.text /\ edit.id \in Cases
          BY <3>1, <5>1, <5>3, <5>4, <5>5
        <5>7. After
          BY <1>4, <5>2, <5>6, RebaseHolds
        <5>. QED  BY <4>2, <5>7 DEF Holds
      <4>4. CASE m.kind # "assign"
        <5>1. Open(item, s)
          BY <1>2, <1>3, <1>8, <2>3, <3>3, <4>4 DEF ActDone, rest
        <5>2. After
          BY <1>4, <3>1, <5>1, OpenHolds
        <5>. QED  BY <4>2, <5>2 DEF Holds
      <4>. QED  BY <4>3, <4>4
    <3>. QED  BY <3>2, <3>3
  <2>. QED  BY <2>1, <2>2, <2>3
<1>9. CASE Reloaded(m)
  <2>1. CASE Failed(m) \/ sel # m.id
    <3>1. /\ net' = rest /\ panel' = panel
          /\ sel' = sel /\ edit' = edit /\ lock' = lock /\ proof' = proof
      BY <1>9, <2>1 DEF Reloaded, rest, shownVars
    <3>2. After
      BY <1>0, <3>1 DEF After, Surrounds
    <3>3. ListTrue(list')
      <4>1. CASE Failed(m)
        BY <1>0, <1>9, <4>1 DEF Reloaded
      <4>2. CASE ~Failed(m)
        <5>1. m.st # "sent"
          BY <1>9 DEF Reloaded, Arrived
        <5>2. PICK i : i = IF list[m.id] = NoEdit THEN NoEdit ELSE m.item
          OBVIOUS
        <5>3. list' = [list EXCEPT ![m.id] = i]
          BY <1>9, <4>2, <5>2 DEF Reloaded
        <5>4. m.id \in Cases /\ IsItem(i) /\ Known(i) /\ (i = NoEdit \/ i.id = m.id)
          BY <1>1, <4>2, <5>1, <5>2 DEF IsItem, Known, NoEdit
        <5>. QED  BY <1>0, <5>3, <5>4, ListedTrue
      <4>. QED  BY <4>1, <4>2
    <3>. QED  BY <3>2, <3>3 DEF Holds
  <2>2. CASE ~Failed(m) /\ sel = m.id
    <3>0. m.st # "sent"
      BY <1>9 DEF Reloaded, Arrived
    <3>1. m.id \in Cases /\ IsItem(item) /\ Known(item) /\ item.id = m.id
      BY <1>1, <1>3, <2>2, <3>0
    <3>2. PICK i : i = IF list[m.id] = NoEdit THEN NoEdit ELSE m.item
      OBVIOUS
    <3>3. list' = [list EXCEPT ![m.id] = i]
      BY <1>9, <2>2, <3>2 DEF Reloaded
    <3>4. IsItem(i) /\ Known(i) /\ (i = NoEdit \/ i.id = m.id)
      BY <1>3, <3>1, <3>2 DEF IsItem, Known, NoEdit
    <3>5. ListTrue(list')
      BY <1>0, <3>1, <3>3, <3>4, ListedTrue
    <3>6. PICK r : r = Refresh(s, m.id)
      OBVIOUS
    <3>7. AllSound(r, edit)
      BY <1>4, <3>1, <3>6, RefreshSound
    <3>8. /\ sel' = m.id /\ edit' = item /\ lock' = NoFlow /\ proof' = Nobody
      BY <1>3, <1>9, <2>2 DEF Reloaded
    <3>9. AllSound(net', item) /\ panel'.id \in {Nobody, item.id}
      <4>1. CASE item.id = edit.id /\ item.version = edit.version
        <5>1. net' = r /\ panel' = panel
          BY <1>2, <1>3, <1>9, <2>2, <3>6, <4>1 DEF Reloaded, rest
        <5>. QED  BY <1>0, <3>7, <4>1, <5>1 DEF AllSound, Live
      <4>2. CASE ~(item.id = edit.id /\ item.version = edit.version)
        <5>1. PICK at : at = tab
          OBVIOUS
        <5>2. PanelFor(item, at, r)
          BY <1>2, <1>3, <1>9, <2>2, <3>6, <4>2, <5>1 DEF Reloaded, rest
        <5>. QED  BY <1>0, <3>1, <3>7, <5>2, PanelFollows
      <4>. QED  BY <4>1, <4>2
    <3>10. After
      BY <3>1, <3>8, <3>9 DEF After, Surrounds, NoFlow
    <3>. QED  BY <3>5, <3>10 DEF Holds
  <2>. QED  BY <2>1, <2>2
<1>10. CASE ProofArrived(m)
  <2>1. /\ net' = rest /\ list' = list /\ sel' = sel /\ edit' = edit /\ lock' = lock /\ panel' = panel
        /\ proof' \in {proof, sel}
    BY <1>10 DEF ProofArrived, rest, panelVars
  <2>. QED  BY <1>0, <2>1 DEF Holds, After, Surrounds
<1>. QED  BY <1>5, <1>6, <1>7, <1>8, <1>9, <1>10 DEF Receive

(* Requests are served, and colleagues act.                                  *)
\* A pin or an assignment leaves the text as it was.
LEMMA TextKept ==
  ASSUME RecordInv, NEW c \in Cases, NEW v, NEW a, NEW r, NEW u,
         Pin(u, c) \/ Assign(u, c, v, a, r)
  PROVE  case'[c].text = case[c].text
<1>1. IsCase(case[c]) /\ case = [d \in Cases |-> case[d]]
  BY DEF RecordInv, RecordTypeOK
<1>2. PICK old : old = case[c]
  OBVIOUS
<1>3. CASE Pin(u, c)
  <2>1. CASE case[c].evidence = 0
    <3>1. PICK new : new = [old EXCEPT !.evidence = case[c].version + 1, !.editor = u]
      OBVIOUS
    <3>2. new.text = old.text /\ IsCase(new)
      BY <1>1, <1>2, <3>1, ChangedEvidence DEF IsCase
    <3>3. case' = [case EXCEPT ![c] = [new EXCEPT !.version = case[c].version + 1]]
      BY <1>2, <1>3, <2>1, <3>1 DEF Pin, Write
    <3>4. case'[c] = [new EXCEPT !.version = case[c].version + 1]
      BY <1>1, <3>3
    <3>. QED  BY <1>2, <3>2, <3>4 DEF IsCase
  <2>2. CASE case[c].evidence # 0
    BY <1>3, <2>2 DEF Pin
  <2>. QED  BY <2>1, <2>2
<1>4. CASE Assign(u, c, v, a, r)
  <2>1. PICK new : new = [old EXCEPT !.assignee = a, !.reviewer = r]
    OBVIOUS
  <2>2. new.text = old.text /\ IsCase(new)
    BY <1>1, <1>2, <2>1, ChangedPeople DEF IsCase
  <2>3. case' = [case EXCEPT ![c] = [new EXCEPT !.version = v + 1]]
    BY <1>2, <1>4, <2>1 DEF Assign, Write
  <2>4. case'[c] = [new EXCEPT !.version = v + 1]
    BY <1>1, <2>3
  <2>. QED  BY <1>2, <2>2, <2>4 DEF IsCase
<1>. QED  BY <1>3, <1>4

\* A case that was granted something has a version.
LEMMA GrantedExists ==
  ASSUME RecordInv, InOrder, NEW m, NEW c \in Cases, Granted(m, c)
  PROVE  case'[c].version \in 1 .. MaxVersion
<1>1. case'[c].version \in 0 .. MaxVersion /\ case[c].version \in 0 .. MaxVersion
      /\ case[c].version <= case'[c].version /\ case = [d \in Cases |-> case[d]]
  BY DEF InOrder, GoesOn, RecordInv, RecordTypeOK
<1>2. CASE Reads(Me, c)
  BY <1>1, <1>2 DEF Reads
<1>3. CASE Create(Me, c, m.text)
  <2>1. case' = [case EXCEPT ![c] = [[case[c] EXCEPT !.text = m.text] EXCEPT !.version = 1]]
    BY <1>3 DEF Create, Write
  <2>2. IsCase(case[c])
    BY DEF RecordInv, RecordTypeOK
  <2>3. case'[c].version = 1
    BY <1>1, <2>1, <2>2 DEF IsCase
  <2>. QED  BY <1>1, <2>3
<1>. QED  BY <1>2, <1>3 DEF Granted, Save, Pin, Assign, Submit, Decide, Reopen, Edits

LEMMA ServeHolds ==
  ASSUME EditorAssumption, RecordInv, EditorInv, NEW m \in net, Serve(m)
  PROVE  InOrder /\ EditorInv'
<1>0. /\ ListTrue(list) /\ Surrounds(edit, sel, proof, lock, panel) /\ AllSound(net, edit)
      /\ Sound(m) /\ Live(m, edit)
      /\ UNCHANGED <<list, edit, sel, proof, lock, panel>>
  BY DEF EditorInv, AllSound, Serve, editor, shownVars, panelVars
<1>1. InOrder
  BY GrantedKeeps, StillInOrder DEF Serve, EditorAssumption
<1>2. PICK l, e, s, p, k, q, n :
        l = list /\ e = edit /\ s = sel /\ p = proof /\ k = lock /\ q = panel /\ n = net
  OBVIOUS
<1>3. ListTrue(l)' /\ Surrounds(e, s, p, k, q)' /\ AllSound(n, e)'
  BY <1>0, <1>1, <1>2, HeldStays
<1>4. ListTrue(list)'
  BY <1>0, <1>2, <1>3 DEF ListTrue, Known, IsItem, NoEdit
<1>5. Surrounds(edit, sel, proof, lock, panel)'
  BY <1>0, <1>2, <1>3 DEF Surrounds, Known, IsItem, NoEdit
<1>6. Sound(m)'
  BY <1>0, <1>1, SoundStays
<1>7. ASSUME NEW c, NEW ok \in BOOLEAN, Answer(m, c, ok), m.st = "sent",
             /\ ~ok => c = m.id
             /\ ok => /\ c \in Cases /\ Granted(m, c)
                      /\ m.id = c \/ (m.kind = "save" /\ m.id = Nobody)
      PROVE  AllSound(net, edit)'
  <2>1. PICK st, v, i, may, a :
          /\ st = (IF ok THEN "ok" ELSE "error")
          /\ v = (IF m.kind = "pin" /\ ok THEN case[c].version ELSE m.version)
          /\ i = (IF ok THEN [id |-> c, version |-> case'[c].version, text |-> case'[c].text]
                  ELSE NoEdit)
          /\ may = (IF ok /\ m.kind = "flow" THEN May(Me, c) ELSE {})
          /\ a = [m EXCEPT !.st = st, !.id = c, !.from = m.id, !.version = v, !.item = i, !.may = may]
    OBVIOUS
  <2>2. net' = (net \ {m}) \cup {a}
    BY <1>7, <2>1 DEF Answer
  <2>3. a = [kind |-> m.kind, id |-> c, version |-> v, live |-> m.live, st |-> st,
             text |-> m.text, from |-> m.id, who |-> m.who, item |-> i, may |-> may]
    BY <1>0, <2>1 DEF Sound, IsReq
  <2>4. /\ IsReq(a) /\ a.kind = m.kind /\ a.id = c /\ a.version = v /\ a.live = m.live
        /\ a.st = st /\ a.text = m.text /\ a.item = i
    BY <2>3 DEF IsReq
  <2>5. c \in Cases \cup {Nobody} /\ m.live \in BOOLEAN /\ (c = Nobody => m.kind = "save")
    BY <1>0, <1>7 DEF Sound
  <2>6. m.kind # "save" => c = m.id
    BY <1>7
  <2>7. m.kind \in Changes => m.version \in 1 .. case'[m.id].version /\ m.kind # "pin" /\ m.kind # "save"
    BY <1>6 DEF Sound, Changes
  <2>8. m.kind = "approve" => m.text = textAt'[m.id][m.version]
    BY <1>6 DEF Sound
  <2>9. ASSUME ok
        PROVE  /\ c \in Cases /\ IsItem(i) /\ i.id = c /\ Known(i)'
               /\ m.kind \in {"assign", "pin"} =>
                    /\ v \in 1 .. case'[c].version
                    /\ i.text = textAt'[c][v]
    <3>1. c \in Cases /\ Granted(m, c)
      BY <1>7, <2>9
    <3>2. /\ case'[c].version \in 1 .. MaxVersion
          /\ case'[c].text = textAt'[c][case'[c].version]
      <4>1. case'[c].version \in 1 .. MaxVersion
        BY <1>1, <3>1, GrantedExists
      <4>2. CaseTrue(c)'
        BY <1>1, <3>1 DEF InOrder, RecordInv
      <4>. QED  BY <4>1, <4>2 DEF CaseTrue
    <3>3. i = [id |-> c, version |-> case'[c].version, text |-> case'[c].text]
      BY <2>1, <2>9
    <3>4. IsItem(i) /\ i.id = c /\ Known(i)'
      BY <3>1, <3>2, <3>3 DEF IsItem, Known
    <3>5. ASSUME m.kind \in {"assign", "pin"}
          PROVE  v \in 1 .. case'[c].version /\ i.text = textAt'[c][v]
      <4>1. Pin(Me, c) \/ Assign(Me, c, m.version, m.who[1], m.who[2])
        BY <3>1, <3>5 DEF Granted
      <4>2. case'[c].text = case[c].text
        BY <3>1, <4>1, TextKept
      <4>3. m.kind = "assign" => Assign(Me, c, m.version, m.who[1], m.who[2])
        BY <3>1 DEF Granted
      <4>4. v = case[c].version
        BY <2>1, <2>9, <3>5, <4>3 DEF Assign, Write
      <4>5. Reads(Me, c)
        BY <4>1 DEF Pin, Edits, Assign
      <4>6. case[c].version \in 1 .. case[c].version /\ case[c].text = textAt[c][case[c].version]
        BY <3>1, <4>5 DEF Reads, RecordInv, RecordTypeOK, CaseTrue
      <4>7. case[c].version <= case'[c].version /\ case[c].version \in Int /\ case'[c].version \in Int
            /\ \A w \in 1 .. case[c].version : textAt'[c][w] = textAt[c][w]
        BY <1>1, <3>1 DEF InOrder, GoesOn, RecordInv, RecordTypeOK
      <4>. QED  BY <3>3, <4>2, <4>4, <4>6, <4>7
    <3>. QED  BY <3>1, <3>4, <3>5
  <2>10. st \in {"sent", "ok", "error"} /\ (st = "ok" => ok)
    BY <2>1
  <2>11. v = m.version \/ m.kind = "pin"
    BY <2>1
  <2>12. Sound(a)'
    <3>1. a.st = "ok" => a.id \in Cases /\ IsItem(a.item) /\ a.item.id = a.id /\ Known(a.item)'
      <4>1. st = "ok" => c \in Cases /\ IsItem(i) /\ i.id = c /\ Known(i)'
        BY <2>9, <2>10
      <4>. QED  BY <2>4, <4>1
    <3>2. a.kind \in Changes => a.version \in 1 .. case'[a.id].version
      BY <2>4, <2>6, <2>7, <2>11
    <3>3. a.kind = "approve" => a.text = textAt'[a.id][a.version]
      BY <2>4, <2>6, <2>8, <2>11
    <3>4. (a.kind \in {"assign", "pin"} /\ a.st = "ok") =>
            a.version \in 1 .. case'[a.id].version /\ a.item.text = textAt'[a.id][a.version]
      BY <2>4, <2>9, <2>10
    <3>5. /\ IsReq(a) /\ a.id \in Cases \cup {Nobody} /\ a.live \in BOOLEAN
          /\ a.st \in {"sent", "ok", "error"} /\ (a.id = Nobody => a.kind = "save")
      BY <2>4, <2>5, <2>10
    <3>. QED  BY <3>1, <3>2, <3>3, <3>4, <3>5 DEF Sound
  <2>13. Live(a, edit)
    <3>1. m.kind \in PanelKinds => m.kind # "save" /\ m.kind # "pin"
      BY DEF PanelKinds
    <3>. QED  BY <1>0, <2>4, <2>6, <2>11, <3>1 DEF Live
  <2>14. ASSUME NEW x \in net'
         PROVE  Sound(x)' /\ Live(x, edit')
    <3>1. CASE x = a
      BY <1>0, <2>12, <2>13, <3>1
    <3>2. CASE x # a
      <4>1. x \in n
        BY <1>2, <2>2, <3>2
      <4>2. Sound(x)' /\ Live(x, e)
        BY <1>3, <4>1 DEF AllSound, Live
      <4>. QED  BY <1>0, <1>2, <4>2
    <3>. QED  BY <3>1, <3>2
  <2>. QED  BY <2>14 DEF AllSound, Live
<1>8. AllSound(net, edit)'
  <2>1. CASE \E c \in Cases :
          /\ m.id = c \/ (m.id = Nobody /\ c \in Unborn)
          /\ (m.id = Nobody) <=> (m.kind = "save" /\ case[c].version = 0)
          /\ Granted(m, c) /\ Answer(m, c, TRUE)
    <3>1. PICK c \in Cases :
          /\ m.id = c \/ (m.id = Nobody /\ c \in Unborn)
          /\ (m.id = Nobody) <=> (m.kind = "save" /\ case[c].version = 0)
          /\ Granted(m, c) /\ Answer(m, c, TRUE)
      BY <2>1
    <3>2. m.id = c \/ (m.kind = "save" /\ m.id = Nobody)
      BY <3>1
    <3>3. m.st = "sent"
      BY DEF Serve
    <3>. QED  BY <1>7, <3>1, <3>2, <3>3
  <2>2. CASE Answer(m, m.id, FALSE)
    BY <1>7, <2>2 DEF Serve
  <2>. QED  BY <2>1, <2>2 DEF Serve
<1>. QED  BY <1>1, <1>4, <1>5, <1>8 DEF EditorInv

LEMMA PeersHold ==
  ASSUME EditorAssumption, RecordInv, EditorInv, Peers
  PROVE  InOrder /\ EditorInv'
<1>1. PICK c \in Cases : Lapse(c) \/ \E u \in Analysts \ {Me} : Act(u, c, case[c].version)
  BY DEF Peers
<1>2. PICK v : v = case[c].version
  OBVIOUS
<1>3. InOrder
  <2>1. CASE Lapse(c)
    BY <2>1, LapseKeeps DEF EditorAssumption
  <2>2. CASE \E u \in Analysts \ {Me} : Act(u, c, v)
    BY <2>2, ActKeeps DEF EditorAssumption
  <2>. QED  BY <1>1, <1>2, <2>1, <2>2
<1>4. UNCHANGED <<list, edit, sel, proof, lock, panel, net>>
  BY DEF Peers, editor, shownVars, panelVars
<1>5. Holds
  BY <1>4 DEF Holds, After, EditorInv
<1>. QED  BY <1>3, <1>5, Carried

(* The theorems.                                                             *)
CaseInv == RecordInv /\ EditorInv

LEMMA CaseInvInit ==
  ASSUME EditorAssumption, Init
  PROVE  CaseInv
<1>1. RecordInv
  BY RecordInit DEF Init
<1>2. ListTrue(list)
  BY <1>1, HeardTrue DEF Init, EditorInit
<1>3. Surrounds(edit, sel, proof, lock, panel) /\ AllSound(net, edit)
  BY DEF Init, EditorInit, Surrounds, AllSound, IsItem, Known, NoEdit, NoFlow
<1>. QED  BY <1>1, <1>2, <1>3 DEF CaseInv, EditorInv

LEMMA CaseInvNext ==
  ASSUME EditorAssumption, CaseInv, [Next]_vars
  PROVE  InOrder /\ CaseInv'
<1>0. RecordInv /\ EditorInv
  BY DEF CaseInv
<1>1. CASE Peers
  BY <1>0, <1>1, PeersHold DEF CaseInv, InOrder
<1>2. CASE Click
  <2>1. UNCHANGED record
    BY <1>2 DEF Click, SwitchTab, Type, NewCase, SaveCase, Assigns, Reviews, Reload, PickCase,
                PinEvent, PanelAct
  <2>2. InOrder
    BY <1>0, <2>1, StillInOrder DEF EditorAssumption
  <2>3. Holds
    BY <1>0, <1>2, ClickHolds
  <2>. QED  BY <1>0, <2>2, <2>3, Carried DEF CaseInv, InOrder
<1>3. ASSUME NEW m \in net, Serve(m)
      PROVE  InOrder /\ CaseInv'
  BY <1>0, <1>3, ServeHolds DEF CaseInv, InOrder
<1>4. ASSUME NEW m \in net, Receive(m)
      PROVE  InOrder /\ CaseInv'
  <2>1. UNCHANGED record
    BY <1>4 DEF Receive, Saved, Pinned, FlowArrived, ActDone, Reloaded, ProofArrived
  <2>2. InOrder
    BY <1>0, <2>1, StillInOrder DEF EditorAssumption
  <2>3. Holds
    BY <1>0, <1>4, ReceiveHolds
  <2>. QED  BY <1>0, <2>2, <2>3, Carried DEF CaseInv, InOrder
<1>5. CASE UNCHANGED vars
  <2>1. UNCHANGED record /\ UNCHANGED <<list, edit, sel, proof, lock, panel, net>>
    BY <1>5 DEF vars, editor, shownVars, panelVars
  <2>2. InOrder
    BY <1>0, <2>1, StillInOrder DEF EditorAssumption
  <2>3. Holds
    BY <1>0, <2>1 DEF Holds, After, EditorInv
  <2>. QED  BY <1>0, <2>2, <2>3, Carried DEF CaseInv, InOrder
<1>. QED  BY <1>1, <1>2, <1>3, <1>4, <1>5 DEF Next

\* Only the reviewer's approval closes a case.
LEMMA ClosedByReview ==
  ASSUME RecordInv, NEW c \in Cases, NEW d \in Cases, NEW u, NEW v, NEW approve \in BOOLEAN,
         Decide(u, d, v, approve), approved'[c] # approved[c]
  PROVE  /\ c = d /\ approve /\ approved'[c] = review[c] /\ review[c].reviewer = u
         /\ v = case[c].version /\ review[c].text = case[c].text /\ case[c].version > 0
<1>1. approved' = [approved EXCEPT ![d] = IF approve THEN review[d] ELSE @]
      /\ approved = [e \in Cases |-> approved[e]]
  BY DEF Decide, RecordInv, RecordTypeOK
<1>2. c = d /\ approve /\ approved'[c] = review[c]
  BY <1>1
<1>3. CaseTrue(c) /\ case[c].version \in 0 .. MaxVersion
  BY DEF RecordInv, RecordTypeOK
<1>4. review[c].reviewer = u /\ v = case[c].version /\ case[c].status = "REVIEW" /\ Reads(u, c)
  BY <1>2 DEF Decide, Decides, Write
<1>. QED  BY <1>2, <1>3, <1>4 DEF CaseTrue, Reads

LEMMA ReopenedClears ==
  ASSUME RecordInv, NEW c \in Cases, NEW d \in Cases, NEW u, NEW v, Reopen(u, d, v),
         approved'[c] # approved[c]
  PROVE  approved'[c].version = 0
BY DEF Reopen, RecordInv, RecordTypeOK, NoReview

LEMMA DecisionShown ==
  ASSUME EditorAssumption, CaseInv, [Next]_vars
  PROVE  DecidesWhatWasShown
<1>0. RecordInv /\ EditorInv
  BY DEF CaseInv
<1>. SUFFICES ASSUME NEW c \in Cases, approved'[c] # approved[c], approved'[c].version # 0,
                     approved'[c].reviewer = Me
              PROVE  \E m \in net \ net' : m.kind = "approve" /\ m.id = c /\ m.text = approved'[c].text
  BY DEF DecidesWhatWasShown
<1>1. approved' # approved
  OBVIOUS
<1>2. ~UNCHANGED record
  BY <1>1 DEF record
<1>3. CASE Peers
  <2>1. PICK d \in Cases : Lapse(d) \/ \E u \in Analysts \ {Me} : Act(u, d, case[d].version)
    BY <1>3 DEF Peers
  <2>2. ~Lapse(d)
    BY <1>1 DEF Lapse
  <2>3. PICK u \in Analysts \ {Me} : Act(u, d, case[d].version)
    BY <2>1, <2>2
  <2>4. PICK v : v = case[d].version
    OBVIOUS
  <2>5. ~(Save(u, d, v, NewText(d)) \/ Create(u, d, NewText(d)) \/ Pin(u, d) \/ Submit(u, d, v))
    BY <1>1 DEF Save, Create, Pin, Submit
  <2>6. \A team \in Teams : ~Assign(u, d, v, team[1], team[2])
    BY <1>1 DEF Assign
  <2>7. ~Reopen(u, d, v)
    BY <1>0, ReopenedClears
  <2>8. PICK approve \in BOOLEAN : Decide(u, d, v, approve)
    BY <2>3, <2>4, <2>5, <2>6, <2>7 DEF Act
  <2>9. approved'[c].reviewer = u
    BY <1>0, <2>8, ClosedByReview
  <2>. QED  BY <2>9
<1>4. ASSUME NEW m \in net, Serve(m)
      PROVE  \E x \in net \ net' : x.kind = "approve" /\ x.id = c /\ x.text = approved'[c].text
  <2>1. PICK d \in Cases :
          /\ m.id = d \/ (m.id = Nobody /\ d \in Unborn)
          /\ (m.id = Nobody) <=> (m.kind = "save" /\ case[d].version = 0)
          /\ Granted(m, d) /\ Answer(m, d, TRUE)
    BY <1>2, <1>4 DEF Serve
  <2>2. m.kind \notin {"save", "pin", "assign", "submit", "reload", "flow", "proof"}
    BY <1>1, <1>2, <2>1 DEF Granted, Save, Create, Pin, Assign, Submit
  <2>3. ~Reopen(Me, d, m.version)
    BY <1>0, ReopenedClears
  <2>4. ~Decide(Me, d, m.version, FALSE)
    BY <1>0, ClosedByReview
  <2>5. m.kind = "approve" /\ Decide(Me, d, m.version, TRUE)
    BY <2>1, <2>2, <2>3, <2>4 DEF Granted
  <2>6. /\ c = d /\ approved'[c] = review[c]
        /\ m.version = case[c].version /\ review[c].text = case[c].text /\ case[c].version > 0
    BY <1>0, <2>5, ClosedByReview
  <2>7. m.id = c
    BY <2>1, <2>5, <2>6
  <2>8. m.text = textAt[c][case[c].version]
    BY <1>0, <2>5, <2>6, <2>7 DEF EditorInv, AllSound, Sound
  <2>9. case[c].text = textAt[c][case[c].version]
    BY <1>0, <2>6 DEF RecordInv, CaseTrue
  <2>10. m \notin net'
    <3>1. PICK a : /\ net' = (net \ {m}) \cup {a}
                   /\ a = [m EXCEPT !.st = "ok", !.id = d, !.from = m.id,
                             !.version = IF m.kind = "pin" /\ TRUE THEN case[d].version ELSE @,
                             !.item = [id |-> d, version |-> case'[d].version, text |-> case'[d].text],
                             !.may = IF TRUE /\ m.kind = "flow" THEN May(Me, d) ELSE {}]
      BY <2>1 DEF Answer
    <3>2. IsReq(m) /\ m.st = "sent"
      BY <1>0, <1>4 DEF EditorInv, AllSound, Sound, Serve
    <3>3. a.st = "ok"
      BY <3>1, <3>2 DEF IsReq
    <3>. QED  BY <3>1, <3>2, <3>3
  <2>. QED  BY <2>5, <2>6, <2>7, <2>8, <2>9, <2>10
<1>5. CASE Click \/ (\E m \in net : Receive(m)) \/ UNCHANGED vars
  BY <1>2, <1>5 DEF Click, SwitchTab, Type, NewCase, SaveCase, Assigns, Reviews, Reload, PickCase,
              PinEvent, PanelAct, Receive, Saved, Pinned, FlowArrived, ActDone, Reloaded,
              ProofArrived, vars
<1>. QED  BY <1>3, <1>4, <1>5 DEF Next

\* What the invariant gives the analyst and the reviewers.
LEMMA CaseInvShows ==
  ASSUME CaseInv
  PROVE  BaseIsTrue /\ ShowsSelection /\ IndependentReview
<1>1. BaseIsTrue /\ ShowsSelection
  BY DEF CaseInv, EditorInv, Surrounds, Known, BaseIsTrue, ShowsSelection
<1>2. IndependentReview
  BY InOrderIsReviewed DEF CaseInv
<1>. QED  BY <1>1, <1>2

\* CaseInv, for any number of cases, versions, analysts and requests: each record
\* agrees with the texts its versions had and with its review, and whatever the
\* editor shows, has asked for or is about to receive belongs to a version there was.
THEOREM CasesStayTrue == EditorAssumption => (Spec => []CaseInv)
<1>. SUFFICES ASSUME EditorAssumption
              PROVE  Spec => []CaseInv
  OBVIOUS
<1>1. Init => CaseInv
  BY CaseInvInit
<1>2. CaseInv /\ [Next]_vars => CaseInv'
  BY CaseInvNext
<1>. QED  BY <1>1, <1>2, PTL DEF Spec

\* BaseIsTrue and ShowsSelection for any number of cases and colleagues: the draft
\* is based on the text of the version it would replace, and what surrounds it on
\* the screen belongs to the same case, in whatever order answers arrive.
THEOREM DraftsAreBased == EditorAssumption => (Spec => [](BaseIsTrue /\ ShowsSelection))
<1>1. CaseInv => BaseIsTrue /\ ShowsSelection
  BY CaseInvShows
<1>. QED  BY <1>1, CasesStayTrue, PTL

\* IndependentReview: a closed case holds the text that was reviewed, by somebody
\* who neither asked for the review nor wrote last.
THEOREM ReviewsAreIndependent == EditorAssumption => (Spec => []IndependentReview)
<1>1. CaseInv => IndependentReview
  BY CaseInvShows
<1>. QED  BY <1>1, CasesStayTrue, PTL

\* NoBlindDecision: an approval given at this editor is for the very text that was
\* on screen when the button was pressed.
THEOREM DecisionsAreInformed == EditorAssumption => (Spec => NoBlindDecision)
<1>. SUFFICES ASSUME EditorAssumption
              PROVE  Spec => NoBlindDecision
  OBVIOUS
<1>1. CaseInv /\ [Next]_vars => [DecidesWhatWasShown]_vars
  BY DecisionShown
<1>2. Spec => []CaseInv
  BY CasesStayTrue
<1>. QED  BY <1>1, <1>2, PTL DEF Spec, NoBlindDecision
===============================================================================
