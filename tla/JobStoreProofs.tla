--------------------------- MODULE JobStoreProofs ---------------------------
(***************************************************************************)
(* Proofs about JobStore for every set of jobs, workers and clients.       *)
(*                                                                         *)
(* The actions fall into three kinds: those that write rows and give each  *)
(* a new version (Save, the claims, the reclaims), those that only move a  *)
(* row's lease or due column, and those that only read.  One lemma per     *)
(* kind shows that it preserves IInv; the proof of the step then shows, by *)
(* action, which kind it is.                                               *)
(***************************************************************************)
EXTENDS JobStore, TLAPS

USE StoreAssumption DEF Holders

-----------------------------------------------------------------------------
(* What the record operators return *)

\* Successors stays within the statuses: a moved document is a document.
LEMMA MovedType ==
  ASSUME NEW d \in Doc, NEW s \in Statuses
  PROVE  LET m == Moved(d, s, Nobody)
         IN  /\ m \in Doc
             /\ m.id = d.id /\ m.status = s
             /\ m.attempt = d.attempt /\ m.version = d.version
             /\ s = d.status => m = d
             /\ s # d.status => m.owner = IF s \in Active THEN d.owner ELSE Nobody
BY DEF Moved, Doc

\* The values of the two wall-clock columns.
LEMMA LeaseTypes ==
  /\ "none" \in Leases /\ "live" \in Leases /\ "lapsed" \in Leases
  /\ "due" \in Dues /\ "delayed" \in Dues
BY DEF Leases, Dues

\* What UPDATE jobs writes, field by field.
LEMMA WrittenType ==
  ASSUME NEW r \in Row, NEW d \in Doc, NEW o \in Workers \cup {Nobody},
         NEW l \in Leases, NEW u \in Dues
  PROVE  LET x == Written(r, d, o, l, u)
         IN  /\ x \in Row
             /\ x.status = d.status /\ x.version = d.version /\ x.doc = d
             /\ x.owner = o /\ x.lease = l /\ x.due = u
BY DEF Written, Row, Doc

\* A blank row, field by field.
LEMMA NoRowType ==
  ASSUME NEW j \in Jobs
  PROVE  /\ NewDoc(j) \in Doc /\ NewDoc(j).id = j /\ NewDoc(j).version = 0
         /\ NewDoc(j).status = "queued" /\ NewDoc(j).owner = Nobody
         /\ NoRow(j) \in Row
         /\ NoRow(j).status = "absent" /\ NoRow(j).version = 0
         /\ NoRow(j).owner = Nobody /\ NoRow(j).lease = "none"
         /\ NoRow(j).doc = NewDoc(j)
BY LeaseTypes DEF NoRow, NewDoc, Row, Doc, Statuses

\* An inserted row is queued and otherwise still blank.
LEMMA InsertedType ==
  ASSUME NEW r \in Row, NEW e \in SUBSET Jobs
  PROVE  LET x == Inserted(r, e)
         IN  /\ x \in Row
             /\ x.status = "queued" /\ x.version = r.version /\ x.doc = r.doc
             /\ x.owner = r.owner /\ x.lease = r.lease
BY DEF Inserted, Row, Statuses

\* A change of lease or due leaves every other column as it was.
LEMMA ColumnType ==
  ASSUME NEW r \in Row, NEW l \in Leases,
         NEW x \in {Leased(r, l), MadeDue(r)}
  PROVE  /\ x \in Row
         /\ x.status = r.status /\ x.version = r.version /\ x.doc = r.doc
         /\ x.owner = r.owner
         /\ x.lease \in {l, r.lease}
BY LeaseTypes DEF Leased, MadeDue, Row

\* The next version of a document, with the status and owner asked for.
LEMMA NextDocType ==
  ASSUME NEW d \in Doc, NEW s \in Statuses, NEW o \in Workers \cup {Nobody}
  PROVE  LET n == NextDoc(d, s, o)
         IN  /\ n \in Doc
             /\ n.id = d.id /\ n.status = s /\ n.attempt = d.attempt
             /\ n.owner = o /\ n.version = d.version + 1
BY DEF NextDoc, Doc

\* A new attempt runs, belongs to its worker and is counted.
LEMMA AttemptDocType ==
  ASSUME NEW d \in Doc, NEW w \in Workers
  PROVE  LET n == AttemptDoc(d, w)
         IN  /\ n \in Doc
             /\ n.id = d.id /\ n.status = "running" /\ n.attempt = d.attempt + 1
             /\ n.owner = w /\ n.version = d.version + 1
BY DEF AttemptDoc, Doc, Statuses

\* A reclaimed row is queued or failed, unowned, and one version on.
LEMMA ReclaimedType ==
  ASSUME NEW r \in Row
  PROVE  LET x == Reclaimed(r)
         IN  /\ x \in Row
             /\ x.status \in {"queued", "failed"}
             /\ x.status = ReclaimStatus(r.doc, MaxAttempts)
             /\ x.status = x.doc.status /\ x.owner = x.doc.owner
             /\ x.owner = Nobody /\ x.lease = "none"
             /\ x.version = x.doc.version
             /\ x.version = r.doc.version + 1
             /\ x.doc.id = r.doc.id /\ x.doc.attempt = r.doc.attempt
<1> DEFINE t == ReclaimStatus(r.doc, MaxAttempts)
           d == NextDoc(r.doc, t, Nobody)
<1>1. r.doc \in Doc /\ r.due \in Dues
  BY DEF Row, Doc
<1>2. t \in {"queued", "failed"} /\ t \in Statuses
  BY DEF ReclaimStatus, Statuses
<1>3. /\ d \in Doc
      /\ d.id = r.doc.id /\ d.attempt = r.doc.attempt
      /\ d.status = t
      /\ d.owner = Nobody /\ d.version = r.doc.version + 1
  BY <1>1, <1>2, NextDocType
<1>4. LET x == Written(r, d, Nobody, "none", r.due)
      IN  /\ x \in Row
          /\ x.status = d.status /\ x.version = d.version /\ x.doc = d
          /\ x.owner = Nobody /\ x.lease = "none"
  BY <1>1, <1>3, WrittenType, LeaseTypes
<1>5. Reclaimed(r) = Written(r, d, Nobody, "none", r.due)
  BY DEF Reclaimed
<1> QED
  BY <1>2, <1>3, <1>4, <1>5

\* A holder that keeps a document has it and what it had before.
LEMMA HoldingType ==
  ASSUME TypeOK, NEW h \in Holders, NEW d \in Doc, copies' = Holding(h, d)
  PROVE  /\ copies' \in [Holders -> SUBSET Doc]
         /\ \A g \in Holders : \A c \in copies'[g] : c \in copies[g] \/ (g = h /\ c = d)
<1>1. copies \in [Holders -> SUBSET Doc]
  BY DEF TypeOK
<1> DEFINE X == {c \in copies[h] : c.id # d.id} \cup {d}
<1>2. X \in SUBSET Doc /\ \A c \in X : c \in copies[h] \/ c = d
  BY <1>1
<1>3. copies' = [copies EXCEPT ![h] = X]
  BY DEF Holding
<1> HIDE DEF X
<1>4. copies' \in [Holders -> SUBSET Doc]
  BY <1>1, <1>2, <1>3
<1>5. copies'[h] = X /\ \A g \in Holders \ {h} : copies'[g] = copies[g]
  BY <1>1, <1>3
<1> QED
  BY <1>2, <1>4, <1>5

-----------------------------------------------------------------------------
(* The three kinds of steps *)

\* Rows of S are written with their next version; the writer may keep the
\* document it wrote.
LEMMA VersionedWrite ==
  ASSUME IInv,
         NEW S \in SUBSET Created,
         rows' \in [Jobs -> Row],
         \A k \in Jobs \ S : rows'[k] = rows[k],
         \A k \in S : /\ rows'[k].doc.id = k
                      /\ rows'[k].status = rows'[k].doc.status
                      /\ rows'[k].owner = rows'[k].doc.owner
                      /\ rows'[k].version = rows'[k].doc.version
                      /\ rows'[k].version = rows[k].version + 1
                      /\ rows'[k].status \in Active <=> rows'[k].owner # Nobody
                      /\ rows'[k].status \in Active <=> rows'[k].lease # "none"
                      /\ rows'[k].status \in Active => \/ ActiveRow(k)
                                                       \/ Claimable(k) /\ S = {k},
         \/ copies' = copies
         \/ \E h \in Holders, k \in S :
              /\ copies' = Holding(h, rows'[k].doc)
              /\ h \in Workers /\ rows'[k].status \in Active => rows'[k].owner = h
  PROVE  IInv'
<1>1. TypeOK /\ \A k \in Jobs : rows[k].version \in Nat /\ rows[k].doc \in Doc
  BY DEF IInv, TypeOK, Row
<1>2. TypeOK'
  <2>1. \A k \in S : rows'[k].doc \in Doc
    BY DEF Row, Created
  <2>2. \A h \in Holders : \A k \in S : Holding(h, rows'[k].doc) \in [Holders -> SUBSET Doc]
    BY <1>1, <2>1 DEF TypeOK, Holding
  <2> QED
    BY <1>1, <2>2 DEF TypeOK
<1>3. Created' = Created
  <2>1. \A k \in S : rows'[k].status # "absent"
    BY DEF Row, Doc, Statuses, Created
  <2> QED
    BY <2>1 DEF Created
<1>4. RowsInPlace'
  <2>1. \A k \in Jobs \ S : rows'[k].doc.id = k /\ (k \notin Created => rows'[k] = NoRow(k))
    BY DEF IInv, RowsInPlace
  <2>2. \A k \in Jobs : k \notin Created => k \notin S
    OBVIOUS
  <2> QED
    BY <1>3, <2>1, <2>2 DEF RowsInPlace, NoRow, NewDoc
<1>5. ColumnsMatchDocument'
  BY <1>3 DEF IInv, ColumnsMatchDocument, Created
<1>6. LeasedWhileActive'
  BY DEF IInv, LeasedWhileActive, ActiveRow, Created
<1>7. CopiesOfRows'
  <2>1. \A h \in Holders : \A d \in copies'[h] :
          d \in copies[h] \/ \E k \in S : d = rows'[k].doc
    BY <1>1 DEF TypeOK, Holding
  <2> QED
    BY <1>3, <2>1 DEF IInv, CopiesOfRows
<1>8. FreshCopyIsCurrent'
  <2> SUFFICES ASSUME NEW h \in Holders, NEW d \in copies'[h]
               PROVE  /\ d.version <= rows'[d.id].version
                      /\ rows'[d.id].version = d.version => d = rows'[d.id].doc
    BY DEF FreshCopyIsCurrent, Current
  <2>1. CASE d \in copies[h]
    <3>1. /\ d.id \in Created /\ d \in Doc
          /\ d.version <= rows[d.id].version
          /\ rows[d.id].version = d.version => d = rows[d.id].doc
      BY <2>1 DEF IInv, TypeOK, CopiesOfRows, FreshCopyIsCurrent, Current
    <3>2. CASE d.id \in S
      BY <3>1, <3>2, <1>1 DEF Doc, Created
    <3>3. CASE d.id \notin S
      BY <3>1, <3>3 DEF Created
    <3> QED
      BY <3>2, <3>3
  <2>2. CASE d \notin copies[h]
    <3>1. PICK k \in S : d = rows'[k].doc
      BY <2>2, <1>1 DEF Holding, TypeOK
    <3>2. d.id = k /\ d.version = rows'[k].version /\ d.version \in Nat
      BY <3>1, <1>2 DEF TypeOK, Row, Created
    <3> QED
      BY <3>1, <3>2
  <2> QED
    BY <2>1, <2>2
<1>9. WorkersOwnCopies'
  BY <1>1 DEF IInv, WorkersOwnCopies, Holding, TypeOK
<1>10. OneActivePerRepository'
  <2> SUFFICES ASSUME NEW i \in Jobs, NEW j \in Jobs, i # j, RepoOf[i] = RepoOf[j],
                      rows'[i].status \in Active, rows'[j].status \in Active
               PROVE  FALSE
    BY DEF OneActivePerRepository, ActiveRow
  <2>1. \/ ActiveRow(i)
        \/ Claimable(i) /\ S = {i}
    BY DEF ActiveRow
  <2>2. \/ ActiveRow(j)
        \/ Claimable(j) /\ S = {j}
    BY DEF ActiveRow
  <2>3. ~ (ActiveRow(i) /\ ActiveRow(j))
    BY DEF IInv, OneActivePerRepository
  <2>4. Claimable(i) => ~ ActiveRow(j)
    BY DEF Claimable
  <2>5. Claimable(j) => ~ ActiveRow(i)
    BY DEF Claimable
  <2> QED
    BY <2>1, <2>2, <2>3, <2>4, <2>5
<1> QED
  BY <1>2, <1>4, <1>5, <1>6, <1>7, <1>8, <1>9, <1>10 DEF IInv

\* Only the lease column of a leased row, or a due column, changes.
LEMMA ColumnStep ==
  ASSUME IInv,
         rows' \in [Jobs -> Row],
         \A k \in Jobs : /\ rows'[k].status = rows[k].status
                         /\ rows'[k].version = rows[k].version
                         /\ rows'[k].owner = rows[k].owner
                         /\ rows'[k].doc = rows[k].doc
                         /\ rows'[k].lease = "none" <=> rows[k].lease = "none"
                         /\ k \notin Created => rows'[k] = rows[k],
         copies' = copies
  PROVE  IInv'
<1>1. Created' = Created
  BY DEF Created
<1>2. TypeOK'
  BY DEF IInv, TypeOK
<1>3. RowsInPlace'
  BY <1>1 DEF IInv, RowsInPlace, NoRow
<1>4. ColumnsMatchDocument'
  BY <1>1 DEF IInv, ColumnsMatchDocument, Created
<1>5. LeasedWhileActive' /\ OneActivePerRepository'
  BY DEF IInv, LeasedWhileActive, OneActivePerRepository, ActiveRow
<1>6. CopiesOfRows' /\ WorkersOwnCopies'
  BY <1>1 DEF IInv, CopiesOfRows, WorkersOwnCopies
<1>7. FreshCopyIsCurrent'
  BY DEF IInv, FreshCopyIsCurrent, CopiesOfRows, Current, Created
<1> QED
  BY <1>2, <1>3, <1>4, <1>5, <1>6, <1>7 DEF IInv

\* A client reads the document of a row, or all documents, or a holder drops its copies.
LEMMA ReadStep ==
  ASSUME IInv,
         rows' = rows,
         \/ \E c \in Clients, k \in Created : copies' = Holding(c, rows[k].doc)
         \/ \E c \in Clients : copies' = [copies EXCEPT ![c] = {rows[k].doc : k \in Created}]
         \/ \E h \in Holders : copies' = [copies EXCEPT ![h] = {}]
  PROVE  IInv'
<1>1. /\ TypeOK /\ Created' = Created
      /\ \A k \in Jobs : rows[k].doc \in Doc
  BY DEF IInv, TypeOK, Row, Created
<1>2. \A h \in Holders : \A d \in copies'[h] :
        \/ d \in copies[h]
        \/ (h \in Clients /\ \E k \in Created : d = rows[k].doc)
  BY <1>1 DEF Holding, TypeOK
<1>3. TypeOK'
  BY <1>1 DEF TypeOK, Holding, Created
<1>4. /\ RowsInPlace' /\ ColumnsMatchDocument'
      /\ LeasedWhileActive' /\ OneActivePerRepository'
  BY <1>1 DEF IInv, RowsInPlace, ColumnsMatchDocument, LeasedWhileActive,
              OneActivePerRepository, ActiveRow, NoRow
<1>5. CopiesOfRows'
  BY <1>1, <1>2 DEF IInv, CopiesOfRows, RowsInPlace, Created
<1>6. FreshCopyIsCurrent'
  <2> SUFFICES ASSUME NEW h \in Holders, NEW d \in copies'[h]
               PROVE  /\ d.version <= rows[d.id].version
                      /\ rows[d.id].version = d.version => d = rows[d.id].doc
    BY DEF FreshCopyIsCurrent, Current
  <2>1. CASE d \in copies[h]
    BY <2>1 DEF IInv, FreshCopyIsCurrent, Current
  <2>2. CASE \E k \in Created : d = rows[k].doc
    BY <2>2, <1>1 DEF IInv, TypeOK, RowsInPlace, ColumnsMatchDocument, Created, Row
  <2> QED
    BY <2>1, <2>2, <1>2
<1>7. WorkersOwnCopies'
  BY <1>2 DEF IInv, WorkersOwnCopies
<1> QED
  BY <1>3, <1>4, <1>5, <1>6, <1>7 DEF IInv

-----------------------------------------------------------------------------
(* Every action is a step of one of the three kinds *)

LEMMA InitIInv == Init => IInv
<1> SUFFICES ASSUME Init PROVE IInv
  OBVIOUS
<1>1. \A j \in Jobs : rows[j] = NoRow(j) /\ NoRow(j) \in Row
  BY NoRowType, LeaseTypes DEF Init
<1>2. \A j \in Jobs : /\ rows[j].status = "absent" /\ rows[j].owner = Nobody
                      /\ rows[j].lease = "none" /\ rows[j].doc.id = j
  BY <1>1, NoRowType
<1>3. TypeOK
  BY <1>1 DEF Init, TypeOK
<1>4. RowsInPlace
  BY <1>1, <1>2 DEF RowsInPlace
<1>5. Created = {} /\ \A j \in Jobs : ~ ActiveRow(j)
  BY <1>2 DEF Created, ActiveRow, Active
<1>6. LeasedWhileActive
  BY <1>2, <1>5 DEF LeasedWhileActive
<1> QED
  BY <1>3, <1>4, <1>5, <1>6
  DEF IInv, Init, ColumnsMatchDocument, CopiesOfRows, FreshCopyIsCurrent,
      WorkersOwnCopies, OneActivePerRepository

\* An insert is the one step that makes a row of a blank.
LEMMA CreateStep ==
  ASSUME IInv, NEW h \in Clients, NEW j \in Jobs, Create(h, j)
  PROVE  IInv'
<1> DEFINE r == Inserted(rows[j], Created)
<1>1. /\ TypeOK /\ j \notin Created /\ rows[j] = NoRow(j) /\ rows[j] \in Row
      /\ rows[j].doc = NewDoc(j) /\ NewDoc(j) \in Doc
  BY NoRowType DEF IInv, TypeOK, RowsInPlace, Create
<1>2. /\ r \in Row /\ r.status = "queued" /\ r.version = 0 /\ r.owner = Nobody
      /\ r.lease = "none" /\ r.doc = NewDoc(j)
  <2>1. Created \in SUBSET Jobs
    BY DEF Created
  <2> QED
    BY <1>1, <2>1, InsertedType, NoRowType
<1>3. /\ rows' = [rows EXCEPT ![j] = r]
      /\ copies' = Holding(h, NewDoc(j))
  BY <1>1 DEF Create
<1> HIDE DEF r
<1>4. rows'[j] = r /\ \A k \in Jobs \ {j} : rows'[k] = rows[k]
  BY <1>1, <1>3 DEF TypeOK
<1>5. Created' = Created \cup {j}
  BY <1>2, <1>4 DEF Created
<1>6. \A g \in Holders : \A d \in copies'[g] :
        (d \in copies[g] /\ d.id # j) \/ (g \in Clients /\ d = NewDoc(j))
  <2>1. \A d \in copies[h] : d.id # j
    BY <1>1 DEF IInv, CopiesOfRows, Holders
  <2>2. \A g \in Holders : \A d \in copies[g] : d.id # j
    BY <1>1 DEF IInv, CopiesOfRows
  <2>3. \A g \in Holders : \A d \in copies'[g] :
          d \in copies[g] \/ (g = h /\ d = NewDoc(j))
    BY <1>1, <1>3, HoldingType
  <2> QED
    BY <2>2, <2>3
<1>7. TypeOK'
  BY <1>1, <1>2, <1>3 DEF TypeOK, Holding
<1>8. RowsInPlace'
  <2>1. r.doc.id = j
    BY <1>2, NoRowType
  <2>2. \A k \in Jobs \ {j} : rows'[k].doc.id = k /\ (k \notin Created => rows'[k] = NoRow(k))
    BY <1>4 DEF IInv, RowsInPlace
  <2>3. \A k \in Jobs : k \notin Created' => k # j /\ k \notin Created
    BY <1>5
  <2> QED
    BY <1>4, <2>1, <2>2, <2>3 DEF RowsInPlace, NoRow, NewDoc
<1>9. ColumnsMatchDocument'
  <2>1. r.status = r.doc.status /\ r.version = r.doc.version /\ r.owner = r.doc.owner
    BY <1>2, NoRowType
  <2>2. Created \subseteq Jobs
    BY DEF Created
  <2> QED
    BY <1>4, <1>5, <2>1, <2>2 DEF IInv, ColumnsMatchDocument
<1>10. ~ ActiveRow(j)' /\ \A k \in Jobs \ {j} : ActiveRow(k)' <=> ActiveRow(k)
  BY <1>2, <1>4 DEF ActiveRow, Active
<1>11. LeasedWhileActive' /\ OneActivePerRepository'
  BY <1>2, <1>4, <1>10 DEF IInv, LeasedWhileActive, OneActivePerRepository
<1>12. CopiesOfRows'
  BY <1>5, <1>6 DEF IInv, CopiesOfRows, NewDoc
<1>13. FreshCopyIsCurrent'
  BY <1>2, <1>4, <1>6 DEF IInv, FreshCopyIsCurrent, CopiesOfRows, Created, Current, NewDoc
<1>14. WorkersOwnCopies'
  BY <1>6 DEF IInv, WorkersOwnCopies
<1> QED
  BY <1>7, <1>8, <1>9, <1>11, <1>12, <1>13, <1>14 DEF IInv

\* A save is let through only for a copy that is the document of its row.
\* The row keeps its owner and lease if it stays active, and loses them if not.
LEMMA SaveEffect ==
  ASSUME IInv, NEW h \in Holders, NEW d \in copies[h],
         NEW s \in Statuses, NEW u \in Dues, Save(h, d, s, u),
         NEW j \in Jobs, j = d.id
  PROVE  /\ j \in Created /\ d = rows[j].doc
         /\ s = rows[j].status \/ (s \in Successors(rows[j].status) /\ s # "running")
         /\ s \in Active => ActiveRow(j)
         /\ rows' \in [Jobs -> Row] /\ \A k \in Jobs \ {j} : rows'[k] = rows[k]
         /\ rows'[j].doc \in Doc
         /\ rows'[j].doc.id = j /\ rows'[j].doc.attempt = rows[j].doc.attempt
         /\ rows'[j].status = s /\ rows'[j].doc.status = s
         /\ rows'[j].owner = IF s \in Active THEN rows[j].owner ELSE Nobody
         /\ rows'[j].doc.owner = rows'[j].owner
         /\ rows'[j].version = rows[j].version + 1
         /\ rows'[j].doc.version = rows[j].version + 1
         /\ rows'[j].lease = IF s \in Active THEN rows[j].lease ELSE "none"
         /\ rows[j].status \in Active <=> rows[j].owner # Nobody
         /\ rows[j].status \in Active <=> rows[j].lease # "none"
         /\ copies' = Holding(h, rows'[j].doc)
<1>0. j = d.id
  OBVIOUS
<1> DEFINE o == Moved(d, s, Nobody).owner
           n == NextDoc(d, s, o)
<1>1. /\ TypeOK /\ d \in Doc /\ j \in Created
      /\ rows[j] \in Row /\ d = rows[j].doc
  BY <1>0 DEF Save, IInv, TypeOK, CopiesOfRows, FreshCopyIsCurrent
<1>2. /\ d.status = rows[j].status /\ d.owner = rows[j].owner
      /\ d.version = rows[j].version
  BY <1>1 DEF IInv, ColumnsMatchDocument
<1>3. /\ s \in Active => d.status \in Active
      /\ s = d.status \/ (s \in Successors(d.status) /\ s # "running")
  BY DEF Save, CanMove, Successors, Active
<1>4. /\ d.status \in Active <=> d.owner # Nobody
      /\ d.status \in Active <=> rows[j].lease # "none"
  BY <1>1, <1>2 DEF IInv, LeasedWhileActive, ActiveRow
<1>5. /\ o \in Workers \cup {Nobody}
      /\ s \in Active => o = d.owner
      /\ s \notin Active => o = Nobody
  BY <1>1, <1>4, MovedType DEF Doc
<1>6. /\ n \in Doc /\ n.id = j /\ n.status = s /\ n.owner = o
      /\ n.attempt = d.attempt
      /\ n.version = rows[j].version + 1
  BY <1>0, <1>1, <1>2, <1>5, NextDocType
<1> DEFINE r == IF s \in Active
                THEN Written(rows[j], n, rows[j].owner, rows[j].lease, u)
                ELSE Written(rows[j], n, o, "none", u)
<1>7. n.owner = o
  BY <1>6
<1>8. rows' = [rows EXCEPT ![j] = r] /\ copies' = Holding(h, n)
  BY <1>0, <1>7 DEF Save
<1>9. /\ rows[j].owner \in Workers \cup {Nobody}
      /\ rows[j].lease \in Leases
  BY <1>1 DEF Row
<1>10. /\ r \in Row /\ r.status = s /\ r.version = n.version /\ r.doc = n
       /\ r.owner = o
       /\ s \in Active => r.lease = rows[j].lease
       /\ s \notin Active => r.lease = "none"
  <2> HIDE DEF n, o
  <2>1. CASE s \in Active
    <3> DEFINE x == Written(rows[j], n, rows[j].owner, rows[j].lease, u)
    <3>1. r = x
      BY <2>1
    <3>2. /\ x \in Row /\ x.status = n.status /\ x.version = n.version /\ x.doc = n
          /\ x.owner = rows[j].owner /\ x.lease = rows[j].lease
      <4>1. rows[j] \in Row /\ n \in Doc
        BY <1>1, <1>6
      <4> HIDE DEF r
      <4> QED
        BY <4>1, <1>9, WrittenType
    <3> HIDE DEF x, r
    <3> QED
      BY <2>1, <3>1, <3>2, <1>2, <1>5, <1>6
  <2>2. CASE s \notin Active
    <3> DEFINE x == Written(rows[j], n, o, "none", u)
    <3>1. r = x
      BY <2>2
    <3>2. /\ x \in Row /\ x.status = n.status /\ x.version = n.version /\ x.doc = n
          /\ x.owner = o /\ x.lease = "none"
      <4>1. rows[j] \in Row /\ n \in Doc
        BY <1>1, <1>6
      <4>2. o \in Workers \cup {Nobody}
        BY <1>5
      <4> HIDE DEF r
      <4> QED
        BY <4>1, <4>2, WrittenType, LeaseTypes
    <3> HIDE DEF x, r
    <3> QED
      BY <2>2, <3>1, <3>2, <1>6
  <2> QED
    BY <2>1, <2>2
<1> HIDE DEF r, n, o
<1>11. rows' \in [Jobs -> Row] /\ rows'[j] = r /\ \A k \in Jobs \ {j} : rows'[k] = rows[k]
  BY <1>1, <1>8, <1>10 DEF TypeOK
<1>12. s \in Active => ActiveRow(j)
  BY <1>2, <1>3 DEF ActiveRow
<1> QED
  BY <1>1, <1>2, <1>3, <1>4, <1>5, <1>6, <1>8, <1>10, <1>11, <1>12

LEMMA SaveStepInv ==
  ASSUME IInv, NEW h \in Holders, NEW d \in copies[h],
         NEW s \in Statuses, NEW u \in Dues, Save(h, d, s, u)
  PROVE  IInv'
<1>1. PICK j \in Jobs : j = d.id
  BY DEF IInv, CopiesOfRows, Created
<1>2. /\ j \in Created /\ d = rows[j].doc
      /\ s = rows[j].status \/ (s \in Successors(rows[j].status) /\ s # "running")
      /\ s \in Active => ActiveRow(j)
      /\ rows' \in [Jobs -> Row] /\ \A k \in Jobs \ {j} : rows'[k] = rows[k]
      /\ rows'[j].doc \in Doc
      /\ rows'[j].doc.id = j /\ rows'[j].doc.attempt = rows[j].doc.attempt
      /\ rows'[j].status = s /\ rows'[j].doc.status = s
      /\ rows'[j].owner = IF s \in Active THEN rows[j].owner ELSE Nobody
      /\ rows'[j].doc.owner = rows'[j].owner
      /\ rows'[j].version = rows[j].version + 1
      /\ rows'[j].doc.version = rows[j].version + 1
      /\ rows'[j].lease = IF s \in Active THEN rows[j].lease ELSE "none"
      /\ rows[j].status \in Active <=> rows[j].owner # Nobody
      /\ rows[j].status \in Active <=> rows[j].lease # "none"
      /\ copies' = Holding(h, rows'[j].doc)
  BY <1>1, SaveEffect
<1>3. h \in Workers /\ s \in Active => rows'[j].owner = h
  <2> SUFFICES ASSUME h \in Workers, s \in Active PROVE rows[j].owner = h
    BY <1>2
  <2>1. rows[j].status \in Active /\ rows[j].doc.status = rows[j].status
        /\ rows[j].doc.owner = rows[j].owner
    BY <1>2 DEF ActiveRow, IInv, ColumnsMatchDocument
  <2> QED
    BY <1>2, <2>1 DEF IInv, WorkersOwnCopies
<1> DEFINE S == {j}
<1>4. S \in SUBSET Created /\ \A k \in Jobs \ S : rows'[k] = rows[k]
  BY <1>2
<1>5. \A k \in S : /\ rows'[k].doc.id = k
                   /\ rows'[k].status = rows'[k].doc.status
                   /\ rows'[k].owner = rows'[k].doc.owner
                   /\ rows'[k].version = rows'[k].doc.version
                   /\ rows'[k].version = rows[k].version + 1
                   /\ rows'[k].status \in Active <=> rows'[k].owner # Nobody
                   /\ rows'[k].status \in Active <=> rows'[k].lease # "none"
                   /\ rows'[k].status \in Active => ActiveRow(k)
  BY <1>2 DEF ActiveRow
<1> HIDE DEF S
<1>6. j \in S
  BY DEF S
<1> QED
  BY <1>2, <1>3, <1>4, <1>5, <1>6, VersionedWrite

\* A claim makes its worker the owner of a job of an idle repository.
LEMMA ClaimStep ==
  ASSUME IInv, NEW w \in Workers, NEW j \in Jobs, Claimable(j), ClaimRow(w, j)
  PROVE  IInv'
<1> DEFINE n == AttemptDoc(rows[j].doc, w)
           r == Written(rows[j], n, w, "live", rows[j].due)
<1>1. /\ TypeOK /\ rows[j] \in Row /\ rows[j].doc \in Doc /\ rows[j].due \in Dues
      /\ rows[j].doc.attempt \in Nat /\ rows[j].doc.id = j /\ j \in Created
  BY DEF IInv, TypeOK, RowsInPlace, Claimable, Created, Row, Doc
<1>0. rows[j].version = rows[j].doc.version
  BY DEF ClaimRow
<1>2. /\ n \in Doc /\ n.id = j /\ n.status = "running" /\ n.owner = w
      /\ n.version = rows[j].version + 1
  BY <1>0, <1>1, AttemptDocType
<1>3. rows' = [rows EXCEPT ![j] = r] /\ copies' = Holding(w, n)
  BY DEF ClaimRow
<1> HIDE DEF n
<1>4. /\ r \in Row /\ r.status = "running" /\ r.version = n.version /\ r.doc = n
      /\ r.owner = w /\ r.lease = "live"
  BY <1>1, <1>2, WrittenType, LeaseTypes
<1> HIDE DEF r
<1>5. rows' \in [Jobs -> Row] /\ rows'[j] = r /\ \A k \in Jobs \ {j} : rows'[k] = rows[k]
  BY <1>1, <1>3, <1>4 DEF TypeOK
<1>6. w # Nobody /\ "running" \in Active /\ w \in Holders
  BY DEF Active
<1> DEFINE S == {j}
<1>7. S \in SUBSET Created /\ \A k \in Jobs \ S : rows'[k] = rows[k]
  BY <1>1, <1>5
<1>8. \A k \in S : /\ rows'[k].doc.id = k
                   /\ rows'[k].status = rows'[k].doc.status
                   /\ rows'[k].owner = rows'[k].doc.owner
                   /\ rows'[k].version = rows'[k].doc.version
                   /\ rows'[k].version = rows[k].version + 1
                   /\ rows'[k].status \in Active /\ rows'[k].owner # Nobody
                   /\ rows'[k].lease # "none"
                   /\ Claimable(k) /\ S = {k}
  BY <1>2, <1>4, <1>5, <1>6
<1>9. copies' = Holding(w, rows'[j].doc) /\ rows'[j].owner = w /\ j \in S
  BY <1>3, <1>4, <1>5
<1> HIDE DEF S
<1> QED
  BY <1>5, <1>6, <1>7, <1>8, <1>9, VersionedWrite

\* Reclaiming any set of active rows: expiry, and a worker that shuts down.
LEMMA ReclaimStep ==
  ASSUME IInv, NEW S \in SUBSET Jobs,
         \A k \in S : ActiveRow(k) /\ rows[k].version = rows[k].doc.version,
         rows' = [k \in Jobs |-> IF k \in S THEN Reclaimed(rows[k]) ELSE rows[k]],
         copies' = copies
  PROVE  IInv'
<1>1. /\ TypeOK /\ S \subseteq Created
      /\ \A k \in Jobs : rows[k] \in Row /\ rows[k].doc.id = k
  BY DEF IInv, TypeOK, RowsInPlace, ActiveRow, Active, Created
<1>2. \A k \in S : /\ rows'[k] \in Row
                   /\ rows'[k].status \notin Active
                   /\ rows'[k].status = rows'[k].doc.status
                   /\ rows'[k].owner = rows'[k].doc.owner
                   /\ rows'[k].owner = Nobody /\ rows'[k].lease = "none"
                   /\ rows'[k].version = rows'[k].doc.version
                   /\ rows'[k].version = rows[k].version + 1
                   /\ rows'[k].doc.id = k
  <2> SUFFICES ASSUME NEW k \in S PROVE rows'[k] = Reclaimed(rows[k])
    BY <1>1, ReclaimedType DEF Active
  <2> QED
    OBVIOUS
<1>3. rows' \in [Jobs -> Row] /\ \A k \in Jobs \ S : rows'[k] = rows[k]
  BY <1>1, <1>2
<1> QED
  BY <1>1, <1>2, <1>3, VersionedWrite

LEMMA ExpireStep == ASSUME IInv, RequeueExpired PROVE IInv'
<1> DEFINE S == {k \in Jobs : Expired(k)}
<1>1. \A k \in S : ActiveRow(k) /\ rows[k].version = rows[k].doc.version
  BY DEF Expired
<1>2. rows' = [k \in Jobs |-> IF k \in S THEN Reclaimed(rows[k]) ELSE rows[k]]
  BY DEF RequeueExpired
<1>3. copies' = copies
  BY DEF RequeueExpired
<1> QED
  BY <1>1, <1>2, <1>3, ReclaimStep

LEMMA ReleaseStep ==
  ASSUME IInv, NEW w \in Workers, NEW j \in Jobs, ReleaseLease(w, j)
  PROVE  IInv'
<1>1. TypeOK /\ w # Nobody
  BY DEF IInv
<1>2. ActiveRow(j) /\ rows[j].version = rows[j].doc.version
  BY <1>1 DEF ReleaseLease, Releasable, IInv, LeasedWhileActive
<1>3. rows' = [k \in Jobs |-> IF k \in {j} THEN Reclaimed(rows[k]) ELSE rows[k]]
  BY <1>1 DEF ReleaseLease, TypeOK
<1>4. copies' = copies
  BY DEF ReleaseLease
<1> QED
  BY <1>2, <1>3, <1>4, ReclaimStep

\* Heartbeats and the passing of time move one lease or due column.
LEMMA LeaseStep ==
  ASSUME IInv, NEW j \in Jobs, NEW l \in Leases, l # "none",
         rows[j].lease # "none",
         rows' = [rows EXCEPT ![j] = Leased(@, l)], copies' = copies
  PROVE  IInv'
<1> DEFINE x == Leased(rows[j], l)
<1>1. TypeOK /\ rows[j] \in Row /\ j \in Created
  BY DEF IInv, TypeOK, RowsInPlace, NoRow
<1>2. /\ x \in Row /\ x.lease # "none"
      /\ x.status = rows[j].status /\ x.version = rows[j].version
      /\ x.doc = rows[j].doc /\ x.owner = rows[j].owner
  BY <1>1, ColumnType
<1>3. rows' = [rows EXCEPT ![j] = x]
  OBVIOUS
<1> HIDE DEF x
<1>4. rows' \in [Jobs -> Row] /\ rows'[j] = x /\ \A k \in Jobs \ {j} : rows'[k] = rows[k]
  BY <1>1, <1>2, <1>3 DEF TypeOK
<1> QED
  BY <1>1, <1>2, <1>4, ColumnStep

LEMMA DueStep == ASSUME IInv, NEW j \in Jobs, BecomeDue(j) PROVE IInv'
<1> DEFINE x == MadeDue(rows[j])
<1>1. TypeOK /\ rows[j] \in Row /\ j \in Created /\ copies' = copies
  BY DEF IInv, TypeOK, RowsInPlace, NoRow, BecomeDue
<1>2. /\ x \in Row /\ x.lease = rows[j].lease
      /\ x.status = rows[j].status /\ x.version = rows[j].version
      /\ x.doc = rows[j].doc /\ x.owner = rows[j].owner
  <2>1. rows[j].lease \in Leases
    BY <1>1 DEF Row
  <2> QED
    BY <1>1, <2>1, ColumnType
<1>3. rows' = [rows EXCEPT ![j] = x]
  BY DEF BecomeDue
<1> HIDE DEF x
<1>4. rows' \in [Jobs -> Row] /\ rows'[j] = x /\ \A k \in Jobs \ {j} : rows'[k] = rows[k]
  BY <1>1, <1>2, <1>3 DEF TypeOK
<1> QED
  BY <1>1, <1>2, <1>4, ColumnStep

-----------------------------------------------------------------------------
(* The theorems *)

LEMMA NextIInv == IInv /\ [Next]_vars => IInv'
<1> SUFFICES ASSUME IInv, [Next]_vars PROVE IInv'
  OBVIOUS
<1>1. ASSUME NEW h \in Clients, NEW j \in Jobs, Create(h, j) PROVE IInv'
  BY <1>1, CreateStep
<1>2. ASSUME NEW h \in Clients, NEW i \in Jobs, NEW j \in Jobs, Replay(h, j, i)
      PROVE  IInv'
  BY <1>2, ReadStep DEF Replay
<1>3. ASSUME NEW h \in Clients, NEW j \in Jobs, Load(h, j) PROVE IInv'
  BY <1>3, ReadStep DEF Load
<1>4. CASE SaveStep
  BY <1>4, SaveStepInv DEF SaveStep
<1>5. ASSUME NEW h \in Holders, Forget(h) PROVE IInv'
  BY <1>5, ReadStep DEF Forget
<1>13. ASSUME NEW h \in Clients, List(h) PROVE IInv'
  BY <1>13, ReadStep DEF List
<1>6. ASSUME NEW w \in Workers, NEW j \in Jobs, ClaimJob(w, j) \/ ClaimNext(w, j)
      PROVE  IInv'
  BY <1>6, ClaimStep DEF ClaimJob, ClaimNext
<1>7. CASE RequeueExpired
  BY <1>7, ExpireStep
<1>8. ASSUME NEW w \in Workers, NEW j \in Jobs, TouchLease(w, j) PROVE IInv'
  <2>1. rows[j].lease # "none"
    BY <1>8 DEF TouchLease, Touchable, IInv, LeasedWhileActive
  <2> QED
    BY <1>8, <2>1, LeaseStep, LeaseTypes DEF TouchLease
<1>9. ASSUME NEW w \in Workers, NEW j \in Jobs, ReleaseLease(w, j) PROVE IInv'
  BY <1>9, ReleaseStep
<1>10. ASSUME NEW j \in Jobs, Lapse(j) PROVE IInv'
  BY <1>10, LeaseStep, LeaseTypes DEF Lapse
<1>11. ASSUME NEW j \in Jobs, BecomeDue(j) PROVE IInv'
  BY <1>11, DueStep
<1>12. CASE UNCHANGED vars
  BY <1>12
  DEF vars, IInv, TypeOK, RowsInPlace, ColumnsMatchDocument, LeasedWhileActive,
      CopiesOfRows, FreshCopyIsCurrent, WorkersOwnCopies, OneActivePerRepository,
      Created, ActiveRow, Current, NoRow
<1> QED
  BY <1>1, <1>2, <1>3, <1>4, <1>5, <1>6, <1>7, <1>8, <1>9, <1>10, <1>11, <1>12, <1>13 DEF Next

\* Every reachable state satisfies the inductive invariant.
THEOREM Invariance == Spec => []IInv
BY InitIInv, NextIInv, PTL DEF Spec

\* The columns and the JSON document of a row always have their types.
THEOREM TypeCorrect == Spec => []TypeOK
<1>1. IInv => TypeOK
  BY DEF IInv
<1> QED
  BY <1>1, Invariance, PTL

\* claim serializes a repository for any number of workers and clients: no two
\* of its jobs are ever running or publishing together.
THEOREM Serialized == Spec => []OneActivePerRepository
<1>1. IInv => OneActivePerRepository
  BY DEF IInv
<1> QED
  BY <1>1, Invariance, PTL

\* A worker's copy that says the job is at work and that is current names the worker.
LEMMA FencedNow == IInv => FreshWorkerHoldsLease
<1> SUFFICES ASSUME IInv, NEW w \in Workers, NEW d \in copies[w],
                    d.status \in Active, Current(d)
             PROVE  ActiveRow(d.id) /\ rows[d.id].owner = w
  BY DEF FreshWorkerHoldsLease
<1>1. d.id \in Created /\ d = rows[d.id].doc /\ d.owner = w
  BY DEF IInv, CopiesOfRows, FreshCopyIsCurrent, WorkersOwnCopies, Holders
<1> QED
  BY <1>1 DEF IInv, ColumnsMatchDocument, ActiveRow

\* A worker whose copy save would still let through holds the lease of its job:
\* once the lease went to somebody else, none of its saves can succeed.
THEOREM Fenced == Spec => []FreshWorkerHoldsLease
BY FencedNow, Invariance, PTL

\* No update is lost: the copies that save lets through, in whosever hands and however
\* old, are the documents of their rows, so what is written over is what was read.
THEOREM NoUpdateIsLost == Spec => []FreshCopyIsCurrent
<1>1. IInv => FreshCopyIsCurrent
  BY DEF IInv
<1> QED
  BY <1>1, Invariance, PTL

-----------------------------------------------------------------------------
(* The store implements its contract *)

\* Store and contract use one lifecycle.
LEMMA SameLifecycle ==
  /\ Contract!Statuses = Statuses /\ Contract!Active = Active
  /\ \A st : Contract!Successors(st) = Successors(st)
BY DEF Contract!Statuses, Statuses, Contract!Active, Active,
       Contract!Successors, Successors

\* The mapped variables, job by job.
LEMMA Mapped ==
  /\ \A k \in Jobs : /\ StatusOf[k] = rows[k].status
                     /\ HolderOf[k] = rows[k].owner
                     /\ TriesOf[k] = rows[k].doc.attempt
  /\ \A k \in Jobs : /\ StatusOf'[k] = rows'[k].status
                     /\ HolderOf'[k] = rows'[k].owner
                     /\ TriesOf'[k] = rows'[k].doc.attempt
BY DEF StatusOf, HolderOf, TriesOf

\* A step that changes one job changes the mapped variables at that job.
LEMMA OneJob ==
  ASSUME NEW j \in Jobs, \A k \in Jobs \ {j} : rows'[k] = rows[k]
  PROVE  /\ StatusOf' = [StatusOf EXCEPT ![j] = rows'[j].status]
         /\ HolderOf' = [HolderOf EXCEPT ![j] = rows'[j].owner]
         /\ TriesOf' = [TriesOf EXCEPT ![j] = rows'[j].doc.attempt]
<1>1. \A k \in Jobs : k = j \/ rows'[k] = rows[k]
  OBVIOUS
<1>2. \A k \in Jobs : k = j \/ ( /\ rows'[k].status = rows[k].status
                              /\ rows'[k].owner = rows[k].owner
                              /\ rows'[k].doc.attempt = rows[k].doc.attempt)
  BY <1>1
<1> QED
  BY <1>2 DEF StatusOf, HolderOf, TriesOf

\* A step that leaves every status, owner and attempt alone is a stutter.
LEMMA StutterStep ==
  ASSUME \A k \in Jobs : /\ rows'[k].status = rows[k].status
                         /\ rows'[k].owner = rows[k].owner
                         /\ rows'[k].doc.attempt = rows[k].doc.attempt
  PROVE  UNCHANGED Contract!contract
BY DEF Contract!contract, StatusOf, HolderOf, TriesOf

\* A step that moves one job along the lifecycle is a Move.
LEMMA MoveStep ==
  ASSUME NEW j \in Created, NEW s \in Statuses, s # "running",
         s \in Successors(rows[j].status),
         rows'[j].status = s,
         rows'[j].owner = IF s \in Active THEN rows[j].owner ELSE Nobody,
         rows'[j].doc.attempt = rows[j].doc.attempt,
         \A k \in Jobs \ {j} : rows'[k] = rows[k]
  PROVE  Contract!Next
<1>1. j \in Jobs /\ StatusOf[j] # "absent" /\ s \in Successors(StatusOf[j]) \ {"running"}
  BY Mapped DEF Created
<1>2. StatusOf' = [StatusOf EXCEPT ![j] = s]
  BY <1>1, OneJob
<1>3. HolderOf' = [HolderOf EXCEPT ![j] = IF s \in Active THEN @ ELSE Nobody]
  BY <1>1, OneJob, Mapped
<1>4. TriesOf' = TriesOf
  BY <1>1, OneJob, Mapped DEF TriesOf
<1>5. Contract!Move(j, s)
  BY <1>1, <1>2, <1>3, <1>4, SameLifecycle DEF Contract!Move
<1> QED
  BY <1>1, <1>5, SameLifecycle DEF Contract!Next

\* The insert of a new row is a Submit.
LEMMA SubmitStep ==
  ASSUME IInv, NEW h \in Clients, NEW j \in Jobs, Create(h, j)
  PROVE  Contract!Next
<1> DEFINE r == Inserted(rows[j], Created)
<1>1. /\ TypeOK /\ j \notin Created /\ rows[j] = NoRow(j) /\ rows[j] \in Row
      /\ Created \in SUBSET Jobs
  BY DEF IInv, TypeOK, RowsInPlace, Create, Created
<1>2. r.status = "queued" /\ r.owner = rows[j].owner /\ r.doc = rows[j].doc
  BY <1>1, InsertedType
<1>3. rows' = [rows EXCEPT ![j] = r]
  BY DEF Create
<1> HIDE DEF r
<1>4. rows'[j] = r /\ \A k \in Jobs \ {j} : rows'[k] = rows[k]
  BY <1>1, <1>3 DEF TypeOK
<1>5. /\ StatusOf' = [StatusOf EXCEPT ![j] = "queued"]
      /\ HolderOf' = [HolderOf EXCEPT ![j] = HolderOf[j]]
      /\ TriesOf' = [TriesOf EXCEPT ![j] = TriesOf[j]]
  BY <1>2, <1>4, OneJob, Mapped
<1>6. StatusOf[j] = "absent"
  BY <1>1, Mapped DEF Created
<1> QED
  BY <1>5, <1>6 DEF Contract!Submit, Contract!Next, HolderOf, TriesOf

\* A claim is a Take.
LEMMA TakeStep ==
  ASSUME IInv, NEW w \in Workers, NEW j \in Jobs, Claimable(j), ClaimRow(w, j)
  PROVE  Contract!Next
<1> DEFINE n == AttemptDoc(rows[j].doc, w)
           r == Written(rows[j], n, w, "live", rows[j].due)
<1>1. /\ TypeOK /\ rows[j] \in Row /\ rows[j].doc \in Doc /\ rows[j].due \in Dues
  BY DEF IInv, TypeOK, Row
<1>2. n \in Doc /\ n.status = "running" /\ n.attempt = rows[j].doc.attempt + 1
  BY <1>1, AttemptDocType
<1>3. rows' = [rows EXCEPT ![j] = r]
  BY DEF ClaimRow
<1> HIDE DEF n
<1>4. r.status = "running" /\ r.doc = n /\ r.owner = w
  BY <1>1, <1>2, WrittenType, LeaseTypes
<1> HIDE DEF r
<1>5. rows'[j] = r /\ \A k \in Jobs \ {j} : rows'[k] = rows[k]
  BY <1>1, <1>3 DEF TypeOK
<1>6. /\ StatusOf' = [StatusOf EXCEPT ![j] = "running"]
      /\ HolderOf' = [HolderOf EXCEPT ![j] = w]
      /\ TriesOf' = [TriesOf EXCEPT ![j] = TriesOf[j] + 1]
  BY <1>2, <1>4, <1>5, OneJob, Mapped
<1>7. StatusOf[j] = "queued"
  BY Mapped DEF Claimable
<1>8. \A k \in Jobs : RepoOf[k] = RepoOf[j] => StatusOf[k] \notin Active
  BY <1>7, Mapped DEF Claimable, ActiveRow, Active
<1>9. Contract!Take(w, j)
  BY <1>6, <1>7, <1>8, SameLifecycle DEF Contract!Take
<1> QED
  BY <1>9 DEF Contract!Next

\* Reclaiming active rows is a TakeBack.
LEMMA TakeBackStep ==
  ASSUME IInv, NEW S \in SUBSET Jobs, \A k \in S : ActiveRow(k),
         rows' = [k \in Jobs |-> IF k \in S THEN Reclaimed(rows[k]) ELSE rows[k]]
  PROVE  Contract!Next
<1>1. \A k \in Jobs : rows[k] \in Row
  BY DEF IInv, TypeOK
<1>2. \A k \in S :
        /\ rows'[k].status = IF rows[k].doc.attempt < MaxAttempts THEN "queued" ELSE "failed"
        /\ rows'[k].owner = Nobody
        /\ rows'[k].doc.attempt = rows[k].doc.attempt
  <2> SUFFICES ASSUME NEW k \in S
               PROVE  /\ rows'[k] = Reclaimed(rows[k])
                      /\ ReclaimStatus(rows[k].doc, MaxAttempts)
                          = IF rows[k].doc.attempt < MaxAttempts THEN "queued" ELSE "failed"
    BY <1>1, ReclaimedType
  <2> QED
    BY DEF ReclaimStatus, CanRetry
<1>3. \A k \in Jobs \ S : rows'[k] = rows[k]
  OBVIOUS
<1>4. \A k \in Jobs \ S : /\ rows'[k].status = rows[k].status
                          /\ rows'[k].owner = rows[k].owner
                          /\ rows'[k].doc.attempt = rows[k].doc.attempt
  BY <1>3
<1>5. \A k \in S : StatusOf[k] \in Active
  BY Mapped DEF ActiveRow
<1>6. StatusOf' = [k \in Jobs |-> IF k \notin S THEN StatusOf[k]
                                 ELSE IF TriesOf[k] < MaxAttempts THEN "queued" ELSE "failed"]
  BY <1>2, <1>4, Mapped DEF StatusOf
<1>7. HolderOf' = [k \in Jobs |-> IF k \in S THEN Nobody ELSE HolderOf[k]]
  BY <1>2, <1>4, Mapped DEF HolderOf
<1>8. TriesOf' = TriesOf
  BY <1>2, <1>4 DEF TriesOf
<1>9. Contract!TakeBack(S)
  BY <1>5, <1>6, <1>7, <1>8, SameLifecycle DEF Contract!TakeBack
<1> QED
  BY <1>9 DEF Contract!Next

\* Every step of the store is a step of the contract, or a stutter.
LEMMA NextContract == IInv /\ [Next]_vars => [Contract!Next]_Contract!contract
<1> SUFFICES ASSUME IInv, [Next]_vars
             PROVE  Contract!Next \/ UNCHANGED Contract!contract
  OBVIOUS
<1>0. rows' = rows => UNCHANGED Contract!contract
  BY StutterStep
<1>1. ASSUME NEW h \in Clients, NEW j \in Jobs, Create(h, j) PROVE Contract!Next
  BY <1>1, SubmitStep
<1>2. ASSUME NEW h \in Holders, NEW d \in copies[h], NEW s \in Statuses, NEW u \in Dues,
             Save(h, d, s, u)
      PROVE  Contract!Next \/ UNCHANGED Contract!contract
  <2>1. PICK j \in Jobs : j = d.id
    BY DEF IInv, CopiesOfRows, Created
  <2>2. /\ j \in Created
        /\ s = rows[j].status \/ (s \in Successors(rows[j].status) /\ s # "running")
        /\ \A k \in Jobs \ {j} : rows'[k] = rows[k]
        /\ rows'[j].doc.attempt = rows[j].doc.attempt
        /\ rows'[j].status = s
        /\ rows'[j].owner = IF s \in Active THEN rows[j].owner ELSE Nobody
        /\ rows[j].status \in Active <=> rows[j].owner # Nobody
    BY <1>2, <2>1, SaveEffect
  <2>3. CASE s \in Successors(rows[j].status) /\ s # "running"
    BY <2>2, <2>3, MoveStep
  <2>4. CASE s = rows[j].status
    <3>1. /\ rows'[j].status = rows[j].status /\ rows'[j].owner = rows[j].owner
          /\ rows'[j].doc.attempt = rows[j].doc.attempt
      BY <2>2, <2>4
    <3>2. \A k \in Jobs : k = j \/ rows'[k] = rows[k]
      BY <2>2
    <3>3. \A k \in Jobs : /\ rows'[k].status = rows[k].status
                          /\ rows'[k].owner = rows[k].owner
                          /\ rows'[k].doc.attempt = rows[k].doc.attempt
      BY <3>1, <3>2
    <3> QED
      BY <3>3, StutterStep
  <2> QED
    BY <2>2, <2>3, <2>4
<1>3. ASSUME NEW w \in Workers, NEW j \in Jobs, ClaimJob(w, j) \/ ClaimNext(w, j)
      PROVE  Contract!Next
  BY <1>3, TakeStep DEF ClaimJob, ClaimNext
<1>4. CASE RequeueExpired
  <2> DEFINE S == {k \in Jobs : Expired(k)}
  <2>1. \A k \in S : ActiveRow(k)
    BY DEF Expired
  <2>2. rows' = [k \in Jobs |-> IF k \in S THEN Reclaimed(rows[k]) ELSE rows[k]]
    BY <1>4 DEF RequeueExpired
  <2> QED
    BY <2>1, <2>2, TakeBackStep
<1>5. ASSUME NEW w \in Workers, NEW j \in Jobs, ReleaseLease(w, j) PROVE Contract!Next
  <2>1. ActiveRow(j)
    BY <1>5 DEF ReleaseLease, Releasable, IInv, LeasedWhileActive
  <2>2. rows' = [k \in Jobs |-> IF k \in {j} THEN Reclaimed(rows[k]) ELSE rows[k]]
    BY <1>5 DEF ReleaseLease, IInv, TypeOK
  <2> QED
    BY <2>1, <2>2, TakeBackStep
<1>6. ASSUME NEW j \in Jobs, NEW x \in {Leased(rows[j], "live"), Leased(rows[j], "lapsed"), MadeDue(rows[j])},
             rows' = [rows EXCEPT ![j] = x]
      PROVE  UNCHANGED Contract!contract
  <2>1. TypeOK /\ rows[j] \in Row
    BY DEF IInv, TypeOK
  <2>2. x.status = rows[j].status /\ x.owner = rows[j].owner /\ x.doc = rows[j].doc
    BY <2>1, ColumnType, LeaseTypes
  <2>3. rows'[j] = x /\ \A k \in Jobs \ {j} : rows'[k] = rows[k]
    BY <1>6, <2>1 DEF TypeOK
  <2>4. \A k \in Jobs : k = j \/ rows'[k] = rows[k]
    BY <2>3
  <2>5. \A k \in Jobs : /\ rows'[k].status = rows[k].status
                        /\ rows'[k].owner = rows[k].owner
                        /\ rows'[k].doc.attempt = rows[k].doc.attempt
    BY <2>2, <2>3, <2>4
  <2> QED
    BY <2>5, StutterStep
<1>7. ASSUME NEW w \in Workers, NEW j \in Jobs, TouchLease(w, j)
      PROVE  UNCHANGED Contract!contract
  BY <1>6, <1>7 DEF TouchLease
<1>8. ASSUME NEW j \in Jobs, Lapse(j) \/ BecomeDue(j) PROVE UNCHANGED Contract!contract
  BY <1>6, <1>8 DEF Lapse, BecomeDue
<1> QED
  BY <1>0, <1>1, <1>2, <1>3, <1>4, <1>5, <1>7, <1>8
  DEF Next, SaveStep, Replay, Load, List, Forget, vars

\* The table with its versions implements the abstract store: a caller that
\* loads, decides and saves later acts as if it had done so in one instant.
THEOREM Refinement == Spec => ImplementsContract
<1>1. Init => Contract!Init
  <2> SUFFICES ASSUME Init PROVE Contract!Init
    OBVIOUS
  <2>1. \A j \in Jobs : /\ rows[j].status = "absent" /\ rows[j].owner = Nobody
                        /\ rows[j].doc.attempt = 0
    BY NoRowType DEF Init, NoRow, NewDoc
  <2> QED
    BY <2>1 DEF Contract!Init, StatusOf, HolderOf, TriesOf
<1> QED
  BY <1>1, NextContract, Invariance, PTL DEF Spec, ImplementsContract, Contract!Spec

-----------------------------------------------------------------------------
(* What follows for a row and for a key *)

\* The columns, the document and the lease of a row never drift apart.
THEOREM Consistent == Spec => []RowsConsistent
<1>1. IInv => RowsConsistent
  BY DEF IInv, RowsConsistent
<1> QED
  BY <1>1, Invariance, PTL

\* What the contract allows of a job is a move of the lifecycle.
LEMMA ContractRespects ==
  ASSUME IInv, [Contract!Next]_Contract!contract, NEW j \in Created
  PROVE  /\ rows'[j].status \in {rows[j].status} \cup Successors(rows[j].status)
         /\ rows'[j].doc.attempt = rows[j].doc.attempt
              + (IF rows[j].status = "queued" /\ rows'[j].status = "running" THEN 1 ELSE 0)
<1> DEFINE Respects ==
      /\ StatusOf'[j] \in {StatusOf[j]} \cup Successors(StatusOf[j])
      /\ TriesOf'[j] = TriesOf[j]
           + (IF StatusOf[j] = "queued" /\ StatusOf'[j] = "running" THEN 1 ELSE 0)
<1>1. j \in Jobs /\ StatusOf[j] # "absent" /\ StatusOf[j] \in Statuses /\ TriesOf[j] \in Nat
  BY Mapped DEF Created, IInv, TypeOK, Row, Doc
<1>2. DOMAIN StatusOf = Jobs /\ DOMAIN TriesOf = Jobs
  BY DEF StatusOf, TriesOf
<1>3. ASSUME NEW k \in Jobs, Contract!Submit(k) PROVE Respects
  BY <1>1, <1>2, <1>3 DEF Contract!Submit
<1>4. ASSUME NEW w \in Workers, NEW k \in Jobs, Contract!Take(w, k) PROVE Respects
  <2>1. CASE k = j
    <3>1. StatusOf'[j] = "running" /\ TriesOf'[j] = TriesOf[j] + 1 /\ StatusOf[j] = "queued"
      BY <1>1, <1>2, <1>4, <2>1 DEF Contract!Take
    <3> QED
      BY <3>1 DEF Successors
  <2>2. CASE k # j
    <3>1. StatusOf'[j] = StatusOf[j] /\ TriesOf'[j] = TriesOf[j]
      BY <1>1, <1>2, <1>4, <2>2 DEF Contract!Take
    <3> QED
      BY <1>1, <3>1
  <2> QED
    BY <2>1, <2>2
<1>5. ASSUME NEW k \in Jobs, NEW s \in Statuses, Contract!Move(k, s) PROVE Respects
  <2>1. TriesOf'[j] = TriesOf[j]
    BY <1>5 DEF Contract!Move
  <2>2. StatusOf'[j] = IF k = j THEN s ELSE StatusOf[j]
    BY <1>1, <1>2, <1>5 DEF Contract!Move
  <2>3. k = j => s \in Successors(StatusOf[j]) /\ s # "running"
    BY <1>5, SameLifecycle DEF Contract!Move
  <2> QED
    BY <1>1, <2>1, <2>2, <2>3
<1>6. ASSUME NEW S \in SUBSET Jobs, Contract!TakeBack(S) PROVE Respects
  <2>1. TriesOf'[j] = TriesOf[j]
    BY <1>6 DEF Contract!TakeBack
  <2>2. \/ StatusOf'[j] = StatusOf[j]
        \/ StatusOf[j] \in Active /\ StatusOf'[j] \in {"queued", "failed"}
    BY <1>1, <1>6, SameLifecycle DEF Contract!TakeBack
  <2>3. StatusOf[j] \in Active => {"queued", "failed"} \subseteq Successors(StatusOf[j])
    BY DEF Active, Successors, Statuses
  <2>4. StatusOf[j] = "queued" /\ StatusOf'[j] = "running" => FALSE
    BY <2>2 DEF Active
  <2> QED
    BY <1>1, <2>1, <2>2, <2>3, <2>4
<1>7. ASSUME UNCHANGED Contract!contract PROVE Respects
  <2>1. StatusOf' = StatusOf /\ TriesOf' = TriesOf
    BY <1>7 DEF Contract!contract
  <2> QED
    BY <1>1, <2>1
<1>8. Respects
  BY <1>3, <1>4, <1>5, <1>6, <1>7, SameLifecycle DEF Contract!Next
<1> QED
  BY <1>1, <1>8, Mapped

\* Whoever writes a row with whatever copy, the row moves along the lifecycle, and
\* an attempt is counted exactly when it starts to run.
THEOREM Respected == Spec => LifecycleRespected
<1>1. IInv /\ [Next]_vars =>
        \A j \in Created :
          /\ rows'[j].status \in {rows[j].status} \cup Successors(rows[j].status)
          /\ rows'[j].doc.attempt = rows[j].doc.attempt
               + (IF rows[j].status = "queued" /\ rows'[j].status = "running" THEN 1 ELSE 0)
  BY NextContract, ContractRespects
<1> QED
  BY <1>1, Invariance, PTL DEF Spec, LifecycleRespected
=============================================================================
