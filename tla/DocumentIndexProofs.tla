------------------------- MODULE DocumentIndexProofs -------------------------
(***************************************************************************)
(* Theorems about DocumentIndex, for any number of documents, workers and  *)
(* failures.                                                               *)
(*                                                                         *)
(* UnapprovedNotFound is not inductive.  A worker puts points with the     *)
(* status of the row as it was when the worker read it, and saves copies   *)
(* of rows over rows, so the invariant has to speak of the rows and of all *)
(* the copies that are under way: each of them that is "active" belongs to *)
(* a document that has been approved.                                      *)
(***************************************************************************)
EXTENDS DocumentIndex, TLAPS

\* No document is at hand there, and no copy of a row is kept.
Free == {"idle", "next", "approve", "annotate"}

Placed(l) == /\ l.pc \notin Free => l.doc \in Doc
             /\ l.pc \in Free => l.snap.status # "active"
             /\ l.pc = "publish" => l.doc \in Published

\* The copy of a row that l carries is active only if that was approved (A).
Backed(l, A) == l.doc \in Doc \ Published /\ l.snap.status = "active"
                   => A[l.doc] # {}

Locals == /\ work \in [Worker -> Local]
          /\ \A w \in Worker : Placed(work[w]) /\ Backed(work[w], approved)

Rows == /\ row \in [Doc -> Row]
        /\ \A d \in Doc \ Published : row[d].status = "active" => approved[d] # {}

Points == /\ points \in [Doc -> SUBSET Batch]
          /\ UnapprovedNotFound

Approvals == approved \in [Doc -> SUBSET Hash]

Counters == ops \in 0..MaxOps /\ faults \in 0..MaxFaults

IInv == Locals /\ Rows /\ Points /\ Approvals /\ Counters

\* Approvals are never taken back.
Grows == \A d \in Doc : approved[d] \subseteq approved'[d]

USE DocumentIndexAssumption

-----------------------------------------------------------------------------
(* Local variables.                                                        *)

LEMMA IdleGood == Idle \in Local /\ Placed(Idle) /\ Backed(Idle, approved)
BY DEF Idle, Local, NoRow, Row, Hash, Status, Category, PcLabel, Writer, Placed,
       Free, Backed

LEMMA NextGood ==
    ASSUME NEW T \in SUBSET Doc
    PROVE  LET l == [Idle EXCEPT !.todo = T, !.pc = "next"]
           IN  l \in Local /\ Placed(l) /\ Backed(l, approved)
BY DEF Idle, Local, NoRow, Row, Hash, Status, Category, PcLabel, Writer, Placed,
       Free, Backed

\* A worker changes its local variables, the others keep theirs.
LEMMA Replace ==
    ASSUME Locals, Grows, NEW w \in Worker, NEW l \in Local,
           Placed(l), Backed(l, approved'), work' = [work EXCEPT ![w] = l]
    PROVE  Locals'
<1>1. work' \in [Worker -> Local]
  BY DEF Locals
<1>2. ASSUME NEW v \in Worker PROVE Placed(work'[v]) /\ Backed(work'[v], approved')
  <2>1. CASE v = w
    <3>1. work'[v] = l
      BY <2>1 DEF Locals
    <3> QED BY <3>1 DEF Backed
  <2>2. CASE v # w
    <3>1. work'[v] = work[v]
      BY <2>2 DEF Locals
    <3>2. Placed(work[v]) /\ Backed(work[v], approved)
      BY DEF Locals
    <3>3. Backed(work'[v], approved')
      BY <3>1, <3>2 DEF Backed, Grows
    <3> QED BY <3>1, <3>2, <3>3
  <2> QED BY <2>1, <2>2
<1> QED BY <1>1, <1>2 DEF Locals, Placed

LEMMA Stay == ASSUME Locals, Grows, UNCHANGED work PROVE Locals'
BY DEF Locals, Placed, Backed, Grows

LEMMA LeaveGood ==
    ASSUME Locals, Grows, NEW w \in Worker, Leave(w)
    PROVE  Locals'
<1> DEFINE l == IF work[w].todo = {} THEN Idle
                ELSE [Idle EXCEPT !.todo = work[w].todo, !.pc = "next"]
<1>1. work[w].todo \in SUBSET Doc
  BY DEF Locals, Local
<1>2. l \in Local /\ Placed(l) /\ l.snap.status = "pending"
  BY <1>1, IdleGood, NextGood DEF Idle, NoRow
<1>3. Backed(l, approved')
  BY <1>2 DEF Backed
<1>4. work' = [work EXCEPT ![w] = l]
  BY DEF Leave
<1> HIDE DEF l
<1> QED BY <1>2, <1>3, <1>4, Replace

LEMMA GotoGood ==
    ASSUME Locals, Grows, NEW w \in Worker, NEW pc \in PcLabel \ Free, Goto(w, pc),
           pc = "publish" => work[w].doc \in Published,
           work[w].doc \in Doc
    PROVE  Locals'
<1> DEFINE l == [work[w] EXCEPT !.pc = pc]
<1>1. work[w] \in Local /\ Backed(work[w], approved)
  BY DEF Locals
<1>2. l \in Local /\ l.pc = pc /\ l.doc = work[w].doc /\ l.snap = work[w].snap
  BY <1>1 DEF Local
<1>3. Placed(l)
  BY <1>2 DEF Placed, Free
<1>4. Backed(l, approved')
  BY <1>1, <1>2 DEF Backed, Grows
<1>5. work' = [work EXCEPT ![w] = l]
  BY DEF Goto
<1> HIDE DEF l
<1> QED BY <1>2, <1>3, <1>4, <1>5, Replace

LEMMA TickGood ==
    ASSUME Locals, Grows, NEW w \in Worker, NEW e, Tick(w, e),
           work[w].pc \in Free
    PROVE  Locals'
<1> DEFINE l == [work[w] EXCEPT !.left = @ \ {e},
                    !.pc = IF work[w].left = {e} THEN "next" ELSE @]
<1>1. work[w] \in Local /\ Backed(work[w], approved) /\ Placed(work[w])
  BY DEF Locals
<1>2. l \in Local /\ l.pc \in {"next", work[w].pc} /\ l.doc = work[w].doc
        /\ l.snap = work[w].snap
  BY <1>1 DEF Local, PcLabel
<1>3. Placed(l)
  BY <1>1, <1>2 DEF Placed, Free
<1>4. Backed(l, approved')
  BY <1>1, <1>2 DEF Backed, Grows
<1>5. work' = [work EXCEPT ![w] = l]
  BY DEF Tick
<1> HIDE DEF l
<1> QED BY <1>2, <1>3, <1>4, <1>5, Replace

\* What an operation starts with: a label and a document.
LEMMA FreshGood ==
    ASSUME NEW pc \in PcLabel \ (Free \cup {"publish"}), NEW d \in Doc
    PROVE  LET l == [Idle EXCEPT !.pc = pc, !.doc = d]
           IN  l \in Local /\ Placed(l) /\ Backed(l, approved')
BY DEF Idle, Local, NoRow, Row, Hash, Status, Category, PcLabel, Writer, Placed,
       Free, Backed

\* Two goroutines start.
LEMMA Replace2 ==
    ASSUME Locals, Grows, NEW w \in Worker, NEW v \in Worker, v # w,
           NEW l \in Local, Placed(l), Backed(l, approved'),
           NEW m \in Local, Placed(m), Backed(m, approved'),
           work' = [work EXCEPT ![w] = l, ![v] = m]
    PROVE  Locals'
<1>1. work' \in [Worker -> Local]
  BY DEF Locals
<1>2. ASSUME NEW u \in Worker PROVE Placed(work'[u]) /\ Backed(work'[u], approved')
  <2>1. CASE u = w
    <3>1. work'[u] = l
      BY <2>1 DEF Locals
    <3> QED BY <3>1 DEF Backed
  <2>2. CASE u = v
    <3>1. work'[u] = m
      BY <2>2 DEF Locals
    <3> QED BY <3>1 DEF Backed
  <2>3. CASE u # w /\ u # v
    <3>1. work'[u] = work[u]
      BY <2>3 DEF Locals
    <3>2. Placed(work[u]) /\ Backed(work[u], approved)
      BY DEF Locals
    <3>3. Backed(work'[u], approved')
      BY <3>1, <3>2 DEF Backed, Grows
    <3> QED BY <3>1, <3>2, <3>3
  <2> QED BY <2>1, <2>2, <2>3
<1> QED BY <1>1, <1>2 DEF Locals, Placed

-----------------------------------------------------------------------------
(* The registry and the index.                                             *)

LEMMA RowsStay == ASSUME Rows, Grows, UNCHANGED row PROVE Rows'
BY DEF Rows, Grows

LEMMA PointsStay == ASSUME Points, Grows, UNCHANGED points PROVE Points'
BY DEF Points, UnapprovedNotFound, Grows

LEMMA GrowsStay == ASSUME UNCHANGED approved PROVE Grows
BY DEF Grows

LEMMA ApproveGood ==
    ASSUME Rows, Approvals, NEW d \in Doc, Approve(d)
    PROVE  Grows /\ Approvals' /\ (row[d].here => approved'[d] # {})
<1>1. row[d].hash \in Hash
  BY DEF Rows, Row
<1> QED BY <1>1 DEF Approve, Approvals, Grows

LEMMA SetStatusGood ==
    ASSUME Rows, Grows, NEW d \in Doc, NEW s \in Status, SetStatus(d, s),
           row[d].here /\ s = "active" => approved'[d] # {}
    PROVE  Rows'
<1>1. row'[d] = [row[d] EXCEPT !.status = IF row[d].here THEN s ELSE @]
  BY DEF SetStatus, Rows
<1>2. \A c \in Doc : c # d => row'[c] = row[c]
  BY DEF SetStatus, Rows
<1>3. row' \in [Doc -> Row]
  BY DEF SetStatus, Rows, Row
<1>4. row'[d].status = "active" => row[d].status = "active" \/ approved'[d] # {}
  BY <1>1 DEF Rows, Row
<1> QED BY <1>2, <1>3, <1>4 DEF Rows, Grows

LEMMA SetIndexedGood ==
    ASSUME Rows, Grows, NEW d \in Doc, NEW b \in BOOLEAN, SetIndexed(d, b)
    PROVE  Rows'
<1>1. row' \in [Doc -> Row]
  BY DEF SetIndexed, Rows, Row
<1>2. \A c \in Doc : row'[c].status = row[c].status
  BY DEF SetIndexed, Rows, Row
<1> QED BY <1>1, <1>2 DEF Rows, Grows

LEMMA UpdateClassificationGood ==
    ASSUME Rows, Grows, NEW d \in Doc, NEW h \in Hash, UpdateClassification(d, h)
    PROVE  Rows'
<1>1. CASE ~row[d].here
  BY <1>1, RowsStay DEF UpdateClassification
<1>2. CASE row[d].here
  <2> DEFINE q == [row[d] EXCEPT !.category = "named", !.annotated = h]
  <2> row[d] \in Row
    BY DEF Rows
  <2>1. q \in Row /\ q.status = row[d].status
    BY ONLY row[d] \in Row, h \in Hash DEF Row, Category
  <2>2. row' = [row EXCEPT ![d] = q]
    BY <1>2 DEF UpdateClassification
  <2> HIDE DEF q
  <2>3. row' \in [Doc -> Row] /\ \A c \in Doc : row'[c].status = row[c].status
    BY <2>1, <2>2 DEF Rows
  <2> QED BY <2>3 DEF Rows, Grows
<1> QED BY <1>1, <1>2

LEMMA UpsertGood ==
    ASSUME Rows, Grows, NEW d \in Doc, NEW r \in Row, Upsert(d, r),
           d \in Doc \ Published /\ r.status = "active" => approved'[d] # {}
    PROVE  Rows'
<1> DEFINE q == [r EXCEPT !.here = TRUE, !.annotated = row[d].annotated]
<1>1. q \in Row /\ q.status = r.status
  BY DEF Rows, Row
<1>2. row' = [row EXCEPT ![d] = q]
  BY DEF Upsert
<1> HIDE DEF q
<1>3. row' \in [Doc -> Row] /\ row'[d] = q /\ \A c \in Doc : c # d => row'[c] = row[c]
  BY <1>1, <1>2 DEF Rows
<1> QED BY <1>1, <1>3 DEF Rows, Grows

LEMMA DeleteByDocumentGood ==
    ASSUME Points, Grows, NEW w \in Worker, DeleteByDocument(w)
    PROVE  Points'
<1>1. points' \in [Doc -> SUBSET Batch]
  BY DEF DeleteByDocument, Points
<1>2. \A d \in Doc : points'[d] \subseteq points[d]
  BY DEF DeleteByDocument, Points
<1> QED BY <1>1, <1>2 DEF Points, UnapprovedNotFound, Grows

-----------------------------------------------------------------------------
(* The steps.                                                              *)

LEMMA FirstStatusActive == "active" \notin FirstStatus
BY DEF FirstStatus

LEMMA NewRowGood ==
    ASSUME NEW s \in Status, NEW h \in Hash, NEW c \in Category
    PROVE  NewRow(s, h, c) \in Row /\ NewRow(s, h, c).status = s
                                  /\ NewRow(s, h, c).hash = h
BY DEF NewRow, NoRow, Row, Hash, Status, Category

\* A writer invents no active row, but for documents that need no approval and
\* for the collector that is told to approve.
LEMMA SavedGood ==
    ASSUME NEW op \in Writer, NEW s \in Row, NEW h \in Hash,
           NEW r \in Saved(op, s, h)
    PROVE  /\ r \in Row
           /\ r.status = "active" =>
                op \in {"publish", "collect"} \/ s.status = "active"
<1>1. FirstStatus \subseteq Status \ {"active"} /\ CollectorStatus \subseteq Status
  BY DEF FirstStatus, CollectorStatus, Status
<1>2. Hash = Content \cup {NoContent} /\ NoContent \in Hash
        /\ Category = {"none", "named"} /\ "active" \in Status
  BY DEF Hash, Category, Status
<1>3. CASE op = "scrape"
  BY <1>1, <1>3, NewRowGood DEF Saved
<1>4. CASE op = "publish"
  BY <1>2, <1>4, NewRowGood DEF Saved
<1>5. CASE op = "attach"
  <2>1. CASE s.here
    <3>1. r = [s EXCEPT !.hash = h, !.indexed = FALSE]
      BY <1>5, <2>1 DEF Saved
    <3>2. r \in Row /\ r.status = s.status
      BY ONLY <3>1, s \in Row, h \in Hash DEF Row
    <3> QED BY <3>2
  <2>2. CASE ~s.here
    BY <1>1, <1>2, <1>5, <2>2, NewRowGood DEF Saved
  <2> QED BY <2>1, <2>2
<1>6. CASE op = "fill"
  BY <1>6 DEF Saved, Row
<1>7. CASE op = "collect"
  <2>1. PICK t \in CollectorStatus : r = Collected(s, t, h)
    BY <1>7 DEF Saved
  <2>2. t \in Status /\ "named" \in Category
    BY <1>1, <1>2
  <2>3. CASE s.here
    <3>1. r = [s EXCEPT !.status = t, !.hash = h, !.category = "named"]
      BY <2>1, <2>3 DEF Collected
    <3>2. r \in Row
      BY ONLY <3>1, <2>2, s \in Row, h \in Hash DEF Row
    <3> QED BY <1>7, <3>2
  <2>4. CASE ~s.here
    BY <1>2, <1>7, <2>1, <2>2, <2>4, NewRowGood DEF Collected
  <2> QED BY <2>3, <2>4
<1>8. CASE op = "patch"
  <2>1. CASE s.here
    BY <1>2, <1>8, <2>1 DEF Saved, Row
  <2>2. CASE ~s.here
    BY <1>1, <1>2, <1>8, <2>2, NewRowGood DEF Saved
  <2> QED BY <2>1, <2>2
<1> QED BY <1>3, <1>4, <1>5, <1>6, <1>7, <1>8 DEF Writer

\* What a worker has at hand.
LEMMA AtHand ==
    ASSUME Locals, NEW w \in Worker, work[w].pc \notin Free
    PROVE  doc(w) \in Doc /\ snap(w) \in Row /\ work[w].hash \in Hash
             /\ Backed(work[w], approved)
             /\ (work[w].pc = "publish" => doc(w) \in Published)
BY DEF Locals, Local, Placed, doc, snap

LEMMA SaveStep ==
    ASSUME IInv, NEW w \in Worker, Save(w)
    PROVE  IInv'
<1> DEFINE op == work[w].pc
<1>1. op \in Writer /\ op \notin Free
  BY DEF Save, Writer, Free
<1>2. /\ doc(w) \in Doc /\ snap(w) \in Row /\ work[w].hash \in Hash
      /\ Backed(work[w], approved)
      /\ op = "publish" => doc(w) \in Published
  BY <1>1, AtHand DEF IInv
<1>3. PICK r \in Saved(op, snap(w), work[w].hash) :
        /\ Upsert(doc(w), r)
        /\ approved' = IF op = "collect" /\ r.status = "active"
                       THEN [approved EXCEPT ![doc(w)] = @ \cup {r.hash}]
                       ELSE approved
  BY DEF Save
<1>4. r \in Row /\ (r.status = "active" =>
                       op \in {"publish", "collect"} \/ snap(w).status = "active")
  BY <1>1, <1>2, SavedGood
<1>5. Grows /\ Approvals' /\ (op = "collect" /\ r.status = "active" => approved'[doc(w)] # {})
  BY <1>2, <1>3, <1>4 DEF IInv, Approvals, Grows, Row
<1>6. doc(w) \in Doc \ Published /\ r.status = "active" => approved'[doc(w)] # {}
  <2>1. SUFFICES ASSUME doc(w) \in Doc \ Published, r.status = "active",
                        op # "collect"
                 PROVE  approved'[doc(w)] # {}
    BY <1>5
  <2>2. snap(w).status = "active"
    BY <1>2, <1>4, <2>1
  <2>3. approved[doc(w)] # {}
    BY <1>2, <2>1, <2>2 DEF Backed, doc, snap
  <2> QED BY <1>2, <1>5, <2>3 DEF Grows
<1>7. Rows'
  BY <1>2, <1>3, <1>4, <1>5, <1>6, UpsertGood DEF IInv
<1>8. Locals'
  <2>1. CASE Goto(w, "get")
    <3>1. "get" \in PcLabel \ Free
      BY DEF PcLabel, Free
    <3> QED BY <1>2, <1>5, <2>1, <3>1, GotoGood DEF IInv, doc
  <2>2. CASE Leave(w)
    BY <1>5, <2>2, LeaveGood DEF IInv
  <2> QED BY <2>1, <2>2 DEF Save
<1>9. Points' /\ Counters'
  BY <1>5, PointsStay DEF IInv, Save, Counters
<1> QED BY <1>5, <1>7, <1>8, <1>9 DEF IInv

\* A read, or a listing, starts an operation and changes nothing else.
LEMMA StartStep ==
    ASSUME IInv, UNCHANGED <<row, points, approved, faults>>,
           ops' \in 0..MaxOps, Locals'
    PROVE  IInv'
BY GrowsStay, RowsStay, PointsStay DEF IInv, Counters, Approvals

LEMMA OpsGood ==
    ASSUME IInv, NEW w \in Worker, MayStart(w)
    PROVE  ops' \in 0..MaxOps
BY DEF IInv, Counters, MayStart

LEMMA ReadStep ==
    ASSUME IInv, NEW w \in Worker, NEW op \in Writer, NEW d \in Doc,
           NEW h \in Content, Read(w, op, d, h)
    PROVE  IInv'
<1> DEFINE l == [Idle EXCEPT !.pc = op, !.doc = d, !.snap = row[d], !.hash = h]
<1>1. l \in Local /\ l.pc = op /\ l.doc = d /\ l.snap = row[d]
  <2>1. row[d] \in Row /\ op \in PcLabel /\ h \in Hash
    BY DEF IInv, Rows, PcLabel, Hash
  <2> QED BY ONLY <2>1, d \in Doc DEF Idle, Local
<1>2. op = "publish" => d \in Published
  BY DEF Read, Takes
<1>3. Placed(l)
  BY <1>1, <1>2 DEF Placed, Free, Writer
<1>4. Grows
  BY GrowsStay DEF Read
<1>5. Backed(l, approved')
  BY <1>1, <1>4 DEF IInv, Rows, Backed, Grows
<1>6. work' = [work EXCEPT ![w] = l]
  BY DEF Read
<1> HIDE DEF l
<1>7. Locals'
  BY <1>1, <1>3, <1>4, <1>5, <1>6, Replace DEF IInv
<1>8. ops' \in 0..MaxOps
  BY OpsGood DEF Read
<1> QED BY <1>7, <1>8, StartStep DEF Read

LEMMA FaultGood ==
    ASSUME IInv, Fault
    PROVE  faults' \in 0..MaxFaults
BY DEF IInv, Counters, Fault

LEMMA ChangeStatusStep ==
    ASSUME IInv, NEW w \in Worker, NEW d \in Doc, NEW s \in Status,
           ChangeStatus(w, d, s)
    PROVE  IInv'
<1> DEFINE pc == IF s = "active" THEN "get" ELSE "unindex"
           sync == [Idle EXCEPT !.pc = pc, !.doc = d]
           old == [Idle EXCEPT !.pc = "outdate", !.doc = Replaces[d]]
<1>1. Grows /\ Approvals' /\ (row[d].here /\ s = "active" => approved'[d] # {})
  <2>1. CASE s = "active"
    BY <2>1, ApproveGood DEF ChangeStatus, IInv
  <2>2. CASE s # "active"
    BY <2>2, GrowsStay DEF ChangeStatus, IInv, Approvals
  <2> QED BY <2>1, <2>2
<1>2. Rows'
  BY <1>1, SetStatusGood DEF ChangeStatus, IInv
<1>3. Points' /\ Counters'
  BY <1>1, PointsStay, OpsGood DEF ChangeStatus, IInv, Counters
<1>4. Locals'
  <2>1. {pc, "outdate"} \subseteq PcLabel \ (Free \cup {"publish"})
    BY DEF PcLabel, Free
  <2>2. sync \in Local /\ Placed(sync) /\ Backed(sync, approved')
    BY <2>1, FreshGood
  <2>3. CASE work' = [work EXCEPT ![w] = sync]
    <3> HIDE DEF sync
    <3> QED BY <1>1, <2>2, <2>3, Replace DEF IInv
  <2>4. ASSUME Replaces[d] # NoDoc, NEW v \in Worker \ {w},
               work' = [work EXCEPT ![w] = sync, ![v] = old]
        PROVE  Locals'
    <3>1. Replaces[d] \in Doc
      BY <2>4
    <3>2. old \in Local /\ Placed(old) /\ Backed(old, approved')
      BY <2>1, <3>1, FreshGood
    <3> HIDE DEF sync, old
    <3> QED BY <1>1, <2>2, <2>4, <3>2, Replace2 DEF IInv
  <2> QED BY <2>3, <2>4 DEF ChangeStatus
<1> QED BY <1>1, <1>2, <1>3, <1>4 DEF IInv

LEMMA OutdateStep ==
    ASSUME IInv, NEW w \in Worker, Outdate(w)
    PROVE  IInv'
<1>1. doc(w) \in Doc /\ Grows
  BY AtHand, GrowsStay DEF Outdate, At, Free, IInv
<1>2. Rows'
  <2>1. "outdated" \in Status /\ "outdated" # "active"
    BY DEF Status
  <2> QED BY <1>1, <2>1, SetStatusGood DEF Outdate, IInv
<1>3. Locals'
  <2>1. CASE Leave(w)
    BY <1>1, <2>1, LeaveGood DEF IInv
  <2>2. CASE Goto(w, "unindex")
    BY <1>1, <2>2, GotoGood DEF IInv, doc, PcLabel, Free
  <2> QED BY <2>1, <2>2 DEF Outdate
<1> QED BY <1>1, <1>2, <1>3, PointsStay DEF Outdate, IInv, Counters, Approvals

LEMMA DeindexStep ==
    ASSUME IInv, NEW w \in Worker, NEW d \in Doc, Deindex(w, d)
    PROVE  IInv'
<1> DEFINE l == [Idle EXCEPT !.pc = "unindex", !.doc = d]
<1>1. l \in Local /\ Placed(l) /\ Backed(l, approved')
  BY FreshGood DEF PcLabel, Free
<1>2. work' = [work EXCEPT ![w] = l] /\ Grows
  BY GrowsStay DEF Deindex
<1> HIDE DEF l
<1>3. Locals'
  BY <1>1, <1>2, Replace DEF IInv
<1> QED BY <1>3, OpsGood, StartStep DEF Deindex

LEMMA DeleteStep ==
    ASSUME IInv, NEW w \in Worker, NEW d \in Doc, Delete(w, d)
    PROVE  IInv'
<1> DEFINE l == [Idle EXCEPT !.pc = "delete", !.doc = d]
           m == [Idle EXCEPT !.pc = "unindex", !.doc = d]
<1>1. /\ l \in Local /\ Placed(l) /\ Backed(l, approved')
      /\ m \in Local /\ Placed(m) /\ Backed(m, approved')
  BY FreshGood DEF PcLabel, Free
<1>2. Grows /\ \E v \in Worker \ {w} : work' = [work EXCEPT ![w] = l, ![v] = m]
  BY GrowsStay DEF Delete
<1> HIDE DEF l, m
<1>3. Locals'
  BY <1>1, <1>2, Replace2 DEF IInv
<1> QED BY <1>3, OpsGood, StartStep DEF Delete

LEMMA DeleteRowStep ==
    ASSUME IInv, NEW w \in Worker, DeleteRow(w)
    PROVE  IInv'
<1>1. doc(w) \in Doc /\ Grows
  BY AtHand, GrowsStay DEF DeleteRow, At, Free, IInv
<1>2. NoRow \in Row /\ NoRow.status = "pending"
  BY DEF NoRow, Row, Hash, Status, Category
<1>3. Rows'
  BY <1>1, <1>2 DEF DeleteRow, IInv, Rows, Grows
<1>4. Locals'
  BY <1>1, LeaveGood DEF DeleteRow, IInv
<1> QED BY <1>1, <1>3, <1>4, PointsStay DEF DeleteRow, IInv, Counters, Approvals

LEMMA BatchedStep ==
    ASSUME IInv, NEW w \in Worker, NEW pc \in {"approve", "annotate"},
           NEW listed, listed \subseteq Doc, Batched(w, pc, listed)
    PROVE  IInv'
<1> DEFINE l == [Idle EXCEPT !.pc = pc, !.todo = listed,
                            !.left = {<<d, row[d]>> : d \in listed}]
<1>1. l \in Local /\ l.pc = pc /\ l.snap = NoRow
  <2>1. {<<d, row[d]>> : d \in listed} \in SUBSET (Doc \X Row)
    BY DEF IInv, Rows
  <2>2. pc \in PcLabel
    BY DEF PcLabel
  <2>3. Idle \in Local
    BY IdleGood
  <2> QED BY ONLY <2>1, <2>2, <2>3, listed \subseteq Doc DEF Idle, Local
<1>2. Placed(l) /\ Backed(l, approved')
  BY <1>1 DEF Placed, Backed, Free, NoRow
<1>3. work' = [work EXCEPT ![w] = l] /\ Grows
  BY GrowsStay DEF Batched
<1> HIDE DEF l
<1>4. Locals'
  BY <1>1, <1>2, <1>3, Replace DEF IInv
<1> QED BY <1>4, OpsGood, StartStep DEF Batched

LEMMA ApproveNextStep ==
    ASSUME IInv, NEW w \in Worker, ApproveNext(w)
    PROVE  IInv'
<1>1. PICK e \in work[w].left :
         SetStatus(e[1], "active") /\ Approve(e[1]) /\ Tick(w, e)
  BY DEF ApproveNext
<1>2. e[1] \in Doc
  BY DEF IInv, Locals, Local
<1>3. Grows /\ Approvals' /\ (row[e[1]].here => approved'[e[1]] # {})
  BY <1>1, <1>2, ApproveGood DEF IInv
<1>4. Rows'
  BY <1>1, <1>2, <1>3, SetStatusGood DEF IInv, Status
<1>5. Locals'
  BY <1>1, <1>3, TickGood DEF IInv, ApproveNext, At, Free
<1> QED BY <1>3, <1>4, <1>5, PointsStay DEF ApproveNext, IInv, Counters

LEMMA AnnotateStep ==
    ASSUME IInv, NEW w \in Worker, Annotate(w)
    PROVE  IInv'
<1>1. PICK e \in work[w].left : UpdateClassification(e[1], e[2].hash) /\ Tick(w, e)
  BY DEF Annotate
<1>2. e[1] \in Doc /\ e[2] \in Row
  BY DEF IInv, Locals, Local
<1>3. e[2].hash \in Hash /\ Grows
  BY <1>2, GrowsStay DEF Row, Annotate
<1>4. Rows'
  BY <1>1, <1>2, <1>3, UpdateClassificationGood DEF IInv
<1>5. Locals'
  BY <1>1, <1>3, TickGood DEF IInv, Annotate, At, Free
<1> QED BY <1>3, <1>4, <1>5, PointsStay DEF Annotate, IInv, Counters, Approvals

LEMMA StartIndexingGood ==
    ASSUME IInv, NEW w \in Worker, NEW listed, listed \subseteq Doc,
           StartIndexing(w, listed)
    PROVE  Locals'
<1> DEFINE l == [Idle EXCEPT !.todo = listed, !.pc = "next"]
<1>1. l \in Local /\ Placed(l) /\ l.snap.status # "active"
  BY NextGood DEF Idle, NoRow
<1>2. Backed(l, approved')
  BY <1>1 DEF Backed
<1>3. work' = [work EXCEPT ![w] = l] /\ Grows
  BY GrowsStay DEF StartIndexing, Idle
<1> HIDE DEF l
<1> QED BY <1>1, <1>2, <1>3, Replace DEF IInv

LEMMA IndexActiveStep ==
    ASSUME IInv, NEW w \in Worker, IndexActive(w) \/ ReindexActive(w)
    PROVE  IInv'
<1>1. Locals'
  BY StartIndexingGood DEF IndexActive, ReindexActive, List
<1>2. ops' \in 0..MaxOps
  BY OpsGood DEF IInv, Counters, IndexActive, ReindexActive
<1> QED BY <1>1, <1>2, StartStep DEF IndexActive, ReindexActive, StartIndexing

LEMMA NextDocStep ==
    ASSUME IInv, NEW w \in Worker, NextDoc(w)
    PROVE  IInv'
<1>1. PICK d \in work[w].todo :
         work' = [work EXCEPT ![w].todo = @ \ {d}, ![w].doc = d, ![w].pc = "get"]
  BY DEF NextDoc
<1> DEFINE S == work[w].todo \ {d}
           l == [work[w] EXCEPT !.todo = S, !.doc = d, !.pc = "get"]
<1>2. work[w] \in Local
  BY DEF IInv, Locals
<1>3. d \in Doc /\ S \in SUBSET Doc /\ "get" \in PcLabel
  BY <1>2 DEF Local, PcLabel
<1>9. work' = [work EXCEPT ![w] = l]
  BY <1>1
<1> HIDE DEF S
<1>4. l \in Local /\ l.pc = "get" /\ l.doc = d /\ l.snap = work[w].snap
  BY ONLY <1>2, <1>3 DEF Local
<1>5. work' = [work EXCEPT ![w] = l] /\ Grows
  BY <1>9, GrowsStay DEF NextDoc
<1>6. Placed(l)
  BY <1>3, <1>4 DEF Placed, Free
<1>7. Backed(l, approved')
  BY <1>4 DEF IInv, Locals, Placed, Free, NextDoc, At, Backed
<1> HIDE DEF l
<1>8. Locals'
  BY <1>4, <1>5, <1>6, <1>7, Replace DEF IInv
<1> QED BY <1>5, <1>8, RowsStay, PointsStay DEF NextDoc, IInv, Counters, Approvals

\* The steps of IndexDocument and RemoveDocument have a document at hand.
LEMMA GetStep ==
    ASSUME IInv, NEW w \in Worker, Get(w)
    PROVE  IInv'
<1>1. doc(w) \in Doc /\ Grows
  BY AtHand, GrowsStay DEF Get, At, Free, IInv
<1>2. Locals'
  <2>1. CASE Leave(w)
    BY <1>1, <2>1, LeaveGood DEF IInv
  <2>2. CASE ~Leave(w)
    <3> DEFINE pc == IF HasClassifier /\ row[doc(w)].category = "none"
                     THEN "classify" ELSE "clear"
               l == [work[w] EXCEPT !.snap = row[doc(w)], !.pc = pc]
    <3>1. work[w] \in Local /\ row[doc(w)] \in Row
      BY <1>1 DEF IInv, Locals, Rows
    <3>2. pc \in PcLabel \ Free /\ pc # "publish"
      BY DEF PcLabel, Free
    <3>3. work' = [work EXCEPT ![w] = l]
      BY <2>2 DEF Get
    <3> HIDE DEF pc
    <3>4. l \in Local /\ l.pc = pc /\ l.doc = doc(w) /\ l.snap = row[doc(w)]
      BY ONLY <3>1, <3>2 DEF Local, doc
    <3>5. Placed(l)
      BY <1>1, <3>2, <3>4 DEF Placed
    <3>6. Backed(l, approved')
      BY <1>1, <3>4 DEF Backed, IInv, Rows, Grows
    <3> HIDE DEF l
    <3> QED BY <1>1, <3>3, <3>4, <3>5, <3>6, Replace DEF IInv
  <2> QED BY <2>1, <2>2
<1> QED BY <1>1, <1>2, RowsStay, PointsStay DEF Get, IInv, Counters, Approvals

LEMMA ClassifyStep ==
    ASSUME IInv, NEW w \in Worker, Classify(w)
    PROVE  IInv'
<1>1. doc(w) \in Doc /\ snap(w) \in Row /\ Backed(work[w], approved) /\ Grows
  BY AtHand, GrowsStay DEF Classify, At, Free, IInv
<1> DEFINE r == [snap(w) EXCEPT !.category = "named"]
<1>2. r \in Row /\ r.status = snap(w).status
  BY <1>1 DEF Row, Category
<1>3. Upsert(doc(w), r)
  BY DEF Classify
<1>4. doc(w) \in Doc \ Published /\ r.status = "active" => approved'[doc(w)] # {}
  BY <1>1, <1>2 DEF Backed, Grows, doc, snap
<1> HIDE DEF r
<1>5. Rows'
  BY <1>1, <1>2, <1>3, <1>4, UpsertGood DEF IInv
<1>6. Locals'
  BY <1>1, GotoGood DEF Classify, IInv, doc, PcLabel, Free
<1> QED BY <1>1, <1>5, <1>6, PointsStay DEF Classify, IInv, Counters, Approvals

LEMMA ClearStep ==
    ASSUME IInv, NEW w \in Worker, Clear(w) \/ Unindex(w)
    PROVE  IInv'
<1>1. doc(w) \in Doc /\ Grows
  BY AtHand, GrowsStay DEF Clear, Unindex, At, Free, IInv
<1>2. Locals'
  BY <1>1, GotoGood DEF Clear, Unindex, IInv, doc, PcLabel, Free
<1>3. Points'
  BY <1>1, DeleteByDocumentGood DEF Clear, Unindex, IInv
<1> QED BY <1>1, <1>2, <1>3, RowsStay
        DEF Clear, Unindex, IInv, Counters, Approvals

LEMMA PutStep ==
    ASSUME IInv, NEW w \in Worker, Put(w)
    PROVE  IInv'
<1>1. doc(w) \in Doc /\ snap(w) \in Row /\ Backed(work[w], approved) /\ Grows
  BY AtHand, GrowsStay DEF Put, At, Free, IInv
<1>2. Locals'
  BY <1>1, GotoGood DEF Put, IInv, doc, PcLabel, Free
<1> DEFINE b == [by |-> w, hash |-> snap(w).hash, status |-> snap(w).status]
<1>3. b \in Batch /\ b.status = snap(w).status
  BY <1>1 DEF Batch, Row
<1>4. points' = [points EXCEPT ![doc(w)] = @ \cup {b}]
  BY DEF Put
<1>5. doc(w) \in Doc \ Published /\ b.status = "active" => approved[doc(w)] # {}
  BY <1>1, <1>3 DEF Backed, doc, snap
<1> HIDE DEF b
<1>6. points' \in [Doc -> SUBSET Batch]
  BY <1>1, <1>3, <1>4 DEF IInv, Points
<1>7. UnapprovedNotFound'
  BY <1>1, <1>4, <1>5 DEF IInv, Points, UnapprovedNotFound, Put
<1> QED BY <1>1, <1>2, <1>6, <1>7, RowsStay
        DEF Put, IInv, Points, Counters, Approvals

LEMMA FlagStep ==
    ASSUME IInv, NEW w \in Worker, Flag(w) \/ Unflag(w)
    PROVE  IInv'
<1>1. doc(w) \in Doc /\ Grows
  BY AtHand, GrowsStay DEF Flag, Unflag, At, Free, IInv
<1>2. Rows'
  BY <1>1, SetIndexedGood DEF Flag, Unflag, IInv
<1>3. Locals'
  BY <1>1, LeaveGood DEF Flag, Unflag, IInv
<1> QED BY <1>1, <1>2, <1>3, PointsStay
        DEF Flag, Unflag, IInv, Counters, Approvals

LEMMA CallFailsStep ==
    ASSUME IInv, NEW w \in Worker, CallFails(w)
    PROVE  IInv'
<1>1. Grows
  BY GrowsStay DEF CallFails
<1>2. Locals'
  <2>1. CASE Leave(w)
    BY <1>1, <2>1, LeaveGood DEF IInv
  <2>2. CASE At(w, "classify") /\ Goto(w, "clear")
    <3>1. doc(w) \in Doc
      BY <2>2, AtHand DEF At, Free, IInv
    <3> QED BY <1>1, <2>2, <3>1, GotoGood DEF IInv, doc, PcLabel, Free
  <2>3. CASE work[w].pc \in {"approve", "annotate"} /\ \E e \in work[w].left : Tick(w, e)
    BY <1>1, <2>3, TickGood DEF IInv, Free
  <2> QED BY <2>1, <2>2, <2>3 DEF CallFails
<1> QED BY <1>1, <1>2, FaultGood, RowsStay, PointsStay
        DEF CallFails, IInv, Counters, Approvals

LEMMA CrashStep ==
    ASSUME IInv, Crash
    PROVE  IInv'
<1>1. Grows
  BY GrowsStay DEF Crash
<1>2. PICK dead \in SUBSET Worker :
         work' = [w \in Worker |-> IF w \in dead THEN Idle ELSE work[w]]
  BY DEF Crash
<1>3. Locals'
  <2>1. work' \in [Worker -> Local]
    BY <1>2, IdleGood DEF IInv, Locals
  <2>2. ASSUME NEW w \in Worker
        PROVE  Placed(work'[w]) /\ Backed(work'[w], approved')
    <3>1. Placed(Idle) /\ Backed(Idle, approved)
      BY IdleGood
    <3>2. Placed(work[w]) /\ Backed(work[w], approved)
      BY DEF IInv, Locals
    <3>3. approved' = approved
      BY DEF Crash
    <3> QED BY <1>2, <3>1, <3>2, <3>3
  <2> QED BY <2>1, <2>2 DEF Locals, Placed
<1> QED BY <1>1, <1>3, FaultGood, RowsStay, PointsStay
        DEF Crash, IInv, Counters, Approvals

-----------------------------------------------------------------------------
(* The theorems.                                                           *)

LEMMA InitIInv == Init => IInv
<1> SUFFICES ASSUME Init PROVE IInv
  OBVIOUS
<1>1. Locals
  BY IdleGood DEF Init, Locals
<1>2. Rows
  BY DEF Init, Rows, NoRow, Row, Hash, Status, Category
<1>3. Points /\ Approvals /\ Counters
  BY DEF Init, Points, UnapprovedNotFound, Approvals, Counters
<1> QED BY <1>1, <1>2, <1>3 DEF IInv

LEMMA NextIInv == IInv /\ [Next]_vars => IInv'
<1> SUFFICES ASSUME IInv, [Next]_vars PROVE IInv'
  OBVIOUS
<1>1. CASE UNCHANGED vars
  BY <1>1, Stay, GrowsStay, RowsStay, PointsStay
     DEF vars, IInv, Counters, Approvals
<1>2. CASE Crash
  BY <1>2, CrashStep
<1>3. ASSUME NEW w \in Worker, Works(w) PROVE IInv'
  BY <1>3, SaveStep, OutdateStep, DeleteRowStep, ApproveNextStep, AnnotateStep,
     NextDocStep, GetStep, ClassifyStep, ClearStep, PutStep, FlagStep DEF Works
<1>4. ASSUME NEW w \in Worker, Starts(w) PROVE IInv'
  <2>1. ASSUME NEW op \in Writer, NEW d \in Doc, NEW h \in Content, Read(w, op, d, h)
        PROVE  IInv'
    BY <2>1, ReadStep
  <2>2. ASSUME NEW d \in Doc, NEW s \in Status, ChangeStatus(w, d, s) PROVE IInv'
    BY <2>2, ChangeStatusStep
  <2>3. ASSUME NEW d \in Doc, Deindex(w, d) \/ Delete(w, d) PROVE IInv'
    BY <2>3, DeindexStep, DeleteStep
  <2>4. CASE ApproveAll(w) \/ EnrichList(w)
    <3>1. List("pending") \subseteq Doc /\ ListNeedingEnrichment \subseteq Doc
      BY DEF List, ListNeedingEnrichment
    <3>2. CASE ApproveAll(w)
      BY <3>1, <3>2, BatchedStep DEF ApproveAll
    <3>3. CASE EnrichList(w)
      <4>1. PICK listed \in SUBSET ListNeedingEnrichment :
               Batched(w, "annotate", listed)
        BY <3>3 DEF EnrichList
      <4> QED BY <3>1, <4>1, BatchedStep
    <3> QED BY <2>4, <3>2, <3>3
  <2>5. CASE ReindexActive(w)
    BY <2>5, IndexActiveStep
  <2> QED BY <1>4, <2>1, <2>2, <2>3, <2>4, <2>5 DEF Starts
<1>5. ASSUME NEW w \in Worker, IndexActive(w) PROVE IInv'
  BY <1>5, IndexActiveStep
<1>6. ASSUME NEW w \in Worker, CallFails(w) PROVE IInv'
  BY <1>6, CallFailsStep
<1> QED BY <1>1, <1>2, <1>3, <1>4, <1>5, <1>6 DEF Next

\* Types: no interleaving of the collectors, the panel, the jobs and the index
\* service, and no failure, leaves the registry, the index or a worker's copy
\* of a row in a form the code has no name for.
THEOREM TypeCorrect == Spec => []TypeOK
<1>1. IInv => TypeOK
  BY DEF IInv, Locals, Rows, Points, Approvals, Counters, TypeOK
<1> QED BY <1>1, InitIInv, NextIInv, PTL DEF Spec

\* Whatever stale copies of rows the workers save over one another, the search
\* finds fragments only of documents that have been approved at some time.
THEOREM OnlyApprovedFound == Spec => []UnapprovedNotFound
<1>1. IInv => UnapprovedNotFound
  BY DEF IInv, Points
<1> QED BY <1>1, InitIInv, NextIInv, PTL DEF Spec

-----------------------------------------------------------------------------
(* The flag "indexed", while operations follow one another.  A change of   *)
(* status and a deletion still have two goroutines each.  What a label     *)
(* relies on (Ready) and which two labels may meet (Fits) carry the truth  *)
(* of the flag over the steps at which a document is half-way.             *)

\* The batches B of a document are one, made from the row r.
MadeFrom(B, r) == \E b \in B : B = {b} /\ b.hash = r.hash /\ b.status = r.status

\* The flag "indexed" of document d tells the truth in the rows R and the
\* points P; only active documents carry it.
Truthful(d, R, P) ==
    R[d].here /\ R[d].indexed => R[d].status = "active" /\ MadeFrom(P[d], R[d])

Has(l, d) == l.pc \notin Free /\ l.doc = d

\* What each label relies on.
Ready(l, R, P) ==
    /\ l.pc \in Writer \cup {"idle", "outdate", "delete", "unindex", "unflag"}
         => l.todo = {}
    /\ l.pc \in Writer => /\ l.pc # "collect"
                          /\ (l.pc = "fill" => R[l.doc].here)
                          /\ l.snap = R[l.doc]
    /\ l.pc \in Writer \cup {"outdate"} => Truthful(l.doc, R, P)
    /\ l.pc = "get" /\ R[l.doc].here => R[l.doc].status = "active"
    /\ l.pc \in {"classify", "clear", "put", "flag"} =>
         /\ R[l.doc].here /\ R[l.doc].status = "active"
         /\ l.snap.hash = R[l.doc].hash /\ l.snap.status = "active"
    /\ l.pc = "put" => P[l.doc] = {}
    /\ l.pc = "flag" => MadeFrom(P[l.doc], R[l.doc])
    /\ \A d \in l.todo :
         /\ R[d].here
         /\ \/ R[d].status = "active"
            \/ l.pc = "approve" /\ \E e \in l.left : e[1] = d

\* Who is at work beside another has one document at hand and no list; they
\* share it only when one deletes the row and the other the points.
Single(l)  == l.pc \notin Free \cup Writer /\ l.todo = {}
Undo(l, m) == l.pc = "delete" /\ m.pc \in {"unindex", "unflag"}
Fits(l, m) ==
    \/ l.pc = "idle" \/ m.pc = "idle"
    \/ /\ Single(l) /\ Single(m)
       /\ l.doc # m.doc \/ Undo(l, m) \/ Undo(m, l)

Truth ==
    /\ \A w \in Worker : Ready(work[w], row, points)
    /\ \A v, w \in Worker : v # w => Fits(work[v], work[w])
    /\ \A d \in Doc :
         (\A w \in Worker : ~Has(work[w], d)) => Truthful(d, row, points)

\* Operations follow one another, the panel's collector is not there, and no
\* document replaces itself.
OneByOne == Serial /\ ~HasCollector /\ \A d \in Doc : Replaces[d] # d

\* Whatever holds of an idle worker holds whatever the tables become.
LEMMA IdleReady ==
    ASSUME NEW l, l.pc = "idle", l.todo = {}, NEW R, NEW P
    PROVE  Ready(l, R, P)
BY DEF Ready, Writer

\* Other workers rely on other documents, or on nothing.
LEMMA OthersReady ==
    ASSUME NEW l, NEW m, Fits(l, m), NEW R, NEW P, NEW R2, NEW P2,
           l.pc \notin Free, l.doc \in Doc, m.pc \notin Free => m.doc \in Doc,
           Ready(m, R, P),
           \A d \in Doc \ {l.doc} : R2[d] = R[d] /\ P2[d] = P[d]
    PROVE  Ready(m, R2, P2)
<1>1. CASE m.pc = "idle"
  BY <1>1, IdleReady DEF Ready
<1>2. CASE m.pc # "idle"
  <2>1. Single(l) /\ Single(m) /\ (l.doc # m.doc \/ Undo(l, m) \/ Undo(m, l))
    BY <1>2 DEF Fits, Free
  <2>2. CASE l.doc # m.doc
    <3>1. R2[m.doc] = R[m.doc] /\ P2[m.doc] = P[m.doc]
      BY <2>1, <2>2 DEF Single
    <3> QED BY <2>1, <3>1 DEF Ready, Single, Truthful
  <2>3. CASE Undo(l, m) \/ Undo(m, l)
    BY <2>1, <2>3 DEF Undo, Single, Ready, Writer
  <2> QED BY <2>1, <2>2, <2>3
<1> QED BY <1>1, <1>2

\* A step of a worker on the document it has at hand.
LEMMA HandStep ==
    ASSUME Locals, Truth, NEW w \in Worker, work[w].pc \notin Free,
           NEW l, work' = [work EXCEPT ![w] = l],
           \A d \in Doc \ {doc(w)} : row'[d] = row[d] /\ points'[d] = points[d],
           Ready(l, row', points'),
           \/ /\ l.pc = "idle" \/ (l.pc = "next" /\ work[w].todo # {})
              /\ Truthful(doc(w), row', points')
           \/ /\ l.doc = doc(w) /\ l.pc \notin Free \cup Writer
              /\ l.todo = work[w].todo
              /\ \/ l.pc = "unflag" /\ work[w].pc = "unindex"
                 \/ work[w].pc \notin {"delete", "unindex", "unflag"}
    PROVE  Truth'
<1>0. /\ work'[w] = l /\ doc(w) \in Doc /\ doc(w) = work[w].doc
      /\ \A v \in Worker \ {w} : work'[v] = work[v]
      /\ \A v \in Worker : work[v].pc \notin Free => work[v].doc \in Doc
  BY DEF Locals, Placed, doc
<1>1. ASSUME NEW v \in Worker PROVE Ready(work[v], row, points)'
  <2>1. CASE v = w
    BY <1>0, <2>1
  <2>2. CASE v # w
    <3>1. Ready(work[v], row, points) /\ Fits(work[w], work[v])
      BY <2>2 DEF Truth
    <3>2. Ready(work[v], row', points')
      BY <1>0, <3>1, OthersReady
    <3> QED BY <1>0, <2>2, <3>2
  <2> QED BY <2>1, <2>2
<1>2. ASSUME NEW v \in Worker, v # w PROVE Fits(l, work[v]) /\ Fits(work[v], l)
  <2>1. Fits(work[w], work[v])
    BY <1>2 DEF Truth
  <2>2. CASE work[v].pc = "idle" \/ l.pc = "idle"
    BY <2>2 DEF Fits
  <2>3. CASE work[v].pc # "idle" /\ l.pc # "idle"
    <3>1. /\ Single(work[w]) /\ Single(work[v])
          /\ \/ work[w].doc # work[v].doc \/ Undo(work[w], work[v])
             \/ Undo(work[v], work[w])
      BY <2>1, <2>3 DEF Fits, Free
    <3>2. /\ l.doc = work[w].doc /\ Single(l)
          /\ \/ l.pc = "unflag" /\ work[w].pc = "unindex"
             \/ work[w].pc \notin {"delete", "unindex", "unflag"}
      BY <1>0, <2>3, <3>1 DEF Single
    <3> QED BY <3>1, <3>2 DEF Fits, Undo
  <2> QED BY <2>2, <2>3
<1>3. ASSUME NEW u \in Worker, NEW v \in Worker, u # v
      PROVE  Fits(work[u], work[v])'
  <2>1. CASE u = w
    BY <1>0, <1>2, <1>3, <2>1
  <2>2. CASE v = w
    BY <1>0, <1>2, <1>3, <2>2
  <2>3. CASE u # w /\ v # w
    <3>1. Fits(work[u], work[v])
      BY <1>3 DEF Truth
    <3> QED BY <1>0, <2>3, <3>1
  <2> QED BY <2>1, <2>2, <2>3
<1>4. ASSUME NEW d \in Doc, \A v \in Worker : ~Has(work'[v], d)
      PROVE  Truthful(d, row', points')
  <2>1. CASE d = doc(w)
    <3>1. ~Has(l, d)
      BY <1>0, <1>4
    <3> QED BY <2>1, <3>1 DEF Has
  <2>2. CASE d # doc(w)
    <3>1. ASSUME NEW v \in Worker PROVE ~Has(work[v], d)
      <4>1. CASE v = w
        BY <1>0, <2>2, <4>1 DEF Has
      <4>2. CASE v # w
        BY <1>0, <1>4, <4>2
      <4> QED BY <4>1, <4>2
    <3>2. Truthful(d, row, points)
      BY <3>1 DEF Truth
    <3> QED BY <2>2, <3>2 DEF Truthful
  <2> QED BY <2>1, <2>2
<1>5. \A d \in Doc : (\A v \in Worker : ~Has(work[v], d)') => Truthful(d, row, points)'
  BY <1>4
<1> QED BY <1>1, <1>3, <1>5 DEF Truth

\* The worker leaves the document, which is as it should be.
LEMMA LeaveHand ==
    ASSUME Locals, Truth, NEW w \in Worker, work[w].pc \notin Free, Leave(w),
           \A d \in Doc \ {doc(w)} : row'[d] = row[d] /\ points'[d] = points[d],
           Truthful(doc(w), row', points'),
           work[w].todo = {} \/
             \A d \in Doc : row'[d].here = row[d].here /\ row'[d].status = row[d].status
    PROVE  Truth'
<1>1. CASE work[w].todo = {}
  <2>1. work' = [work EXCEPT ![w] = Idle] /\ Idle.pc = "idle" /\ Idle.todo = {}
    BY <1>1 DEF Leave, Idle
  <2>2. Ready(Idle, row', points')
    BY <2>1, IdleReady
  <2> QED BY <2>1, <2>2, HandStep
<1>2. CASE work[w].todo # {}
  <2> DEFINE l == [Idle EXCEPT !.todo = work[w].todo, !.pc = "next"]
  <2>1. work' = [work EXCEPT ![w] = l] /\ l.pc = "next" /\ l.todo = work[w].todo
    BY <1>2 DEF Leave, Idle
  <2>2. \A d \in work[w].todo : d \in Doc /\ row[d].here /\ row[d].status = "active"
    BY DEF Truth, Ready, Locals, Local, Free
  <2>3. Ready(l, row', points')
    BY <1>2, <2>1, <2>2 DEF Ready, Writer
  <2> HIDE DEF l
  <2> QED BY <1>2, <2>1, <2>3, HandStep
<1> QED BY <1>1, <1>2

\* The worker goes on with the document.
LEMMA GotoHand ==
    ASSUME Locals, Truth, NEW w \in Worker, work[w].pc \notin Free,
           NEW pc \in PcLabel \ (Free \cup Writer), NEW s,
           work' = [work EXCEPT ![w] = [work[w] EXCEPT !.pc = pc, !.snap = s]],
           \A d \in Doc \ {doc(w)} : row'[d] = row[d] /\ points'[d] = points[d],
           (pc = "unflag" /\ work[w].pc = "unindex")
             \/ work[w].pc \notin {"delete", "unindex", "unflag"},
           Ready([work[w] EXCEPT !.pc = pc, !.snap = s], row', points')
    PROVE  Truth'
<1> DEFINE l == [work[w] EXCEPT !.pc = pc, !.snap = s]
<1>1. work[w] \in Local
  BY DEF Locals
<1>2. l.pc = pc /\ l.doc = doc(w) /\ l.todo = work[w].todo
  BY <1>1 DEF Local, doc
<1> HIDE DEF l
<1> QED BY <1>2, HandStep DEF l

\* What a writer saves: it is indexed next, or not indexed, or as it was.
LEMMA SavedTruth ==
    ASSUME NEW op \in Writer \ {"collect"}, NEW s \in Row, NEW h \in Hash,
           NEW r \in Saved(op, s, h), op = "fill" => s.here,
           s.here /\ s.indexed => s.status = "active"
    PROVE  IF Indexes(op, s) THEN r.status = "active"
           ELSE \/ ~r.indexed
                \/ /\ s.here /\ s.indexed
                   /\ r.hash = s.hash /\ r.status = s.status
<1>1. \A t, g, c : LET q == NewRow(t, g, c)
                   IN  q.status = t /\ q.hash = g /\ ~q.indexed
  BY DEF NewRow, NoRow
<1>2. CASE op \in {"scrape", "publish"}
  BY <1>1, <1>2 DEF Saved, Indexes
<1>3. CASE op = "attach"
  <2>1. CASE s.here
    <3>1. r = [s EXCEPT !.hash = h, !.indexed = FALSE]
      BY <1>3, <2>1 DEF Saved
    <3>2. r.status = s.status /\ r.indexed = FALSE
      BY <3>1 DEF Row
    <3> QED BY <1>3, <2>1, <3>2 DEF Indexes
  <2>2. CASE ~s.here
    BY <1>1, <1>3, <2>2 DEF Saved, Indexes
  <2> QED BY <2>1, <2>2
<1>4. CASE op = "fill"
  <2>1. r = [s EXCEPT !.hash = h]
    BY <1>4 DEF Saved
  <2>2. r.status = s.status /\ r.indexed = s.indexed
    BY <2>1 DEF Row
  <2>3. s.indexed \in BOOLEAN
    BY DEF Row
  <2> QED BY <1>4, <2>2, <2>3 DEF Indexes
<1>5. CASE op = "patch"
  <2>1. CASE s.here
    BY <1>5, <2>1 DEF Saved, Indexes, Row
  <2>2. CASE ~s.here
    BY <1>1, <1>5, <2>2 DEF Saved, Indexes
  <2> QED BY <2>1, <2>2
<1> QED BY <1>2, <1>3, <1>4, <1>5 DEF Writer

\* What the label of a worker at hand tells of its document.
LEMMA HandFacts ==
    ASSUME IInv, Truth, NEW w \in Worker, work[w].pc \notin Free
    PROVE  /\ doc(w) \in Doc /\ doc(w) = work[w].doc
           /\ snap(w) \in Row /\ snap(w) = work[w].snap
           /\ row \in [Doc -> Row] /\ points \in [Doc -> SUBSET Batch]
           /\ work[w] \in Local
           /\ Ready(work[w], row, points)
BY AtHand DEF IInv, Rows, Points, Truth, Locals, doc, snap

LEMMA SaveTruth ==
    ASSUME IInv, Truth, NEW w \in Worker, Save(w)
    PROVE  Truth'
<1> DEFINE op == work[w].pc
           d == doc(w)
<1>0. work[w].pc \notin Free /\ op \in Writer
  BY DEF Save, Writer, Free
<1>1. PICK r \in Saved(op, snap(w), work[w].hash) : Upsert(d, r)
  BY DEF Save
<1>2. /\ d \in Doc /\ snap(w) = row[d] /\ snap(w) \in Row /\ work[w].hash \in Hash
      /\ op # "collect" /\ (op = "fill" => row[d].here) /\ work[w].todo = {}
      /\ Truthful(d, row, points)
  BY <1>0, HandFacts, AtHand DEF Ready, IInv
<1>3. r \in Row
  BY <1>0, <1>2, SavedGood
<1>4. IF Indexes(op, row[d]) THEN r.status = "active"
      ELSE \/ ~r.indexed
           \/ /\ row[d].here /\ row[d].indexed
              /\ r.hash = row[d].hash /\ r.status = row[d].status
  BY <1>0, <1>2, SavedTruth DEF Truthful
<1>5. /\ row'[d].status = r.status /\ row'[d].indexed = r.indexed
      /\ row'[d].hash = r.hash
      /\ \A c \in Doc \ {d} : row'[c] = row[c]
      /\ points' = points
  BY <1>1, <1>2, <1>3 DEF Upsert, IInv, Rows, Row, Save
<1>6. CASE Indexes(op, row[d])
  <2>1. Goto(w, "get")
    BY <1>2, <1>6 DEF Save
  <2> DEFINE l == [work[w] EXCEPT !.pc = "get"]
  <2>2. l.pc = "get" /\ l.doc = d /\ l.todo = {}
    BY <1>0, <1>2, HandFacts DEF Local
  <2>3. Ready(l, row', points')
    BY <1>4, <1>5, <1>6, <2>2 DEF Ready, Writer
  <2>4. work' = [work EXCEPT ![w] = l]
    BY <2>1 DEF Goto
  <2> HIDE DEF l
  <2> QED BY <1>0, <1>2, <1>5, <2>2, <2>3, <2>4, HandStep DEF IInv, Free, Writer
<1>7. CASE ~Indexes(op, row[d])
  <2>1. Leave(w)
    BY <1>2, <1>7 DEF Save
  <2>2. Truthful(d, row', points')
    BY <1>2, <1>4, <1>5, <1>7 DEF Truthful, MadeFrom
  <2> QED BY <1>0, <1>2, <1>5, <2>1, <2>2, LeaveHand DEF IInv
<1> QED BY <1>6, <1>7

\* A worker goes on with its document and changes nothing but the points or
\* the row of it.
LEMMA OnwardTruth ==
    ASSUME IInv, Truth, NEW w \in Worker, work[w].pc \notin Free,
           NEW pc \in {"classify", "clear", "put", "flag", "unindex", "unflag"},
           NEW s \in Row,
           work' = [work EXCEPT ![w] = [work[w] EXCEPT !.pc = pc, !.snap = s]],
           \A d \in Doc \ {doc(w)} : row'[d] = row[d] /\ points'[d] = points[d],
           (pc = "unflag" /\ work[w].pc = "unindex")
             \/ work[w].pc \notin {"delete", "unindex", "unflag"},
           pc \in {"unindex", "unflag"} => work[w].todo = {},
           /\ row'[doc(w)].here = row[doc(w)].here
           /\ work[w].todo # {} => row'[doc(w)].status = row[doc(w)].status,
           pc \in {"classify", "clear", "put", "flag"} =>
             /\ row'[doc(w)].here /\ row'[doc(w)].status = "active"
             /\ s.hash = row'[doc(w)].hash /\ s.status = "active",
           pc = "put" => points'[doc(w)] = {},
           pc = "flag" => MadeFrom(points'[doc(w)], row'[doc(w)])
    PROVE  Truth'
<1> DEFINE l == [work[w] EXCEPT !.pc = pc, !.snap = s]
<1>1. /\ l.pc = pc /\ l.doc = doc(w) /\ l.todo = work[w].todo /\ l.snap = s
      /\ doc(w) \in Doc
  BY HandFacts DEF Local
<1>2. \A d \in l.todo : row'[d].here /\ row'[d].status = "active"
  <2>1. \A d \in work[w].todo : d \in Doc /\ row[d].here /\ row[d].status = "active"
    BY HandFacts DEF Ready, Local, Free
  <2> QED BY <1>1, <2>1
<1>3. Ready(l, row', points')
  <2> HIDE DEF l
  <2> QED BY <1>1, <1>2 DEF Ready, Writer
<1> HIDE DEF l
<1> QED BY <1>1, <1>3, GotoHand DEF IInv, l, Free, Writer, PcLabel

LEMMA GotoSnap ==
    ASSUME Locals, NEW w \in Worker, NEW pc, Goto(w, pc)
    PROVE  work' = [work EXCEPT ![w] = [work[w] EXCEPT !.pc = pc,
                                                      !.snap = work[w].snap]]
BY DEF Goto, Locals, Local

LEMMA OutdateTruth ==
    ASSUME IInv, Truth, NEW w \in Worker, Outdate(w)
    PROVE  Truth'
<1>0. work[w].pc = "outdate" /\ work[w].pc \notin Free
  BY DEF Outdate, At, Free
<1>1. /\ doc(w) \in Doc /\ work[w].todo = {} /\ Truthful(doc(w), row, points)
      /\ row \in [Doc -> Row]
  BY <1>0, HandFacts DEF Ready
<1>2. /\ row'[doc(w)] = [row[doc(w)] EXCEPT
                           !.status = IF row[doc(w)].here THEN "outdated" ELSE @]
      /\ \A d \in Doc \ {doc(w)} : row'[d] = row[d]
      /\ points' = points
  BY <1>1 DEF Outdate, SetStatus
<1>3. CASE row[doc(w)].here
  <2>1. work' = [work EXCEPT ![w] = [work[w] EXCEPT !.pc = "unindex",
                                                   !.snap = work[w].snap]]
    BY <1>3, GotoSnap DEF Outdate, IInv
  <2>2. row'[doc(w)].here = row[doc(w)].here
    BY <1>1, <1>2 DEF Row
  <2> QED BY <1>0, <1>1, <1>2, <2>1, <2>2, HandFacts, OnwardTruth
<1>4. CASE ~row[doc(w)].here
  <2>1. Leave(w) /\ row'[doc(w)] = row[doc(w)]
    BY <1>1, <1>2, <1>4 DEF Outdate, Row
  <2>2. Truthful(doc(w), row', points')
    BY <1>1, <1>2, <2>1 DEF Truthful
  <2> QED BY <1>0, <1>1, <1>2, <2>1, <2>2, LeaveHand DEF IInv
<1> QED BY <1>3, <1>4

LEMMA DeleteRowTruth ==
    ASSUME IInv, Truth, NEW w \in Worker, DeleteRow(w)
    PROVE  Truth'
<1>0. work[w].pc = "delete" /\ work[w].pc \notin Free
  BY DEF DeleteRow, At, Free
<1>1. doc(w) \in Doc /\ work[w].todo = {} /\ row \in [Doc -> Row]
  BY <1>0, HandFacts DEF Ready
<1>2. /\ ~row'[doc(w)].here
      /\ \A d \in Doc \ {doc(w)} : row'[d] = row[d]
      /\ points' = points /\ Leave(w)
  BY <1>1 DEF DeleteRow, NoRow
<1> QED BY <1>0, <1>1, <1>2, LeaveHand DEF IInv, Truthful

LEMMA GetTruth ==
    ASSUME IInv, Truth, NEW w \in Worker, Get(w)
    PROVE  Truth'
<1>0. work[w].pc = "get" /\ work[w].pc \notin Free
  BY DEF Get, At, Free
<1>1. /\ doc(w) \in Doc /\ row \in [Doc -> Row] /\ work[w] \in Local
      /\ row[doc(w)].here => row[doc(w)].status = "active"
      /\ row' = row /\ points' = points
  BY <1>0, HandFacts DEF Ready, Get
<1>2. CASE row[doc(w)].here
  <2>1. PICK pc \in {"classify", "clear"} :
          work' = [work EXCEPT ![w].snap = row[doc(w)], ![w].pc = pc]
    BY <1>2 DEF Get
  <2>2. work' = [work EXCEPT ![w] = [work[w] EXCEPT !.pc = pc,
                                                   !.snap = row[doc(w)]]]
    BY <2>1, <1>1 DEF IInv, Locals, Local
  <2> QED BY <1>0, <1>1, <1>2, <2>2, OnwardTruth
<1>3. CASE ~row[doc(w)].here
  BY <1>0, <1>1, <1>3, LeaveHand DEF IInv, Get, Truthful
<1> QED BY <1>2, <1>3

LEMMA ClassifyTruth ==
    ASSUME IInv, Truth, NEW w \in Worker, Classify(w)
    PROVE  Truth'
<1>0. work[w].pc = "classify" /\ work[w].pc \notin Free
  BY DEF Classify, At, Free
<1>1. /\ doc(w) \in Doc /\ doc(w) = work[w].doc /\ row \in [Doc -> Row]
      /\ work[w].snap \in Row /\ snap(w) = work[w].snap
      /\ row[doc(w)].here
      /\ row[doc(w)].status = "active" /\ snap(w).status = "active"
      /\ snap(w).hash = row[doc(w)].hash
  BY <1>0, HandFacts DEF Ready
<1>2. /\ row'[doc(w)].here
      /\ row'[doc(w)].status = snap(w).status
      /\ row'[doc(w)].hash = snap(w).hash
      /\ \A d \in Doc \ {doc(w)} : row'[d] = row[d]
      /\ points' = points
  BY <1>1 DEF Classify, Upsert, Row
<1>3. work' = [work EXCEPT ![w] = [work[w] EXCEPT !.pc = "clear",
                                                 !.snap = work[w].snap]]
  BY GotoSnap DEF Classify, IInv
<1> QED BY <1>0, <1>1, <1>2, <1>3, OnwardTruth

LEMMA PointsTruth ==
    ASSUME IInv, Truth, NEW w \in Worker, Clear(w) \/ Put(w) \/ Unindex(w)
    PROVE  Truth'
<1>0. /\ work[w].pc \in {"clear", "put", "unindex"} /\ work[w].pc \notin Free
      /\ row' = row
  BY DEF Clear, Put, Unindex, At, Free
<1>1. /\ doc(w) \in Doc /\ doc(w) = work[w].doc /\ snap(w) = work[w].snap
      /\ work[w].snap \in Row /\ points \in [Doc -> SUBSET Batch]
      /\ \A d \in Doc \ {doc(w)} : points'[d] = points[d]
      /\ Ready(work[w], row, points)
  BY <1>0, HandFacts DEF Clear, Put, Unindex, DeleteByDocument
<1>2. CASE Clear(w)
  <2>1. work' = [work EXCEPT ![w] = [work[w] EXCEPT !.pc = "put",
                                                   !.snap = work[w].snap]]
    BY <1>2, GotoSnap DEF Clear, IInv
  <2>2. points'[doc(w)] = {} /\ work[w].pc = "clear"
    BY <1>1, <1>2 DEF Clear, DeleteByDocument, At
  <2> QED BY <1>0, <1>1, <2>1, <2>2, OnwardTruth DEF Ready
<1>3. CASE Put(w)
  <2>1. work' = [work EXCEPT ![w] = [work[w] EXCEPT !.pc = "flag",
                                                   !.snap = work[w].snap]]
    BY <1>3, GotoSnap DEF Put, IInv
  <2>2. /\ work[w].pc = "put" /\ points[doc(w)] = {}
        /\ points'[doc(w)] = points[doc(w)] \cup
              {[by |-> w, hash |-> snap(w).hash, status |-> snap(w).status]}
        /\ row[doc(w)].here /\ row[doc(w)].status = "active"
        /\ snap(w).hash = row[doc(w)].hash /\ snap(w).status = "active"
    BY <1>1, <1>3 DEF Put, At, Ready
  <2>3. MadeFrom(points'[doc(w)], row'[doc(w)])
    BY <1>0, <2>2 DEF MadeFrom
  <2> QED BY <1>0, <1>1, <2>1, <2>2, <2>3, OnwardTruth
<1>4. CASE Unindex(w)
  <2>1. work' = [work EXCEPT ![w] = [work[w] EXCEPT !.pc = "unflag",
                                                   !.snap = work[w].snap]]
    BY <1>4, GotoSnap DEF Unindex, IInv
  <2>2. work[w].pc = "unindex" /\ work[w].todo = {}
    BY <1>1, <1>4 DEF Unindex, At, Ready
  <2> QED BY <1>0, <1>1, <2>1, <2>2, OnwardTruth
<1> QED BY <1>2, <1>3, <1>4

LEMMA FlagsTruth ==
    ASSUME IInv, Truth, NEW w \in Worker, Flag(w) \/ Unflag(w)
    PROVE  Truth'
<1>0. work[w].pc \in {"flag", "unflag"} /\ work[w].pc \notin Free
  BY DEF Flag, Unflag, At, Free
<1>1. /\ doc(w) \in Doc /\ doc(w) = work[w].doc /\ row \in [Doc -> Row]
      /\ Ready(work[w], row, points) /\ points' = points /\ Leave(w)
  BY <1>0, HandFacts DEF Flag, Unflag
<1>2. PICK b \in BOOLEAN : SetIndexed(doc(w), b) /\ (b => work[w].pc = "flag")
  BY DEF Flag, Unflag, At
<1>3. /\ \A d \in Doc \ {doc(w)} : row'[d] = row[d]
      /\ row'[doc(w)] = [row[doc(w)] EXCEPT
                           !.indexed = IF row[doc(w)].here THEN b ELSE @]
  BY <1>1, <1>2 DEF SetIndexed
<1>4. /\ row'[doc(w)].here = row[doc(w)].here
      /\ row'[doc(w)].status = row[doc(w)].status
      /\ row'[doc(w)].hash = row[doc(w)].hash
      /\ row[doc(w)].here => row'[doc(w)].indexed = b
  BY <1>1, <1>3 DEF Row
<1>5. Truthful(doc(w), row', points')
  <2>1. b => row[doc(w)].status = "active" /\ MadeFrom(points[doc(w)], row[doc(w)])
    BY <1>1, <1>2 DEF Ready
  <2>2. MadeFrom(points[doc(w)], row[doc(w)])
           => MadeFrom(points'[doc(w)], row'[doc(w)])
    BY <1>1, <1>4 DEF MadeFrom
  <2> QED BY <1>4, <2>1, <2>2 DEF Truthful
<1>6. \A d \in Doc : row'[d].here = row[d].here /\ row'[d].status = row[d].status
  BY <1>3, <1>4
<1> QED BY <1>0, <1>1, <1>3, <1>5, <1>6, LeaveHand DEF IInv

-----------------------------------------------------------------------------

\* Whoever works through a list, or has read a row to save it, is alone.
LEMMA AloneAtWork ==
    ASSUME Truth, NEW w \in Worker, work[w].pc # "idle",
           work[w].pc \in Free \cup Writer
    PROVE  \A v \in Worker \ {w} : work[v].pc = "idle" /\ work[v].todo = {}
<1> SUFFICES ASSUME NEW v \in Worker \ {w}
             PROVE  work[v].pc = "idle" /\ work[v].todo = {}
  OBVIOUS
<1>1. work[v].pc = "idle"
  BY DEF Truth, Fits, Single
<1>2. Ready(work[v], row, points)
  BY DEF Truth
<1> QED BY <1>1, <1>2 DEF Ready

\* A worker that is alone changes its locals and the tables.
LEMMA AloneStep ==
    ASSUME Locals, NEW w \in Worker,
           \A v \in Worker \ {w} : work[v].pc = "idle" /\ work[v].todo = {},
           NEW l, work' = [work EXCEPT ![w] = l],
           Ready(l, row', points'),
           \A d \in Doc : Has(l, d) \/ Truthful(d, row', points')
    PROVE  Truth'
<1>0. work'[w] = l /\ \A v \in Worker \ {w} : work'[v] = work[v]
  BY DEF Locals
<1>1. ASSUME NEW v \in Worker PROVE Ready(work[v], row, points)'
  <2>1. CASE v = w
    BY <1>0, <2>1
  <2>2. CASE v # w
    <3>1. Ready(work[v], row', points')
      BY <2>2, IdleReady
    <3> QED BY <1>0, <2>2, <3>1
  <2> QED BY <2>1, <2>2
<1>2. \A u, v \in Worker : u # v => Fits(work[u], work[v])'
  BY <1>0 DEF Fits
<1>3. ASSUME NEW d \in Doc, \A v \in Worker : ~Has(work'[v], d)
      PROVE  Truthful(d, row', points')
  BY <1>0, <1>3
<1>4. \A d \in Doc : (\A v \in Worker : ~Has(work[v], d)') => Truthful(d, row, points)'
  BY <1>3
<1> QED BY <1>1, <1>2, <1>4 DEF Truth

\* While somebody works through a list no document is at hand.
LEMMA AllTruthful ==
    ASSUME Truth, NEW w \in Worker, work[w].pc \in Free,
           \A v \in Worker \ {w} : work[v].pc = "idle"
    PROVE  \A d \in Doc : Truthful(d, row, points)
<1>1. \A d \in Doc, v \in Worker : ~Has(work[v], d)
  BY DEF Has, Free
<1> QED BY <1>1 DEF Truth

LEMMA NextDocTruth ==
    ASSUME IInv, Truth, NEW w \in Worker, NextDoc(w)
    PROVE  Truth'
<1>0. /\ work[w].pc = "next" /\ work[w].pc \in Free /\ row' = row
      /\ points' = points /\ work[w] \in Local /\ Locals
  BY DEF NextDoc, At, Free, IInv, Locals
<1>1. \A v \in Worker \ {w} : work[v].pc = "idle" /\ work[v].todo = {}
  BY <1>0, AloneAtWork
<1>2. \A d \in Doc : Truthful(d, row, points)
  BY <1>0, <1>1, AllTruthful
<1>3. PICK d \in work[w].todo :
        work' = [work EXCEPT ![w].todo = @ \ {d}, ![w].doc = d, ![w].pc = "get"]
  BY DEF NextDoc
<1> DEFINE l == [work[w] EXCEPT !.todo = work[w].todo \ {d}, !.doc = d, !.pc = "get"]
<1>4. /\ l.pc = "get" /\ l.doc = d /\ l.todo = work[w].todo \ {d}
      /\ work' = [work EXCEPT ![w] = l]
  BY <1>0, <1>3 DEF Local, Locals
<1>5. \A c \in work[w].todo : row[c].here /\ row[c].status = "active"
  BY <1>0 DEF Truth, Ready
<1>6. Ready(l, row', points')
  <2> HIDE DEF l
  <2> QED BY <1>0, <1>4, <1>5 DEF Ready, Writer
<1>7. \A c \in Doc : Has(l, c) \/ Truthful(c, row', points')
  BY <1>0, <1>2
<1> HIDE DEF l
<1> QED BY <1>0, <1>1, <1>4, <1>6, <1>7, AloneStep

\* An element of a list is dealt with: its row may change its status to
\* active, or nothing that the index depends on.
LEMMA TickTruth ==
    ASSUME IInv, Truth, NEW w \in Worker, work[w].pc \in {"approve", "annotate"},
           NEW e \in work[w].left, Tick(w, e), points' = points,
           \A d \in Doc : /\ row'[d].here = row[d].here
                          /\ row'[d].hash = row[d].hash
                          /\ row'[d].indexed = row[d].indexed
                          /\ row'[d].status = row[d].status \/ row'[d].status = "active",
           work[w].pc = "approve" /\ row[e[1]].here => row'[e[1]].status = "active"
    PROVE  Truth'
<1>0. /\ work[w].pc \in Free /\ work[w].pc # "idle" /\ work[w] \in Local /\ Locals
      /\ Ready(work[w], row, points) /\ work[w].todo \subseteq Doc
  BY DEF Free, IInv, Locals, Local, Truth
<1>1. \A v \in Worker \ {w} : work[v].pc = "idle" /\ work[v].todo = {}
  BY <1>0, AloneAtWork
<1>2. \A d \in Doc : Truthful(d, row, points)
  BY <1>0, <1>1, AllTruthful
<1> DEFINE l == [work[w] EXCEPT !.left = @ \ {e},
                    !.pc = IF work[w].left = {e} THEN "next" ELSE @]
<1>3. /\ l.pc = IF work[w].left = {e} THEN "next" ELSE work[w].pc
      /\ l.left = work[w].left \ {e} /\ l.todo = work[w].todo
  BY <1>0 DEF Local
<1>4. work' = [work EXCEPT ![w] = l]
  BY DEF Tick
<1> HIDE DEF l
<1>5. ASSUME NEW d \in work[w].todo
      PROVE  /\ row'[d].here
             /\ \/ row'[d].status = "active"
                \/ l.pc = "approve" /\ \E f \in l.left : f[1] = d
  <2>1. /\ row[d].here /\ d \in Doc
        /\ \/ row[d].status = "active"
           \/ work[w].pc = "approve" /\ \E f \in work[w].left : f[1] = d
    BY <1>0 DEF Ready
  <2>2. CASE row[d].status = "active" \/ (work[w].pc = "approve" /\ e[1] = d)
    BY <2>1, <2>2
  <2>3. CASE work[w].pc = "approve" /\ \E f \in work[w].left \ {e} : f[1] = d
    BY <1>3, <2>1, <2>3
  <2> QED BY <2>1, <2>2, <2>3
<1>6. Ready(l, row', points')
  BY <1>3, <1>5 DEF Ready, Writer
<1>7. ASSUME NEW d \in Doc PROVE Truthful(d, row', points')
  BY <1>2 DEF Truthful, MadeFrom
<1> QED BY <1>0, <1>1, <1>4, <1>6, <1>7, AloneStep

LEMMA ListsTruth ==
    ASSUME IInv, Truth, NEW w \in Worker, ApproveNext(w) \/ Annotate(w)
    PROVE  Truth'
<1>0. row \in [Doc -> Row] /\ work[w] \in Local
  BY DEF IInv, Rows, Locals
<1>1. CASE ApproveNext(w)
  <2>1. PICK e \in work[w].left : SetStatus(e[1], "active") /\ Tick(w, e)
    BY <1>1 DEF ApproveNext
  <2>2. e[1] \in Doc
    BY <1>0 DEF Local
  <2>3. /\ \A d \in Doc \ {e[1]} : row'[d] = row[d]
        /\ row'[e[1]] = [row[e[1]] EXCEPT
                           !.status = IF row[e[1]].here THEN "active" ELSE @]
    BY <1>0, <2>1, <2>2 DEF SetStatus
  <2>4. /\ row'[e[1]].here = row[e[1]].here /\ row'[e[1]].hash = row[e[1]].hash
        /\ row'[e[1]].indexed = row[e[1]].indexed
        /\ row'[e[1]].status = IF row[e[1]].here THEN "active" ELSE row[e[1]].status
    BY <1>0, <2>2, <2>3 DEF Row
  <2> QED BY <1>1, <2>1, <2>3, <2>4, TickTruth DEF ApproveNext, At
<1>2. CASE Annotate(w)
  <2>1. PICK e \in work[w].left : UpdateClassification(e[1], e[2].hash) /\ Tick(w, e)
    BY <1>2 DEF Annotate
  <2>2. e[1] \in Doc
    BY <1>0 DEF Local
  <2>3. \A d \in Doc : /\ row'[d].here = row[d].here /\ row'[d].hash = row[d].hash
                       /\ row'[d].indexed = row[d].indexed
                       /\ row'[d].status = row[d].status
    BY <1>0, <2>1, <2>2 DEF UpdateClassification, Row
  <2> QED BY <1>2, <2>1, <2>3, TickTruth DEF Annotate, At
<1> QED BY <1>1, <1>2

-----------------------------------------------------------------------------

\* Nobody is at work: every flag tells the truth.
LEMMA QuietTruth ==
    ASSUME Truth, Quiet, NEW w \in Worker
    PROVE  /\ \A v \in Worker : work[v].pc = "idle" /\ work[v].todo = {}
           /\ \A d \in Doc : Truthful(d, row, points)
<1>1. \A v \in Worker : work[v].pc = "idle" /\ work[v].todo = {}
  BY DEF Truth, Quiet, At, Ready
<1> QED BY <1>1, AllTruthful DEF Free

\* Two goroutines start where nobody was at work.
LEMMA TwoStart ==
    ASSUME Locals, NEW w \in Worker, NEW v \in Worker, v # w,
           \A u \in Worker : work[u].pc = "idle" /\ work[u].todo = {},
           NEW l, NEW m, work' = [work EXCEPT ![w] = l, ![v] = m],
           Ready(l, row', points'), Ready(m, row', points'),
           Single(l), Single(m), l.doc # m.doc \/ Undo(l, m),
           \A d \in Doc : Has(l, d) \/ Has(m, d) \/ Truthful(d, row', points')
    PROVE  Truth'
<1>0. /\ work'[w] = l /\ work'[v] = m
      /\ \A u \in Worker \ {w, v} : work'[u] = work[u]
  BY DEF Locals
<1>1. ASSUME NEW u \in Worker PROVE Ready(work'[u], row', points')
  <2>1. CASE u \notin {w, v}
    <3>1. Ready(work[u], row', points')
      BY IdleReady
    <3> QED BY <1>0, <2>1, <3>1
  <2> QED BY <1>0, <2>1
<1>2. \A u \in Worker : Ready(work[u], row, points)'
  BY <1>1
<1>3. \A t, u \in Worker : t # u => Fits(work[t], work[u])'
  <2>1. Fits(l, m) /\ Fits(m, l)
    BY DEF Fits
  <2>2. ASSUME NEW t \in Worker, NEW u \in Worker, t # u
        PROVE  Fits(work'[t], work'[u])
    <3>1. CASE t \notin {w, v} \/ u \notin {w, v}
      BY <1>0, <3>1 DEF Fits
    <3>2. CASE t \in {w, v} /\ u \in {w, v}
      BY <1>0, <2>1, <2>2, <3>2
    <3> QED BY <3>1, <3>2
  <2> QED BY <2>2
<1>4. ASSUME NEW d \in Doc, \A u \in Worker : ~Has(work'[u], d)
      PROVE  Truthful(d, row', points')
  BY <1>0, <1>4
<1>5. \A d \in Doc : (\A u \in Worker : ~Has(work[u], d)') => Truthful(d, row, points)'
  BY <1>4
<1> QED BY <1>2, <1>3, <1>5 DEF Truth

\* What the locals of an operation that has just started are.
LEMMA StartLocals ==
    /\ Idle.todo = {} /\ Idle.doc = NoDoc
    /\ \A pc, d : LET l == [Idle EXCEPT !.pc = pc, !.doc = d]
                  IN  l.pc = pc /\ l.doc = d /\ l.todo = {}
    /\ \A pc, T, L : LET l == [Idle EXCEPT !.pc = pc, !.todo = T, !.left = L]
                     IN  l.pc = pc /\ l.todo = T /\ l.left = L
    /\ \A T : LET l == [Idle EXCEPT !.pc = "next", !.todo = T]
              IN  l.pc = "next" /\ l.todo = T
BY DEF Idle

LEMMA ReadTruth ==
    ASSUME IInv, Truth, OneByOne, NEW w \in Worker, NEW op \in Writer, NEW d \in Doc,
           NEW h \in Content, Read(w, op, d, h)
    PROVE  Truth'
<1> DEFINE l == [Idle EXCEPT !.pc = op, !.doc = d, !.snap = row[d], !.hash = h]
<1>1. /\ \A v \in Worker : work[v].pc = "idle" /\ work[v].todo = {}
      /\ \A c \in Doc : Truthful(c, row, points)
  BY QuietTruth DEF Read, MayStart, OneByOne
<1>2. /\ l.pc = op /\ l.doc = d /\ l.snap = row[d] /\ l.todo = {}
      /\ work' = [work EXCEPT ![w] = l] /\ row' = row /\ points' = points
  BY DEF Read, Idle
<1>3. op # "collect" /\ (op = "fill" => row[d].here)
  BY DEF Read, Takes, OneByOne
<1>4. Ready(l, row', points')
  <2> HIDE DEF l
  <2> QED BY <1>1, <1>2, <1>3 DEF Ready, Writer
<1> HIDE DEF l
<1> QED BY <1>1, <1>2, <1>4, AloneStep DEF IInv

LEMMA ChangeStatusTruth ==
    ASSUME IInv, Truth, OneByOne, NEW w \in Worker, NEW d \in Doc, NEW s \in Status,
           ChangeStatus(w, d, s)
    PROVE  Truth'
<1> DEFINE l == [Idle EXCEPT !.pc = IF s = "active" THEN "get" ELSE "unindex",
                             !.doc = d]
           m == [Idle EXCEPT !.pc = "outdate", !.doc = Replaces[d]]
<1>1. /\ \A v \in Worker : work[v].pc = "idle" /\ work[v].todo = {}
      /\ \A c \in Doc : Truthful(c, row, points)
  BY QuietTruth DEF ChangeStatus, MayStart, OneByOne
<1>2. /\ l.pc = IF s = "active" THEN "get" ELSE "unindex"
      /\ l.doc = d /\ l.todo = {}
      /\ m.pc = "outdate" /\ m.doc = Replaces[d] /\ m.todo = {}
  BY StartLocals
<1>3. /\ points' = points
      /\ \A c \in Doc \ {d} : row'[c] = row[c]
      /\ row'[d].status = s
  BY DEF ChangeStatus, SetStatus, IInv, Rows, Row
<1>4. \A c \in Doc \ {d} : Truthful(c, row', points')
  BY <1>1, <1>3 DEF Truthful
<1>5. Has(l, d) /\ Single(l)
  BY <1>2 DEF Has, Free, Writer, Single
<1>6. Ready(l, row', points')
  <2> HIDE DEF l, m
  <2> QED BY <1>2, <1>3 DEF Ready, Writer
<1>7. CASE s = "active" /\ Replaces[d] # NoDoc
  <2>1. PICK v \in Worker \ {w} : work' = [work EXCEPT ![w] = l, ![v] = m]
    BY <1>7 DEF ChangeStatus
  <2>2. Replaces[d] \in Doc \ {d}
    BY <1>7, DocumentIndexAssumption DEF OneByOne
  <2> HIDE DEF l, m
  <2>3. Ready(m, row', points') /\ Single(m)
    BY <1>2, <1>4, <2>2 DEF Ready, Writer, Single, Free
  <2> QED BY <1>1, <1>2, <1>4, <1>5, <1>6, <2>1, <2>2, <2>3, TwoStart DEF IInv
<1>8. CASE ~(s = "active" /\ Replaces[d] # NoDoc)
  <2>1. work' = [work EXCEPT ![w] = l]
    BY <1>8 DEF ChangeStatus
  <2> HIDE DEF l, m
  <2> QED BY <1>1, <1>4, <1>5, <1>6, <2>1, AloneStep DEF IInv
<1> QED BY <1>7, <1>8

LEMMA DeindexTruth ==
    ASSUME IInv, Truth, OneByOne, NEW w \in Worker, NEW d \in Doc, Deindex(w, d)
    PROVE  Truth'
<1> DEFINE l == [Idle EXCEPT !.pc = "unindex", !.doc = d]
<1>1. /\ \A v \in Worker : work[v].pc = "idle" /\ work[v].todo = {}
      /\ \A c \in Doc : Truthful(c, row, points)
  BY QuietTruth DEF Deindex, MayStart, OneByOne
<1>2. /\ l.pc = "unindex" /\ l.todo = {} /\ work' = [work EXCEPT ![w] = l]
      /\ row' = row /\ points' = points
  BY StartLocals DEF Deindex
<1> HIDE DEF l
<1>3. Ready(l, row', points')
  BY <1>2 DEF Ready, Writer
<1> QED BY <1>1, <1>2, <1>3, AloneStep DEF IInv

LEMMA DeleteTruth ==
    ASSUME IInv, Truth, OneByOne, NEW w \in Worker, NEW d \in Doc, Delete(w, d)
    PROVE  Truth'
<1> DEFINE l == [Idle EXCEPT !.pc = "delete", !.doc = d]
           m == [Idle EXCEPT !.pc = "unindex", !.doc = d]
<1>1. /\ \A v \in Worker : work[v].pc = "idle" /\ work[v].todo = {}
      /\ \A c \in Doc : Truthful(c, row, points)
  BY QuietTruth DEF Delete, MayStart, OneByOne
<1>2. /\ l.pc = "delete" /\ l.doc = d /\ l.todo = {}
      /\ m.pc = "unindex" /\ m.doc = d /\ m.todo = {}
      /\ row' = row /\ points' = points
  BY StartLocals DEF Delete
<1>3. PICK v \in Worker \ {w} : work' = [work EXCEPT ![w] = l, ![v] = m]
  BY DEF Delete
<1> HIDE DEF l, m
<1>4. /\ Ready(l, row', points') /\ Ready(m, row', points')
      /\ Single(l) /\ Single(m) /\ Undo(l, m)
  BY <1>2 DEF Ready, Writer, Free, Single, Undo
<1> QED BY <1>1, <1>2, <1>3, <1>4, TwoStart DEF IInv

LEMMA BatchedTruth ==
    ASSUME IInv, Truth, OneByOne, NEW w \in Worker, NEW pc \in {"approve", "annotate"},
           NEW listed \in SUBSET Doc, Batched(w, pc, listed),
           \A d \in listed : /\ row[d].here
                             /\ row[d].status = "active" \/ pc = "approve"
    PROVE  Truth'
<1> DEFINE L == {<<d, row[d]>> : d \in listed}
           l == [Idle EXCEPT !.pc = pc, !.todo = listed, !.left = L]
<1>1. /\ \A v \in Worker : work[v].pc = "idle" /\ work[v].todo = {}
      /\ \A c \in Doc : Truthful(c, row, points)
  BY QuietTruth DEF Batched, MayStart, OneByOne
<1>2. /\ l.pc = pc /\ l.todo = listed /\ l.left = L
      /\ work' = [work EXCEPT ![w] = l]
      /\ row' = row /\ points' = points
  BY StartLocals DEF Batched
<1>3. ASSUME NEW d \in listed PROVE \E e \in L : e[1] = d
  <2>1. <<d, row[d]>> \in L /\ <<d, row[d]>>[1] = d
    OBVIOUS
  <2> HIDE DEF L
  <2> QED BY <2>1
<1> HIDE DEF l, L
<1>4. Ready(l, row', points')
  BY <1>2, <1>3 DEF Ready, Writer
<1> QED BY <1>1, <1>2, <1>4, AloneStep DEF IInv

LEMMA IndexTruth ==
    ASSUME IInv, Truth, OneByOne, NEW w \in Worker, NEW listed \in SUBSET List("active"),
           Quiet, StartIndexing(w, listed)
    PROVE  Truth'
<1> DEFINE l == [Idle EXCEPT !.pc = "next", !.todo = listed]
<1>1. /\ \A v \in Worker : work[v].pc = "idle" /\ work[v].todo = {}
      /\ \A c \in Doc : Truthful(c, row, points)
  BY QuietTruth
<1>2. /\ l.pc = "next" /\ l.todo = listed /\ work' = [work EXCEPT ![w] = l]
      /\ row' = row /\ points' = points
  BY StartLocals DEF StartIndexing
<1>3. \A d \in listed : row[d].here /\ row[d].status = "active"
  BY DEF List
<1> HIDE DEF l
<1>4. Ready(l, row', points')
  BY <1>2, <1>3 DEF Ready, Writer
<1> QED BY <1>1, <1>2, <1>4, AloneStep DEF IInv

-----------------------------------------------------------------------------

LEMMA InductiveTruth ==
    ASSUME OneByOne
    PROVE  IInv /\ (faults = 0 => Truth) /\ [Next]_vars => (faults = 0 => Truth)'
<1> SUFFICES ASSUME IInv, faults = 0 => Truth, [Next]_vars, faults' = 0
             PROVE  Truth'
  OBVIOUS
<1>1. ASSUME Fault PROVE FALSE
  BY <1>1 DEF Fault, IInv, Counters
<1>2. ASSUME NEW w \in Worker, Works(w), Truth PROVE Truth'
  BY <1>2, SaveTruth, OutdateTruth, DeleteRowTruth, ListsTruth, NextDocTruth,
     GetTruth, ClassifyTruth, PointsTruth, FlagsTruth DEF Works
<1>3. ASSUME NEW w \in Worker, Starts(w), Truth PROVE Truth'
  <2>1. ASSUME ApproveAll(w) PROVE Truth'
    <3>1. /\ List("pending") \in SUBSET Doc
          /\ \A d \in List("pending") : row[d].here
      BY DEF List
    <3> QED BY <1>3, <2>1, <3>1, BatchedTruth DEF ApproveAll
  <2>2. ASSUME EnrichList(w) PROVE Truth'
    <3>1. PICK listed \in SUBSET ListNeedingEnrichment :
            Batched(w, "annotate", listed)
      BY <2>2 DEF EnrichList
    <3>2. /\ listed \in SUBSET Doc
          /\ \A d \in listed : row[d].here /\ row[d].status = "active"
      BY DEF ListNeedingEnrichment, List
    <3> QED BY <1>3, <3>1, <3>2, BatchedTruth
  <2>3. ASSUME ReindexActive(w) PROVE Truth'
    BY <1>3, <2>3, IndexTruth DEF ReindexActive, MayStart, OneByOne
  <2> QED BY <1>3, <2>1, <2>2, <2>3, ReadTruth, ChangeStatusTruth, DeindexTruth,
     DeleteTruth DEF Starts
<1>4. ASSUME NEW w \in Worker, IndexActive(w), Truth PROVE Truth'
  <2>1. {d \in List("active") : ~row[d].indexed} \in SUBSET List("active")
    OBVIOUS
  <2> QED BY <1>4, <2>1, IndexTruth DEF IndexActive, OneByOne
<1>5. CASE UNCHANGED vars
  BY <1>5 DEF vars, Truth
<1>6. ASSUME NEW w \in Worker, Works(w) \/ Starts(w) \/ IndexActive(w)
      PROVE  UNCHANGED faults
  BY <1>6 DEF Works, Save, Outdate, DeleteRow, ApproveNext, Annotate, NextDoc, Get,
     Classify, Clear, Put, Flag, Unindex, Unflag, Starts, Read, ChangeStatus,
     Deindex, Delete, ApproveAll, EnrichList, ReindexActive, Batched,
     StartIndexing, IndexActive
<1> QED BY <1>1, <1>2, <1>3, <1>4, <1>5, <1>6 DEF Next, CallFails, Crash

\* Where operations follow one another and none fails, the flag "indexed" of a
\* document at rest tells the truth (rag.go, IndexDocument and RemoveDocument):
\* one batch of points, of its present body and status.  The panel's collector
\* is left out because it keeps the flag of a row whose body it replaces.
THEOREM FlagTellsTheTruth == OneByOne => (Spec => []IndexedMeansCurrent)
<1> SUFFICES ASSUME OneByOne PROVE Spec => []IndexedMeansCurrent
  OBVIOUS
<1>1. Init => (faults = 0 => Truth)
  <2> SUFFICES ASSUME Init PROVE Truth
    OBVIOUS
  <2>1. /\ \A w \in Worker : work[w] = Idle
        /\ \A d \in Doc : Truthful(d, row, points)
    BY DEF Init, Truthful, NoRow
  <2>2. Idle.pc = "idle" /\ Idle.todo = {}
    BY DEF Idle
  <2>3. Ready(Idle, row, points)
    BY <2>2, IdleReady
  <2> QED BY <2>1, <2>2, <2>3 DEF Truth, Fits
<1>2. (faults = 0 => Truth) => IndexedMeansCurrent
  <2> SUFFICES ASSUME Truth, Quiet, NEW d \in Doc, row[d].here, row[d].indexed
               PROVE  \E b \in points[d] : points[d] = {b} /\ b.hash = row[d].hash
                                             /\ b.status = row[d].status
    BY DEF IndexedMeansCurrent
  <2>1. Truthful(d, row, points)
    BY DEF Truth, Quiet, At, Has, Free
  <2> QED BY <2>1 DEF Truthful, MadeFrom
<1> QED BY <1>1, <1>2, InitIInv, NextIInv, InductiveTruth, PTL DEF Spec
=============================================================================
