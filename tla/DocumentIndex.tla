---------------------------- MODULE DocumentIndex ----------------------------
(***************************************************************************)
(* The registry of documents (common/store/postgres_store.go) and their    *)
(* fragments in the vector index (rag_service/rag.go), kept in step by     *)
(* whoever has business with a document: the scraper, the catalogue and    *)
(* the download of bodies by cookie, the job that annotates documents, the *)
(* pipeline's indexing of what is active, and the handlers of the admin    *)
(* panel with the goroutines they start.                                   *)
(*                                                                         *)
(* Each of them is a worker that reads the row, goes away to the network   *)
(* or to Qdrant, and writes: one call to a store is one step.  A call may  *)
(* fail and a worker may die between any two steps.                        *)
(***************************************************************************)
EXTENDS Integers, FiniteSets

CONSTANTS
    Doc,
    Published,      \* documents active from birth: news, local files, sections
                    \* of the site that state requirements
    Content,        \* hashes of bodies and of catalogue entries
    Worker,
    NoDoc, NoContent,
    Never,          \* the hash of the annotation of a document without one
    Replaces,       \* the document that a document supersedes, or NoDoc
    HasClassifier,  \* is a classifier connected to the index service
    HasCollector,   \* is there a Chrome, for the panel's collector
    AutoApprove,    \* the collector's setting
    Serial,         \* bound: an operation starts only when nobody is at work
    MaxOps,         \* bound: operations started, the pipeline's not counted
    MaxFaults       \* bound: failed calls and deaths of processes

ASSUME DocumentIndexAssumption ==
    /\ Published \subseteq Doc
    /\ NoDoc \notin Doc /\ NoContent \notin Content
    /\ Never \notin Content \cup {NoContent}
    /\ Replaces \in [Doc -> Doc \cup {NoDoc}]
    /\ {HasClassifier, HasCollector, AutoApprove, Serial} \subseteq BOOLEAN
    /\ MaxOps \in Nat /\ MaxFaults \in Nat

Status   == {"pending", "active", "outdated"}
Category == {"none", "named"}
Hash     == Content \cup {NoContent}

Row == [here : BOOLEAN, status : Status, hash : Hash, category : Category,
        annotated : Hash \cup {Never}, indexed : BOOLEAN]

NoRow == [here |-> FALSE, status |-> "pending", hash |-> NoContent,
          category |-> "none", annotated |-> Never, indexed |-> FALSE]

\* A batch of points in Qdrant.  Identifiers are fresh, so two workers that
\* index one document leave two batches.
Batch == [by : Worker, hash : Hash, status : Status]

VARIABLES
    row,        \* table documents
    points,     \* batches of points of each document
    work,       \* local variables of each worker
    approved,   \* history: the bodies of a document an admin has approved
    ops,        \* history: operations started
    faults      \* history: failures so far

vars == <<row, points, work, approved, ops, faults>>

\* What reads a row, goes away, and saves it.
Writer == {"scrape", "publish", "attach", "fill", "collect", "patch"}

PcLabel == Writer \cup {"idle", "delete", "approve", "annotate", "next", "get",
                        "classify", "clear", "put", "flag", "unindex",
                        "unflag", "outdate"}

(* doc: the document at hand; snap: its row as it was read; hash: the body  *)
(* that was fetched; todo: documents still to be indexed; left: what of     *)
(* these is still to be approved or annotated, as it was listed.            *)
Local == [pc : PcLabel, doc : Doc \cup {NoDoc}, snap : Row, hash : Hash,
          todo : SUBSET Doc, left : SUBSET (Doc \X Row)]

Idle == [pc |-> "idle", doc |-> NoDoc, snap |-> NoRow, hash |-> NoContent,
         todo |-> {}, left |-> {}]

TypeOK ==
    /\ row \in [Doc -> Row]
    /\ points \in [Doc -> SUBSET Batch]
    /\ work \in [Worker -> Local]
    /\ approved \in [Doc -> SUBSET Hash]
    /\ ops \in 0..MaxOps
    /\ faults \in 0..MaxFaults

Init ==
    /\ row = [d \in Doc |-> NoRow]
    /\ points = [d \in Doc |-> {}]
    /\ work = [w \in Worker |-> Idle]
    /\ approved = [d \in Doc |-> {}]
    /\ ops = 0 /\ faults = 0

At(w, label) == work[w].pc = label
doc(w)  == work[w].doc
snap(w) == work[w].snap

Quiet == \A w \in Worker : At(w, "idle")

\* A worker takes up an operation of the environment.
MayStart(w) ==
    /\ At(w, "idle")
    /\ Serial => Quiet
    /\ ops < MaxOps
    /\ ops' = ops + 1

Goto(w, pc) == work' = [work EXCEPT ![w].pc = pc]

\* The document at hand is done with; the rest of the batch comes next.
Leave(w) ==
    work' = [work EXCEPT ![w] =
               IF work[w].todo = {} THEN Idle
               ELSE [Idle EXCEPT !.todo = work[w].todo, !.pc = "next"]]

\* One element of a batch is dealt with; after the last, indexing.
Tick(w, e) ==
    work' = [work EXCEPT ![w].left = @ \ {e},
                         ![w].pc = IF work[w].left = {e} THEN "next" ELSE @]

-----------------------------------------------------------------------------
(* The registry: each of these is one statement.                           *)

\* Every column is overwritten, but for those of the annotation.
Upsert(d, r) ==
    row' = [row EXCEPT ![d] = [r EXCEPT !.here = TRUE,
                                        !.annotated = row[d].annotated]]

\* UPDATE ... WHERE id; without the row it is ErrNotFound and changes nothing.
SetStatus(d, s) ==
    row' = [row EXCEPT ![d].status = IF row[d].here THEN s ELSE @]
SetIndexed(d, b) ==
    row' = [row EXCEPT ![d].indexed = IF row[d].here THEN b ELSE @]
MutUpdateClassification(d, h) ==     \* the arguments of the call swapped
    row' = IF row[d].here
           THEN [row EXCEPT ![d].category = "named", ![d].annotated = "named"]
           ELSE row
UpdateClassification(d, h) ==
    row' = IF row[d].here
           THEN [row EXCEPT ![d].category = "named", ![d].annotated = h]
           ELSE row

List(s) == {d \in Doc : row[d].here /\ row[d].status = s}
ListNeedingEnrichment == {d \in List("active") : row[d].annotated # row[d].hash}

NewRow(s, h, c) == [NoRow EXCEPT !.here = TRUE, !.status = s, !.hash = h,
                                 !.category = c]

-----------------------------------------------------------------------------
(* Collecting.                                                             *)

Unless(known, h) == ~(known.here /\ known.hash = h)

\* What is read and fetched before a row is saved, and when nothing follows.
Takes(op, d, h) ==
    CASE op = "scrape"  -> d \notin Published /\ Unless(row[d], h)
      [] op = "publish" -> d \in Published /\ Unless(row[d], h)
      [] op = "attach"  -> d \notin Published
      [] op = "fill"    -> row[d].here
      [] op = "collect" -> HasCollector /\ d \notin Published
      [] op = "patch"   -> row[d].here \/ d \notin Published

Read(w, op, d, h) ==
    /\ Takes(op, d, h)
    /\ MayStart(w)
    /\ work' = [work EXCEPT ![w] =
                  [Idle EXCEPT !.pc = op, !.doc = d, !.snap = row[d],
                               !.hash = h]]
    /\ UNCHANGED <<row, points, approved, faults>>

\* The title, or the section, may say that a document has lost its force.
MutFirstStatus == {"active", "outdated"}      \* no approval asked
FirstStatus == {"pending", "outdated"}
CollectorStatus ==
    (IF AutoApprove THEN {"active"} ELSE {"pending"}) \cup {"outdated"}

Collected(s, t, h) ==
    IF s.here THEN [s EXCEPT !.status = t, !.hash = h, !.category = "named"]
              ELSE NewRow(t, NoContent, "named")

(* The rows a writer may save, given the row it read and the body.          *)
(*   scrape: ingestRSS and download, a fresh row whatever was there;        *)
(*   publish: news and local files;                                         *)
(*   attach: registerOneCookieDocCmd and handleUpload, a body for a row;    *)
(*   fill: EnrichMissing, the same but the flag "indexed" stays (the body   *)
(*   that it must not have yet is abstracted);                              *)
(*   collect: the panel's collector, its status replaces the row's;         *)
(*   patch: a field set in the panel, a category from the catalogue.        *)
Saved(op, s, h) ==
    CASE op = "scrape"  -> {NewRow(t, h, c) : t \in FirstStatus, c \in Category}
      [] op = "publish" -> {NewRow("active", h, "named")}
      [] op = "attach"  ->
           IF s.here THEN {[s EXCEPT !.hash = h, !.indexed = FALSE]}
           ELSE {NewRow(t, h, "named") : t \in FirstStatus}
      [] op = "fill"    -> {[s EXCEPT !.hash = h]}
      [] op = "collect" -> {Collected(s, t, h) : t \in CollectorStatus}
      [] op = "patch"   ->
           IF s.here THEN {s, [s EXCEPT !.category = "named"]}
           ELSE {NewRow(t, NoContent, c) : t \in FirstStatus, c \in Category}

\* Who indexes what it saved: a body that came to an active document, and
\* whatever is active from birth.
Indexes(op, s) ==
    \/ op = "publish"
    \/ op \in {"attach", "fill"} /\ s.here /\ s.status = "active"

Save(w) ==
    LET op == work[w].pc
    IN  /\ op \in Writer
        /\ \E r \in Saved(op, snap(w), work[w].hash) :
             /\ Upsert(doc(w), r)
             /\ approved' = IF op = "collect" /\ r.status = "active"
                            THEN [approved EXCEPT ![doc(w)] = @ \cup {r.hash}]
                            ELSE approved
        /\ IF Indexes(op, snap(w)) THEN Goto(w, "get") ELSE Leave(w)
        /\ UNCHANGED <<points, ops, faults>>

-----------------------------------------------------------------------------
(* The administrator.                                                      *)

Approve(d) ==
    approved' = [approved EXCEPT ![d] =
                   IF row[d].here THEN @ \cup {row[d].hash} ELSE @]

\* handleStatus, then syncIndex in a goroutine, and another one for the
\* document that the approved one replaces.
ChangeStatus(w, d, s) ==
    /\ row[d].here
    /\ MayStart(w)
    /\ SetStatus(d, s)
    /\ LET sync == [Idle EXCEPT !.pc = IF s = "active" THEN "get" ELSE "unindex",
                                !.doc = d]
           old  == Replaces[d]
       IN  IF s = "active" /\ old # NoDoc
           THEN \E v \in Worker \ {w} :
                  /\ At(v, "idle")
                  /\ work' = [work EXCEPT ![w] = sync, ![v] =
                                [Idle EXCEPT !.pc = "outdate", !.doc = old]]
           ELSE work' = [work EXCEPT ![w] = sync]
    /\ IF s = "active" THEN Approve(d) ELSE UNCHANGED approved
    /\ UNCHANGED <<points, faults>>

Outdate(w) ==
    /\ At(w, "outdate")
    /\ SetStatus(doc(w), "outdated")
    /\ IF row[doc(w)].here THEN Goto(w, "unindex") ELSE Leave(w)
    /\ UNCHANGED <<points, approved, ops, faults>>

\* handleDeindex.
Deindex(w, d) ==
    /\ row[d].here /\ row[d].indexed
    /\ MayStart(w)
    /\ work' = [work EXCEPT ![w] = [Idle EXCEPT !.pc = "unindex", !.doc = d]]
    /\ UNCHANGED <<row, points, approved, faults>>

\* handleDelete: one goroutine removes the points while the handler deletes.
Delete(w, d) ==
    /\ MayStart(w)
    /\ \E v \in Worker \ {w} :
         /\ At(v, "idle")
         /\ work' = [work EXCEPT ![w] = [Idle EXCEPT !.pc = "delete", !.doc = d],
                                 ![v] = [Idle EXCEPT !.pc = "unindex", !.doc = d]]
    /\ UNCHANGED <<row, points, approved, faults>>

DeleteRow(w) ==
    /\ At(w, "delete")
    /\ row' = [row EXCEPT ![doc(w)] = NoRow]
    /\ Leave(w)
    /\ UNCHANGED <<points, approved, ops, faults>>

Batched(w, pc, listed) ==
    /\ listed # {}
    /\ MayStart(w)
    /\ work' = [work EXCEPT ![w] =
                  [Idle EXCEPT !.pc = pc, !.todo = listed,
                               !.left = {<<d, row[d]>> : d \in listed}]]
    /\ UNCHANGED <<row, points, approved, faults>>

\* handleAPIApproveAll: the pending documents of one List, then their indexing.
ApproveAll(w) == Batched(w, "approve", List("pending"))

ApproveNext(w) ==
    /\ At(w, "approve")
    /\ \E e \in work[w].left :
         SetStatus(e[1], "active") /\ Approve(e[1]) /\ Tick(w, e)
    /\ UNCHANGED <<points, ops, faults>>

\* The job doc_enrich: the same with annotation, which keeps the hash of the
\* body as it was listed.  Which documents have failed too often is left open.
EnrichList(w) ==
    \E listed \in SUBSET ListNeedingEnrichment : Batched(w, "annotate", listed)

Annotate(w) ==
    /\ At(w, "annotate")
    /\ \E e \in work[w].left :
         UpdateClassification(e[1], e[2].hash) /\ Tick(w, e)
    /\ UNCHANGED <<points, approved, ops, faults>>

-----------------------------------------------------------------------------
(* The index service.                                                      *)

StartIndexing(w, listed) ==
    /\ listed # {}
    /\ work' = [work EXCEPT ![w] = [Idle EXCEPT !.pc = "next", !.todo = listed]]
    /\ UNCHANGED <<row, points, approved, faults>>

MutIndexActive(w) ==        \* the list is filtered by the wrong status
    /\ At(w, "idle")
    /\ Serial => Quiet
    /\ StartIndexing(w, {d \in List("pending") : ~row[d].indexed})
    /\ UNCHANGED ops

\* IndexActive(force = FALSE) of the pipeline, handleAPIIndex.
IndexActive(w) ==
    /\ At(w, "idle")
    /\ Serial => Quiet
    /\ StartIndexing(w, {d \in List("active") : ~row[d].indexed})
    /\ UNCHANGED ops

\* IndexActive(force = TRUE) of the command index, handleAPISync.
ReindexActive(w) == MayStart(w) /\ StartIndexing(w, List("active"))

NextDoc(w) ==
    /\ At(w, "next")
    /\ \E d \in work[w].todo :
         work' = [work EXCEPT ![w].todo = @ \ {d}, ![w].doc = d,
                              ![w].pc = "get"]
    /\ UNCHANGED <<row, points, approved, ops, faults>>

\* IndexDocument: Get.
Get(w) ==
    /\ At(w, "get")
    /\ IF row[doc(w)].here
       THEN work' = [work EXCEPT ![w].snap = row[doc(w)],
                       ![w].pc = IF HasClassifier
                                    /\ row[doc(w)].category = "none"
                                 THEN "classify" ELSE "clear"]
       ELSE Leave(w)
    /\ UNCHANGED <<row, points, approved, ops, faults>>

\* The classifier's answer is saved with the row as it was read.
Classify(w) ==
    /\ At(w, "classify")
    /\ Upsert(doc(w), [snap(w) EXCEPT !.category = "named"])
    /\ Goto(w, "clear")
    /\ UNCHANGED <<points, approved, ops, faults>>

DeleteByDocument(w) == points' = [points EXCEPT ![doc(w)] = {}]

Clear(w) ==
    /\ At(w, "clear")
    /\ DeleteByDocument(w)
    /\ Goto(w, "put")
    /\ UNCHANGED <<row, approved, ops, faults>>

\* Embeddings and the upsert of the points, with the status that was read.
Put(w) ==
    /\ At(w, "put")
    /\ points' = [points EXCEPT ![doc(w)] = @ \cup
                    {[by |-> w, hash |-> snap(w).hash,
                      status |-> snap(w).status]}]
    /\ Goto(w, "flag")
    /\ UNCHANGED <<row, approved, ops, faults>>

Flag(w) ==
    /\ At(w, "flag")
    /\ SetIndexed(doc(w), TRUE)
    /\ Leave(w)
    /\ UNCHANGED <<points, approved, ops, faults>>

\* RemoveDocument.
Unindex(w) ==
    /\ At(w, "unindex")
    /\ DeleteByDocument(w)
    /\ Goto(w, "unflag")
    /\ UNCHANGED <<row, approved, ops, faults>>

MutUnflag(w) ==             \* the points go, the flag stays
    /\ At(w, "unflag")
    /\ Leave(w)
    /\ UNCHANGED <<row, points, approved, ops, faults>>

Unflag(w) ==
    /\ At(w, "unflag")
    /\ SetIndexed(doc(w), FALSE)
    /\ Leave(w)
    /\ UNCHANGED <<points, approved, ops, faults>>

-----------------------------------------------------------------------------
(* Failures.                                                               *)

Fault == faults < MaxFaults /\ faults' = faults + 1

\* A call fails.  The error ends the work on this document, or on this element
\* of a batch; without the classifier's answer a document is indexed all the
\* same.
CallFails(w) ==
    /\ Fault
    /\ \/ work[w].pc \notin {"idle", "next", "classify", "approve", "annotate"}
          /\ Leave(w)
       \/ At(w, "classify") /\ Goto(w, "clear")
       \/ work[w].pc \in {"approve", "annotate"} /\ \E e \in work[w].left : Tick(w, e)
    /\ UNCHANGED <<row, points, approved, ops>>

\* A process dies, and with it the workers that it runs.
Crash ==
    /\ Fault
    /\ \E dead \in SUBSET {w \in Worker : ~At(w, "idle")} :
         /\ dead # {}
         /\ work' = [w \in Worker |-> IF w \in dead THEN Idle ELSE work[w]]
    /\ UNCHANGED <<row, points, approved, ops>>

-----------------------------------------------------------------------------

Works(w) ==
    \/ Save(w) \/ Outdate(w) \/ DeleteRow(w) \/ ApproveNext(w) \/ Annotate(w)
    \/ NextDoc(w) \/ Get(w) \/ Classify(w) \/ Clear(w) \/ Put(w) \/ Flag(w)
    \/ Unindex(w) \/ Unflag(w)

Starts(w) ==
    \/ \E op \in Writer, d \in Doc, h \in Content : Read(w, op, d, h)
    \/ \E d \in Doc, s \in Status : ChangeStatus(w, d, s)
    \/ \E d \in Doc : Deindex(w, d) \/ Delete(w, d)
    \/ ApproveAll(w) \/ EnrichList(w) \/ ReindexActive(w)

Next ==
    \/ \E w \in Worker : Works(w) \/ Starts(w) \/ IndexActive(w) \/ CallFails(w)
    \/ Crash

Spec == Init /\ [][Next]_vars

\* Goroutines proceed, and the scheduler goes on starting the pipeline, whose
\* IndexActive finds a worker of its own.
FairSpec ==
    /\ Spec
    /\ \A w \in Worker : WF_vars(Works(w))
    /\ WF_vars(\E w \in Worker : IndexActive(w))

-----------------------------------------------------------------------------
(* Properties.                                                             *)

\* The search returns fragments with the status "active" only, so this is what
\* keeps a document that nobody has approved out of the answers: whatever the
\* stale copies of rows that workers save over one another, a batch of points
\* is active only if an administrator has approved the document at some time
\* (news and local files need no approval).
UnapprovedNotFound ==
    \A d \in Doc \ Published : \A b \in points[d] :
        b.status = "active" => approved[d] # {}

\* While operations run one after the other and nothing fails, the flag
\* "indexed" of a document at rest tells the truth: the index holds one batch
\* of it, made from its present body and status.  It takes a save between the
\* reading and the flag, or a reset that is missing, to break it.
IndexedMeansCurrent ==
    Quiet /\ faults = 0 => \A d \in Doc :
        row[d].here /\ row[d].indexed =>
            \E b \in points[d] : points[d] = {b} /\ b.hash = row[d].hash
                                                 /\ b.status = row[d].status

\* A document that is active and not indexed will be, unless it ceases to be
\* active: neither failures nor workers who race for it leave it out for good.
ActiveGetsIndexed ==
    \A d \in Doc :
        row[d].here /\ row[d].status = "active" /\ ~row[d].indexed
            ~> \/ row[d].indexed
               \/ ~(row[d].here /\ row[d].status = "active")
=============================================================================
