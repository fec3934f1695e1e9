------------------------------ MODULE SitePages ------------------------------
(***************************************************************************)
(* The pages of the public site (sitepages): the table site_pages that the *)
(* crawler fills, their annotation by a language model, and the collection *)
(* in Qdrant where search_site_pages looks for them.                       *)
(*                                                                         *)
(* The job of the server, its two goroutines at start, the handlers of the *)
(* admin panel and the commands "sitepages ..." are workers over these     *)
(* stores.  Each lists rows, goes away to the site, to the model or to     *)
(* Qdrant, and writes later; one call to a store is one step.  Every       *)
(* crawl knows all pages that are not excluded: the order and the budget   *)
(* of the crawl are left out.                                              *)
(***************************************************************************)
EXTENDS Integers, FiniteSets

CONSTANTS
    Page,
    Excluded,     \* pages that the denylist of the crawler has come to exclude
    Content,      \* hashes of the texts that a page may have
    Dated,        \* texts whose markup gives the date of publication
    NoContent, Missing, NoPage,
    Worker,
    Tasks,        \* the tasks that a worker may take up
    Limit,        \* SitePagesEnrichMaxPerRun
    HasEnricher,  \* is the annotator configured
    MaxAttempts,  \* maxEnrichAttempts
    MaxMoves,     \* bound: changes of the site
    MaxFaults     \* bound: failed calls and deaths of processes

Task == {"job", "crawl", "index", "backfill", "enrich", "one", "edit",
         "dates", "prune"}

ASSUME SitePagesAssumption ==
    /\ IsFiniteSet(Page) /\ Excluded \subseteq Page /\ Dated \subseteq Content
    /\ NoContent \notin Content /\ Missing \notin Content \cup {NoContent}
    /\ NoPage \notin Page
    /\ Tasks \in [Worker -> SUBSET Task]
    /\ HasEnricher \in BOOLEAN
    /\ {Limit, MaxAttempts} \subseteq Nat \ {0}
    /\ MaxMoves \in Nat /\ MaxFaults \in Nat

Text == Content \cup {NoContent}
Date == {"none", "markup", "model"}     \* where the date published_at is from

\* A row.  noted is enrich_hash; note is the text that the annotation in the
\* row was in truth made from, which no column holds.
Row == [status : {"none", "active", "gone"}, text : Text, noted : Text,
        note : Text, fails : 0..MaxAttempts, date : Date]
NoRow == [status |-> "none", text |-> NoContent, noted |-> NoContent,
          note |-> NoContent, fails |-> 0, date |-> "none"]

\* What a query for pages returns of a row, and what a point holds of it.
View == [status : {"none", "active", "gone"}, text : Text, date : Date]
NoView == [status |-> "none", text |-> NoContent, date |-> "none"]
Unlisted == [p \in Page |-> NoView]

VARIABLES
    site,       \* the text of each page as the site serves it, or a 404
    row,        \* table site_pages
    age,        \* rank of each page by last_changed, 0 for the newest
    point,      \* the point of each page in Qdrant; its identifier is the URL's
    work,       \* local variables of each worker
    moves,      \* history: changes of the site
    faults      \* history: failures so far

vars == <<site, row, age, point, work, moves, faults>>

PcLabel == {"idle", "crawl", "got", "save", "gone", "enrich", "annotate",
            "recent", "drop", "put", "date", "points", "rows"}

(* todo: pages still to be handled in this phase; page, got, seen: the page *)
(* that was fetched, its text, the text that Upsert found in the row; snap: *)
(* pages as they were listed; new: rep.New + rep.Changed; died: rep.Gone    *)
(* above 0; done: pages annotated above 0; then: what follows a Reindex.    *)
Local == [pc : PcLabel, task : Task, todo : SUBSET Page, page : Page \cup {NoPage},
          got : Text \cup {Missing}, seen : Text, snap : [Page -> View],
          new : Nat, died : BOOLEAN, done : BOOLEAN, then : PcLabel]

Idle == [pc |-> "idle", task |-> "job", todo |-> {}, page |-> NoPage,
         got |-> NoContent, seen |-> NoContent, snap |-> Unlisted, new |-> 0,
         died |-> FALSE, done |-> FALSE, then |-> "idle"]

TypeOK ==
    /\ site \in [Page -> Content \cup {Missing}]
    /\ row \in [Page -> Row]
    /\ age \in [Page -> Nat]
    /\ point \in [Page -> View]
    /\ work \in [Worker -> Local]
    /\ moves \in 0..MaxMoves
    /\ faults \in 0..MaxFaults

\* Rows from before: pages of the backlog, and excluded ones that were
\* collected before the denylist grew.
Collected(c) == [NoRow EXCEPT !.status = "active", !.text = c]

Init ==
    /\ site \in [Page -> Content]
    /\ \E known \in SUBSET Page :
          row = [p \in Page |-> IF p \in known THEN Collected(site[p]) ELSE NoRow]
    /\ age \in {f \in [Page -> 0..Cardinality(Page) - 1] :
                  \A p, q \in Page : f[p] = f[q] => p = q}
    /\ point = Unlisted
    /\ work = [w \in Worker |-> Idle]
    /\ moves = 0 /\ faults = 0

-----------------------------------------------------------------------------
(* Queries and statements.                                                 *)

At(w, label) == work[w].pc = label
Quiet == \A w \in Worker : At(w, "idle")

Become(w, l) == work' = [work EXCEPT ![w] = l]
\* A phase begins; the pages listed for the phase before are forgotten.
Goto(w, label) ==
    Become(w, IF label = "idle" THEN Idle
              ELSE [work[w] EXCEPT !.pc = label, !.snap = Unlisted, !.then = "idle",
                                   !.done = FALSE])

\* The page at hand is done with.
NextPage(w, new, died) ==
    Become(w, [work[w] EXCEPT !.pc = "crawl", !.page = NoPage, !.got = NoContent,
                              !.seen = NoContent, !.new = new, !.died = died])
Skipped(w) == NextPage(w, work[w].new, work[w].died)
Counted(w) == NextPage(w, work[w].new + 1, work[w].died)

Here(p) == row[p].status # "none"
Rows == {p \in Page : Here(p)}
Active == {p \in Page : row[p].status = "active"}

\* ORDER BY last_changed DESC LIMIT n
Newest(S, n) == {p \in S : Cardinality({q \in S : age[q] < age[p]}) < n}

\* The columns of selectCols, and those of enrichSelect, which has no dates.
Full(S) == [p \in Page |-> IF p \in S THEN [status |-> row[p].status,
                                            text |-> row[p].text,
                                            date |-> row[p].date] ELSE NoView]
Bare(S) == [p \in Page |-> IF p \in S THEN [status |-> row[p].status,
                                            text |-> row[p].text,
                                            date |-> "none"] ELSE NoView]

MutNeedingEnrichment ==      \* once annotated, never again
    {p \in Active : row[p].noted = NoContent /\ row[p].fails < MaxAttempts}
ListNeedingEnrichment ==
    {p \in Active : row[p].noted # row[p].text /\ row[p].fails < MaxAttempts}
ListMissingPublished == {p \in Active : row[p].date = "none"}

Coalesce(date, other) == IF date # "none" THEN date ELSE other
MarkupDate(c) == IF c \in Dated THEN "markup" ELSE "none"

\* last_changed = now()
Changed(p) == age' = [q \in Page |-> IF q = p THEN 0
                                     ELSE IF age[q] < age[p] THEN age[q] + 1
                                     ELSE age[q]]

MutUpdateEnrichment(p, c, date) ==   \* marked with the hash the row has now
    row' = [row EXCEPT ![p].noted = row[p].text, ![p].note = c, ![p].fails = 0,
                       ![p].date = Coalesce(row[p].date, date)]
MutUpdateEnrichmentDate(p, c, date) ==     \* the arguments of COALESCE swapped
    row' = [row EXCEPT ![p].noted = c, ![p].note = c, ![p].fails = 0,
                       ![p].date = Coalesce(date, row[p].date)]
UpdateEnrichment(p, c, date) ==
    row' = IF ~Here(p) THEN row ELSE
           [row EXCEPT ![p].noted = c, ![p].note = c, ![p].fails = 0,
                       ![p].date = Coalesce(row[p].date, date)]

\* Bound: attempts are not counted past MaxAttempts.
RecordEnrichFailure(p) ==
    row' = IF Here(p) /\ row[p].fails < MaxAttempts
           THEN [row EXCEPT ![p].fails = @ + 1] ELSE row

-----------------------------------------------------------------------------
(* The site, and what a worker takes up.                                   *)

SiteChanges(p, c) ==
    /\ moves < MaxMoves /\ moves' = moves + 1
    /\ site[p] # c
    /\ site' = [site EXCEPT ![p] = c]
    /\ UNCHANGED <<row, age, point, work, faults>>

MayStart(w, task) == At(w, "idle") /\ task \in Tasks[w]

Start(w, l) ==
    /\ MayStart(w, l.task)
    /\ Become(w, l)
    /\ UNCHANGED <<site, row, age, point, moves, faults>>

\* The job "sitepages", and the command "sitepages crawl".
StartCrawl(w, task) ==
    Start(w, [Idle EXCEPT !.pc = "crawl", !.task = task,
                          !.todo = Page \ Excluded])

\* The warming up at the start of the server, and the command "index".
StartIndex(w) ==
    Start(w, [Idle EXCEPT !.pc = "drop", !.task = "index", !.snap = Full(Rows)])

\* The goroutine that annotates the backlog after the start of the server.
StartBackfill(w) ==
    HasEnricher /\ Start(w, [Idle EXCEPT !.pc = "enrich", !.task = "backfill"])

\* The command "enrich", with --all or without: it does not index.
StartEnrich(w) ==
    /\ HasEnricher
    /\ \E S \in {Active, ListNeedingEnrichment} :
          Start(w, [Idle EXCEPT !.pc = "annotate", !.task = "enrich",
                                !.todo = S \ Excluded, !.snap = Bare(S)])

\* ReannotateOne and SaveAnnotation, from the admin panel.
StartOne(w, p) ==
    /\ HasEnricher /\ Here(p) /\ p \notin Excluded
    /\ Start(w, [Idle EXCEPT !.pc = "annotate", !.task = "one",
                             !.todo = {p}, !.snap = Full({p})])

StartEdit(w, p) ==
    /\ Here(p)
    /\ Start(w, [Idle EXCEPT !.pc = "annotate", !.task = "edit",
                             !.todo = {p}, !.snap = Full({p})])

StartDates(w) ==
    Start(w, [Idle EXCEPT !.pc = "date", !.task = "dates",
                          !.todo = ListMissingPublished])

MutStartPrune(w) ==          \* the rows go before the points
    Start(w, [Idle EXCEPT !.pc = "rows", !.task = "prune",
                          !.todo = Rows \cap Excluded])
StartPrune(w) ==
    Start(w, [Idle EXCEPT !.pc = "points", !.task = "prune",
                          !.todo = Rows \cap Excluded,
                          !.snap = Full(Rows \cap Excluded)])

-----------------------------------------------------------------------------
(* The crawl: a page at a time, saved under the crawler's lock.            *)

Fetch(w, p) ==
    /\ At(w, "crawl") /\ p \in work[w].todo
    /\ Become(w, [work[w] EXCEPT !.pc = "got", !.todo = @ \ {p}, !.page = p,
                                 !.got = site[p]])
    /\ UNCHANGED <<site, row, age, point, moves, faults>>

\* 404 or 410: only the first crawler to see it changes the row.
MarkGone(w) ==
    LET p == work[w].page IN
    /\ At(w, "got") /\ work[w].got = Missing
    /\ IF row[p].status = "active"
       THEN /\ row' = [row EXCEPT ![p].status = "gone"]
            /\ Changed(p)
            /\ NextPage(w, work[w].new, TRUE)
       ELSE Skipped(w) /\ UNCHANGED <<row, age>>
    /\ UNCHANGED <<site, point, moves, faults>>

MutLook(w) ==                \* the page that reports the error is saved
    /\ At(w, "got")
    /\ Become(w, [work[w] EXCEPT !.pc = "save", !.seen = row[work[w].page].text])
    /\ UNCHANGED <<site, row, age, point, moves, faults>>

\* Upsert reads the row ...
Look(w) ==
    /\ At(w, "got") /\ work[w].got # Missing
    /\ Become(w, [work[w] EXCEPT !.pc = "save", !.seen = row[work[w].page].text])
    /\ UNCHANGED <<site, row, age, point, moves, faults>>

\* ... and inserts one, unless a second crawler has done so meanwhile,
Insert(w) ==
    LET p == work[w].page IN
    /\ At(w, "save") /\ work[w].seen = NoContent
    /\ IF Here(p) THEN Skipped(w) /\ UNCHANGED <<row, age>>
       ELSE /\ row' = [row EXCEPT ![p] = [NoRow EXCEPT
                            !.status = "active", !.text = work[w].got,
                            !.date = MarkupDate(work[w].got)]]
            /\ Changed(p) /\ Counted(w)
    /\ UNCHANGED <<site, point, moves, faults>>

\* or only notes that the page is alive and completes its date,
Touch(w) ==
    LET p == work[w].page IN
    /\ At(w, "save") /\ work[w].seen = work[w].got
    /\ row' = IF ~Here(p) THEN row ELSE
              [row EXCEPT ![p].status = "active",
                          ![p].date = Coalesce(@, MarkupDate(work[w].got))]
    /\ Skipped(w)
    /\ UNCHANGED <<site, age, point, moves, faults>>

\* or stores the new text.  The annotation stays until it is made anew, and
\* so does the count of failures.
Rewrite(w) ==
    LET p == work[w].page IN
    /\ At(w, "save") /\ work[w].seen \notin {NoContent, work[w].got}
    /\ row' = IF ~Here(p) THEN row ELSE
              [row EXCEPT ![p].status = "active", ![p].text = work[w].got,
                          ![p].date = Coalesce(MarkupDate(work[w].got), @)]
    /\ Changed(p) /\ Counted(w)
    /\ UNCHANGED <<site, point, moves, faults>>

\* The job goes on to clean the index, the command ends.
CrawlEnds(w) ==
    /\ At(w, "crawl") /\ work[w].todo = {}
    /\ Goto(w, IF work[w].task = "job" THEN "gone" ELSE "idle")
    /\ UNCHANGED <<site, row, age, point, moves, faults>>

-----------------------------------------------------------------------------
(* Indexer.Reindex of the pages that were listed.                          *)

Listing(w, snap, then) ==
    Become(w, [work[w] EXCEPT !.pc = "drop", !.snap = snap, !.then = then,
                              !.done = FALSE])

\* Pages that are gone lose their points ...
Drop(w) ==
    /\ At(w, "drop")
    /\ point' = [p \in Page |-> IF work[w].snap[p].status = "gone" THEN NoView
                                ELSE point[p]]
    /\ Become(w, [work[w] EXCEPT !.pc = "put"])
    /\ UNCHANGED <<site, row, age, moves, faults>>

\* ... and the others get one, as they were when they were listed.
Put(w) ==
    /\ At(w, "put")
    /\ point' = [p \in Page |-> IF work[w].snap[p].status = "active"
                                THEN work[w].snap[p] ELSE point[p]]
    /\ Goto(w, work[w].then)
    /\ UNCHANGED <<site, row, age, moves, faults>>

MutListGone(w) ==            \* asks for new pages where gone ones count
    /\ At(w, "gone")
    /\ IF work[w].new > 0
       THEN Listing(w, Full({p \in Page : row[p].status = "gone"}), "enrich")
       ELSE Goto(w, "enrich")
    /\ UNCHANGED <<site, row, age, point, moves, faults>>
ListGone(w) ==
    /\ At(w, "gone")
    /\ IF work[w].died
       THEN Listing(w, Full({p \in Page : row[p].status = "gone"}), "enrich")
       ELSE Goto(w, "enrich")
    /\ UNCHANGED <<site, row, age, point, moves, faults>>

\* "Доиндексируем изменённые/новые страницы": as many as were counted.
ListRecent(w) ==
    /\ At(w, "recent")
    /\ IF work[w].new > 0
       THEN Listing(w, Full(Newest(Rows, work[w].new)), "idle")
       ELSE Goto(w, "idle")
    /\ UNCHANGED <<site, row, age, point, moves, faults>>

-----------------------------------------------------------------------------
(* Annotation: EnrichBatch and what its callers do around it.              *)

\* Where the job and the backfill go when there is nothing left to annotate.
AfterEnrich(w) == IF work[w].task = "job" THEN "recent" ELSE "idle"

\* The batch of at most Limit pages; the denylist is applied to it afterwards.
ListNeeding(w) ==
    LET batch == Newest(ListNeedingEnrichment, Limit) IN
    /\ At(w, "enrich")
    /\ IF HasEnricher /\ batch # {}
       THEN Become(w, [work[w] EXCEPT !.pc = "annotate", !.done = FALSE,
                                      !.snap = Bare(batch),
                                      !.todo = batch \ Excluded])
       ELSE Goto(w, AfterEnrich(w))
    /\ UNCHANGED <<site, row, age, point, moves, faults>>

\* The model answers for the text that was listed; it may give a date, which
\* is used when the page as listed has none.  A curator gives no date.
Annotate(w, p) ==
    LET listed == work[w].snap[p] IN
    /\ At(w, "annotate") /\ p \in work[w].todo
    /\ \E guess \in {"none", "model"} :
          LET date == IF listed.date = "none" /\ work[w].task # "edit"
                      THEN guess ELSE "none" IN
          /\ UpdateEnrichment(p, listed.text, date)
          /\ Become(w, [work[w] EXCEPT
                !.todo = @ \ {p}, !.done = TRUE,
                !.snap = [@ EXCEPT ![p].date = Coalesce(listed.date, date)]])
    /\ UNCHANGED <<site, age, point, moves, faults>>

AnnotateFails(w, p) ==
    /\ At(w, "annotate") /\ p \in work[w].todo /\ work[w].task # "edit"
    /\ RecordEnrichFailure(p)
    /\ Become(w, [work[w] EXCEPT !.todo = @ \ {p}])
    /\ UNCHANGED <<site, age, point, moves, faults>>

\* A batch that gave anything is indexed, as it was listed and annotated; the
\* backfill then asks for the next, and stops at one that gave nothing.
AnnotateEnds(w) ==
    /\ At(w, "annotate") /\ work[w].todo = {}
    /\ IF work[w].done /\ work[w].task # "enrich"
       THEN Listing(w, work[w].snap,
                    CASE work[w].task = "job"      -> "recent"
                      [] work[w].task = "backfill" -> "enrich"
                      [] OTHER                     -> "idle")
       ELSE Goto(w, AfterEnrich(w))
    /\ UNCHANGED <<site, row, age, point, moves, faults>>

-----------------------------------------------------------------------------
(* Dates of the archive, and pruning.                                      *)

\* SetPublished, for a page whose markup has a date: WHERE published_at IS NULL.
FillDate(w, p) ==
    /\ At(w, "date") /\ p \in work[w].todo
    /\ row' = IF Here(p) /\ site[p] # Missing
              THEN [row EXCEPT ![p].date = Coalesce(@, MarkupDate(site[p]))]
              ELSE row
    /\ Become(w, [work[w] EXCEPT !.todo = @ \ {p}])
    /\ UNCHANGED <<site, age, point, moves, faults>>

DeletePoints(w, p) ==
    /\ At(w, "points") /\ p \in work[w].todo
    /\ point' = [point EXCEPT ![p] = NoView]
    /\ Become(w, [work[w] EXCEPT !.todo = @ \ {p}])
    /\ UNCHANGED <<site, row, age, moves, faults>>

DeleteRow(w, p) ==
    /\ At(w, "rows") /\ p \in work[w].todo
    /\ row' = [row EXCEPT ![p] = NoRow]
    /\ Become(w, [work[w] EXCEPT !.todo = @ \ {p}])
    /\ UNCHANGED <<site, age, point, moves, faults>>

\* The points are gone, the rows follow; the last page ends the command.
PhaseEnds(w) ==
    /\ work[w].pc \in {"date", "points", "rows"} /\ work[w].todo = {}
    /\ IF At(w, "points")
       THEN Become(w, [work[w] EXCEPT !.pc = "rows",
                          !.todo = {p \in Page : work[w].snap[p].status # "none"}])
       ELSE Goto(w, "idle")
    /\ UNCHANGED <<site, row, age, point, moves, faults>>

-----------------------------------------------------------------------------
(* Failures.                                                               *)

Fault == faults < MaxFaults /\ faults' = faults + 1

\* A page that cannot be fetched or saved is left out of this crawl, a page
\* whose failure cannot be recorded out of this batch; a date that cannot be
\* had is skipped; a failed listing or Reindex is skipped by the job and ends
\* every other task; a failed deletion ends the pruning.
CallFails(w) ==
    /\ Fault
    /\ \/ /\ work[w].pc \in {"crawl", "date", "annotate"}
          /\ \E p \in work[w].todo :
                Become(w, [work[w] EXCEPT !.todo = @ \ {p}])
       \/ work[w].pc \in {"got", "save"} /\ Skipped(w)
       \/ At(w, "gone") /\ Goto(w, "enrich")
       \/ At(w, "enrich") /\ Goto(w, AfterEnrich(w))
       \/ work[w].pc \in {"drop", "put"} /\ Goto(w, work[w].then)
       \/ work[w].pc \in {"recent", "points", "rows"} /\ Goto(w, "idle")
    /\ UNCHANGED <<site, row, age, point, moves>>

\* The server or a command dies with what it was doing.
Crash ==
    /\ Fault
    /\ \E lost \in SUBSET {w \in Worker : ~At(w, "idle")} :
          /\ lost # {}
          /\ work' = [w \in Worker |-> IF w \in lost THEN Idle ELSE work[w]]
    /\ UNCHANGED <<site, row, age, point, moves>>

-----------------------------------------------------------------------------
Works(w) ==
    \/ \E p \in Page : \/ Fetch(w, p) \/ Annotate(w, p) \/ AnnotateFails(w, p)
                       \/ FillDate(w, p) \/ DeletePoints(w, p) \/ DeleteRow(w, p)
    \/ MarkGone(w) \/ Look(w) \/ Insert(w) \/ Touch(w) \/ Rewrite(w)
    \/ CrawlEnds(w) \/ ListGone(w) \/ Drop(w) \/ Put(w) \/ ListNeeding(w)
    \/ AnnotateEnds(w) \/ ListRecent(w) \/ PhaseEnds(w)

Starts(w) ==
    \/ \E task \in {"job", "crawl"} : StartCrawl(w, task)
    \/ StartIndex(w) \/ StartBackfill(w) \/ StartEnrich(w)
    \/ StartDates(w) \/ StartPrune(w)
    \/ \E p \in Page : StartOne(w, p) \/ StartEdit(w, p)

Next ==
    \/ \E w \in Worker : Works(w) \/ Starts(w) \/ CallFails(w)
    \/ \E p \in Page, c \in Content \cup {Missing} : SiteChanges(p, c)
    \/ Crash

Spec == Init /\ [][Next]_vars

\* The goroutines go on, and the scheduler starts the job again and again.
FairSpec ==
    /\ Spec
    /\ \A w \in Worker : WF_vars(Works(w)) /\ SF_vars(StartCrawl(w, "job"))

-----------------------------------------------------------------------------
(* Properties.                                                             *)

\* The annotation in the row was not made from the text in the row, and there
\* are attempts left.
Stale(p) == /\ p \in Active /\ row[p].note # row[p].text
            /\ row[p].fails < MaxAttempts

\* The queue of the annotator misses nothing: whatever crawls, curators and
\* the answers of the model for older texts write over each other, a page
\* whose annotation speaks of another text than the page is queued.
StaleIsQueued == \A p \in Page : Stale(p) => p \in ListNeedingEnrichment

\* A date that the markup of the page gave is never replaced by what the
\* model makes of the text, nor is any date lost, as long as there is the row.
DateKept ==
    [][\A p \in Page :
         row[p].date # "none" /\ row'[p].status # "none" =>
             row'[p].date \in {row[p].date, "markup"}]_vars

\* There is but one worker, whose operations follow one another.
Alone == \A v, w \in Worker : v = w

\* When operations do not overlap, each point in Qdrant is of a page in the
\* table, also after a pruning that died half-way: what is in the table can
\* be found by the next pruning, an orphan never.
PointHasRow ==
    Alone => \A p \in Page : point[p] # NoView => Here(p)

\* When operations do not overlap or fail, and only the job crawls, the search
\* finds no page that the site no longer has.
DeadNotFound ==
    /\ Alone /\ faults = 0 /\ Quiet
    /\ \A w \in Worker : "crawl" \notin Tasks[w]
    => \A p \in Page : row[p].status = "gone" => point[p] = NoView

\* A page that is not excluded is annotated in the end for the text it has,
\* or the attempts are used up.
AnnotatedInTheEnd ==
    \A p \in Page \ Excluded : Stale(p) ~> ~Stale(p)
==============================================================================
