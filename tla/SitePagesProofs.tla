--------------------------- MODULE SitePagesProofs ---------------------------
(***************************************************************************)
(* Theorems about SitePages, for any number of pages, texts, workers and   *)
(* failures.  The inductive invariant IInv has three parts: what each row  *)
(* says of itself, where the worker's pages come from, and, for a single   *)
(* worker, that what it holds and what has a point is in the table.  A     *)
(* second invariant, DeadInv, follows the points of pages that are gone.   *)
(***************************************************************************)
EXTENDS SitePages, TLAPS

\* Phases in which a worker holds neither a page nor a list.
FreePc == {"idle", "crawl", "gone", "enrich", "recent", "date"}

\* The hash of an annotation is that of the text it was made from, and there
\* is no date without a row.
RowInv ==
    /\ row \in [Page -> Row]
    /\ \A p \in Page : /\ row[p].noted = row[p].note
                       /\ row[p].status = "none" => row[p].date = "none"

\* A page at hand is a page, a page to be saved has a text, and a Reindex is
\* followed by a phase that needs no list.
Placed(l) ==
    /\ l.pc \in {"got", "save"} => l.page \in Page
    /\ l.pc = "save" => l.got # Missing
    /\ l.pc \in {"drop", "put"} => l.then \in FreePc

Locals == /\ work \in [Worker -> Local]
          /\ \A w \in Worker : Placed(work[w])

\* What a worker without company holds is in the table R, and what it prunes
\* has no point in P any more.
Held(l, P, R) ==
    /\ l.pc \in {"drop", "put", "annotate"} =>
         \A p \in Page : l.snap[p].status # "none" => R[p].status # "none"
    /\ l.pc = "points" =>
         \A p \in Page : l.snap[p].status # "none" /\ p \notin l.todo => P[p] = NoView
    /\ l.pc = "rows" => \A p \in l.todo : P[p] = NoView

Pointed(P, R) == \A p \in Page : P[p] # NoView => R[p].status # "none"

Backed == Alone => /\ Pointed(point, row)
                   /\ \A w \in Worker : Held(work[w], point, row)

Rest == /\ site \in [Page -> Content \cup {Missing}]
        /\ age \in [Page -> Nat]
        /\ point \in [Page -> View]
        /\ moves \in 0..MaxMoves
        /\ faults \in 0..MaxFaults

IInv == RowInv /\ Locals /\ Backed /\ Rest

\* How every statement but the deletion of a row changes the table.
RowsGrow ==
    /\ RowInv'
    /\ \A p \in Page : /\ Here(p) => Here(p)'
                       /\ Here(p) /\ row[p].date # "none" =>
                             row'[p].date \in {row[p].date, "markup"}

-----------------------------------------------------------------------------
(* Lemmas about the local variables of a worker.                           *)

LEMMA Typed == IInv => TypeOK
BY DEF IInv, RowInv, Locals, Rest, TypeOK

LEMMA NoViewIsView == NoView \in View /\ Unlisted \in [Page -> View]
BY DEF NoView, View, Unlisted, Text, Date

LEMMA IdleIsLocal == Idle \in Local
BY NoViewIsView DEF Idle, Local, Task, PcLabel, Text

LEMMA FreeIsFine ==
    ASSUME NEW l, l.pc \in FreePc, NEW P, NEW R
    PROVE  Placed(l) /\ Held(l, P, R)
BY DEF FreePc, Placed, Held

\* A worker goes over to the local variables l.
LEMMA Replace ==
    ASSUME IInv, NEW w \in Worker, NEW l \in Local, Become(w, l), Placed(l),
           RowInv', Rest',
           Alone => Pointed(point', row') /\ Held(l, point', row')
    PROVE  IInv'
<1>1. work' \in [Worker -> Local] /\ work'[w] = l
  BY DEF IInv, Locals, Become
<1>2. \A v \in Worker : v # w => work'[v] = work[v]
  BY DEF IInv, Locals, Become
<1>3. Locals'
  BY <1>1, <1>2 DEF IInv, Locals
<1>4. ASSUME Alone
      PROVE  Pointed(point', row') /\ \A v \in Worker : Held(work'[v], point', row')
  BY <1>1, <1>4 DEF Alone
<1>5. Backed'
  BY <1>4 DEF Backed, Alone
<1> QED BY <1>3, <1>5 DEF IInv

\* ... to a phase without page and list,
LEMMA ToFree ==
    ASSUME IInv, NEW w \in Worker, NEW l \in Local, Become(w, l),
           l.pc \in FreePc, RowInv', Rest', Alone => Pointed(point', row')
    PROVE  IInv'
BY FreeIsFine, Replace

LEMMA GoFree ==
    ASSUME IInv, NEW w \in Worker, NEW label \in FreePc, Goto(w, label),
           RowInv', Rest', Alone => Pointed(point', row')
    PROVE  IInv'
<1>1. work[w] \in Local
  BY DEF IInv, Locals
<1> DEFINE m == [work[w] EXCEPT !.pc = label, !.snap = Unlisted,
                                !.then = "idle", !.done = FALSE]
<1>2. m \in Local /\ m.pc = label
  BY ONLY <1>1, NoViewIsView, label \in FreePc DEF Local, PcLabel, FreePc
<1>3. Become(w, IF label = "idle" THEN Idle ELSE m)
  BY DEF Goto
<1> HIDE DEF m
<1>4. CASE label = "idle"
  BY <1>3, <1>4, IdleIsLocal, ToFree DEF Idle, FreePc
<1>5. CASE label # "idle"
  BY <1>2, <1>3, <1>5, ToFree
<1> QED BY <1>4, <1>5

\* ... or to the next page of its crawl.
LEMMA GoOn ==
    ASSUME IInv, NEW w \in Worker, NEW n \in Nat, NEW b \in BOOLEAN,
           NextPage(w, n, b), RowInv', Rest', Alone => Pointed(point', row')
    PROVE  IInv'
<1>1. work[w] \in Local
  BY DEF IInv, Locals
<1> DEFINE m == [work[w] EXCEPT !.pc = "crawl", !.page = NoPage,
                   !.got = NoContent, !.seen = NoContent, !.new = n, !.died = b]
<1>2. m \in Local /\ m.pc = "crawl"
  BY ONLY <1>1, n \in Nat, b \in BOOLEAN DEF Local, PcLabel, Text
<1>3. Become(w, m)
  BY DEF NextPage
<1> HIDE DEF m
<1> QED BY <1>2, <1>3, ToFree DEF FreePc

\* What stays when neither table nor points change, and when the table grows.
LEMMA Unchanged ==
    ASSUME IInv, UNCHANGED <<row, point>>
    PROVE  RowInv' /\ RowsGrow /\ (Alone => Pointed(point', row'))
BY DEF IInv, RowInv, RowsGrow, Backed, Pointed, Here

LEMMA Growing ==
    ASSUME IInv, RowsGrow, UNCHANGED point
    PROVE  RowInv' /\ (Alone => Pointed(point', row'))
BY DEF IInv, RowsGrow, Backed, Pointed, Here

\* Lists that a query returns hold rows of the table.
LEMMA Views ==
    ASSUME IInv, NEW S
    PROVE  /\ Full(S) \in [Page -> View] /\ Bare(S) \in [Page -> View]
           /\ \A p \in Page : Full(S)[p].status # "none" => Here(p)
           /\ \A p \in Page : Bare(S)[p].status # "none" => Here(p)
<1>1. \A p \in Page : row[p] \in Row
  BY DEF IInv, RowInv
<1>2. \A p \in Page : /\ row[p].status \in {"none", "active", "gone"}
                      /\ row[p].text \in Text /\ row[p].date \in Date
  BY <1>1 DEF Row
<1>3. Full(S) \in [Page -> View] /\ Bare(S) \in [Page -> View]
  BY <1>2, NoViewIsView DEF Full, Bare, View, Date
<1>4. \A p \in Page : Full(S)[p].status # "none" => Here(p)
  BY DEF Full, NoView, Here
<1>5. \A p \in Page : Bare(S)[p].status # "none" => Here(p)
  BY DEF Bare, NoView, Here
<1> QED BY <1>3, <1>4, <1>5

-----------------------------------------------------------------------------
(* What a worker takes up.                                                 *)

LEMMA StartStep ==
    ASSUME IInv, NEW w \in Worker, NEW l \in Local, Start(w, l), Placed(l),
           Alone => Held(l, point, row)
    PROVE  IInv' /\ RowsGrow
<1>1. UNCHANGED <<row, point>> /\ Rest' /\ Become(w, l)
  BY DEF Start, IInv, Rest
<1>2. RowInv' /\ RowsGrow /\ (Alone => Pointed(point', row'))
  BY <1>1, Unchanged
<1>3. Alone => Held(l, point', row')
  BY <1>1
<1> QED BY <1>1, <1>2, <1>3, Replace

LEMMA StartFree ==
    ASSUME IInv, NEW w \in Worker, NEW label \in FreePc, NEW task \in Task,
           NEW S \in SUBSET Page,
           Start(w, [Idle EXCEPT !.pc = label, !.task = task, !.todo = S])
    PROVE  IInv' /\ RowsGrow
<1> DEFINE l == [Idle EXCEPT !.pc = label, !.task = task, !.todo = S]
<1>1. l \in Local /\ l.pc = label
  BY ONLY IdleIsLocal, label \in FreePc, task \in Task, S \in SUBSET Page
     DEF Local, FreePc, PcLabel
<1>2. Start(w, l)
  OBVIOUS
<1> HIDE DEF l
<1> QED BY <1>1, <1>2, FreeIsFine, StartStep

LEMMA StartListed ==
    ASSUME IInv, NEW w \in Worker, NEW label \in {"annotate", "drop", "points"},
           NEW task \in Task, NEW S \in SUBSET Page, NEW snap \in [Page -> View],
           \A p \in Page : snap[p].status # "none" => Here(p),
           label = "points" => \A p \in Page : snap[p].status # "none" => p \in S,
           Start(w, [Idle EXCEPT !.pc = label, !.task = task, !.todo = S, !.snap = snap])
    PROVE  IInv' /\ RowsGrow
<1> DEFINE l == [Idle EXCEPT !.pc = label, !.task = task, !.todo = S, !.snap = snap]
<1>1. l \in Local /\ l.pc = label /\ l.snap = snap /\ l.todo = S /\ l.then = "idle"
  BY ONLY IdleIsLocal, label \in {"annotate", "drop", "points"}, task \in Task,
     S \in SUBSET Page, snap \in [Page -> View] DEF Local, PcLabel, Idle
<1>2. Start(w, l)
  OBVIOUS
<1> HIDE DEF l
<1>3. Placed(l)
  BY <1>1 DEF Placed, FreePc
<1>4. Held(l, point, row)
  BY <1>1 DEF Held, Here
<1> QED BY <1>1, <1>2, <1>3, <1>4, StartStep

LEMMA StartsStep ==
    ASSUME IInv, NEW w \in Worker, Starts(w)
    PROVE  IInv' /\ RowsGrow
<1>1. ASSUME NEW task \in {"job", "crawl"}, StartCrawl(w, task)
      PROVE  IInv' /\ RowsGrow
  BY <1>1, StartFree, Page \ Excluded \in SUBSET Page DEF StartCrawl, FreePc, Task
<1>2. CASE StartIndex(w)
  <2> DEFINE l == [Idle EXCEPT !.pc = "drop", !.task = "index", !.snap = Full(Rows)]
  <2>1. Full(Rows) \in [Page -> View]
        /\ \A p \in Page : Full(Rows)[p].status # "none" => Here(p)
    BY Views
  <2>2. l \in Local /\ l.pc = "drop" /\ l.snap = Full(Rows) /\ l.then = "idle"
    BY ONLY <2>1, IdleIsLocal DEF Local, PcLabel, Task, Idle
  <2>3. Start(w, l)
    BY <1>2 DEF StartIndex
  <2> HIDE DEF l
  <2>4. Placed(l) /\ Held(l, point, row)
    BY <2>1, <2>2 DEF Placed, FreePc, Held, Here
  <2> QED BY <2>2, <2>3, <2>4, StartStep
<1>3. CASE StartBackfill(w)
  <2> DEFINE l == [Idle EXCEPT !.pc = "enrich", !.task = "backfill"]
  <2>1. l \in Local /\ l.pc \in FreePc
    BY ONLY IdleIsLocal DEF Local, PcLabel, Task, FreePc
  <2>2. Start(w, l)
    BY <1>3 DEF StartBackfill
  <2> HIDE DEF l
  <2> QED BY <2>1, <2>2, FreeIsFine, StartStep
<1>4. CASE StartEnrich(w)
  <2>1. PICK S \in {Active, ListNeedingEnrichment} :
           Start(w, [Idle EXCEPT !.pc = "annotate", !.task = "enrich",
                                 !.todo = S \ Excluded, !.snap = Bare(S)])
    BY <1>4 DEF StartEnrich
  <2>2. S \ Excluded \in SUBSET Page
    BY DEF Active, ListNeedingEnrichment
  <2>3. "annotate" \in {"annotate", "drop", "points"} /\ "enrich" \in Task
    BY DEF Task
  <2> QED BY ONLY <2>1, <2>2, <2>3, IInv, w \in Worker, Views, StartListed
<1>5. ASSUME NEW p \in Page, StartOne(w, p)
      PROVE  IInv' /\ RowsGrow
  <2>1. Start(w, [Idle EXCEPT !.pc = "annotate", !.task = "one",
                              !.todo = {p}, !.snap = Full({p})])
    BY <1>5 DEF StartOne
  <2>2. {p} \in SUBSET Page /\ "annotate" \in {"annotate", "drop", "points"}
        /\ "one" \in Task
    BY DEF Task
  <2> QED BY ONLY <2>1, <2>2, IInv, w \in Worker, Views, StartListed
<1>6. ASSUME NEW p \in Page, StartEdit(w, p)
      PROVE  IInv' /\ RowsGrow
  <2>1. Start(w, [Idle EXCEPT !.pc = "annotate", !.task = "edit",
                              !.todo = {p}, !.snap = Full({p})])
    BY <1>6 DEF StartEdit
  <2>2. {p} \in SUBSET Page /\ "annotate" \in {"annotate", "drop", "points"}
        /\ "edit" \in Task
    BY DEF Task
  <2> QED BY ONLY <2>1, <2>2, IInv, w \in Worker, Views, StartListed
<1>7. CASE StartDates(w)
  <2>1. Start(w, [Idle EXCEPT !.pc = "date", !.task = "dates",
                              !.todo = ListMissingPublished])
    BY <1>7 DEF StartDates
  <2>2. ListMissingPublished \in SUBSET Page /\ "date" \in FreePc /\ "dates" \in Task
    BY DEF ListMissingPublished, Active, FreePc, Task
  <2> QED BY ONLY <2>1, <2>2, IInv, w \in Worker, StartFree
<1>8. CASE StartPrune(w)
  <2> DEFINE S == Rows \cap Excluded
  <2>1. Start(w, [Idle EXCEPT !.pc = "points", !.task = "prune",
                              !.todo = S, !.snap = Full(S)])
    BY <1>8 DEF StartPrune
  <2>2. S \in SUBSET Page /\ "points" \in {"annotate", "drop", "points"}
        /\ "prune" \in Task
    BY DEF Task, Rows
  <2>3. \A p \in Page : Full(S)[p].status # "none" => p \in S
    BY DEF Full, NoView
  <2> HIDE DEF S
  <2> QED BY ONLY <2>1, <2>2, <2>3, IInv, w \in Worker, Views, StartListed
<1> QED BY <1>1, <1>2, <1>3, <1>4, <1>5, <1>6, <1>7, <1>8 DEF Starts

-----------------------------------------------------------------------------
(* Statements.                                                             *)

LEMMA DateTypes ==
    ASSUME NEW a \in Date, NEW b \in Date, NEW c
    PROVE  /\ Coalesce(a, b) \in Date
           /\ a # "none" => Coalesce(a, b) = a
           /\ MarkupDate(c) \in Date
           /\ a # "none" => Coalesce(MarkupDate(c), a) \in {a, "markup"}
BY DEF Coalesce, MarkupDate, Date

LEMMA RowTyped ==
    ASSUME IInv, NEW p \in Page
    PROVE  /\ row[p] \in Row /\ row[p].date \in Date /\ row[p].noted = row[p].note
           /\ ~Here(p) => row[p].date = "none"
<1>1. row[p] \in Row /\ row[p].noted = row[p].note
      /\ (~Here(p) => row[p].date = "none")
  BY DEF IInv, RowInv, Here
<1> QED BY ONLY <1>1 DEF Row

\* The row of one page becomes r.
LEMMA OneRow ==
    ASSUME IInv, NEW p \in Page, NEW r \in Row, row' = [row EXCEPT ![p] = r],
           r.noted = r.note, r.status # "none",
           Here(p) /\ row[p].date # "none" => r.date \in {row[p].date, "markup"}
    PROVE  RowsGrow
<1>1. row' \in [Page -> Row] /\ row'[p] = r
      /\ \A q \in Page : q # p => row'[q] = row[q]
  BY DEF IInv, RowInv
<1>2. RowInv'
  BY <1>1 DEF IInv, RowInv
<1>3. \A q \in Page : /\ Here(q) => Here(q)'
                      /\ Here(q) /\ row[q].date # "none" =>
                            row'[q].date \in {row[q].date, "markup"}
  BY <1>1 DEF Here
<1> QED BY <1>2, <1>3 DEF RowsGrow

LEMMA NoChange == ASSUME IInv, row' = row PROVE RowsGrow
BY DEF IInv, RowInv, RowsGrow, Here

LEMMA UpdateEnrichmentGrows ==
    ASSUME IInv, NEW p \in Page, NEW c \in Text, NEW date \in Date,
           UpdateEnrichment(p, c, date)
    PROVE  RowsGrow
<1>1. CASE ~Here(p)
  BY <1>1, NoChange DEF UpdateEnrichment
<1>2. CASE Here(p)
  <2> DEFINE d == Coalesce(row[p].date, date)
             r == [row[p] EXCEPT !.noted = c, !.note = c, !.fails = 0, !.date = d]
  <2>1. row[p] \in Row /\ row[p].date \in Date /\ row[p].status # "none"
    BY <1>2, RowTyped DEF Here
  <2>2. d \in Date /\ (row[p].date # "none" => d = row[p].date)
    BY <2>1, DateTypes
  <2>5. 0 \in 0..MaxAttempts
    BY SitePagesAssumption
  <2> HIDE DEF d
  <2>3. r \in Row /\ r.noted = c /\ r.note = c /\ r.status = row[p].status /\ r.date = d
    BY ONLY <2>1, <2>2, <2>5, c \in Text DEF Row
  <2>4. row' = [row EXCEPT ![p] = r]
    BY <1>2 DEF UpdateEnrichment, d
  <2> HIDE DEF r
  <2> QED BY <2>1, <2>2, <2>3, <2>4, OneRow
<1> QED BY <1>1, <1>2

LEMMA RecordEnrichFailureGrows ==
    ASSUME IInv, NEW p \in Page, RecordEnrichFailure(p)
    PROVE  RowsGrow
<1>1. CASE ~(Here(p) /\ row[p].fails < MaxAttempts)
  BY <1>1, NoChange DEF RecordEnrichFailure
<1>2. CASE Here(p) /\ row[p].fails < MaxAttempts
  <2> DEFINE n == row[p].fails + 1
             r == [row[p] EXCEPT !.fails = n]
  <2>1. row[p] \in Row /\ row[p].noted = row[p].note /\ row[p].status # "none"
    BY <1>2, RowTyped DEF Here
  <2>2. n \in 0..MaxAttempts
    BY <1>2, <2>1, SitePagesAssumption DEF Row
  <2>3. row' = [row EXCEPT ![p] = r]
    BY <1>2 DEF RecordEnrichFailure
  <2> HIDE DEF n
  <2>4. r \in Row /\ r.noted = row[p].noted /\ r.note = row[p].note
        /\ r.status = row[p].status /\ r.date = row[p].date
    BY ONLY <2>1, <2>2 DEF Row
  <2> HIDE DEF r
  <2> QED BY <2>1, <2>3, <2>4, OneRow
<1> QED BY <1>1, <1>2

LEMMA DateGrows ==
    ASSUME IInv, NEW p \in Page, NEW date \in Date, NEW status \in {"active", "gone"},
           row' = [row EXCEPT ![p].status = status, ![p].date = date],
           row[p].date # "none" => date \in {row[p].date, "markup"}
    PROVE  RowsGrow
<1> DEFINE r == [row[p] EXCEPT !.status = status, !.date = date]
<1>1. row[p] \in Row /\ row[p].noted = row[p].note
  BY RowTyped
<1>2. r \in Row /\ r.noted = row[p].noted /\ r.note = row[p].note
      /\ r.status = status /\ r.date = date
  BY ONLY <1>1, date \in Date, status \in {"active", "gone"} DEF Row
<1>3. row' = [row EXCEPT ![p] = r]
  OBVIOUS
<1> HIDE DEF r
<1> QED BY <1>1, <1>2, <1>3, OneRow

LEMMA ChangedTyped ==
    ASSUME IInv, NEW p, Changed(p)
    PROVE  age' \in [Page -> Nat]
BY DEF IInv, Rest, Changed

-----------------------------------------------------------------------------
(* The crawl.                                                              *)

LEMMA FetchStep ==
    ASSUME IInv, NEW w \in Worker, NEW p \in Page, Fetch(w, p)
    PROVE  IInv' /\ RowsGrow
<1> DEFINE S == work[w].todo \ {p}
           l == [work[w] EXCEPT !.pc = "got", !.todo = S, !.page = p, !.got = site[p]]
<1>1. work[w] \in Local /\ site[p] \in Content \cup {Missing}
  BY DEF IInv, Locals, Rest
<1>2. l \in Local /\ l.pc = "got" /\ l.page = p
  BY ONLY <1>1, p \in Page DEF Local, PcLabel, Text
<1>3. Become(w, l) /\ UNCHANGED <<row, point>> /\ Rest'
  BY DEF Fetch, IInv, Rest
<1> HIDE DEF l
<1>4. Placed(l) /\ Held(l, point', row')
  BY <1>2 DEF Placed, Held
<1> QED BY <1>2, <1>3, <1>4, Unchanged, Replace

LEMMA MarkGoneStep ==
    ASSUME IInv, NEW w \in Worker, MarkGone(w)
    PROVE  IInv' /\ RowsGrow
<1> DEFINE p == work[w].page
<1>1. work[w] \in Local /\ work[w].new \in Nat /\ work[w].died \in BOOLEAN
  BY DEF IInv, Locals, Local
<1>2. p \in Page
  BY DEF IInv, Locals, Placed, MarkGone, At
<1>3. CASE row[p].status = "active"
  <2> DEFINE r == [row[p] EXCEPT !.status = "gone"]
  <2>1. row[p] \in Row /\ row[p].noted = row[p].note
    BY <1>2, RowTyped
  <2>2. r \in Row /\ r.noted = row[p].noted /\ r.note = row[p].note
        /\ r.status = "gone" /\ r.date = row[p].date
    BY ONLY <2>1 DEF Row
  <2>3. row' = [row EXCEPT ![p] = r] /\ Changed(p) /\ NextPage(w, work[w].new, TRUE)
    BY <1>3 DEF MarkGone
  <2> HIDE DEF r
  <2>4. RowsGrow
    BY <1>2, <2>1, <2>2, <2>3, OneRow
  <2>5. Rest' /\ UNCHANGED point
    BY <2>3, ChangedTyped DEF MarkGone, IInv, Rest
  <2> QED BY <1>1, <2>3, <2>4, <2>5, Growing, GoOn
<1>4. CASE row[p].status # "active"
  <2>1. UNCHANGED <<row, point>> /\ Rest' /\ NextPage(w, work[w].new, work[w].died)
    BY <1>4 DEF MarkGone, IInv, Rest, Skipped
  <2> QED BY <1>1, <2>1, Unchanged, GoOn
<1> QED BY <1>3, <1>4

LEMMA LookStep ==
    ASSUME IInv, NEW w \in Worker, Look(w)
    PROVE  IInv' /\ RowsGrow
<1> DEFINE c == row[work[w].page].text
           l == [work[w] EXCEPT !.pc = "save", !.seen = c]
<1>1. work[w] \in Local /\ work[w].page \in Page /\ work[w].got # Missing
  BY DEF IInv, Locals, Placed, Look, At
<1>2. c \in Text
  BY <1>1, RowTyped DEF Row
<1>3. Become(w, l) /\ UNCHANGED <<row, point>> /\ Rest'
  BY DEF Look, IInv, Rest
<1> HIDE DEF c
<1>4. l \in Local /\ l.pc = "save" /\ l.page = work[w].page /\ l.got = work[w].got
  BY ONLY <1>1, <1>2 DEF Local, PcLabel
<1> HIDE DEF l
<1>5. Placed(l) /\ Held(l, point', row')
  BY <1>1, <1>4 DEF Placed, Held
<1> QED BY <1>3, <1>4, <1>5, Unchanged, Replace

LEMMA InsertStep ==
    ASSUME IInv, NEW w \in Worker, Insert(w)
    PROVE  IInv' /\ RowsGrow
<1> DEFINE p == work[w].page
<1>1. work[w] \in Local /\ work[w].new \in Nat /\ work[w].new + 1 \in Nat
      /\ work[w].died \in BOOLEAN
  BY DEF IInv, Locals, Local
<1>2. p \in Page /\ work[w].got \in Text
  BY <1>1 DEF IInv, Locals, Placed, Insert, At, Local
<1>3. CASE Here(p)
  <2>1. UNCHANGED <<row, point>> /\ Rest' /\ NextPage(w, work[w].new, work[w].died)
    BY <1>3 DEF Insert, IInv, Rest, Skipped
  <2> QED BY <1>1, <2>1, Unchanged, GoOn
<1>4. CASE ~Here(p)
  <2> DEFINE d == MarkupDate(work[w].got)
             r == [NoRow EXCEPT !.status = "active", !.text = work[w].got, !.date = d]
  <2>1. d \in Date
    BY DateTypes DEF Date
  <2>2. 0 \in 0..MaxAttempts
    BY SitePagesAssumption
  <2>3. row' = [row EXCEPT ![p] = r] /\ Changed(p)
        /\ NextPage(w, work[w].new + 1, work[w].died)
    BY <1>4 DEF Insert, Counted
  <2> HIDE DEF d
  <2>4. r \in Row /\ r.noted = r.note /\ r.status = "active"
    BY ONLY <1>2, <2>1, <2>2 DEF Row, NoRow, Text
  <2> HIDE DEF r
  <2>5. RowsGrow
    BY <1>2, <1>4, <2>3, <2>4, OneRow
  <2>6. Rest' /\ UNCHANGED point
    BY <2>3, ChangedTyped DEF Insert, IInv, Rest
  <2> QED BY <1>1, <2>3, <2>5, <2>6, Growing, GoOn
<1> QED BY <1>3, <1>4

LEMMA TouchStep ==
    ASSUME IInv, NEW w \in Worker, Touch(w)
    PROVE  IInv' /\ RowsGrow
<1> DEFINE p == work[w].page
           d == Coalesce(row[p].date, MarkupDate(work[w].got))
<1>1. work[w].new \in Nat /\ work[w].died \in BOOLEAN
  BY DEF IInv, Locals, Local
<1>2. p \in Page
  BY DEF IInv, Locals, Placed, Touch, At
<1>3. d \in Date /\ (row[p].date # "none" => d = row[p].date)
  BY <1>2, RowTyped, DateTypes DEF Date
<1>4. RowsGrow
  <2>1. CASE ~Here(p)
    BY <2>1, NoChange DEF Touch
  <2>2. CASE Here(p)
    <3>1. row' = [row EXCEPT ![p].status = "active", ![p].date = d]
      BY <2>2 DEF Touch
    <3> HIDE DEF d
    <3> QED BY <1>2, <1>3, <3>1, DateGrows
  <2> QED BY <2>1, <2>2
<1>5. Rest' /\ UNCHANGED point /\ NextPage(w, work[w].new, work[w].died)
  BY DEF Touch, IInv, Rest, Skipped
<1> QED BY <1>1, <1>4, <1>5, Growing, GoOn

LEMMA RewriteStep ==
    ASSUME IInv, NEW w \in Worker, Rewrite(w)
    PROVE  IInv' /\ RowsGrow
<1> DEFINE p == work[w].page
           d == Coalesce(MarkupDate(work[w].got), row[p].date)
           r == [row[p] EXCEPT !.status = "active", !.text = work[w].got, !.date = d]
<1>1. work[w].new \in Nat /\ work[w].new + 1 \in Nat /\ work[w].died \in BOOLEAN
  BY DEF IInv, Locals, Local
<1>2. p \in Page /\ work[w].got \in Text
  BY DEF IInv, Locals, Placed, Rewrite, At, Local
<1>3. d \in Date /\ (row[p].date # "none" => d \in {row[p].date, "markup"})
  BY <1>2, RowTyped, DateTypes DEF Date
<1>4. RowsGrow
  <2>1. CASE ~Here(p)
    BY <2>1, NoChange DEF Rewrite
  <2>2. CASE Here(p)
    <3>1. row[p] \in Row /\ row[p].noted = row[p].note
      BY <1>2, RowTyped
    <3>2. row' = [row EXCEPT ![p] = r]
      BY <2>2 DEF Rewrite
    <3> HIDE DEF d
    <3>3. r \in Row /\ r.noted = row[p].noted /\ r.note = row[p].note
          /\ r.status = "active" /\ r.date = d
      BY ONLY <1>2, <1>3, <3>1 DEF Row
    <3> HIDE DEF r
    <3> QED BY <1>2, <1>3, <3>1, <3>2, <3>3, OneRow
  <2> QED BY <2>1, <2>2
<1>5. Rest' /\ UNCHANGED point /\ NextPage(w, work[w].new + 1, work[w].died)
  BY ChangedTyped DEF Rewrite, IInv, Rest, Counted
<1> QED BY <1>1, <1>4, <1>5, Growing, GoOn

LEMMA CrawlEndsStep ==
    ASSUME IInv, NEW w \in Worker, CrawlEnds(w)
    PROVE  IInv' /\ RowsGrow
<1> DEFINE label == IF work[w].task = "job" THEN "gone" ELSE "idle"
<1>1. label \in FreePc
  BY DEF FreePc
<1>2. UNCHANGED <<row, point>> /\ Rest' /\ Goto(w, label)
  BY DEF CrawlEnds, IInv, Rest
<1> HIDE DEF label
<1> QED BY <1>1, <1>2, Unchanged, GoFree

-----------------------------------------------------------------------------
(* Reindexing.                                                             *)

LEMMA ListingStep ==
    ASSUME IInv, NEW w \in Worker, NEW snap \in [Page -> View], NEW then \in FreePc,
           \A p \in Page : snap[p].status # "none" => Here(p),
           Listing(w, snap, then), UNCHANGED <<row, point>>, Rest'
    PROVE  IInv' /\ RowsGrow
<1> DEFINE l == [work[w] EXCEPT !.pc = "drop", !.snap = snap, !.then = then,
                                !.done = FALSE]
<1>1. work[w] \in Local
  BY DEF IInv, Locals
<1>2. l \in Local /\ l.pc = "drop" /\ l.snap = snap /\ l.then = then
  BY ONLY <1>1, snap \in [Page -> View], then \in FreePc DEF Local, PcLabel, FreePc
<1>3. Become(w, l)
  BY DEF Listing
<1> HIDE DEF l
<1>4. Placed(l) /\ Held(l, point', row')
  BY <1>2 DEF Placed, Held, Here
<1> QED BY <1>2, <1>3, <1>4, Unchanged, Replace

LEMMA ListGoneStep ==
    ASSUME IInv, NEW w \in Worker, ListGone(w)
    PROVE  IInv' /\ RowsGrow
<1> DEFINE S == {p \in Page : row[p].status = "gone"}
<1>1. UNCHANGED <<row, point>> /\ Rest'
  BY DEF ListGone, IInv, Rest
<1>2. Listing(w, Full(S), "enrich") \/ Goto(w, "enrich")
  BY DEF ListGone
<1> HIDE DEF S
<1>3. "enrich" \in FreePc
  BY DEF FreePc
<1> QED BY <1>1, <1>2, <1>3, Views, ListingStep, Unchanged, GoFree

LEMMA ListRecentStep ==
    ASSUME IInv, NEW w \in Worker, ListRecent(w)
    PROVE  IInv' /\ RowsGrow
<1> DEFINE S == Newest(Rows, work[w].new)
<1>1. UNCHANGED <<row, point>> /\ Rest'
  BY DEF ListRecent, IInv, Rest
<1>2. Listing(w, Full(S), "idle") \/ Goto(w, "idle")
  BY DEF ListRecent
<1> HIDE DEF S
<1>3. "idle" \in FreePc
  BY DEF FreePc
<1> QED BY <1>1, <1>2, <1>3, Views, ListingStep, Unchanged, GoFree

LEMMA DropStep ==
    ASSUME IInv, NEW w \in Worker, Drop(w)
    PROVE  IInv' /\ RowsGrow
<1> DEFINE l == [work[w] EXCEPT !.pc = "put"]
<1>1. work[w] \in Local /\ At(w, "drop")
  BY DEF IInv, Locals, Drop
<1>2. l \in Local /\ l.pc = "put" /\ l.snap = work[w].snap /\ l.then = work[w].then
  BY ONLY <1>1 DEF Local, PcLabel
<1>3. Become(w, l) /\ row' = row
  BY DEF Drop
<1> HIDE DEF l
<1>4. point' \in [Page -> View] /\ \A p \in Page : point'[p] \in {NoView, point[p]}
  BY NoViewIsView DEF Drop, IInv, Rest
<1>5. Rest'
  BY <1>4 DEF Drop, IInv, Rest
<1>6. Placed(l)
  BY <1>1, <1>2 DEF IInv, Locals, Placed, At
<1>7. Alone => Pointed(point', row') /\ Held(l, point', row')
  BY <1>1, <1>2, <1>3, <1>4 DEF IInv, Backed, Pointed, Held, At
<1>8. RowsGrow
  BY <1>3, NoChange
<1> QED BY <1>2, <1>3, <1>5, <1>6, <1>7, <1>8, Replace DEF RowsGrow

LEMMA PutStep ==
    ASSUME IInv, NEW w \in Worker, Put(w)
    PROVE  IInv' /\ RowsGrow
<1> DEFINE snap == work[w].snap
<1>1. work[w] \in Local /\ At(w, "put") /\ snap \in [Page -> View]
  BY DEF IInv, Locals, Put, Local
<1>2. work[w].then \in FreePc
  BY <1>1 DEF IInv, Locals, Placed, At
<1>3. \A p \in Page : point'[p] = IF snap[p].status = "active" THEN snap[p] ELSE point[p]
  BY DEF Put
<1>4. point' \in [Page -> View]
  BY <1>1 DEF Put, IInv, Rest
<1>5. Rest' /\ row' = row /\ Goto(w, work[w].then)
  BY <1>4 DEF Put, IInv, Rest
<1>6. Alone => Pointed(point', row')
  BY <1>1, <1>3, <1>5 DEF IInv, Backed, Pointed, Held, At
<1>7. RowsGrow
  BY <1>5, NoChange
<1> QED BY <1>2, <1>5, <1>6, <1>7, GoFree DEF RowsGrow

-----------------------------------------------------------------------------
(* Annotation.                                                             *)

LEMMA ListNeedingStep ==
    ASSUME IInv, NEW w \in Worker, ListNeeding(w)
    PROVE  IInv' /\ RowsGrow
<1> DEFINE batch == Newest(ListNeedingEnrichment, Limit)
           l == [work[w] EXCEPT !.pc = "annotate", !.done = FALSE,
                                !.snap = Bare(batch), !.todo = batch \ Excluded]
<1>1. UNCHANGED <<row, point>> /\ Rest'
  BY DEF ListNeeding, IInv, Rest
<1>2. CASE Become(w, l)
  <2>1. work[w] \in Local
    BY DEF IInv, Locals
  <2>2. batch \in SUBSET Page
    BY DEF Newest, ListNeedingEnrichment, Active
  <2>3. Bare(batch) \in [Page -> View]
        /\ \A p \in Page : Bare(batch)[p].status # "none" => Here(p)
    BY Views
  <2> HIDE DEF batch
  <2>4. l \in Local /\ l.pc = "annotate" /\ l.snap = Bare(batch)
    BY ONLY <2>1, <2>2, <2>3 DEF Local, PcLabel
  <2> HIDE DEF l
  <2>5. Placed(l) /\ Held(l, point', row')
    BY <1>1, <2>3, <2>4 DEF Placed, Held, Here
  <2> QED BY <1>1, <1>2, <2>4, <2>5, Unchanged, Replace
<1>3. CASE Goto(w, AfterEnrich(w))
  BY <1>1, <1>3, Unchanged, GoFree DEF AfterEnrich, FreePc
<1> QED BY <1>2, <1>3 DEF ListNeeding

LEMMA AnnotateStep ==
    ASSUME IInv, NEW w \in Worker, NEW p \in Page, Annotate(w, p)
    PROVE  IInv' /\ RowsGrow
<1> DEFINE listed == work[w].snap[p]
<1>1. work[w] \in Local /\ At(w, "annotate") /\ work[w].snap \in [Page -> View]
  BY DEF IInv, Locals, Annotate, Local
<1>2. listed \in View /\ listed.text \in Text /\ listed.date \in Date
  BY <1>1 DEF View
<1>3. PICK guess \in {"none", "model"} :
        LET date == IF listed.date = "none" /\ work[w].task # "edit"
                    THEN guess ELSE "none" IN
        /\ UpdateEnrichment(p, listed.text, date)
        /\ Become(w, [work[w] EXCEPT
              !.todo = @ \ {p}, !.done = TRUE,
              !.snap = [@ EXCEPT ![p].date = Coalesce(listed.date, date)]])
  BY DEF Annotate
<1> DEFINE date == IF listed.date = "none" /\ work[w].task # "edit" THEN guess ELSE "none"
           v == Coalesce(listed.date, date)
           seen == [work[w].snap EXCEPT ![p].date = v]
           S == work[w].todo \ {p}
           l == [work[w] EXCEPT !.todo = S, !.done = TRUE, !.snap = seen]
<1>4. date \in Date
  BY DEF Date
<1>5. v \in Date
  BY <1>2, <1>4, DateTypes
<1>6. UpdateEnrichment(p, listed.text, date) /\ Become(w, l)
  BY <1>3
<1>7. RowsGrow
  BY ONLY <1>2, <1>4, <1>6, IInv, p \in Page, UpdateEnrichmentGrows
<1>8. Rest' /\ UNCHANGED point
  BY DEF Annotate, IInv, Rest
<1> HIDE DEF v, date
<1>9. seen \in [Page -> View] /\ \A q \in Page : seen[q].status = work[w].snap[q].status
  BY ONLY <1>1, <1>5, p \in Page DEF View
<1>10. S \in SUBSET Page
  BY <1>1 DEF Local
<1> HIDE DEF seen, S
<1>11. l \in Local /\ l.pc = "annotate" /\ l.snap = seen
  BY ONLY <1>1, <1>9, <1>10 DEF Local, At
<1> HIDE DEF l
<1>12. Placed(l)
  BY <1>11 DEF Placed
<1>13. Alone => Held(l, point', row')
  BY <1>1, <1>7, <1>9, <1>11 DEF IInv, Backed, Held, At, RowsGrow, Here
<1> QED BY <1>6, <1>7, <1>8, <1>11, <1>12, <1>13, Growing, Replace

\* One page less to be handled, the rest as before.
LEMMA OneLess ==
    ASSUME IInv, NEW w \in Worker, NEW p \in Page, RowsGrow, UNCHANGED point, Rest',
           work[w].pc \in {"annotate", "date", "crawl"},
           Become(w, [work[w] EXCEPT !.todo = @ \ {p}])
    PROVE  IInv'
<1> DEFINE S == work[w].todo \ {p}
           l == [work[w] EXCEPT !.todo = S]
<1>1. work[w] \in Local /\ S \in SUBSET Page
  BY DEF IInv, Locals, Local
<1> HIDE DEF S
<1>2. l \in Local /\ l.pc = work[w].pc /\ l.snap = work[w].snap
  BY ONLY <1>1 DEF Local
<1>3. Become(w, l)
  BY DEF S
<1> HIDE DEF l
<1>4. Placed(l)
  BY <1>2 DEF Placed
<1>5. Alone => Held(l, point', row')
  BY <1>2 DEF IInv, Backed, Held, RowsGrow, Here
<1> QED BY <1>2, <1>3, <1>4, <1>5, Growing, Replace

LEMMA AnnotateFailsStep ==
    ASSUME IInv, NEW w \in Worker, NEW p \in Page, AnnotateFails(w, p)
    PROVE  IInv' /\ RowsGrow
<1>1. RowsGrow
  BY RecordEnrichFailureGrows DEF AnnotateFails
<1>2. Rest' /\ UNCHANGED point
  BY DEF AnnotateFails, IInv, Rest
<1> QED BY <1>1, <1>2, OneLess DEF AnnotateFails, At

LEMMA AnnotateEndsStep ==
    ASSUME IInv, NEW w \in Worker, AnnotateEnds(w)
    PROVE  IInv' /\ RowsGrow
<1>1. UNCHANGED <<row, point>> /\ Rest' /\ At(w, "annotate")
  BY DEF AnnotateEnds, IInv, Rest
<1>2. CASE Goto(w, AfterEnrich(w))
  BY <1>1, <1>2, Unchanged, GoFree DEF AfterEnrich, FreePc
<1>3. ASSUME NEW then \in {"recent", "enrich", "idle"},
             Listing(w, work[w].snap, then)
      PROVE  IInv' /\ RowsGrow
  <2> DEFINE l == [work[w] EXCEPT !.pc = "drop", !.snap = work[w].snap,
                                  !.then = then, !.done = FALSE]
  <2>1. work[w] \in Local
    BY DEF IInv, Locals
  <2>2. l \in Local /\ l.pc = "drop" /\ l.snap = work[w].snap /\ l.then = then
    BY ONLY <2>1, then \in {"recent", "enrich", "idle"} DEF Local, PcLabel
  <2>3. Become(w, l)
    BY <1>3 DEF Listing
  <2> HIDE DEF l
  <2>4. Placed(l)
    BY <2>2 DEF Placed, FreePc
  <2>5. Alone => Held(l, point', row')
    BY <1>1, <2>2 DEF IInv, Backed, Held, At
  <2> QED BY <1>1, <2>2, <2>3, <2>4, <2>5, Unchanged, Replace
<1>4. \/ Goto(w, AfterEnrich(w))
      \/ \E then \in {"recent", "enrich", "idle"} : Listing(w, work[w].snap, then)
  <2> DEFINE then == CASE work[w].task = "job"      -> "recent"
                       [] work[w].task = "backfill" -> "enrich"
                       [] OTHER                     -> "idle"
  <2>1. then \in {"recent", "enrich", "idle"}
    OBVIOUS
  <2>2. Listing(w, work[w].snap, then) \/ Goto(w, AfterEnrich(w))
    BY DEF AnnotateEnds
  <2> HIDE DEF then
  <2> QED BY <2>1, <2>2
<1> QED BY <1>2, <1>3, <1>4

-----------------------------------------------------------------------------
(* Dates and pruning.                                                      *)

LEMMA FillDateStep ==
    ASSUME IInv, NEW w \in Worker, NEW p \in Page, FillDate(w, p)
    PROVE  IInv' /\ RowsGrow
<1> DEFINE d == Coalesce(row[p].date, MarkupDate(site[p]))
           r == [row[p] EXCEPT !.date = d]
<1>1. row[p] \in Row /\ row[p].noted = row[p].note
  BY RowTyped
<1>2. d \in Date /\ (row[p].date # "none" => d = row[p].date)
  BY RowTyped, DateTypes DEF Date
<1>3. RowsGrow
  <2>1. CASE row' = row
    BY <2>1, NoChange
  <2>2. CASE Here(p) /\ row' = [row EXCEPT ![p] = r]
    <3> HIDE DEF d
    <3>1. r \in Row /\ r.noted = row[p].noted /\ r.note = row[p].note
          /\ r.status = row[p].status /\ r.date = d
      BY ONLY <1>1, <1>2 DEF Row
    <3> HIDE DEF r
    <3> QED BY <1>1, <1>2, <2>2, <3>1, OneRow DEF Here
  <2> QED BY <2>1, <2>2 DEF FillDate
<1>4. Rest' /\ UNCHANGED point
  BY DEF FillDate, IInv, Rest
<1> QED BY <1>3, <1>4, OneLess DEF FillDate, At

LEMMA DeletePointsStep ==
    ASSUME IInv, NEW w \in Worker, NEW p \in Page, DeletePoints(w, p)
    PROVE  IInv' /\ RowsGrow
<1> DEFINE S == work[w].todo \ {p}
           l == [work[w] EXCEPT !.todo = S]
<1>1. work[w] \in Local /\ At(w, "points") /\ S \in SUBSET Page
  BY DEF IInv, Locals, Local, DeletePoints
<1>2. l \in Local /\ l.pc = "points" /\ l.snap = work[w].snap /\ l.todo = S
  BY ONLY <1>1 DEF Local, At
<1>3. Become(w, l) /\ row' = row
  BY DEF DeletePoints
<1> HIDE DEF l
<1>4. point' = [point EXCEPT ![p] = NoView] /\ point \in [Page -> View]
  BY DEF DeletePoints, IInv, Rest
<1>5. Rest'
  BY <1>4, NoViewIsView DEF DeletePoints, IInv, Rest
<1>6. Alone => Pointed(point', row') /\ Held(l, point', row')
  BY <1>1, <1>2, <1>3, <1>4 DEF IInv, Backed, Pointed, Held, At
<1>7. RowsGrow
  BY <1>3, NoChange
<1>8. Placed(l)
  BY <1>2 DEF Placed
<1> QED BY <1>2, <1>3, <1>5, <1>6, <1>7, <1>8, Replace DEF RowsGrow

LEMMA DeleteRowStep ==
    ASSUME IInv, NEW w \in Worker, NEW p \in Page, DeleteRow(w, p)
    PROVE  IInv' /\ row' = [row EXCEPT ![p] = NoRow]
<1> DEFINE S == work[w].todo \ {p}
           l == [work[w] EXCEPT !.todo = S]
<1>1. work[w] \in Local /\ At(w, "rows") /\ S \in SUBSET Page
  BY DEF IInv, Locals, Local, DeleteRow
<1>2. l \in Local /\ l.pc = "rows" /\ l.todo = S
  BY ONLY <1>1 DEF Local, At
<1>3. Become(w, l) /\ row' = [row EXCEPT ![p] = NoRow] /\ UNCHANGED point
      /\ p \in work[w].todo /\ Rest'
  BY DEF DeleteRow, IInv, Rest
<1> HIDE DEF l
<1>4. NoRow \in Row
  <2>1. 0 \in 0..MaxAttempts
    BY SitePagesAssumption
  <2> QED BY <2>1 DEF NoRow, Row, Text, Date
<1>5. RowInv'
  BY <1>3, <1>4 DEF IInv, RowInv, NoRow
<1>6. Alone => Pointed(point', row') /\ Held(l, point', row')
  BY <1>1, <1>2, <1>3 DEF IInv, Backed, Pointed, Held, At, RowInv
<1>7. Placed(l)
  BY <1>2 DEF Placed
<1> QED BY <1>2, <1>3, <1>5, <1>6, <1>7, Replace

LEMMA PhaseEndsStep ==
    ASSUME IInv, NEW w \in Worker, PhaseEnds(w)
    PROVE  IInv' /\ RowsGrow
<1>1. UNCHANGED <<row, point>> /\ Rest'
  BY DEF PhaseEnds, IInv, Rest
<1>2. CASE ~At(w, "points")
  <2>1. Goto(w, "idle") /\ "idle" \in FreePc
    BY <1>2 DEF PhaseEnds, FreePc
  <2> QED BY <1>1, <2>1, Unchanged, GoFree
<1>3. CASE At(w, "points")
  <2> DEFINE S == {p \in Page : work[w].snap[p].status # "none"}
             l == [work[w] EXCEPT !.pc = "rows", !.todo = S]
  <2>1. work[w] \in Local /\ S \in SUBSET Page /\ work[w].todo = {}
    BY DEF IInv, Locals, PhaseEnds
  <2>2. Become(w, l)
    BY <1>3 DEF PhaseEnds
  <2>3. l \in Local /\ l.pc = "rows" /\ l.todo = S
    BY ONLY <2>1 DEF Local, PcLabel
  <2> HIDE DEF l
  <2>4. Placed(l)
    BY <2>3 DEF Placed
  <2>5. Alone => Held(l, point', row')
    BY <1>1, <1>3, <2>1, <2>3 DEF IInv, Backed, Held, At
  <2> QED BY <1>1, <2>2, <2>3, <2>4, <2>5, Unchanged, Replace
<1> QED BY <1>2, <1>3

-----------------------------------------------------------------------------
(* Failures, and the induction step.                                       *)

LEMMA CallFailsStep ==
    ASSUME IInv, NEW w \in Worker, CallFails(w)
    PROVE  IInv' /\ RowsGrow
<1>1. UNCHANGED <<row, point>> /\ Rest'
  BY SitePagesAssumption DEF CallFails, Fault, IInv, Rest
<1>2. RowInv' /\ RowsGrow /\ (Alone => Pointed(point', row'))
  BY <1>1, Unchanged
<1>3. ASSUME NEW p \in work[w].todo, work[w].pc \in {"crawl", "date", "annotate"},
             Become(w, [work[w] EXCEPT !.todo = @ \ {p}])
      PROVE  IInv'
  <2>1. p \in Page
    BY DEF IInv, Locals, Local
  <2> QED BY <1>1, <1>2, <1>3, <2>1, OneLess
<1>4. CASE Skipped(w)
  <2>1. work[w].new \in Nat /\ work[w].died \in BOOLEAN
    BY DEF IInv, Locals, Local
  <2> QED BY <1>1, <1>2, <1>4, <2>1, GoOn DEF Skipped
<1>5. ASSUME NEW label \in FreePc, Goto(w, label)
      PROVE  IInv'
  BY <1>1, <1>2, <1>5, GoFree
<1>6. work[w].pc \in {"drop", "put"} => work[w].then \in FreePc
  BY DEF IInv, Locals, Placed
<1>7. AfterEnrich(w) \in FreePc /\ {"idle", "enrich"} \subseteq FreePc
  BY DEF AfterEnrich, FreePc
<1>8. \/ Skipped(w)
      \/ \E p \in work[w].todo : /\ work[w].pc \in {"crawl", "date", "annotate"}
                                 /\ Become(w, [work[w] EXCEPT !.todo = @ \ {p}])
      \/ \E label \in FreePc : Goto(w, label)
  BY <1>6, <1>7 DEF CallFails
<1> QED BY <1>2, <1>3, <1>4, <1>5, <1>8

LEMMA CrashStep ==
    ASSUME IInv, Crash
    PROVE  IInv' /\ RowsGrow
<1>1. UNCHANGED <<row, point>> /\ Rest'
  BY SitePagesAssumption DEF Crash, Fault, IInv, Rest
<1>2. work' \in [Worker -> Local] /\ \A w \in Worker : work'[w] \in {work[w], Idle}
  BY IdleIsLocal DEF Crash, IInv, Locals
<1>3. Placed(Idle) /\ Held(Idle, point, row)
  BY FreeIsFine DEF Idle, FreePc
<1>4. Locals'
  BY <1>2, <1>3 DEF IInv, Locals
<1>5. Backed'
  <2>1. Alone => Pointed(point, row) /\ \A w \in Worker : Held(work'[w], point, row)
    BY <1>2, <1>3 DEF IInv, Backed
  <2> QED BY <1>1, <2>1 DEF Backed, Alone
<1> QED BY <1>1, <1>4, <1>5, Unchanged DEF IInv

LEMMA SiteChangesStep ==
    ASSUME IInv, NEW p \in Page, NEW c \in Content \cup {Missing}, SiteChanges(p, c)
    PROVE  IInv' /\ RowsGrow
<1>1. UNCHANGED <<row, point, work>> /\ Rest'
  BY SitePagesAssumption DEF SiteChanges, IInv, Rest
<1> QED BY <1>1, Unchanged DEF IInv, Locals, Backed, Alone

LEMMA StutterStep ==
    ASSUME IInv, UNCHANGED vars
    PROVE  IInv' /\ RowsGrow
<1>1. UNCHANGED <<row, point, work>> /\ Rest'
  BY DEF vars, IInv, Rest
<1> QED BY <1>1, Unchanged DEF IInv, Locals, Backed, Alone

LEMMA InductiveInit == Init => IInv
<1> SUFFICES ASSUME Init PROVE IInv
  OBVIOUS
<1>1. 0 \in 0..MaxAttempts /\ 0 \in 0..MaxMoves /\ 0 \in 0..MaxFaults
  BY SitePagesAssumption
<1>2. NoRow \in Row /\ \A c \in Content : Collected(c) \in Row
  BY <1>1 DEF NoRow, Collected, Row, Text, Date
<1>3. RowInv
  <2>1. PICK known \in SUBSET Page :
          row = [p \in Page |-> IF p \in known THEN Collected(site[p]) ELSE NoRow]
    BY DEF Init
  <2>2. \A p \in Page : site[p] \in Content
    BY DEF Init
  <2>3. row \in [Page -> Row] /\ \A p \in Page : row[p] \in {Collected(site[p]), NoRow}
    BY <1>2, <2>1, <2>2
  <2>4. NoRow.noted = NoRow.note /\ NoRow.date = "none"
    BY DEF NoRow
  <2>5. \A c : Collected(c).noted = Collected(c).note /\ Collected(c).date = "none"
    BY DEF Collected, NoRow
  <2> QED BY ONLY <2>3, <2>4, <2>5 DEF RowInv
<1>4. Placed(Idle) /\ Held(Idle, point, row)
  BY FreeIsFine DEF Idle, FreePc
<1>5. Locals /\ Backed
  BY <1>4, IdleIsLocal DEF Init, Locals, Backed, Pointed, Unlisted
<1>6. Rest
  <2>1. age \in [Page -> 0..Cardinality(Page) - 1]
    BY DEF Init
  <2>2. age \in [Page -> Nat]
    BY <2>1
  <2> QED BY <1>1, <2>2, NoViewIsView DEF Init, Rest, Unlisted
<1> QED BY <1>3, <1>5, <1>6 DEF IInv

\* A row goes only by being deleted.
LEMMA InductiveStep ==
    IInv /\ [Next]_vars =>
        IInv' /\ (RowsGrow \/ \E p \in Page : row' = [row EXCEPT ![p] = NoRow])
<1> SUFFICES ASSUME IInv, [Next]_vars
             PROVE  IInv' /\ (RowsGrow \/ \E p \in Page : row' = [row EXCEPT ![p] = NoRow])
  OBVIOUS
<1>1. ASSUME NEW w \in Worker, Works(w)
      PROVE  IInv' /\ (RowsGrow \/ \E p \in Page : row' = [row EXCEPT ![p] = NoRow])
  BY <1>1, FetchStep, AnnotateStep, AnnotateFailsStep, FillDateStep,
     DeletePointsStep, DeleteRowStep, MarkGoneStep, LookStep, InsertStep, TouchStep,
     RewriteStep, CrawlEndsStep, ListGoneStep, DropStep, PutStep, ListNeedingStep,
     AnnotateEndsStep, ListRecentStep, PhaseEndsStep DEF Works
<1> QED BY <1>1, StartsStep, CallFailsStep, SiteChangesStep, CrashStep, StutterStep
        DEF Next

-----------------------------------------------------------------------------
(* Theorems.                                                               *)

LEMMA Invariant == Spec => []IInv
BY InductiveInit, InductiveStep, PTL DEF Spec

\* The stores and the local variables of the workers have their types.
THEOREM TypeCorrect == Spec => []TypeOK
BY Invariant, Typed, PTL

\* ListNeedingEnrichment compares enrich_hash with content_hash: for no page
\* does it overlook that the annotation was made from another text, whatever
\* the crawl, the model and a curator write in between.
THEOREM NothingStaleForgotten == Spec => []StaleIsQueued
<1>1. IInv => StaleIsQueued
  BY DEF IInv, RowInv, StaleIsQueued, Stale, ListNeedingEnrichment
<1> QED BY <1>1, Invariant, PTL

\* UpdateEnrichment, Upsert and SetPublished never lose a date, and never put
\* the model's in the place of one that was there.
THEOREM DatesStay == Spec => DateKept
<1>1. ASSUME IInv, [Next]_vars, NEW p \in Page,
             row[p].date # "none", row'[p].status # "none"
      PROVE  row'[p].date \in {row[p].date, "markup"}
  <2>1. Here(p)
    BY <1>1 DEF IInv, RowInv, Here
  <2>2. CASE RowsGrow
    BY <1>1, <2>1, <2>2 DEF RowsGrow
  <2>3. ASSUME NEW q \in Page, row' = [row EXCEPT ![q] = NoRow]
        PROVE  row'[p].date = row[p].date
    BY <1>1, <2>3 DEF IInv, RowInv, NoRow
  <2> QED BY <1>1, <2>2, <2>3, InductiveStep
<1>2. IInv /\ [Next]_vars =>
        [\A p \in Page : row[p].date # "none" /\ row'[p].status # "none" =>
             row'[p].date \in {row[p].date, "markup"}]_vars
  BY <1>1
<1> QED BY <1>2, Invariant, PTL DEF Spec, DateKept

\* Reindex writes what was listed and Prune deletes the points first, so that
\* when operations do not overlap no point is left without its row.
THEOREM PointsHaveRows == Spec => []PointHasRow
<1>1. IInv => PointHasRow
  BY DEF IInv, Backed, Pointed, PointHasRow, Here
<1> QED BY <1>1, Invariant, PTL

-----------------------------------------------------------------------------
(* Without company, failures and a crawl that leaves the index alone: what *)
(* the search may find of pages that the site no longer has.               *)

Calm == /\ Alone /\ faults = 0
        /\ \A w \in Worker : "crawl" \notin Tasks[w]

CrawlPc == {"crawl", "got", "save", "gone"}

NoDead(P, R) == \A p \in Page : R[p].status = "gone" => P[p] = NoView

\* While the job crawls, pages may be dead in the search that it has seen to
\* be gone; when it cleans the index, those of its list; otherwise none.  A
\* list has no page as alive that is dead in the table.
Tidy(l, P, R) ==
    /\ l.pc \in CrawlPc => l.task = "job" /\ (l.died \/ NoDead(P, R))
    /\ l.pc = "drop" =>
         \A p \in Page : R[p].status = "gone" /\ l.snap[p].status # "gone" => P[p] = NoView
    /\ l.pc \notin CrawlPc \cup {"drop"} => NoDead(P, R)
    /\ l.pc \in {"drop", "put", "annotate"} =>
         \A p \in Page : l.snap[p].status = "active" => R[p].status # "gone"
    /\ l.pc \in {"drop", "put"} => l.then \notin CrawlPc

DeadInv == Calm => /\ \A w \in Worker : Tidy(work[w], point, row)
                   /\ Worker = {} => NoDead(point, row)

\* A worker goes over to the local variables l, without a failure.
LEMMA TidyReplace ==
    ASSUME IInv, NEW w \in Worker, NEW l, Become(w, l), UNCHANGED faults,
           Calm => Tidy(l, point', row')
    PROVE  DeadInv'
<1>1. work'[w] = l
  BY DEF IInv, Locals, Become
<1>2. Calm' = Calm
  BY DEF Calm, Alone
<1>3. ASSUME Calm PROVE \A v \in Worker : v = w
  BY <1>3 DEF Calm, Alone
<1> QED BY <1>1, <1>2, <1>3 DEF DeadInv

\* Nothing is said after a failure.
LEMMA TidyFails ==
    ASSUME IInv, Fault
    PROVE  DeadInv'
<1>1. faults' # 0
  BY DEF IInv, Rest, Fault
<1> QED BY <1>1 DEF DeadInv, Calm

LEMMA TidyNow ==
    ASSUME IInv, DeadInv, Calm, NEW w \in Worker
    PROVE  Tidy(work[w], point, row) /\ work[w] \in Local
BY DEF IInv, Locals, DeadInv

\* A worker that rests starts with a list of the table, or with none.
LEMMA StartTidy ==
    ASSUME IInv, DeadInv, NEW w \in Worker, NEW l, Start(w, l),
           l.pc \in {"crawl", "drop", "enrich", "annotate", "date", "points"},
           l.pc = "crawl" => l.task \in {"job", "crawl"},
           l.pc = "drop" => l.then = "idle",
           l.pc \in {"drop", "annotate"} =>
             \A p \in Page : l.snap[p].status = "active" => row[p].status = "active"
    PROVE  DeadInv'
<1>1. ASSUME Calm PROVE Tidy(l, point', row')
  <2>1. NoDead(point, row)
    BY <1>1, TidyNow DEF Start, MayStart, At, Tidy, CrawlPc
  <2>2. l.task # "crawl"
    BY <1>1 DEF Start, MayStart, Calm
  <2>3. UNCHANGED <<point, row>>
    BY DEF Start
  <2> QED BY <2>1, <2>2, <2>3 DEF Tidy, NoDead, CrawlPc
<1> QED BY <1>1, TidyReplace DEF Start

\* What a query returns as alive is alive in the table.
LEMMA AliveViews ==
    ASSUME NEW S
    PROVE  \A p \in Page : /\ Full(S)[p].status = "active" => row[p].status = "active"
                           /\ Bare(S)[p].status = "active" => row[p].status = "active"
BY DEF Full, Bare, NoView

LEMMA StartsTidy ==
    ASSUME IInv, DeadInv, NEW w \in Worker, Starts(w)
    PROVE  DeadInv'
<1>1. ASSUME NEW task \in {"job", "crawl"}, StartCrawl(w, task) PROVE DeadInv'
  BY <1>1, StartTidy DEF StartCrawl, Idle
<1>2. CASE StartIndex(w)
  BY <1>2, StartTidy, AliveViews DEF StartIndex, Idle
<1>3. CASE StartBackfill(w)
  BY <1>3, StartTidy DEF StartBackfill, Idle
<1>4. CASE StartEnrich(w)
  BY <1>4, StartTidy, AliveViews DEF StartEnrich, Idle
<1>5. CASE StartDates(w)
  BY <1>5, StartTidy DEF StartDates, Idle
<1>6. CASE StartPrune(w)
  BY <1>6, StartTidy DEF StartPrune, Idle
<1>7. ASSUME NEW p \in Page, StartOne(w, p) \/ StartEdit(w, p) PROVE DeadInv'
  BY <1>7, StartTidy, AliveViews DEF StartOne, StartEdit, Idle
<1> QED BY <1>1, <1>2, <1>3, <1>4, <1>5, <1>6, <1>7 DEF Starts

\* How a statement may change the statuses of pages and their points: a page
\* dies only at the hand of a crawl.
Livelier == /\ UNCHANGED point
            /\ \A p \in Page : row'[p].status = "gone" => row[p].status = "gone"

LEMMA LivelierTidy ==
    ASSUME Livelier, NEW l, Tidy(l, point, row)
    PROVE  Tidy(l, point', row')
BY DEF Livelier, Tidy, NoDead

\* The crawl goes on with a page, or is done with it.
LEMMA CrawlTidy ==
    ASSUME IInv, DeadInv, NEW w \in Worker, work[w].pc \in {"crawl", "got", "save"},
           Livelier, UNCHANGED faults, NEW l, Become(w, l),
           l.pc \in CrawlPc, l.task = work[w].task, l.died = work[w].died
    PROVE  DeadInv'
<1>1. ASSUME Calm PROVE Tidy(l, point', row')
  <2>1. Tidy(work[w], point', row')
    BY <1>1, TidyNow, LivelierTidy
  <2> QED BY <2>1 DEF Tidy, CrawlPc
<1> QED BY <1>1, TidyReplace

\* Statements about one row that is not marked as gone.
LEMMA LiveRow ==
    ASSUME IInv, UNCHANGED point, NEW p \in Page, NEW r, r.status # "gone",
           row' = row \/ row' = [row EXCEPT ![p] = r]
    PROVE  Livelier
BY DEF IInv, RowInv, Livelier

LEMMA CrawlStepsTidy ==
    ASSUME IInv, DeadInv, NEW w \in Worker,
           \/ \E p \in Page : Fetch(w, p)
           \/ Look(w) \/ Insert(w) \/ Touch(w) \/ Rewrite(w) \/ CrawlEnds(w)
    PROVE  DeadInv'
<1>0. work[w] \in Local /\ (work[w].pc \in {"got", "save"} => work[w].page \in Page)
  BY DEF IInv, Locals, Placed
<1>1. CASE \E p \in Page : Fetch(w, p)
  <2>1. PICK p \in Page : Fetch(w, p)
    BY <1>1
  <2>2. PICK l : l = [work[w] EXCEPT !.pc = "got", !.todo = @ \ {p}, !.page = p, !.got = site[p]]
    OBVIOUS
  <2>3. l.pc = "got" /\ l.task = work[w].task /\ l.died = work[w].died
    BY <1>0, <2>2 DEF Local
  <2> QED BY <2>1, <2>2, <2>3, CrawlTidy DEF Fetch, At, Livelier, CrawlPc
<1>2. CASE Look(w)
  <2>2. PICK l : l = [work[w] EXCEPT !.pc = "save", !.seen = row[work[w].page].text]
    OBVIOUS
  <2>3. l.pc = "save" /\ l.task = work[w].task /\ l.died = work[w].died
    BY <1>0, <2>2 DEF Local
  <2> QED BY <1>2, <2>2, <2>3, CrawlTidy DEF Look, At, Livelier, CrawlPc
<1>3. ASSUME NEW n, NextPage(w, n, work[w].died), Livelier, UNCHANGED faults, At(w, "save")
      PROVE  DeadInv'
  <2>2. PICK l : l = [work[w] EXCEPT !.pc = "crawl", !.page = NoPage, !.got = NoContent,
                                     !.seen = NoContent, !.new = n, !.died = work[w].died]
    OBVIOUS
  <2>3. l.pc = "crawl" /\ l.task = work[w].task /\ l.died = work[w].died
    BY <1>0, <2>2 DEF Local
  <2> QED BY <1>3, <2>2, <2>3, CrawlTidy DEF NextPage, At, CrawlPc
<1>4. CASE Insert(w)
  <2>1. PICK r : r = [NoRow EXCEPT !.status = "active", !.text = work[w].got,
                                   !.date = MarkupDate(work[w].got)]
    OBVIOUS
  <2>2. Livelier
    <3>1. r.status = "active"
      BY <2>1 DEF NoRow
    <3>2. row' = row \/ row' = [row EXCEPT ![work[w].page] = r]
      BY <1>4, <2>1 DEF Insert
    <3> QED BY <1>0, <1>4, <3>1, <3>2, LiveRow DEF Insert, At
  <2> QED BY <1>3, <1>4, <2>2 DEF Insert, Skipped, Counted
<1>5. CASE Touch(w) \/ Rewrite(w)
  <2>1. row[work[w].page] \in Row
    BY <1>0, <1>5 DEF IInv, RowInv, Touch, Rewrite, At
  <2>2. row \in [Page -> Row] /\ work[w].page \in Page
    BY <1>0, <1>5 DEF IInv, RowInv, Touch, Rewrite, At
  <2>3. Livelier
    <3>1. CASE Touch(w)
      BY <2>1, <2>2, <3>1 DEF Touch, Livelier, Row
    <3>2. CASE Rewrite(w)
      BY <2>1, <2>2, <3>2 DEF Rewrite, Livelier, Row
    <3> QED BY <1>5, <3>1, <3>2
  <2> QED BY <1>3, <1>5, <2>3 DEF Touch, Rewrite, Skipped, Counted
<1>6. CASE CrawlEnds(w)
  <2>1. CASE work[w].task = "job"
    <3>2. PICK l : l = [work[w] EXCEPT !.pc = "gone", !.snap = Unlisted, !.then = "idle",
                                       !.done = FALSE]
      OBVIOUS
    <3>3. l.pc = "gone" /\ l.task = work[w].task /\ l.died = work[w].died
      BY <1>0, <3>2 DEF Local
    <3> QED BY <1>6, <2>1, <3>2, <3>3, CrawlTidy DEF CrawlEnds, Goto, At, Livelier, CrawlPc
  <2>2. CASE work[w].task # "job"
    <3>1. ~Calm
      BY <1>6, <2>2, TidyNow DEF CrawlEnds, At, Tidy, CrawlPc
    <3> QED BY <1>6, <3>1, TidyReplace DEF CrawlEnds, Goto
  <2> QED BY <2>1, <2>2
<1> QED BY <1>1, <1>2, <1>4, <1>5, <1>6

\* The job remembers that it has marked a page as gone.
LEMMA MarkGoneTidy ==
    ASSUME IInv, DeadInv, NEW w \in Worker, MarkGone(w)
    PROVE  DeadInv'
<1>0. work[w] \in Local
  BY DEF IInv, Locals
<1>1. CASE row[work[w].page].status = "active"
  <2>2. PICK l : l = [work[w] EXCEPT !.pc = "crawl", !.page = NoPage, !.got = NoContent,
                                     !.seen = NoContent, !.new = work[w].new, !.died = TRUE]
    OBVIOUS
  <2>3. l.pc = "crawl" /\ l.task = work[w].task /\ l.died = TRUE
    BY <1>0, <2>2 DEF Local
  <2>4. Become(w, l) /\ UNCHANGED faults
    BY <1>1, <2>2 DEF MarkGone, NextPage
  <2>5. ASSUME Calm PROVE Tidy(l, point', row')
    <3>1. work[w].task = "job"
      BY <2>5, TidyNow DEF MarkGone, At, Tidy, CrawlPc
    <3> QED BY <2>3, <3>1 DEF Tidy, CrawlPc
  <2> QED BY <2>4, <2>5, TidyReplace
<1>2. CASE row[work[w].page].status # "active"
  <2>2. PICK l : l = [work[w] EXCEPT !.pc = "crawl", !.page = NoPage, !.got = NoContent,
                        !.seen = NoContent, !.new = work[w].new, !.died = work[w].died]
    OBVIOUS
  <2>3. l.pc = "crawl" /\ l.task = work[w].task /\ l.died = work[w].died
    BY <1>0, <2>2 DEF Local
  <2> QED BY <1>2, <2>2, <2>3, CrawlTidy DEF MarkGone, Skipped, NextPage, At, Livelier, CrawlPc
<1> QED BY <1>1, <1>2

\* Other steps that leave the statuses and the points: to a phase of rest, ...
LEMMA GotoTidy ==
    ASSUME IInv, DeadInv, NEW w \in Worker, NEW label \in {"idle", "enrich", "recent"},
           Goto(w, label), UNCHANGED faults, Calm => NoDead(point', row')
    PROVE  DeadInv'
<1>1. PICK l : /\ l = IF label = "idle" THEN Idle
                      ELSE [work[w] EXCEPT !.pc = label, !.snap = Unlisted, !.then = "idle",
                                           !.done = FALSE]
               /\ Become(w, l)
  BY DEF Goto
<1>2. l.pc = label
  BY <1>1 DEF IInv, Locals, Local, Idle
<1>3. ASSUME Calm PROVE Tidy(l, point', row')
  BY <1>2, <1>3 DEF Tidy, CrawlPc
<1> QED BY <1>1, <1>3, TidyReplace

\* ... or to a Reindex of a list.
LEMMA ListingTidy ==
    ASSUME IInv, DeadInv, NEW w \in Worker, NEW snap, NEW then, then \notin CrawlPc,
           Listing(w, snap, then), UNCHANGED <<row, point, faults>>,
           Calm => \A p \in Page :
             /\ row[p].status = "gone" /\ snap[p].status # "gone" => point[p] = NoView
             /\ snap[p].status = "active" => row[p].status # "gone"
    PROVE  DeadInv'
<1>1. PICK l : /\ l = [work[w] EXCEPT !.pc = "drop", !.snap = snap, !.then = then,
                                      !.done = FALSE]
               /\ Become(w, l)
  BY DEF Listing
<1>2. l.pc = "drop" /\ l.snap = snap /\ l.then = then
  BY <1>1 DEF IInv, Locals, Local
<1>3. ASSUME Calm PROVE Tidy(l, point', row')
  BY <1>2, <1>3 DEF Tidy, CrawlPc
<1> QED BY <1>1, <1>3, TidyReplace

\* A worker that is not at a crawl or cleaning the index knows of no dead page.
LEMMA RestIsTidy ==
    ASSUME IInv, DeadInv, Calm, NEW w \in Worker, work[w].pc \notin CrawlPc \cup {"drop"}
    PROVE  NoDead(point, row)
BY TidyNow DEF Tidy

LEMMA ListGoneTidy ==
    ASSUME IInv, DeadInv, NEW w \in Worker, ListGone(w)
    PROVE  DeadInv'
<1>1. CASE work[w].died
  <2>1. \A p \in Page : row[p].status = "gone" =>
          Full({q \in Page : row[q].status = "gone"})[p].status = "gone"
    BY DEF Full
  <2> QED BY <1>1, <2>1, AliveViews, ListingTidy DEF ListGone, CrawlPc
<1>2. CASE ~work[w].died
  <2>1. Calm => NoDead(point, row)
    BY <1>2, TidyNow DEF ListGone, At, Tidy, CrawlPc
  <2>2. UNCHANGED <<row, point, faults>> /\ Goto(w, "enrich")
    BY <1>2 DEF ListGone
  <2>3. Calm => NoDead(point', row')
    BY <2>1, <2>2
  <2> QED BY <2>2, <2>3, GotoTidy
<1> QED BY <1>1, <1>2

LEMMA ListRecentTidy ==
    ASSUME IInv, DeadInv, NEW w \in Worker, ListRecent(w)
    PROVE  DeadInv'
<1>1. Calm => NoDead(point, row)
  BY RestIsTidy DEF ListRecent, At, CrawlPc
<1>2. UNCHANGED <<row, point, faults>>
  BY DEF ListRecent
<1>3. CASE work[w].new > 0
  BY <1>1, <1>2, <1>3, AliveViews, ListingTidy DEF ListRecent, NoDead, CrawlPc
<1>4. CASE ~(work[w].new > 0)
  <2>1. Calm => NoDead(point', row')
    BY <1>1, <1>2
  <2> QED BY <1>2, <1>4, <2>1, GotoTidy DEF ListRecent
<1> QED BY <1>3, <1>4

LEMMA ListNeedingTidy ==
    ASSUME IInv, DeadInv, NEW w \in Worker, ListNeeding(w)
    PROVE  DeadInv'
<1>1. Calm => NoDead(point, row)
  BY RestIsTidy DEF ListNeeding, At, CrawlPc
<1>2. UNCHANGED <<row, point, faults>>
  BY DEF ListNeeding
<1>3. CASE Goto(w, AfterEnrich(w))
  <2>1. AfterEnrich(w) \in {"idle", "recent"}
    BY DEF AfterEnrich
  <2>2. Calm => NoDead(point', row')
    BY <1>1, <1>2
  <2> QED BY <1>2, <1>3, <2>1, <2>2, GotoTidy
<1>4. CASE ~Goto(w, AfterEnrich(w))
  <2>1. PICK batch, l :
          /\ l = [work[w] EXCEPT !.pc = "annotate", !.done = FALSE,
                                 !.snap = Bare(batch), !.todo = batch \ Excluded]
          /\ Become(w, l)
    BY <1>4 DEF ListNeeding
  <2>2. l.pc = "annotate" /\ l.snap = Bare(batch)
    BY <2>1 DEF IInv, Locals, Local
  <2>3. ASSUME Calm PROVE Tidy(l, point', row')
    BY <1>1, <1>2, <2>2, <2>3, AliveViews DEF Tidy, CrawlPc, NoDead
  <2> QED BY <1>2, <2>1, <2>3, TidyReplace
<1> QED BY <1>3, <1>4

LEMMA AnnotateEndsTidy ==
    ASSUME IInv, DeadInv, NEW w \in Worker, AnnotateEnds(w)
    PROVE  DeadInv'
<1>1. Calm => NoDead(point, row)
  BY RestIsTidy DEF AnnotateEnds, At, CrawlPc
<1>2. UNCHANGED <<row, point, faults>>
  BY DEF AnnotateEnds
<1>3. CASE Goto(w, AfterEnrich(w))
  <2>1. AfterEnrich(w) \in {"idle", "recent"}
    BY DEF AfterEnrich
  <2>2. Calm => NoDead(point', row')
    BY <1>1, <1>2
  <2> QED BY <1>2, <1>3, <2>1, <2>2, GotoTidy
<1>4. CASE ~Goto(w, AfterEnrich(w))
  <2>1. PICK then : /\ Listing(w, work[w].snap, then)
                    /\ then \in {"recent", "enrich", "idle"}
    BY <1>4 DEF AnnotateEnds
  <2>2. Calm => \A p \in Page :
          work[w].snap[p].status = "active" => row[p].status # "gone"
    BY TidyNow DEF AnnotateEnds, At, Tidy
  <2> QED BY <1>1, <1>2, <2>1, <2>2, ListingTidy DEF NoDead, CrawlPc
<1> QED BY <1>3, <1>4

\* Drop takes the points of the dead pages of its list, Put writes none.
LEMMA DropTidy ==
    ASSUME IInv, DeadInv, NEW w \in Worker, Drop(w)
    PROVE  DeadInv'
<1>1. PICK l : l = [work[w] EXCEPT !.pc = "put"] /\ Become(w, l)
  BY DEF Drop
<1>2. l.pc = "put" /\ l.snap = work[w].snap /\ l.then = work[w].then
  BY <1>1 DEF IInv, Locals, Local
<1>3. ASSUME Calm PROVE Tidy(l, point', row')
  <2>1. /\ \A p \in Page :
             /\ row[p].status = "gone" /\ work[w].snap[p].status # "gone" => point[p] = NoView
             /\ work[w].snap[p].status = "active" => row[p].status # "gone"
        /\ work[w].then \notin CrawlPc
    BY <1>3, TidyNow DEF Drop, At, Tidy
  <2>2. /\ UNCHANGED row
        /\ \A p \in Page : point'[p] = IF work[w].snap[p].status = "gone" THEN NoView
                                       ELSE point[p]
    BY DEF Drop
  <2> QED BY <1>2, <2>1, <2>2 DEF Tidy, NoDead, CrawlPc
<1> QED BY <1>1, <1>3, TidyReplace DEF Drop

LEMMA PutTidy ==
    ASSUME IInv, DeadInv, NEW w \in Worker, Put(w)
    PROVE  DeadInv'
<1>1. Calm => NoDead(point', row')
  <2>1. Calm => /\ NoDead(point, row)
                /\ \A p \in Page : work[w].snap[p].status = "active" => row[p].status # "gone"
    BY TidyNow DEF Put, At, Tidy, CrawlPc
  <2> QED BY <2>1 DEF Put, NoDead
<1>2. CASE Calm
  <2>1. work[w].then \notin CrawlPc /\ work[w].then \in FreePc
    BY <1>2, TidyNow DEF Put, At, Tidy, IInv, Locals, Placed
  <2>2. work[w].then \in {"idle", "enrich", "recent", "date"}
    BY <2>1 DEF CrawlPc, FreePc
  <2>3. PICK l : /\ l = IF work[w].then = "idle" THEN Idle
                        ELSE [work[w] EXCEPT !.pc = work[w].then, !.snap = Unlisted,
                                             !.then = "idle", !.done = FALSE]
                 /\ Become(w, l)
    BY DEF Put, Goto
  <2>4. l.pc = work[w].then
    BY <2>3 DEF IInv, Locals, Local, Idle
  <2>5. Tidy(l, point', row')
    BY <1>1, <1>2, <2>2, <2>4 DEF Tidy, CrawlPc
  <2> QED BY <2>3, <2>5, TidyReplace DEF Put
<1>3. CASE ~Calm
  <2>1. ~Calm'
    BY <1>3 DEF Calm, Alone, Put
  <2> QED BY <2>1 DEF DeadInv
<1> QED BY <1>2, <1>3

\* The next page of a batch or of a list: no page dies and no point is made.
LEMMA OneTidy ==
    ASSUME IInv, DeadInv, NEW w \in Worker,
           work[w].pc \in {"annotate", "date", "points", "rows"},
           NEW l, Become(w, l), l.pc = work[w].pc, UNCHANGED faults,
           \A p \in Page : l.snap[p].status = work[w].snap[p].status,
           \A p \in Page : point'[p] \in {point[p], NoView},
           \A p \in Page : row'[p].status = "gone" => row[p].status = "gone"
    PROVE  DeadInv'
<1>1. ASSUME Calm PROVE Tidy(l, point', row')
  BY <1>1, TidyNow DEF Tidy, NoDead, CrawlPc
<1> QED BY <1>1, TidyReplace

\* Statements that write another column than the status.
LEMMA ColumnsTidy ==
    ASSUME IInv, NEW p \in Page,
           \/ \E c, d : UpdateEnrichment(p, c, d)
           \/ RecordEnrichFailure(p)
           \/ \E d : row' = [row EXCEPT ![p].date = d]
           \/ row' = row
    PROVE  \A q \in Page : row'[q].status = row[q].status
<1>1. row \in [Page -> Row]
  BY DEF IInv, RowInv
<1>2. ASSUME NEW c, NEW d, UpdateEnrichment(p, c, d)
      PROVE  \A q \in Page : row'[q].status = row[q].status
  BY <1>1, <1>2 DEF UpdateEnrichment, Row
<1>3. CASE RecordEnrichFailure(p)
  BY <1>1, <1>3 DEF RecordEnrichFailure, Row
<1>4. ASSUME NEW d, row' = [row EXCEPT ![p].date = d]
      PROVE  \A q \in Page : row'[q].status = row[q].status
  BY <1>1, <1>4 DEF Row
<1> QED BY <1>2, <1>3, <1>4

LEMMA PageStepsTidy ==
    ASSUME IInv, DeadInv, NEW w \in Worker, NEW p \in Page,
           \/ Annotate(w, p) \/ AnnotateFails(w, p) \/ FillDate(w, p)
           \/ DeletePoints(w, p) \/ DeleteRow(w, p)
    PROVE  DeadInv'
<1>0. work[w] \in Local
  BY DEF IInv, Locals
<1>1. CASE Annotate(w, p)
  <2>1. PICK date :
          /\ UpdateEnrichment(p, work[w].snap[p].text, date)
          /\ Become(w, [work[w] EXCEPT
                !.todo = @ \ {p}, !.done = TRUE,
                !.snap = [@ EXCEPT ![p].date = Coalesce(work[w].snap[p].date, date)]])
    BY <1>1 DEF Annotate
  <2>2. PICK l :
          /\ l = [work[w] EXCEPT
                !.todo = @ \ {p}, !.done = TRUE,
                !.snap = [@ EXCEPT ![p].date = Coalesce(work[w].snap[p].date, date)]]
          /\ Become(w, l)
    BY <2>1
  <2>3. /\ l.pc = work[w].pc /\ Become(w, l)
        /\ \A q \in Page : l.snap[q].status = work[w].snap[q].status
    BY <1>0, <2>2 DEF Local, View
  <2>4. UNCHANGED <<point, faults>> /\ work[w].pc \in {"annotate", "date", "points", "rows"}
    BY <1>1 DEF Annotate, At
  <2>5. \A q \in Page : row'[q].status = row[q].status
    BY <2>1, ColumnsTidy
  <2>6. /\ \A q \in Page : point'[q] \in {point[q], NoView}
        /\ \A q \in Page : row'[q].status = "gone" => row[q].status = "gone"
    BY <2>4, <2>5
  <2> QED BY ONLY IInv, DeadInv, w \in Worker, <2>3, <2>4, <2>6, OneTidy
<1>2. CASE ~Annotate(w, p)
  <2>1. PICK l : l = [work[w] EXCEPT !.todo = @ \ {p}] /\ Become(w, l)
    BY <1>2 DEF AnnotateFails, FillDate, DeletePoints, DeleteRow
  <2>2. l.pc = work[w].pc /\ l.snap = work[w].snap
    BY <1>0, <2>1 DEF Local
  <2>3. /\ work[w].pc \in {"annotate", "date", "points", "rows"}
        /\ UNCHANGED faults
    BY <1>2 DEF AnnotateFails, FillDate, DeletePoints, DeleteRow, At
  <2>4. \A q \in Page : point'[q] \in {point[q], NoView}
    BY <1>2 DEF AnnotateFails, FillDate, DeletePoints, DeleteRow, IInv, Rest
  <2>5. \A q \in Page : row'[q].status = "gone" => row[q].status = "gone"
    <3>1. CASE AnnotateFails(w, p) \/ FillDate(w, p) \/ DeletePoints(w, p)
      BY <3>1, ColumnsTidy DEF AnnotateFails, FillDate, DeletePoints
    <3>2. CASE DeleteRow(w, p)
      BY <3>2 DEF DeleteRow, IInv, RowInv, NoRow
    <3> QED BY <1>2, <3>1, <3>2
  <2> QED BY <2>1, <2>2, <2>3, <2>4, <2>5, OneTidy
<1> QED BY <1>1, <1>2

LEMMA PhaseEndsTidy ==
    ASSUME IInv, DeadInv, NEW w \in Worker, PhaseEnds(w)
    PROVE  DeadInv'
<1>1. Calm => NoDead(point, row)
  BY RestIsTidy DEF PhaseEnds, CrawlPc
<1>2. UNCHANGED <<row, point, faults>>
  BY DEF PhaseEnds
<1>3. Calm => NoDead(point', row')
  BY <1>1, <1>2
<1>4. CASE At(w, "points")
  <2>1. PICK l : /\ l = [work[w] EXCEPT !.pc = "rows",
                           !.todo = {p \in Page : work[w].snap[p].status # "none"}]
                 /\ Become(w, l)
    BY <1>4 DEF PhaseEnds
  <2>2. l.pc = "rows"
    BY <2>1 DEF IInv, Locals, Local
  <2>3. ASSUME Calm PROVE Tidy(l, point', row')
    BY <1>3, <2>2, <2>3 DEF Tidy, CrawlPc
  <2> QED BY <1>2, <2>1, <2>3, TidyReplace
<1>5. CASE ~At(w, "points")
  BY <1>2, <1>3, <1>5, GotoTidy DEF PhaseEnds
<1> QED BY <1>4, <1>5

LEMMA InitTidy == Init => DeadInv
<1> SUFFICES ASSUME Init PROVE DeadInv
  OBVIOUS
<1>1. NoDead(point, row)
  BY DEF Init, NoDead, Unlisted
<1>2. \A w \in Worker : work[w] = Idle
  BY DEF Init
<1> QED BY <1>1, <1>2 DEF DeadInv, Tidy, CrawlPc, Idle

LEMMA InductiveTidy == IInv /\ DeadInv /\ [Next]_vars => DeadInv'
<1> SUFFICES ASSUME IInv, DeadInv, [Next]_vars PROVE DeadInv'
  OBVIOUS
<1>1. ASSUME NEW w \in Worker, Works(w) PROVE DeadInv'
  BY <1>1, CrawlStepsTidy, MarkGoneTidy, ListGoneTidy, ListRecentTidy, ListNeedingTidy,
     AnnotateEndsTidy, DropTidy, PutTidy, PageStepsTidy, PhaseEndsTidy DEF Works
<1>2. ASSUME NEW w \in Worker, CallFails(w) PROVE DeadInv'
  BY <1>2, TidyFails DEF CallFails
<1>3. CASE Crash
  BY <1>3, TidyFails DEF Crash
<1>4. CASE UNCHANGED <<row, point, work, faults>>
  BY <1>4 DEF DeadInv, Calm, Alone, Tidy, NoDead
<1> QED BY <1>1, <1>2, <1>3, <1>4, StartsTidy DEF Next, SiteChanges, vars

\* The job marks a page as gone and then takes it out of the index, and no
\* other task puts it back: where operations do not overlap or fail and only
\* the job crawls, the search finds no page that the site no longer has.
THEOREM DeadAreNotFound == Spec => []DeadNotFound
<1>1. IInv /\ DeadInv => DeadNotFound
  <2> SUFFICES ASSUME IInv, DeadInv, Calm, Quiet,
                      NEW p \in Page, row[p].status = "gone"
               PROVE  point[p] = NoView
    BY DEF DeadNotFound, Calm
  <2>1. CASE Worker = {}
    BY <2>1 DEF DeadInv, NoDead
  <2>2. CASE Worker # {}
    BY <2>2, RestIsTidy DEF Quiet, At, CrawlPc, NoDead
  <2> QED BY <2>1, <2>2
<1> QED BY <1>1, Invariant, InductiveInit, InitTidy, InductiveTidy, PTL DEF Spec
=============================================================================
