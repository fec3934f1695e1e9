------------------------------ MODULE Downloads ------------------------------
(***************************************************************************)
(* Documents of the catalogue downloaded with the session cookie           *)
(* (fetcher/http_download.go, CollectViaCookie) and entered in the         *)
(* registry, by the panel, which looks for a row with the same title, or   *)
(* by the job and the command, which do not; and the listing of the        *)
(* catalogue, which enters rows without a body (http_catalog.go).          *)
(*                                                                         *)
(* A row is named by what its id is a hash of: a link of the listing, or,  *)
(* for a row the RSS feed made, the title.  The order of the categories    *)
(* is that of a Go map: any.                                               *)
(***************************************************************************)
EXTENDS Naturals, Sequences, FiniteSets

CONSTANTS Shown,        \* the links of the listing
          Titles,       \* their titles
          Listing,      \* categories of pages of links
          TitleOf,      \* the title shown with a link
          Dead,         \* links that are always refused
          Known,        \* titles the feed has entered already
          Loaders,         \* the runs there may be, in any overlap
          Kinds,        \* what each may be: "panel", "command", "catalog"
          Limit,        \* files a run may download, 0 is no limit
          MaxPages,     \* maxPagesPerCategory
          MaxFaults,    \* requests and writes that fail, in all
          MaxRestarts   \* runs begun in the place of one that ended or was cut

VARIABLES rows,         \* the registry: row -> the link its body is of
          disk,         \* links whose body lies on the disk
          run, faults, restarts

vars == <<rows, disk, run, faults, restarts>>

Absent == "absent"
NoBody == "none"

Titled(id) == IF id \in Shown THEN TitleOf[id] ELSE id

(* The body of a row, when the row has one and the file is there.          *)
OnDisk(id) == rows[id] \in disk

(* A title has its file in the registry R.                                  *)
HasFile(R, t) == \E id \in DOMAIN R : Titled(id) = t /\ R[id] \in disk

NoRun == [at |-> "idle", kind |-> "panel", cats |-> {}, pages |-> <<>>, docs |-> <<>>,
          seen |-> {}, got |-> {}, index |-> <<>>, done |-> 0, link |-> NoBody,
          failed |-> {}, broken |-> FALSE, erased |-> {}]

Init == /\ rows = [id \in Shown \cup Titles |-> IF id \in Known THEN NoBody ELSE Absent]
        /\ disk = {}
        /\ run = [r \in Loaders |-> NoRun]
        /\ faults = 0 /\ restarts = 0

Fault == faults < MaxFaults /\ faults' = faults + 1
Full(s) == Limit > 0 /\ s.done >= Limit

------------------------------------------------------------------------------

(* Row by title as the registry had them when the run began: one of the    *)
(* rows with that title, whichever the listing gave last (cookieTitleIndex).*)
TitleIndexes ==
  LET rowsOf(t) == {id \in DOMAIN rows : Titled(id) = t /\ rows[id] # Absent}
  IN  {ix \in [Titles -> {NoBody} \cup DOMAIN rows] :
         \A t \in Titles : IF rowsOf(t) = {} THEN ix[t] = NoBody ELSE ix[t] \in rowsOf(t)}

Begun(kind) == [NoRun EXCEPT !.at = "category", !.kind = kind, !.cats = DOMAIN Listing]

(* The button of the panel (handleAPIFetch). *)
StartPanel(r) ==
  /\ run[r].at = "idle" /\ "panel" \in Kinds[r]
  /\ \E ix \in TitleIndexes :
       run' = [run EXCEPT ![r] = [Begun("panel") EXCEPT !.index =
                 [t \in Titles |-> [id |-> ix[t], body |-> IF ix[t] = NoBody THEN NoBody
                                                           ELSE rows[ix[t]]]]]]
  /\ UNCHANGED <<rows, disk, faults, restarts>>

(* The command fetch and the job collect. *)
StartCommand(r) ==
  /\ run[r].at = "idle" /\ "command" \in Kinds[r]
  /\ run' = [run EXCEPT ![r] = Begun("command")]
  /\ UNCHANGED <<rows, disk, faults, restarts>>

(* The commands catalog and crawl: the listing alone. *)
StartCatalog(r) ==
  /\ run[r].at = "idle" /\ "catalog" \in Kinds[r]
  /\ run' = [run EXCEPT ![r] = Begun("catalog")]
  /\ UNCHANGED <<rows, disk, faults, restarts>>

(* A category is left when its pages are through or one of them failed;    *)
(* the run is over with the last category or with the limit reached.       *)
NextCategory(r) ==
  /\ run[r].at = "category"
  /\ \/ /\ run[r].cats = {} \/ Full(run[r])
        /\ run' = [run EXCEPT ![r].at = IF run[r].kind = "catalog" THEN "save" ELSE "over",
                              ![r].docs = IF run[r].kind = "catalog" THEN @ ELSE <<>>]
     \/ /\ ~Full(run[r])
        /\ \E c \in run[r].cats :
             run' = [run EXCEPT ![r].at = "page", ![r].cats = @ \ {c},
                                ![r].pages = SubSeq(Listing[c], 1, IF Len(Listing[c]) < MaxPages
                                                                   THEN Len(Listing[c]) ELSE MaxPages)]
  /\ UNCHANGED <<rows, disk, faults, restarts>>

(* A page and the links it shows, each once (parseCategoryHTML): the       *)
(* listing gathers those it has not seen, a download takes them in turn.   *)
Unseen(s) == SelectSeq(Head(s.pages), LAMBDA l : l \notin s.seen)

Gathered(s) ==
  [s EXCEPT !.at = IF Len(s.pages) > 1 THEN "page" ELSE "category",
            !.docs = @ \o Unseen(s),
            !.seen = @ \cup {Head(s.pages)[i] : i \in DOMAIN Head(s.pages)}]

FetchPage(r) ==
  /\ run[r].at = "page"
  /\ run' = [run EXCEPT ![r] = [IF run[r].kind = "catalog" THEN Gathered(run[r])
                                ELSE [run[r] EXCEPT !.at = "file", !.docs = Head(run[r].pages)]
                                EXCEPT !.pages = Tail(@)]]
  /\ UNCHANGED <<rows, disk, faults, restarts>>

FetchPageFails(r) ==
  /\ run[r].at = "page"
  /\ Fault
  /\ run' = [run EXCEPT ![r].at = "category", ![r].pages = <<>>, ![r].broken = TRUE]
  /\ UNCHANGED <<rows, disk, restarts>>

PageDone(r) ==
  /\ run[r].at = "file" /\ (run[r].docs = <<>> \/ Full(run[r]))
  /\ run' = [run EXCEPT ![r].at = IF run[r].pages = <<>> THEN "category" ELSE "page",
                        ![r].docs = <<>>]
  /\ UNCHANGED <<rows, disk, faults, restarts>>

(* The title counts as fetched before the download is tried. *)
PassedTooEarly(s, l, skip) ==
  [s EXCEPT !.docs = Tail(@), !.seen = @ \cup {l}, !.got = @ \cup {TitleOf[l]}]

(* What a run marks of a link it passes over: seen, and, of a file that is *)
(* there from before, the title, so that its duplicate is let be.          *)
Passed(s, l, skip) ==
  [s EXCEPT !.docs = Tail(@), !.seen = @ \cup {l},
            !.got = IF l \notin s.seen /\ skip THEN @ \cup {TitleOf[l]} ELSE @]

Wanted(s, l, skip) == l \notin s.seen /\ ~skip /\ TitleOf[l] \notin s.got

(* A file whose row cannot be read is downloaded again (SkipURL).           *)
NextFile(r, read) ==
  LET s == run[r]
      l == Head(s.docs)
      skip == read /\ OnDisk(l)
  IN  /\ s.at = "file" /\ s.docs # <<>> /\ ~Full(s)
      /\ IF read THEN UNCHANGED faults ELSE l \notin s.seen /\ Fault
      /\ run' = [run EXCEPT ![r] = IF Wanted(s, l, skip)
                                   THEN [Passed(s, l, skip) EXCEPT !.at = "download", !.link = l]
                                   ELSE Passed(s, l, skip)]
      /\ UNCHANGED <<rows, disk, restarts>>

Downloaded(s) == [s EXCEPT !.at = "register", !.got = @ \cup {TitleOf[s.link]}, !.done = @ + 1]

Download(r) ==
  /\ run[r].at = "download" /\ run[r].link \notin Dead
  /\ disk' = disk \cup {run[r].link}
  /\ run' = [run EXCEPT ![r] = Downloaded(@)]
  /\ UNCHANGED <<rows, faults, restarts>>

(* The status is not 200, or what came is not the file (validateFileBytes). *)
Refused(r) ==
  /\ run[r].at = "download"
  /\ IF run[r].link \in Dead THEN UNCHANGED faults ELSE Fault
  /\ run' = [run EXCEPT ![r].at = "file", ![r].failed = @ \cup {run[r].link}]
  /\ UNCHANGED <<rows, disk, restarts>>

(* The row the body goes to: the one of the link; for the panel else the   *)
(* row of that title, if it had no body when the run began; else a new one. *)
(* A row that cannot be read counts as none.                                *)
Target(s, read) ==
  LET found == s.index[TitleOf[s.link]]
  IN  IF (read /\ rows[s.link] # Absent) \/ s.kind = "command" THEN s.link
      ELSE IF found.id # NoBody /\ found.body = NoBody THEN found.id ELSE s.link

Register(r, read) ==
  /\ run[r].at = "register"
  /\ IF read THEN UNCHANGED faults ELSE Fault
  /\ rows' = [rows EXCEPT ![Target(run[r], read)] = run[r].link]
  /\ run' = [run EXCEPT ![r].at = "file"]
  /\ UNCHANGED <<disk, restarts>>

(* The write fails: the run goes on and counts no error. *)
RegisterFails(r) ==
  /\ run[r].at = "register"
  /\ Fault
  /\ run' = [run EXCEPT ![r].at = "file", ![r].broken = TRUE]
  /\ UNCHANGED <<rows, disk, restarts>>

(* The listing looks a link up and writes a new row when it finds none, or  *)
(* cannot read it, and the row it found when that lacked the category, as   *)
(* only a row without a body may (upsertCatalogItems).                      *)
ReadItem(r, read) ==
  /\ run[r].at = "save" /\ run[r].docs # <<>>
  /\ IF read THEN UNCHANGED faults ELSE Fault
  /\ LET l == Head(run[r].docs)
     IN  \/ /\ ~read \/ rows[l] \in {Absent, NoBody}
            /\ run' = [run EXCEPT ![r].at = "write", ![r].docs = Tail(@), ![r].link = l]
         \/ /\ read /\ rows[l] # Absent
            /\ run' = [run EXCEPT ![r].docs = Tail(@)]
  /\ UNCHANGED <<rows, disk, restarts>>

(* The whole row is written, so that a body registered since it was read,  *)
(* or that could not be read, is gone from it (Upsert): every run under way *)
(* or over may then lack a file of that title.                             *)
WriteItem(r) ==
  /\ run[r].at = "write"
  /\ rows' = [rows EXCEPT ![run[r].link] = NoBody]
  /\ LET gone == {t \in Titles : HasFile(rows, t) /\ ~HasFile(rows', t)}
     IN  run' = [q \in Loaders |->
                   [run[q] EXCEPT !.at = IF q = r THEN "save" ELSE @,
                                  !.erased = IF run[q].at = "idle" THEN @ ELSE @ \cup gone]]
  /\ UNCHANGED <<disk, faults, restarts>>

(* The write fails, and the next item is taken. *)
WriteItemFails(r) ==
  /\ run[r].at = "write"
  /\ Fault
  /\ run' = [run EXCEPT ![r].at = "save"]
  /\ UNCHANGED <<rows, disk, restarts>>

Saved(r) ==
  /\ run[r].at = "save" /\ run[r].docs = <<>>
  /\ run' = [run EXCEPT ![r].at = "over"]
  /\ UNCHANGED <<rows, disk, faults, restarts>>

(* The next run in the place of one that is over. *)
Again(r) ==
  /\ run[r].at = "over" /\ restarts < MaxRestarts
  /\ restarts' = restarts + 1
  /\ run' = [run EXCEPT ![r] = NoRun]
  /\ UNCHANGED <<rows, disk, faults>>

(* The process stops in the middle of a run. *)
Stop(r) ==
  /\ run[r].at \notin {"idle", "over"} /\ restarts < MaxRestarts
  /\ restarts' = restarts + 1
  /\ run' = [run EXCEPT ![r] = NoRun]
  /\ UNCHANGED <<rows, disk, faults>>

Next == \E r \in Loaders :
  \/ StartPanel(r) \/ StartCommand(r) \/ StartCatalog(r) \/ NextCategory(r)
  \/ FetchPage(r) \/ FetchPageFails(r) \/ PageDone(r) \/ Download(r) \/ Refused(r)
  \/ \E read \in BOOLEAN : NextFile(r, read) \/ Register(r, read) \/ ReadItem(r, read)
  \/ RegisterFails(r) \/ WriteItem(r) \/ WriteItemFails(r)
  \/ Saved(r) \/ Again(r) \/ Stop(r)

Spec == Init /\ [][Next]_vars

------------------------------------------------------------------------------

(* Type correctness. *)
TypeOK ==
  /\ rows \in [Shown \cup Titles -> Shown \cup {NoBody, Absent}]
  /\ disk \subseteq Shown /\ faults \in 0..MaxFaults /\ restarts \in 0..MaxRestarts
  /\ \A r \in Loaders :
       /\ run[r].at \in {"idle", "category", "page", "file", "download", "register", "save", "write", "over"}
       /\ run[r].seen \subseteq Shown /\ run[r].failed \subseteq Shown
       /\ run[r].got \subseteq Titles /\ run[r].erased \subseteq Titles /\ run[r].cats \subseteq DOMAIN Listing

(* A run that got every page and wrote every row leaves, under its limit,  *)
(* every title it saw with a body in the registry, unless every link of    *)
(* that title failed: the dead duplicate of a document never stands for    *)
(* the live one (CollectViaCookie, registerOneCookieDoc), whatever other   *)
(* runs do; but a title whose only file the listing wrote over since the   *)
(* run began (upsertCatalogItems), which the next run fetches again.       *)
LiveTitlesAreFetched ==
  \A r \in Loaders :
    /\ run[r].at = "over" /\ run[r].kind # "catalog"
    /\ ~run[r].broken /\ ~Full(run[r])
    => \A l \in run[r].seen \ run[r].failed : TitleOf[l] \in run[r].erased \/ HasFile(rows, TitleOf[l])

(* No document is entered twice: no two rows hold the body of one link.    *)
(* That is what registerOneCookieDoc says its reconciliation is for.       *)
NoDuplicates ==
  \A a, b \in DOMAIN rows : rows[a] \in Shown /\ rows[a] = rows[b] => a = b

==============================================================================
