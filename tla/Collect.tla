-------------------------------- MODULE Collect --------------------------------
(***************************************************************************)
(* The collectors: runs over one source, the pages they read, the documents *)
(* of the catalogue, walked, downloaded and kept in their redactions, the  *)
(* lists and answers drawn from what was collected, and the start of the   *)
(* service that collects.  A behaviour picks a part and stays with it.     *)
(***************************************************************************)
EXTENDS Integers, Sequences, FiniteSets

CONSTANTS Watches,                                  \* Collectors: part -> setting
          Sheets,                                   \* Cards: part -> pages
          Shown, Titles, Listing, TitleOf, Dead, Known,
          Loads,                                    \* Downloads: part -> setting
          WalkPages, WalkLimits,                    \* SiteWalk
          MaxRows, ListLimits, PageLimit,           \* Listings
          Matching, PerPage, Window, MaxTouches,    \* Paging
          Migrations, OnDocuments, Shipped,
          StartFaults, MaxStarts, MaxReleases,      \* Service
          Editions, MaxPublished, VersionFaults,    \* Versions
          Lines, MaxLines,                          \* Compare
          Statuses,                                 \* Eligibility
          MaxNode, Trees, Dims, ScrollSize, NavFaults   \* NavIndex

VARIABLES part,
          source, page, rows, run, news, health, edits, faults, crashes,
          fruitless, unreached,                                     \* Collectors
          doc,                                                      \* Cards
          disk, restarts,           \* Downloads, with rows, run and faults
          links, maxPages, queue, visited, lost,                    \* SiteWalk
          table, asked,                                             \* Listings
          list, reader, fresh, touches,                             \* Paging
          files, schema, recorded, documents, executions, cut, proc,
          settings, schedule, budget,                               \* Service
          site, row, live, archive, versions, seen, work, card, spent,   \* Versions
          older, newer,                                             \* Compare
          company, query, check,                                    \* Eligibility
          collection, indexer, maps, nav                            \* NavIndex

collectVars == <<source, page, rows, run, news, health, edits, faults, crashes,
                 fruitless, unreached>>
downloadVars == <<rows, disk, run, faults, restarts>>
sideVars == <<source, page, news, health, edits, crashes, fruitless, unreached>>
walkVars == <<links, maxPages, queue, visited, lost>>
listVars == <<table, asked, list, reader, fresh, touches>>
serviceVars == <<files, schema, recorded, documents, executions, cut, proc, settings,
                 schedule, budget>>
versionVars == <<site, row, live, archive, versions, seen, work, card, spent>>
diffVars == <<older, newer>>
companyVars == <<company, query, check>>
navVars == <<collection, indexer, maps, nav>>
answerVars == <<versionVars, diffVars, companyVars, navVars>>
vars == <<part, collectVars, doc, disk, restarts, walkVars, listVars, serviceVars, answerVars>>

\* s tells who runs, what the page may hold and what may happen.
Watch(s) == INSTANCE Collectors WITH Runners <- s.runners, Entries <- s.entries,
              Versions <- s.texts, MaxEdits <- s.edits, MaxFaults <- s.faults,
              MaxCrashes <- s.crashes, StaleAfter <- s.stale
\* s tells whose pages are read, and of which nodes they are.
Parser(s) == INSTANCE Cards WITH Site <- s.site, MaxNodes <- s.nodes, Kinds <- s.kinds
\* s tells which runs there are, and what limits them.
Loading(s) == INSTANCE Downloads WITH Loaders <- DOMAIN s.kinds, Kinds <- s.kinds,
                Limit <- s.limit, MaxPages <- s.pages, MaxFaults <- s.faults,
                MaxRestarts <- s.restarts
Walk    == INSTANCE SiteWalk WITH Pages <- WalkPages, Limits <- WalkLimits
Lists   == INSTANCE Listings WITH Limits <- ListLimits
Leaves  == INSTANCE Paging WITH Pages <- Matching
Boot    == INSTANCE Service WITH Versions <- 1..Migrations, First <- Shipped, MaxFaults <- StartFaults
Redactions == INSTANCE Versions WITH MaxEdits <- MaxPublished, MaxFaults <- VersionFaults
Texts   == INSTANCE Compare
Company == INSTANCE Eligibility
Map     == INSTANCE NavIndex WITH Nodes <- 1..MaxNode, PageSize <- ScrollSize, MaxFaults <- NavFaults

------------------------------------------------------------------------------

(* Entries and their texts are numbers; 0 is no text.                      *)
ASSUME WatchesAssumption ==
  \A p \in DOMAIN Watches :
    LET s == Watches[p] IN
    /\ s.entries \subseteq Nat \ {0}
    /\ s.texts \subseteq Nat \ {0} /\ 1 \in s.texts
    /\ s.edits \in Nat /\ s.faults \in Nat /\ s.crashes \in Nat /\ s.stale \in Nat

ASSUME SheetsAssumption ==
  \A p \in DOMAIN Sheets :
    /\ Sheets[p].site \in {"events", "contests", "regulations", "preferences", "faq", "residents"}
    /\ Sheets[p].nodes \in Nat

(* A category is a sequence of pages, of one at least, a page one of links  *)
(* with a title each; the marks of a row without a body and of none are     *)
(* neither.                                                                *)
ASSUME LoadsAssumption ==
  /\ TitleOf \in [Shown -> Titles]
  /\ \A c \in DOMAIN Listing : Listing[c] \in Seq(Seq(Shown)) \ {<<>>}
  /\ {"absent", "none"} \cap (Shown \cup Titles) = {}
  /\ \A p \in DOMAIN Loads :
       LET s == Loads[p] IN
       /\ s.limit \in Nat /\ s.pages \in Nat \ {0} /\ s.faults \in Nat /\ s.restarts \in Nat

ASSUME WalkAssumption ==
  WalkPages \subseteq Nat /\ IsFiniteSet(WalkPages) /\ 1 \in WalkPages /\ WalkLimits \subseteq Nat

ASSUME ListsAssumption ==
  MaxRows \in Nat /\ ListLimits \subseteq Nat /\ PageLimit \in Nat \ {0}

(* A leaf has rows, and its window holds its neighbours (seven leaves in   *)
(* the code).                                                              *)
ASSUME LeavesAssumption ==
  IsFiniteSet(Matching) /\ PerPage \in Nat \ {0} /\ Window \in Nat /\ Window >= 3 /\ MaxTouches \in Nat

(* A release carries the migrations up to some number.                     *)
ASSUME ServiceAssumption ==
  /\ Migrations \in Nat /\ StartFaults \in Nat /\ MaxStarts \in Nat /\ MaxReleases \in Nat
  /\ Shipped \subseteq 1..Migrations
  /\ \A v \in Shipped, u \in 1..Migrations : u < v => u \in Shipped

ASSUME VersionsAssumption ==
  Editions \subseteq Nat \ {0} /\ MaxPublished \in Nat /\ VersionFaults \in Nat

ASSUME TextsAssumption == MaxLines \in Nat

(* A register tells no state by the word that stands for none.             *)
ASSUME CompanyAssumption == "unknown" \notin Statuses

ASSUME MapAssumption ==
  /\ MaxNode \in Nat /\ ScrollSize \in Nat \ {0} /\ NavFaults \in Nat
  /\ Trees \in Seq(SUBSET (1..MaxNode)) /\ Trees # <<>>
  /\ Dims \in [DOMAIN Trees -> Nat \ {0}]

(* The parts have names of their own.                                      *)
OtherParts == {"walk", "lists", "leaves", "service", "versions", "texts", "company", "map"}

ASSUME PartsAssumption ==
  /\ DOMAIN Watches \cap (DOMAIN Sheets \cup DOMAIN Loads \cup OtherParts) = {}
  /\ DOMAIN Sheets \cap (DOMAIN Loads \cup OtherParts) = {}
  /\ DOMAIN Loads \cap OtherParts = {}

------------------------------------------------------------------------------

NoSides == source = 0 /\ page = 0 /\ news = 0 /\ health = 0 /\ edits = 0 /\ crashes = 0
           /\ fruitless = 0 /\ unreached = 0
NoWalk == links = 0 /\ maxPages = 0 /\ queue = 0 /\ visited = {} /\ lost = {}
NoDisk == disk = {} /\ restarts = 0
NoRuns == source = 0 /\ page = 0 /\ rows = 0 /\ run = 0 /\ news = 0 /\ health = 0 /\ edits = 0
          /\ faults = 0 /\ crashes = 0 /\ fruitless = 0 /\ unreached = 0

NoTable == table = 0 /\ asked = 0
NoLeaves == list = 0 /\ reader = 0 /\ fresh = 0 /\ touches = 0
NoLists == NoTable /\ NoLeaves
NoService == files = 0 /\ schema = 0 /\ recorded = 0 /\ documents = 0 /\ executions = 0
             /\ cut = {} /\ proc = 0 /\ settings = 0 /\ schedule = {} /\ budget = 0
NoVersions == site = 0 /\ row = 0 /\ live = 0 /\ archive = 0 /\ versions = 0 /\ seen = 0
              /\ work = 0 /\ card = 0 /\ spent = 0
NoTexts == older = 0 /\ newer = 0
NoCompany == company = 0 /\ query = 0 /\ check = 0
NoMap == collection = 0 /\ indexer = 0 /\ maps = 0 /\ nav = 0

CollectInit ==
  /\ doc = <<>> /\ NoLists
  /\ \/ \E p \in DOMAIN Watches : part = p /\ Watch(Watches[p])!Init /\ NoDisk /\ NoWalk
     \/ part \in DOMAIN Sheets /\ NoRuns /\ NoDisk /\ NoWalk
     \/ \E p \in DOMAIN Loads : part = p /\ Loading(Loads[p])!Init /\ NoSides /\ NoWalk
     \/ part = "walk" /\ Walk!Init /\ NoRuns /\ NoDisk

ListInit == /\ doc = <<>> /\ NoRuns /\ NoDisk /\ NoWalk
            /\ \/ part = "lists" /\ Lists!Init /\ NoLeaves
               \/ part = "leaves" /\ Leaves!Init /\ NoTable

StartInit == \/ (CollectInit \/ ListInit) /\ NoService
             \/ /\ part = "service" /\ Boot!Init
                /\ doc = <<>> /\ NoRuns /\ NoDisk /\ NoWalk /\ NoLists

AnswerInit == \/ part = "versions" /\ Redactions!Init /\ NoTexts /\ NoCompany /\ NoMap
              \/ part = "texts" /\ Texts!Init /\ NoVersions /\ NoCompany /\ NoMap
              \/ part = "company" /\ Company!Init /\ NoVersions /\ NoTexts /\ NoMap
              \/ part = "map" /\ Map!Init /\ NoVersions /\ NoTexts /\ NoCompany

Init == \/ StartInit /\ NoVersions /\ NoTexts /\ NoCompany /\ NoMap
        \/ AnswerInit /\ doc = <<>> /\ NoRuns /\ NoDisk /\ NoWalk /\ NoLists /\ NoService

Gather(A) == A /\ UNCHANGED <<part, doc, disk, restarts, walkVars, listVars, serviceVars, answerVars>>
Read(A)   == A /\ UNCHANGED <<part, collectVars, disk, restarts, walkVars, listVars, serviceVars, answerVars>>
Fetch(A)  == A /\ UNCHANGED <<part, doc, sideVars, walkVars, listVars, serviceVars, answerVars>>
Visit(A)  == A /\ UNCHANGED <<part, doc, collectVars, disk, restarts, listVars, serviceVars, answerVars>>
List(A)   == A /\ UNCHANGED <<part, doc, collectVars, disk, restarts, walkVars, serviceVars, answerVars>>
Serve(A)  == A /\ UNCHANGED <<part, doc, collectVars, disk, restarts, walkVars, listVars, answerVars>>
Answer(A) == A /\ UNCHANGED <<part, doc, collectVars, disk, restarts, walkVars, listVars, serviceVars>>

WatchStep   == \E p \in DOMAIN Watches : part = p /\ Gather(Watch(Watches[p])!Next)
ParserStep  == \E p \in DOMAIN Sheets : part = p /\ Read(Parser(Sheets[p])!Next)
LoadStep    == \E p \in DOMAIN Loads : part = p /\ Fetch(Loading(Loads[p])!Next)
WalkStep    == part = "walk" /\ Visit(Walk!Next)
ListStep    == part = "lists" /\ List(Lists!Next /\ UNCHANGED <<list, reader, fresh, touches>>)
LeafStep    == part = "leaves" /\ List(Leaves!Next /\ UNCHANGED <<table, asked>>)
BootStep    == part = "service" /\ Serve(Boot!Next)
VersionStep == part = "versions" /\ Answer(Redactions!Next /\ UNCHANGED <<diffVars, companyVars, navVars>>)
TextStep    == part = "texts" /\ Answer(Texts!Next /\ UNCHANGED <<versionVars, companyVars, navVars>>)
CompanyStep == part = "company" /\ Answer(Company!Next /\ UNCHANGED <<versionVars, diffVars, navVars>>)
MapStep     == part = "map" /\ Answer(Map!Next /\ UNCHANGED <<versionVars, diffVars, companyVars>>)

Next == \/ WatchStep \/ ParserStep \/ LoadStep \/ WalkStep \/ ListStep \/ LeafStep
        \/ BootStep \/ VersionStep \/ TextStep \/ CompanyStep \/ MapStep

Fairness == \A p \in DOMAIN Watches : \A r \in Watches[p].runners :
              WF_vars(part = p /\ Gather(Watch(Watches[p])!Works(r)))

Spec == Init /\ [][Next]_vars /\ Fairness

------------------------------------------------------------------------------

(* Type correctness of the part that runs. *)
TypeOK == /\ \A p \in DOMAIN Watches : part = p => Watch(Watches[p])!TypeOK
          /\ \A p \in DOMAIN Loads : part = p => Loading(Loads[p])!TypeOK
          /\ part = "walk" => Walk!TypeOK
          /\ part = "leaves" => Leaves!TypeOK
          /\ part = "service" => Boot!TypeOK
          /\ part = "versions" => Redactions!TypeOK
          /\ part = "texts" => Texts!TypeOK
          /\ part = "company" => Company!TypeOK
          /\ part = "map" => Map!TypeOK

(* An entry that has a key of its own is announced as new at most once,    *)
(* though the job and the command overlap (IngestEvents).                  *)
NewOnce == \A p \in DOMAIN Watches : part = p => Watch(Watches[p])!NewOnce

(* Three failed runs in a row that were recorded show the source as        *)
(* failing (Source.State).                                                 *)
FailureIsNoticed == \A p \in DOMAIN Watches : part = p => Watch(Watches[p])!FailureIsNoticed

(* Three recorded runs in a row that brought nothing from a page with      *)
(* entries are not shown as a source in order (comment of package health). *)
HealthTellsLoss == \A p \in DOMAIN Watches : part = p => Watch(Watches[p])!HealthTellsLoss

(* Of a box and the boxes inside it the entry of the innermost is the one  *)
(* that stays in the table (findEventCards and its like).                  *)
InnermostStays == \A p \in DOMAIN Sheets : part = p => Parser(Sheets[p])!InnermostStays

(* Once a page rests, the table comes to show what it shows.               *)
TableCatchesUp == <>[](\A p \in DOMAIN Watches : part = p => Watch(Watches[p])!CaughtUp)

(* A download leaves no title without its live file, but for one whose only *)
(* file the listing wrote over meanwhile, which the next run fetches; a     *)
(* walk leaves no page it could have come to, a start of the service no     *)
(* migration and no work, and none twice, a fault no more than one          *)
(* redaction of a document, and a pass over the site map no page            *)
(* (CollectViaCookie, EnumerateSite, ApplyMigrations, cmdServe,             *)
(* downloadDocument, Indexer.Index).                                        *)
NothingIsMissed == /\ \A p \in DOMAIN Loads : part = p => Loading(Loads[p])!LiveTitlesAreFetched
                   /\ part = "walk" => Walk!WalkIsComplete
                   /\ part = "service" => /\ Boot!AppliedInOrder
                                          /\ Boot!RepeatedOnlyWhenCut
                                          /\ Boot!CleanStartIsUpToDate
                                          /\ Boot!EachWorkScheduledOnce
                   /\ part = "versions" => Redactions!HistoryKept
                   /\ part = "map" => Map!PassCleansUp

(* What is shown is what was asked for: a list keeps back a row only behind *)
(* as many newer ones as its limit, or before its offset, and who reads a   *)
(* list to its end, under the filters its links hand on, misses no more     *)
(* than moved meanwhile (Recent, ListEvents, handleSitePagesPage); what is  *)
(* compared followed one another, and the difference is exact               *)
(* (handleDiffPage, CompareDocuments); a company is judged by its own state *)
(* and form, told plainly (CheckByINN); a page once filled in is found      *)
(* (get_navigation).                                                        *)
ShownIsTrue == /\ part = "lists" => Lists!AnswersTheQuestion
               /\ part = "leaves" => Leaves!MissedAtMostMoved /\ Leaves!LinksLeadOn
               /\ part = "versions" => Redactions!ComparedFollow
               /\ part = "texts" => Texts!DifferenceIsExact
               /\ part = "company" => Company!VerdictIsSteady
               /\ part = "map" => Map!AnswersKeepNodes

(* No document is entered twice: registerOneCookieDoc reconciles by title  *)
(* so as not to breed duplicates, where one run follows another.           *)
NoDuplicates == \A p \in DOMAIN Loads :
                  part = p /\ Loads[p].restarts > 0 => Loading(Loads[p])!NoDuplicates

==============================================================================
