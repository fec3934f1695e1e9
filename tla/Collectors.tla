------------------------------ MODULE Collectors -----------------------------
(***************************************************************************)
(* The collectors of the public sources and the health the panel shows of  *)
(* them.  A behaviour follows one source; its job and the command of the   *)
(* same name may run at once.  A run fetches the page, then looks up and   *)
(* writes one entry after another; the job announces each and records at   *)
(* the end how it went, the command does neither.                          *)
(***************************************************************************)
EXTENDS Integers, FiniteSets

CONSTANTS Runners,         \* the job and the command
          Entries,         \* entries a page may hold, numbered by date
          Versions,        \* texts an entry may have
          MaxEdits, MaxFaults, MaxCrashes,   \* bounds: edits of the page, failures, crashes
          StaleAfter       \* age at which a source is stale

VARIABLES source,          \* the source followed
          page,            \* text of each entry on the page, 0 if it is not there
          rows,            \* text of each stored entry, 0 if there is none
          run,             \* what each runner is doing
          news,            \* times each entry was announced as new, up to 2
          health,          \* the row of source_health
          edits, faults, crashes,
          fruitless,       \* recorded runs in a row that took nothing from a page with entries, up to 3
          unreached        \* recorded runs in a row that did not get the page, up to 3

collectVars == <<source, page, rows, run, news, health, edits, faults, crashes, fruitless, unreached>>

(* What a collector does with an entry: "insert" creates by key and updates *)
(* what it finds, "upsert" writes whole rows, "post" only creates.  Some    *)
(* skip a text that is stored already (sameSkipped) or a post no younger    *)
(* than the youngest stored (olderSkipped).  The ids of some are not UUIDs  *)
(* as their table demands (idFits), and the parser of some reports no       *)
(* failed fetch (quiet).                                                    *)
Collector(name, creates, idFits, quiet) ==
  [name |-> name, creates |-> creates, sameSkipped |-> FALSE, olderSkipped |-> FALSE,
   announces |-> TRUE, idFits |-> idFits, quiet |-> quiet]

IngestEvents      == Collector("events", "insert", TRUE, FALSE)
IngestContests    == Collector("contests", "insert", FALSE, TRUE)
IngestFAQ         == Collector("faq", "insert", FALSE, FALSE)
IngestResidents   == Collector("residents", "insert", FALSE, FALSE)
IngestRegulations == Collector("regulations", "upsert", TRUE, FALSE)
IngestPreferences == Collector("preferences", "upsert", TRUE, FALSE)
SyncNews  == [Collector("news", "upsert", TRUE, FALSE) EXCEPT !.sameSkipped = TRUE]
IngestPosts == [Collector("telegram", "post", FALSE, TRUE) EXCEPT !.olderSkipped = TRUE,
                                                                  !.announces = FALSE]

Sources == {IngestEvents, IngestContests, IngestFAQ, IngestResidents, IngestRegulations,
            IngestPreferences, SyncNews, IngestPosts}

Never == StaleAfter + 2
Idle  == [pc |-> "idle", todo |-> {}, got |-> [e \in Entries |-> 0], entry |-> 0,
          known |-> FALSE, taken |-> 0]

Capped(n, most) == IF n < most THEN n + 1 ELSE most

Init == /\ source \in Sources
        /\ page \in [Entries -> {0, 1}]
        /\ rows = [e \in Entries |-> 0]
        /\ run = [r \in Runners |-> Idle]
        /\ news = [e \in Entries |-> 0]
        /\ health = [fails |-> 0, age |-> Never]
        /\ edits = 0 /\ faults = 0 /\ crashes = 0
        /\ fruitless = 0 /\ unreached = 0

Edit == /\ edits < MaxEdits /\ edits' = edits + 1
        /\ \E e \in Entries :
             \E v \in (IF source.creates = "post" THEN {0, 1} ELSE Versions \cup {0}) \ {page[e]} :
               page' = [page EXCEPT ![e] = v]
        /\ UNCHANGED <<source, rows, run, news, health, faults, crashes, fruitless, unreached>>

\* Mutant: a failure leaves the count where it was.
RecordLastOnly(failed) == IF failed THEN [fails |-> 1, age |-> health.age]
                                    ELSE [fails |-> 0, age |-> 0]

(* Store.Record of the health package.                                      *)
Record(failed) == IF failed THEN [fails |-> Capped(health.fails, 3), age |-> health.age]
                            ELSE [fails |-> 0, age |-> 0]

(* The row of the source is written at the end of a run; when that write    *)
(* fails the error is dropped, or logged (pipeline.go), and the row stays.  *)
recordHealth(failed, kept) == health' = IF kept THEN Record(failed) ELSE health

Counted(n, kept) == IF kept THEN Capped(n, 3) ELSE n

(* What the panel computes of the row.                                      *)
Status == IF health.fails >= 3 THEN "failing"
          ELSE IF health.age = Never THEN "unknown"
          ELSE IF health.age > StaleAfter THEN "stale" ELSE "ok"

Tick == /\ health.age <= StaleAfter
        /\ health' = [health EXCEPT !.age = @ + 1]
        /\ UNCHANGED <<source, page, rows, run, news, edits, faults, crashes, fruitless, unreached>>

------------------------------------------------------------------------------

StartRun(r) == /\ run[r].pc = "idle"
               /\ run' = [run EXCEPT ![r].pc = "fetch"]
               /\ UNCHANGED <<source, page, rows, news, health, edits, faults, crashes, fruitless, unreached>>

\* Mutant: entries without a text are taken too.
FetchAll(r) ==
  /\ run[r].pc = "fetch"
  /\ run' = [run EXCEPT ![r].pc = "next", ![r].got = page, ![r].todo = Entries]
  /\ UNCHANGED <<source, page, rows, news, health, edits, faults, crashes, fruitless, unreached>>

(* The parser returns the entries of the page, but with an empty title or   *)
(* address, which the page never shows here.                                *)
Fetch(r) ==
  /\ run[r].pc = "fetch"
  /\ run' = [run EXCEPT ![r].pc = "next", ![r].got = page,
                        ![r].todo = {e \in Entries : page[e] # 0}]
  /\ UNCHANGED <<source, page, rows, news, health, edits, faults, crashes, fruitless, unreached>>

(* The commands hand the collectors no feed and keep no health.             *)
Reports(r) == r = "job"

\* n steps of the run fail, the fetch first.
Misses(r, n) == /\ run[r].pc = "fetch" /\ faults + n <= MaxFaults
                /\ faults' = faults + n
                /\ UNCHANGED <<source, page, rows, news, edits, crashes>>

(* The page does not answer, and the job records it, or fails to.          *)
FetchFails(r, kept) == /\ Misses(r, IF kept THEN 1 ELSE 2) /\ ~source.quiet /\ Reports(r)
                       /\ run' = [run EXCEPT ![r] = Idle]
                       /\ recordHealth(TRUE, kept)
                       /\ unreached' = Counted(unreached, kept)
                       /\ fruitless' = Counted(fruitless, kept)
CommandFails(r) == /\ Misses(r, 1) /\ ~source.quiet /\ ~Reports(r)
                   /\ run' = [run EXCEPT ![r] = Idle]
                   /\ UNCHANGED <<health, fruitless, unreached>>

(* The page does not answer, and the parser returns no entries and no error.*)
FetchesNothing(r) == /\ Misses(r, 1) /\ source.quiet
                     /\ run' = [run EXCEPT ![r].pc = "quiet"]
                     /\ UNCHANGED <<health, fruitless, unreached>>

(* GetLatestPostDate, read anew for every post.                             *)
latest == IF \E d \in Entries : rows[d] # 0
          THEN CHOOSE d \in Entries : rows[d] # 0 /\ \A c \in Entries : rows[c] # 0 => c <= d
          ELSE 0

Look(r, e, fails) ==
  /\ run[r].pc = "next" /\ e \in run[r].todo
  /\ fails => faults < MaxFaults
  /\ faults' = faults + (IF fails THEN 1 ELSE 0)
  /\ LET known == rows[e] # 0 /\ ~fails
         same  == source.sameSkipped /\ known /\ rows[e] = run[r].got[e]
         later == source.olderSkipped /\ ~fails /\ latest >= e
     IN run' = [run EXCEPT ![r].todo = @ \ {e}, ![r].known = known, ![r].entry = e,
                           ![r].pc = IF same \/ later THEN "next" ELSE "write"]
  /\ UNCHANGED <<source, page, rows, news, health, edits, crashes, fruitless, unreached>>

\* Mutant: the creation is an upsert.
WrittenAnyway(r) == source.idFits

\* Mutant: what is there is never updated.
WrittenOnce(r) == source.idFits /\ rows[run[r].entry] = 0

(* Update what was found, create what was not: an insertion fails on a key  *)
(* that is there by now, an upsert does not.                                *)
Written(r) == LET e == run[r].entry IN
              /\ source.idFits
              /\ (source.creates # "upsert" /\ ~run[r].known) => rows[e] = 0

Write(r, fails) ==
  /\ run[r].pc = "write"
  /\ fails => faults < MaxFaults
  /\ faults' = faults + (IF fails THEN 1 ELSE 0)
  /\ IF Written(r) /\ ~fails
     THEN /\ rows' = [rows EXCEPT ![run[r].entry] = run[r].got[run[r].entry]]
          /\ run' = [run EXCEPT ![r].pc = IF source.announces /\ Reports(r) THEN "tell" ELSE "next",
                                ![r].taken = Capped(@, 1)]
     ELSE run' = [run EXCEPT ![r].pc = "next"] /\ UNCHANGED rows
  /\ UNCHANGED <<source, page, news, health, edits, crashes, fruitless, unreached>>

(* changes.Notify: an error is dropped.                                     *)
Tell(r, fails) ==
  /\ run[r].pc = "tell"
  /\ fails => faults < MaxFaults
  /\ faults' = faults + (IF fails THEN 1 ELSE 0)
  /\ news' = IF run[r].known \/ fails THEN news
             ELSE [news EXCEPT ![run[r].entry] = Capped(@, 2)]
  /\ run' = [run EXCEPT ![r].pc = "next"]
  /\ UNCHANGED <<source, page, rows, health, edits, crashes, fruitless, unreached>>

(* The errors of single entries are in the result, not in the error that   *)
(* recordHealth gets.                                                       *)
Report(r, kept) ==
  /\ run[r].pc \in {"next", "quiet"} /\ run[r].todo = {} /\ Reports(r)
  /\ kept \/ faults < MaxFaults
  /\ faults' = faults + (IF kept THEN 0 ELSE 1)
  /\ recordHealth(FALSE, kept)
  /\ LET missed == run[r].pc = "quiet"
         empty  == run[r].taken = 0 /\ \E e \in Entries : run[r].got[e] # rows[e]
     IN  /\ fruitless' = IF missed \/ empty THEN Counted(fruitless, kept) ELSE 0
         /\ unreached' = IF missed THEN Counted(unreached, kept) ELSE 0
  /\ run' = [run EXCEPT ![r] = Idle]
  /\ UNCHANGED <<source, page, rows, news, edits, crashes>>

PrintResult(r) ==
  /\ run[r].pc \in {"next", "quiet"} /\ run[r].todo = {} /\ ~Reports(r)
  /\ run' = [run EXCEPT ![r] = Idle]
  /\ UNCHANGED <<source, page, rows, news, health, edits, faults, crashes, fruitless, unreached>>

Crash(r) == /\ run[r].pc # "idle" /\ crashes < MaxCrashes
            /\ crashes' = crashes + 1
            /\ run' = [run EXCEPT ![r] = Idle]
            /\ UNCHANGED <<source, page, rows, news, health, edits, faults, fruitless, unreached>>

------------------------------------------------------------------------------

Works(r) == \/ StartRun(r) \/ Fetch(r) \/ Report(r, TRUE) \/ PrintResult(r)
            \/ \E e \in Entries : Look(r, e, FALSE)
            \/ Write(r, FALSE) \/ Tell(r, FALSE)

Next == \/ Edit \/ Tick
        \/ \E r \in Runners : \/ Works(r) \/ CommandFails(r) \/ FetchesNothing(r) \/ Crash(r)
                              \/ FetchFails(r, TRUE) \/ FetchFails(r, FALSE) \/ Report(r, FALSE)
                              \/ \E e \in Entries : Look(r, e, TRUE)
                              \/ Write(r, TRUE) \/ Tell(r, TRUE)

Fairness == \A r \in Runners : WF_collectVars(Works(r))

------------------------------------------------------------------------------

TypeOK == /\ source \in Sources
          /\ page \in [Entries -> Versions \cup {0}] /\ rows \in [Entries -> Versions \cup {0}]
          /\ \A r \in Runners :
               /\ run[r].pc \in {"idle", "fetch", "quiet", "next", "write", "tell"}
               /\ run[r].todo \subseteq {e \in Entries : run[r].got[e] # 0}
               /\ run[r].pc \in {"write", "tell"} => run[r].got[run[r].entry] # 0
          /\ news \in [Entries -> 0..2]
          /\ health.fails \in 0..3 /\ health.age \in 0..Never

(* However the job and the command overlap and their lookups fail, an entry *)
(* with a key of its own is announced as new at most once, and only if it   *)
(* is stored.                                                              *)
NewOnce == source.creates = "insert" => \A e \in Entries : news[e] <= 1 /\ (news[e] = 1 => rows[e] # 0)

(* A source that says so and failed in its last three runs that were       *)
(* recorded, without one that succeeded between them, is shown as failing, *)
(* however old its last success is; a record that is lost delays it.       *)
FailureIsNoticed == (~source.quiet /\ unreached >= 3) => Status = "failing"

(* What the package promises of every source: three recorded runs in a row *)
(* that brought nothing are not shown as a source in order.                *)
HealthTellsLoss == fruitless >= 3 => Status # "ok"

(* Once the page rests, what it shows is what is stored.                   *)
CaughtUp == source.idFits => \A e \in Entries : page[e] # 0 => rows[e] = page[e]
==============================================================================
