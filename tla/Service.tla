-------------------------------- MODULE Service --------------------------------
(***************************************************************************)
(* The start of the service: the schema is brought up to the release, best *)
(* effort, and each work is given to the one scheduler that does it.  The  *)
(* command "migrate" brings the same schema up from a process of its own.  *)
(* A migration is executed and then recorded, in two statements; a process *)
(* may die at any point, and the service is started again.                 *)
(***************************************************************************)
EXTENDS Integers

CONSTANTS Versions,       \* the numbers of the migrations
          OnDocuments,    \* those that alter the table documents
          First,          \* the migrations of the first release
          MaxFaults,      \* bound: statements and openings that fail
          MaxStarts,      \* bound: starts of both processes
          MaxReleases     \* bound: releases after the first

VARIABLES files,          \* the release: per version the contents of its file, 0 for none
          schema,         \* the contents last executed, 0 for none
          recorded,       \* the checksum in schema_migrations, 0 for none
          documents,      \* the table documents exists: the store creates it
          executions,     \* how often a version was executed
          cut,            \* versions executed but not recorded by their process
          proc,           \* the service and the command
          settings,       \* the configuration of the service
          schedule,       \* works under way, each with who schedules it
          budget

schemaVars == <<schema, recorded, documents, executions, cut>>
vars == <<files, schemaVars, proc, settings, schedule, budget>>

Processes == {"serve", "migrate"}
Contents  == 0..(1 + MaxReleases)
Other(p)  == CHOOSE q \in Processes : q # p
Down      == [at |-> "down", seen |-> [v \in Versions |-> 0], next |-> 1, clean |-> TRUE]

Works    == {"sources", "pages", "annotations"}
Settings == [migrate : BOOLEAN, postgres : BOOLEAN, on : {Works, {"sources"}}]

------------------------------------------------------------------------------
(* The works, and who is given them. *)

(* Documents and news go on whatever is set; entries need the tables of     *)
(* Postgres, the monitors of benefits and acts only their flag.             *)
Always(cfg)  == {"documents", "bodies"}
Entries(cfg)  == IF cfg.postgres /\ "sources" \in cfg.on THEN {"entries"} ELSE {}
Monitors(cfg) == IF "sources" \in cfg.on THEN {"monitors"} ELSE {}
Sources(cfg)  == Entries(cfg) \cup Monitors(cfg)
SitePages(cfg, pages) == IF pages /\ "pages" \in cfg.on THEN {"pages"} ELSE {}
Annotations(cfg) == IF cfg.postgres /\ "annotations" \in cfg.on THEN {"annotations"} ELSE {}

LoopPages(cfg, pages) == SitePages(cfg, pages)

By(who, works) == {[by |-> who, work |-> w] : w \in works}

(* Every work of the runner is a job with an interval of its own. *)
buildJobRunner(cfg, pages) ==
  By("runner", Always(cfg) \cup Annotations(cfg) \cup Sources(cfg) \cup SitePages(cfg, pages))

(* Without the runner two loops of one interval do the same, but nobody     *)
(* annotates the documents.                                                 *)
Pipeline == By("pipeline", {"documents"})
scheduleNewModules(cfg, pages) ==
  By("loop", {"bodies"} \cup Sources(cfg) \cup LoopPages(cfg, pages))

SchedulersTwice(cfg, jobs, pages) ==
  Pipeline \cup (IF jobs THEN buildJobRunner(cfg, pages) ELSE scheduleNewModules(cfg, pages))

Schedulers(cfg, jobs, pages) ==
  IF jobs THEN buildJobRunner(cfg, pages) ELSE Pipeline \cup scheduleNewModules(cfg, pages)

------------------------------------------------------------------------------

Spend(what) == budget[what] > 0 /\ budget' = [budget EXCEPT ![what] = @ - 1]
Fault       == Spend("faults")
Free        == UNCHANGED budget

At(p, where) == proc[p].at = where
(* p goes on; another process at work has then not been alone. *)
GoOn(p, next) ==
  LET q == Other(p)
      alone == proc[q].at \in {"down", "up"}
  IN  proc' = [proc EXCEPT ![p] = [next EXCEPT !.clean = @ /\ alone],
                           ![q].clean = @ /\ proc[q].at \in {"down", "up"}]
Move(p, where)   == GoOn(p, [proc[p] EXCEPT !.at = where])
(* After an error the command exits and the service goes on without. *)
GiveUp(p) == GoOn(p, [proc[p] EXCEPT !.at = IF p = "serve" THEN "assembling" ELSE "down",
                                     !.clean = FALSE])
Done(p) == Move(p, IF p = "serve" THEN "assembling" ELSE "down")

Start(p) == /\ At(p, "down") /\ Spend("starts")
            /\ GoOn(p, [Down EXCEPT !.at = IF p = "serve" THEN "opening" ELSE "loading"])
            /\ UNCHANGED <<files, schemaVars, settings, schedule>>

openStore == /\ At("serve", "opening")
             /\ \/ /\ Free /\ documents' = (documents \/ settings.postgres)
                   /\ Move("serve", IF settings.migrate THEN "loading" ELSE "assembling")
                \/ Fault /\ Move("serve", "down") /\ UNCHANGED documents
             /\ UNCHANGED <<files, schema, recorded, executions, cut, settings, schedule>>

loadApplied(p) ==
  /\ At(p, "loading")
  /\ \/ Free /\ GoOn(p, [proc[p] EXCEPT !.at = "applying", !.seen = recorded, !.next = 1])
     \/ Fault /\ GiveUp(p)
  /\ UNCHANGED <<files, schemaVars, settings, schedule>>

Applying(p, v) == At(p, "applying") /\ v = proc[p].next
Advance(p)     == GoOn(p, [proc[p] EXCEPT !.at = "applying", !.next = @ + 1])

Skip(p, v) == /\ Applying(p, v)
              /\ files[v] = 0 \/ proc[p].seen[v] = files[v]
              /\ Advance(p) /\ Free /\ UNCHANGED <<files, schemaVars, settings, schedule>>

(* A file that is not what was recorded stops it and the ones behind it. *)
Refuse(p, v) == /\ Applying(p, v)
                /\ files[v] # 0 /\ proc[p].seen[v] \notin {0, files[v]}
                /\ GiveUp(p) /\ Free /\ UNCHANGED <<files, schemaVars, settings, schedule>>

Runs(p, v) == Applying(p, v) /\ files[v] # 0 /\ proc[p].seen[v] = 0
CanRun(v)  == v \in OnDocuments => documents

Execute(p, v) ==
  /\ Runs(p, v) /\ CanRun(v)
  /\ schema' = [schema EXCEPT ![v] = files[v]]
  /\ executions' = [executions EXCEPT ![v] = @ + 1]
  /\ Move(p, "recording")
  /\ Free /\ UNCHANGED <<files, recorded, documents, cut, settings, schedule>>

ExecuteFails(p, v) ==
  /\ Runs(p, v)
  /\ IF CanRun(v) THEN Fault ELSE Free
  /\ GiveUp(p) /\ UNCHANGED <<files, schemaVars, settings, schedule>>

(* The version is the key of the table: a row that is there refuses another. *)
Record(p, v) ==
  /\ At(p, "recording") /\ v = proc[p].next
  /\ \/ /\ recorded[v] = 0 /\ Free
        /\ recorded' = [recorded EXCEPT ![v] = files[v]]
        /\ Advance(p) /\ UNCHANGED cut
     \/ /\ IF recorded[v] # 0 THEN Free ELSE Fault
        /\ cut' = cut \cup {v} /\ GiveUp(p) /\ UNCHANGED recorded
  /\ UNCHANGED <<files, schema, documents, executions, settings, schedule>>

Applied(p) == /\ At(p, "applying") /\ proc[p].next \notin Versions
              /\ Done(p) /\ Free /\ UNCHANGED <<files, schemaVars, settings, schedule>>

(* A store that does not open at the start is done without until the next. *)
Assemble ==
  /\ At("serve", "assembling")
  /\ \E jobs, pages \in BOOLEAN :
       /\ jobs => settings.postgres
       /\ pages => settings.postgres
       /\ IF settings.postgres /\ ~(jobs /\ pages) THEN Fault ELSE Free
       /\ schedule' = Schedulers(settings, jobs, pages)
  /\ Move("serve", "up")
  /\ UNCHANGED <<files, schemaVars, settings>>

(* Killed or told to stop; what was executed stays without its record. *)
Stop(p) == /\ ~At(p, "down")
           /\ cut' = IF At(p, "recording") THEN cut \cup {proc[p].next} ELSE cut
           /\ schedule' = IF p = "serve" THEN {} ELSE schedule
           /\ Move(p, "down") /\ Free
           /\ UNCHANGED <<files, schema, recorded, documents, executions, settings>>

(* A release adds the next migration, or changes the file of one. *)
Release == /\ \A p \in Processes : At(p, "down")
           /\ Spend("releases")
           /\ \E v \in Versions :
                /\ \A u \in Versions : u < v => files[u] # 0
                /\ files' = [files EXCEPT ![v] = @ + 1]
           /\ UNCHANGED <<schemaVars, proc, settings, schedule>>

Init == /\ files = [v \in Versions |-> IF v \in First THEN 1 ELSE 0]
        /\ schema = [v \in Versions |-> 0] /\ recorded = schema
        /\ documents = FALSE
        /\ executions = [v \in Versions |-> 0] /\ cut = {}
        /\ proc = [p \in Processes |-> Down]
        /\ settings \in Settings /\ schedule = {}
        /\ budget = [faults |-> MaxFaults, starts |-> MaxStarts, releases |-> MaxReleases]

Migrate(p) == \/ loadApplied(p) \/ Applied(p)
              \/ \E v \in Versions : \/ Skip(p, v) \/ Refuse(p, v) \/ Execute(p, v)
                                     \/ ExecuteFails(p, v) \/ Record(p, v)
Next == \/ \E p \in Processes : Start(p) \/ Stop(p) \/ Migrate(p)
        \/ openStore \/ Assemble \/ Release

------------------------------------------------------------------------------

TypeOK == /\ files \in [Versions -> Contents] /\ schema \in [Versions -> Contents]
          /\ recorded \in [Versions -> Contents] /\ documents \in BOOLEAN
          /\ executions \in [Versions -> Nat] /\ cut \subseteq Versions
          /\ settings \in Settings

(* What is recorded was executed as recorded, and nothing is executed       *)
(* before everything in front of it is recorded.                           *)
AppliedInOrder ==
  \A v \in Versions :
    /\ recorded[v] # 0 => schema[v] = recorded[v]
    /\ schema[v] # 0 => \A u \in Versions : u < v /\ files[u] # 0 => recorded[u] # 0

(* A migration is executed again only when its process was cut off before  *)
(* it recorded it, or two processes were at it at once.                     *)
RepeatedOnlyWhenCut ==
  \A v \in Versions : executions[v] > 1 =>
    v \in cut \/ \E p \in Processes : At(p, "recording") /\ proc[p].next = v

(* A service whose start met no fault and no other process runs on the      *)
(* schema of its release.                                                  *)
CleanStartIsUpToDate ==
  At("serve", "up") /\ proc["serve"].clean /\ settings.migrate /\ settings.postgres =>
    \A v \in Versions : recorded[v] = files[v]

(* Each work has one scheduler at most, and whatever is set up has one: only *)
(* the annotations go without while the journal of the jobs is away.        *)
EachWorkScheduledOnce ==
  /\ \A a, b \in schedule : a.work = b.work => a = b
  /\ At("serve", "up") =>
       LET works == {s.work : s \in schedule} IN
       /\ Always(settings) \cup Sources(settings) \subseteq works
       /\ (\E s \in schedule : s.by = "runner") => Annotations(settings) \subseteq works

==============================================================================
