---------------------------- MODULE JobScheduler ----------------------------
(***************************************************************************)
(* The job scheduler: package jobsched (runner.go, postgres.go) and the    *)
(* admin handlers of admin/scheduler_admin.go that edit its configuration. *)
(*                                                                         *)
(* One goroutine, Runner.Run, reads the table scheduler_jobs and executes  *)
(* one job at a time; HTTP handlers of the same process put names into the *)
(* trigger channel and overwrite rows of the table; the process may stop   *)
(* at any step and come back; every call to the database may fail.         *)
(*                                                                         *)
(* Time is relative: next_run_at is kept as the time that is left until    *)
(* it, 0 when it has come, Never when the column is NULL.  Jobs are        *)
(* numbered in the order of their registration.                            *)
(***************************************************************************)
EXTENDS Integers, Sequences, FiniteSets

CONSTANTS
    NumJobs,          \* how many jobs are registered with Register
    Intervals,        \* the intervals an administrator may choose
    DefaultInterval,  \* defaultInterval of every job
    QueueCap,         \* capacity of the channel trigger (32 in the code)
    RunId,            \* ids of journal rows, gen_random_uuid()
    NoRunId,          \* no journal row is open
    MaxFaults         \* bound: failed database calls and process stops

ASSUME JobSchedulerAssumption ==
    /\ NumJobs \in Nat \ {0}
    /\ Intervals \subseteq Nat \ {0}
    /\ DefaultInterval \in Nat \ {0}
    /\ QueueCap \in Nat \ {0}
    /\ MaxFaults \in Nat
    /\ RunId \subseteq Nat
    /\ NoRunId \notin RunId

Job   == 1..NumJobs
Never == -1
NoJob == 0

VARIABLES
    rows,     \* table scheduler_jobs
    open,     \* rows of scheduler_runs whose status is 'running'
    pc,       \* where Runner.Run is
    snap,     \* byName: what ListJobs returned, rows already visited dropped
    idx,      \* position of the registration or of the scan
    cur,      \* the job execute was called for
    trig,     \* its trigger
    ival,     \* the interval execute was called with
    runId,    \* the journal row execute opened
    running,  \* Runner.running
    queue,    \* Runner.trigger
    asked,    \* jobs a request has found free to trigger and not yet sent
    edited,   \* history: jobs whose row was edited since ListJobs
    faults    \* history: failed calls and stops so far

vars == <<rows, open, pc, snap, idx, cur, trig, ival, runId, running, queue,
          asked, edited, faults>>

Interval == Intervals \cup {DefaultInterval}

Row == [present : BOOLEAN, interval : Interval, enabled : BOOLEAN,
        next : Nat \cup {Never}]

NoRow == [present |-> FALSE, interval |-> DefaultInterval,
          enabled |-> FALSE, next |-> Never]

NoSnap == [j \in Job |-> NoRow]

PcLabel == {"down", "register", "list", "scan", "idle", "manual",
            "start", "body", "finish", "setstate"}

\* The places between the two critical sections of execute.
Executing == {"start", "body", "finish", "setstate"}

RunRow == [id : RunId, job : Job]

TypeOK ==
    /\ rows \in [Job -> Row]
    /\ open \subseteq RunRow
    /\ pc \in PcLabel
    /\ snap \in [Job -> Row]
    /\ idx \in 1..(NumJobs + 1)
    /\ cur \in Job \cup {NoJob}
    /\ trig \in {"schedule", "startup", "manual"}
    /\ ival \in Interval
    /\ runId \in RunId \cup {NoRunId}
    /\ running \subseteq Job
    /\ queue \in Seq(Job)
    /\ asked \subseteq Job
    /\ edited \subseteq Job
    /\ faults \in 0..MaxFaults

Init ==
    /\ rows = NoSnap
    /\ open = {}
    /\ pc = "down"
    /\ snap = NoSnap
    /\ idx = 1
    /\ cur = NoJob
    /\ trig = "schedule"
    /\ ival = DefaultInterval
    /\ runId = NoRunId
    /\ running = {}
    /\ queue = << >>
    /\ asked = {}
    /\ edited = {}
    /\ faults = 0

\* A database call of the runner fails; the bound MaxFaults keeps the number
\* of failures finite.
Fault == faults < MaxFaults /\ faults' = faults + 1

-----------------------------------------------------------------------------
(* Run: registration, the select loop, scan and runManual.                 *)

\* The process starts: NewRunner, the registrations, then go Run(ctx).
Boot ==
    /\ pc = "down"
    /\ pc' = "register"
    /\ idx' = 1
    /\ UNCHANGED <<rows, open, snap, cur, trig, ival, runId, running, queue,
                   asked, edited, faults>>

DefaultRow == [present |-> TRUE, interval |-> DefaultInterval,
               enabled |-> TRUE, next |-> Never]

AfterRegister(i) ==
    IF i = NumJobs THEN pc' = "list" /\ idx' = 1
                   ELSE pc' = pc /\ idx' = i + 1

\* UpsertJobDefault: an existing row keeps the administrator's settings.
Register ==
    /\ pc = "register"
    /\ rows' = [rows EXCEPT ![idx] = IF @.present THEN @ ELSE DefaultRow]
    /\ AfterRegister(idx)
    /\ UNCHANGED <<open, snap, cur, trig, ival, runId, running, queue, asked,
                   edited, faults>>

RegisterFails ==
    /\ pc = "register"
    /\ Fault
    /\ AfterRegister(idx)
    /\ UNCHANGED <<rows, open, snap, cur, trig, ival, runId, running, queue,
                   asked, edited>>

\* scan reads the whole table once.
List ==
    /\ pc = "list"
    /\ pc' = "scan"
    /\ snap' = rows
    /\ idx' = 1
    /\ edited' = {}
    /\ UNCHANGED <<rows, open, cur, trig, ival, runId, running, queue, asked,
                   faults>>

ListFails ==
    /\ pc = "list"
    /\ Fault
    /\ pc' = "idle"
    /\ UNCHANGED <<rows, open, snap, idx, cur, trig, ival, runId, running,
                   queue, asked, edited>>

\* Mutant: scan does not look at enabled.
MutIsDue(row) == row.present /\ row.next \in {Never, 0}

IsDue(row) == row.present /\ row.enabled /\ row.next \in {Never, 0}

Eligible == {j \in idx..NumJobs : IsDue(snap[j])}

\* The first critical section of execute; its early return gives the control
\* back to the caller at once.
EnterExecute(j, back) ==
    /\ pc' = IF j \in running THEN back ELSE "start"
    /\ running' = running \cup {j}

\* scan reads the clock and goes through the snapshot up to the next job that
\* has to be started.
ScanNext ==
    /\ pc = "scan"
    /\ \E j \in Eligible :
         /\ \A k \in Eligible : j <= k
         /\ cur' = j
         /\ trig' = IF snap[j].next = Never THEN "startup" ELSE "schedule"
         /\ ival' = snap[j].interval
         /\ idx' = j + 1
         /\ snap' = [k \in Job |-> IF k <= j THEN NoRow ELSE snap[k]]
         /\ EnterExecute(j, "scan")
    /\ UNCHANGED <<rows, open, runId, queue, asked, edited, faults>>

ScanEnds ==
    /\ pc = "scan"
    /\ Eligible = {}
    /\ pc' = "idle"
    /\ snap' = NoSnap
    /\ idx' = 1
    /\ UNCHANGED <<rows, open, cur, trig, ival, runId, running, queue, asked,
                   edited, faults>>

\* case <-ticker.C
TickerFires ==
    /\ pc = "idle"
    /\ pc' = "list"
    /\ UNCHANGED <<rows, open, snap, idx, cur, trig, ival, runId, running,
                   queue, asked, edited, faults>>

\* Mutant: a trigger of a disabled job is thrown away.
MutTakeTrigger ==
    /\ pc = "idle"
    /\ queue # << >>
    /\ pc' = IF rows[Head(queue)].enabled THEN "manual" ELSE "idle"
    /\ cur' = IF rows[Head(queue)].enabled THEN Head(queue) ELSE cur
    /\ queue' = Tail(queue)
    /\ UNCHANGED <<rows, open, snap, idx, trig, ival, runId, running, asked,
                   edited, faults>>

\* case name := <-r.trigger
TakeTrigger ==
    /\ pc = "idle"
    /\ queue # << >>
    /\ pc' = "manual"
    /\ cur' = Head(queue)
    /\ queue' = Tail(queue)
    /\ UNCHANGED <<rows, open, snap, idx, trig, ival, runId, running, asked,
                   edited, faults>>

\* runManual asks for the interval only: enabled is not looked at.
RunManual ==
    /\ pc = "manual"
    /\ trig' = "manual"
    /\ ival' = IF rows[cur].present THEN rows[cur].interval ELSE DefaultInterval
    /\ EnterExecute(cur, "idle")
    /\ UNCHANGED <<rows, open, snap, idx, cur, runId, queue, asked, edited,
                   faults>>

RunManualGetFails ==
    /\ pc = "manual"
    /\ Fault
    /\ trig' = "manual"
    /\ ival' = DefaultInterval
    /\ EnterExecute(cur, "idle")
    /\ UNCHANGED <<rows, open, snap, idx, cur, runId, queue, asked, edited>>

-----------------------------------------------------------------------------
(* execute.                                                                *)

\* The variables of execute when it is not being executed.
NoLocals ==
    /\ cur' = NoJob
    /\ trig' = "schedule"
    /\ ival' = DefaultInterval
    /\ runId' = NoRunId

\* Mutant: the flag is cleared on the main path only, not by defer.
MutLeaveExecuteKeepsFlag ==
    /\ NoLocals
    /\ running' = IF pc = "setstate" THEN running \ {cur} ELSE running
    /\ pc' = IF trig = "manual" THEN "idle" ELSE "scan"

\* Mutant: scan ends after the first job it starts.
MutLeaveExecuteEndsScan ==
    /\ NoLocals
    /\ running' = running \ {cur}
    /\ pc' = "idle"

\* The deferred second critical section, and the return to scan or to Run.
LeaveExecute ==
    /\ NoLocals
    /\ running' = running \ {cur}
    /\ pc' = IF trig = "manual" THEN "idle" ELSE "scan"

\* Mutant: the body starts before its journal row is written.
MutStartRun ==
    /\ pc = "start"
    /\ runId' \in RunId
    /\ pc' = "body"
    /\ UNCHANGED <<rows, open, snap, idx, cur, trig, ival, running, queue,
                   asked, edited, faults>>

\* Ids are drawn at random and only told apart: the least one that is free
\* stands for any.
StartRun ==
    /\ pc = "start"
    /\ \E id \in RunId \ {r.id : r \in open} :
         /\ \A other \in RunId \ {r.id : r \in open} : id <= other
         /\ open' = open \cup {[id |-> id, job |-> cur]}
         /\ runId' = id
    /\ pc' = "body"
    /\ UNCHANGED <<rows, snap, idx, cur, trig, ival, running, queue, asked,
                   edited, faults>>

\* No journal row: execute returns and the schedule is left as it was.
StartRunFails ==
    /\ pc = "start"
    /\ Fault
    /\ LeaveExecute
    /\ UNCHANGED <<rows, open, snap, idx, queue, asked, edited>>

\* safeRun returns: success, an error and a panic all continue the same way.
BodyReturns ==
    /\ pc = "body"
    /\ pc' = "finish"
    /\ UNCHANGED <<rows, open, snap, idx, cur, trig, ival, runId, running,
                   queue, asked, edited, faults>>

\* Mutant: the result is not written to the journal row.
MutFinishRun ==
    /\ pc = "finish"
    /\ pc' = "setstate"
    /\ UNCHANGED <<rows, open, snap, idx, cur, trig, ival, runId, running,
                   queue, asked, edited, faults>>

FinishRun ==
    /\ pc = "finish"
    /\ open' = {r \in open : r.id # runId}
    /\ pc' = "setstate"
    /\ UNCHANGED <<rows, snap, idx, cur, trig, ival, runId, running, queue,
                   asked, edited, faults>>

FinishRunFails ==
    /\ pc = "finish"
    /\ Fault
    /\ pc' = "setstate"
    /\ UNCHANGED <<rows, open, snap, idx, cur, trig, ival, runId, running,
                   queue, asked, edited>>

\* Mutant: the whole row goes back as it was read before the run.
MutSetJobRunState ==
    /\ pc = "setstate"
    /\ rows' = [rows EXCEPT ![cur] =
                   IF @.present THEN [@ EXCEPT !.next = ival, !.interval = ival]
                                ELSE @]
    /\ LeaveExecute
    /\ UNCHANGED <<open, snap, idx, queue, asked, edited, faults>>

\* next_run_at = now + the interval execute was called with.
SetJobRunState ==
    /\ pc = "setstate"
    /\ rows' = [rows EXCEPT ![cur] = IF @.present THEN [@ EXCEPT !.next = ival]
                                                  ELSE @]
    /\ LeaveExecute
    /\ UNCHANGED <<open, snap, idx, queue, asked, edited, faults>>

SetJobRunStateFails ==
    /\ pc = "setstate"
    /\ Fault
    /\ LeaveExecute
    /\ UNCHANGED <<rows, open, snap, idx, queue, asked, edited>>

-----------------------------------------------------------------------------
(* The administrator, the clock and the death of the process.              *)

\* handleJobRun -> Trigger looks at running in a critical section of its own.
\* A job that is being executed is refused, which changes nothing.
Trigger(j) ==
    /\ pc # "down"
    /\ j \notin running
    /\ asked' = asked \cup {j}
    /\ UNCHANGED <<rows, open, pc, snap, idx, cur, trig, ival, runId, running,
                   queue, edited, faults>>

\* Trigger sends, whatever has begun to run since it looked; a full channel is
\* refused.  Another request for the job may still be on its way.
Send(j) ==
    /\ j \in asked
    /\ asked' \in {asked, asked \ {j}}
    /\ queue' = IF Len(queue) < QueueCap THEN Append(queue, j) ELSE queue
    /\ UNCHANGED <<rows, open, pc, snap, idx, cur, trig, ival, runId, running,
                   edited, faults>>

\* Mutant: next_run_at is left as it was.
MutUpdateJobConfig(j, interval, enabled) ==
    /\ pc # "down"
    /\ rows[j].present
    /\ rows' = [rows EXCEPT ![j].interval = interval, ![j].enabled = enabled]
    /\ edited' = edited \cup {j}
    /\ UNCHANGED <<open, pc, snap, idx, cur, trig, ival, runId, running, queue,
                   asked, faults>>

\* handleJobUpdate -> UpdateJobConfig: a missing row is an error.
UpdateJobConfig(j, interval, enabled) ==
    /\ pc # "down"
    /\ rows[j].present
    /\ rows' = [rows EXCEPT ![j] = [present |-> TRUE, interval |-> interval,
                                    enabled |-> enabled, next |-> Never]]
    /\ edited' = edited \cup {j}
    /\ UNCHANGED <<open, pc, snap, idx, cur, trig, ival, runId, running, queue,
                   asked, faults>>

\* Mutant: a time in the past goes on counting.
MutCloser(row) == [row EXCEPT !.next = @ - 1]

Closer(row) == [row EXCEPT !.next = IF @ > 0 THEN @ - 1 ELSE @]

Waiting == {j \in Job : rows[j].next > 0}

\* One unit of time passes for every next_run_at, also for those scan has read.
TimePasses ==
    /\ Waiting # {} \/ \E j \in Job : snap[j].next > 0
    /\ rows' = [j \in Job |-> Closer(rows[j])]
    /\ snap' = [j \in Job |-> Closer(snap[j])]
    /\ UNCHANGED <<open, pc, idx, cur, trig, ival, runId, running, queue,
                   asked, edited, faults>>

\* The process ends: main returns on ctx.Done() without waiting for Run, or it
\* is killed.  The tables stay, the rest is lost.
Stop ==
    /\ pc # "down"
    /\ Fault
    /\ pc' = "down"
    /\ snap' = NoSnap
    /\ idx' = 1
    /\ NoLocals
    /\ running' = {}
    /\ queue' = << >>
    /\ asked' = {}
    /\ edited' = {}
    /\ UNCHANGED <<rows, open>>

-----------------------------------------------------------------------------

\* What Run does between two arrivals at its select statement.
RunnerWorks ==
    \/ Register \/ List \/ ScanNext \/ ScanEnds \/ RunManual
    \/ StartRun \/ BodyReturns \/ FinishRun \/ SetJobRunState

RunnerFails ==
    \/ RegisterFails \/ ListFails \/ RunManualGetFails
    \/ StartRunFails \/ FinishRunFails \/ SetJobRunStateFails

Admin ==
    \E j \in Job :
       \/ Trigger(j) \/ Send(j)
       \/ \E i \in Intervals, e \in BOOLEAN : UpdateJobConfig(j, i, e)

Next ==
    \/ Boot \/ RunnerWorks \/ RunnerFails \/ TickerFires \/ TakeTrigger
    \/ Admin \/ TimePasses \/ Stop

Spec == Init /\ [][Next]_vars

\* The goroutine is scheduled and its jobs return; a ready case of a select
\* statement is chosen again and again, as Go chooses at random; time passes.
Fairness ==
    /\ WF_vars(RunnerWorks)
    /\ SF_vars(TickerFires)
    /\ SF_vars(TakeTrigger)
    /\ WF_vars(TimePasses)

FairSpec == Spec /\ Fairness
-----------------------------------------------------------------------------
(* Properties.                                                             *)

\* Runner.running holds exactly the job whose execute has not returned: all
\* runs go through one goroutine and do not overlap (runner.go:32-35), and the
\* deferred delete releases a job on every path out of execute, so that Trigger
\* never goes on refusing a job that is over.
RunningMatchesPc ==
    running = IF pc \in Executing THEN {cur} ELSE {}

\* An open journal row belongs to the job being executed, or a failed call or a
\* stop left it behind: the journal page never shows more jobs as running than
\* one plus the number of faults.
OpenRowsAccounted ==
    LET current == {r \in open : pc \in {"body", "finish"} /\ r.id = runId}
    IN  /\ Cardinality(open \ current) <= faults
        /\ pc \in {"body", "finish"} => [id |-> runId, job |-> cur] \in open

\* scan decides on a snapshot and execute acts later.  When it does, the row of
\* the job is still due, and still enabled unless the administrator edited it
\* after the snapshot was read.
ScanDecisionStands ==
    pc = "start" /\ trig # "manual" =>
        /\ rows[cur].present
        /\ rows[cur].next \in {Never, 0}
        /\ rows[cur].enabled \/ cur \in edited

\* Where the locals of Run, scan and execute are in use they have values: the
\* registration has a job left, execute has its job, a body its open row.
LocalsOK ==
    /\ pc = "register" => idx \in Job
    /\ pc \in Executing \cup {"manual"} => cur \in Job
    /\ pc \in {"body", "finish"} =>
          runId \in RunId /\ [id |-> runId, job |-> cur] \in open

\* The part of the snapshot scan has still to visit agrees with the table, but
\* for rows the administrator has edited since; those are due whatever it says.
SnapshotStands ==
    /\ pc \notin Executing \cup {"scan"} => snap = NoSnap
    /\ pc \in Executing /\ trig = "manual" => snap = NoSnap
    /\ pc \in Executing => ~snap[cur].present
    /\ \A j \in Job : snap[j].present =>
          \/ j \notin edited /\ rows[j] = snap[j]
          \/ j \in edited /\ rows[j].present /\ rows[j].next = Never

\* The inductive invariant behind ScanDecisionStands and RunningMatchesPc.
IndInv ==
    /\ TypeOK
    /\ LocalsOK
    /\ RunningMatchesPc
    /\ SnapshotStands
    /\ ScanDecisionStands

\* The interval and the switch of a registered job change by the request of an
\* administrator for that job and by nothing else: neither the registration
\* after a restart nor the end of a run begun hours before the edit, with the
\* old settings at hand, puts anything else into the row.
SettingsStay(j) ==
    /\ rows'[j].present
    /\ rows'[j].interval = rows[j].interval
    /\ rows'[j].enabled = rows[j].enabled

SettingsAreTheAdmins ==
    [][\A j \in Job :
          rows[j].present =>
              \/ SettingsStay(j)
              \/ \E i \in Intervals, e \in BOOLEAN :
                    UpdateJobConfig(j, i, e)]_vars

Starts(j) == pc = "start" /\ cur = j

\* While the process lives, an enabled job is started again and again.
EnabledJobRuns ==
    \A j \in Job :
        rows[j].present /\ rows[j].enabled ~>
            Starts(j) \/ ~rows[j].enabled \/ pc = "down"

\* A trigger that was accepted leads to a run of its job, whatever the other
\* jobs and the administrator do, unless the process stops.
AcceptedTriggerRuns ==
    \A j \in Job :
        (\E i \in DOMAIN queue : queue[i] = j) ~>
            (Starts(j) /\ trig = "manual") \/ pc = "down"

\* Jobs run one at a time, each under an open journal row of its own: the
\* scheduler implements SerialRuns.
NoRun == [id |-> NoRunId, job |-> NoJob]

Serial == INSTANCE SerialRuns WITH
            active <- IF pc = "body" THEN [id |-> runId, job |-> cur] ELSE NoRun

ImplementsSerialRuns == Serial!Spec
=============================================================================
