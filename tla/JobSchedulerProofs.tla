-------------------------- MODULE JobSchedulerProofs --------------------------
(***************************************************************************)
(* Theorems about JobScheduler: types, the exclusion of runs, the standing *)
(* of a scan's decision, the open rows of the journal, and the refinement  *)
(* of SerialRuns.                                                          *)
(***************************************************************************)
EXTENDS JobScheduler, FiniteSetTheorems, TLAPS

\* Closer keeps a row a row.
LEMMA CloserType ==
    ASSUME NEW row \in Row
    PROVE  /\ Closer(row) \in Row
           /\ Closer(row).present = row.present
           /\ Closer(row).enabled = row.enabled
           /\ Closer(row).interval = row.interval
           /\ row.next \in {Never, 0} => Closer(row) = row
BY DEF Closer, Row, Never

\* A planned row is a row.
LEMMA PlannedRow ==
    ASSUME NEW row \in Row, NEW i \in Interval
    PROVE  /\ [row EXCEPT !.next = i] \in Row
           /\ [row EXCEPT !.next = i].present = row.present
           /\ [row EXCEPT !.next = i].enabled = row.enabled
BY JobSchedulerAssumption DEF Row, Interval

\* The rows that stand for an absent row and for a default are rows.
LEMMA NoRowType == NoRow \in Row /\ DefaultRow \in Row /\ NoSnap \in [Job -> Row]
BY JobSchedulerAssumption DEF NoRow, DefaultRow, NoSnap, Row, Interval, Never



\* Every action keeps the types, and the locals that are in use their values.
LEMMA TypeStep ==
    ASSUME TypeOK, LocalsOK, [Next]_vars
    PROVE  TypeOK' /\ LocalsOK'
<1> USE JobSchedulerAssumption, NoRowType
    DEF TypeOK, LocalsOK, Job, Interval, PcLabel, Executing
<1>1. CASE Boot
  BY <1>1 DEF Boot
<1>2. CASE Register
  BY <1>2 DEF Register, AfterRegister
<1>3. CASE RegisterFails
  BY <1>3 DEF RegisterFails, AfterRegister, Fault
<1>4. CASE List
  BY <1>4 DEF List
<1>5. CASE ListFails
  BY <1>5 DEF ListFails, Fault
<1>6. CASE ScanNext
  BY <1>6 DEF ScanNext, EnterExecute, Eligible, Row
<1>7. CASE ScanEnds
  BY <1>7 DEF ScanEnds
<1>8. CASE TickerFires
  BY <1>8 DEF TickerFires
<1>9. CASE TakeTrigger
  BY <1>9 DEF TakeTrigger
<1>10. CASE RunManual
  BY <1>10 DEF RunManual, EnterExecute, Row
<1>11. CASE RunManualGetFails
  BY <1>11 DEF RunManualGetFails, EnterExecute, Fault
<1>12. CASE StartRun
  BY <1>12 DEF StartRun, RunRow
<1>13. CASE StartRunFails
  BY <1>13 DEF StartRunFails, LeaveExecute, NoLocals, Fault
<1>14. CASE BodyReturns
  BY <1>14 DEF BodyReturns
<1>15. CASE FinishRun
  BY <1>15 DEF FinishRun, RunRow
<1>16. CASE FinishRunFails
  BY <1>16 DEF FinishRunFails, Fault
<1>17. CASE SetJobRunState
  BY <1>17, PlannedRow DEF SetJobRunState, LeaveExecute, NoLocals
<1>18. CASE SetJobRunStateFails
  BY <1>18 DEF SetJobRunStateFails, LeaveExecute, NoLocals, Fault
<1>19. CASE Admin
  <2>1. ASSUME NEW j \in Job, Trigger(j) \/ Send(j) PROVE TypeOK' /\ LocalsOK'
    <3>1. Append(queue, j) \in Seq(Job)
      OBVIOUS
    <3>2. CASE Trigger(j)
      BY <3>2 DEF Trigger
    <3>3. CASE Send(j)
      <4>1. queue' \in Seq(Job) /\ asked' \subseteq Job
        BY <3>1, <3>3 DEF Send
      <4> QED BY <3>3, <4>1 DEF Send
    <3> QED BY <2>1, <3>2, <3>3
  <2>2. ASSUME NEW j \in Job, NEW i \in Intervals, NEW e \in BOOLEAN,
               UpdateJobConfig(j, i, e)
        PROVE  TypeOK' /\ LocalsOK'
    BY <2>2 DEF UpdateJobConfig, Row
  <2>3. QED
    BY <1>19, <2>1, <2>2 DEF Admin
<1>20. CASE TimePasses
  BY <1>20, CloserType DEF TimePasses
<1>21. CASE Stop
  BY <1>21 DEF Stop, NoLocals, Fault
<1>22. CASE UNCHANGED vars
  BY <1>22 DEF vars
<1>23. QED
  BY <1>1, <1>2, <1>3, <1>4, <1>5, <1>6, <1>7, <1>8, <1>9, <1>10, <1>11,
     <1>12, <1>13, <1>14, <1>15, <1>16, <1>17, <1>18, <1>19, <1>20,
     <1>21, <1>22
  DEF Next, RunnerWorks, RunnerFails

\* Every action keeps running equal to the job inside execute.
LEMMA RunningStep ==
    ASSUME TypeOK, LocalsOK, RunningMatchesPc, [Next]_vars
    PROVE  RunningMatchesPc'
<1> USE DEF RunningMatchesPc, Executing
<1>1. CASE Boot
  BY <1>1 DEF Boot
<1>2. CASE Register
  BY <1>2 DEF Register, AfterRegister
<1>3. CASE RegisterFails
  BY <1>3 DEF RegisterFails, AfterRegister, Fault
<1>4. CASE List
  BY <1>4 DEF List
<1>5. CASE ListFails
  BY <1>5 DEF ListFails, Fault
<1>6. CASE ScanNext
  BY <1>6 DEF ScanNext, EnterExecute, Eligible, TypeOK
<1>7. CASE ScanEnds
  BY <1>7 DEF ScanEnds
<1>8. CASE TickerFires
  BY <1>8 DEF TickerFires
<1>9. CASE TakeTrigger
  BY <1>9 DEF TakeTrigger
<1>10. CASE RunManual
  BY <1>10 DEF RunManual, EnterExecute, TypeOK
<1>11. CASE RunManualGetFails
  BY <1>11 DEF RunManualGetFails, EnterExecute, Fault
<1>12. CASE StartRun
  BY <1>12 DEF StartRun
<1>13. CASE StartRunFails
  BY <1>13 DEF StartRunFails, LeaveExecute, NoLocals, Fault
<1>14. CASE BodyReturns
  BY <1>14 DEF BodyReturns
<1>15. CASE FinishRun
  BY <1>15 DEF FinishRun
<1>16. CASE FinishRunFails
  BY <1>16 DEF FinishRunFails, Fault
<1>17. CASE SetJobRunState
  BY <1>17 DEF SetJobRunState, LeaveExecute, NoLocals
<1>18. CASE SetJobRunStateFails
  BY <1>18 DEF SetJobRunStateFails, LeaveExecute, NoLocals, Fault
<1>19. CASE Admin
  <2>1. ASSUME NEW j \in Job, Trigger(j) \/ Send(j) PROVE RunningMatchesPc'
    BY <2>1 DEF Trigger, Send
  <2>2. ASSUME NEW j \in Job, NEW i \in Intervals, NEW e \in BOOLEAN,
               UpdateJobConfig(j, i, e)
        PROVE  RunningMatchesPc'
    BY <2>2 DEF UpdateJobConfig
  <2>3. QED
    BY <1>19, <2>1, <2>2 DEF Admin
<1>20. CASE TimePasses
  BY <1>20, CloserType DEF TimePasses
<1>21. CASE Stop
  BY <1>21 DEF Stop, NoLocals, Fault
<1>22. CASE UNCHANGED vars
  BY <1>22 DEF vars
<1>23. QED
  BY <1>1, <1>2, <1>3, <1>4, <1>5, <1>6, <1>7, <1>8, <1>9, <1>10, <1>11,
     <1>12, <1>13, <1>14, <1>15, <1>16, <1>17, <1>18, <1>19, <1>20,
     <1>21, <1>22
  DEF Next, RunnerWorks, RunnerFails

\* Every action keeps what scan has still to visit in agreement with the table.
LEMMA SnapshotStep ==
    ASSUME TypeOK, LocalsOK, RunningMatchesPc, SnapshotStands, [Next]_vars
    PROVE  SnapshotStands'
<1> USE NoRowType DEF SnapshotStands, TypeOK, LocalsOK, Executing
<1>1. CASE Boot
  BY <1>1 DEF Boot
<1>2. CASE Register
  BY <1>2 DEF Register, AfterRegister
<1>3. CASE RegisterFails
  BY <1>3 DEF RegisterFails, AfterRegister, Fault
<1>4. CASE List
  BY <1>4 DEF List
<1>5. CASE ListFails
  BY <1>5 DEF ListFails, Fault
<1>6. CASE ScanNext
  BY <1>6 DEF ScanNext, EnterExecute, Eligible, NoRow, NoSnap, Job, RunningMatchesPc
<1>7. CASE ScanEnds
  BY <1>7 DEF ScanEnds, NoSnap, NoRow
<1>8. CASE TickerFires
  BY <1>8 DEF TickerFires
<1>9. CASE TakeTrigger
  BY <1>9 DEF TakeTrigger
<1>10. CASE RunManual
  BY <1>10 DEF RunManual, EnterExecute, NoSnap, NoRow
<1>11. CASE RunManualGetFails
  BY <1>11 DEF RunManualGetFails, EnterExecute, Fault, NoSnap, NoRow
<1>12. CASE StartRun
  BY <1>12 DEF StartRun
<1>13. CASE StartRunFails
  BY <1>13 DEF StartRunFails, LeaveExecute, NoLocals, Fault, NoSnap, NoRow
<1>14. CASE BodyReturns
  BY <1>14 DEF BodyReturns
<1>15. CASE FinishRun
  BY <1>15 DEF FinishRun
<1>16. CASE FinishRunFails
  BY <1>16 DEF FinishRunFails, Fault
<1>17. CASE SetJobRunState
  BY <1>17, PlannedRow DEF SetJobRunState, LeaveExecute, NoLocals, NoSnap, NoRow
<1>18. CASE SetJobRunStateFails
  BY <1>18 DEF SetJobRunStateFails, LeaveExecute, NoLocals, Fault
<1>19. CASE Admin
  <2>1. ASSUME NEW j \in Job, Trigger(j) \/ Send(j) PROVE SnapshotStands'
    BY <2>1 DEF Trigger, Send
  <2>2. ASSUME NEW j \in Job, NEW i \in Intervals, NEW e \in BOOLEAN,
               UpdateJobConfig(j, i, e)
        PROVE  SnapshotStands'
    BY <2>2 DEF UpdateJobConfig
  <2>3. QED
    BY <1>19, <2>1, <2>2 DEF Admin
<1>20. CASE TimePasses
  <2>1. ASSUME NEW j \in Job
        PROVE  /\ rows'[j] = Closer(rows[j]) /\ snap'[j] = Closer(snap[j])
               /\ rows[j] \in Row /\ snap[j] \in Row
    BY <1>20 DEF TimePasses
  <2>2. snap = NoSnap => snap' = NoSnap
    <3>1. Closer(NoRow) = NoRow
      BY CloserType, NoRowType DEF NoRow
    <3>2. QED
      BY <1>20, <3>1 DEF TimePasses, NoSnap
  <2>3. ASSUME NEW j \in Job, snap'[j].present
        PROVE  \/ j \notin edited' /\ rows'[j] = snap'[j]
               \/ j \in edited' /\ rows'[j].present /\ rows'[j].next = Never
    <3>1. snap[j].present
      BY <2>1, <2>3, CloserType
    <3>2. CASE j \notin edited /\ rows[j] = snap[j]
      BY <1>20, <2>1, <3>2 DEF TimePasses
    <3>3. CASE j \in edited /\ rows[j].present /\ rows[j].next = Never
      BY <1>20, <2>1, <3>3, CloserType DEF TimePasses
    <3>4. QED
      BY <3>1, <3>2, <3>3
  <2>4. pc \in Executing => ~snap'[cur].present
    BY <2>1, CloserType
  <2>5. QED
    BY <1>20, <2>2, <2>3, <2>4 DEF TimePasses
<1>21. CASE Stop
  BY <1>21 DEF Stop, NoLocals, Fault, NoSnap, NoRow
<1>22. CASE UNCHANGED vars
  BY <1>22 DEF vars
<1>23. QED
  BY <1>1, <1>2, <1>3, <1>4, <1>5, <1>6, <1>7, <1>8, <1>9, <1>10, <1>11,
     <1>12, <1>13, <1>14, <1>15, <1>16, <1>17, <1>18, <1>19, <1>20,
     <1>21, <1>22
  DEF Next, RunnerWorks, RunnerFails

\* A scan's decision still stands when execute opens the journal row.
LEMMA DecisionStep ==
    ASSUME TypeOK, LocalsOK, SnapshotStands, ScanDecisionStands, [Next]_vars
    PROVE  ScanDecisionStands'
<1> USE DEF ScanDecisionStands, TypeOK
<1>1. CASE Boot
  BY <1>1 DEF Boot
<1>2. CASE Register
  BY <1>2 DEF Register, AfterRegister
<1>3. CASE RegisterFails
  BY <1>3 DEF RegisterFails, AfterRegister, Fault
<1>4. CASE List
  BY <1>4 DEF List
<1>5. CASE ListFails
  BY <1>5 DEF ListFails, Fault
<1>6. CASE ScanNext
  BY <1>6 DEF ScanNext, EnterExecute, Eligible, SnapshotStands, IsDue, Job
<1>7. CASE ScanEnds
  BY <1>7 DEF ScanEnds
<1>8. CASE TickerFires
  BY <1>8 DEF TickerFires
<1>9. CASE TakeTrigger
  BY <1>9 DEF TakeTrigger
<1>10. CASE RunManual
  BY <1>10 DEF RunManual, EnterExecute
<1>11. CASE RunManualGetFails
  BY <1>11 DEF RunManualGetFails, EnterExecute, Fault
<1>12. CASE StartRun
  BY <1>12 DEF StartRun
<1>13. CASE StartRunFails
  BY <1>13 DEF StartRunFails, LeaveExecute, NoLocals, Fault
<1>14. CASE BodyReturns
  BY <1>14 DEF BodyReturns
<1>15. CASE FinishRun
  BY <1>15 DEF FinishRun
<1>16. CASE FinishRunFails
  BY <1>16 DEF FinishRunFails, Fault
<1>17. CASE SetJobRunState
  BY <1>17 DEF SetJobRunState, LeaveExecute, NoLocals
<1>18. CASE SetJobRunStateFails
  BY <1>18 DEF SetJobRunStateFails, LeaveExecute, NoLocals, Fault
<1>19. CASE Admin
  <2>1. ASSUME NEW j \in Job, Trigger(j) \/ Send(j) PROVE ScanDecisionStands'
    BY <2>1 DEF Trigger, Send
  <2>2. ASSUME NEW j \in Job, NEW i \in Intervals, NEW e \in BOOLEAN,
               UpdateJobConfig(j, i, e)
        PROVE  ScanDecisionStands'
    BY <2>2 DEF UpdateJobConfig, LocalsOK, Executing
  <2>3. QED
    BY <1>19, <2>1, <2>2 DEF Admin
<1>20. CASE TimePasses
  BY <1>20, CloserType DEF TimePasses, LocalsOK, Executing
<1>21. CASE Stop
  BY <1>21 DEF Stop, NoLocals, Fault
<1>22. CASE UNCHANGED vars
  BY <1>22 DEF vars
<1>23. QED
  BY <1>1, <1>2, <1>3, <1>4, <1>5, <1>6, <1>7, <1>8, <1>9, <1>10, <1>11,
     <1>12, <1>13, <1>14, <1>15, <1>16, <1>17, <1>18, <1>19, <1>20,
     <1>21, <1>22
  DEF Next, RunnerWorks, RunnerFails

\* The inductive invariant holds in every reachable state.
THEOREM Inductive == Spec => []IndInv
<1>1. Init => IndInv
  <2> SUFFICES ASSUME Init PROVE IndInv
    OBVIOUS
  <2>1. TypeOK
    BY NoRowType, JobSchedulerAssumption
    DEF Init, TypeOK, Interval, PcLabel, Job, NoJob
  <2>2. LocalsOK /\ RunningMatchesPc /\ ScanDecisionStands
    BY DEF Init, LocalsOK, RunningMatchesPc, ScanDecisionStands, Executing
  <2>3. SnapshotStands
    BY DEF Init, SnapshotStands, Executing, NoSnap, NoRow
  <2>4. QED
    BY <2>1, <2>2, <2>3 DEF IndInv
<1>2. IndInv /\ [Next]_vars => IndInv'
  BY TypeStep, RunningStep, SnapshotStep, DecisionStep DEF IndInv
<1>3. QED
  BY <1>1, <1>2, PTL DEF Spec

\* Every variable keeps its type.
THEOREM TypeCorrect == Spec => []TypeOK
BY Inductive, PTL DEF IndInv

\* Runs do not overlap and the running flag is released on every path: for any
\* number of jobs, with any edits, triggers, failures and stops.
THEOREM RunsDoNotOverlap == Spec => []RunningMatchesPc
BY Inductive, PTL DEF IndInv

\* What a scan decided on its snapshot still stands when the run starts.
THEOREM ScanDecisionsStand == Spec => []ScanDecisionStands
BY Inductive, PTL DEF IndInv

\* No step but the request of an administrator touches his settings.
LEMMA SettingsStep ==
    ASSUME TypeOK, LocalsOK, [Next]_vars, NEW j \in Job, rows[j].present
    PROVE  \/ SettingsStay(j)
           \/ \E i \in Intervals, e \in BOOLEAN : UpdateJobConfig(j, i, e)
<1> USE DEF TypeOK, LocalsOK, SettingsStay
<1>1. CASE Register
  BY <1>1 DEF Register
<1>2. CASE SetJobRunState
  <2>1. [rows[cur] EXCEPT !.next = ival].interval = rows[cur].interval
    BY <1>2 DEF SetJobRunState, Row, Executing
  <2>2. QED
    BY <1>2, <2>1, PlannedRow DEF SetJobRunState, Executing
<1>3. ASSUME NEW k \in Job, NEW i \in Intervals, NEW e \in BOOLEAN,
             UpdateJobConfig(k, i, e)
      PROVE  \/ SettingsStay(j)
             \/ \E i_2 \in Intervals, e_2 \in BOOLEAN :
                   UpdateJobConfig(j, i_2, e_2)
  <2>1. CASE k = j
    BY <1>3, <2>1
  <2>2. CASE k # j
    BY <1>3, <2>2 DEF UpdateJobConfig
  <2> QED BY <2>1, <2>2
<1>4. CASE TimePasses
  BY <1>4, CloserType DEF TimePasses
<1>5. CASE UNCHANGED rows
  BY <1>5
<1>6. ASSUME NEW k \in Job, Trigger(k) \/ Send(k) PROVE UNCHANGED rows
  BY <1>6 DEF Trigger, Send
<1>7. QED
  BY <1>1, <1>2, <1>3, <1>4, <1>5, <1>6
  DEF Next, RunnerWorks, RunnerFails, Admin, vars, Boot, RegisterFails, List,
      ListFails, ScanNext, ScanEnds, TickerFires, TakeTrigger, RunManual,
      RunManualGetFails, StartRun, StartRunFails, BodyReturns, FinishRun,
      FinishRunFails, SetJobRunStateFails, Stop

\* Only an administrator changes the interval and the switch of a job: they
\* survive the registration after a restart, runs that began before the edit,
\* failures and stops (UpsertJobDefault, SetJobRunState).
THEOREM SettingsKept == Spec => SettingsAreTheAdmins
<1>1. IndInv /\ [Next]_vars =>
        [\A j \in Job :
            rows[j].present =>
                \/ SettingsStay(j)
                \/ \E i \in Intervals, e \in BOOLEAN :
                      UpdateJobConfig(j, i, e)]_vars
  BY SettingsStep DEF IndInv
<1>2. QED
  BY <1>1, Inductive, PTL DEF Spec, SettingsAreTheAdmins

\* A step of the scheduler is a step of SerialRuns or leaves it alone.
LEMMA SerialStep ==
    ASSUME IndInv, [Next]_vars
    PROVE  [Serial!Next]_<<IF pc = "body" THEN [id |-> runId, job |-> cur]
                                          ELSE NoRun, open>>
<1> DEFINE active == IF pc = "body" THEN [id |-> runId, job |-> cur] ELSE NoRun
<1> USE DEF IndInv, TypeOK, LocalsOK, Executing
<1>1. CASE StartRun
  <2>1. PICK id \in RunId \ {r.id : r \in open} :
            /\ open' = open \cup {[id |-> id, job |-> cur]}
            /\ runId' = id
    BY <1>1 DEF StartRun
  <2>2. [id |-> id, job |-> cur] \in Serial!Run
    BY <1>1 DEF StartRun, Serial!Run
  <2>3. Serial!Begin([id |-> id, job |-> cur])
    BY <1>1, <2>1 DEF StartRun, Serial!Begin
  <2>4. QED
    BY <2>2, <2>3 DEF Serial!Next
<1>2. CASE BodyReturns
  <2>1. active # NoRun
    BY <1>2, JobSchedulerAssumption DEF BodyReturns, NoRun
  <2>2. Serial!End
    BY <1>2, <2>1 DEF BodyReturns, Serial!End
  <2>3. QED
    BY <2>2 DEF Serial!Next
<1>3. CASE FinishRun
  <2>1. Serial!Close(runId)
    BY <1>3 DEF FinishRun, Serial!Close
  <2>2. QED
    BY <1>3, <2>1 DEF FinishRun, Serial!Next
<1>4. CASE Stop
  <2>1. CASE pc = "body"
    <3>1. active # NoRun
      BY <2>1, JobSchedulerAssumption DEF NoRun
    <3>2. Serial!End
      BY <1>4, <2>1, <3>1 DEF Stop, Serial!End
    <3>3. QED
      BY <3>2 DEF Serial!Next
  <2>2. CASE pc # "body"
    BY <1>4, <2>2 DEF Stop
  <2>3. QED
    BY <2>1, <2>2
<1>5. CASE UNCHANGED <<open, active>>
  BY <1>5
<1>6. CASE pc # "body" /\ pc' # "body" /\ UNCHANGED open
  BY <1>6
<1>7. CASE pc' = pc /\ UNCHANGED <<open, runId, cur>>
  BY <1>7
<1>8. QED
  BY <1>1, <1>2, <1>3, <1>4, <1>5, <1>6, <1>7
  DEF Next, RunnerWorks, RunnerFails, Admin, vars, Boot, Register,
      RegisterFails, AfterRegister, List, ListFails, ScanNext, ScanEnds,
      TickerFires, TakeTrigger, RunManual, RunManualGetFails, EnterExecute,
      StartRunFails, FinishRunFails, SetJobRunState, SetJobRunStateFails,
      LeaveExecute, Trigger, Send, UpdateJobConfig, TimePasses

\* The scheduler implements the serial execution its comment promises.
THEOREM Refinement == Spec => ImplementsSerialRuns
<1>1. Init => Serial!Init
  BY DEF Init, Serial!Init
<1>2. IndInv /\ [Next]_vars =>
        [Serial!Next]_<<IF pc = "body" THEN [id |-> runId, job |-> cur]
                                       ELSE NoRun, open>>
  BY SerialStep
<1>3. QED
  BY <1>1, <1>2, Inductive, PTL DEF Spec, ImplementsSerialRuns, Serial!Spec

-----------------------------------------------------------------------------
(* The journal: what is open without being executed is counted by faults.  *)

\* The job is being executed under a journal row of its own.
UnderRow == pc \in {"body", "finish"}
Current  == [id |-> runId, job |-> cur]

\* The rows that nobody is going to close.
Left == IF UnderRow THEN {r \in open : r.id # runId} ELSE open

JournalInv ==
    /\ IsFiniteSet(open)
    /\ Cardinality(Left) <= faults
    /\ UnderRow => /\ Current \in open
                   /\ \A r \in open : r.id = runId => r = Current

\* A fault leaves at most the current row behind.
LEMMA LeftBehind ==
    ASSUME TypeOK, JournalInv, Fault, UNCHANGED open, ~UnderRow'
    PROVE  JournalInv'
<1>1. open \subseteq Left \cup {Current}
  BY DEF JournalInv, Left
<1>2. IsFiniteSet(Left) /\ Cardinality(Left) \in Nat
  BY FS_Subset, FS_CardinalityType DEF JournalInv, Left
<1>3. /\ IsFiniteSet(Left \cup {Current})
      /\ Cardinality(Left \cup {Current}) <= Cardinality(Left) + 1
  BY <1>2, FS_AddElement
<1>4. Cardinality(open) <= Cardinality(Left) + 1 /\ Cardinality(open) \in Nat
  <2>1. Cardinality(open) <= Cardinality(Left \cup {Current})
    BY <1>1, <1>3, FS_Subset
  <2>2. Cardinality(open) \in Nat /\ Cardinality(Left \cup {Current}) \in Nat
    BY <1>3, FS_CardinalityType DEF JournalInv
  <2> QED BY <1>2, <1>3, <2>1, <2>2
<1>5. Left' = open
  BY DEF Left
<1>6. faults \in Nat /\ faults' = faults + 1
  BY JobSchedulerAssumption DEF TypeOK, Fault
<1>7. Cardinality(Left) <= faults
  BY DEF JournalInv
<1>8. Cardinality(Left)' <= faults'
  BY <1>2, <1>4, <1>5, <1>6, <1>7
<1> QED BY <1>8 DEF JournalInv

LEMMA JournalStep == TypeOK /\ JournalInv /\ [Next]_vars => JournalInv'
<1> SUFFICES ASSUME TypeOK, JournalInv, [Next]_vars PROVE JournalInv'
  OBVIOUS
<1>0. faults \in Nat /\ Cardinality(Left) \in Nat
  <2>1. IsFiniteSet(Left)
    BY FS_Subset DEF JournalInv, Left
  <2> QED BY <2>1, FS_CardinalityType, JobSchedulerAssumption DEF TypeOK
<1>1. CASE StartRun
  <2>1. PICK id \in RunId \ {r.id : r \in open} :
            open' = open \cup {[id |-> id, job |-> cur]} /\ runId' = id
    BY <1>1 DEF StartRun
  <2>2. Left' = open /\ Left = open /\ faults' = faults
    BY <1>1, <2>1 DEF StartRun, Left, UnderRow
  <2>3. IsFiniteSet(open')
    BY <2>1, FS_AddElement DEF JournalInv
  <2>4. Current' \in open' /\ \A r \in open' : r.id = runId' => r = Current'
    BY <1>1, <2>1 DEF StartRun, Current
  <2> QED BY <2>2, <2>3, <2>4 DEF JournalInv
<1>2. CASE BodyReturns
  BY <1>2 DEF BodyReturns, JournalInv, Left, UnderRow, Current
<1>3. CASE FinishRun
  <2>1. Left' = Left /\ open' = Left /\ ~UnderRow' /\ faults' = faults
    BY <1>3 DEF FinishRun, Left, UnderRow
  <2>2. IsFiniteSet(open')
    BY <2>1, FS_Subset DEF JournalInv, Left
  <2> QED BY <2>1, <2>2 DEF JournalInv
<1>4. CASE FinishRunFails
  BY <1>4, LeftBehind DEF FinishRunFails, UnderRow
<1>5. CASE Stop
  BY <1>5, LeftBehind DEF Stop, UnderRow
<1>6. ASSUME UNCHANGED open, faults' \in {faults, faults + 1},
             (~UnderRow /\ ~UnderRow') \/ UNCHANGED <<pc, runId, cur>>
      PROVE  JournalInv'
  <2>1. Left' = Left /\ (UnderRow' => UnderRow /\ Current' = Current /\ runId' = runId)
    BY <1>6 DEF Left, UnderRow, Current
  <2> QED BY <1>0, <1>6, <2>1 DEF JournalInv
<1>7. \/ /\ UNCHANGED open /\ faults' \in {faults, faults + 1}
         /\ (~UnderRow /\ ~UnderRow') \/ UNCHANGED <<pc, runId, cur>>
      \/ StartRun \/ BodyReturns \/ FinishRun \/ FinishRunFails \/ Stop
  BY DEF UnderRow, Fault, Next, RunnerWorks, RunnerFails, Admin, vars, Boot, Register,
      RegisterFails, AfterRegister, List, ListFails, ScanNext, ScanEnds,
      TickerFires, TakeTrigger, RunManual, RunManualGetFails, EnterExecute,
      StartRunFails, SetJobRunState, SetJobRunStateFails,
      LeaveExecute, NoLocals, Trigger, Send, UpdateJobConfig,
      TimePasses
<1> QED BY <1>1, <1>2, <1>3, <1>4, <1>5, <1>6, <1>7

\* The journal never shows more jobs as running than the one being executed
\* and one for each failed call or stop (runner.go, FinishRun), however long
\* the server runs.
THEOREM JournalAccounted == Spec => []OpenRowsAccounted
<1>1. Init => JournalInv
  BY FS_EmptySet DEF Init, JournalInv, Left, UnderRow
<1>2. JournalInv => OpenRowsAccounted
  <2> SUFFICES ASSUME JournalInv PROVE OpenRowsAccounted
    OBVIOUS
  <2>1. open \ {r \in open : UnderRow /\ r.id = runId} = Left
    BY DEF Left
  <2> QED BY <2>1 DEF JournalInv, OpenRowsAccounted, UnderRow, Current
<1> QED BY <1>1, <1>2, JournalStep, TypeCorrect, PTL DEF Spec
=============================================================================
