------------------------------ MODULE SerialRuns ------------------------------
(***************************************************************************)
(* What the comment on Runner (jobsched/runner.go:32-35) promises, without *)
(* goroutine, table or channel: the bodies of the jobs run one at a time,  *)
(* and each one has its own open row in the journal for as long as it      *)
(* runs.  A row may stay open after its body ended.                        *)
(***************************************************************************)
CONSTANTS Job, RunId, NoRun

VARIABLES
    active,   \* the run whose body is being executed, or NoRun
    open      \* the open rows of the journal

Run == [id : RunId, job : Job]

Init == active = NoRun /\ open = {}

Begin(r) ==
    /\ active = NoRun
    /\ \A o \in open : o.id # r.id
    /\ active' = r
    /\ open' = open \cup {r}

End ==
    /\ active # NoRun
    /\ active' = NoRun
    /\ UNCHANGED open

Close(id) ==
    /\ active = NoRun
    /\ open' = {o \in open : o.id # id}
    /\ UNCHANGED active

Next ==
    \/ \E r \in Run : Begin(r)
    \/ End
    \/ \E id \in RunId : Close(id)

Spec == Init /\ [][Next]_<<active, open>>
=============================================================================
