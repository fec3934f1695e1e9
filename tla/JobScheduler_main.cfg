SPECIFICATION FairSpec
CONSTANTS
    NumJobs = 2
    Intervals = {1}
    DefaultInterval = 2
    QueueCap = 1
    RunId = {1, 2}
    NoRunId = 0
    MaxFaults = 1
INVARIANTS
    IndInv
    RunningMatchesPc
    OpenRowsAccounted
    ScanDecisionStands
PROPERTIES
    SettingsAreTheAdmins
    ImplementsSerialRuns
    EnabledJobRuns
    AcceptedTriggerRuns
