\* One run, two sessions, five requests, two faults.
SPECIFICATION AgentSpec
CONSTANTS
    a = a
    b = b
    c = c
    Runs = {run1}
    Steps = {a, b, c}
    Requests = {1, 2, 3, 4, 5}
    Tools = {readTool, dropTool}
    Destructive = {dropTool}
    Unusable = Unusable
    NoRun = NoRun
    NoStep = NoStep
    Sessions = {start, resume}
    NoSession = NoSession
    UnknownTool = UnknownTool
    MaxIterations = 2
    MaxCalls = 2
    MaxFaults = 2
SYMMETRY MCSymmetry
INVARIANTS
    AgentTypeOK
    OneCallPerStep
    RejectedNeverCalled
    UnrecordedNeverCalled
    NothingOvertakes
    CompletedIsQuiet
    HumanConsent
    ToldResultHappened
\* Sessions and requests are used up in the end.
CHECK_DEADLOCK FALSE
