\* One run of the agent, no faults.
SPECIFICATION AgentSpec
CONSTANTS
    a = a
    b = b
    c = c
    Runs = {run1}
    Steps = {a, b, c}
    Requests = {1, 2, 3, 4, 5}
    Tools = {readTool, dropTool}
    Destructive = {dropTool}
    Unusable = Unusable
    NoRun = NoRun
    NoStep = NoStep
    Sessions = {start, resume}
    NoSession = NoSession
    UnknownTool = UnknownTool
    MaxIterations = 2
    MaxCalls = 2
    MaxFaults = 0
INVARIANT PausedStepSurfaced
CHECK_DEADLOCK FALSE
