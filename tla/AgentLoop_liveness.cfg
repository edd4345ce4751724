\* One turn of one call more than the bound lets through, one fault; temporal
\* properties, hence no symmetry.
SPECIFICATION FairAgentSpec
CONSTANTS
    a = a
    b = b
    c = c
    Runs = {run1}
    Steps = {a, b}
    Requests = {1, 2, 3, 4, 5}
    Tools = {readTool, dropTool}
    Destructive = {dropTool}
    Unusable = Unusable
    NoRun = NoRun
    NoStep = NoStep
    Sessions = {start, resume}
    NoSession = NoSession
    UnknownTool = UnknownTool
    MaxIterations = 2
    MaxCalls = 1
    MaxFaults = 1
PROPERTIES
    SessionsEnd
    RequestsEnd
    OneVerdict
CHECK_DEADLOCK FALSE
