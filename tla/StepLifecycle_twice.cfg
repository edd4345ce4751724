\* A destructive step and two approvals of it.
SPECIFICATION Spec
CONSTANTS
    a = a
    b = b
    u = u
    v = v
    w = w
    Runs = {run1}
    Steps = {a}
    Requests = {u, v, w}
    Tools = {readTool, dropTool}
    Destructive = {dropTool}
    Unusable = Unusable
    NoRun = NoRun
    NoStep = NoStep
INVARIANT ApprovedOnce
CHECK_DEADLOCK FALSE
