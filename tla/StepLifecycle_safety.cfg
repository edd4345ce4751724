\* One run, three requests of any kind, two steps, a safe and a destructive tool.
SPECIFICATION Spec
CONSTANTS
    a = a
    b = b
    u = u
    v = v
    w = w
    Runs = {run1}
    Steps = {a, b}
    Requests = {u, v, w}
    Tools = {readTool, dropTool}
    Destructive = {dropTool}
    Unusable = Unusable
    NoRun = NoRun
    NoStep = NoStep
SYMMETRY MCSymmetry
INVARIANTS
    TypeOK
    IndexesDense
    ConsentBeforeEffect
    ExecutingAccountable
    OutcomeBacked
PROPERTY ImplementsGate
\* The one-shot requests of the instance are used up in the end.
CHECK_DEADLOCK FALSE
