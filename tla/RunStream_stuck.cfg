\* One PATCH while a client connects; nothing is lost.
SPECIFICATION StreamSpec
CONSTANTS
    patch1 = patch1
    patch2 = patch2
    tab = tab
    Writers = {patch1}
    Clients = {tab}
    Nothing = Nothing
    Buffer = 1
    MaxStepEvents = 0
    MaxLosses = 0
INVARIANT NotStuck
\* PATCHes and connections are used up in the end.
CHECK_DEADLOCK FALSE
