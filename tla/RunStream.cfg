\* Two PATCHes, one connection, a step event and two losses.
SPECIFICATION FairStreamSpec
CONSTANTS
    patch1 = patch1
    patch2 = patch2
    tab = tab
    Writers = {patch1, patch2}
    Clients = {tab}
    Nothing = Nothing
    Buffer = 1
    MaxStepEvents = 1
    MaxLosses = 2
INVARIANTS
    StreamTypeOK
    SerialWritersAgree
    StaleOnlyIf
PROPERTY TerminalEndsStream
\* PATCHes and connections are used up in the end.
CHECK_DEADLOCK FALSE
