\* Eight documents, two calls, other clients, two orders, one restart.
SPECIFICATION FairSandboxSpec
CONSTANTS
    Params <- MCParams
    Body = "body"
    Placeholder <- MCPlaceholder
    Lowercase <- MCLowercase
    Punctuation = {"-", "/"}
    NoBase = NoBase
    Text <- MCText
    NoBody = "none"
    Products = {"prod_001"}
    NoProduct = ""
    InitialStock <- MCInitialStock
    OrderId <- MCOrderId
    Decoded <- MCDecoded
    MaxRestarts = 1
    Documents <- MCDocuments
    MaxCalls = 2
    Arguments <- MCArguments
    Strays = {"q"}
INVARIANTS
    SandboxTypeOK
    StockConserved
    OrderOnce
    ConfirmedEffects
    OneEffectPerCall
    RequestAsMeant
    RightOperation
    NamesCallable
PROPERTY CallsEnd
\* Calls are used up in the end, or the document was refused.
CHECK_DEADLOCK FALSE
