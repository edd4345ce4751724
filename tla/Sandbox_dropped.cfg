\* Eight documents, one call.
SPECIFICATION SandboxSpec
CONSTANTS
    Params <- MCParams
    Body = "body"
    Placeholder <- MCPlaceholder
    Lowercase <- MCLowercase
    Punctuation = {"-", "/"}
    NoBase = NoBase
    Text <- MCText
    NoBody = "none"
    Products = {"prod_001"}
    NoProduct = ""
    InitialStock <- MCInitialStock
    OrderId <- MCOrderId
    Decoded <- MCDecoded
    MaxRestarts = 0
    Documents <- MCDocuments
    MaxCalls = 1
    Arguments <- MCArguments
    Strays = {"q"}
INVARIANT ArgumentsArrive
\* Calls are used up in the end, or the document was refused.
CHECK_DEADLOCK FALSE
