\* Two runs of the seed and uploads, four registrations in all, two failures.
SPECIFICATION FairSeedSpec
CONSTANTS
    listProducts = listProducts
    createOrder = createOrder
    listCustomers = listCustomers
    Slugs = {demo}
    NoSlug = NoSlug
    DemoSlug = demo
    ToolNames = {listProducts, createOrder, listCustomers}
    Registrations = {1, 2, 3, 4}
    Bodies <- MCBodies
    MockBody <- MCMockBody
    StripeBody <- MCStripeBody
    Seeds = {first, second}
    NoRegistration = NoRegistration
    MaxTroubles = 2
INVARIANTS
    SeedTypeOK
    OneToolPerName
    WholeConnections
    DoneIsComplete
PROPERTIES
    RegistrationsEnd
    SeedsEnd
    ImplementsAtomic
\* Runs of the command and registrations are used up in the end.
CHECK_DEADLOCK FALSE
