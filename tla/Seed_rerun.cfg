\* The command is run twice and nothing fails.
SPECIFICATION SeedSpec
CONSTANTS
    listProducts = listProducts
    createOrder = createOrder
    listCustomers = listCustomers
    Slugs = {demo}
    NoSlug = NoSlug
    DemoSlug = demo
    ToolNames = {listProducts, createOrder, listCustomers}
    Registrations = {1, 2, 3, 4}
    Bodies <- MCBodies
    MockBody <- MCMockBody
    StripeBody <- MCStripeBody
    Seeds = {first, second}
    NoRegistration = NoRegistration
    MaxTroubles = 0
INVARIANT RerunIsIdempotent
\* Runs of the command and registrations are used up in the end.
CHECK_DEADLOCK FALSE
