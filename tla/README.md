# Specifications of IntegraDock

IntegraDock turns a customer's OpenAPI document into tools and lets a language
model call them, asking a human before every destructive call. These modules
specify what is hard to test in it: who may call the customer's API and when,
what the database, the cache, the browser and the model believe about a step,
and what is left of all that after a timeout, a lost message or a crash. TLC
checks them on small instances; TLAPS proves the central results for every value
of the constants.

    tlc -config StepLifecycle_safety.cfg MCStepLifecycle.tla
    tlapm StepLifecycleProofs.tla

## 1. The system

    browser (frontend)          py-planner                 go-engine               customer's API
    ChatPanel ---- SSE ------>  AgentLoop ---- HTTP ---->  handlers, executor --->  or mock-api
    ConfirmationModal           LLM client                 Postgres, Redis
    TracePanel <------------------------ websocket -------  StreamExecution

| part | source | state | operations | depends on |
|---|---|---|---|---|
| execution steps and gate | `go-engine/internal/handlers/execution_handler.go`, `executor/executor.go` | rows of `execution_steps` | CreateStep, ExecuteStep, ConfirmStep, runAndPersist, RunTool | Postgres, Redis, customer's API |
| run status, cache, live stream | `execution_handler.go`, `redisstate/state.go`, `handlers/websocket_handler.go` | `execution_runs.status`, a cached copy with a TTL, a pub/sub channel, subscriptions | CreateRun, UpdateRunStatus, SetRunState, Publish, StreamExecution | Postgres, Redis |
| agent loop | `py-planner/app/planner/agent_loop.py`, `clients/go_engine_client.py`, `routers/plan.py` | the local state of one generator per SSE request | start, resume, `_drive_loop`, rebuild of the history | go-engine, a model |
| chat panel and modal | `frontend/src/components/ChatPanel.tsx`, `ConfirmationModal.tsx` | the pending confirmation, running flags | handleSend, handleEvent, handleConfirmation | py-planner |
| tenants and tool registry | `handlers/tenant_handler.go`, `tool_handler.go` | `tenants`, `api_connections`, `tools` | Create, GetBySlug, CreateConnection (a transaction), ListByTenant | Postgres |
| seed command | `go-engine/cmd/seed/main.go` | none of its own | ensureTenant, registerMockAPI, registerStripe | the registry |
| mock API | `mock-api/main.go` | products, orders, a counter under one mutex | routing, createOrder, cancelOrder, reads | - |
| request building and auth | `executor/http_client.go` | none | resolvePathParams, appendQueryParams, applyAuth, Execute | customer's API |
| OpenAPI parser | `py-planner/app/spec_parser` | none | a pure function of a document | - |
| LLM clients and prompts | `planner/llm_client.py`, `prompts.py` | none | format conversion | a model |
| internal auth, routes, config, start-up, pages | `middleware/auth.go`, `routes.go`, `config.go`, `db.go`, `server/main.go`, other components | none | - | - |

Behaviours that make it hard:

- No step handler opens a transaction. `SELECT MAX(step_index)` and the INSERT,
  or "mark executing" and "store the outcome", are separate statements, and two
  requests for one step interleave between any two of them.
- The handlers use `context.Background()`: a client that gives up does not stop
  its request. httpx gives up after 20 s with an exception that is not a
  `GoEngineError`; go-engine gives up on the customer's API after 15 s.
- A run outlives its sessions. It is paused by ending the SSE stream, and resumed
  by a second session that rebuilds the conversation from rows.
- The browser is told to ask the user *before* the run is marked as waiting, and
  while the stream that asked is still open.
- The status of a run is written to three places, and a websocket client reads one
  before it listens to another. Pub/sub delivers at most once: a failed publish is
  ignored, a reconnection of go-redis loses what is sent meanwhile, and a channel
  that is full (100 events) for a minute drops the next one.
- Registrations that insert the same names in different orders block each other.
- What a user is asked to confirm was read off a document somebody wrote; the call
  is put together from a map of arguments that Go ranges over in random order, and
  its answer may come too late or never.

The properties that make each part correct are the ones the runs check (section
3); `PROJECT.json` lists the hazards, with the line where each bites and the
properties that cover it.

## 2. The modules

| module | EXTENDS | |
|---|---|---|
| `ConfirmationGate` | - | abstract: what the step handlers promise |
| `StepLifecycle` | - | the step handlers, for arbitrary clients; implements `ConfirmationGate` |
| `AgentLoop` | `StepLifecycle` | a run end to end: browser, planner sessions, handlers |
| `RunStream` | - | the status of a run in row, cache, channel and browser |
| `AtomicRegistration` | - | abstract: what the tool registry promises |
| `ToolRegistry` | - | registrations as transactions; implements `AtomicRegistration` |
| `Seed` | `ToolRegistry` | the seed command and uploads |
| `OpenApiParser` | - | from a document to tools (a function) |
| `ToolCall` | `OpenApiParser` | from a tool and arguments to a request (a function) |
| `MockApi` | - | the sandbox store behind its routes |
| `Sandbox` | `ToolCall`, `MockApi` | from a document to the effect of a call |
| `StepLifecycleProofs`, `AgentLoopProofs`, `AgentOrderProofs`, `RunStreamProofs`, `ToolRegistryProofs`, `SeedProofs`, `SandboxProofs` | | theorems (section 4) |
| `FoldTheorems` | - | lemmas about sums, folds and flattened sequences |
| `MC...` | | constants and symmetry of the runs |

**ConfirmationGate** says what is promised with nothing about rows or handlers: a
step names one tool for good, a request makes at most one call, a destructive
call is made only for a request that carries an approval of that very step.

**StepLifecycle** models the step handlers for arbitrary clients. A request `r` is
served by a goroutine whose program counter `pc[r]` stands before the next
statement that touches something shared (an SQL statement, a publish, the API
call). `row` is the table; `req` and `nextIndex` are local to a handler; `calls`
and `announced` are history. Actions carry the names of the statements
(`SelectMax`, `Insert`, `LoadStep`, `SetConfirmed`, `MarkExecuting`, `CallApi`,
`PersistSuccess`, ...). An UPDATE may take effect while its acknowledgement is
lost, a statement may fail, a publish may reach nobody, the process may stop. The
content of arguments and results is left out, except that a step without a tool
or with arguments that are no JSON object is `Unusable`.

**AgentLoop** models a run end to end. `sess[p]` is one call of `start` or
`resume`: its stage, the tool calls of the turn that are left, the request it
awaits, the step it is about. `ui` and `frame` are the state of ChatPanel and an
`awaiting_confirmation` frame still on its way; `patches` the status updates
sent and not handled; `told` what the conversation says of each step; `decided`
(history) what the user chose when shown a step. The model is a choice: any turn
of calls, of tools that exist or of a made-up name, or an answer, or a failure.
httpx's timeout (`TransportFails`), a browser that goes away (`SessionDies`) and
a restart of go-engine (`EngineCrash`) may come at any time.

**RunStream** models the status of one run in Postgres, cache and channel, and
websocket clients. An event on its way to a client is on the `wire` of its
subscription, then in the `inbox`, the Go channel of go-redis with `Buffer` places,
then `seen`, written to the socket. It may be lost at every stage but the last: the
publish fails (`PublishStatus`), the connection to Redis is replaced (`Reconnect`),
the channel was full for too long (`Drop`). Statements and the other commands may
fail as well (`UpdateRowFails`, with or without effect, `SetRunState`,
`GetRunState`). What a handler goes on with after a step is `After`. `whole`
(history) says that the last status change overlapped no other and lost nothing.
Its step events stand for the publishes of `StepLifecycle`.

**ToolRegistry** models tenants and CreateConnection as what Postgres makes of it:
rows of an open transaction are private, an INSERT of a name another open
transaction inserted waits for it, and a circle of waits is broken. **Seed** adds
the seed command, run several times and interrupted, among uploads.

**OpenApiParser** is `parse_openapi_spec` as operators over a loaded document:
resolution of references (chains, references to nothing, circles, in which Python
runs out of stack), names, the destructive flag, parameters (their own references,
which are followed once, and those without a name, which are dropped), required
fields, the base URL (a server without a URL, an empty one) and the status of the
answer. Texts are sequences of tokens: words, placeholders and separators. A word
ends where a capital follows a small letter or a digit, so `getOrderID` is three.

**ToolCall** is `http_client.go` up to the call: path parameters are replaced one
argument after the other, in the order `order` in which the map is ranged over;
what is left becomes query or body; base and path are joined; credentials are
attached if the configuration is complete. `Meant` is the reference definition:
all placeholders at once, independent of any order.

**MockApi** models the sandbox: routing by path and method, and the handlers. The
mux redirects a path that is not clean (`//`, `.`, `..`) before it looks for a
handler (`Cleaned`). A handler holds the mutex throughout, so each is one action,
and a restart forgets everything.

**Sandbox** puts these together: a document is registered, then `call[c]` is one
`RunTool`, its request is on the `wire` until mock-api serves it, the `answer` may
come before or after the 15 s are over. A redirect is followed as net/http does it,
with a GET and without the body (`FollowRedirect`, `Carried`). `served` and `effects`
are history.

A definition marked `(slip)` is not part of a specification: it is the variant a
plausible mistake in the code would give, kept next to the definition it differs
from. `PROJECT.json` pairs each checked property with a slip that breaks it, so
that every property is known to be able to fail.

## 3. What is checked

| run | shows |
|---|---|
| `step_safety` | for any three requests about two steps, with crashes and failing statements: numbering dense (`IndexesDense`), no destructive call without an approval (`ConsentBeforeEffect`), no step left `executing` that nobody accounts for (`ExecutingAccountable`), no made-up outcome stored or published (`OutcomeBacked`); the handlers implement `ConfirmationGate` (`ImplementsGate`) |
| `agent_safety` | no step carried out twice (`OneCallPerStep`), a rejected step never called (`RejectedNeverCalled`), nor one whose creation was reported as failed (`UnrecordedNeverCalled`), a destructive call only after the user's click on that step (`HumanConsent`), nothing goes on behind a pending question (`NothingOvertakes`), a completed run has nothing at work (`CompletedIsQuiet`), the model is told no result that did not happen (`ToldResultHappened`) |
| `agent_liveness` | every session ends (`SessionsEnd`), every request ends although the API may never answer (`RequestsEnd`), a verdict is never turned into the opposite one (`OneVerdict`) |
| `stream` | one PATCH that no other overlaps and of which nothing is lost puts cache and channel right, whatever went wrong before it (`SerialWritersAgree`); a client that was sent all there is holds another status than the row for two reasons only, its event was lost on the way or fell between snapshot and subscription (`StaleOnlyIf`); a terminal status that reached the channel of a subscription ends the stream (`TerminalEndsStream`) |
| `tool_calls` | for eight documents: names hold no capital, no brace and no other character a function name cannot have (`NamesCallable`); requests put together as meant whatever the order of the arguments (`RequestAsMeant`); an operation the document describes as mock-api serves it (`Truthful`) at a base URL without a path (`AtRoot`) reaches the handler it is named for, with its id and body, and an empty id is refused (`RightOperation`); no effect without a confirmation unless the document calls the operation harmless (`ConfirmedEffects`); one effect per call, whatever is late, lost or redirected (`OneEffectPerCall`); stock conserved (`StockConserved`), an order confirmed and restocked once (`OrderOnce`); every call ends (`CallsEnd`) |
| `seed` | names unique (`OneToolPerName`), registrations whole (`WholeConnections`), "done" means complete (`DoneIsComplete`), registrations and seeds end (`RegistrationsEnd`, `SeedsEnd`); the transactions implement `AtomicRegistration` (`ImplementsAtomic`) |

Each of the first configurations also checks the type invariant of its module
(`TypeOK`, `AgentTypeOK`, `StreamTypeOK`, `SandboxTypeOK`, `SeedTypeOK`).

Six more runs show that the code does not do what a comment or document of it
says; TLC finds a counterexample.

| run | what the code does |
|---|---|
| `step_twice` | ConfirmStep (`execution_handler.go:223`) does not look at the status: two approvals of one destructive step call the API twice. `models/execution.go:42` speaks of a step awaiting confirmation. The browser never sends a second approval (`OneCallPerStep` holds), another client may. |
| `agent_paused` | The `finally` of handleConfirmation (`ChatPanel.tsx:85`) clears the pending confirmation, also the one the same stream has just delivered for the next destructive step. The run waits for an answer nobody is asked for. Happens without any fault. |
| `agent_told` | A row left `executing` is retold as "step was not approved and was skipped" (`agent_loop.py:67`), though the call was made and nobody rejected it. |
| `stream_stuck` | The cached status is read before the subscription exists (`websocket_handler.go:57`): a terminal status written in between reaches the client neither way. |
| `arguments_dropped` | What is left of the arguments of a POST, PUT or PATCH once path and body are made is dropped (`http_client.go:65`), also a query parameter that the document declares and the model was offered. |
| `seed_rerun` | A second run of the seed registers the same tools, is refused and ends with an error (`cmd/seed/main.go:49`), though line 68 speaks of being idempotent. |

Some behaviours are in the models and contradict no document, so no run is about
them: a step refused by the gate stays `executing` and no event says so; the
result of a step in error is `null` for the model; an HTTP error of the
customer's API is stored as a success; two overlapping PATCHes may leave the
cache behind the row until the next one; a terminal status whose publish failed
reaches nobody; a write whose path the mux has to clean is redirected, arrives as a
GET and answers 200 without having written; the late PATCH of the session that paused a run may
overwrite its verdict with `awaiting_confirmation` (which `OneVerdict` allows);
the base URL a user typed is ignored when the document names a server; a circle
of references is answered with a 500 instead of a 400; incomplete credentials
are no error; an order id from before a restart of mock-api names another order
afterwards.

The liveness properties have the form `[]<>(nothing is under way)`. Sessions,
requests, registrations and calls are one-shot, so one that never ended would keep
the system from coming to rest for ever.

### Bounds, and why they are enough

- *StepLifecycle*: one run, two steps (one where the property is temporal), three
  requests, one safe and one destructive tool. A conflict needs two requests; the
  third lets a conflict follow a conflict, or a confirmation overtake an
  execution. Runs share nothing but the table. The theorems remove these bounds.
- *AgentLoop*: one run, a session that starts it and one that resumes it, five
  requests, three steps, two turns of at most two calls, two faults. It is enough
  for a turn with a read and a destructive call, a resume, a further turn that
  pauses again, and a timeout after a lost acknowledgement. The liveness
  configuration has one call a turn and one fault, and no symmetry. `Fits` keeps
  the model from proposing calls there are no requests left for, since a session
  without one would only look stuck. Only the first prompt is modelled.
- *RunStream*: two PATCHes (any statuses), one client, one step event, two losses, a
  channel with one place. Two PATCHes are what an overlap needs, and a repair after a
  loss; one place makes the channel full as soon as two events are on their way; two
  losses let the second one hit what the first has left. Clients do not influence
  each other. The theorems remove these bounds. `stream_stuck` has one PATCH and
  no loss at all.
- *ToolRegistry, Seed*: one tenant, three names, four registrations, two runs of
  the command, two troubles (none in `seed_rerun`). Bodies include the same
  names in both orders, which is what makes registrations deadlock, and a body that
  repeats a name. The theorems remove these bounds.
- *Sandbox*: eight documents (mock-api's own; one written by hand with a trailing
  slash, a server without a URL, chained references, parameters by reference and
  without a name, a path with two parameters, missing names, wrong flags and unknown
  operations; one that says the sandbox is elsewhere; five that are refused, for a
  name given twice, references in a circle, no operation, no URL and an empty one),
  two calls numbered in the order they start, one product, two orders, one restart;
  other clients only cancel. There are thirteen argument sets: none, one or two
  arguments, in the path or not; texts that are empty, that read like a placeholder
  or that make the path one the mux has to clean; bodies that order a negative
  quantity, none, some, exactly all and more than all of the stock of three. Two
  arguments of one path are what makes the order of the map matter. A call passes
  what is declared, in the path, or in `Strays`, and calls of harmless tools are
  not confirmed. A lost request is one that stays on the wire.

Identities are one-shot, so that requests, sessions and connections are used up
in the end: this is why deadlock is not checked. That nothing gets stuck before
that is what the liveness properties say. Symmetry is used in `step_safety` and
the safety configurations of `AgentLoop`, where identities are only compared.

### Fairness

Weak fairness of each goroutine (`Handler(r)`), of the planner's and the
browser's event loops (`Planner(p)`, `Panel(p)`), of the handling of a PATCH, of
writers and websocket loops, and of the transactions of registrations: the
runtimes schedule what can go on. For a websocket loop (`Serve(c)`) this says more:
its write has no deadline (`websocket_handler.go:86`), so a client that neither
reads nor goes away stops it, and `TerminalEndsStream` is about clients that read. `ApiTimesOut` is part of `Handler` because the
HTTP client of go-engine has a timeout of its own (`http_client.go:43-45`); the
answer of the API is not assumed. The same timeout is `TimesOut` of `Sandbox`
(with `ReadAnswer` the goroutine of a call). The model of the agent is assumed to answer or
to raise, as its client does. `RegistrationsEnd` uses the deadlock detector of
Postgres (`InsertRefused`). Nothing is assumed of users, failures, restarts or
losses, and nobody has to start anything.

## 4. What is proved

`StepLifecycleProofs` proves, for every set of runs, steps, requests and tools,
from `StepAssumption` alone (the destructive tools are tools; `Unusable`, `NoRun`
and `NoStep` are none of the things they stand apart from):

| theorem | |
|---|---|
| `TypeCorrect` | `Spec => []TypeOK` |
| `Invariance` | `Spec => []IInv` |
| `Consent`, `DenseNumbering`, `Accountability`, `Truthfulness` | the four safety properties of `step_safety` |
| `GateRefinement` | `Spec => ImplementsGate` |

None of the four properties is inductive. `IInv` adds what the code relies on
without saying it:

- `RowsOK`: a row that exists belongs to a run, one that does not is blank;
- `StageOK`: where a handler stands says what its request is; a handler past its
  load has a step that exists, and one past the load of an execution or an
  approval was asked for it (so that no rejection ever reaches `RunTool`);
- `CallOK`: a handler calls at most once, for what it was asked, with the gate
  open, and has called if it is about to store or publish a success;
- `IndexOK`: between SELECT and INSERT the index read is still the successor of a
  stored one. It stays so because rows are never deleted, and this with the
  unique constraint gives `IndexesDense`.

The proof that a step keeps `IInv` does not go action by action through the
conjuncts: a handler's step sends a request, inserts a row, updates its step's
row, publishes about it, or does neither (`SendStep`, `InsertStep`,
`UpdateStep`, `PublishStep`, `QuietStep`), and one lemma for each says what
has to hold for the invariant to survive. `RequestKept` does the rest: what
holds of a request goes on holding while others work, because a row never goes
away and never changes its run, index or tool.

`GateRefinement` maps every step to a proposal (`Insert`), a question
(`SendExecute`, an approving `SendConfirm`), a call (`CallApi`) or a stutter.

`AgentLoopProofs` proves, for every set of sessions and every bound, from
`StepAssumption` and `AgentAssumption`:

| theorem | |
|---|---|
| `StepRefinement` | `AgentSpec => Spec`: the agent is a client of the handlers, so every theorem above holds of the whole system |
| `EndToEndGate` | `AgentSpec => ImplementsGate` |
| `AgentTypeCorrect` | `AgentSpec => []AgentTypeOK` |
| `Consented` | `AgentSpec => []HumanConsent` |
| `ToldTruth` | `AgentSpec => []ToldResultHappened` |

The invariant `AgentInv` adds to the two type invariants and `IInv` what sessions
and requests know (`SessionOK`, `RequestBacked`): a session about to confirm or
execute has a step in mind, one about to pass on an approval has it from the user,
a CreateStep that was answered has its step, and a ConfirmStep that approves is
backed by the user's click. Consent then has two halves: `CallOK` says that a
destructive call belongs to an approving request, `RequestBacked` that an
approving request belongs to a click.

`ToldTruth` needs no more than that: the conversation changes only from rows in
success, `OutcomeBacked` gives the call behind one, and a call made stays made
(`CallKept`).

`AgentOrderProofs` proves, from the same assumptions, what depends on the order in
which things happen:

| theorem | |
|---|---|
| `OrderInvariance` | `AgentSpec => []OrderInv` |
| `CarriedOutOnce`, `RejectionHolds`, `UnrecordedStays` | `OneCallPerStep`, `RejectedNeverCalled`, `UnrecordedNeverCalled` |
| `QuestionStands`, `CompletionIsQuiet` | `NothingOvertakes`, `CompletedIsQuiet` |
| `VerdictStands` | `AgentSpec => OneVerdict` |

Nothing in the code locks a run. What keeps two actors from going on with it is
that the right to do so is handed on and never copied; the invariant names it a
baton. A session that drives the run holds it (`drives`), gives it away with the
step it asks about (`frame`, then `shown` in the modal), the session started by the
user's answer takes it up, and it ends as a verdict (`decides`, `patch`,
`verdict`). `OneBaton` says that there is at most one. Two more facts make that
useful: a handler is at work only for the session that holds the baton and awaits
it, or the baton is lost for good because that session died (`Flight`: nobody
retries a request that may still be at work, since an httpx timeout is no
`GoEngineError`); and the step that travels with the baton exists, has been
reported, has not been addressed by any request and is decided as it will be
passed on (`HandOK`). From these `StepsInOrder` follows: a step is created once and
addressed once at most, as the user decided. `Leads` and `NextLeads` say that the
step in hand is the last of its run. Passing the baton is one lemma
(`BatonPasses`), losing it another (`Losses`), and what neither sends a request
nor takes a step in hand a third (`DriverMoves`).

`RunStreamProofs` proves, for every set of PATCHes and of websocket clients, every
size of the channel, and any number of step events and losses, from
`StreamAssumption`:

| theorem | |
|---|---|
| `StreamInvariance` | `StreamSpec => []StreamInv` |
| `StreamTypes`, `WritersAgree`, `StaleExplained` | `StreamTypeOK`, `SerialWritersAgree`, `StaleOnlyIf` |

`Serial` is about the writers: as long as `whole` holds at most one of them is
between its UPDATE and its publish, it carries the status of the row, and what it
is about to publish is in the cache already; so at rest cache and last status event
are those of the row. An UPDATE that finds nobody at work makes `whole` true again,
whatever came before, which is why the properties need no history without losses.
Until the run has been created nobody else writes or watches (`Creating`).

`Ordered(c)` is about a client: what it has read, what is in its channel and what
is on its way are positions of the log that rise and lie behind its subscription,
with gaps. `Current(c)` is where the writer's order of steps comes in: a client that
no status change has overtaken since its snapshot was sent the status of the row,
or none, because a status is in the cache before it is published. `StaleExplained`
then takes the last status event of the log (`HasFinal`: there is one, or none at
all) and asks where it is: before the snapshot (`Current`), between snapshot and
subscription (`Raced`), behind it and never read (`Missed`), or read, and then what
was read after it are step events by `Ordered`, so that it is the last status the
client was told.

`ToolRegistryProofs` proves, for every set of tenants, registrations and bodies,
from `RegistryAssumption`:

| theorem | |
|---|---|
| `RegistryInvariance` | `RegistrySpec => []RegistryInv` |
| `UniqueNames`, `AllOrNothing` | `OneToolPerName`, `WholeConnections` |
| `RegistryRefinement` | `RegistrySpec => ImplementsAtomic` |

`RegistryInv` says of each registration how its stage, its body and the names it has
inserted go together (`Progress`), what a committed one has left in the tables
(`Committed`), and that no two registrations of a tenant hold one name, one of them
perhaps still open (`KeysHeld`): this is what the unique constraint makes of the
waiting. In the refinement `SendRegistration` asks, `Commit` accepts, an INSERT
that is refused or a failure refuses, and everything before the commit is
invisible.

`SeedProofs` proves `SeedIsClient` (`SeedSpec => RegistrySpec`, so that the theorems
above hold while seeds and uploads run), `SeedTypes` and `DoneMeansComplete`. The
invariant `SeedInv` adds to `RegistryInv` what a run of the command has in hand
by the place it has reached (`Evidence`): which registration it awaits, and which
connections it has seen accepted.

`SandboxProofs` proves, for any documents, any arguments, any number of products,
orders, calls and restarts, from `ParserAssumption`, `MockAssumption` and
`SandboxAssumption`:

| theorem | |
|---|---|
| `SandboxTypes` | `SandboxSpec => []SandboxTypeOK` |
| `StockIsConserved`, `OrderIsOnce` | `StockConserved`, `OrderOnce` |
| `OneEffect`, `EffectsConfirmed` | `OneEffectPerCall`, `ConfirmedEffects` |
| `ArgumentsInPlace`, `RequestsAsMeant` | the loop of resolvePathParams; `RequestAsMeant` |
| `OperationsAreRight` | `RightOperation` |
| `NamesAreCallable` | `NamesCallable` |

The assumptions say that tokens are strings, that no parameter has the placeholder
of another one, that "/" is one of the characters that separate words, that "/" and
the collections of mock-api are no placeholders, that words spelled in small letters
and names of parameters are neither separators nor placeholders, the former not
capitalised either, that documents have the fields a loaded document has, that order ids differ, and
that what the decoder makes of a quantity is an integer. TLC evaluates them on the
instance of `tool_calls`.

The store: `OrdersSound` says that the numbers from `nextOrd` on are free and that
an order is for a positive quantity of a product, which makes `OrderOnce` and
`StockConserved` inductive. A call: `SandboxInv` says that a request on its way has
had no effect, that an answer tells whether there was one (`AnswerSound`), and that
what was sent is what RunTool built of the registered tool, with the confirmation it
needs (`AsBuilt`). `SuccessChanges` ties the status of a write to its effect: routes
and methods go together so that no handler answers a write with 200 and leaves the
store alone, except `/health`, which answers any method. A call that was redirected
carries a GET from then on (`RedirectedRecord`, `FollowSound`), which changes
nothing, so that it counts as one that had no effect.

The loop over the arguments is sequential, its order is random, and what it rewrites
is what it searches. `Resolved(template, args, K)` is what it should have made of
the arguments `K`: the simultaneous substitution. `UsesKept` says that putting them
in brings no placeholder in and takes no other out, because no text reads like one
and no two parameters share one; `ReplacePuts` that one more replacement is a
substitution of one more argument; so every turn goes from `Resolved` of a set to
`Resolved` of a larger one (`TurnResolves`), and the order drops out.

`OperationsAreRight` follows a call from what its document says to the handler that
serves it. `TruthfulPath`: with any arguments in place the path still has its
collection and, after it, nothing or the id that was passed, so that the routes lead
to the handler of that name, or to the refusal of an empty id (`EmptyId`); the body
is no part of the path. `JoinedAtRoot`: joined to a base URL of a host and any number
of slashes, that path comes out at the other end as it is. The invariant adds that
what served a call is what its request leads to (`ServerOf`). The hypotheses are what
the property itself says: a document that misnames an operation, a base URL with a
path, and a text that makes the path one the mux has to clean do lead elsewhere; TLC
has documents and arguments of the last two kinds.

Sums, `FoldLeft` and `FlattenSeq` are recursive functions of the community modules.
The theorems of the library for such definitions take an operator as a parameter,
which the backends cannot instantiate. `FoldTheorems` states induction with sets
instead (`SetInduction`, `AppendInduction`), which they can, and proves that the
recursion has a solution and that `CHOOSE` finds it: `SumTakesOut`, `SumAgrees`,
`FlattenTyped`, `FlattenAppend`, `SpelledTwice` (two substitutions are one),
`SpelledHolds`, `IterationUnique`.

Only model-checked: the liveness properties, which rest on fairness (`SessionsEnd`,
`RequestsEnd`, `TerminalEndsStream`, `RegistrationsEnd`, `SeedsEnd`, `CallsEnd`).
Every safety invariant of the passing runs is the subject of a theorem.

## 5. What is not modelled, and the plan

Left out for good: the LLM clients and prompts (conversion for external services;
what a model says is a choice in `AgentLoop`), the internal token check, routes,
configuration and start-up (no protocol), rendering, `lib/websocket.ts` (no
component uses it). Wording and API payloads appear nowhere; argument values only
as tokens, so escaping in URLs and the printing of numbers (`%v` prints a million
as 1e+06) are below the models. Parameters declared for a whole path are ignored
by the parser and so by its model. Files that are no JSON or YAML, and `$ref`s of a
request body, are not among the documents. An `auth_config` that cannot be decoded
counts as `RunToolFails`.

Done so far, in this order: `ConfirmationGate` and `StepLifecycle` with proofs;
`AgentLoop` with proofs; `RunStream` with proofs; `ToolRegistry` and `Seed`, with
`AtomicRegistration` and proofs; `MockApi`; `OpenApiParser`, `ToolCall` and
`Sandbox` with proofs, `FoldTheorems`.

Next:

1. *AgentLoop*: a second prompt (handleSend again after a run), and more than one
   tab.
2. *Conversation*: that each tool call the model made is followed by its result
   when the history is rebuilt, which providers insist on.
