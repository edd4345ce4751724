------------------------------- MODULE Sandbox -------------------------------
(***************************************************************************)
(* The demo end to end, below the planner: an OpenAPI document is parsed   *)
(* and registered, go-engine calls its tools, and mock-api serves them.    *)
(*                                                                         *)
(* A call is one Engine.RunTool.  Its caller says whether a human approved *)
(* it; StepLifecycle and AgentLoop say when.  A request may be lost, that  *)
(* is stay on its way for ever, and so may its reply.  go-engine gives up  *)
(* after 15 s without knowing whether it was, or will be, served.          *)
(***************************************************************************)
EXTENDS ToolCall, MockApi

CONSTANTS
    Documents,      \* name -> OpenAPI document that somebody may register
    MaxCalls,       \* bound: calls; they are numbered in the order they start
    Arguments,      \* what the model may pass: partial functions params -> values
    Strays          \* parameters it may pass though the tool does not have them

Calls == 1..MaxCalls

ASSUME SandboxAssumption ==
    /\ MaxCalls \in Nat
    /\ \A name \in DOMAIN Documents :
          LET doc == Documents[name]
          IN  /\ doc.operations \in Seq(Operation)
              /\ \A ref \in DOMAIN doc.parameters : doc.parameters[ref] \in Parameter
              /\ doc.servers \in Seq(Seq(STRING) \cup {NoBase})
              /\ doc.typed = NoBase \/ doc.typed \in Seq(STRING)
    /\ \A args \in Arguments :
          /\ DOMAIN args \subseteq Params /\ IsFiniteSet(DOMAIN args)
          /\ \A k \in DOMAIN args : Text[args[k]] \in Seq(STRING)
          /\ Body \in DOMAIN args => args[Body] \in DOMAIN Decoded
    /\ NoBody \in DOMAIN Decoded
    /\ ({"/"} \cup DOMAIN ItemHandlers) \cap Range(Placeholder) = {}

VARIABLES
    document,       \* the document of this behaviour
    registration,   \* what became of the registration
    call,           \* the local state of each call
    wire,           \* calls whose request is on its way
    answer,         \* the reply on its way back, 0 if there is none
    served,         \* history: handler and id that served a call's request
    effects         \* history: how often a call's request changed the store

callVars == <<call, wire, answer, served, effects>>
sandboxVars == <<document, registration, callVars, mockVars>>

------------------------------------------------------------------------------

Parsed == [d \in DOMAIN Documents |-> ParsedTools(Documents[d])]

\* The tools of the tenant, once they are registered.
Catalog == IF registration = "done" THEN Parsed[document] ELSE <<>>

NoRequest == [method |-> "none", url |-> <<>>, query |-> {}, body |-> NoBody,
              credentials |-> FALSE]

IdleCall == [stage |-> "idle", tool |-> 0, args |-> <<>>, confirmed |-> FALSE,
             request |-> NoRequest, redirected |-> FALSE, status |-> 0]

Statuses == {0, 200, 201, 301, 400, 404, 405, 409}

SandboxTypeOK ==
    /\ MockTypeOK
    /\ document \in DOMAIN Documents
    /\ registration \in {"none", "done", "refused"}
    /\ \A c \in Calls :
          /\ call[c].stage \in {"idle", "refused", "sent", "answered", "failed"}
          /\ call[c].tool \in 0..Len(Catalog)
          /\ call[c].args \in Arguments \cup {<<>>}
          /\ call[c].confirmed \in BOOLEAN
          /\ call[c].request.method \in SupportedMethods \cup {"none"}
          /\ call[c].request.url \in Seq(STRING)
          /\ call[c].request.body \in DOMAIN Decoded
          /\ call[c].redirected \in BOOLEAN
          /\ call[c].status \in Statuses
    /\ wire \subseteq Calls
    /\ answer \in [Calls -> Statuses]
    /\ effects \in [Calls -> Nat]

SandboxInit ==
    /\ MockInit
    /\ document \in DOMAIN Documents
    /\ registration = "none"
    /\ call = [c \in Calls |-> IdleCall]
    /\ wire = {}
    /\ answer = [c \in Calls |-> 0]
    /\ served = [c \in Calls |-> {}]
    /\ effects = [c \in Calls |-> 0]

------------------------------------------------------------------------------
(* Registration *)

\* UNIQUE (tenant_id, tool_name), the tenant having no other tools.
NamesDistinct(tools) ==
    \A i, j \in DOMAIN tools : tools[i].name = tools[j].name => i = j

\* The document is parsed and its tools are stored, all or none (ToolRegistry says
\* how).  One name twice refuses them all, and so does an empty base URL.
RegisterConnection ==
    /\ registration = "none"
    /\ registration' = IF /\ ParseStatus(Documents[document]) = 200
                          /\ InferBaseUrl(Documents[document]) # <<>>
                          /\ NamesDistinct(Parsed[document])
                       THEN "done" ELSE "refused"
    /\ UNCHANGED <<document, callVars, mockVars>>

Connection == [base |-> InferBaseUrl(Documents[document]), auth |-> Documents[document].auth]

------------------------------------------------------------------------------
(* Engine.RunTool *)

Called(stage, i, args, isConfirmed, request) ==
    [stage |-> stage, tool |-> i, args |-> args, confirmed |-> isConfirmed,
     request |-> request, redirected |-> FALSE, status |-> 0]

\* "if tool.IsDestructive && !confirmed"
NeedsConfirmation(tool, isConfirmed) == tool.destructive /\ ~ isConfirmed

\* Bound: what is passed is declared, in the path, or one of Strays, and calls of
\* harmless tools are not confirmed.
Starts(c, tool, args, isConfirmed) ==
    /\ call[c].stage = "idle"
    /\ \A d \in 1..c - 1 : call[d].stage # "idle"
    /\ \A k \in DOMAIN args : k \in tool.properties \cup Strays \/ Uses(tool.path, k)
    /\ isConfirmed => tool.destructive

RunToolRefused(c, i, args, isConfirmed) ==
    /\ Starts(c, Catalog[i], args, isConfirmed)
    /\ NeedsConfirmation(Catalog[i], isConfirmed)
    /\ call' = [call EXCEPT ![c] = Called("refused", i, args, isConfirmed, NoRequest)]
    /\ UNCHANGED <<document, registration, wire, answer, served, effects,
                   mockVars>>

RunTool(c, i, args, isConfirmed) ==
    /\ Starts(c, Catalog[i], args, isConfirmed)
    /\ ~ NeedsConfirmation(Catalog[i], isConfirmed)
    /\ \E order \in SetToSeqs(DOMAIN args) :
          call' = [call EXCEPT ![c] =
                      Called("sent", i, args, isConfirmed,
                             BuildRequest(Catalog[i], Connection, args, order))]
    /\ wire' = wire \cup {c}
    /\ UNCHANGED <<document, registration, answer, served, effects, mockVars>>

\* The client of net/http follows a redirection: with a GET, and without the body.
FollowRedirect(c) ==
    /\ call[c].stage = "sent" /\ answer[c] = 301
    /\ call' = [call EXCEPT ![c].redirected = TRUE]
    /\ wire' = wire \cup {c}
    /\ answer' = [answer EXCEPT ![c] = 0]
    /\ UNCHANGED <<document, registration, served, effects, mockVars>>

\* Execute returns the status and the body, whatever the status is.
ReadAnswer(c) ==
    /\ call[c].stage = "sent" /\ answer[c] \notin {0, 301}
    /\ call' = [call EXCEPT ![c].stage = "answered", ![c].status = answer[c]]
    /\ UNCHANGED <<document, registration, wire, answer, served, effects,
                   mockVars>>

\* (slip) The request is sent once more.
SendsAgain(c) ==
    /\ call[c].stage = "sent"
    /\ wire' = wire \cup {c}
    /\ UNCHANGED <<document, registration, call, answer, served, effects,
                   mockVars>>

\* (slip) The HTTP client has no timeout.
WaitsForever(c) == FALSE

\* The 15 s of httpClient pass; the request may still be served.
TimesOut(c) ==
    /\ call[c].stage = "sent"
    /\ call' = [call EXCEPT ![c].stage = "failed"]
    /\ UNCHANGED <<document, registration, wire, answer, served, effects,
                   mockVars>>

------------------------------------------------------------------------------
(* mock-api and the network *)

\* The path of a request; the first token of its URL is the host.
PathOf(request) == Tail(request.url)

\* The request of a call that is on its way.
Carried(c) ==
    LET request == call[c].request
    IN  IF call[c].redirected
        THEN [request EXCEPT !.method = "GET", !.body = NoBody,
                             !.url = <<Head(@)>> \o Cleaned(PathOf(request))]
        ELSE request

MockServes(c) ==
    LET request == Carried(c)
        path == PathOf(request)
    IN  /\ c \in wire
        /\ Serve(request.method, path, request.body)
        /\ wire' = wire \ {c}
        /\ answer' = [answer EXCEPT ![c] = Status(request.method, path, request.body)]
        /\ served' = [served EXCEPT ![c] =
                         @ \cup {[handler |-> Route(request.method, path), id |-> Id(path)]}]
        /\ effects' = [effects EXCEPT ![c] =
                          IF Changes(request.method, path, request.body) THEN @ + 1 ELSE @]
        /\ UNCHANGED <<document, registration, call>>

\* Anybody may use the sandbox.  Bound: others only cancel orders.
OthersCancel(n) ==
    LET path == <<"/", "orders", "/", OrderId[n]>>
    IN  /\ Changes("DELETE", path, NoBody)
        /\ Serve("DELETE", path, NoBody)
        /\ UNCHANGED <<document, registration, callVars>>

MockRestart == Restart /\ UNCHANGED <<document, registration, callVars>>

------------------------------------------------------------------------------
(* Specification *)

SandboxNext ==
    \/ RegisterConnection
    \/ \E c \in Calls :
          \/ \E i \in DOMAIN Catalog, args \in Arguments, isConfirmed \in BOOLEAN :
                RunToolRefused(c, i, args, isConfirmed) \/ RunTool(c, i, args, isConfirmed)
          \/ FollowRedirect(c) \/ ReadAnswer(c) \/ TimesOut(c) \/ MockServes(c)
    \/ \E n \in Numbers : OthersCancel(n)
    \/ MockRestart

\* go-engine goes on; nothing is assumed of the sandbox, the network or clients.
SandboxSpec == SandboxInit /\ [][SandboxNext]_sandboxVars
FairSandboxSpec ==
    SandboxSpec /\ \A c \in Calls : WF_sandboxVars(ReadAnswer(c) \/ TimesOut(c))

------------------------------------------------------------------------------
(* Properties *)

ToolOf(c) == Catalog[call[c].tool]
Built(c) == call[c].request # NoRequest

\* openapi.yaml:6-8: the store changes only for a call that was confirmed, by way of
\* a tool that had to be, however the document names and describes its operations,
\* unless it declares the operation harmless itself.
ConfirmedEffects ==
    \A c \in Calls : (effects[c] > 0 /\ ToolOf(c).op.xDestructive # {FALSE})
        => call[c].confirmed /\ ToolOf(c).destructive

\* A call has one effect at most, also when its answer is late or lost: a caller that
\* reads a success knows it happened once, one that reads a refusal that it did not.
\* Only /health answers 200 to any method, and a call that was redirected on its way
\* never has an effect, whatever the caller reads.
OneEffectPerCall ==
    \A c \in Calls :
        LET request == call[c].request
        IN  /\ effects[c] <= (IF call[c].stage \in {"idle", "refused"} THEN 0 ELSE 1)
            /\ (/\ call[c].stage = "answered" /\ request.method \in WriteMethods
                /\ PathOf(request) # <<"/", "health">>)
                  => (effects[c] = 1
                        <=> (call[c].status \in {200, 201} /\ ~ call[c].redirected))

\* Whatever the order in which the arguments are ranged over, each ends up in its
\* place and nowhere else.
RequestAsMeant ==
    \A c \in Calls : (Built(c) /\ Plain(call[c].args)) =>
        LET request == call[c].request
            meant == Meant(ToolOf(c), Connection, call[c].args)
        IN  /\ request.url = meant.url
            /\ request.body = meant.body
            /\ request.query \in {{}, meant.query}
            /\ request.method \in {"GET", "DELETE"} => request.query = meant.query

\* An operation as main.go serves it: a method of a collection or of one of its
\* items, under the name of its handler.
Truthful(op) ==
    \E word \in DOMAIN ItemHandlers :
        \/ /\ op.path = <<"/", word>>
           /\ op.method \in DOMAIN CollectionHandlers[word]
           /\ op.operationId = CollectionHandlers[word][op.method]
        \/ /\ \E k \in Params \ {Body} : op.path = <<"/", word, "/", Placeholder[k]>>
           /\ op.method \in DOMAIN ItemHandlers[word]
           /\ op.operationId = ItemHandlers[word][op.method]

\* A base URL without a path.
AtRoot(base) == base # <<>> /\ \A i \in DOMAIN base : base[i] = "/" <=> i > 1

\* A tool does what its operation is called: if the document tells the truth about it,
\* the handler of that name serves the call, on the id and body that were passed; an
\* empty id is refused, and does not turn the item into its collection.  A text
\* that makes the path one the mux has to clean is redirected.
RightOperation ==
    \A c \in Calls : Built(c) =>
        LET tool == ToolOf(c)
            args == call[c].args
            inPath == {k \in DOMAIN args : Uses(tool.path, k)}
        IN  (/\ AtRoot(Connection.base) /\ Truthful(tool.op)
             /\ Plain(args) /\ Cleaned(MeantPath(tool, args)) = MeantPath(tool, args))
            => /\ \A s \in served[c] :
                    IF \E k \in inPath : Text[args[k]] = <<>> THEN s.handler = <<"400">>
                    ELSE /\ s.handler = tool.op.operationId
                         /\ \A k \in inPath : s.id = Text[args[k]]
               /\ call[c].request.body = IF Body \in DOMAIN args THEN args[Body] ELSE NoBody

\* What the planner offers to the model are names it can be called by: openapi_parser
\* .py:39 calls them snake_case and LLM-function-name-safe.  No capital, no brace and
\* no other character is left in them, whatever stands beside it in the operationId
\* or in the path.
NamesCallable ==
    \A i \in DOMAIN Catalog :
        ToSet(Catalog[i].name)
            \cap (DOMAIN Lowercase \cup Punctuation \cup Range(Placeholder)) = {}

\* Every call ends, also when the sandbox never answers; calls are one-shot.
CallsEnd == []<>(\A c \in Calls : call[c].stage # "sent")

------------------------------------------------------------------------------
(* What a comment of the code says of it, and it does not do *)

\* openapi_parser.py:78-80 has the arguments substituted into the path, and
\* everything else become query params or the body: no parameter the document
\* declares, and the model is offered, would be lost.
ArgumentsArrive ==
    \A c \in Calls :
        (Built(c) /\ Plain(call[c].args) /\ DOMAIN call[c].args \subseteq ToolOf(c).properties)
            => call[c].request.query = Meant(ToolOf(c), Connection, call[c].args).query

=============================================================================
