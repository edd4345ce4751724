---------------------------- MODULE OpenApiParser ----------------------------
(***************************************************************************)
(* py-planner/app/spec_parser: what becomes of an OpenAPI document, once   *)
(* it is loaded.  A pure function of the document and of the base URL the  *)
(* user typed.                                                             *)
(*                                                                         *)
(* Texts are sequences of tokens: words, placeholders, and single other    *)
(* characters.  A word ends where a capital follows a small letter or a    *)
(* digit, so that getOrderID is get, Order and ID; the name of a parameter *)
(* is one word.  A path begins with "/".                                   *)
(***************************************************************************)
EXTENDS Naturals, Sequences, FiniteSets, SequencesExt

CONSTANTS
    Params,         \* names of parameters, and of other arguments
    Body,           \* the name "body"
    Placeholder,    \* params -> token: "{" + name + "}"
    Lowercase,      \* word with capitals -> the word without them
    Punctuation,    \* tokens that are none of [a-zA-Z0-9_], "/" among them
    NoBase          \* no URL

\* A parameter without a name, or with an empty one.
NoName == ""

\* The tokens a name that is spelled in small letters consists of.
SmallTokens == {"_", "by"} \cup Range(Lowercase)

ASSUME ParserAssumption ==
    /\ Body \in Params /\ NoName \notin Params
    /\ Placeholder \in [Params -> STRING]
    /\ \A j, k \in Params : Placeholder[j] = Placeholder[k] => j = k
    /\ "/" \in Punctuation /\ Punctuation \subseteq STRING
    /\ (SmallTokens \cup Params) \cap (Punctuation \cup Range(Placeholder)) = {}
    /\ SmallTokens \cap DOMAIN Lowercase = {}
    /\ {"GET", "POST", "PUT", "PATCH", "DELETE"} \subseteq DOMAIN Lowercase

\* A parameter of an operation is one, or a $ref to one of components.parameters.
NoRef == ""
Parameter == [ref : STRING, name : Params \cup {NoName}, required : BOOLEAN, schema : STRING]

\* What an operation of a document is.
Operation ==
    [method       : STRING,
     path         : Seq(STRING),
     operationId  : Seq(STRING),       \* <<>> if there is none
     xDestructive : SUBSET BOOLEAN,    \* {} if there is none
     params       : SUBSET Parameter,
     body         : [schema : STRING, required : BOOLEAN]]

------------------------------------------------------------------------------
(* Schemas and references *)

\* A schema of a document is a name, that is a $ref to components.schemas, or one of
\* these: {}, an object with required fields, any other.
Empty == "empty"
Strict == "strict"
Loose == "loose"

\* What a chain of references that comes back to itself makes of the parser: Python
\* raises RecursionError.
Endless == "endless"

\* _resolve_ref: a $ref that leads nowhere is {}.
ResolveRef(schemas, ref) == IF ref \in DOMAIN schemas THEN schemas[ref] ELSE Empty

\* _resolve_schema
ResolveSchema(schemas, schema) ==
    LET names == DOMAIN schemas
        isRef(s) == s \notin {Empty, Strict, Loose}
        after[n \in 0..Cardinality(names) + 1] ==
            IF n = 0 THEN schema
            ELSE IF isRef(after[n - 1]) THEN ResolveRef(schemas, after[n - 1]) ELSE after[n - 1]
        last == after[Cardinality(names) + 1]
    IN  IF isRef(last) THEN Endless ELSE last

\* The parameters that count: a $ref is followed once, and what has no name after
\* that is dropped.  Only the operation's own parameters count, not those of its path.
Parameters(doc, op) ==
    LET nameless == [ref |-> NoRef, name |-> NoName, required |-> FALSE, schema |-> Loose]
        resolved(p) == IF p.ref = NoRef THEN p
                       ELSE IF p.ref \in DOMAIN doc.parameters THEN doc.parameters[p.ref]
                       ELSE nameless
    IN  {q \in {resolved(p) : p \in op.params} : q.name # NoName}

\* The schemas _build_parameters_schema resolves.
Schemas(doc, op) ==
    {ResolveSchema(doc.schemas, p.schema) : p \in Parameters(doc, op)}
        \cup {ResolveSchema(doc.schemas, op.body.schema)}

\* _build_parameters_schema.  A parameter named like the body is hidden by the body.
BodySchema(doc, op) == ResolveSchema(doc.schemas, op.body.schema)

Properties(doc, op) ==
    {p.name : p \in Parameters(doc, op)}
        \cup (IF BodySchema(doc, op) = Empty THEN {} ELSE {Body})

Required(doc, op) ==
    {p.name : p \in {q \in Parameters(doc, op) : q.required}}
        \cup (IF op.body.required /\ BodySchema(doc, op) = Strict THEN {Body} ELSE {})

------------------------------------------------------------------------------
(* Names *)

\* (slip) A capital keeps its case.
CaseKept(token) == token

Lowered(token) == IF token \in DOMAIN Lowercase THEN Lowercase[token] ELSE token

\* The parameter a token is the placeholder of, if any.
Named(token) == {k \in Params : token = Placeholder[k]}

\* The snake_case of an operationId: "_" for whatever is no letter and no digit, and
\* before a capital that follows one.
SnakeCase(id) ==
    LET starts(i) == \/ i = 1 \/ id[i - 1] \in Punctuation \cup {"_"}
                     \/ Named(id[i - 1]) # {}
    IN  FlattenSeq([i \in DOMAIN id |->
            IF id[i] \in Punctuation THEN <<"_">>
            ELSE IF Named(id[i]) # {} THEN <<"_", Lowered(CHOOSE k \in Named(id[i]) : TRUE), "_">>
            ELSE IF id[i] \in DOMAIN Lowercase /\ ~ starts(i) THEN <<"_", Lowered(id[i])>>
            ELSE <<Lowered(id[i])>>])

\* The words of a path, with "_" for whatever separates them; {id} reads by_id.
PathWords(path) ==
    LET separates(i) == path[i] \in Punctuation \cup {"_"}
        word(i) == IF Named(path[i]) # {}
                   THEN <<"by", "_", Lowered(CHOOSE k \in Named(path[i]) : TRUE)>>
                   ELSE <<Lowered(path[i])>>
        follows(i) == i > 1 /\ separates(i - 1) /\ \E j \in 1..i - 1 : ~ separates(j)
    IN  FlattenSeq([i \in DOMAIN path |->
            IF separates(i) THEN <<>>
            ELSE IF follows(i) THEN <<"_">> \o word(i) ELSE word(i)])

\* _tool_name_from_operation
ToolName(op) ==
    IF op.operationId # <<>> THEN SnakeCase(op.operationId)
    ELSE <<Lowered(op.method), "_">> \o PathWords(op.path)

------------------------------------------------------------------------------
(* Tools *)

WriteMethods == {"POST", "PUT", "PATCH", "DELETE"}
SupportedMethods == WriteMethods \cup {"GET"}

\* (slip) A POST is taken for harmless.
PostsUnguarded(op) ==
    IF op.xDestructive # {} THEN TRUE \in op.xDestructive ELSE op.method \in WriteMethods \ {"POST"}

\* _is_destructive: the document has the last word.
IsDestructive(op) ==
    IF op.xDestructive # {} THEN TRUE \in op.xDestructive ELSE op.method \in WriteMethods

ParsedTool(doc, op) ==
    [name        |-> ToolName(op),
     method      |-> op.method,
     path        |-> op.path,
     properties  |-> Properties(doc, op),
     required    |-> Required(doc, op),
     destructive |-> IsDestructive(op),
     op          |-> op]        \* not in the code: the operation the tool stands for

\* _infer_base_url: what the user typed counts only if the first server the document
\* names has no URL, or there is none; an empty one counts if it is the server's.
InferBaseUrl(doc) ==
    IF doc.servers # <<>> /\ doc.servers[1] # NoBase THEN doc.servers[1]
    ELSE IF doc.typed = <<>> THEN NoBase ELSE doc.typed

\* The operations it makes tools of, in their order.
Operations(doc) ==
    FlattenSeq([i \in DOMAIN doc.operations |->
        IF doc.operations[i].method \in SupportedMethods THEN <<doc.operations[i]>> ELSE <<>>])

\* parse_openapi_spec and the status parse_uploaded_spec answers with: a ValueError
\* is a 400, anything else a 500.
ParseStatus(doc) ==
    IF InferBaseUrl(doc) = NoBase THEN 400
    ELSE IF \E op \in ToSet(Operations(doc)) : Endless \in Schemas(doc, op) THEN 500
    ELSE IF Operations(doc) = <<>> THEN 400 ELSE 200

ParsedTools(doc) ==
    [i \in DOMAIN Operations(doc) |-> ParsedTool(doc, Operations(doc)[i])]

=============================================================================
