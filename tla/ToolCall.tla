------------------------------ MODULE ToolCall ------------------------------
(***************************************************************************)
(* go-engine's executor as a function: the HTTP request that becomes of a  *)
(* tool, the connection it belongs to and the arguments the model chose.   *)
(*                                                                         *)
(* Arguments are a partial function from parameters to values.  A value    *)
(* is printed into the path and the query as Text says; a text may be      *)
(* empty, or read like a placeholder.  Characters a URL would reserve are  *)
(* not in it: the code does not escape them.                               *)
(***************************************************************************)
EXTENDS OpenApiParser

CONSTANTS
    Text,           \* value -> sequence of tokens, what %v prints
    NoBody          \* the body of a request without one

------------------------------------------------------------------------------
(* resolvePathParams *)

Uses(path, k) == Placeholder[k] \in ToSet(path)

Replace(path, k, text) ==
    FlattenSeq([i \in DOMAIN path |-> IF path[i] = Placeholder[k] THEN text ELSE <<path[i]>>])

\* (slip) An argument fills the first placeholder that is left, whatever its name.
FillsNext(r, k, text) ==
    LET next == SelectInSeq(r.path, LAMBDA token : token \in Range(Placeholder))
    IN  IF Uses(r.path, k)
        THEN [path |-> SubSeq(r.path, 1, next - 1) \o text \o SubSeq(r.path, next + 1, Len(r.path)),
              remaining |-> r.remaining \ {k}]
        ELSE r

\* One turn of the loop over the arguments.
Turn(r, k, text) ==
    IF Uses(r.path, k)
    THEN [path |-> Replace(r.path, k, text), remaining |-> r.remaining \ {k}]
    ELSE r

\* A map is ranged over in any order.
ResolvePathParams(template, args, order) ==
    FoldLeft(LAMBDA r, k : Turn(r, k, Text[args[k]]),
             [path |-> template, remaining |-> DOMAIN args], order)

\* (slip) The parts are put together as they are.
Concatenated(base, path) == base \o path

\* strings.TrimRight(base, "/") + "/" + strings.TrimLeft(path, "/")
Joined(base, path) ==
    LET isSlash(token) == token = "/"
        kept == SelectLastInSeq(base, LAMBDA token : ~ isSlash(token))
        first == SelectInSeq(path, LAMBDA token : ~ isSlash(token))
    IN  SubSeq(base, 1, kept) \o <<"/">>
            \o (IF first = 0 THEN <<>> ELSE SubSeq(path, first, Len(path)))

------------------------------------------------------------------------------
(* Execute up to the call *)

\* applyAuth: an incomplete configuration is no error, the call leaves without.
Credentials(auth) ==
    LET needs == [bearer |-> {"token"}, api_key |-> {"header", "value"}, basic |-> {"username"}]
    IN  auth.type \in DOMAIN needs /\ needs[auth.type] \subseteq auth.fields

\* appendQueryParams: name=value, each once, in any order.
AppendQueryParams(args, names) == {<<k, Text[args[k]]>> : k \in names}

\* Arguments that are left over become the query of a GET or DELETE, and are dropped
\* for any other method.
BuildRequest(tool, conn, args, order) ==
    LET resolved == ResolvePathParams(tool.path, args, order)
        left == resolved.remaining \ {Body}
    IN  [method      |-> tool.method,
         url         |-> Joined(conn.base, resolved.path),
         query       |-> IF tool.method \in {"GET", "DELETE"}
                         THEN AppendQueryParams(args, left) ELSE {},
         body        |-> IF Body \in resolved.remaining THEN args[Body] ELSE NoBody,
         credentials |-> Credentials(conn.auth)]

------------------------------------------------------------------------------
(* What the request should be *)

\* No text reads like a placeholder.
Plain(args) ==
    \A k \in DOMAIN args : \A j \in Params : ~ Uses(Text[args[k]], j)

\* Every placeholder stands for its argument, all at once.
MeantPath(tool, args) ==
    FlattenSeq([i \in DOMAIN tool.path |->
        IF \E k \in DOMAIN args : tool.path[i] = Placeholder[k]
        THEN Text[args[CHOOSE k \in DOMAIN args : tool.path[i] = Placeholder[k]]]
        ELSE <<tool.path[i]>>])

\* What is not in the path is in the query or the body.
Meant(tool, conn, args) ==
    LET others == {k \in DOMAIN args : ~ Uses(tool.path, k)}
    IN  [url   |-> Joined(conn.base, MeantPath(tool, args)),
         query |-> {<<k, Text[args[k]]>> : k \in others \ {Body}},
         body  |-> IF Body \in others THEN args[Body] ELSE NoBody]

=============================================================================
