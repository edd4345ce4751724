------------------------------ MODULE MCSandbox ------------------------------
(* A small instance of Sandbox. *)
EXTENDS Sandbox, TLC

Host == "http://localhost:9090"

Values == {"ord_001", "ord_002", "", ".", "{q}"}
Bodies == {"none", "two", "all", "many", "zero", "less"}

MCParams == {"id", "q", Body}
MCPlaceholder == [id |-> "{id}", q |-> "{q}"] @@ (Body :> "{body}")
MCLowercase == [Products |-> "products", Product |-> "product", Orders |-> "orders",
                Order |-> "order", ID |-> "id", GET |-> "get", POST |-> "post",
                PUT |-> "put", PATCH |-> "patch", DELETE |-> "delete"]
MCText == [v \in Values \cup Bodies |-> IF v = "" THEN <<>> ELSE <<v>>]

MCInitialStock == [prod_001 |-> 3]
MCOrderId == <<"ord_001", "ord_002">>

\* Around zero and around the stock there is.
Quantity == [none |-> 0, two |-> 2, all |-> 3, many |-> 4, zero |-> 0, less |-> -1]
MCDecoded ==
    [b \in Bodies |-> [product  |-> IF b = "none" THEN "" ELSE "prod_001",
                       quantity |-> Quantity[b]]]

\* One argument or two, in the path or not, and texts that make the path one of
\* another operation or none at all.
MCArguments ==
    {<<>>, [id |-> "ord_001"], [id |-> ""], [id |-> "."], [q |-> "ord_001"],
     [id |-> "ord_001", q |-> "ord_002"], [id |-> "{q}", q |-> "ord_001"],
     [body |-> "two", q |-> "ord_001"]}
        \cup {[body |-> b] : b \in Bodies \ {"none"}}

------------------------------------------------------------------------------

NoOpBody == [schema |-> Empty, required |-> FALSE]
Param(k, isRequired) ==
    [ref |-> NoRef, name |-> k, required |-> isRequired, schema |-> Loose]
Ref(name) == [ref |-> name, name |-> NoName, required |-> FALSE, schema |-> Loose]
Op(method, path, id, flag, params, body) ==
    [method |-> method, path |-> path, operationId |-> id, xDestructive |-> flag,
     params |-> params, body |-> body]

OnProducts == <<"/", "products">>
OnOrders == <<"/", "orders">>
Item(path) == path \o <<"/", "{id}">>

\* mock-api/openapi.yaml
MockDocument ==
    [servers |-> <<<<Host>>>>, typed |-> NoBase, auth |-> [type |-> "none", fields |-> {}],
     schemas |-> [CreateOrderRequest |-> Strict], parameters |-> <<>>,
     operations |->
        <<Op("GET", OnProducts, <<"list", "Products">>, {}, {}, NoOpBody),
          Op("GET", Item(OnProducts), <<"get", "Product">>, {}, {Param("id", TRUE)}, NoOpBody),
          Op("GET", OnOrders, <<"list", "Orders">>, {}, {}, NoOpBody),
          Op("POST", OnOrders, <<"create", "Order">>, {TRUE}, {},
             [schema |-> "CreateOrderRequest", required |-> TRUE]),
          Op("GET", Item(OnOrders), <<"get", "Order">>, {}, {Param("id", TRUE)}, NoOpBody),
          Op("DELETE", Item(OnOrders), <<"cancel", "Order">>, {TRUE}, {Param("id", TRUE)},
             NoOpBody)>>]

\* One written by hand, partly without flags and names: it takes a cancellation for
\* harmless and knows operations the sandbox does not have.
HandWritten ==
    [servers |-> <<NoBase>>, typed |-> <<Host, "/">>,
     auth |-> [type |-> "bearer", fields |-> {"token"}],
     schemas |-> [Order |-> "NewOrder", NewOrder |-> Loose],
     parameters |-> [Id |-> Param("id", TRUE), Nameless |-> Param(NoName, TRUE)],
     operations |->
        <<Op("TRACE", OnOrders, <<>>, {}, {}, NoOpBody),
          Op("POST", OnOrders, <<>>, {}, {Param("q", FALSE)},
             [schema |-> "Order", required |-> TRUE]),
          Op("DELETE", Item(OnOrders), <<"cancel", "Order">>, {FALSE}, {Ref("Id")}, NoOpBody),
          Op("GET", OnOrders, <<>>, {}, {Param("q", TRUE), Ref("Nameless")}, NoOpBody),
          Op("PUT", OnOrders, <<"put", "-", "Order">>, {}, {}, NoOpBody),
          Op("GET", <<"/", "health">>, <<>>, {TRUE}, {}, NoOpBody),
          Op("POST", <<"/", "health">>, <<>>, {}, {}, NoOpBody),
          Op("GET", Item(<<"/", "customers">>), <<>>, {}, {Ref("Missing")}, NoOpBody),
          Op("PUT", Item(OnOrders) \o <<"/", "{q}">>, <<"orders", "{id}", "ID", "{q}", "Order">>,
             {}, {Ref("Id"), Param("q", TRUE)}, NoOpBody)>>]

\* The sandbox is not where this one says.
Elsewhere == [MockDocument EXCEPT !.servers = <<<<Host, "/", "v1">>>>,
                                  !.operations = SubSeq(@, 4, 5)]

\* Ones that are refused: a name twice, references in a circle, no operation, no URL
\* or an empty one.
Refused ==
    [nameTwice |-> [MockDocument EXCEPT !.operations =
         <<Op("GET", OnOrders, <<"list", "Orders">>, {}, {}, NoOpBody),
           Op("GET", OnProducts, <<"list", "-", "orders">>, {}, {}, NoOpBody)>>],
     circle |-> [MockDocument EXCEPT !.schemas =
         [CreateOrderRequest |-> "Order", Order |-> "CreateOrderRequest"]],
     noOperation |-> [MockDocument EXCEPT !.operations = SubSeq(HandWritten.operations, 1, 1)],
     noUrl |-> [MockDocument EXCEPT !.servers = <<NoBase>>, !.typed = <<>>],
     emptyUrl |-> [MockDocument EXCEPT !.servers = <<<<>>>>, !.typed = <<Host>>]]

MCDocuments == [mock |-> MockDocument, byHand |-> HandWritten, elsewhere |-> Elsewhere] @@ Refused

=============================================================================
