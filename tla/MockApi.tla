------------------------------- MODULE MockApi -------------------------------
(***************************************************************************)
(* mock-api: the sandbox inventory that the demo's tools call.  A handler  *)
(* holds the mutex of the store from its first look at it to its reply, so *)
(* each is one action.  The store lives in memory: a restart forgets it.   *)
(*                                                                         *)
(* A request has a method, a path (tokens, without the host) and a body.   *)
(***************************************************************************)
EXTENDS Integers, Sequences, FiniteSets, SequencesExt

CONSTANTS
    Products,       \* ids of the three products of newStore
    NoProduct,      \* the product_id of a body without one
    InitialStock,   \* their initial quantities
    OrderId,        \* number -> "ord_%03d" of it
    Decoded,        \* body -> the order the decoder makes of it, the zero value of
                    \* CreateOrderRequest if it makes none
    MaxRestarts     \* bound: restarts of the process

MaxOrders == Len(OrderId)      \* bound: orders placed
Numbers == 1..MaxOrders

ASSUME MockAssumption ==
    /\ IsFiniteSet(Products) /\ InitialStock \in [Products -> Nat]
    /\ NoProduct \notin Products
    /\ OrderId \in Seq(STRING)
    /\ \A m, n \in Numbers : OrderId[m] = OrderId[n] => m = n
    /\ \A body \in DOMAIN Decoded : Decoded[body].quantity \in Int
    /\ MaxRestarts \in Nat

VARIABLES
    stock,          \* products: id -> quantity
    orders,         \* orders: number -> order
    nextOrd,
    confirmed,      \* history: how often each order number was answered with 201
    restocked,      \* history: how often each order number was answered with 200 on DELETE
    restarts        \* number of restarts so far

mockVars == <<stock, orders, nextOrd, confirmed, restocked, restarts>>

------------------------------------------------------------------------------

NoOrder == [product |-> NoProduct, quantity |-> 0, status |-> "none"]

Order == [product  : Products \cup {NoProduct},
          quantity : Int,
          status   : {"none", "placed", "cancelled"}]

MockTypeOK ==
    /\ stock \in [Products -> Nat]
    /\ orders \in [Numbers -> Order]
    /\ nextOrd \in 1..MaxOrders + 1
    /\ confirmed \in [Numbers -> Nat]
    /\ restocked \in [Numbers -> Nat]
    /\ restarts \in 0..MaxRestarts

\* newStore
MockInit ==
    /\ stock = InitialStock
    /\ orders = [n \in Numbers |-> NoOrder]
    /\ nextOrd = 1
    /\ confirmed = [n \in Numbers |-> 0]
    /\ restocked = [n \in Numbers |-> 0]
    /\ restarts = 0

------------------------------------------------------------------------------
(* Routing *)

\* What the mux and the switches on the method lead to.
CollectionHandlers ==
    [products |-> [GET |-> <<"list", "Products">>],
     orders   |-> [GET |-> <<"list", "Orders">>, POST |-> <<"create", "Order">>]]

ItemHandlers ==
    [products |-> [GET |-> <<"get", "Product">>],
     orders   |-> [GET |-> <<"get", "Order">>, DELETE |-> <<"cancel", "Order">>]]

\* cleanPath of net/http: no empty segment, no "." and no "..", but a "/" at the end
\* stays.
Cleaned(path) ==
    LET segments == FoldLeft(LAMBDA s, token :
                        IF token = "/" THEN Append(s, <<>>)
                        ELSE [s EXCEPT ![Len(s)] = Append(@, token)], <<<<>>>>, path)
        kept == FoldLeft(LAMBDA s, segment :
                    IF segment \in {<<>>, <<".">>} THEN s
                    ELSE IF segment = <<".", ".">> THEN SubSeq(s, 1, Len(s) - 1)
                    ELSE Append(s, segment), <<>>, segments)
        rooted == FlattenSeq([i \in DOMAIN kept |-> <<"/">> \o kept[i]])
    IN  IF path = <<>> \/ kept = <<>> \/ Last(path) = "/" THEN Append(rooted, "/") ELSE rooted

\* The handler of a request, or the refusal it gets: the mux redirects a path that is
\* not clean before it looks for a handler.
Route(method, path) ==
    IF Cleaned(path) # path THEN <<"301">>
    ELSE IF path = <<"/", "health">> THEN <<"health">>
    ELSE IF Len(path) < 2 \/ path[2] \notin DOMAIN ItemHandlers THEN <<"404">>
    ELSE IF Len(path) > 2 /\ path[3] # "/" THEN <<"404">>
    ELSE IF Len(path) = 3 THEN <<"400">>
    ELSE LET handlers == IF Len(path) = 2 THEN CollectionHandlers[path[2]]
                         ELSE ItemHandlers[path[2]]
         IN  IF method \in DOMAIN handlers THEN handlers[method] ELSE <<"405">>

\* strings.TrimPrefix(r.URL.Path, "/orders/")
Id(path) == SubSeq(path, 4, Len(path))

------------------------------------------------------------------------------
(* Handlers *)

\* The order an id names.
OrderOf(path) == {n \in Numbers : <<OrderId[n]>> = Id(path) /\ orders[n].status # "none"}

\* (slip) The stock only has to be there, whatever the quantity.
SomeStock(order) == stock[order.product] > 0

Sufficient(order) == stock[order.product] >= order.quantity

CreateStatus(order) ==
    IF order.product = NoProduct \/ order.quantity <= 0 THEN 400
    ELSE IF order.product \notin Products THEN 404
    ELSE IF ~ Sufficient(order) THEN 409 ELSE 201

\* (slip) An order that is cancelled already is cancelled again.
CancelsAgain(path) == IF OrderOf(path) = {} THEN 404 ELSE 200

CancelStatus(path) ==
    IF OrderOf(path) = {} THEN 404
    ELSE IF \E n \in OrderOf(path) : orders[n].status = "cancelled" THEN 409 ELSE 200

\* The status a request is answered with.
Status(method, path, body) ==
    LET handler == Route(method, path)
    IN  CASE handler = <<"create", "Order">> -> CreateStatus(Decoded[body])
          [] handler = <<"cancel", "Order">> -> CancelStatus(path)
          [] handler = <<"get", "Order">> -> IF OrderOf(path) = {} THEN 404 ELSE 200
          [] handler = <<"get", "Product">> ->
                IF \E p \in Products : Id(path) = <<p>> THEN 200 ELSE 404
          [] handler = <<"301">> -> 301
          [] handler = <<"400">> -> 400
          [] handler = <<"404">> -> 404
          [] handler = <<"405">> -> 405
          [] OTHER -> 200

\* (slip) The counter is left alone.
SameNumber == nextOrd

NumberAfter == nextOrd + 1

\* POST /orders.  Bound: MaxOrders.
CreateOrder(order) ==
    /\ nextOrd <= MaxOrders
    /\ stock' = [stock EXCEPT ![order.product] = @ - order.quantity]
    /\ orders' = [orders EXCEPT ![nextOrd] =
                     [product |-> order.product, quantity |-> order.quantity,
                      status |-> "placed"]]
    /\ nextOrd' = NumberAfter
    /\ confirmed' = [confirmed EXCEPT ![nextOrd] = @ + 1]
    /\ UNCHANGED <<restocked, restarts>>

\* DELETE /orders/{id}
CancelOrder(n) ==
    /\ orders' = [orders EXCEPT ![n].status = "cancelled"]
    /\ stock' = [stock EXCEPT ![orders[n].product] = @ + orders[n].quantity]
    /\ restocked' = [restocked EXCEPT ![n] = @ + 1]
    /\ UNCHANGED <<nextOrd, confirmed, restarts>>

\* A request changes the store if it is an order or a cancellation that succeeds.
Changes(method, path, body) ==
    /\ Route(method, path) \in {<<"create", "Order">>, <<"cancel", "Order">>}
    /\ Status(method, path, body) \in {200, 201}

Serve(method, path, body) ==
    \/ ~ Changes(method, path, body) /\ UNCHANGED mockVars
    \/ /\ Changes(method, path, body)
       /\ \/ method = "POST" /\ CreateOrder(Decoded[body])
          \/ method = "DELETE" /\ \E n \in OrderOf(path) : CancelOrder(n)

\* The process comes back with newStore; the orders placed before mean nothing.
Restart ==
    /\ restarts < MaxRestarts
    /\ restarts' = restarts + 1
    /\ stock' = InitialStock
    /\ orders' = [n \in Numbers |-> NoOrder]
    /\ nextOrd' = 1
    /\ confirmed' = [n \in Numbers |-> 0]
    /\ restocked' = [n \in Numbers |-> 0]

------------------------------------------------------------------------------
(* Properties *)

Placed(product) == {n \in Numbers : orders[n].status = "placed" /\ orders[n].product = product}

\* Nothing is sold twice and nothing appears from nowhere: what is on stock and what
\* is on order add up to the initial quantity, after any sequence of orders and
\* cancellations, repeated ones included.
StockConserved ==
    \A product \in Products :
        stock[product] + SumFunctionOnSet([n \in Numbers |-> orders[n].quantity], Placed(product))
            = InitialStock[product]

\* An order id is handed out once in the life of the process, and its stock comes
\* back at most once, when the order was cancelled: a DELETE repeated after a
\* timeout restocks nothing.
OrderOnce ==
    \A n \in Numbers :
        /\ confirmed[n] = (IF orders[n].status = "none" THEN 0 ELSE 1)
        /\ restocked[n] = (IF orders[n].status = "cancelled" THEN 1 ELSE 0)

=============================================================================
