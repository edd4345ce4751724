---------------------------- MODULE SandboxProofs ----------------------------
(***************************************************************************)
(* Proofs about Sandbox, for any documents, arguments and number of calls. *)
(***************************************************************************)
EXTENDS Sandbox, FoldTheorems

------------------------------------------------------------------------------
(* Routing *)

Handlers == {<<"create", "Order">>, <<"cancel", "Order">>, <<"list", "Products">>,
             <<"list", "Orders">>, <<"get", "Product">>, <<"get", "Order">>,
             <<"health">>, <<"301">>, <<"404">>, <<"400">>, <<"405">>}

Refusals == {<<"301">>, <<"404">>, <<"400">>, <<"405">>}

\* The handlers are told apart by their names.
LEMMA HandlersDiffer ==
    /\ <<"create", "Order">> \notin Handlers \ {<<"create", "Order">>}
    /\ <<"cancel", "Order">> \notin Handlers \ {<<"cancel", "Order">>}
    /\ <<"create", "Order">> # <<"cancel", "Order">>
    /\ \A h \in Refusals : h \notin {<<"create", "Order">>, <<"cancel", "Order">>}
    /\ \A h \in Refusals : h \notin {<<"get", "Order">>, <<"get", "Product">>}
    /\ <<"404">> # <<"400">> /\ <<"404">> # <<"405">> /\ <<"405">> # <<"400">>
    /\ <<"301">> \notin Handlers \ {<<"301">>}
BY DEF Handlers, Refusals

LEMMA RouteKinds ==
    ASSUME NEW method, NEW path
    PROVE  /\ method = "POST" /\ path # <<"/", "health">> =>
                 Route(method, path) \in Refusals \cup {<<"create", "Order">>}
           /\ method = "DELETE" /\ path # <<"/", "health">> =>
                 Route(method, path) \in Refusals \cup {<<"cancel", "Order">>}
           /\ method \in {"PUT", "PATCH"} /\ path # <<"/", "health">> =>
                 Route(method, path) \in Refusals
           /\ Route(method, path) = <<"create", "Order">> => method = "POST"
           /\ Route(method, path) = <<"cancel", "Order">> => method = "DELETE"
           /\ Route(method, path) = <<"301">> <=> Cleaned(path) # path
<1> DEFINE route == Route(method, path)
           handlers == IF Len(path) = 2 THEN CollectionHandlers[path[2]] ELSE ItemHandlers[path[2]]
<1>1. CASE Cleaned(path) # path
  <2>1. route = <<"301">>
    BY <1>1, Zenon DEF Route
  <2> HIDE DEF route
  <2>2. QED BY <1>1, <2>1, HandlersDiffer DEF route, Refusals, Handlers
<1>2. CASE Cleaned(path) = path
  <2>1. \/ route = <<"health">> /\ path = <<"/", "health">>
        \/ route \in {<<"404">>, <<"400">>, <<"405">>}
        \/ path[2] \in DOMAIN ItemHandlers /\ method \in DOMAIN handlers /\ route = handlers[method]
    BY <1>2 DEF Route
  <2>2. ASSUME path[2] \in DOMAIN ItemHandlers, method \in DOMAIN handlers
        PROVE  \/ method = "GET" /\ handlers[method] \in Handlers \ Refusals
                    /\ handlers[method] \notin {<<"create", "Order">>, <<"cancel", "Order">>}
               \/ method = "POST" /\ handlers[method] = <<"create", "Order">>
               \/ method = "DELETE" /\ handlers[method] = <<"cancel", "Order">>
    <3>1. path[2] \in {"products", "orders"}
      BY <2>2 DEF ItemHandlers
    <3>2. QED BY <2>2, <3>1 DEF CollectionHandlers, ItemHandlers, Handlers, Refusals
  <2> HIDE DEF route, handlers
  <2>3. route # <<"301">>
    BY <2>1, <2>2, HandlersDiffer DEF Handlers, Refusals
  <2>4. QED BY <1>2, <2>1, <2>2, <2>3, HandlersDiffer DEF route, Refusals
<1>3. QED BY <1>1, <1>2

LEMMA StatusKinds ==
    ASSUME NEW method, NEW path, NEW body
    PROVE  /\ Route(method, path) = <<"create", "Order">> =>
                 Status(method, path, body) = CreateStatus(Decoded[body])
           /\ Route(method, path) = <<"cancel", "Order">> =>
                 Status(method, path, body) = CancelStatus(path)
           /\ Route(method, path) \in Refusals =>
                 Status(method, path, body) \in {301, 400, 404, 405}
           /\ Status(method, path, body) = 301 <=> Cleaned(path) # path
           /\ Status(method, path, body) \in Statuses \ {0}
           /\ CreateStatus(Decoded[body]) \in {201, 400, 404, 409}
           /\ CancelStatus(path) \in {200, 404, 409}
<1>1. CreateStatus(Decoded[body]) \in {201, 400, 404, 409} /\ CancelStatus(path) \in {200, 404, 409}
  BY DEF CreateStatus, CancelStatus
<1> DEFINE h == Route(method, path)
           s == Status(method, path, body)
<1>2. h = <<"create", "Order">> => s = CreateStatus(Decoded[body])
  <2> SUFFICES ASSUME h = <<"create", "Order">> PROVE s = CreateStatus(Decoded[body])
    OBVIOUS
  <2> HIDE DEF h
  <2>1. QED BY HandlersDiffer DEF Status, h
<1>3. h = <<"cancel", "Order">> => s = CancelStatus(path)
  BY HandlersDiffer DEF Status
<1>4. h \in Refusals => s \in {301, 400, 404, 405}
  BY HandlersDiffer DEF Status, Refusals
<1>5. s \in Statuses \ {0}
  BY <1>1, HandlersDiffer DEF Status, Statuses
<1>6. s = 301 <=> h = <<"301">>
  <2> HIDE DEF h
  <2>1. h = <<"301">> => s = 301
    BY HandlersDiffer DEF Status, Handlers, h
  <2>2. h # <<"301">> => s # 301
    BY <1>1, HandlersDiffer DEF Status, h
  <2>3. QED BY <2>1, <2>2
<1>7. h = <<"301">> <=> Cleaned(path) # path
  BY RouteKinds
<1>8. QED BY <1>1, <1>2, <1>3, <1>4, <1>5, <1>6, <1>7

\* A request that would write and is not for /health is answered with a success if,
\* and only if, it changes the store.
LEMMA SuccessChanges ==
    ASSUME NEW method \in WriteMethods, NEW path, NEW body, path # <<"/", "health">>
    PROVE  Status(method, path, body) \in {200, 201} <=> Changes(method, path, body)
BY RouteKinds, StatusKinds DEF Changes, WriteMethods

\* Only orders and cancellations change it.
LEMMA ChangesWrites ==
    ASSUME NEW method, NEW path, NEW body, Changes(method, path, body)
    PROVE  method \in WriteMethods
BY RouteKinds DEF Changes, WriteMethods

------------------------------------------------------------------------------
(* The store *)

\* Order numbers from nextOrd on are free, and an order is for some of a product.
OrdersSound ==
    \A n \in Numbers :
        /\ orders[n].status = "none" <=> n >= nextOrd
        /\ orders[n].status # "none" => orders[n].product \in Products /\ orders[n].quantity > 0

MockInv == MockTypeOK /\ OrdersSound /\ OrderOnce /\ StockConserved

Places(order) == CreateStatus(order) = 201 /\ order.quantity \in Int /\ CreateOrder(order)
Cancels(n) == orders[n].status = "placed" /\ CancelOrder(n)

MockStep ==
    \/ \E body \in DOMAIN Decoded : Places(Decoded[body])
    \/ \E n \in Numbers : Cancels(n)
    \/ Restart
    \/ UNCHANGED mockVars

LEMMA ServeSteps ==
    ASSUME MockTypeOK, NEW method, NEW path, NEW body \in DOMAIN Decoded,
           Serve(method, path, body)
    PROVE  MockStep
<1>1. CASE UNCHANGED mockVars
  BY <1>1 DEF MockStep
<1>2. CASE Changes(method, path, body) /\ method = "POST" /\ CreateOrder(Decoded[body])
  <2>1. Route(method, path) = <<"create", "Order">>
    BY <1>2, RouteKinds DEF Changes
  <2>2. CreateStatus(Decoded[body]) = 201
    BY <1>2, <2>1, StatusKinds DEF Changes
  <2>3. Decoded[body].quantity \in Int
    BY MockAssumption
  <2>4. QED BY <1>2, <2>2, <2>3 DEF MockStep, Places
<1>3. ASSUME NEW n \in OrderOf(path), Changes(method, path, body), method = "DELETE", CancelOrder(n)
      PROVE  MockStep
  <2>1. Route(method, path) = <<"cancel", "Order">>
    BY <1>3, RouteKinds DEF Changes
  <2>2. CancelStatus(path) = 200
    BY <1>3, <2>1, StatusKinds DEF Changes
  <2>3. n \in Numbers /\ orders[n].status # "none"
    BY DEF OrderOf
  <2>4. orders[n].status # "cancelled"
    BY <2>2 DEF CancelStatus
  <2>5. orders[n].status \in {"none", "placed", "cancelled"}
    BY <2>3 DEF MockTypeOK, Order
  <2>6. QED BY <1>3, <2>3, <2>4, <2>5 DEF MockStep, Cancels
<1>4. QED BY <1>1, <1>2, <1>3 DEF Serve

LEMMA NumbersFinite == MaxOrders \in Nat /\ IsFiniteSet(Numbers)
<1>1. MaxOrders \in Nat
  BY MockAssumption DEF MaxOrders
<1>2. QED BY <1>1, FS_Interval DEF Numbers

LEMMA MockInitInv == MockInit => MockInv
<1> SUFFICES ASSUME MockInit PROVE MockInv
  OBVIOUS
<1> USE DEF MockInit
<1>1. MaxOrders \in Nat
  BY NumbersFinite
<1>2. MockTypeOK
  BY <1>1, MockAssumption DEF MockTypeOK, NoOrder, Order
<1>3. OrdersSound
  BY <1>1 DEF OrdersSound, NoOrder, Numbers
<1>4. OrderOnce
  BY DEF OrderOnce, NoOrder
<1>5. StockConserved
  <2> SUFFICES ASSUME NEW product \in Products
               PROVE  stock[product]
                        + SumFunctionOnSet([n \in Numbers |-> orders[n].quantity], Placed(product))
                      = InitialStock[product]
    BY DEF StockConserved
  <2> DEFINE f == [n \in Numbers |-> orders[n].quantity]
  <2>1. Placed(product) = {}
    BY DEF Placed, NoOrder
  <2>2. \A n \in {} : f[n] \in Int
    OBVIOUS
  <2> HIDE DEF f
  <2>3. SumFunctionOnSet(f, {}) = 0
    BY <2>2, SumStep, FS_EmptySet
  <2>4. InitialStock[product] \in Nat /\ stock[product] = InitialStock[product]
    BY MockAssumption
  <2>5. QED BY <2>1, <2>3, <2>4 DEF f
<1>6. QED BY <1>2, <1>3, <1>4, <1>5 DEF MockInv

\* What is on order of a product; it is the sum StockConserved speaks of.
Quantity == [n \in Numbers |-> orders[n].quantity]
OnOrder(product) == SumFunctionOnSet(Quantity, Placed(product))

LEMMA QuantityTyped ==
    ASSUME MockTypeOK
    PROVE  /\ \A n \in Numbers : Quantity[n] = orders[n].quantity /\ Quantity[n] \in Int
           /\ \A product \in Products : Placed(product) \in SUBSET Numbers
                                        /\ OnOrder(product) \in Int
<1>1. \A n \in Numbers : Quantity[n] = orders[n].quantity /\ Quantity[n] \in Int
  BY DEF MockTypeOK, Order, Quantity
<1>2. ASSUME NEW product \in Products
      PROVE  Placed(product) \in SUBSET Numbers /\ OnOrder(product) \in Int
  <2>1. Placed(product) \in SUBSET Numbers
    BY DEF Placed
  <2>2. IsFiniteSet(Placed(product))
    BY <2>1, NumbersFinite, FS_Subset
  <2>3. \A n \in Placed(product) : Quantity[n] \in Int
    BY <1>1, <2>1
  <2>4. QED BY <2>1, <2>2, <2>3, SumStep DEF OnOrder
<1>3. QED BY <1>1, <1>2

LEMMA OrderPlaced ==
    ASSUME MockInv, NEW order, Places(order)
    PROVE  MockInv'
<1> USE DEF Places, CreateOrder, NumberAfter
<1>1. MaxOrders \in Nat
  BY NumbersFinite
<1>2. /\ order.product \in Products /\ order.quantity \in Int /\ order.quantity > 0
      /\ stock[order.product] >= order.quantity
  BY DEF CreateStatus, Sufficient
<1>3. nextOrd \in Numbers /\ orders[nextOrd].status = "none"
  BY <1>1 DEF MockInv, MockTypeOK, OrdersSound, Numbers
<1>4. MockTypeOK'
  <2>1. stock' \in [Products -> Nat]
    BY <1>2 DEF MockInv, MockTypeOK
  <2>2. orders' \in [Numbers -> Order]
    BY <1>2 DEF MockInv, MockTypeOK, Order
  <2>3. nextOrd' \in 1..MaxOrders + 1
    BY <1>1, <1>3 DEF Numbers
  <2>4. confirmed' \in [Numbers -> Nat]
    BY <1>3 DEF MockInv, MockTypeOK
  <2>5. QED BY <2>1, <2>2, <2>3, <2>4 DEF MockInv, MockTypeOK
<1>5. \A n \in Numbers : n # nextOrd => orders'[n] = orders[n]
  BY DEF MockInv, MockTypeOK
<1>6. /\ orders'[nextOrd].product = order.product /\ orders'[nextOrd].quantity = order.quantity
      /\ orders'[nextOrd].status = "placed"
  BY <1>3 DEF MockInv, MockTypeOK
<1>7. OrdersSound'
  <2> SUFFICES ASSUME NEW n \in Numbers
               PROVE  /\ orders'[n].status = "none" <=> n >= nextOrd'
                      /\ orders'[n].status # "none" =>
                            orders'[n].product \in Products /\ orders'[n].quantity > 0
    BY DEF OrdersSound
  <2>1. n \in Nat /\ nextOrd \in Nat /\ nextOrd' = nextOrd + 1
    BY <1>1, <1>3 DEF Numbers
  <2>2. CASE n = nextOrd
    BY <1>2, <1>6, <2>1, <2>2
  <2>3. CASE n # nextOrd
    BY <1>5, <2>1, <2>3 DEF MockInv, OrdersSound
  <2>4. QED BY <2>2, <2>3
<1>8. OrderOnce'
  <2> SUFFICES ASSUME NEW n \in Numbers
               PROVE  /\ confirmed'[n] = (IF orders'[n].status = "none" THEN 0 ELSE 1)
                      /\ restocked'[n] = (IF orders'[n].status = "cancelled" THEN 1 ELSE 0)
    BY DEF OrderOnce
  <2>1. CASE n = nextOrd
    BY <1>3, <1>6, <2>1 DEF MockInv, MockTypeOK, OrderOnce
  <2>2. CASE n # nextOrd
    BY <1>5, <2>2 DEF MockInv, MockTypeOK, OrderOnce
  <2>3. QED BY <2>1, <2>2
<1>9. StockConserved'
  <2> SUFFICES ASSUME NEW product \in Products
               PROVE  stock'[product] + OnOrder(product)' = InitialStock[product]
    BY DEF StockConserved, OnOrder, Quantity
  <2>1. /\ stock[product] \in Int /\ OnOrder(product) \in Int
        /\ stock[product] + OnOrder(product) = InitialStock[product]
    BY QuantityTyped DEF MockInv, MockTypeOK, StockConserved, OnOrder, Quantity
  <2>2. \A n \in Numbers : Quantity[n] \in Int /\ Quantity'[n] \in Int
    BY <1>4, QuantityTyped DEF MockInv, Quantity, MockTypeOK, Order
  <2>3. Placed(product) \in SUBSET Numbers /\ nextOrd \notin Placed(product)
    BY <1>3 DEF Placed
  <2>4. SumFunctionOnSet(Quantity', Placed(product)) = OnOrder(product)
    <3>1. \A n \in Placed(product) : Quantity'[n] = Quantity[n]
      BY <1>5, <2>3 DEF Quantity
    <3> DEFINE f == Quantity
               g == Quantity'
               S == Placed(product)
    <3> HIDE DEF f, g, S
    <3>2. S \in SUBSET Numbers /\ \A n \in Numbers : f[n] \in Int /\ g[n] \in Int
      BY <2>2, <2>3 DEF f, g, S
    <3>3. \A n \in S : g[n] = f[n]
      BY <3>1 DEF f, g, S
    <3>4. SumFunctionOnSet(g, S) = SumFunctionOnSet(f, S)
      BY <3>2, <3>3, NumbersFinite, SumAgrees
    <3>5. QED BY <3>4 DEF f, g, S, OnOrder
  <2>5. CASE product = order.product
    <3>1. Placed(product)' = Placed(product) \cup {nextOrd}
      BY <1>3, <1>5, <1>6, <2>5 DEF Placed
    <3>2. OnOrder(product)' = order.quantity + OnOrder(product)
      <4> DEFINE g == Quantity'
                 S == Placed(product) \cup {nextOrd}
      <4>1. S \ {nextOrd} = Placed(product) /\ S \in SUBSET Numbers /\ nextOrd \in S
        BY <1>3, <2>3
      <4>2. g[nextOrd] = order.quantity
        BY <1>3, <1>6 DEF Quantity
      <4>3. \A n \in Numbers : g[n] \in Int
        BY <2>2
      <4>4. OnOrder(product)' = SumFunctionOnSet(g, S)
        BY <3>1 DEF OnOrder
      <4> HIDE DEF g, S
      <4>5. SumFunctionOnSet(g, S) = g[nextOrd] + SumFunctionOnSet(g, S \ {nextOrd})
        BY <4>1, <4>3, NumbersFinite, SumTakesOut
      <4>6. SumFunctionOnSet(g, S \ {nextOrd}) = OnOrder(product)
        BY <2>4, <4>1 DEF g
      <4>7. QED BY <4>2, <4>4, <4>5, <4>6
    <3>3. stock'[product] = stock[product] - order.quantity
      BY <2>5 DEF MockInv, MockTypeOK
    <3> DEFINE o == OnOrder(product)
               oo == OnOrder(product)'
               s == stock[product]
               ss == stock'[product]
    <3>4. o \in Int /\ s \in Int /\ s + o = InitialStock[product]
          /\ oo = order.quantity + o /\ ss = s - order.quantity
      BY <2>1, <3>2, <3>3
    <3> HIDE DEF o, oo, s, ss
    <3>5. ss + oo = InitialStock[product]
      BY <1>2, <3>4
    <3>6. QED BY <3>5 DEF oo, ss
  <2>6. CASE product # order.product
    <3>1. Placed(product)' = Placed(product)
      BY <1>3, <1>5, <1>6, <2>6 DEF Placed
    <3>2. OnOrder(product)' = OnOrder(product)
      BY <2>4, <3>1 DEF OnOrder
    <3>3. stock'[product] = stock[product]
      BY <2>6 DEF MockInv, MockTypeOK
    <3>4. QED BY <2>1, <3>2, <3>3
  <2>7. QED BY <2>5, <2>6
<1>10. QED BY <1>4, <1>7, <1>8, <1>9 DEF MockInv

LEMMA OrderCancelled ==
    ASSUME MockInv, NEW n \in Numbers, Cancels(n)
    PROVE  MockInv'
<1> USE DEF Cancels, CancelOrder
<1>1. MaxOrders \in Nat
  BY NumbersFinite
<1>2. /\ orders[n].product \in Products /\ orders[n].quantity \in Int /\ orders[n].quantity > 0
      /\ orders[n].status = "placed"
  BY DEF MockInv, MockTypeOK, OrdersSound, Order
<1>3. /\ orders'[n].product = orders[n].product /\ orders'[n].quantity = orders[n].quantity
      /\ orders'[n].status = "cancelled"
      /\ \A m \in Numbers : m # n => orders'[m] = orders[m]
  BY DEF MockInv, MockTypeOK, Order
<1>4. MockTypeOK'
  <2>1. stock' \in [Products -> Nat]
    BY <1>2 DEF MockInv, MockTypeOK
  <2>2. orders' \in [Numbers -> Order]
    BY DEF MockInv, MockTypeOK, Order
  <2>3. restocked' \in [Numbers -> Nat]
    BY DEF MockInv, MockTypeOK
  <2>4. QED BY <2>1, <2>2, <2>3 DEF MockInv, MockTypeOK
<1>5. OrdersSound'
  BY <1>2, <1>3 DEF MockInv, OrdersSound
<1>6. OrderOnce'
  <2> SUFFICES ASSUME NEW m \in Numbers
               PROVE  /\ confirmed'[m] = (IF orders'[m].status = "none" THEN 0 ELSE 1)
                      /\ restocked'[m] = (IF orders'[m].status = "cancelled" THEN 1 ELSE 0)
    BY DEF OrderOnce
  <2>1. CASE m = n
    BY <1>2, <1>3, <2>1 DEF MockInv, MockTypeOK, OrderOnce
  <2>2. CASE m # n
    BY <1>3, <2>2 DEF MockInv, MockTypeOK, OrderOnce
  <2>3. QED BY <2>1, <2>2
<1>7. StockConserved'
  <2> SUFFICES ASSUME NEW product \in Products
               PROVE  stock'[product] + OnOrder(product)' = InitialStock[product]
    BY DEF StockConserved, OnOrder, Quantity
  <2>1. /\ stock[product] \in Int /\ OnOrder(product) \in Int
        /\ stock[product] + OnOrder(product) = InitialStock[product]
    BY QuantityTyped DEF MockInv, MockTypeOK, StockConserved, OnOrder, Quantity
  <2>2. \A m \in Numbers : Quantity[m] \in Int
    BY QuantityTyped DEF MockInv
  <2>3. Quantity' = Quantity
    BY <1>3 DEF Quantity
  <2>4. CASE product = orders[n].product
    <3>1. Placed(product)' = Placed(product) \ {n}
      BY <1>3, <2>4 DEF Placed
    <3>2. OnOrder(product) = orders[n].quantity + OnOrder(product)'
      <4>1. n \in Placed(product) /\ Placed(product) \in SUBSET Numbers
        BY <1>2, <2>4 DEF Placed
      <4>2. SumFunctionOnSet(Quantity, Placed(product))
              = Quantity[n] + SumFunctionOnSet(Quantity, Placed(product) \ {n})
        BY <2>2, <4>1, NumbersFinite, SumTakesOut
      <4>3. OnOrder(product)' = SumFunctionOnSet(Quantity, Placed(product) \ {n})
        BY <2>3, <3>1 DEF OnOrder
      <4>4. Quantity[n] = orders[n].quantity
        BY DEF Quantity
      <4>5. QED BY <4>2, <4>3, <4>4 DEF OnOrder
    <3>3. stock'[product] = stock[product] + orders[n].quantity
      BY <2>4 DEF MockInv, MockTypeOK
    <3>4. OnOrder(product)' \in Int
      BY <1>4, QuantityTyped, <2>3, <3>1, <2>2, SumStep, NumbersFinite, FS_Subset DEF OnOrder,
         Placed
    <3> DEFINE o == OnOrder(product)
               oo == OnOrder(product)'
               s == stock[product]
               ss == stock'[product]
               q == orders[n].quantity
    <3>5. o \in Int /\ s \in Int /\ oo \in Int /\ q \in Int /\ s + o = InitialStock[product]
          /\ o = q + oo /\ ss = s + q
      BY <1>2, <2>1, <3>2, <3>3, <3>4
    <3> HIDE DEF o, oo, s, ss, q
    <3>6. ss + oo = InitialStock[product]
      BY <3>5
    <3>7. QED BY <3>6 DEF oo, ss
  <2>5. CASE product # orders[n].product
    <3>1. Placed(product)' = Placed(product)
      BY <1>3, <2>5 DEF Placed
    <3>2. OnOrder(product)' = OnOrder(product)
      BY <2>3, <3>1 DEF OnOrder
    <3>3. stock'[product] = stock[product]
      BY <2>5 DEF MockInv, MockTypeOK
    <3>4. QED BY <2>1, <3>2, <3>3
  <2>6. QED BY <2>4, <2>5
<1>8. QED BY <1>4, <1>5, <1>6, <1>7 DEF MockInv

LEMMA MockStepInv ==
    ASSUME MockInv, MockStep
    PROVE  MockInv'
<1>1. ASSUME NEW body \in DOMAIN Decoded, Places(Decoded[body])
      PROVE  MockInv'
  BY <1>1, OrderPlaced
<1>2. ASSUME NEW n \in Numbers, Cancels(n)
      PROVE  MockInv'
  BY <1>2, OrderCancelled
<1>3. CASE Restart
  <2> USE <1>3 DEF Restart
  <2>1. MaxOrders \in Nat
    BY NumbersFinite
  <2>2. MockTypeOK'
    BY <2>1, MockAssumption DEF MockInv, MockTypeOK, NoOrder, Order
  <2>3. OrdersSound'
    BY <2>1 DEF OrdersSound, NoOrder, Numbers
  <2>4. OrderOnce'
    BY DEF OrderOnce, NoOrder
  <2>5. StockConserved'
    <3> SUFFICES ASSUME NEW product \in Products
                 PROVE  stock'[product] + OnOrder(product)' = InitialStock[product]
      BY DEF StockConserved, OnOrder, Quantity
    <3>1. Placed(product)' = {}
      BY DEF Placed, NoOrder
    <3>2. OnOrder(product)' = SumFunctionOnSet(Quantity', {})
      BY <3>1 DEF OnOrder
    <3> DEFINE f == Quantity'
    <3>3. \A n \in {} : f[n] \in Int
      OBVIOUS
    <3> HIDE DEF f
    <3>4. SumFunctionOnSet(f, {}) = 0
      BY <3>3, SumStep, FS_EmptySet
    <3>5. InitialStock[product] \in Nat /\ stock'[product] = InitialStock[product]
      BY MockAssumption
    <3>6. QED BY <3>2, <3>4, <3>5 DEF f
  <2>6. QED BY <2>2, <2>3, <2>4, <2>5 DEF MockInv
<1>4. CASE UNCHANGED mockVars
  <2>1. Quantity' = Quantity /\ \A product \in Products : Placed(product)' = Placed(product)
    BY <1>4 DEF mockVars, Quantity, Placed
  <2>2. QED BY <1>4, <2>1
        DEF mockVars, MockInv, MockTypeOK, OrdersSound, OrderOnce, StockConserved, Quantity
<1>5. QED BY <1>1, <1>2, <1>3, <1>4 DEF MockStep

------------------------------------------------------------------------------
(* Arguments in their places *)

\* What the arguments K make of a token.
Put(args, K) ==
    [t \in STRING |-> IF \E k \in K : t = Placeholder[k]
                      THEN Text[args[CHOOSE k \in K : t = Placeholder[k]]] ELSE <<t>>]

Texts(args) == DOMAIN args \subseteq Params /\ \A k \in DOMAIN args : Text[args[k]] \in Seq(STRING)

LEMMA PutTexts ==
    ASSUME NEW args, Texts(args), NEW K \in SUBSET DOMAIN args
    PROVE  /\ Put(args, K) \in [STRING -> Seq(STRING)]
           /\ \A k \in K : Put(args, K)[Placeholder[k]] = Text[args[k]]
           /\ \A t \in STRING : (\A k \in K : t # Placeholder[k]) => Put(args, K)[t] = <<t>>
<1>1. ASSUME NEW t \in STRING, NEW k \in K, t = Placeholder[k]
      PROVE  (CHOOSE j \in K : t = Placeholder[j]) = k
  <2>1. \A j \in K : t = Placeholder[j] => j = k
    BY <1>1, ParserAssumption DEF Texts
  <2>2. QED BY <1>1, <2>1
<1>2. ASSUME NEW t \in STRING, NEW k \in K, t = Placeholder[k]
      PROVE  Put(args, K)[t] = Text[args[k]]
  BY <1>1, <1>2 DEF Put
<1>3. ASSUME NEW t \in STRING, \A k \in K : t # Placeholder[k]
      PROVE  Put(args, K)[t] = <<t>>
  BY <1>3 DEF Put
<1>4. ASSUME NEW t \in STRING
      PROVE  Put(args, K)[t] \in Seq(STRING)
  <2>1. <<t>> \in Seq(STRING)
    BY OneToken
  <2>2. \A k \in K : Text[args[k]] \in Seq(STRING)
    BY DEF Texts
  <2>3. QED BY <1>2, <1>3, <2>1, <2>2
<1>5. Put(args, K) \in [STRING -> Seq(STRING)]
  <2>1. Put(args, K) = [t \in STRING |-> Put(args, K)[t]]
    BY Zenon DEF Put
  <2>2. QED BY <1>4, <2>1
<1>6. \A k \in K : Placeholder[k] \in STRING
  BY ParserAssumption DEF Texts
<1>7. QED BY <1>2, <1>3, <1>5, <1>6

\* Replace as a substitution.
One(k, text) == [t \in STRING |-> IF t = Placeholder[k] THEN text ELSE <<t>>]

LEMMA TokenSpelled ==
    ASSUME NEW m \in [STRING -> Seq(STRING)], NEW t \in STRING
    PROVE  Spelled(<<t>>, m) = m[t]
BY SpelledSingle

LEMMA OneTyped ==
    ASSUME NEW k \in Params, NEW text \in Seq(STRING)
    PROVE  /\ One(k, text) \in [STRING -> Seq(STRING)]
           /\ One(k, text)[Placeholder[k]] = text
           /\ \A t \in STRING : t # Placeholder[k] => One(k, text)[t] = <<t>>
<1>1. One(k, text) \in [STRING -> Seq(STRING)]
  <2>1. \A t \in STRING : <<t>> \in Seq(STRING)
    BY OneToken
  <2>2. QED BY <2>1 DEF One
<1>2. Placeholder[k] \in STRING
  BY ParserAssumption
<1>3. QED BY <1>1, <1>2 DEF One

LEMMA ReplaceSpells ==
    ASSUME NEW path \in Seq(STRING), NEW k \in Params, NEW text \in Seq(STRING)
    PROVE  Replace(path, k, text) = Spelled(path, One(k, text))
<1>1. \A i \in DOMAIN path : path[i] \in STRING
  BY LenProperties
<1>2. [i \in DOMAIN path |-> IF path[i] = Placeholder[k] THEN text ELSE <<path[i]>>]
        = [i \in DOMAIN path |-> One(k, text)[path[i]]]
  BY <1>1 DEF One
<1>3. QED BY <1>2 DEF Replace, Spelled

LEMMA ReplaceTyped ==
    ASSUME NEW path \in Seq(STRING), NEW k \in Params, NEW text \in Seq(STRING)
    PROVE  Replace(path, k, text) \in Seq(STRING)
<1>1. One(k, text) \in [STRING -> Seq(STRING)]
  BY OneTyped
<1>2. Spelled(path, One(k, text)) \in Seq(STRING)
  BY <1>1, SpelledTyped
<1>3. QED BY <1>2, ReplaceSpells

\* Once the arguments K are in their places, the placeholder of another one is there
\* if it was in the template,
LEMMA UsesKept ==
    ASSUME NEW args, Texts(args), Plain(args), NEW K \in SUBSET DOMAIN args,
           NEW k \in DOMAIN args \ K, NEW template \in Seq(STRING)
    PROVE  Uses(Spelled(template, Put(args, K)), k) <=> Uses(template, k)
<1> DEFINE m == Put(args, K)
           x == Placeholder[k]
<1>1. /\ m \in [STRING -> Seq(STRING)]
      /\ \A j \in K : m[Placeholder[j]] = Text[args[j]]
      /\ \A t \in STRING : (\A j \in K : t # Placeholder[j]) => m[t] = <<t>>
  BY PutTexts
<1>2. /\ k \in Params /\ x \in STRING
      /\ \A j \in K : Placeholder[j] # x
      /\ \A j \in K : x \notin ToSet(Text[args[j]])
  BY ParserAssumption DEF Texts, Plain, Uses
<1>3. \A t : ToSet(<<t>>) = {t}
  BY DEF ToSet
<1> HIDE DEF m, x
<1>4. ASSUME NEW t \in STRING
      PROVE  x \in ToSet(m[t]) <=> t = x
  <2>1. CASE \E j \in K : t = Placeholder[j]
    BY <1>1, <1>2, <2>1
  <2>2. CASE \A j \in K : t # Placeholder[j]
    <3>1. m[t] = <<t>>
      BY <1>1, <2>2
    <3>2. ToSet(<<t>>) = {t}
      BY <1>3
    <3>3. QED BY <3>1, <3>2
  <2>3. QED BY <2>1, <2>2
<1>5. x \in ToSet(Spelled(template, m)) <=> \E i \in DOMAIN template : x \in ToSet(m[template[i]])
  BY <1>1, SpelledHolds
<1>6. \A i \in DOMAIN template : template[i] \in STRING
  BY LenProperties
<1>7. x \in ToSet(template) <=> \E i \in DOMAIN template : template[i] = x
  BY DEF ToSet
<1>8. x \in ToSet(Spelled(template, m)) <=> x \in ToSet(template)
  BY <1>4, <1>5, <1>6, <1>7
<1>9. QED BY <1>8 DEF Uses, m, x

Fresh(k, K, args) == K \in SUBSET DOMAIN args /\ k \in DOMAIN args \ K

\* and putting it in its place too is putting them all in at once.
LEMMA ReplacePuts ==
    ASSUME NEW args, Texts(args), Plain(args), NEW K, NEW k, Fresh(k, K, args),
           NEW template \in Seq(STRING)
    PROVE  Replace(Spelled(template, Put(args, K)), k, Text[args[k]])
               = Spelled(template, Put(args, K \cup {k}))
<1> DEFINE before == Put(args, K)
           Kk == K \cup {k}
           after == Put(args, Kk)
           one == One(k, Text[args[k]])
<1>0. K \in SUBSET DOMAIN args /\ k \in DOMAIN args \ K
  BY DEF Fresh
<1>1. /\ before \in [STRING -> Seq(STRING)]
      /\ \A j \in K : before[Placeholder[j]] = Text[args[j]]
      /\ \A t \in STRING : (\A j \in K : t # Placeholder[j]) => before[t] = <<t>>
  BY <1>0, PutTexts
<1>2. Kk \in SUBSET DOMAIN args /\ \A j : j \in Kk <=> j \in K \/ j = k
  BY <1>0
<1> HIDE DEF Kk
<1>3. /\ after \in [STRING -> Seq(STRING)]
      /\ \A j \in Kk : after[Placeholder[j]] = Text[args[j]]
      /\ \A t \in STRING : (\A j \in Kk : t # Placeholder[j]) => after[t] = <<t>>
  BY <1>2, PutTexts
<1>4. /\ k \in Params /\ Placeholder[k] \in STRING /\ Text[args[k]] \in Seq(STRING)
      /\ \A j \in K : Text[args[j]] \in Seq(STRING)
      /\ \A j \in K : Placeholder[j] # Placeholder[k]
      /\ \A j \in K : Placeholder[k] \notin ToSet(Text[args[j]])
  BY <1>0, ParserAssumption DEF Texts, Plain, Uses
<1>5. Spelled(template, before) \in Seq(STRING)
  BY <1>1, SpelledTyped
<1>6. /\ one \in [STRING -> Seq(STRING)]
      /\ Replace(Spelled(template, before), k, Text[args[k]]) = Spelled(Spelled(template, before), one)
      /\ one[Placeholder[k]] = Text[args[k]]
      /\ \A t \in STRING : t # Placeholder[k] => one[t] = <<t>>
  <2> DEFINE p == Spelled(template, before)
             text == Text[args[k]]
  <2>1. p \in Seq(STRING) /\ k \in Params /\ text \in Seq(STRING)
    BY <1>4, <1>5
  <2> HIDE DEF before, p, text
  <2>2. Replace(p, k, text) = Spelled(p, one)
    BY <2>1, ReplaceSpells DEF text
  <2>3. /\ one \in [STRING -> Seq(STRING)]
        /\ one[Placeholder[k]] = text
        /\ \A t \in STRING : t # Placeholder[k] => one[t] = <<t>>
    BY <2>1, OneTyped DEF text
  <2>4. QED BY <2>2, <2>3 DEF p, text
<1> HIDE DEF before, after, one
<1>7. ASSUME NEW t \in STRING
      PROVE  Spelled(before[t], one) = after[t]
  <2>1. ASSUME NEW j \in K, t = Placeholder[j]
        PROVE  Spelled(before[t], one) = after[t]
    <3> DEFINE text == Text[args[j]]
    <3>1. before[t] = text /\ after[t] = text /\ text \in Seq(STRING)
      BY <1>1, <1>2, <1>3, <1>4, <2>1
    <3>2. \A i \in DOMAIN text : text[i] \in STRING /\ text[i] # Placeholder[k]
      BY <1>4, LenProperties DEF ToSet
    <3> HIDE DEF text
    <3>3. Leaves(one, text)
      BY <1>6, <3>2 DEF Leaves
    <3>4. Spelled(text, one) = text
      BY <1>6, <3>1, <3>3, SpelledSame
    <3>5. QED BY <3>1, <3>4
  <2>2. CASE \A j \in K : t # Placeholder[j]
    <3>1. before[t] = <<t>>
      BY <1>1, <2>2
    <3>2. Spelled(<<t>>, one) = one[t]
      BY <1>6, TokenSpelled
    <3>3. one[t] = after[t]
      <4>1. CASE t = Placeholder[k]
        BY <1>2, <1>3, <1>6, <4>1
      <4>2. CASE t # Placeholder[k]
        BY <1>2, <1>3, <1>6, <2>2, <4>2
      <4>3. QED BY <4>1, <4>2
    <3>4. QED BY <3>1, <3>2, <3>3
  <2>3. QED BY <2>1, <2>2
<1>8. Chains(before, one, after, STRING)
  BY <1>1, <1>3, <1>6, <1>7 DEF Chains
<1>9. Spelled(Spelled(template, before), one) = Spelled(template, after)
  BY <1>8, SpelledTwice
<1>10. QED BY <1>6, <1>9 DEF before, after, Kk

\* What the loop has done when it has been through the arguments K, in any order.
Resolved(template, args, K) ==
    [path |-> Spelled(template, Put(args, K)),
     remaining |-> {k \in DOMAIN args : k \notin K \/ ~ Uses(template, k)}]

LEMMA TurnResolves ==
    ASSUME NEW args, Texts(args), Plain(args), NEW K \in SUBSET DOMAIN args,
           NEW k \in DOMAIN args \ K, NEW template \in Seq(STRING)
    PROVE  Turn(Resolved(template, args, K), k, Text[args[k]])
               = Resolved(template, args, K \cup {k})
<1> DEFINE r == Resolved(template, args, K)
           rk == Resolved(template, args, K \cup {k})
           text == Text[args[k]]
           p == Spelled(template, Put(args, K))
           pk == Spelled(template, Put(args, K \cup {k}))
<1>1. r.path = p /\ rk.path = pk
  BY DEF Resolved
<1>2. Uses(p, k) <=> Uses(template, k)
  BY UsesKept
<1>3. Replace(p, k, text) = pk
  BY ReplacePuts DEF Fresh
<1>4. CASE Uses(template, k)
  <2>1. rk.remaining = r.remaining \ {k}
    BY <1>4 DEF Resolved
  <2>2. Turn(r, k, text) = [path |-> pk, remaining |-> r.remaining \ {k}]
    <3> HIDE DEF r, p, pk, text
    <3>1. QED BY <1>1, <1>2, <1>3, <1>4 DEF Turn
  <2>3. rk = [path |-> pk, remaining |-> rk.remaining]
    BY DEF Resolved
  <2>4. QED BY <2>1, <2>2, <2>3
<1>5. CASE ~ Uses(template, k)
  <2>1. rk.remaining = r.remaining
    BY <1>5 DEF Resolved
  <2>2. pk = p
    <3>1. k \in Params /\ text \in Seq(STRING) /\ Put(args, K) \in [STRING -> Seq(STRING)]
      BY PutTexts DEF Texts
    <3>2. p \in Seq(STRING)
      BY <3>1, SpelledTyped
    <3> HIDE DEF p, pk, text
    <3> DEFINE one == One(k, text)
    <3>3. /\ one \in [STRING -> Seq(STRING)] /\ Replace(p, k, text) = Spelled(p, one)
          /\ \A t \in STRING : t # Placeholder[k] => one[t] = <<t>>
      BY <3>1, <3>2, OneTyped, ReplaceSpells
    <3>4. \A i \in DOMAIN p : p[i] \in STRING /\ p[i] # Placeholder[k]
      BY <1>2, <1>5, <3>2, LenProperties DEF Uses, ToSet
    <3>5. Leaves(one, p)
      BY <3>3, <3>4 DEF Leaves
    <3> HIDE DEF one
    <3>6. Spelled(p, one) = p
      BY <3>2, <3>3, <3>5, SpelledSame
    <3>7. QED BY <1>3, <3>3, <3>6
  <2>3. Turn(r, k, text) = r
    <3> HIDE DEF r, p, text
    <3>1. QED BY <1>1, <1>2, <1>5 DEF Turn
  <2>4. r = [path |-> p, remaining |-> r.remaining] /\ rk = [path |-> pk, remaining |-> rk.remaining]
    BY DEF Resolved
  <2>5. QED BY <2>1, <2>2, <2>3, <2>4
<1>6. QED BY <1>4, <1>5

------------------------------------------------------------------------------
(* The loop of resolvePathParams *)

\* The order is one of all arguments.
LEMMA OrderCovers ==
    ASSUME NEW S, IsFiniteSet(S), NEW order \in SetToSeqs(S)
    PROVE  /\ Cardinality(S) \in Nat
           /\ order \in [1..Cardinality(S) -> S]
           /\ \A i, j \in 1..Cardinality(S) : i # j => order[i] # order[j]
           /\ \A k \in S : \E i \in 1..Cardinality(S) : order[i] = k
<1> DEFINE n == Cardinality(S)
           D == 1..n
<1>1. n \in Nat
  BY FS_CardinalityType
<1>2. order \in [D -> S] /\ \A i, j \in D : i # j => order[i] # order[j]
  BY DEF SetToSeqs
<1>3. IsFiniteSet(D) /\ Cardinality(D) = n
  <2>1. 1..0 = {} /\ (1 <= n + 1)
    BY <1>1
  <2>2. Cardinality(D) = IF 1 > n THEN 0 ELSE n - 1 + 1
    BY <1>1, FS_Interval
  <2>3. QED BY <1>1, <2>2, FS_Interval
<1>4. order \in Injection(D, S)
  BY <1>2 DEF Injection, IsInjective
<1>5. order \in Surjection(D, S)
  <2> HIDE DEF D, n
  <2>1. Cardinality(D) = Cardinality(S)
    BY <1>3 DEF n
  <2>2. QED BY <1>4, <2>1, FS_Injection
<1>6. \A k \in S : \E i \in D : order[i] = k
  BY <1>5 DEF Surjection
<1>7. QED BY <1>1, <1>2, <1>6

\* Where the loop stands: a path and the arguments not used yet.
Stands(args) == [path : Seq(STRING), remaining : SUBSET DOMAIN args]

LEMMA TurnStands ==
    ASSUME NEW args, Texts(args), NEW r \in Stands(args), NEW k \in DOMAIN args
    PROVE  Turn(r, k, Text[args[k]]) \in Stands(args)
<1>1. r.path \in Seq(STRING) /\ r.remaining \subseteq DOMAIN args
  BY DEF Stands
<1>2. k \in Params /\ Text[args[k]] \in Seq(STRING)
  BY DEF Texts
<1>3. Replace(r.path, k, Text[args[k]]) \in Seq(STRING)
  BY <1>1, <1>2, ReplaceTyped
<1>4. QED BY <1>1, <1>3 DEF Turn, Stands

\* The loop as an iteration over the turns.
TurnAt(args, order) ==
    [pair \in (DOMAIN order) \X Stands(args) |->
        Turn(pair[2], order[pair[1]], Text[args[order[pair[1]]]])]
Latest(order) == [T \in SUBSET DOMAIN order |-> Max(T)]
Start(template, args) == [path |-> template, remaining |-> DOMAIN args]

Loops(it, template, args, order) ==
    /\ Iterates(it, DOMAIN order, Start(template, args), Latest(order), TurnAt(args, order))
    /\ ResolvePathParams(template, args, order) = it[DOMAIN order]

LEMMA LoopIterates ==
    ASSUME NEW template \in Seq(STRING), NEW args, Texts(args), IsFiniteSet(DOMAIN args),
           NEW order \in SetToSeqs(DOMAIN args)
    PROVE  /\ IsFiniteSet(DOMAIN order)
           /\ Start(template, args) \in Stands(args)
           /\ Picks(Latest(order), DOMAIN order)
           /\ TurnAt(args, order) \in [(DOMAIN order) \X Stands(args) -> Stands(args)]
           /\ \E it \in [SUBSET DOMAIN order -> Stands(args)] : Loops(it, template, args, order)
<1> DEFINE S == DOMAIN order
           B == Stands(args)
           b == Start(template, args)
           pick == Latest(order)
           g == TurnAt(args, order)
<1>1. PICK size \in Nat : S = 1..size /\ order \in [1..size -> DOMAIN args]
  BY OrderCovers
<1>2. IsFiniteSet(S)
  BY <1>1, FS_Interval
<1>3. b \in B
  BY DEF Start, Stands
<1>4. Picks(pick, S) /\ \A T \in SUBSET S : pick[T] = Max(T)
  BY <1>1, MaxPicks DEF Picks, Latest
<1>5. g \in [S \X B -> B]
  <2>1. \A pair \in S \X B : Turn(pair[2], order[pair[1]], Text[args[order[pair[1]]]]) \in B
    BY <1>1, TurnStands
  <2>2. QED BY <2>1 DEF TurnAt
<1>6. \A i \in S, r \in B : g[<<i, r>>] = Turn(r, order[i], Text[args[order[i]]])
  BY DEF TurnAt
<1> DEFINE Next(it, s) == IF s = {} THEN b
                          ELSE Turn(it[s \ {Max(s)}], order[Max(s)], Text[args[order[Max(s)]]])
           F(it) == [s \in SUBSET S |-> Next(it, s)]
           loop == CHOOSE it : it = F(it)
<1>7. ResolvePathParams(template, args, order) = loop[S]
  BY Zenon DEF ResolvePathParams, FoldLeft, MapThenFoldSet, Start
<1> HIDE DEF b, B, pick, g, S
<1>8. PICK it \in [SUBSET S -> B] : Iterates(it, S, b, pick, g)
  BY <1>2, <1>3, <1>4, <1>5, IterationExists
<1>9. it = F(it)
  <2>1. ASSUME NEW T \in SUBSET S
        PROVE  it[T] = Next(it, T)
    <3>1. it[T] = IF T = {} THEN b ELSE g[<<pick[T], it[T \ {pick[T]}]>>]
      BY <1>8 DEF Iterates
    <3>2. CASE T = {}
      BY <3>1, <3>2
    <3>3. CASE T # {}
      <4>1. pick[T] = Max(T) /\ Max(T) \in S /\ it[T \ {Max(T)}] \in B
        BY <1>4, <3>3 DEF Picks
      <4>2. g[<<Max(T), it[T \ {Max(T)}]>>]
              = Turn(it[T \ {Max(T)}], order[Max(T)], Text[args[order[Max(T)]]])
        BY <1>6, <4>1
      <4>3. QED BY <3>1, <3>3, <4>1, <4>2
    <3>4. QED BY <3>2, <3>3
  <2>2. it = [T \in SUBSET S |-> it[T]]
    OBVIOUS
  <2> HIDE DEF Next
  <2>3. QED BY <2>1, <2>2
<1>10. loop = F(loop)
  <2> HIDE DEF F
  <2>1. QED BY <1>9, Zenon
<1>11. \A T \in SUBSET S : loop[T] = Next(loop, T)
  <2> HIDE DEF Next, loop
  <2>1. QED BY <1>10
<1> HIDE DEF loop
<1>12. \A T \in SUBSET S : it[T] = Next(it, T)
  <2> HIDE DEF Next
  <2>1. QED BY <1>9
<1> DEFINE Good == {n \in Nat : \A T \in SUBSET S : Cardinality(T) <= n => loop[T] = it[T]}
<1>13. 0 \in Good
  BY <1>2, <1>11, <1>12, NoneLeft
<1>14. ASSUME NEW n \in Nat, n \in Good
       PROVE  n + 1 \in Good
  <2> SUFFICES ASSUME NEW T \in SUBSET S, Cardinality(T) <= n + 1
               PROVE  loop[T] = it[T]
    OBVIOUS
  <2>1. CASE T = {}
    BY <1>11, <1>12, <2>1
  <2>2. CASE T # {}
    <3>1. Max(T) \in T
      BY <1>4, <2>2 DEF Picks
    <3>2. T \ {Max(T)} \in SUBSET S /\ Cardinality(T \ {Max(T)}) <= n
      BY <1>2, <3>1, SmallerRest
    <3>3. loop[T \ {Max(T)}] = it[T \ {Max(T)}]
      BY <1>14, <3>2
    <3>4. loop[T] = Next(loop, T) /\ it[T] = Next(it, T)
      <4> HIDE DEF Next
      <4>1. QED BY <1>11, <1>12
    <3>5. QED BY <3>3, <3>4
  <2>3. QED BY <2>1, <2>2
<1>15. \A n \in Nat : n \in Good
  <2> HIDE DEF Good
  <2>1. QED BY <1>13, <1>14, SetInduction
<1>16. loop[S] = it[S]
  <2>1. Cardinality(S) \in Nat /\ Cardinality(S) <= Cardinality(S) /\ S \in SUBSET S
    BY <1>2, FS_CardinalityType
  <2>2. QED BY <1>15, <2>1
<1>17. ResolvePathParams(template, args, order) = it[S]
  BY <1>7, <1>16 DEF loop, S
<1>18. Loops(it, template, args, order)
  BY <1>8, <1>17 DEF Loops, b, pick, g, S
<1>19. QED BY <1>2, <1>3, <1>4, <1>5, <1>8, <1>18 DEF b, B, pick, g, S

LEMMA ResolveStands ==
    ASSUME NEW template \in Seq(STRING), NEW args, Texts(args), IsFiniteSet(DOMAIN args),
           NEW order \in SetToSeqs(DOMAIN args)
    PROVE  ResolvePathParams(template, args, order) \in Stands(args)
<1>1. PICK it \in [SUBSET DOMAIN order -> Stands(args)] : Loops(it, template, args, order)
  BY LoopIterates
<1>2. DOMAIN order \in SUBSET DOMAIN order
  OBVIOUS
<1>3. ResolvePathParams(template, args, order) = it[DOMAIN order]
  BY <1>1 DEF Loops
<1>4. QED BY <1>1, <1>2, <1>3

LEMMA ResolvedStands ==
    ASSUME NEW template \in Seq(STRING), NEW args, Texts(args), NEW K \in SUBSET DOMAIN args
    PROVE  Resolved(template, args, K) \in Stands(args)
<1>1. Put(args, K) \in [STRING -> Seq(STRING)]
  BY PutTexts
<1>2. Spelled(template, Put(args, K)) \in Seq(STRING)
  BY <1>1, SpelledTyped
<1>3. QED BY <1>2 DEF Resolved, Stands

LEMMA NothingResolved ==
    ASSUME NEW template \in Seq(STRING), NEW args, Texts(args)
    PROVE  Resolved(template, args, {}) = Start(template, args)
<1>1. {} \in SUBSET DOMAIN args
  OBVIOUS
<1>2. /\ Put(args, {}) \in [STRING -> Seq(STRING)]
      /\ \A t \in STRING : Put(args, {})[t] = <<t>>
  BY <1>1, PutTexts
<1>3. Leaves(Put(args, {}), template)
  BY <1>2, LenProperties DEF Leaves
<1>4. Spelled(template, Put(args, {})) = template
  BY <1>2, <1>3, SpelledSame
<1>5. {k \in DOMAIN args : k \notin {} \/ ~ Uses(template, k)} = DOMAIN args
  OBVIOUS
<1>6. QED BY <1>4, <1>5 DEF Resolved, Start

\* In whatever order the arguments come, they are all put into the template, and those
\* that have no place in it are left.
THEOREM ArgumentsInPlace ==
    ASSUME NEW template \in Seq(STRING), NEW args, Texts(args), IsFiniteSet(DOMAIN args),
           Plain(args), NEW order \in SetToSeqs(DOMAIN args)
    PROVE  ResolvePathParams(template, args, order) = Resolved(template, args, DOMAIN args)
<1> DEFINE S == DOMAIN order
           B == Stands(args)
           b == Start(template, args)
           pick == Latest(order)
           g == TurnAt(args, order)
           Through(T) == {order[i] : i \in T}
           jt == [T \in SUBSET S |-> Resolved(template, args, Through(T))]
<1>1. PICK n \in Nat : /\ S = 1..n /\ order \in [1..n -> DOMAIN args]
                       /\ \A i, j \in 1..n : i # j => order[i] # order[j]
                       /\ \A k \in DOMAIN args : \E i \in 1..n : order[i] = k
  BY OrderCovers
<1>2. \A T \in SUBSET S : Through(T) \in SUBSET DOMAIN args
  BY <1>1
<1>3. jt \in [SUBSET S -> B]
  <2> HIDE DEF S, B, Through
  <2>1. QED BY <1>2, ResolvedStands DEF B
<1>4. /\ IsFiniteSet(S) /\ b \in B /\ Picks(pick, S)
      /\ g \in [S \X B -> B]
  BY LoopIterates
<1>5. PICK it \in [SUBSET S -> B] :
          Iterates(it, S, b, pick, g) /\ ResolvePathParams(template, args, order) = it[S]
  <2>1. PICK it \in [SUBSET DOMAIN order -> Stands(args)] : Loops(it, template, args, order)
    BY LoopIterates
  <2>2. QED BY <2>1 DEF Loops
<1>6. \A T \in SUBSET S : jt[T] = Resolved(template, args, Through(T))
  <2> HIDE DEF Through
  <2>1. QED OBVIOUS
<1>7. \A i \in S, r \in B : g[<<i, r>>] = Turn(r, order[i], Text[args[order[i]]])
  BY DEF TurnAt
<1>8. \A T \in SUBSET S : \A x \in T :
          /\ Fresh(order[x], Through(T \ {x}), args)
          /\ Through(T \ {x}) \cup {order[x]} = Through(T)
  <2> SUFFICES ASSUME NEW T \in SUBSET S, NEW x \in T
               PROVE  /\ Fresh(order[x], Through(T \ {x}), args)
                      /\ Through(T \ {x}) \cup {order[x]} = Through(T)
    OBVIOUS
  <2>1. x \in 1..n /\ order[x] \in DOMAIN args /\ \A y \in T : y \in 1..n
    BY <1>1
  <2>2. order[x] \notin Through(T \ {x})
    BY <1>1, <2>1
  <2>3. Through(T \ {x}) \in SUBSET DOMAIN args
    BY <1>2
  <2>4. Through(T \ {x}) \cup {order[x]} = Through(T)
    OBVIOUS
  <2> HIDE DEF Through
  <2>5. QED BY <2>1, <2>2, <2>3, <2>4 DEF Fresh
<1>9. Through({}) = {} /\ Through(S) = DOMAIN args
  <2>1. \A k \in DOMAIN args : \E i \in S : order[i] = k
    BY <1>1
  <2>2. \A i \in S : order[i] \in DOMAIN args
    BY <1>1
  <2> HIDE DEF S
  <2>3. Through({}) = {}
    OBVIOUS
  <2>4. Through(S) = DOMAIN args
    <3>1. \A k \in Through(S) : k \in DOMAIN args
      BY <2>2
    <3>2. \A k \in DOMAIN args : k \in Through(S)
      BY <2>1
    <3> HIDE DEF Through
    <3>3. QED BY <3>1, <3>2
  <2>5. QED BY <2>3, <2>4
<1> HIDE DEF S, B, b, pick, g, Through, jt
<1>10. ASSUME NEW T \in SUBSET S
       PROVE  jt[T] = IF T = {} THEN b ELSE g[<<pick[T], jt[T \ {pick[T]}]>>]
  <2>1. CASE T = {}
    BY <1>6, <1>9, <2>1, NothingResolved DEF b
  <2>2. CASE T # {}
    <3> DEFINE x == pick[T]
               R == T \ {x}
               k == order[x]
    <3>1. x \in T /\ x \in S /\ R \in SUBSET S
      BY <1>4, <2>2 DEF Picks
    <3>2. jt[R] \in B /\ jt[R] = Resolved(template, args, Through(R))
      BY <1>3, <1>6, <3>1
    <3>3. g[<<x, jt[R]>>] = Turn(jt[R], k, Text[args[k]])
      BY <1>7, <3>1, <3>2
    <3>4. Fresh(k, Through(R), args) /\ Through(R) \cup {k} = Through(T)
      BY <1>8, <3>1
    <3> HIDE DEF x, R, k
    <3>5. Through(R) \in SUBSET DOMAIN args /\ k \in DOMAIN args \ Through(R)
      BY <3>4 DEF Fresh
    <3>6. Turn(Resolved(template, args, Through(R)), k, Text[args[k]])
            = Resolved(template, args, Through(R) \cup {k})
      BY <3>5, TurnResolves
    <3>7. jt[T] = g[<<x, jt[R]>>]
      BY <1>6, <3>2, <3>3, <3>4, <3>6
    <3>8. QED BY <2>2, <3>7 DEF x, R
  <2>3. QED BY <2>1, <2>2
<1>11. Iterates(jt, S, b, pick, g)
  <2>1. jt = [T \in SUBSET S |-> jt[T]]
    BY <1>3
  <2>2. QED BY <1>10, <2>1 DEF Iterates
<1>12. it = jt
  BY <1>3, <1>4, <1>5, <1>11, IterationUnique
<1>13. S \in SUBSET S
  OBVIOUS
<1>14. QED BY <1>5, <1>6, <1>9, <1>12, <1>13

------------------------------------------------------------------------------
(* Documents *)

\* Only operations become tools whose method is supported.
LEMMA OperationsTyped ==
    ASSUME NEW name \in DOMAIN Documents
    PROVE  /\ Operations(Documents[name]) \in Seq({op \in Operation : op.method \in SupportedMethods})
           /\ \A i \in DOMAIN Operations(Documents[name]) :
                 /\ Operations(Documents[name])[i] \in Operation
                 /\ Operations(Documents[name])[i].method \in SupportedMethods
<1> DEFINE ops == Documents[name].operations
           Supported == {op \in Operation : op.method \in SupportedMethods}
           ss == [i \in DOMAIN ops |-> IF ops[i].method \in SupportedMethods THEN <<ops[i]>> ELSE <<>>]
<1>1. ops \in Seq(Operation)
  BY SandboxAssumption
<1>2. \A i \in DOMAIN ops : ops[i] \in Operation
  BY <1>1, LenProperties
<1>3. Operations(Documents[name]) = FlattenSeq(ss)
  BY DEF Operations
<1>4. \A i \in DOMAIN ops : ss[i] \in Seq(Supported)
  <2> HIDE DEF ops
  <2>1. <<>> \in Seq(Supported)
    OBVIOUS
  <2>2. ASSUME NEW i \in DOMAIN ops
        PROVE  ss[i] \in Seq(Supported)
    <3>1. CASE ops[i].method \in SupportedMethods
      <4>1. ops[i] \in Supported
        BY <1>2, <3>1
      <4> DEFINE op == ops[i]
      <4> HIDE DEF op, Supported
      <4>2. <<op>> \in Seq(Supported)
        BY <4>1, OneToken DEF op
      <4>3. QED BY <3>1, <4>2 DEF op
    <3>2. CASE ops[i].method \notin SupportedMethods
      BY <2>1, <3>2
    <3>3. QED BY <3>1, <3>2
  <2>3. QED BY <2>2
<1> HIDE DEF Supported
<1>5. ss \in Seq(Seq(Supported))
  <2>1. DOMAIN ss = DOMAIN ops /\ ss = [i \in DOMAIN ss |-> ss[i]]
    OBVIOUS
  <2> HIDE DEF ops, ss
  <2>2. QED BY <1>1, <1>4, <2>1, MapTyped
<1> HIDE DEF ss
<1>6. Operations(Documents[name]) \in Seq(Supported)
  BY <1>3, <1>5, FlattenTyped
<1>7. \A i \in DOMAIN Operations(Documents[name]) : Operations(Documents[name])[i] \in Supported
  BY <1>6, LenProperties
<1>8. QED BY <1>6, <1>7 DEF Supported

\* The tokens the names of tools are made of.
Quiet == (STRING \cup Params \cup SmallTokens)
            \ (DOMAIN Lowercase \cup Punctuation \cup Range(Placeholder))

LEMMA LoweredQuiet ==
    /\ \A t \in (STRING \cup Params) \ (Punctuation \cup Range(Placeholder)) : Lowered(t) \in Quiet
    /\ \A t \in DOMAIN Lowercase : Lowered(t) \in Quiet
    /\ "_" \in Quiet /\ "by" \in Quiet
<1>1. SmallTokens \subseteq Quiet
  BY ParserAssumption DEF Quiet
<1>2. \A t \in DOMAIN Lowercase : Lowered(t) \in SmallTokens
  BY DEF Lowered, SmallTokens, Range
<1>3. \A t \in (STRING \cup Params) \ (Punctuation \cup Range(Placeholder)) :
          t \notin DOMAIN Lowercase => Lowered(t) \in Quiet
  BY DEF Lowered, Quiet
<1>4. "_" \in SmallTokens /\ "by" \in SmallTokens
  BY DEF SmallTokens
<1>5. QED BY <1>1, <1>2, <1>3, <1>4

\* A placeholder is put into a name as its parameter.
LEMMA NamedQuiet ==
    ASSUME NEW t
    PROVE  /\ Named(t) # {} => Lowered(CHOOSE k \in Named(t) : TRUE) \in Quiet
           /\ Named(t) = {} => t \notin Range(Placeholder)
<1>1. Named(t) # {} => (CHOOSE k \in Named(t) : TRUE) \in Named(t)
  OBVIOUS
<1>2. Named(t) \subseteq Params \ (Punctuation \cup Range(Placeholder))
  BY ParserAssumption DEF Named
<1> DEFINE k == CHOOSE j \in Named(t) : TRUE
<1>3. Named(t) # {} => k \in Params \ (Punctuation \cup Range(Placeholder))
  BY <1>1, <1>2
<1> HIDE DEF k
<1>4. Named(t) # {} => Lowered(k) \in Quiet
  BY <1>3, LoweredQuiet
<1>5. Named(t) = {} => t \notin Range(Placeholder)
  BY ParserAssumption DEF Named, Range
<1>6. QED BY <1>4, <1>5 DEF k

LEMMA SnakeCaseQuiet ==
    ASSUME NEW id \in Seq(STRING)
    PROVE  SnakeCase(id) \in Seq(Quiet)
<1> DEFINE starts(i) == \/ i = 1 \/ id[i - 1] \in Punctuation \cup {"_"}
                        \/ Named(id[i - 1]) # {}
           ss == [i \in DOMAIN id |->
                    IF id[i] \in Punctuation THEN <<"_">>
                    ELSE IF Named(id[i]) # {}
                    THEN <<"_", Lowered(CHOOSE k \in Named(id[i]) : TRUE), "_">>
                    ELSE IF id[i] \in DOMAIN Lowercase /\ ~ starts(i) THEN <<"_", Lowered(id[i])>>
                    ELSE <<Lowered(id[i])>>]
<1>1. \A i \in DOMAIN id : id[i] \in STRING
  BY LenProperties
<1>2. \A i \in DOMAIN id : ss[i] \in Seq(Quiet)
  <2> SUFFICES ASSUME NEW i \in DOMAIN id
               PROVE  ss[i] \in Seq(Quiet)
    OBVIOUS
  <2> DEFINE l == Lowered(id[i])
             p == Lowered(CHOOSE k \in Named(id[i]) : TRUE)
  <2>1. CASE id[i] \in Punctuation
    <3>1. ss[i] = <<"_">>
      BY <2>1
    <3>2. QED BY <3>1, LoweredQuiet, Spells
  <2>2. CASE id[i] \notin Punctuation /\ Named(id[i]) # {}
    <3>1. p \in Quiet
      BY <2>2, NamedQuiet
    <3>2. ss[i] = <<"_", p, "_">>
      BY <2>2
    <3> HIDE DEF p, ss
    <3>3. QED BY <3>1, <3>2, LoweredQuiet, Spells
  <2>3. CASE id[i] \notin Punctuation /\ Named(id[i]) = {}
    <3>1. l \in Quiet
      BY <1>1, <2>3, LoweredQuiet, NamedQuiet
    <3>2. ss[i] = <<l>> \/ ss[i] = <<"_", l>>
      BY <2>3
    <3> HIDE DEF l, ss
    <3>3. <<l>> \in Seq(Quiet) /\ <<"_", l>> \in Seq(Quiet)
      BY <3>1, LoweredQuiet, Spells
    <3>4. QED BY <3>2, <3>3
  <2>4. QED BY <2>1, <2>2, <2>3
<1>3. DOMAIN ss = DOMAIN id /\ ss = [i \in DOMAIN ss |-> ss[i]]
  OBVIOUS
<1>4. SnakeCase(id) = FlattenSeq(ss)
  BY DEF SnakeCase
<1> HIDE DEF ss
<1>5. ss \in Seq(Seq(Quiet))
  BY <1>2, <1>3, MapTyped
<1>6. QED BY <1>4, <1>5, FlattenTyped

LEMMA PathWordsQuiet ==
    ASSUME NEW path \in Seq(STRING)
    PROVE  PathWords(path) \in Seq(Quiet)
<1> DEFINE separates(i) == path[i] \in Punctuation \cup {"_"}
           word(i) == IF Named(path[i]) # {}
                      THEN <<"by", "_", Lowered(CHOOSE k \in Named(path[i]) : TRUE)>>
                      ELSE <<Lowered(path[i])>>
           follows(i) == i > 1 /\ separates(i - 1) /\ \E j \in 1..i - 1 : ~ separates(j)
           ss == [i \in DOMAIN path |->
                    IF separates(i) THEN <<>>
                    ELSE IF follows(i) THEN <<"_">> \o word(i) ELSE word(i)]
<1>1. \A i \in DOMAIN path : path[i] \in STRING
  BY LenProperties
<1>2. ASSUME NEW i \in DOMAIN path, ~ separates(i)
      PROVE  word(i) \in Seq(Quiet)
  <2> DEFINE l == Lowered(path[i])
             b == Lowered(CHOOSE k \in Named(path[i]) : TRUE)
  <2>1. CASE Named(path[i]) # {}
    <3>1. b \in Quiet
      BY <2>1, NamedQuiet
    <3>2. word(i) = <<"by", "_", b>>
      BY <2>1
    <3> HIDE DEF b, word
    <3>3. QED BY <3>1, <3>2, LoweredQuiet, Spells
  <2>2. CASE Named(path[i]) = {}
    <3>1. l \in Quiet
      BY <1>1, <1>2, <2>2, LoweredQuiet, NamedQuiet
    <3>2. word(i) = <<l>>
      BY <2>2
    <3> HIDE DEF l, word
    <3>3. QED BY <3>1, <3>2, Spells
  <2>3. QED BY <2>1, <2>2
<1>3. <<"_">> \in Seq(Quiet) /\ <<>> \in Seq(Quiet)
  BY LoweredQuiet, Spells
<1> HIDE DEF word, separates, follows
<1>4. \A i \in DOMAIN path : ss[i] \in Seq(Quiet)
  <2> SUFFICES ASSUME NEW i \in DOMAIN path
               PROVE  ss[i] \in Seq(Quiet)
    OBVIOUS
  <2>1. CASE separates(i)
    BY <1>3, <2>1
  <2>2. CASE ~ separates(i)
    <3>1. word(i) \in Seq(Quiet)
      BY <1>2, <2>2
    <3>2. <<"_">> \o word(i) \in Seq(Quiet)
      BY <1>3, <3>1, ConcatProperties
    <3>3. ss[i] = word(i) \/ ss[i] = <<"_">> \o word(i)
      BY <2>2
    <3> HIDE DEF ss
    <3>4. QED BY <3>1, <3>2, <3>3
  <2>3. QED BY <2>1, <2>2
<1>5. DOMAIN ss = DOMAIN path /\ ss = [i \in DOMAIN ss |-> ss[i]]
  OBVIOUS
<1>6. PathWords(path) = FlattenSeq(ss)
  BY DEF PathWords, word, separates, follows
<1> HIDE DEF ss
<1>7. ss \in Seq(Seq(Quiet))
  BY <1>4, <1>5, MapTyped
<1>8. QED BY <1>6, <1>7, FlattenTyped

\* The name of a tool needs no escaping, whatever its operation is called.
LEMMA ToolNameQuiet ==
    ASSUME NEW op \in Operation, op.method \in SupportedMethods
    PROVE  ToSet(ToolName(op)) \cap (DOMAIN Lowercase \cup Punctuation \cup Range(Placeholder)) = {}
<1> DEFINE words == PathWords(op.path)
           method == Lowered(op.method)
<1>1. op.operationId \in Seq(STRING) /\ op.path \in Seq(STRING)
  BY DEF Operation
<1>2. words \in Seq(Quiet)
  BY <1>1, PathWordsQuiet
<1>3. op.operationId = <<>> => ToolName(op) = <<method, "_">> \o words
  BY DEF ToolName
<1>4. method \in Quiet
  BY ParserAssumption, LoweredQuiet DEF SupportedMethods, WriteMethods
<1> HIDE DEF method, words
<1>5. <<method, "_">> \in Seq(Quiet)
  BY <1>4, LoweredQuiet, Spells
<1>6. <<method, "_">> \o words \in Seq(Quiet)
  BY <1>2, <1>5, ConcatProperties
<1>7. ToolName(op) \in Seq(Quiet)
  <2>1. CASE op.operationId = <<>>
    BY <1>3, <1>6, <2>1
  <2>2. CASE op.operationId # <<>>
    BY <1>1, <2>2, SnakeCaseQuiet DEF ToolName
  <2>3. QED BY <2>1, <2>2
<1>8. \A i \in DOMAIN ToolName(op) : ToolName(op)[i] \in Quiet
  BY <1>7, LenProperties
<1>9. QED BY <1>8 DEF ToSet, Quiet

\* What a registered tool takes from its operation.
LEMMA ParsedSound ==
    ASSUME NEW name \in DOMAIN Documents
    PROVE  /\ Len(Parsed[name]) \in Nat /\ DOMAIN Parsed[name] = 1..Len(Parsed[name])
           /\ \A i \in DOMAIN Parsed[name] :
                 /\ Parsed[name][i].path \in Seq(STRING)
                 /\ Parsed[name][i].method \in SupportedMethods
                 /\ Parsed[name][i].op \in Operation
                 /\ Parsed[name][i].op.method = Parsed[name][i].method
                 /\ Parsed[name][i].op.path = Parsed[name][i].path
                 /\ Parsed[name][i].destructive = IsDestructive(Parsed[name][i].op)
                 /\ ToSet(Parsed[name][i].name) \cap (DOMAIN Lowercase \cup Punctuation \cup Range(Placeholder)) = {}
<1> DEFINE ops == Operations(Documents[name])
           tools == [i \in DOMAIN ops |-> ParsedTool(Documents[name], ops[i])]
<1>1. Parsed[name] = tools
  BY DEF Parsed, ParsedTools
<1>2. Len(ops) \in Nat /\ DOMAIN ops = 1..Len(ops)
  BY OperationsTyped, LenProperties
<1>3. \A i \in DOMAIN ops : ops[i] \in Operation /\ ops[i].method \in SupportedMethods
  BY OperationsTyped
<1>4. ASSUME NEW i \in DOMAIN ops
      PROVE  /\ tools[i].path \in Seq(STRING)
             /\ tools[i].method \in SupportedMethods
             /\ tools[i].op \in Operation
             /\ tools[i].op.method = tools[i].method
             /\ tools[i].op.path = tools[i].path
             /\ tools[i].destructive = IsDestructive(tools[i].op)
             /\ ToSet(tools[i].name) \cap (DOMAIN Lowercase \cup Punctuation \cup Range(Placeholder)) = {}
  <2> DEFINE op == ops[i]
  <2>1. op \in Operation /\ op.method \in SupportedMethods
    BY <1>3
  <2>2. op.path \in Seq(STRING)
    BY <2>1 DEF Operation
  <2>3. ToSet(ToolName(op)) \cap (DOMAIN Lowercase \cup Punctuation \cup Range(Placeholder)) = {}
    <3> HIDE DEF op
    <3>1. QED BY <2>1, ToolNameQuiet
  <2>4. tools[i] = ParsedTool(Documents[name], op)
    OBVIOUS
  <2> HIDE DEF op, tools
  <2>5. QED BY <2>1, <2>2, <2>3, <2>4 DEF ParsedTool
<1>5. Len(tools) = Len(ops) /\ DOMAIN tools = DOMAIN ops
  <2> DEFINE n == Len(ops)
  <2>1. n \in Nat /\ DOMAIN ops = 1..n
    BY <1>2
  <2> HIDE DEF ops, n
  <2>2. QED BY <2>1 DEF n
<1> HIDE DEF ops, tools
<1>6. QED BY <1>1, <1>2, <1>4, <1>5

\* A document that was registered names a base URL.
LEMMA BaseTyped ==
    ASSUME NEW name \in DOMAIN Documents, ParseStatus(Documents[name]) = 200
    PROVE  InferBaseUrl(Documents[name]) \in Seq(STRING)
<1>1. InferBaseUrl(Documents[name]) # NoBase
  BY DEF ParseStatus
<1> DEFINE servers == Documents[name].servers
           typed == Documents[name].typed
<1>2. servers \in Seq(Seq(STRING) \cup {NoBase}) /\ (typed = NoBase \/ typed \in Seq(STRING))
  BY SandboxAssumption
<1>3. InferBaseUrl(Documents[name]) \in
          (IF servers # <<>> /\ servers[1] # NoBase THEN {servers[1]} ELSE {NoBase, typed})
  BY DEF InferBaseUrl
<1> HIDE DEF servers, typed
<1>4. servers # <<>> => servers[1] \in Seq(STRING) \cup {NoBase}
  BY <1>2, EmptySeq, LenProperties
<1>5. QED BY <1>1, <1>2, <1>3, <1>4

------------------------------------------------------------------------------
(* Requests *)

\* The parts of a URL that are joined stay sequences of tokens.
LEMMA JoinedTyped ==
    ASSUME NEW base \in Seq(STRING), NEW path \in Seq(STRING)
    PROVE  Joined(base, path) \in Seq(STRING)
<1> DEFINE I == {i \in 1..Len(base) : ~ (base[i] = "/")}
           J == {i \in 1..Len(path) : ~ (path[i] = "/")}
           kept == IF I # {} THEN Max(I) ELSE 0
           first == IF J # {} THEN Min(J) ELSE 0
           start == SubSeq(base, 1, kept)
           rest == IF first = 0 THEN <<>> ELSE SubSeq(path, first, Len(path))
<1>1. Joined(base, path) = start \o <<"/">> \o rest
  BY Zenon DEF Joined, SelectInSeq, SelectLastInSeq
<1>2. /\ Len(base) \in Nat /\ Len(path) \in Nat
      /\ \A i \in 1..Len(base) : base[i] \in STRING
      /\ \A i \in 1..Len(path) : path[i] \in STRING
  BY LenProperties
<1>3. kept \in 0..Len(base)
  <2>1. I # {} => Max(I) \in I
    BY <1>2, MaxPicks
  <2>2. I \subseteq 1..Len(base)
    OBVIOUS
  <2> DEFINE m == Max(I)
  <2> HIDE DEF I, m
  <2>3. CASE I = {}
    BY <1>2, <2>3
  <2>4. CASE I # {}
    <3>1. m \in 1..Len(base) /\ kept = m
      BY <2>1, <2>2, <2>4 DEF m
    <3>2. QED BY <1>2, <3>1
  <2>5. QED BY <2>3, <2>4
<1>4. first \in 0..Len(path)
  <2>1. J # {} => Min(J) \in J
    BY <1>2, MinPicks
  <2>2. J \subseteq 1..Len(path)
    OBVIOUS
  <2> DEFINE m == Min(J)
  <2> HIDE DEF J, m
  <2>3. CASE J = {}
    BY <1>2, <2>3
  <2>4. CASE J # {}
    <3>1. m \in 1..Len(path) /\ first = m
      BY <2>1, <2>2, <2>4 DEF m
    <3>2. QED BY <1>2, <3>1
  <2>5. QED BY <2>3, <2>4
<1> HIDE DEF kept, first
<1>5. start \in Seq(STRING)
  <2>1. \A i \in 1..kept : base[i] \in STRING
    BY <1>2, <1>3
  <2>2. 1 \in Int /\ kept \in Int
    BY <1>2, <1>3
  <2>3. QED BY <2>1, <2>2, SubSeqProperties
<1>6. rest \in Seq(STRING)
  <2>1. CASE first = 0
    BY <2>1
  <2>2. CASE first # 0
    <3>1. \A i \in first..Len(path) : path[i] \in STRING
      BY <1>2, <1>4, <2>2
    <3>2. first \in Int /\ Len(path) \in Int
      BY <1>2, <1>4
    <3>3. SubSeq(path, first, Len(path)) \in Seq(STRING)
      BY <3>1, <3>2, SubSeqProperties
    <3>4. QED BY <2>2, <3>3
  <2>3. QED BY <2>1, <2>2
<1> HIDE DEF start, rest
<1>7. <<"/">> \in Seq(STRING)
  <2> DEFINE slash == "/"
  <2>1. slash \in STRING
    BY ParserAssumption
  <2> HIDE DEF slash
  <2>2. <<slash>> \in Seq(STRING)
    BY <2>1, OneToken
  <2>3. QED BY <2>2 DEF slash
<1>8. start \o <<"/">> \in Seq(STRING)
  BY <1>5, <1>7, ConcatProperties
<1>9. start \o <<"/">> \o rest \in Seq(STRING)
  BY <1>6, <1>8, ConcatProperties
<1>10. QED BY <1>1, <1>9

\* What is sent.
Requests ==
    [method : SupportedMethods, url : Seq(STRING), query : SUBSET (Params \X Seq(STRING)),
     body : DOMAIN Decoded, credentials : BOOLEAN]

LEMMA RequestTyped ==
    ASSUME NEW tool, tool.path \in Seq(STRING), tool.method \in SupportedMethods,
           NEW conn, conn.base \in Seq(STRING), NEW args \in Arguments,
           NEW order \in SetToSeqs(DOMAIN args)
    PROVE  /\ BuildRequest(tool, conn, args, order) \in Requests
           /\ BuildRequest(tool, conn, args, order).method = tool.method
           /\ BuildRequest(tool, conn, args, order) # NoRequest
<1> DEFINE r == ResolvePathParams(tool.path, args, order)
           left == r.remaining \ {Body}
           url == Joined(conn.base, r.path)
           query == IF tool.method \in {"GET", "DELETE"} THEN AppendQueryParams(args, left) ELSE {}
           body == IF Body \in r.remaining THEN args[Body] ELSE NoBody
           credentials == Credentials(conn.auth)
<1>1. /\ Texts(args) /\ IsFiniteSet(DOMAIN args)
      /\ Body \in DOMAIN args => args[Body] \in DOMAIN Decoded
      /\ NoBody \in DOMAIN Decoded
  BY SandboxAssumption DEF Texts
<1>2. r \in Stands(args)
  BY <1>1, ResolveStands
<1>3. BuildRequest(tool, conn, args, order)
        = [method |-> tool.method, url |-> url, query |-> query, body |-> body,
           credentials |-> credentials]
  BY DEF BuildRequest
<1> HIDE DEF r
<1>4. r.path \in Seq(STRING) /\ r.remaining \subseteq DOMAIN args
  BY <1>2 DEF Stands
<1>5. url \in Seq(STRING)
  BY <1>4, JoinedTyped
<1>6. query \in SUBSET (Params \X Seq(STRING))
  <2>1. \A k \in left : k \in Params /\ Text[args[k]] \in Seq(STRING)
    BY <1>1, <1>4 DEF Texts
  <2>2. AppendQueryParams(args, left) \subseteq Params \X Seq(STRING)
    BY <2>1 DEF AppendQueryParams
  <2>3. QED BY <2>2
<1>7. body \in DOMAIN Decoded
  BY <1>1, <1>4
<1>8. credentials \in BOOLEAN
  BY DEF Credentials
<1> HIDE DEF url, query, body, credentials
<1>9. tool.method # "none"
  BY DEF SupportedMethods, WriteMethods
<1>10. QED BY <1>3, <1>5, <1>6, <1>7, <1>8, <1>9 DEF Requests, NoRequest

\* The path that is meant has all arguments put in their places.
LEMMA MeantPut ==
    ASSUME NEW tool, tool.path \in Seq(STRING), NEW args
    PROVE  MeantPath(tool, args) = Spelled(tool.path, Put(args, DOMAIN args))
<1> DEFINE template == tool.path
<1>1. \A i \in DOMAIN template : template[i] \in STRING
  BY LenProperties
<1>2. [i \in DOMAIN template |->
          IF \E k \in DOMAIN args : template[i] = Placeholder[k]
          THEN Text[args[CHOOSE k \in DOMAIN args : template[i] = Placeholder[k]]]
          ELSE <<template[i]>>]
        = [i \in DOMAIN template |-> Put(args, DOMAIN args)[template[i]]]
  BY <1>1 DEF Put
<1>3. QED BY <1>2 DEF Spelled, MeantPath

\* With plain arguments the request is what is meant, whatever the order; only the
\* query is lost unless the method is GET or DELETE.
LEMMA RequestMeant ==
    ASSUME NEW tool, tool.path \in Seq(STRING), NEW conn, NEW args \in Arguments, Plain(args),
           NEW order \in SetToSeqs(DOMAIN args)
    PROVE  LET request == BuildRequest(tool, conn, args, order)
               meant == Meant(tool, conn, args)
           IN  /\ request.url = meant.url
               /\ request.body = meant.body
               /\ request.query \in {{}, meant.query}
               /\ request.method \in {"GET", "DELETE"} => request.query = meant.query
<1> DEFINE template == tool.path
           path == Spelled(template, Put(args, DOMAIN args))
           others == {k \in DOMAIN args : ~ Uses(template, k)}
           meantPath == MeantPath(tool, args)
           r == ResolvePathParams(template, args, order)
<1>1. Texts(args) /\ IsFiniteSet(DOMAIN args)
  BY SandboxAssumption DEF Texts
<1>2. r = Resolved(template, args, DOMAIN args)
  BY <1>1, ArgumentsInPlace
<1>3. r.path = path /\ r.remaining = others
  <2>1. {k \in DOMAIN args : k \notin DOMAIN args \/ ~ Uses(template, k)} = others
    OBVIOUS
  <2>2. QED BY <1>2, <2>1 DEF Resolved
<1>4. meantPath = path
  BY MeantPut
<1>5. Meant(tool, conn, args)
        = [url |-> Joined(conn.base, meantPath),
           query |-> {<<k, Text[args[k]]>> : k \in others \ {Body}},
           body |-> IF Body \in others THEN args[Body] ELSE NoBody]
  BY DEF Meant
<1>6. BuildRequest(tool, conn, args, order)
        = [method |-> tool.method,
           url |-> Joined(conn.base, r.path),
           query |-> IF tool.method \in {"GET", "DELETE"}
                     THEN AppendQueryParams(args, r.remaining \ {Body}) ELSE {},
           body |-> IF Body \in r.remaining THEN args[Body] ELSE NoBody,
           credentials |-> Credentials(conn.auth)]
  BY DEF BuildRequest
<1> HIDE DEF path, others, meantPath, r
<1>7. QED BY <1>3, <1>4, <1>5, <1>6 DEF AppendQueryParams

------------------------------------------------------------------------------
(* Where a request leads *)

\* All arguments put in their places.
LEMMA AllPut ==
    ASSUME NEW args, Texts(args)
    PROVE  LET m == Put(args, DOMAIN args)
           IN  /\ m \in [STRING -> Seq(STRING)]
               /\ \A k \in DOMAIN args : m[Placeholder[k]] = Text[args[k]]
               /\ \A t \in STRING : (\A k \in DOMAIN args : t # Placeholder[k]) => m[t] = <<t>>
<1> DEFINE K == DOMAIN args
<1>1. K \in SUBSET DOMAIN args
  OBVIOUS
<1> HIDE DEF K
<1>2. /\ Put(args, K) \in [STRING -> Seq(STRING)]
      /\ \A k \in K : Put(args, K)[Placeholder[k]] = Text[args[k]]
      /\ \A t \in STRING : (\A k \in K : t # Placeholder[k]) => Put(args, K)[t] = <<t>>
  BY <1>1, PutTexts
<1>3. QED BY <1>2, Zenon DEF K

\* The tokens of a path that are not placeholders stay.
Fixed == {"/"} \cup DOMAIN ItemHandlers

LEMMA FixedStays ==
    ASSUME NEW args, Texts(args), NEW t \in Fixed, t \in STRING
    PROVE  /\ \A k \in Params : t # Placeholder[k]
           /\ Put(args, DOMAIN args)[t] = <<t>>
<1>1. \A k \in Params : Placeholder[k] \in Range(Placeholder)
  BY ParserAssumption DEF Range
<1>2. \A k \in Params : t # Placeholder[k]
  BY <1>1, SandboxAssumption DEF Fixed
<1>3. \A k \in DOMAIN args : t # Placeholder[k]
  BY <1>2 DEF Texts
<1> DEFINE m == Put(args, DOMAIN args)
<1>4. \A u \in STRING : (\A k \in DOMAIN args : u # Placeholder[k]) => m[u] = <<u>>
  BY AllPut
<1> HIDE DEF m
<1>5. m[t] = <<t>>
  BY <1>3, <1>4
<1>6. QED BY <1>2, <1>5 DEF m

\* The path of a collection has no place for an argument.
LEMMA CollectionPut ==
    ASSUME NEW args, Texts(args), NEW template \in Seq(STRING), Len(template) = 2,
           template[1] \in Fixed, template[2] \in Fixed
    PROVE  /\ Spelled(template, Put(args, DOMAIN args)) = template
           /\ \A k \in Params : ~ Uses(template, k)
<1> DEFINE m == Put(args, DOMAIN args)
<1>1. DOMAIN template = {1, 2} /\ template[1] \in STRING /\ template[2] \in STRING
  <2>1. DOMAIN template = 1..2 /\ \A i \in 1..2 : template[i] \in STRING
    BY LenProperties
  <2>2. QED BY <2>1
<1>2. m \in [STRING -> Seq(STRING)]
  BY AllPut
<1>3. m[template[1]] = <<template[1]>> /\ m[template[2]] = <<template[2]>>
  BY <1>1, FixedStays
<1> HIDE DEF m
<1>4. Leaves(m, template)
  BY <1>1, <1>3 DEF Leaves
<1>5. Spelled(template, m) = template
  BY <1>2, <1>4, SpelledSame
<1>6. ASSUME NEW k \in Params
      PROVE  ~ Uses(template, k)
  <2>1. template[1] # Placeholder[k] /\ template[2] # Placeholder[k]
    BY <1>1, FixedStays
  <2>2. QED BY <1>1, <2>1 DEF Uses, ToSet
<1>7. QED BY <1>5, <1>6 DEF m

\* The path of an item has one: what is put there comes last.
LEMMA ItemPut ==
    ASSUME NEW args, Texts(args), NEW k \in Params, NEW template \in Seq(STRING), Len(template) = 4,
           template[1] \in Fixed, template[2] \in Fixed, template[3] \in Fixed,
           template[4] = Placeholder[k]
    PROVE  /\ Spelled(template, Put(args, DOMAIN args))
                = SubSeq(template, 1, 3) \o Put(args, DOMAIN args)[Placeholder[k]]
           /\ \A j \in Params : Uses(template, j) <=> j = k
<1> DEFINE m == Put(args, DOMAIN args)
           start == SubSeq(template, 1, 3)
           x == Placeholder[k]
<1>1. /\ DOMAIN template = {1, 2, 3, 4}
      /\ template[1] \in STRING /\ template[2] \in STRING /\ template[3] \in STRING
      /\ template[4] \in STRING
  <2>1. DOMAIN template = 1..4 /\ \A i \in 1..4 : template[i] \in STRING
    BY LenProperties
  <2>2. QED BY <2>1
<1>2. m \in [STRING -> Seq(STRING)]
  BY AllPut
<1>3. /\ m[template[1]] = <<template[1]>> /\ m[template[2]] = <<template[2]>>
      /\ m[template[3]] = <<template[3]>>
  BY <1>1, FixedStays
<1>4. template = start \o <<x>>
  <2>1. SubSeq(template, 1, 4) = SubSeq(template, 1, 4 - 1) \o <<template[4]>>
    BY SubSeqRecursiveSecond
  <2>2. SubSeq(template, 1, 4) = template
    BY SubSeqFull
  <2>3. QED BY <2>1, <2>2
<1>5. start \in Seq(STRING) /\ DOMAIN start = {1, 2, 3} /\ \A i \in {1, 2, 3} : start[i] = template[i]
  <2>1. \A i \in 1..3 : template[i] \in STRING
    BY <1>1
  <2>2. start \in Seq(STRING) /\ Len(start) = 3 /\ \A i \in 1..3 : start[i] = template[i]
    BY <2>1, SubSeqProperties
  <2> HIDE DEF start
  <2>3. DOMAIN start = 1..3
    BY <2>2, LenProperties
  <2>4. QED BY <2>2, <2>3
<1> HIDE DEF m, start
<1>6. Leaves(m, start)
  BY <1>3, <1>5 DEF Leaves
<1>7. Spelled(start, m) = start
  BY <1>2, <1>5, <1>6, SpelledSame
<1>8. x \in STRING /\ <<x>> \in Seq(STRING)
  BY <1>1, OneToken
<1>9. Spelled(<<x>>, m) = m[x]
  BY <1>2, <1>8, TokenSpelled
<1>10. Spelled(start \o <<x>>, m) = Spelled(start, m) \o Spelled(<<x>>, m)
  BY <1>2, <1>5, <1>8, SpelledConcat
<1>11. Spelled(template, m) = start \o m[x]
  BY <1>4, <1>7, <1>9, <1>10
<1>12. ASSUME NEW j \in Params
       PROVE  Uses(template, j) <=> j = k
  <2>1. template[1] # Placeholder[j] /\ template[2] # Placeholder[j] /\ template[3] # Placeholder[j]
    BY <1>1, FixedStays
  <2>2. template[4] = Placeholder[j] <=> j = k
    BY ParserAssumption
  <2>3. QED BY <1>1, <2>1, <2>2 DEF Uses, ToSet
<1>13. QED BY <1>11, <1>12 DEF m, start

LEMMA SlashTyped == <<"/">> \in Seq(STRING)
<1> DEFINE slash == "/"
<1>1. slash \in STRING
  BY ParserAssumption
<1> HIDE DEF slash
<1>2. <<slash>> \in Seq(STRING)
  BY <1>1, OneToken
<1>3. QED BY <1>2 DEF slash

\* A URL at the root of a host is the host and the path.
LEMMA JoinedAtRoot ==
    ASSUME NEW base \in Seq(STRING), AtRoot(base),
           NEW path \in Seq(STRING), Len(path) >= 2, path[1] = "/", path[2] # "/"
    PROVE  Tail(Joined(base, path)) = path
<1> DEFINE I == {i \in 1..Len(base) : ~ (base[i] = "/")}
           J == {i \in 1..Len(path) : ~ (path[i] = "/")}
           kept == IF I # {} THEN Max(I) ELSE 0
           first == IF J # {} THEN Min(J) ELSE 0
           rest == IF first = 0 THEN <<>> ELSE SubSeq(path, first, Len(path))
<1>1. Joined(base, path) = SubSeq(base, 1, kept) \o <<"/">> \o rest
  BY Zenon DEF Joined, SelectInSeq, SelectLastInSeq
<1>2. Len(base) \in Nat /\ Len(path) \in Nat /\ DOMAIN base = 1..Len(base)
  BY LenProperties
<1>3. Len(base) >= 1
  BY <1>2, EmptySeq DEF AtRoot
<1>4. I = {1}
  BY <1>2, <1>3 DEF AtRoot
<1>5. Max(I) \in I
  BY <1>2, <1>4, MaxPicks
<1>6. 2 \in J /\ 1 \notin J /\ J \in SUBSET (1..Len(path))
  BY <1>2
<1>7. Min(J) \in J /\ Min(J) <= 2
  BY <1>2, <1>6, MinPicks
<1> HIDE DEF I, J
<1>9. kept = 1 /\ first = 2
  <2> DEFINE m == Max(I)
             n == Min(J)
  <2>1. m = 1 /\ n = 2
    <3>1. n \in J /\ n <= 2
      BY <1>7
    <3> HIDE DEF n
    <3>2. n \in 1..Len(path) /\ n # 1
      BY <1>6, <3>1
    <3>3. QED BY <1>4, <1>5, <1>2, <3>1, <3>2
  <2> HIDE DEF m, n
  <2>2. kept = IF I # {} THEN m ELSE 0
    BY DEF m
  <2>3. first = IF J # {} THEN n ELSE 0
    BY DEF n
  <2>4. QED BY <1>4, <1>6, <2>1, <2>2, <2>3
<1> HIDE DEF kept, first
<1>10. rest = SubSeq(path, 2, Len(path))
  BY <1>9
<1> DEFINE start == SubSeq(base, 1, 1)
<1> HIDE DEF rest
<1>11. start \in Seq(STRING) /\ Len(start) = 1
  BY <1>2, <1>3, SubSeqProperties
<1>12. rest \in Seq(STRING) /\ Len(rest) = Len(path) - 1 /\ \A i \in 1..Len(rest) : rest[i] = path[i + 1]
  BY <1>2, <1>10, SubSeqProperties
<1>13. <<"/">> \in Seq(STRING)
  BY SlashTyped
<1>14. path = <<"/">> \o rest
  <2>1. SubSeq(path, 1, Len(path)) = <<path[1]>> \o SubSeq(path, 1 + 1, Len(path))
    BY <1>2, SubSeqRecursiveFirst
  <2>2. SubSeq(path, 1, Len(path)) = path
    BY SubSeqFull
  <2>3. QED BY <1>10, <2>1, <2>2
<1>15. Joined(base, path) = (start \o <<"/">>) \o rest
  BY <1>1, <1>9 DEF start
<1>16. Joined(base, path) = start \o path
  BY <1>11, <1>12, <1>13, <1>14, <1>15, ConcatAssociative
<1> DEFINE url == start \o path
<1>17. /\ url \in Seq(STRING) /\ Len(url) = Len(path) + 1
       /\ \A i \in 1..Len(path) : url[i + 1] = path[i]
  BY <1>2, <1>11, ConcatProperties
<1> HIDE DEF url
<1>18. url # <<>>
  BY <1>2, <1>17, EmptySeq
<1>19. /\ Tail(url) \in Seq(STRING) /\ Len(Tail(url)) = Len(path)
       /\ \A i \in 1..Len(path) : Tail(url)[i] = path[i]
  BY <1>2, <1>17, <1>18, HeadTailProperties
<1>20. Tail(url) = path
  BY <1>19, SeqEqual
<1>21. QED BY <1>16, <1>20 DEF url

\* Routes of a collection and of its items.
LEMMA RouteOfCollection ==
    ASSUME NEW word \in DOMAIN ItemHandlers, NEW method \in DOMAIN CollectionHandlers[word],
           Cleaned(<<"/", word>>) = <<"/", word>>
    PROVE  Route(method, <<"/", word>>) = CollectionHandlers[word][method]
<1>1. word \in {"products", "orders"} /\ word # "health"
  BY DEF ItemHandlers
<1>2. QED BY <1>1 DEF Route

LEMMA RouteOfItem ==
    ASSUME NEW word \in DOMAIN ItemHandlers, NEW method \in DOMAIN ItemHandlers[word],
           NEW path \in Seq(STRING), Len(path) >= 3, path[2] = word, path[3] = "/",
           Cleaned(path) = path
    PROVE  Route(method, path) = IF Len(path) = 3 THEN <<"400">> ELSE ItemHandlers[word][method]
<1>1. path # <<"/", "health">>
  <2> SUFFICES ASSUME path = <<"/", "health">> PROVE FALSE
    OBVIOUS
  <2>1. Len(path) = 2
    OBVIOUS
  <2>2. QED BY <2>1
<1>2. Len(path) \in Nat /\ Len(path) >= 3
  BY LenProperties
<1>3. ~(Len(path) < 2) /\ Len(path) # 2
  <2> DEFINE n == Len(path)
  <2>1. n \in Nat /\ n >= 3
    BY <1>2
  <2> HIDE DEF n
  <2>2. ~(n < 2) /\ n # 2
    BY <2>1
  <2>3. QED BY <2>2 DEF n
<1>4. ~(Len(path) < 2 \/ path[2] \notin DOMAIN ItemHandlers) /\ ~(Len(path) > 2 /\ path[3] # "/")
  BY <1>3, Zenon
<1>5. QED BY <1>1, <1>3, <1>4, Zenon DEF Route

\* What is put for a placeholder is its argument, or the placeholder.
LEMMA SomethingPut ==
    ASSUME NEW args, Texts(args), NEW k \in Params
    PROVE  LET text == Put(args, DOMAIN args)[Placeholder[k]]
           IN  /\ text \in Seq(STRING) /\ Len(text) \in Nat
               /\ k \in DOMAIN args => text = Text[args[k]]
               /\ Len(text) = 0 <=> (k \in DOMAIN args /\ Text[args[k]] = <<>>)
<1> DEFINE x == Placeholder[k]
           m == Put(args, DOMAIN args)
<1>1. x \in STRING
  BY ParserAssumption
<1>2. /\ m \in [STRING -> Seq(STRING)]
      /\ \A j \in DOMAIN args : m[Placeholder[j]] = Text[args[j]]
      /\ \A u \in STRING : (\A j \in DOMAIN args : u # Placeholder[j]) => m[u] = <<u>>
  BY AllPut
<1>3. \A j \in DOMAIN args : j # k => Placeholder[k] # Placeholder[j]
  BY ParserAssumption DEF Texts
<1>4. m[x] = <<>> <=> (k \in DOMAIN args /\ Text[args[k]] = <<>>)
  <2> HIDE DEF m
  <2>1. CASE k \in DOMAIN args
    BY <1>2, <2>1
  <2>2. CASE k \notin DOMAIN args
    <3>1. \A j \in DOMAIN args : x # Placeholder[j]
      BY <1>3, <2>2
    <3>2. m[x] = <<x>>
      BY <1>1, <1>2, <3>1
    <3> HIDE DEF x
    <3>3. <<x>> # <<>>
      OBVIOUS
    <3>4. QED BY <2>2, <3>2, <3>3
  <2>3. QED BY <2>1, <2>2
<1> HIDE DEF m, x
<1>5. m[x] \in Seq(STRING)
  BY <1>1, <1>2
<1>6. Len(m[x]) \in Nat /\ (Len(m[x]) = 0 <=> m[x] = <<>>)
  BY <1>5, EmptySeq
<1>7. k \in DOMAIN args => m[x] = Text[args[k]]
  BY <1>2 DEF x
<1>8. QED BY <1>4, <1>5, <1>6, <1>7 DEF m, x

EmptyId(template, args) == \E k \in DOMAIN args : Uses(template, k) /\ Text[args[k]] = <<>>

\* The path of an operation mock-api serves leads there, with any arguments in it that
\* leave it clean; with an empty one it is refused.
LEMMA TruthfulPath ==
    ASSUME NEW op, op.path \in Seq(STRING), Truthful(op), NEW args, Texts(args),
           LET path == Spelled(op.path, Put(args, DOMAIN args)) IN Cleaned(path) = path
    PROVE  LET path == Spelled(op.path, Put(args, DOMAIN args))
           IN  /\ path \in Seq(STRING) /\ Len(path) >= 2 /\ path[1] = "/" /\ path[2] # "/"
               /\ Route(op.method, path) = IF EmptyId(op.path, args) THEN <<"400">>
                                           ELSE op.operationId
               /\ \A k \in DOMAIN args : Uses(op.path, k) => Id(path) = Text[args[k]]
               /\ ~ Uses(op.path, Body)
<1> DEFINE template == op.path
           path == Spelled(template, Put(args, DOMAIN args))
<1>1. PICK word \in DOMAIN ItemHandlers :
        \/ /\ template = <<"/", word>>
           /\ op.method \in DOMAIN CollectionHandlers[word]
           /\ op.operationId = CollectionHandlers[word][op.method]
        \/ /\ \E k \in Params \ {Body} : template = <<"/", word, "/", Placeholder[k]>>
           /\ op.method \in DOMAIN ItemHandlers[word]
           /\ op.operationId = ItemHandlers[word][op.method]
  BY DEF Truthful
<1>2. word \in Fixed /\ "/" \in Fixed /\ word # "/"
  BY DEF Fixed, ItemHandlers
<1>3. Body \in Params /\ DOMAIN args \subseteq Params
  BY ParserAssumption DEF Texts
<1>4. CASE /\ template = <<"/", word>>
           /\ op.method \in DOMAIN CollectionHandlers[word]
           /\ op.operationId = CollectionHandlers[word][op.method]
  <2>1. Len(template) = 2 /\ template[1] = "/" /\ template[2] = word
    BY <1>4
  <2>2. path = template /\ \A k \in Params : ~ Uses(template, k)
    BY <1>2, <2>1, CollectionPut
  <2>3. Cleaned(<<"/", word>>) = <<"/", word>>
    BY <1>4, <2>2
  <2>4. Route(op.method, template) = op.operationId
    BY <1>4, <2>3, RouteOfCollection
  <2> HIDE DEF path, template
  <2>5. ~ EmptyId(template, args)
    BY <1>3, <2>2 DEF EmptyId
  <2>6. QED BY <1>2, <1>3, <2>1, <2>2, <2>4, <2>5 DEF path, template
<1>5. ASSUME NEW k \in Params \ {Body}, template = <<"/", word, "/", Placeholder[k]>>,
             op.method \in DOMAIN ItemHandlers[word],
             op.operationId = ItemHandlers[word][op.method]
      PROVE  /\ path \in Seq(STRING) /\ Len(path) >= 2 /\ path[1] = "/" /\ path[2] # "/"
             /\ Route(op.method, path) = IF EmptyId(template, args) THEN <<"400">>
                                         ELSE op.operationId
             /\ \A j \in DOMAIN args : Uses(template, j) => Id(path) = Text[args[j]]
             /\ ~ Uses(template, Body)
  <2> DEFINE text == Put(args, DOMAIN args)[Placeholder[k]]
             start == SubSeq(template, 1, 3)
  <2>1. /\ Len(template) = 4 /\ template[1] = "/" /\ template[2] = word /\ template[3] = "/"
        /\ template[4] = Placeholder[k]
    BY <1>5
  <2>2. path = start \o text /\ \A j \in Params : Uses(template, j) <=> j = k
    BY <1>2, <2>1, ItemPut
  <2>3. /\ text \in Seq(STRING) /\ Len(text) \in Nat
        /\ k \in DOMAIN args => text = Text[args[k]]
        /\ Len(text) = 0 <=> EmptyId(template, args)
    <3>1. EmptyId(template, args) <=> (k \in DOMAIN args /\ Text[args[k]] = <<>>)
      BY <1>3, <2>2 DEF EmptyId
    <3>2. QED BY <3>1, SomethingPut
  <2>4. start \in Seq(STRING) /\ Len(start) = 3 /\ start[1] = "/" /\ start[2] = word /\ start[3] = "/"
    <3>1. \A i \in 1..3 : template[i] \in STRING
      BY <2>1, LenProperties
    <3> HIDE DEF template
    <3>2. start \in Seq(STRING) /\ Len(start) = 3 /\ \A i \in 1..3 : start[i] = template[i]
      BY <3>1, SubSeqProperties
    <3> HIDE DEF start
    <3>3. QED BY <2>1, <3>2
  <2> HIDE DEF text, start, path, template
  <2>5. /\ path \in Seq(STRING) /\ Len(path) = 3 + Len(text)
        /\ \A i \in 1..3 + Len(text) : path[i] = IF i <= 3 THEN start[i] ELSE text[i - 3]
    <3>1. /\ start \o text \in Seq(STRING) /\ Len(start \o text) = Len(start) + Len(text)
          /\ \A i \in 1..Len(start) + Len(text) :
                (start \o text)[i] = IF i <= Len(start) THEN start[i] ELSE text[i - Len(start)]
      BY <2>3, <2>4, ConcatProperties
    <3>2. Len(start) = 3 /\ path = start \o text
      BY <2>2, <2>4
    <3>3. QED BY <3>1, <3>2
  <2>6. /\ Len(path) >= 3 /\ Len(path) \in Nat /\ path[1] = "/" /\ path[2] = word /\ path[3] = "/"
        /\ Len(path) = 3 <=> Len(text) = 0
    BY <2>3, <2>4, <2>5
  <2>7. Route(op.method, path) = IF EmptyId(template, args) THEN <<"400">> ELSE op.operationId
    <3>1. Cleaned(path) = path
      BY DEF path, template
    <3>2. QED BY <1>5, <2>3, <2>5, <2>6, <3>1, RouteOfItem
  <2>8. Id(path) = text
    <3>1. \A i \in 4..Len(path) : path[i] \in STRING
      BY <2>5, <2>6, LenProperties
    <3>2. /\ SubSeq(path, 4, Len(path)) \in Seq(STRING)
          /\ Len(SubSeq(path, 4, Len(path))) = Len(path) - 3
          /\ \A i \in 1..Len(path) - 3 : SubSeq(path, 4, Len(path))[i] = path[4 + i - 1]
      <4> DEFINE n == Len(path)
      <4>1. n \in Int /\ n >= 3 /\ 4 \in Int
        BY <2>6
      <4> HIDE DEF n
      <4>2. /\ SubSeq(path, 4, n) \in Seq(STRING)
            /\ Len(SubSeq(path, 4, n)) = IF 4 <= n THEN n - 4 + 1 ELSE 0
            /\ \A i \in 1..n - 4 + 1 : SubSeq(path, 4, n)[i] = path[4 + i - 1]
        BY <3>1, <4>1, SubSeqProperties DEF n
      <4>3. (IF 4 <= n THEN n - 4 + 1 ELSE 0) = n - 3 /\ n - 4 + 1 = n - 3
        BY <4>1
      <4>4. QED BY <4>2, <4>3 DEF n
    <3> DEFINE id == SubSeq(path, 4, Len(path))
    <3> HIDE DEF id
    <3>3. id \in Seq(STRING) /\ Len(id) = Len(text) /\ \A i \in 1..Len(id) : id[i] = text[i]
      BY <2>3, <2>5, <2>6, <3>2 DEF id
    <3>4. id = text
      BY <2>3, <3>3, SeqEqual
    <3>5. QED BY <3>4 DEF Id, id
  <2>9. \A j \in DOMAIN args : Uses(template, j) => Id(path) = Text[args[j]]
    BY <1>3, <2>2, <2>3, <2>8
  <2>10. ~ Uses(template, Body)
    BY <1>3, <2>2
  <2>11. Len(path) >= 2 /\ path[2] # "/"
    BY <1>2, <2>6
  <2>12. QED BY <2>5, <2>6, <2>7, <2>9, <2>10, <2>11
<1> HIDE DEF path, template
<1>6. QED BY <1>1, <1>4, <1>5 DEF path, template

\* With plain arguments a request goes where the template leads with all of them put.
LEMMA RequestPut ==
    ASSUME NEW tool, tool.path \in Seq(STRING), NEW conn, NEW args \in Arguments, Plain(args),
           NEW order \in SetToSeqs(DOMAIN args)
    PROVE  LET request == BuildRequest(tool, conn, args, order)
           IN  /\ request.method = tool.method
               /\ request.url = Joined(conn.base, Spelled(tool.path, Put(args, DOMAIN args)))
               /\ request.body = IF Body \in DOMAIN args /\ ~ Uses(tool.path, Body)
                                 THEN args[Body] ELSE NoBody
<1> DEFINE template == tool.path
           path == Spelled(template, Put(args, DOMAIN args))
           r == ResolvePathParams(template, args, order)
<1>1. Texts(args) /\ IsFiniteSet(DOMAIN args)
  BY SandboxAssumption DEF Texts
<1>2. r = Resolved(template, args, DOMAIN args)
  BY <1>1, ArgumentsInPlace
<1>3. r.path = path
  BY <1>2 DEF Resolved
<1>4. Body \in r.remaining <=> Body \in DOMAIN args /\ ~ Uses(template, Body)
  BY <1>2 DEF Resolved
<1> DEFINE url == Joined(conn.base, r.path)
           query == IF tool.method \in {"GET", "DELETE"}
                    THEN AppendQueryParams(args, r.remaining \ {Body}) ELSE {}
           body == IF Body \in r.remaining THEN args[Body] ELSE NoBody
<1>5. BuildRequest(tool, conn, args, order)
        = [method |-> tool.method, url |-> url, query |-> query, body |-> body,
           credentials |-> Credentials(conn.auth)]
  BY DEF BuildRequest
<1>6. url = Joined(conn.base, path)
  BY <1>3
<1>7. body = IF Body \in DOMAIN args /\ ~ Uses(template, Body) THEN args[Body] ELSE NoBody
  BY <1>4
<1> HIDE DEF url, query, body, path, r, template
<1>8. QED BY <1>5, <1>6, <1>7 DEF path, template

------------------------------------------------------------------------------
(* The invariant *)

CallRecords ==
    [stage : {"idle", "refused", "sent", "answered", "failed"}, tool : Nat,
     args : Arguments \cup {<<>>}, confirmed : BOOLEAN, request : Requests \cup {NoRequest},
     redirected : BOOLEAN, status : Statuses]

Typed ==
    /\ call \in [Calls -> CallRecords]
    /\ wire \subseteq Calls
    /\ answer \in [Calls -> Statuses]
    /\ DOMAIN served = Calls
    /\ effects \in [Calls -> Nat]

\* What is registered could be parsed.
DocumentSound ==
    /\ document \in DOMAIN Documents
    /\ registration \in {"none", "done", "refused"}
    /\ registration = "done" => ParseStatus(Documents[document]) = 200

\* A request that was sent is the one RunTool built, with the confirmation it needs.
AsBuilt(c) ==
    /\ call[c].args \in Arguments
    /\ ~ NeedsConfirmation(ToolOf(c), call[c].confirmed)
    /\ \E order \in SetToSeqs(DOMAIN call[c].args) :
          call[c].request = BuildRequest(ToolOf(c), Connection, call[c].args, order)

CallSound(c) ==
    /\ call[c].stage = "idle" => call[c].tool = 0
    /\ call[c].stage # "idle" => registration = "done" /\ call[c].tool \in DOMAIN Catalog
    /\ call[c].stage \in {"idle", "refused"} =>
          /\ call[c].request = NoRequest /\ ~ call[c].redirected
          /\ c \notin wire /\ answer[c] = 0 /\ served[c] = {} /\ effects[c] = 0
    /\ call[c].stage \notin {"idle", "refused"} => AsBuilt(c)

\* What serves a request.
ServerOf(request) ==
    [handler |-> Route(request.method, PathOf(request)), id |-> Id(PathOf(request))]

Clean(request) == Cleaned(PathOf(request)) = PathOf(request)

\* A request on its way has had no effect, one that was answered has had one if, and
\* only if, it was answered with a success.  Those that are not clean are redirected,
\* and have none after that.
AnswerSound(c) ==
    /\ c \in wire => answer[c] = 0 /\ effects[c] = 0
    /\ answer[c] \in {0, 301} \/ call[c].redirected => effects[c] = 0
    /\ effects[c] <= 1
    /\ effects[c] > 0 => call[c].request.method \in WriteMethods
    /\ answer[c] = 301 \/ call[c].redirected => ~ Clean(call[c].request)
    /\ Clean(call[c].request) => \A s \in served[c] : s = ServerOf(call[c].request)
    /\ (/\ answer[c] # 0 /\ call[c].request.method \in WriteMethods
        /\ PathOf(call[c].request) # <<"/", "health">> /\ ~ call[c].redirected)
          => (answer[c] \in {200, 201} <=> effects[c] = 1)
    /\ call[c].stage = "answered" => call[c].status = answer[c] /\ answer[c] # 0

SandboxInv ==
    /\ MockInv /\ DocumentSound /\ Typed
    /\ \A c \in Calls : CallSound(c) /\ AnswerSound(c)

\* What a registered tool is, and the base URL it is called at.
LEMMA CatalogSound ==
    ASSUME DocumentSound
    PROVE  /\ Len(Catalog) \in Nat /\ DOMAIN Catalog = 1..Len(Catalog)
           /\ registration = "done" => Connection.base \in Seq(STRING)
           /\ \A i \in DOMAIN Catalog :
                 /\ registration = "done"
                 /\ Catalog[i].path \in Seq(STRING)
                 /\ Catalog[i].method \in SupportedMethods
                 /\ Catalog[i].op \in Operation
                 /\ Catalog[i].op.method = Catalog[i].method
                 /\ Catalog[i].op.path = Catalog[i].path
                 /\ Catalog[i].destructive = IsDestructive(Catalog[i].op)
                 /\ ToSet(Catalog[i].name) \cap (DOMAIN Lowercase \cup Punctuation \cup Range(Placeholder)) = {}
<1>1. CASE registration = "done"
  <2>1. Catalog = Parsed[document] /\ document \in DOMAIN Documents
    BY <1>1 DEF Catalog, DocumentSound
  <2>2. Connection.base = InferBaseUrl(Documents[document])
    BY DEF Connection
  <2>3. Connection.base \in Seq(STRING)
    BY <1>1, <2>1, <2>2, BaseTyped DEF DocumentSound
  <2>4. QED BY <1>1, <2>1, <2>3, ParsedSound
<1>2. CASE registration # "done"
  <2>1. Catalog = <<>>
    BY <1>2 DEF Catalog
  <2>2. Len(<<>>) = 0 /\ DOMAIN <<>> = {} /\ 1..0 = {}
    OBVIOUS
  <2>3. QED BY <1>2, <2>1, <2>2
<1>3. QED BY <1>1, <1>2

\* What was built of a registered tool is a request, with its method.
LEMMA BuiltTyped ==
    ASSUME DocumentSound, NEW i \in DOMAIN Catalog, NEW args \in Arguments,
           NEW order \in SetToSeqs(DOMAIN args)
    PROVE  /\ BuildRequest(Catalog[i], Connection, args, order) \in Requests
           /\ BuildRequest(Catalog[i], Connection, args, order).method = Catalog[i].method
           /\ BuildRequest(Catalog[i], Connection, args, order) # NoRequest
<1>1. /\ Catalog[i].path \in Seq(STRING) /\ Catalog[i].method \in SupportedMethods
      /\ Connection.base \in Seq(STRING)
  BY CatalogSound
<1>2. QED BY <1>1, RequestTyped

LEMMA SentTyped ==
    ASSUME SandboxInv, NEW c \in Calls, call[c].stage \notin {"idle", "refused"}
    PROVE  /\ call[c].request \in Requests /\ call[c].request # NoRequest
           /\ call[c].request.method = ToolOf(c).method
           /\ call[c].tool \in DOMAIN Catalog
<1>1. call[c].tool \in DOMAIN Catalog /\ AsBuilt(c) /\ DocumentSound
  BY DEF SandboxInv, CallSound
<1>2. PICK order \in SetToSeqs(DOMAIN call[c].args) :
          call[c].request = BuildRequest(ToolOf(c), Connection, call[c].args, order)
  BY <1>1 DEF AsBuilt
<1>3. QED BY <1>1, <1>2, BuiltTyped DEF AsBuilt, ToolOf

LEMMA InitSound ==
    ASSUME SandboxInit
    PROVE  SandboxInv
<1> USE DEF SandboxInit
<1>1. MockInv
  BY MockInitInv
<1>2. DocumentSound
  BY DEF DocumentSound
<1>3. \A c \in Calls : call[c] = IdleCall /\ c \notin wire /\ answer[c] = 0
                        /\ served[c] = {} /\ effects[c] = 0
  OBVIOUS
<1>4. IdleCall \in CallRecords
  BY DEF IdleCall, CallRecords, Statuses
<1>5. Typed
  BY <1>4 DEF Typed, Statuses
<1>6. ASSUME NEW c \in Calls
      PROVE  CallSound(c) /\ AnswerSound(c)
  <2>1. /\ call[c].stage = "idle" /\ call[c].tool = 0 /\ call[c].request = NoRequest
        /\ ~ call[c].redirected
    BY <1>3 DEF IdleCall
  <2>2. CallSound(c)
    BY <1>3, <2>1 DEF CallSound
  <2>3. AnswerSound(c)
    BY <1>3, <2>1 DEF AnswerSound
  <2>4. QED BY <2>2, <2>3
<1>7. QED BY <1>1, <1>2, <1>5, <1>6 DEF SandboxInv

------------------------------------------------------------------------------
(* The steps *)

RegistrationKept == UNCHANGED <<document, registration>>

LEMMA CatalogKept ==
    ASSUME RegistrationKept
    PROVE  Catalog' = Catalog /\ Connection' = Connection /\ (DocumentSound => DocumentSound')
BY DEF RegistrationKept, Catalog, Connection, DocumentSound

\* A call nothing happens to stays sound.
Untouched(c) ==
    /\ call'[c] = call[c] /\ (c \in wire' <=> c \in wire)
    /\ answer'[c] = answer[c] /\ served'[c] = served[c] /\ effects'[c] = effects[c]

LEMMA UntouchedSound ==
    ASSUME NEW c, CallSound(c), AnswerSound(c), RegistrationKept, Untouched(c)
    PROVE  CallSound(c)' /\ AnswerSound(c)'
<1>1. Catalog' = Catalog /\ Connection' = Connection /\ registration' = registration
  BY CatalogKept DEF RegistrationKept
<1>2. CallSound(c)'
  BY <1>1 DEF CallSound, AsBuilt, ToolOf, Untouched
<1>3. AnswerSound(c)'
  BY <1>1 DEF AnswerSound, Untouched
<1>4. QED BY <1>2, <1>3

\* A step of go-engine: one call, and perhaps its request, changes.
LEMMA OneCall ==
    ASSUME SandboxInv, NEW c \in Calls, NEW record \in CallRecords,
           call' = [call EXCEPT ![c] = record], wire' \in {wire, wire \cup {c}},
           RegistrationKept, UNCHANGED <<answer, served, effects, mockVars>>,
           CallSound(c)', AnswerSound(c)'
    PROVE  SandboxInv'
<1>1. MockInv'
  BY MockStepInv DEF SandboxInv, MockStep
<1>2. DocumentSound'
  BY CatalogKept DEF SandboxInv
<1>3. Typed'
  BY DEF SandboxInv, Typed
<1>4. ASSUME NEW d \in Calls
      PROVE  CallSound(d)' /\ AnswerSound(d)'
  <2>1. CASE d = c
    BY <2>1
  <2>2. CASE d # c
    <3>1. Untouched(d)
      BY <2>2 DEF Untouched, SandboxInv, Typed
    <3>2. QED BY <3>1, UntouchedSound DEF SandboxInv
  <2>3. QED BY <2>1, <2>2
<1>5. QED BY <1>1, <1>2, <1>3, <1>4 DEF SandboxInv

LEMMA RegisterSound ==
    ASSUME SandboxInv, RegisterConnection
    PROVE  SandboxInv'
<1> USE DEF RegisterConnection
<1>1. MockInv'
  BY MockStepInv DEF SandboxInv, MockStep
<1>2. DocumentSound'
  BY DEF SandboxInv, DocumentSound
<1>3. Typed'
  BY DEF SandboxInv, Typed, callVars
<1>4. ASSUME NEW c \in Calls
      PROVE  CallSound(c)' /\ AnswerSound(c)'
  <2>1. CallSound(c) /\ AnswerSound(c)
    BY DEF SandboxInv
  <2>2. call[c].stage = "idle"
    BY <2>1 DEF CallSound
  <2>3. CallSound(c)'
    BY <2>1, <2>2 DEF CallSound, callVars
  <2>4. AnswerSound(c)'
    BY <2>1 DEF AnswerSound, callVars
  <2>5. QED BY <2>3, <2>4
<1>5. QED BY <1>1, <1>2, <1>3, <1>4 DEF SandboxInv

LEMMA RefusedSound ==
    ASSUME SandboxInv, NEW c \in Calls, NEW i \in DOMAIN Catalog, NEW args \in Arguments,
           NEW isConfirmed \in BOOLEAN, RunToolRefused(c, i, args, isConfirmed)
    PROVE  SandboxInv'
<1> DEFINE record == Called("refused", i, args, isConfirmed, NoRequest)
<1>1. /\ call[c].stage = "idle" /\ call' = [call EXCEPT ![c] = record] /\ wire' = wire
      /\ RegistrationKept /\ UNCHANGED <<answer, served, effects, mockVars>>
  BY DEF RunToolRefused, Starts, RegistrationKept
<1>2. DocumentSound /\ CallSound(c) /\ AnswerSound(c) /\ Typed
  BY DEF SandboxInv
<1>3. i \in Nat /\ registration = "done"
  BY <1>2, CatalogSound
<1>4. /\ record.stage = "refused" /\ record.tool = i /\ record.request = NoRequest
      /\ ~ record.redirected /\ record \in CallRecords
  BY <1>3 DEF Called, CallRecords, Statuses
<1> HIDE DEF record
<1>5. call'[c] = record
  BY <1>1, <1>2 DEF Typed
<1>6. Catalog' = Catalog /\ registration' = registration
  BY <1>1, CatalogKept DEF RegistrationKept
<1>7. CallSound(c)'
  BY <1>1, <1>2, <1>3, <1>4, <1>5, <1>6 DEF CallSound
<1>8. AnswerSound(c)'
  BY <1>1, <1>2, <1>4, <1>5 DEF AnswerSound, CallSound
<1>9. QED BY <1>1, <1>4, <1>7, <1>8, OneCall

LEMMA RunToolSound ==
    ASSUME SandboxInv, NEW c \in Calls, NEW i \in DOMAIN Catalog, NEW args \in Arguments,
           NEW isConfirmed \in BOOLEAN, RunTool(c, i, args, isConfirmed)
    PROVE  SandboxInv'
<1>1. PICK order \in SetToSeqs(DOMAIN args) :
          call' = [call EXCEPT ![c] = Called("sent", i, args, isConfirmed,
                      BuildRequest(Catalog[i], Connection, args, order))]
  BY DEF RunTool
<1> DEFINE request == BuildRequest(Catalog[i], Connection, args, order)
           record == Called("sent", i, args, isConfirmed, request)
<1>2. /\ call[c].stage = "idle" /\ call' = [call EXCEPT ![c] = record] /\ wire' = wire \cup {c}
      /\ RegistrationKept /\ UNCHANGED <<answer, served, effects, mockVars>>
      /\ ~ NeedsConfirmation(Catalog[i], isConfirmed)
  BY <1>1 DEF RunTool, Starts, RegistrationKept
<1>3. DocumentSound /\ CallSound(c) /\ AnswerSound(c) /\ Typed
  BY DEF SandboxInv
<1>4. i \in Nat /\ registration = "done"
  BY <1>3, CatalogSound
<1>5. request \in Requests
  BY <1>3, BuiltTyped
<1>6. /\ record.stage = "sent" /\ record.tool = i /\ record.request = request
      /\ record.args = args /\ record.confirmed = isConfirmed
      /\ ~ record.redirected /\ record \in CallRecords
  <2> HIDE DEF request
  <2>1. QED BY <1>4, <1>5 DEF Called, CallRecords, Statuses
<1> HIDE DEF record
<1>7. call'[c] = record
  BY <1>2, <1>3 DEF Typed
<1>8. Catalog' = Catalog /\ Connection' = Connection /\ registration' = registration
  BY <1>2, CatalogKept DEF RegistrationKept
<1>9. AsBuilt(c)'
  <2>1. ToolOf(c)' = Catalog[i]
    BY <1>6, <1>7, <1>8 DEF ToolOf
  <2>2. request = BuildRequest(ToolOf(c)', Connection', args, order)
    BY <1>8, <2>1
  <2> HIDE DEF request
  <2>3. \E o \in SetToSeqs(DOMAIN args) : request = BuildRequest(ToolOf(c)', Connection', args, o)
    BY <2>2
  <2>4. ~ NeedsConfirmation(ToolOf(c)', isConfirmed)
    BY <1>2, <2>1
  <2>5. QED BY <1>6, <1>7, <2>3, <2>4 DEF AsBuilt
<1>10. CallSound(c)'
  BY <1>4, <1>6, <1>7, <1>8, <1>9 DEF CallSound
<1>11. AnswerSound(c)'
  BY <1>2, <1>3, <1>6, <1>7 DEF AnswerSound, CallSound
<1>12. QED BY <1>2, <1>6, <1>10, <1>11, OneCall

LEMMA ReadSound ==
    ASSUME SandboxInv, NEW c \in Calls, ReadAnswer(c)
    PROVE  SandboxInv'
<1> DEFINE record == [call[c] EXCEPT !.stage = "answered", !.status = answer[c]]
<1>1. /\ call[c].stage = "sent" /\ answer[c] # 0 /\ call' = [call EXCEPT ![c] = record]
      /\ wire' = wire /\ RegistrationKept /\ UNCHANGED <<answer, served, effects, mockVars>>
  BY DEF ReadAnswer, RegistrationKept
<1>2. CallSound(c) /\ AnswerSound(c) /\ Typed
  BY DEF SandboxInv
<1>3. /\ record.stage = "answered" /\ record.status = answer[c]
      /\ record.tool = call[c].tool /\ record.request = call[c].request
      /\ record.redirected = call[c].redirected
      /\ record.args = call[c].args /\ record.confirmed = call[c].confirmed
      /\ record \in CallRecords
  BY <1>2 DEF Typed, CallRecords
<1> HIDE DEF record
<1>4. call'[c] = record
  BY <1>1, <1>2 DEF Typed
<1>5. Catalog' = Catalog /\ Connection' = Connection /\ registration' = registration
  BY <1>1, CatalogKept DEF RegistrationKept
<1>6. CallSound(c)'
  BY <1>1, <1>2, <1>3, <1>4, <1>5 DEF CallSound, AsBuilt, ToolOf
<1>7. AnswerSound(c)'
  BY <1>1, <1>2, <1>3, <1>4 DEF AnswerSound
<1>8. QED BY <1>1, <1>3, <1>6, <1>7, OneCall

LEMMA TimeoutSound ==
    ASSUME SandboxInv, NEW c \in Calls, TimesOut(c)
    PROVE  SandboxInv'
<1> DEFINE record == [call[c] EXCEPT !.stage = "failed"]
<1>1. /\ call[c].stage = "sent" /\ call' = [call EXCEPT ![c] = record]
      /\ wire' = wire /\ RegistrationKept /\ UNCHANGED <<answer, served, effects, mockVars>>
  BY DEF TimesOut, RegistrationKept
<1>2. CallSound(c) /\ AnswerSound(c) /\ Typed
  BY DEF SandboxInv
<1>3. /\ record.stage = "failed"
      /\ record.tool = call[c].tool /\ record.request = call[c].request
      /\ record.redirected = call[c].redirected
      /\ record.args = call[c].args /\ record.confirmed = call[c].confirmed
      /\ record \in CallRecords
  BY <1>2 DEF Typed, CallRecords
<1> HIDE DEF record
<1>4. call'[c] = record
  BY <1>1, <1>2 DEF Typed
<1>5. Catalog' = Catalog /\ Connection' = Connection /\ registration' = registration
  BY <1>1, CatalogKept DEF RegistrationKept
<1>6. CallSound(c)'
  BY <1>1, <1>2, <1>3, <1>4, <1>5 DEF CallSound, AsBuilt, ToolOf
<1>7. AnswerSound(c)'
  BY <1>1, <1>2, <1>3, <1>4 DEF AnswerSound
<1>8. QED BY <1>1, <1>3, <1>6, <1>7, OneCall

\* The record of a call that is redirected, over any sets of values.
LEMMA RedirectedRecord ==
    ASSUME NEW S, NEW T, NEW A, NEW B, NEW R, NEW U, NEW yes \in B,
           NEW r \in [stage : S, tool : T, args : A, confirmed : B, request : R,
                      redirected : B, status : U]
    PROVE  LET record == [r EXCEPT !.redirected = yes]
           IN  /\ record.stage = r.stage /\ record.tool = r.tool /\ record.args = r.args
               /\ record.confirmed = r.confirmed /\ record.request = r.request
               /\ record.redirected = yes
               /\ record \in [stage : S, tool : T, args : A, confirmed : B, request : R,
                              redirected : B, status : U]
OBVIOUS

\* A request that is redirected goes on its way once more.
LEMMA FollowSound ==
    ASSUME SandboxInv, NEW c \in Calls, FollowRedirect(c)
    PROVE  SandboxInv'
<1> DEFINE yes == TRUE
           record == [call[c] EXCEPT !.redirected = yes]
<1>1. /\ call[c].stage = "sent" /\ answer[c] = 301 /\ call' = [call EXCEPT ![c] = record]
      /\ wire' = wire \cup {c} /\ answer' = [answer EXCEPT ![c] = 0]
      /\ RegistrationKept /\ UNCHANGED <<served, effects, mockVars>>
  BY DEF FollowRedirect, RegistrationKept
<1>2. CallSound(c) /\ AnswerSound(c) /\ Typed /\ yes \in BOOLEAN
  BY DEF SandboxInv
<1> HIDE DEF yes
<1>3. /\ record.stage = "sent" /\ record.redirected = yes
      /\ record.tool = call[c].tool /\ record.request = call[c].request
      /\ record.args = call[c].args /\ record.confirmed = call[c].confirmed
      /\ record \in CallRecords
  <2> DEFINE r == call[c]
  <2>1. r \in CallRecords /\ r.stage = "sent"
    BY <1>1, <1>2 DEF Typed
  <2> HIDE DEF r
  <2>2. QED BY <1>2, <2>1, RedirectedRecord, Zenon DEF CallRecords, r
<1> HIDE DEF record
<1>4. call'[c] = record /\ answer'[c] = 0 /\ served'[c] = served[c] /\ effects'[c] = effects[c]
  BY <1>1, <1>2 DEF Typed
<1>5. Catalog' = Catalog /\ Connection' = Connection /\ registration' = registration
  BY <1>1, CatalogKept DEF RegistrationKept
<1>6. CallSound(c)'
  BY <1>1, <1>2, <1>3, <1>4, <1>5 DEF CallSound, AsBuilt, ToolOf
<1>7. AnswerSound(c)'
  BY <1>1, <1>2, <1>3, <1>4 DEF AnswerSound, yes
<1>8. MockInv' /\ DocumentSound'
  BY <1>1, MockStepInv, CatalogKept DEF SandboxInv, MockStep
<1>9. Typed'
  BY <1>1, <1>2, <1>3 DEF Typed, Statuses
<1>10. ASSUME NEW d \in Calls, d # c
       PROVE  CallSound(d)' /\ AnswerSound(d)'
  <2>1. Untouched(d)
    BY <1>1, <1>2, <1>10 DEF Untouched, Typed
  <2>2. QED BY <1>1, <2>1, UntouchedSound DEF SandboxInv
<1>11. QED BY <1>6, <1>7, <1>8, <1>9, <1>10 DEF SandboxInv

\* What is on its way is what was built, or a GET without a body.
LEMMA CarriedTyped ==
    ASSUME NEW c, call[c].request \in Requests
    PROVE  /\ Carried(c).body \in DOMAIN Decoded
           /\ call[c].redirected => Carried(c).method \notin WriteMethods
           /\ ~ call[c].redirected => Carried(c) = call[c].request
<1> DEFINE request == call[c].request
           url == <<Head(request.url)>> \o Cleaned(PathOf(request))
<1>1. call[c].redirected => Carried(c) = [request EXCEPT !.method = "GET", !.body = NoBody, !.url = url]
  BY DEF Carried
<1>2. ~ call[c].redirected => Carried(c) = request
  BY DEF Carried
<1>3. NoBody \in DOMAIN Decoded /\ "GET" \notin WriteMethods
  BY SandboxAssumption DEF WriteMethods
<1> HIDE DEF url
<1>4. QED BY <1>1, <1>2, <1>3 DEF Requests

\* The one step that has an effect: it takes the request off the wire.
LEMMA ServedSound ==
    ASSUME SandboxInv, NEW c \in Calls, MockServes(c)
    PROVE  SandboxInv'
<1> DEFINE request == Carried(c)
           path == PathOf(request)
           changes == Changes(request.method, path, request.body)
           status == Status(request.method, path, request.body)
<1>1. /\ c \in wire /\ wire' = wire \ {c}
      /\ answer' = [answer EXCEPT ![c] = status]
      /\ served' = [served EXCEPT ![c] = served[c] \cup {ServerOf(request)}]
      /\ effects' = [effects EXCEPT ![c] = IF changes THEN effects[c] + 1 ELSE effects[c]]
      /\ Serve(request.method, path, request.body)
      /\ RegistrationKept /\ call' = call
  BY DEF MockServes, RegistrationKept, ServerOf
<1>2. DocumentSound /\ CallSound(c) /\ AnswerSound(c) /\ Typed /\ MockInv
  BY DEF SandboxInv
<1>3. call[c].stage \notin {"idle", "refused"} /\ answer[c] = 0 /\ effects[c] = 0
  BY <1>1, <1>2 DEF CallSound, AnswerSound
<1>4. call[c].request \in Requests
  BY <1>3, SentTyped
<1>5. /\ request.body \in DOMAIN Decoded
      /\ call[c].redirected => request.method \notin WriteMethods
      /\ ~ call[c].redirected => request = call[c].request
  BY <1>4, CarriedTyped
<1> HIDE DEF request, path
<1>6. status \in Statuses \ {0}
  BY StatusKinds
<1>7. changes => request.method \in WriteMethods
  BY ChangesWrites
<1>8. request.method \in WriteMethods /\ path # <<"/", "health">> => (status \in {200, 201} <=> changes)
  BY SuccessChanges
<1>9. /\ changes => status \in {200, 201}
      /\ status = 301 <=> Cleaned(path) # path
  BY StatusKinds DEF Changes
<1>10. MockInv'
  <2>1. MockStep
    BY <1>1, <1>2, <1>5, ServeSteps DEF MockInv
  <2>2. QED BY <1>2, <2>1, MockStepInv
<1>11. DocumentSound'
  BY <1>1, <1>2, CatalogKept
<1> HIDE DEF changes, status
<1>12. Typed'
  <2>1. (IF changes THEN effects[c] + 1 ELSE effects[c]) \in Nat
    BY <1>3
  <2>2. QED BY <1>1, <1>2, <1>6, <2>1 DEF Typed
<1>13. CallSound(c)' /\ AnswerSound(c)'
  <2>1. /\ call'[c] = call[c] /\ c \notin wire' /\ answer'[c] = status
        /\ served'[c] = served[c] \cup {ServerOf(request)}
        /\ effects'[c] = IF changes THEN 1 ELSE 0
    BY <1>1, <1>2, <1>3 DEF Typed
  <2>2. Catalog' = Catalog /\ Connection' = Connection /\ registration' = registration
    BY <1>1, CatalogKept DEF RegistrationKept
  <2>3. CallSound(c)'
    BY <1>2, <1>3, <2>1, <2>2 DEF CallSound, AsBuilt, ToolOf
  <2>4. call'[c].stage # "answered"
    BY <1>2, <1>3, <2>1 DEF AnswerSound
  <2>5. CASE call[c].redirected
    <3>1. ~ changes /\ ~ Clean(call[c].request)
      BY <1>2, <1>5, <1>7, <2>5 DEF AnswerSound
    <3>2. AnswerSound(c)'
      BY <1>6, <2>1, <2>4, <2>5, <3>1 DEF AnswerSound
    <3>3. QED BY <2>3, <3>2
  <2>6. CASE ~ call[c].redirected
    <3>1. call'[c].request = request /\ path = PathOf(request) /\ ~ call'[c].redirected
      BY <1>5, <2>1, <2>6 DEF path
    <3>2. status = 301 <=> ~ Clean(request)
      BY <1>9, <3>1 DEF Clean
    <3>3. Clean(request) => \A s \in served'[c] : s = ServerOf(request)
      BY <1>2, <2>1, <3>1 DEF AnswerSound
    <3>4. AnswerSound(c)'
      BY <1>6, <1>7, <1>8, <1>9, <2>1, <2>4, <3>1, <3>2, <3>3 DEF AnswerSound
    <3>5. QED BY <2>3, <3>4
  <2>7. QED BY <2>5, <2>6
<1>14. ASSUME NEW d \in Calls, d # c
       PROVE  CallSound(d)' /\ AnswerSound(d)'
  <2>1. Untouched(d)
    BY <1>1, <1>2, <1>14 DEF Untouched, Typed
  <2>2. QED BY <1>1, <2>1, UntouchedSound DEF SandboxInv
<1>15. QED BY <1>10, <1>11, <1>12, <1>13, <1>14 DEF SandboxInv

\* Others, and a restart, change the store alone.
LEMMA StoreSound ==
    ASSUME SandboxInv, MockStep, RegistrationKept, UNCHANGED callVars
    PROVE  SandboxInv'
<1>1. MockInv'
  BY MockStepInv DEF SandboxInv
<1>2. DocumentSound'
  BY CatalogKept DEF SandboxInv
<1>3. Typed'
  BY DEF SandboxInv, Typed, callVars
<1>4. ASSUME NEW c \in Calls
      PROVE  CallSound(c)' /\ AnswerSound(c)'
  <2>1. Untouched(c)
    BY DEF Untouched, callVars
  <2>2. QED BY <2>1, UntouchedSound DEF SandboxInv
<1>5. QED BY <1>1, <1>2, <1>3, <1>4 DEF SandboxInv

\* SandboxInv holds in every reachable state.
LEMMA SandboxSound == SandboxSpec => []SandboxInv
<1>1. SandboxInit => SandboxInv
  BY InitSound
<1>2. SandboxInv /\ [SandboxNext]_sandboxVars => SandboxInv'
  <2> SUFFICES ASSUME SandboxInv, [SandboxNext]_sandboxVars
               PROVE  SandboxInv'
    OBVIOUS
  <2>1. CASE RegisterConnection
    BY <2>1, RegisterSound
  <2>2. ASSUME NEW c \in Calls, NEW i \in DOMAIN Catalog, NEW args \in Arguments,
               NEW isConfirmed \in BOOLEAN, RunToolRefused(c, i, args, isConfirmed)
        PROVE  SandboxInv'
    BY <2>2, RefusedSound
  <2>3. ASSUME NEW c \in Calls, NEW i \in DOMAIN Catalog, NEW args \in Arguments,
               NEW isConfirmed \in BOOLEAN, RunTool(c, i, args, isConfirmed)
        PROVE  SandboxInv'
    BY <2>3, RunToolSound
  <2>4. ASSUME NEW c \in Calls, ReadAnswer(c)
        PROVE  SandboxInv'
    BY <2>4, ReadSound
  <2>5. ASSUME NEW c \in Calls, TimesOut(c)
        PROVE  SandboxInv'
    BY <2>5, TimeoutSound
  <2>6. ASSUME NEW c \in Calls, MockServes(c)
        PROVE  SandboxInv'
    BY <2>6, ServedSound
  <2>7. ASSUME NEW c \in Calls, FollowRedirect(c)
         PROVE  SandboxInv'
    BY <2>7, FollowSound
  <2>8. ASSUME NEW n \in Numbers, OthersCancel(n)
        PROVE  SandboxInv'
    <3>1. MockStep
      <4> DEFINE path == <<"/", "orders", "/", OrderId[n]>>
      <4>1. Serve("DELETE", path, NoBody) /\ MockTypeOK
        BY <2>8 DEF OthersCancel, SandboxInv, MockInv
      <4>2. NoBody \in DOMAIN Decoded
        BY SandboxAssumption
      <4> HIDE DEF path
      <4>3. QED BY <4>1, <4>2, ServeSteps
    <3>2. RegistrationKept /\ UNCHANGED callVars
      BY <2>8 DEF OthersCancel, RegistrationKept
    <3>3. QED BY <3>1, <3>2, StoreSound
  <2>9. CASE MockRestart
    <3>1. MockStep /\ RegistrationKept /\ UNCHANGED callVars
      BY <2>9 DEF MockRestart, MockStep, RegistrationKept
    <3>2. QED BY <3>1, StoreSound
  <2>10. CASE UNCHANGED sandboxVars
    <3>1. MockStep /\ RegistrationKept /\ UNCHANGED callVars
      BY <2>10 DEF sandboxVars, MockStep, RegistrationKept
    <3>2. QED BY <3>1, StoreSound
  <2>11. QED BY <2>1, <2>2, <2>3, <2>4, <2>5, <2>6, <2>7, <2>8, <2>9, <2>10 DEF SandboxNext
<1>3. QED BY <1>1, <1>2, PTL DEF SandboxSpec

------------------------------------------------------------------------------
(* Theorems *)

\* Types, of the store and of the calls.
THEOREM SandboxTypes == SandboxSpec => []SandboxTypeOK
<1>1. SandboxInv => SandboxTypeOK
  <2> SUFFICES ASSUME SandboxInv PROVE SandboxTypeOK
    OBVIOUS
  <2>1. MockTypeOK /\ DocumentSound /\ Typed
    BY DEF SandboxInv, MockInv
  <2>2. ASSUME NEW c \in Calls
        PROVE  /\ call[c].stage \in {"idle", "refused", "sent", "answered", "failed"}
               /\ call[c].tool \in 0..Len(Catalog)
               /\ call[c].args \in Arguments \cup {<<>>}
               /\ call[c].confirmed \in BOOLEAN
               /\ call[c].request.method \in SupportedMethods \cup {"none"}
               /\ call[c].request.url \in Seq(STRING)
               /\ call[c].request.body \in DOMAIN Decoded
               /\ call[c].redirected \in BOOLEAN
               /\ call[c].status \in Statuses
    <3>1. call[c] \in CallRecords
      BY <2>1 DEF Typed
    <3>2. call[c].tool \in 0..Len(Catalog)
      <4>1. call[c].tool = 0 \/ call[c].tool \in DOMAIN Catalog
        BY DEF SandboxInv, CallSound
      <4>2. Len(Catalog) \in Nat /\ DOMAIN Catalog = 1..Len(Catalog)
        BY <2>1, CatalogSound
      <4>3. QED BY <4>1, <4>2
    <3>3. /\ call[c].request.method \in SupportedMethods \cup {"none"}
          /\ call[c].request.url \in Seq(STRING)
          /\ call[c].request.body \in DOMAIN Decoded
      <4>1. CASE call[c].request = NoRequest
        BY <4>1, SandboxAssumption DEF NoRequest
      <4>2. CASE call[c].request \in Requests
        BY <4>2 DEF Requests
      <4>3. QED BY <3>1, <4>1, <4>2 DEF CallRecords
    <3>4. QED BY <3>1, <3>2, <3>3 DEF CallRecords
  <2>3. QED BY <2>1, <2>2 DEF SandboxTypeOK, DocumentSound, Typed
<1>2. QED BY <1>1, SandboxSound, PTL

\* Nothing is sold twice, with any number of calls, other clients and restarts.
THEOREM StockIsConserved == SandboxSpec => []StockConserved
<1>1. SandboxInv => StockConserved
  BY DEF SandboxInv, MockInv
<1>2. QED BY <1>1, SandboxSound, PTL

\* An order id is handed out once and restocked once at most.
THEOREM OrderIsOnce == SandboxSpec => []OrderOnce
<1>1. SandboxInv => OrderOnce
  BY DEF SandboxInv, MockInv
<1>2. QED BY <1>1, SandboxSound, PTL

\* A call changes the store once at most, and its caller can tell from the answer,
\* unless it was redirected on its way; then it changes nothing.
THEOREM OneEffect == SandboxSpec => []OneEffectPerCall
<1>1. SandboxInv => OneEffectPerCall
  <2> SUFFICES ASSUME SandboxInv, NEW c \in Calls
               PROVE  /\ effects[c] <= (IF call[c].stage \in {"idle", "refused"} THEN 0 ELSE 1)
                      /\ (/\ call[c].stage = "answered" /\ call[c].request.method \in WriteMethods
                          /\ PathOf(call[c].request) # <<"/", "health">>)
                            => (effects[c] = 1
                                  <=> (call[c].status \in {200, 201} /\ ~ call[c].redirected))
    BY DEF OneEffectPerCall
  <2>1. CallSound(c) /\ AnswerSound(c)
    BY DEF SandboxInv
  <2>2. effects[c] <= (IF call[c].stage \in {"idle", "refused"} THEN 0 ELSE 1)
    BY <2>1 DEF CallSound, AnswerSound
  <2>3. QED BY <2>1, <2>2 DEF AnswerSound
<1>2. QED BY <1>1, SandboxSound, PTL

\* The store changes for confirmed calls of destructive tools only.
THEOREM EffectsConfirmed == SandboxSpec => []ConfirmedEffects
<1>1. SandboxInv => ConfirmedEffects
  <2> SUFFICES ASSUME SandboxInv, NEW c \in Calls, effects[c] > 0,
                      ToolOf(c).op.xDestructive # {FALSE}
               PROVE  call[c].confirmed /\ ToolOf(c).destructive
    BY DEF ConfirmedEffects
  <2>1. CallSound(c) /\ AnswerSound(c) /\ DocumentSound
    BY DEF SandboxInv
  <2>2. call[c].stage \notin {"idle", "refused"} /\ AsBuilt(c)
    BY <2>1 DEF CallSound
  <2>3. call[c].tool \in DOMAIN Catalog /\ ToolOf(c).method \in WriteMethods
    BY <2>1, <2>2, SentTyped DEF AnswerSound
  <2>4. /\ ToolOf(c).op \in Operation /\ ToolOf(c).op.method = ToolOf(c).method
        /\ ToolOf(c).destructive = IsDestructive(ToolOf(c).op)
    BY <2>1, <2>3, CatalogSound DEF ToolOf
  <2>5. ToolOf(c).op.xDestructive \in SUBSET BOOLEAN
    BY <2>4 DEF Operation
  <2>6. ToolOf(c).destructive
    BY <2>3, <2>4, <2>5 DEF IsDestructive
  <2>7. QED BY <2>2, <2>6 DEF AsBuilt, NeedsConfirmation
<1>2. QED BY <1>1, SandboxSound, PTL

\* Arguments end up in their places, for any path, any texts and any order.
THEOREM RequestsAsMeant == SandboxSpec => []RequestAsMeant
<1>1. SandboxInv => RequestAsMeant
  <2> SUFFICES ASSUME SandboxInv, NEW c \in Calls, Built(c), Plain(call[c].args)
               PROVE  LET request == call[c].request
                          meant == Meant(ToolOf(c), Connection, call[c].args)
                      IN  /\ request.url = meant.url
                          /\ request.body = meant.body
                          /\ request.query \in {{}, meant.query}
                          /\ request.method \in {"GET", "DELETE"} => request.query = meant.query
    BY DEF RequestAsMeant
  <2>1. CallSound(c) /\ DocumentSound
    BY DEF SandboxInv
  <2>2. call[c].stage \notin {"idle", "refused"} /\ AsBuilt(c) /\ call[c].tool \in DOMAIN Catalog
    BY <2>1 DEF CallSound, Built
  <2>3. ToolOf(c).path \in Seq(STRING)
    BY <2>1, <2>2, CatalogSound DEF ToolOf
  <2>4. PICK order \in SetToSeqs(DOMAIN call[c].args) :
            call[c].request = BuildRequest(ToolOf(c), Connection, call[c].args, order)
    BY <2>2 DEF AsBuilt
  <2>5. call[c].args \in Arguments
    BY <2>2 DEF AsBuilt
  <2>6. QED BY <2>3, <2>4, <2>5, RequestMeant
<1>2. QED BY <1>1, SandboxSound, PTL

\* A tool does what its operation is called, for any document that tells the truth
\* about the operation and any plain arguments that leave its path clean; with an
\* empty id it is refused.
THEOREM OperationsAreRight == SandboxSpec => []RightOperation
<1>1. SandboxInv => RightOperation
  <2> SUFFICES ASSUME SandboxInv, NEW c \in Calls, Built(c),
                      AtRoot(Connection.base), Truthful(ToolOf(c).op), Plain(call[c].args),
                      LET path == MeantPath(ToolOf(c), call[c].args) IN Cleaned(path) = path
               PROVE  /\ \A s \in served[c] :
                           IF EmptyId(ToolOf(c).path, call[c].args) THEN s.handler = <<"400">>
                           ELSE /\ s.handler = ToolOf(c).op.operationId
                                /\ \A k \in {j \in DOMAIN call[c].args : Uses(ToolOf(c).path, j)} :
                                     s.id = Text[call[c].args[k]]
                      /\ call[c].request.body = IF Body \in DOMAIN call[c].args
                                                THEN call[c].args[Body] ELSE NoBody
    BY DEF RightOperation, EmptyId
  <2> DEFINE tool == ToolOf(c)
             args == call[c].args
             request == call[c].request
             path == Spelled(tool.path, Put(args, DOMAIN args))
  <2>1. CallSound(c) /\ AnswerSound(c) /\ DocumentSound
    BY DEF SandboxInv
  <2>2. call[c].stage \notin {"idle", "refused"} /\ AsBuilt(c) /\ call[c].tool \in DOMAIN Catalog
    BY <2>1 DEF CallSound, Built
  <2>3. /\ tool.path \in Seq(STRING) /\ Connection.base \in Seq(STRING)
        /\ tool.op.path = tool.path /\ tool.op.method = tool.method
    BY <2>1, <2>2, CatalogSound DEF ToolOf
  <2>4. PICK order \in SetToSeqs(DOMAIN args) :
            request = BuildRequest(tool, Connection, args, order)
    BY <2>2 DEF AsBuilt
  <2>5. args \in Arguments /\ Texts(args)
    BY <2>2, SandboxAssumption DEF AsBuilt, Texts
  <2>6. /\ request.method = tool.method
        /\ request.url = Joined(Connection.base, path)
        /\ request.body = IF Body \in DOMAIN args /\ ~ Uses(tool.path, Body)
                          THEN args[Body] ELSE NoBody
    BY <2>3, <2>4, <2>5, RequestPut
  <2>7. Cleaned(path) = path
    BY <2>3, MeantPut
  <2>8. /\ path \in Seq(STRING) /\ Len(path) >= 2 /\ path[1] = "/" /\ path[2] # "/"
        /\ Route(tool.op.method, path) = IF EmptyId(tool.op.path, args) THEN <<"400">>
                                         ELSE tool.op.operationId
        /\ \A k \in DOMAIN args : Uses(tool.op.path, k) => Id(path) = Text[args[k]]
        /\ ~ Uses(tool.op.path, Body)
    <3> DEFINE op == tool.op
    <3>1. op.path = tool.path /\ op.path \in Seq(STRING) /\ Truthful(op)
      BY <2>3
    <3>2. path = Spelled(op.path, Put(args, DOMAIN args))
      BY <3>1
    <3> HIDE DEF op, path, args
    <3>3. LET p == Spelled(op.path, Put(args, DOMAIN args)) IN Cleaned(p) = p
      BY <2>7, <3>2
    <3>4. QED BY <2>5, <3>1, <3>2, <3>3, TruthfulPath DEF op
  <2> HIDE DEF path, args, request, tool
  <2>9. Tail(request.url) = path
    BY <2>3, <2>6, <2>8, JoinedAtRoot
  <2>10. /\ ServerOf(request) = [handler |-> Route(tool.op.method, path), id |-> Id(path)]
         /\ Clean(request)
    BY <2>3, <2>6, <2>7, <2>9 DEF ServerOf, PathOf, Clean
  <2>11. ASSUME NEW s \in served[c]
         PROVE  IF EmptyId(tool.path, args) THEN s.handler = <<"400">>
                ELSE /\ s.handler = tool.op.operationId
                     /\ \A k \in {j \in DOMAIN args : Uses(tool.path, j)} : s.id = Text[args[k]]
    <3>1. s = [handler |-> Route(tool.op.method, path), id |-> Id(path)]
      BY <2>1, <2>10 DEF AnswerSound, request
    <3>2. s.handler = Route(tool.op.method, path) /\ s.id = Id(path)
      BY <3>1
    <3>3. QED BY <2>3, <2>8, <3>2
  <2>12. request.body = IF Body \in DOMAIN args THEN args[Body] ELSE NoBody
    BY <2>3, <2>6, <2>8
  <2>13. QED BY <2>11, <2>12 DEF args, request, tool
<1>2. QED BY <1>1, SandboxSound, PTL

\* The tools of a tenant have names the model can call them by: no capital, no brace,
\* no other character is in them, for any document.
THEOREM NamesAreCallable == SandboxSpec => []NamesCallable
<1>1. SandboxInv => NamesCallable
  BY CatalogSound DEF SandboxInv, NamesCallable
<1>2. QED BY <1>1, SandboxSound, PTL

=============================================================================
