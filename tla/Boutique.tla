------------------------------ MODULE Boutique ------------------------------
(***************************************************************************)
(* The Online Boutique: requests that the gateway reads into objects of    *)
(* the pool, and the eleven functions through which each object goes until *)
(* it is answered.  How an object gets from one function to the next is    *)
(* the matter of NfChain; here it is with the function next_fn names, and  *)
(* a function does its work on it in one step, as nobody else has it.      *)
(* Only the cart service has a state of its own: that of Cart, where an    *)
(* object stands for the worker that has it.                               *)
(***************************************************************************)
EXTENDS Rpc

CONSTANTS
    Object,         \* The objects of the pool.
    Requests,       \* What clients may ask.
    MaxRequests     \* Bound: how many requests there are.

Products == Catalogue \union Unknown
Item == [product : Products, quantity : Int]

(* The pages, and "none" for what is none of them. *)
Paths == {"home", "setCurrency", "product", "viewCart", "addToCart", "cart", "checkout", "none"}

(* A request for a product, or that adds one, names it: some text is taken *)
(* for its identifier, whether the catalogue has it or not.                *)
ASSUME RequestsAssumption ==
    /\ MaxRequests \in Nat
    /\ Requests \subseteq [path : Paths, item : Item \union {Blank}]
    /\ \A r \in Requests : r.path \in {"product", "addToCart"} => r.item \in Item

Route == <<1, 2, 1, 3, 1, 4, 1, 2, 1, 10, 1>>   \* Of every request under "/1".

VARIABLES
    txn,        \* The transaction in each object.
    busy,       \* The objects that are not in the pool.
    asked,      \* How many requests were read.
    visits,     \* History: what each request was handed to so far ...
    done,       \* ... and which steps of its order that were.
    converter,  \* The currency service has not crashed.
    store, up, pc, request, reply       \* Of the cart service.

(* What a transaction may ask of the cart service. *)
CartRequests == [rpc : {"AddItem"}, item : Item] \union [rpc : {"GetCart", "EmptyCart"}, item : {Blank}]

Shop == INSTANCE Cart WITH Worker <- Object, Product <- Products, Requests <- CartRequests

(* No node is no node of the map of carts. *)
ASSUME ShopAssumption == None \notin Shop!Node

Front == INSTANCE Frontend
Desk == INSTANCE Checkout
Does == INSTANCE Services
Abstract == INSTANCE Order

shop == <<store, up, pc, request, reply>>
vars == <<txn, busy, asked, visits, done, converter, store, up, pc, request, reply>>

Init ==
    /\ txn = [o \in Object |-> NewTransaction]
    /\ busy = {}
    /\ asked = 0
    /\ visits = [o \in Object |-> <<>>]
    /\ done = [o \in Object |-> <<>>]
    /\ converter = TRUE
    /\ Shop!CartInit

At(o, fn) == o \in busy /\ txn[o].next = fn
Becomes(o, t) == txn' = [txn EXCEPT ![o] = t]
IsStep(what) == \E i \in DOMAIN Abstract!Steps : Abstract!Steps[i] = what
Visit(o, what) ==
    /\ visits' = [visits EXCEPT ![o] = Append(@, what)]
    /\ done' = IF IsStep(what) THEN [done EXCEPT ![o] = Append(@, what)] ELSE done

(* conn_read: nothing else of the transaction is reset. *)
Begin(o, r) ==
    /\ o \notin busy /\ asked < MaxRequests
    /\ asked' = asked + 1
    /\ busy' = busy \union {o}
    /\ Becomes(o, [txn[o] EXCEPT !.request = r, !.hop = 0, !.next = FRONTEND])
    /\ UNCHANGED <<visits, done, converter, shop>>

Frontend(o) ==
    /\ At(o, FRONTEND) /\ txn[o].request.path # "cart"
    /\ Becomes(o, Front!HttpRequestDispatcher(txn[o]))
    /\ Visit(o, "frontend")
    /\ UNCHANGED <<busy, asked, converter, shop>>

(* A request for the cart that neither gets nor posts comes out as it went *)
(* in, with next_fn the frontend, which signals itself: it is never done.  *)
Unserved(o) ==
    /\ At(o, FRONTEND) /\ txn[o].request.path = "cart"
    /\ Becomes(o, Front!HttpRequestDispatcher(txn[o]))
    /\ UNCHANGED <<busy, asked, visits, done, converter, shop>>

Checkout(o) ==
    /\ At(o, CHECKOUT_SVC)
    /\ Becomes(o, Desk!PlaceOrder(txn[o]))
    /\ Visit(o, "checkout")
    /\ UNCHANGED <<busy, asked, converter, shop>>

(* The worker of a service that keeps nothing.  The currency service is up *)
(* for as long as it was never asked to convert an amount without a        *)
(* currency, and perhaps even then.                                        *)
Stateless == DOMAIN Serves \ {CART_SVC}

Serve(o, service) ==
    /\ At(o, service)
    /\ service = CURRENCY_SVC => converter
    /\ Becomes(o, Reply(Does!ServiceOf(service, txn[o])))
    /\ Visit(o, txn[o].rpc)
    /\ UNCHANGED <<busy, asked, converter, shop>>

(* Such an amount is divided by what an uninitialized pointer points to.   *)
ConvertNothing(o) ==
    /\ At(o, CURRENCY_SVC) /\ txn[o].rpc = "Convert"
    /\ txn[o].from.cur = None
    /\ converter /\ converter' = FALSE
    /\ UNCHANGED <<txn, busy, asked, visits, done, shop>>

(* The cart service: its nf_worker takes a request, works, hands it back.  *)
CartCall(o) ==
    /\ At(o, CART_SVC)
    /\ Shop!Call(o, [rpc |-> txn[o].rpc,
                     item |-> IF txn[o].rpc = "AddItem" THEN txn[o].add ELSE Blank])
    /\ txn[o].rpc \in Serves[CART_SVC]
    /\ Visit(o, txn[o].rpc)
    /\ UNCHANGED <<txn, busy, asked, converter>>

CartWork(o) ==
    /\ Shop!CartStep(o)
    /\ UNCHANGED <<txn, busy, asked, visits, done, converter>>

CartReturn(o) ==
    /\ Shop!HandBack(o)
    /\ Becomes(o, Reply([txn[o] EXCEPT !.cart = reply[o]]))
    /\ UNCHANGED <<busy, asked, visits, done, converter>>

(* conn_write of the gateway: on along the route, or the response. *)
Gateway(o) ==
    LET hop == (txn[o].hop + 1) % 256 IN
    /\ At(o, GATEWAY)
    /\ IF hop < Len(Route)
       THEN /\ Becomes(o, [txn[o] EXCEPT !.hop = hop, !.next = Route[hop + 1]])
            /\ UNCHANGED <<busy, visits, done>>
       ELSE /\ Becomes(o, [txn[o] EXCEPT !.hop = hop])
            /\ busy' = busy \ {o}
            /\ visits' = [visits EXCEPT ![o] = <<>>]
            /\ done' = [done EXCEPT ![o] = <<>>]
    /\ UNCHANGED <<asked, converter, shop>>

Step(o) ==
    \/ Frontend(o) \/ Unserved(o) \/ Checkout(o)
    \/ \E service \in Stateless : Serve(o, service)
    \/ ConvertNothing(o)
    \/ CartCall(o) \/ CartWork(o) \/ CartReturn(o)
    \/ Gateway(o)

Next == \E o \in Object : (\E r \in Requests : Begin(o, r)) \/ Step(o)

(* Each function is a process whose threads run, and a worker that has an  *)
(* object depends on nothing else.                                         *)
Spec == Init /\ [][Next]_vars /\ \A o \in Object : WF_vars(Step(o))

-----------------------------------------------------------------------------
MoneyType == [of : Products \union {"shipping", None}, cur : {"USD", "CAD", None}, doubled : Nat]
ViewType == [product : Products \union {None}, quantity : Int, price : MoneyType]

Visits == {"frontend", "checkout"} \union UNION {Serves[s] : s \in DOMAIN Serves}

(* The variables keep their types: the counters of a transaction stay      *)
(* within its arrays, and its hop_count never wraps.                       *)
TypeOK ==
    /\ busy \subseteq Object
    /\ asked \in 0 .. MaxRequests
    /\ converter \in BOOLEAN
    /\ visits \in [Object -> Seq(Visits)]
    /\ \A o \in Object : LET t == txn[o] IN
        /\ t.next \in DOMAIN Serves \union {GATEWAY, FRONTEND, CHECKOUT_SVC}
        /\ t.caller \in DOMAIN Serves \union {GATEWAY, FRONTEND, CHECKOUT_SVC}
        /\ t.hop \in 0 .. 6 \union 100 .. 108
        /\ t.coHop \in 0 .. 9
        /\ {t.from, t.result, t.quote.cost} \subseteq MoneyType
        /\ {t.id, t.product} \subseteq Products \union {None}
        /\ {t.itemCnt, t.convCnt, t.orderCnt, t.orderConv} \subseteq 0 .. Slots
        /\ t.items \in [0 .. Slots - 1 -> ViewType]
        /\ t.orders \in [0 .. Slots - 1 -> ViewType]
        /\ t.total \in Seq(MoneyType)
        /\ t.charge \in Seq(MoneyType)

(* The frontend and the checkout service count their steps in the same     *)
(* transaction and call the same services: only an order is ever with the  *)
(* checkout service, or with a service that will return to it, and that in *)
(* the first step of the frontend.  And whatever earlier calls have left   *)
(* in it, a service is only asked for what it can do, so that none runs    *)
(* its mock test on a client's data.                                       *)
NestedCalls ==
    \A o \in busy :
        LET t == txn[o] IN
        /\ (CHECKOUT_SVC = t.next \/ (t.next \in DOMAIN Serves /\ t.caller = CHECKOUT_SVC))
                => t.request.path = "checkout" /\ t.hop = 1
        /\ t.next \in DOMAIN Serves => t.rpc \in Serves[t.next]

(* The function a visit was paid to. *)
Visited(v) ==
    IF v = "frontend" THEN FRONTEND
    ELSE IF v = "checkout" THEN CHECKOUT_SVC
    ELSE CHOOSE s \in DOMAIN Serves : v \in Serves[s]

(* The routes of cfg/online-boutique-concurrency-32.cfg, by the page each  *)
(* is for.  No function of the boutique reads them.                        *)
ConfiguredRoute(path) ==
    CASE path = "home"        -> <<1, 2, 1, 3, 1, 4, 1, 2, 1, 10, 1>>
      [] path = "setCurrency" -> <<1>>
      [] path = "product"     -> <<1, 3, 1, 2, 1, 4, 1, 2, 1, 5, 1, 4, 1, 10, 1>>
      [] path = "viewCart"    -> <<1, 2, 1, 4, 1, 5, 1, 6, 1, 2, 1, 3, 1, 2, 1>>
      [] path = "addToCart"   -> <<1, 3, 1, 4, 1>>
      [] path = "checkout"    -> <<1, 7, 4, 7, 3, 7, 2, 7, 6, 7, 2, 7, 8, 7, 6, 7, 4, 7, 9,
                                   7, 1, 5, 1, 2, 1>>

(* The way the handlers of the frontend go: the configured one, but for    *)
(* the home page, which leaves out the currency service that its list of   *)
(* prices was prepared for, and for a product, where the cart is not asked *)
(* again after the recommendations.  What is no page ends at the frontend. *)
Way(path) ==
    CASE path = "home"             -> <<1, 2, 1, 3, 1, 4, 1, 10, 1>>
      [] path = "product"          -> <<1, 3, 1, 2, 1, 4, 1, 2, 1, 5, 1, 10, 1>>
      [] path \in {"cart", "none"} -> <<1>>
      [] OTHER                     -> ConfiguredRoute(path)

(* With an empty cart there is nothing to show or to order: the last steps *)
(* are left out.                                                           *)
ShortWay(path) ==
    CASE path = "viewCart" -> <<1, 2, 1, 4, 1, 5, 1, 6, 1, 2, 1>>
      [] path = "checkout" -> <<1, 7, 4, 7, 1, 5, 1, 2, 1>>
      [] OTHER             -> Way(path)

(* Every request that comes back to the gateway was handed to the          *)
(* functions on the way of its page, each as often and in the order it     *)
(* says, however much of it was sequenced by two nested counters.  That is *)
(* the configured route, except where Way and ShortWay say otherwise: the  *)
(* home page, the page of a product, and an empty cart.                    *)
RouteFollowed ==
    \A o \in busy :
        LET path == txn[o].request.path
        IN  At(o, GATEWAY) =>
                [i \in DOMAIN visits[o] |-> Visited(visits[o][i])] =
                    IF txn[o].cart.num = 0 THEN ShortWay(path) ELSE Way(path)

PriceCad(product) == Converted(PriceUsd(product))

(* A request for a page that is done shows what it was asked for, of this  *)
(* request and not of the one that used the object before: the product, or *)
(* every item of the cart, with the price of that product converted and    *)
(* multiplied, although the prices travel through a single result field.   *)
ShownPrices ==
    \A o \in busy :
        LET t == txn[o] IN
        At(o, GATEWAY) =>
            /\ (t.request.path = "product" /\ t.request.item.product \in Catalogue) =>
                t.view = [product |-> t.request.item.product, quantity |-> 0,
                          price |-> PriceCad(t.request.item.product)]
            /\ t.request.path = "viewCart" =>
                \A i \in 0 .. t.cart.num - 1 :
                    LET item == t.cart.items[i] IN
                    item.product \in Catalogue =>
                        t.items[i] = [product |-> item.product, quantity |-> item.quantity,
                                      price |-> MultiplySlow(PriceCad(item.product), item.quantity)]

(* What is charged ends with this order: each item of the cart, once and   *)
(* converted, and the converted quote.  (What comes before it is what the  *)
(* object's last requests left in total_price.)                            *)
ChargedOrder ==
    \A o \in busy :
        LET t == txn[o]
            n == t.cart.num
            old == Len(t.charge) - n - 1
        IN  At(o, PAYMENT_SVC) =>
                /\ old >= 0
                /\ t.charge[old + n + 1] = Money("shipping", "CAD", 0)
                /\ \A i \in 1 .. n :
                        LET p == t.cart.items[i - 1].product
                        IN  p \in Catalogue => t.charge[old + i] = PriceCad(p)

(* Order is implemented: an order is charged, shipped, taken from the cart *)
(* and confirmed, in this order, and answered when all or none is done.    *)
OrderSpec == Abstract!Spec

(* Every request is answered, unless a service crashed or it is one that   *)
(* no handler takes; a request that is stays with the frontend for ever,   *)
(* and keeps neither the frontend nor the services from the others.        *)
Responded ==
    \A o \in Object :
        o \in busy ~> (\/ o \notin busy \/ ~up \/ ~converter
                      \/ txn[o].request.path = "cart")

(* "Convert currency for a list of products" (shm_rpc.c:108): the price    *)
(* that the home page shows of a product is its price, converted.          *)
HomePrices ==
    \A o \in busy :
        At(o, GATEWAY) /\ txn[o].request.path = "home" => txn[o].view.price = PriceCad(Listed)
=============================================================================
