-------------------------- MODULE Boutique_proofs --------------------------
(***************************************************************************)
(* What holds of the Online Boutique for every catalogue, every number of  *)
(* objects and requests, and whatever is asked.                            *)
(*                                                                         *)
(*   1. What a transaction is made of (Txn), and the course it is on: with *)
(*      the frontend or a service that it has asked, with the checkout     *)
(*      service or a service that that has asked, or finished (Course).    *)
(*      One lemma per procedure says what it makes of a transaction.       *)
(*   2. Kept, with one lemma per action: types, courses, the cart service, *)
(*      which is Cart with the objects for workers, so that Cart_proofs    *)
(*      holds of it, and how much of each order is done.  TypeOK and       *)
(*      NestedCalls follow, and that the Boutique implements Order.        *)
(*   3. WayInv: a request that was handed on k times is in the k-th stage  *)
(*      of its page, with what it was answered so far at its place.        *)
(*      RouteFollowed, ShownPrices and ChargedOrder are its last stages.   *)
(***************************************************************************)
EXTENDS Boutique, TLAPS

-----------------------------------------------------------------------------
(* What a transaction is made of.                                          *)
Fns == 0 .. 10
Text == {"GetSupportedCurrencies", "Convert", "ListProducts", "GetProduct", "AddItem", "GetCart",
         "EmptyCart", "ListRecommendations", "GetQuote", "ShipOrder", "Charge",
         "SendOrderConfirmation", "GetAds", "PlaceOrder", "none"}
Asked == {r \in [path : Paths, item : Item \union {Blank}] :
             r.path \in {"product", "addToCart"} => r.item \in Item}
Hops == 0 .. 255
DeskHops == 0 .. 9
Counts == 0 .. Slots - 1
OrNone == Products \union {None}
Lines == [product : OrNone, quantity : Int]
Carts == [num : Counts, items : [Counts -> Item \union {Blank}]]
Views == [Counts -> ViewType]
OrderViews == [Counts -> [product : OrNone, quantity : {0}, price : MoneyType]]
Quotes == [flag : BOOLEAN, cost : MoneyType]
Sums == Seq(MoneyType)

Txn == [
    request   : Asked,
    next      : Fns,
    caller    : Fns,
    hop       : Hops,
    rpc       : Text,
    from      : MoneyType,
    result    : MoneyType,
    add       : Lines,
    cart      : Carts,
    id        : OrNone,
    product   : OrNone,
    quote     : Quotes,
    view      : ViewType,
    viewed    : Counts,
    items     : Views,
    itemCnt   : Counts,
    convCnt   : Counts,
    total     : Sums,
    coHop     : DeskHops,
    orders    : OrderViews,
    orderCnt  : Counts,
    orderConv : Counts,
    charge    : Sums]

(* The calls of the frontend: of any of its pages, and of addToCart.       *)
PageCalls ==
    {<<CURRENCY_SVC, "GetSupportedCurrencies">>, <<CURRENCY_SVC, "Convert">>,
     <<PRODUCTCATA_SVC, "ListProducts">>, <<PRODUCTCATA_SVC, "GetProduct">>,
     <<CART_SVC, "GetCart">>, <<RECOMMEND_SVC, "ListRecommendations">>,
     <<SHIPPING_SVC, "GetQuote">>, <<AD_SVC, "GetAds">>}
FrontCalls == PageCalls \union {<<CART_SVC, "AddItem">>}

(* The calls of the checkout service, by the step they are made in.        *)
DeskCalls(hop) ==
    CASE hop = 1 -> {<<CART_SVC, "GetCart">>, <<PRODUCTCATA_SVC, "GetProduct">>}
      [] hop = 2 -> {<<CURRENCY_SVC, "Convert">>}
      [] hop = 4 -> {<<SHIPPING_SVC, "GetQuote">>, <<CURRENCY_SVC, "Convert">>}
      [] hop = 6 -> {<<PAYMENT_SVC, "Charge">>}
      [] hop = 7 -> {<<SHIPPING_SVC, "ShipOrder">>}
      [] hop = 8 -> {<<CART_SVC, "EmptyCart">>}
      [] hop = 9 -> {<<EMAIL_SVC, "SendOrderConfirmation">>}
      [] OTHER   -> {}

(* The order is with the checkout service, or with a service it has asked. *)
Ordering(t) ==
    /\ t.request.path = "checkout" /\ t.hop = 1
    /\ \/ t.next = CHECKOUT_SVC /\ t.coHop \in {0, 1, 2, 4, 6, 7, 8, 9}
       \/ t.caller = CHECKOUT_SVC /\ <<t.next, t.rpc>> \in DeskCalls(t.coHop)

(* The request is with the frontend, or with a service it has asked.       *)
Browsing(t) ==
    /\ t.hop \in 0 .. 6 /\ (t.request.path = "checkout" => t.hop <= 3)
    /\ \/ t.next = FRONTEND
       \/ t.caller = FRONTEND /\ <<t.next, t.rpc>> \in FrontCalls

Finished(t) == t.next = GATEWAY /\ t.hop \in 100 .. 106

(* What is added to the cart is the product that was asked for.            *)
Adding(t) ==
    /\ t.request.path = "addToCart" /\ t.hop = 1 => t.id = t.request.item.product
    /\ t.next = CART_SVC /\ t.rpc = "AddItem" => t.add \in Item

Course(t) == (Finished(t) \/ Browsing(t) \/ Ordering(t)) /\ Adding(t)

-----------------------------------------------------------------------------
USE DEF GATEWAY, FRONTEND, CURRENCY_SVC, PRODUCTCATA_SVC, CART_SVC, RECOMMEND_SVC, SHIPPING_SVC,
        CHECKOUT_SVC, PAYMENT_SVC, EMAIL_SVC, AD_SVC,
        Front!GATEWAY, Front!FRONTEND, Front!CURRENCY_SVC, Front!PRODUCTCATA_SVC, Front!CART_SVC,
        Front!RECOMMEND_SVC, Front!SHIPPING_SVC, Front!CHECKOUT_SVC, Front!AD_SVC,
        Desk!FRONTEND, Desk!CURRENCY_SVC, Desk!PRODUCTCATA_SVC, Desk!CART_SVC, Desk!SHIPPING_SVC,
        Desk!CHECKOUT_SVC, Desk!PAYMENT_SVC, Desk!EMAIL_SVC,
        Does!CURRENCY_SVC, Does!PRODUCTCATA_SVC, Does!RECOMMEND_SVC, Does!SHIPPING_SVC,
        Does!PAYMENT_SVC, Does!EMAIL_SVC, Does!AD_SVC

(* The types of what is written into a transaction.                        *)
LEMMA Members ==
    /\ 0 \in Fns /\ 1 \in Fns /\ 2 \in Fns /\ 3 \in Fns /\ 4 \in Fns /\ 5 \in Fns
    /\ 6 \in Fns /\ 7 \in Fns /\ 8 \in Fns /\ 9 \in Fns /\ 10 \in Fns
    /\ \A h \in 0 .. 255 : h \in Hops
    /\ \A h \in 0 .. 9 : h \in DeskHops
    /\ 0 \in Counts /\ 1 \in Counts
    /\ None \in OrNone /\ Products \subseteq OrNone
  BY RpcAssumption DEF Fns, Hops, DeskHops, Counts, OrNone

(* Amounts stay amounts, and prices prices.                                *)
LEMMA Amounts ==
    /\ NoMoney \in MoneyType
    /\ \A p \in OrNone : PriceUsd(p) \in MoneyType
    /\ \A m \in MoneyType : Converted(m) \in MoneyType
    /\ \A m \in MoneyType, n \in Int : MultiplySlow(m, n) \in MoneyType
  BY DEF NoMoney, Money, PriceUsd, Converted, MultiplySlow, MoneyType, OrNone

(* The three programs share the procedures of Rpc.                         *)
LEMMA SameRpc ==
    /\ \A p : Front!PriceUsd(p) = PriceUsd(p) /\ Desk!PriceUsd(p) = PriceUsd(p)
    /\ \A views, n : Front!Multiplied(views, n) = Multiplied(views, n)
    /\ \A views, n : Desk!Multiplied(views, n) = Multiplied(views, n)
    /\ \A total, views, n, cost : Front!SumOf(total, views, n, cost) = SumOf(total, views, n, cost)
    /\ \A total, views, n, cost : Desk!SumOf(total, views, n, cost) = SumOf(total, views, n, cost)
    /\ \A t, c, s, r : Front!Ask(t, c, s, r) = Ask(t, c, s, r) /\ Desk!Ask(t, c, s, r) = Ask(t, c, s, r)
  BY DEF PriceUsd, Front!PriceUsd, Desk!PriceUsd, Money, Front!Money, Desk!Money,
         NoMoney, Front!NoMoney, Desk!NoMoney, SumOf, Front!SumOf, Desk!SumOf,
         Multiplied, Front!Multiplied, Desk!Multiplied,
         MultiplySlow, Front!MultiplySlow, Desk!MultiplySlow, Ask, Front!Ask, Desk!Ask

LEMMA ViewsSet ==
    ASSUME NEW v \in Views, NEW i \in Counts
    PROVE  /\ v[i] \in ViewType /\ v[i].price \in MoneyType
           /\ \A m \in MoneyType : [v EXCEPT ![i].price = m] \in Views
           /\ \A w \in ViewType : [v EXCEPT ![i] = w] \in Views
  BY DEF Views, ViewType

LEMMA OrderViewsAreViews == OrderViews \subseteq Views
  BY DEF OrderViews, Views, ViewType, OrNone

LEMMA MultipliedType ==
    ASSUME NEW v \in Views, NEW n \in Counts
    PROVE  Multiplied(v, n) \in Views
<1>1. DOMAIN v = Counts
  BY DEF Views
<1>2. ASSUME NEW i \in Counts
      PROVE  (IF i < n THEN [v[i] EXCEPT !.price = MultiplySlow(v[i].price, v[i].quantity)] ELSE v[i])
                \in ViewType
  <2>1. v[i] \in ViewType /\ v[i].price \in MoneyType /\ v[i].quantity \in Int
    BY DEF Views, ViewType
  <2>2. MultiplySlow(v[i].price, v[i].quantity) \in MoneyType
    BY <2>1, Amounts
  <2>. QED  BY <2>1, <2>2 DEF ViewType
<1>. QED  BY <1>1, <1>2 DEF Multiplied, Views

(* An order item has the quantity 0, so that it is not multiplied.         *)
LEMMA MultipliedOrders ==
    ASSUME NEW v \in OrderViews, NEW n \in Counts
    PROVE  Multiplied(v, n) = v
<1>1. DOMAIN v = Counts
  BY DEF OrderViews
<1>2. ASSUME NEW i \in Counts
      PROVE  [v[i] EXCEPT !.price = MultiplySlow(v[i].price, v[i].quantity)] = v[i]
  <2>1. v[i] \in [product : OrNone, quantity : {0}, price : MoneyType]
    BY DEF OrderViews
  <2>2. MultiplySlow(v[i].price, v[i].quantity) = v[i].price
    BY <2>1 DEF MultiplySlow
  <2>. QED  BY <2>1, <2>2
<1>3. Multiplied(v, n) = [i \in Counts |-> v[i]]
  BY <1>1, <1>2 DEF Multiplied
<1>. QED  BY <1>3 DEF OrderViews

LEMMA SumType ==
    ASSUME NEW total \in Sums, NEW v \in Views, NEW n \in Counts, NEW cost \in MoneyType
    PROVE  SumOf(total, v, n, cost) \in Sums
<1>1. [i \in 1 .. n |-> v[i - 1].price] \in Seq(MoneyType)
  <2>1. n \in Nat /\ \A i \in 1 .. n : i - 1 \in Counts
    BY RpcAssumption DEF Counts
  <2>2. \A i \in 1 .. n : v[i - 1].price \in MoneyType
    BY <2>1, ViewsSet
  <2>. QED  BY <2>1, <2>2
<1>. QED  BY <1>1 DEF SumOf, Sums

(* A call of the frontend, and the response.                               *)
Asks(t, u, hop) ==
    /\ u \in Txn /\ u.request = t.request
    /\ u.caller = FRONTEND /\ <<u.next, u.rpc>> \in PageCalls
    /\ u.hop = hop
Inserts(t, u) ==
    /\ u \in Txn /\ u.request = t.request
    /\ u.caller = FRONTEND /\ u.next = CART_SVC /\ u.rpc = "AddItem"
    /\ u.hop = 2 /\ u.add \in Item
Ends(t, u) ==
    /\ u \in Txn /\ u.request = t.request
    /\ Finished(u)

LEMMA FrontCall ==
    ASSUME NEW t \in Txn, NEW s \in Fns, NEW rpc \in Text, t.hop + 1 \in Hops
    PROVE  /\ Front!Call(t, s, rpc) \in Txn
           /\ Front!Call(t, s, rpc).hop = t.hop + 1
           /\ Front!Call(t, s, rpc).next = s
           /\ Front!Call(t, s, rpc).rpc = rpc
           /\ Front!Call(t, s, rpc).caller = FRONTEND
           /\ Front!Call(t, s, rpc).request = t.request
           /\ Front!Call(t, s, rpc).add = t.add
<1>1. 1 \in Fns
  BY Members
<1>. QED  BY <1>1 DEF Txn, Front!Call, Front!Ask

LEMMA FrontCalled ==
    ASSUME NEW t \in Txn, t.hop \in 0 .. 6
    PROVE  /\ Asks(t, Front!GetCurrencies(t), t.hop + 1)
           /\ Asks(t, Front!GetProducts(t), t.hop + 1)
           /\ Asks(t, Front!GetCart(t), t.hop + 1)
           /\ Asks(t, Front!ChooseAd(t), t.hop + 1)
           /\ Asks(t, Front!GetRecommendations(t), t.hop + 1)
<1>1. t.hop + 1 \in Hops /\ 2 \in Fns /\ 3 \in Fns /\ 4 \in Fns /\ 5 \in Fns /\ 10 \in Fns
  BY Members DEF Hops
<1>2. /\ "GetSupportedCurrencies" \in Text /\ "ListProducts" \in Text /\ "GetCart" \in Text
      /\ "GetAds" \in Text /\ "ListRecommendations" \in Text
  BY DEF Text
<1>. QED
  BY <1>1, <1>2, FrontCall
  DEF Asks, PageCalls, Front!GetCurrencies, Front!GetProducts, Front!GetCart, Front!ChooseAd,
      Front!GetRecommendations

LEMMA FrontReturn ==
    ASSUME NEW t \in Txn, t.hop \in 0 .. 6
    PROVE  /\ Ends(t, Front!ReturnResponse(t))
           /\ Front!ReturnResponse(t).hop = t.hop + 100
<1>1. (t.hop + 100) % 256 = t.hop + 100 /\ t.hop + 100 \in Hops
  BY DEF Hops
<1>2. 0 \in Fns
  BY Members
<1>3. PICK h \in Hops : h = t.hop + 100
  BY <1>1
<1>4. Front!ReturnResponse(t) = [t EXCEPT !.hop = h, !.next = 0]
  BY <1>1, <1>3 DEF Front!ReturnResponse
<1>5. /\ Front!ReturnResponse(t) \in Txn
      /\ Front!ReturnResponse(t).request = t.request /\ Front!ReturnResponse(t).next = 0
      /\ Front!ReturnResponse(t).hop = h
  BY <1>2, <1>4 DEF Txn
<1>. QED  BY <1>3, <1>5 DEF Ends, Finished

(* AskConvert and AskProduct, by whichever caller.                         *)
LEMMA AskType ==
    ASSUME NEW t \in Txn, NEW c \in Fns
    PROVE  /\ \A m \in MoneyType : AskConvert(t, c, m) \in Txn
           /\ \A id \in OrNone : AskProduct(t, c, id) \in Txn
<1>1. 2 \in Fns /\ 3 \in Fns /\ "Convert" \in Text /\ "GetProduct" \in Text
  BY Members DEF Text
<1>. QED  BY <1>1 DEF Txn, AskConvert, AskProduct, Ask

LEMMA SameAsk ==
    /\ \A t, c, m : Front!AskConvert(t, c, m) = AskConvert(t, c, m)
                    /\ Desk!AskConvert(t, c, m) = AskConvert(t, c, m)
    /\ \A t, c, id : Front!AskProduct(t, c, id) = AskProduct(t, c, id)
                     /\ Desk!AskProduct(t, c, id) = AskProduct(t, c, id)
  BY DEF AskConvert, AskProduct, Ask, Front!AskConvert, Front!AskProduct, Front!Ask,
         Desk!AskConvert, Desk!AskProduct, Desk!Ask

(* What AskConvert leaves alone. *)
LEMMA FrontConvert ==
    ASSUME NEW t \in Txn, NEW m \in MoneyType
    PROVE  Asks(t, Front!AskConvert(t, FRONTEND, m), t.hop)
<1>1. 1 \in Fns
  BY Members
<1>2. Front!AskConvert(t, FRONTEND, m) \in Txn
  BY <1>1, AskType, SameAsk
<1>. QED  BY <1>2 DEF Txn, Asks, PageCalls, Front!AskConvert, Front!Ask

LEMMA FrontProduct ==
    ASSUME NEW t \in Txn, NEW id \in OrNone
    PROVE  /\ Asks(t, Front!AskProduct(t, FRONTEND, id), t.hop)
           /\ Front!AskProduct(t, FRONTEND, id).id = id
           /\ Front!AskProduct(t, FRONTEND, id).next = PRODUCTCATA_SVC
           /\ Front!AskProduct(t, FRONTEND, id).rpc = "GetProduct"
<1>1. 1 \in Fns
  BY Members
<1>2. Front!AskProduct(t, FRONTEND, id) \in Txn
  BY <1>1, AskType, SameAsk
<1>. QED  BY <1>2 DEF Txn, Asks, PageCalls, Front!AskProduct, Front!Ask

LEMMA NamedProduct ==
    ASSUME NEW t \in Txn
    PROVE  /\ t.request.item.product \in OrNone /\ t.request.item.quantity \in Int
           /\ t.request.path \in {"product", "addToCart"} => t.request.item \in Item
  BY DEF Txn, Asked, Item, Blank, OrNone

LEMMA FrontGetProduct ==
    ASSUME NEW t \in Txn, t.hop \in 0 .. 6
    PROVE  /\ Asks(t, Front!GetProduct(t), t.hop + 1)
           /\ Front!GetProduct(t).id = t.request.item.product
           /\ Front!GetProduct(t).next = PRODUCTCATA_SVC
           /\ Front!GetProduct(t).rpc = "GetProduct"
<1>. DEFINE u == Front!AskProduct(t, FRONTEND, t.request.item.product)
<1>1. /\ Asks(t, u, t.hop) /\ u.id = t.request.item.product
      /\ u.next = PRODUCTCATA_SVC /\ u.rpc = "GetProduct"
  BY NamedProduct, FrontProduct
<1>2. t.hop + 1 \in Hops
  BY DEF Hops
<1>3. Front!GetProduct(t) = [u EXCEPT !.hop = @ + 1]
  BY DEF Front!GetProduct
<1>. HIDE DEF u
<1>. QED  BY <1>1, <1>2, <1>3 DEF Asks, Txn

LEMMA FrontInsert ==
    ASSUME NEW t \in Txn, t.hop = 1, t.request.path = "addToCart", t.id = t.request.item.product
    PROVE  Inserts(t, Front!InsertCart(t))
<1>. DEFINE u == [t EXCEPT !.add = [product |-> t.id, quantity |-> t.request.item.quantity]]
<1>1. [product |-> t.id, quantity |-> t.request.item.quantity] \in Lines
  BY NamedProduct DEF Txn, Lines
<1>0. [product |-> t.id, quantity |-> t.request.item.quantity] \in Item
  BY NamedProduct DEF Item
<1>2. u \in Txn /\ u.request = t.request /\ u.hop = t.hop
      /\ u.add = [product |-> t.id, quantity |-> t.request.item.quantity]
  BY <1>1 DEF Txn
<1>3. Front!InsertCart(t) = Front!Call(u, CART_SVC, "AddItem")
  BY DEF Front!InsertCart
<1>4. u.hop + 1 \in Hops /\ u.hop + 1 = 2 /\ 4 \in Fns /\ "AddItem" \in Text
  BY <1>2, Members DEF Hops, Text
<1>. HIDE DEF u
<1>. QED  BY <1>0, <1>2, <1>3, <1>4, FrontCall DEF Inserts

LEMMA FrontQuote ==
    ASSUME NEW t \in Txn, t.hop \in 0 .. 6
    PROVE  Asks(t, Front!GetShippingQuote(t), t.hop + 1)
<1>. DEFINE u == [t EXCEPT !.quote.flag = FALSE]
<1>1. [t.quote EXCEPT !.flag = FALSE] \in Quotes
  BY DEF Txn, Quotes
<1>2. u \in Txn /\ u.request = t.request /\ u.hop = t.hop
  BY <1>1 DEF Txn
<1>3. Front!GetShippingQuote(t) = Front!Call(u, SHIPPING_SVC, "GetQuote")
  BY DEF Front!GetShippingQuote
<1>4. u.hop + 1 \in Hops /\ 6 \in Fns /\ "GetQuote" \in Text
  BY <1>2, Members DEF Hops, Text
<1>. HIDE DEF u
<1>. QED  BY <1>2, <1>3, <1>4, FrontCall DEF Asks, PageCalls

LEMMA FrontTotal ==
    ASSUME NEW t \in Txn, t.hop \in 0 .. 6
    PROVE  /\ Ends(t, Front!CalculateTotalPrice(t))
           /\ Front!CalculateTotalPrice(t).hop = t.hop + 100
           /\ Front!CalculateTotalPrice(t).cart = t.cart
           /\ Front!CalculateTotalPrice(t).items = Multiplied(t.items, t.itemCnt)
<1>. DEFINE items == Multiplied(t.items, t.itemCnt)
            total == SumOf(t.total, items, t.itemCnt, t.quote.cost)
            u == [t EXCEPT !.items = items, !.total = total]
<1>1. items \in Views /\ t.itemCnt \in Counts /\ t.total \in Sums /\ t.quote.cost \in MoneyType
  BY MultipliedType DEF Txn, Quotes
<1>. HIDE DEF items
<1>2. total \in Sums
  BY <1>1, SumType
<1>3. Front!CalculateTotalPrice(t) = Front!ReturnResponse(u)
  BY SameRpc DEF Front!CalculateTotalPrice, items
<1>. HIDE DEF total
<1>4. u \in Txn /\ u.hop = t.hop /\ u.request = t.request /\ u.cart = t.cart /\ u.items = items
  BY <1>1, <1>2 DEF Txn
<1>. HIDE DEF u
<1>5. Ends(u, Front!ReturnResponse(u)) /\ Front!ReturnResponse(u).hop = u.hop + 100
  BY <1>4, FrontReturn
<1>6. Front!ReturnResponse(u).cart = u.cart /\ Front!ReturnResponse(u).items = u.items
  BY <1>4 DEF Front!ReturnResponse, Txn
<1>. QED  BY <1>3, <1>4, <1>5, <1>6 DEF Ends, items

(* The result of the last request is stored in the view it was for.        *)
Stored(t) == IF t.convCnt = 0 THEN t ELSE [t EXCEPT !.items[t.convCnt - 1].price = t.result]

LEMMA StoredType ==
    ASSUME NEW t \in Txn
    PROVE  /\ Stored(t) \in Txn
           /\ Stored(t).request = t.request /\ Stored(t).hop = t.hop /\ Stored(t).cart = t.cart
           /\ Stored(t).itemCnt = t.itemCnt /\ Stored(t).convCnt = t.convCnt
<1>1. CASE t.convCnt = 0
  BY <1>1 DEF Stored
<1>2. CASE t.convCnt # 0
  <2>1. t.convCnt - 1 \in Counts /\ t.items \in Views /\ t.result \in MoneyType
    BY <1>2, RpcAssumption DEF Txn, Counts
  <2>2. [t.items EXCEPT ![t.convCnt - 1].price = t.result] \in Views
    BY <2>1, ViewsSet
  <2>3. Stored(t) = [t EXCEPT !.items = [t.items EXCEPT ![t.convCnt - 1].price = t.result]]
    BY <1>2 DEF Stored, Txn
  <2>. QED  BY <2>2, <2>3 DEF Txn
<1>. QED  BY <1>1, <1>2

(* convertCurrencyOfCart asks for the next price, or is done.              *)
LEMMA FrontCart ==
    ASSUME NEW t \in Txn, t.hop \in 0 .. 6
    PROVE  /\ \/ Asks(t, Front!ConvertCurrencyOfCart(t), t.hop)
              \/ /\ Ends(t, Front!ConvertCurrencyOfCart(t))
                 /\ Front!ConvertCurrencyOfCart(t).hop = t.hop + 100
           /\ t.convCnt < t.itemCnt =>
                Front!ConvertCurrencyOfCart(t) =
                    AskConvert([Stored(t) EXCEPT !.convCnt = t.convCnt + 1], FRONTEND,
                               Stored(t).items[t.convCnt].price)
           /\ ~(t.convCnt < t.itemCnt) =>
                Front!ConvertCurrencyOfCart(t) = Front!CalculateTotalPrice(Stored(t))
<1>. DEFINE s == Stored(t)  v == [s EXCEPT !.convCnt = t.convCnt + 1]
<1>1. s \in Txn /\ s.request = t.request /\ s.hop = t.hop
      /\ s.itemCnt = t.itemCnt /\ s.convCnt = t.convCnt
  BY StoredType
<1>2. Front!ConvertCurrencyOfCart(t) =
        IF s.convCnt < s.itemCnt
        THEN Front!AskConvert([s EXCEPT !.convCnt = @ + 1], FRONTEND, s.items[s.convCnt].price)
        ELSE Front!CalculateTotalPrice(s)
  BY DEF Front!ConvertCurrencyOfCart, Stored
<1>. HIDE DEF s
<1>3. CASE t.convCnt < t.itemCnt
  <2>1. t.convCnt + 1 \in Counts /\ t.convCnt \in Counts
    BY <1>3, RpcAssumption DEF Txn, Counts
  <2>2. v \in Txn /\ v.request = t.request /\ v.hop = t.hop
    BY <1>1, <2>1 DEF Txn
  <2>3. s.items[t.convCnt].price \in MoneyType
    BY <1>1, <2>1, ViewsSet DEF Txn
  <2>4. Front!ConvertCurrencyOfCart(t) = Front!AskConvert(v, FRONTEND, s.items[t.convCnt].price)
    BY <1>1, <1>2, <1>3 DEF Txn
  <2>5. Asks(t, Front!ConvertCurrencyOfCart(t), t.hop)
    <3>. HIDE DEF v
    <3>. QED  BY <2>2, <2>3, <2>4, FrontConvert DEF Asks
  <2>. QED  BY <1>3, <2>4, <2>5, SameAsk DEF s
<1>4. CASE ~(t.convCnt < t.itemCnt)
  <2>1. Front!ConvertCurrencyOfCart(t) = Front!CalculateTotalPrice(s)
    BY <1>1, <1>2, <1>4
  <2>2. Ends(t, Front!ConvertCurrencyOfCart(t)) /\ Front!ConvertCurrencyOfCart(t).hop = t.hop + 100
    BY <1>1, <2>1, FrontTotal DEF Ends
  <2>. QED  BY <1>4, <2>1, <2>2 DEF s
<1>. QED  BY <1>3, <1>4

LEMMA HomeConverts ==
    ASSUME NEW t \in Txn, t.hop = 3
    PROVE  LET v == Front!ConvertCurrencyOfProducts(t) IN
           v \in Txn /\ v.request = t.request /\ v.hop = 4
<1>. DEFINE view == [product |-> Listed, quantity |-> 0, price |-> t.result]
            u == Front!AskConvert(t, FRONTEND, PriceUsd(Listed))
            v == [u EXCEPT !.view = view, !.viewed = 1, !.hop = u.hop + 1]
<1>1. Listed \in OrNone /\ view \in ViewType /\ PriceUsd(Listed) \in MoneyType
  BY RpcAssumption, Amounts DEF OrNone, Products, ViewType, Txn
<1>2. Asks(t, u, 3)
  BY <1>1, FrontConvert
<1>3. Front!ConvertCurrencyOfProducts(t) = v
  BY SameRpc DEF Front!ConvertCurrencyOfProducts
<1>. HIDE DEF u, view
<1>4. 4 \in Hops /\ 1 \in Counts /\ u.hop + 1 = 4
  BY <1>2, Members DEF Hops, Asks
<1>5. v \in Txn /\ v.request = t.request /\ v.hop = 4
  BY <1>1, <1>2, <1>4 DEF Txn, Asks
<1>. QED  BY <1>3, <1>5

LEMMA FrontHomePrices ==
    ASSUME NEW t \in Txn, t.hop = 3
    PROVE  Asks(t, Front!ChooseAd(Front!ConvertCurrencyOfProducts(t)), 5)
<1>. DEFINE v == Front!ConvertCurrencyOfProducts(t)
<1>1. v \in Txn /\ v.request = t.request /\ v.hop = 4
  BY HomeConverts
<1>. HIDE DEF v
<1>2. Asks(v, Front!ChooseAd(v), 5)
  BY <1>1, FrontCalled
<1>. QED  BY <1>1, <1>2 DEF Asks, v

LEMMA FrontPrice ==
    ASSUME NEW t \in Txn, t.hop \in 0 .. 5
    PROVE  /\ t.viewed = 0 => Asks(t, Front!ConvertCurrencyOfProduct(t), t.hop)
           /\ t.viewed # 0 => Asks(t, Front!ConvertCurrencyOfProduct(t), t.hop + 1)
<1>1. CASE t.viewed = 0
  <2>. DEFINE u == [t EXCEPT !.viewed = 1]
  <2>1. u \in Txn /\ u.request = t.request /\ u.hop = t.hop
    BY Members DEF Txn
  <2>2. PriceUsd(t.product) \in MoneyType
    BY Amounts DEF Txn
  <2>3. Front!ConvertCurrencyOfProduct(t) = Front!AskConvert(u, FRONTEND, PriceUsd(t.product))
    BY <1>1, SameRpc DEF Front!ConvertCurrencyOfProduct
  <2>. HIDE DEF u
  <2>. QED  BY <1>1, <2>1, <2>2, <2>3, FrontConvert DEF Asks
<1>2. CASE t.viewed # 0
  <2>. DEFINE view == [product |-> t.product, quantity |-> 0, price |-> t.result]
              u == [t EXCEPT !.view = view]
  <2>1. view \in ViewType
    BY DEF Txn, ViewType, OrNone
  <2>2. u \in Txn /\ u.request = t.request /\ u.hop = t.hop
    BY <2>1 DEF Txn
  <2>3. Front!ConvertCurrencyOfProduct(t) = Front!GetRecommendations(u)
    BY <1>2 DEF Front!ConvertCurrencyOfProduct
  <2>. HIDE DEF u
  <2>4. u.hop \in 0 .. 6
    BY <2>2
  <2>5. Asks(u, Front!GetRecommendations(u), u.hop + 1)
    BY <2>2, <2>4, FrontCalled
  <2>. QED  BY <1>2, <2>2, <2>3, <2>5 DEF Asks
<1>. QED  BY <1>1, <1>2

(* The product that was asked for last is put into its view.               *)
Filled(t) ==
    IF t.itemCnt = 0 THEN t
    ELSE [t EXCEPT !.items[t.itemCnt - 1] =
             [product  |-> t.product,
              quantity |-> t.cart.items[t.itemCnt - 1].quantity,
              price    |-> PriceUsd(t.product)]]

LEMMA CartItems ==
    ASSUME NEW t \in Txn, NEW i \in Counts
    PROVE  t.cart.items[i].product \in OrNone /\ t.cart.items[i].quantity \in Int
  BY DEF Txn, Carts, Item, Blank, OrNone

LEMMA FilledType ==
    ASSUME NEW t \in Txn
    PROVE  /\ Filled(t) \in Txn
           /\ Filled(t).request = t.request /\ Filled(t).hop = t.hop /\ Filled(t).cart = t.cart
           /\ Filled(t).itemCnt = t.itemCnt /\ Filled(t).result = t.result
<1>1. CASE t.itemCnt = 0
  BY <1>1 DEF Filled
<1>2. CASE t.itemCnt # 0
  <2>. DEFINE w == [product  |-> t.product,
                    quantity |-> t.cart.items[t.itemCnt - 1].quantity,
                    price    |-> PriceUsd(t.product)]
  <2>1. t.itemCnt - 1 \in Counts /\ t.items \in Views
    BY <1>2, RpcAssumption DEF Txn, Counts
  <2>2. w \in ViewType
    BY <2>1, CartItems, Amounts DEF Txn, ViewType, OrNone
  <2>3. [t.items EXCEPT ![t.itemCnt - 1] = w] \in Views
    BY <2>1, <2>2, ViewsSet
  <2>4. Filled(t) = [t EXCEPT !.items = [t.items EXCEPT ![t.itemCnt - 1] = w]]
    BY <1>2 DEF Filled, Txn
  <2>. QED  BY <2>3, <2>4 DEF Txn
<1>. QED  BY <1>1, <1>2

LEMMA NextHop ==
    ASSUME NEW t \in Txn, NEW u, NEW h \in 0 .. 104
    PROVE  /\ Asks(t, u, h) => Asks(t, [u EXCEPT !.hop = @ + 1], h + 1)
           /\ Ends(t, u) /\ u.hop = h + 1 => Ends(t, [u EXCEPT !.hop = @ + 1])
<1>1. h + 1 \in Hops /\ h + 1 + 1 \in Hops
  BY DEF Hops
<1>2. ASSUME Asks(t, u, h)
      PROVE  Asks(t, [u EXCEPT !.hop = @ + 1], h + 1)
  BY <1>1, <1>2 DEF Asks, Txn
<1>3. ASSUME Ends(t, u), u.hop = h + 1
      PROVE  Ends(t, [u EXCEPT !.hop = @ + 1])
  <2>1. [u EXCEPT !.hop = @ + 1] \in Txn /\ [u EXCEPT !.hop = @ + 1].hop = h + 2
        /\ [u EXCEPT !.hop = @ + 1].request = u.request /\ [u EXCEPT !.hop = @ + 1].next = u.next
    BY <1>1, <1>3 DEF Ends, Txn
  <2>. QED  BY <1>3, <2>1 DEF Ends, Finished
<1>. QED  BY <1>2, <1>3

(* getCartItemInfo asks for the next product, for the first price, or has  *)
(* an empty cart to show.                                                  *)
LEMMA FrontItems ==
    ASSUME NEW t \in Txn, t.hop \in 0 .. 5
    PROVE  /\ \/ Asks(t, Front!GetCartItemInfo(t), t.hop)
              \/ Asks(t, Front!GetCartItemInfo(t), t.hop + 1)
              \/ /\ Ends(t, Front!GetCartItemInfo(t))
                 /\ Front!GetCartItemInfo(t).hop \in {t.hop + 100, t.hop + 101}
           /\ t.cart.num > 0 /\ t.itemCnt < t.cart.num =>
                Front!GetCartItemInfo(t) =
                    AskProduct([Filled(t) EXCEPT !.itemCnt = t.itemCnt + 1], FRONTEND,
                               t.cart.items[t.itemCnt].product)
           /\ t.cart.num > 0 /\ ~(t.itemCnt < t.cart.num) =>
                Front!GetCartItemInfo(t) =
                    [Front!ConvertCurrencyOfCart([Filled(t) EXCEPT !.convCnt = 0])
                        EXCEPT !.hop = @ + 1]
<1>. DEFINE s == Filled(t)
<1>0. /\ s \in Txn /\ s.request = t.request /\ s.hop = t.hop /\ s.cart = t.cart
      /\ s.itemCnt = t.itemCnt
  BY FilledType
<1>1. t.cart.num \in Counts /\ t.itemCnt \in Counts
  BY DEF Txn, Carts
<1>2. Front!GetCartItemInfo(t) =
        IF t.cart.num <= 0 THEN Front!ReturnResponse([t EXCEPT !.total = <<>>])
        ELSE IF t.itemCnt < t.cart.num
        THEN Front!AskProduct([s EXCEPT !.itemCnt = @ + 1], FRONTEND, t.cart.items[t.itemCnt].product)
        ELSE [Front!ConvertCurrencyOfCart([s EXCEPT !.convCnt = 0]) EXCEPT !.hop = @ + 1]
  BY SameRpc DEF Front!GetCartItemInfo, Filled
<1>. HIDE DEF s
<1>3. CASE t.cart.num <= 0
  <2>. DEFINE u == [t EXCEPT !.total = <<>>]
  <2>0. <<>> \in Sums
    BY DEF Sums
  <2>1. u \in Txn /\ u.hop = t.hop /\ u.request = t.request
    BY <2>0 DEF Txn
  <2>2. Front!GetCartItemInfo(t) = Front!ReturnResponse(u)
    BY <1>2, <1>3
  <2>. HIDE DEF u
  <2>3. Ends(u, Front!ReturnResponse(u)) /\ Front!ReturnResponse(u).hop = u.hop + 100
    BY <2>1, FrontReturn
  <2>4. ~(t.cart.num > 0)
    BY <1>1, <1>3 DEF Counts
  <2>. QED  BY <2>1, <2>2, <2>3, <2>4 DEF Ends
<1>4. CASE ~(t.cart.num <= 0) /\ t.itemCnt < t.cart.num
  <2>. DEFINE v == [s EXCEPT !.itemCnt = t.itemCnt + 1]
  <2>1. t.itemCnt + 1 \in Counts
    BY <1>1, <1>4, RpcAssumption DEF Counts
  <2>2. v \in Txn /\ v.request = t.request /\ v.hop = t.hop
    BY <1>0, <2>1 DEF Txn
  <2>3. t.cart.items[t.itemCnt].product \in OrNone
    BY <1>1, CartItems
  <2>4. Front!GetCartItemInfo(t) = Front!AskProduct(v, FRONTEND, t.cart.items[t.itemCnt].product)
    BY <1>0, <1>2, <1>4
  <2>5. Asks(t, Front!GetCartItemInfo(t), t.hop)
    <3>. HIDE DEF v
    <3>. QED  BY <2>2, <2>3, <2>4, FrontProduct DEF Asks
  <2>. QED  BY <1>4, <2>4, <2>5, SameAsk DEF s
<1>5. CASE ~(t.cart.num <= 0) /\ ~(t.itemCnt < t.cart.num)
  <2>. DEFINE v == [s EXCEPT !.convCnt = 0]  w == Front!ConvertCurrencyOfCart(v)
  <2>1. v \in Txn /\ v.request = t.request /\ v.hop = t.hop
    BY <1>0, Members DEF Txn
  <2>2. Front!GetCartItemInfo(t) = [w EXCEPT !.hop = @ + 1]
    BY <1>2, <1>5
  <2>. HIDE DEF v
  <2>3. \/ Asks(v, w, v.hop)
        \/ Ends(v, w) /\ w.hop = v.hop + 100
    <3>1. v.hop \in 0 .. 6
      BY <2>1
    <3>. QED  BY <2>1, <3>1, FrontCart
  <2>. HIDE DEF w
  <2>4. \/ Asks(t, w, t.hop)
        \/ Ends(t, w) /\ w.hop = t.hop + 99 + 1
    BY <2>1, <2>3 DEF Asks, Ends
  <2>5. t.hop \in 0 .. 104 /\ t.hop + 99 \in 0 .. 104
    OBVIOUS
  <2>6. \/ Asks(t, [w EXCEPT !.hop = @ + 1], t.hop + 1)
        \/ Ends(t, [w EXCEPT !.hop = @ + 1]) /\ w.hop = t.hop + 100
    BY <2>4, <2>5, NextHop
  <2>7. w.hop = t.hop + 100 /\ w \in Txn => [w EXCEPT !.hop = @ + 1].hop = t.hop + 101
    BY DEF Txn
  <2>8. w \in Txn
    BY <2>4 DEF Asks, Ends
  <2>. QED  BY <1>5, <2>2, <2>6, <2>7, <2>8 DEF s, v, w
<1>. QED  BY <1>3, <1>4, <1>5

LEMMA FrontCost ==
    ASSUME NEW t \in Txn, t.hop = 4
    PROVE  \/ Asks(t, Front!ConvertCurrencyOfShippingQuote(t), 4)
           \/ Asks(t, Front!ConvertCurrencyOfShippingQuote(t), 5)
           \/ Asks(t, Front!ConvertCurrencyOfShippingQuote(t), 6)
           \/ Ends(t, Front!ConvertCurrencyOfShippingQuote(t))
<1>1. CASE t.quote.flag
  <2>. DEFINE u == [t EXCEPT !.quote.cost = t.result]  w == Front!GetCartItemInfo(u)
  <2>1. [t.quote EXCEPT !.cost = t.result] \in Quotes
    BY DEF Txn, Quotes
  <2>2. u \in Txn /\ u.request = t.request /\ u.hop = 4
    BY <2>1 DEF Txn
  <2>3. Front!ConvertCurrencyOfShippingQuote(t) = [w EXCEPT !.hop = @ + 1]
    BY <1>1 DEF Front!ConvertCurrencyOfShippingQuote
  <2>. HIDE DEF u
  <2>4. \/ Asks(u, w, 4) \/ Asks(u, w, 5)
        \/ Ends(u, w) /\ w.hop = 103 + 1
        \/ Ends(u, w) /\ w.hop = 104 + 1
    <3>1. u.hop \in 0 .. 5 /\ u.hop + 1 = 5 /\ u.hop + 100 = 103 + 1 /\ u.hop + 101 = 104 + 1
      BY <2>2
    <3>2. \/ Asks(u, w, u.hop) \/ Asks(u, w, u.hop + 1)
          \/ Ends(u, w) /\ w.hop \in {u.hop + 100, u.hop + 101}
      BY <2>2, <3>1, FrontItems
    <3>. HIDE DEF w
    <3>. QED  BY <2>2, <3>1, <3>2
  <2>. HIDE DEF w
  <2>5. \/ Asks(t, w, 4) \/ Asks(t, w, 5)
        \/ Ends(t, w) /\ w.hop = 103 + 1
        \/ Ends(t, w) /\ w.hop = 104 + 1
    BY <2>2, <2>4 DEF Asks, Ends
  <2>6. /\ Asks(t, w, 4) => Asks(t, [w EXCEPT !.hop = @ + 1], 5)
        /\ Asks(t, w, 5) => Asks(t, [w EXCEPT !.hop = @ + 1], 6)
        /\ Ends(t, w) /\ w.hop = 103 + 1 => Ends(t, [w EXCEPT !.hop = @ + 1])
        /\ Ends(t, w) /\ w.hop = 104 + 1 => Ends(t, [w EXCEPT !.hop = @ + 1])
    BY NextHop
  <2>. QED  BY <2>3, <2>5, <2>6
<1>2. CASE ~t.quote.flag
  <2>. DEFINE u == Front!AskConvert(t, FRONTEND, t.quote.cost)
  <2>1. t.quote.cost \in MoneyType
    BY DEF Txn, Quotes
  <2>2. Asks(t, u, 4)
    BY <2>1, FrontConvert
  <2>3. Front!ConvertCurrencyOfShippingQuote(t) = [u EXCEPT !.quote.flag = TRUE]
    BY <1>2 DEF Front!ConvertCurrencyOfShippingQuote
  <2>. HIDE DEF u
  <2>4. [u.quote EXCEPT !.flag = TRUE] \in Quotes
    BY <2>2 DEF Asks, Txn, Quotes
  <2>. QED  BY <2>2, <2>3, <2>4 DEF Asks, Txn
<1>. QED  BY <1>1, <1>2

LEMMA Zeroed ==
    ASSUME NEW t \in Txn, NEW u, NEW h, Asks(t, u, h)
    PROVE  /\ Asks(t, [u EXCEPT !.viewed = 0], h) /\ [u EXCEPT !.viewed = 0].id = u.id
           /\ [u EXCEPT !.viewed = 0].next = u.next /\ [u EXCEPT !.viewed = 0].rpc = u.rpc
           /\ Asks(t, [u EXCEPT !.itemCnt = 0], h)
  BY Members DEF Asks, Txn

(* A page of the frontend: what a handler hands on.                        *)
Handled(t, u) == Ends(t, u) \/ \E h \in 0 .. 6 : Asks(t, u, h)

LEMMA HomeStep ==
    ASSUME NEW t \in Txn, t.hop \in 0 .. 6
    PROVE  Handled(t, Front!HomeHandler(t))
<1>1. CASE t.hop = 0
  <2>1. Asks(t, Front!GetCurrencies(t), 1)
    BY <1>1, FrontCalled
  <2>. QED  BY <1>1, <2>1 DEF Front!HomeHandler, Handled
<1>2. CASE t.hop = 1
  <2>1. Asks(t, Front!GetProducts(t), 2)
    BY <1>2, FrontCalled
  <2>2. Asks(t, [Front!GetProducts(t) EXCEPT !.viewed = 0], 2)
    BY <2>1, Zeroed
  <2>. QED  BY <1>2, <2>2 DEF Front!HomeHandler, Handled
<1>3. CASE t.hop = 2
  <2>1. Asks(t, Front!GetCart(t), 3)
    BY <1>3, FrontCalled
  <2>. QED  BY <1>3, <2>1 DEF Front!HomeHandler, Handled
<1>4. CASE t.hop = 3
  <2>1. Asks(t, Front!ChooseAd(Front!ConvertCurrencyOfProducts(t)), 5)
    BY <1>4, FrontHomePrices
  <2>. QED  BY <1>4, <2>1 DEF Front!HomeHandler, Handled
<1>5. CASE t.hop = 4
  <2>1. Asks(t, Front!ChooseAd(t), 5)
    BY <1>5, FrontCalled
  <2>. QED  BY <1>5, <2>1 DEF Front!HomeHandler, Handled
<1>6. CASE t.hop \in {5, 6}
  <2>1. Ends(t, Front!ReturnResponse(t))
    BY FrontReturn
  <2>. QED  BY <1>6, <2>1 DEF Front!HomeHandler, Handled
<1>. QED  BY <1>1, <1>2, <1>3, <1>4, <1>5, <1>6

LEMMA ProductStep ==
    ASSUME NEW t \in Txn, t.hop \in 0 .. 6
    PROVE  Handled(t, Front!ProductHandler(t))
<1>1. CASE t.hop = 0
  <2>1. Asks(t, Front!GetProduct(t), 1)
    BY <1>1, FrontGetProduct
  <2>2. Asks(t, [Front!GetProduct(t) EXCEPT !.viewed = 0], 1)
    BY <2>1, Zeroed
  <2>. QED  BY <1>1, <2>2 DEF Front!ProductHandler, Handled
<1>2. CASE t.hop = 1
  <2>1. Asks(t, Front!GetCurrencies(t), 2)
    BY <1>2, FrontCalled
  <2>. QED  BY <1>2, <2>1 DEF Front!ProductHandler, Handled
<1>3. CASE t.hop = 2
  <2>1. Asks(t, Front!GetCart(t), 3)
    BY <1>3, FrontCalled
  <2>. QED  BY <1>3, <2>1 DEF Front!ProductHandler, Handled
<1>4. CASE t.hop = 3
  <2>1. Asks(t, Front!ConvertCurrencyOfProduct(t), 3) \/ Asks(t, Front!ConvertCurrencyOfProduct(t), 4)
    BY <1>4, FrontPrice
  <2>. QED  BY <1>4, <2>1 DEF Front!ProductHandler, Handled
<1>5. CASE t.hop = 4
  <2>1. Asks(t, Front!ChooseAd(t), 5)
    BY <1>5, FrontCalled
  <2>. QED  BY <1>5, <2>1 DEF Front!ProductHandler, Handled
<1>6. CASE t.hop \in {5, 6}
  <2>1. Ends(t, Front!ReturnResponse(t))
    BY FrontReturn
  <2>. QED  BY <1>6, <2>1 DEF Front!ProductHandler, Handled
<1>. QED  BY <1>1, <1>2, <1>3, <1>4, <1>5, <1>6

LEMMA AddToCartStep ==
    ASSUME NEW t \in Txn, t.hop \in 0 .. 6, t.request.path = "addToCart", t.next = FRONTEND,
           Adding(t)
    PROVE  LET u == Front!AddToCartHandler(t) IN
           /\ Handled(t, u) \/ Inserts(t, u)
           /\ Adding(u)
<1>1. CASE t.hop = 0
  <2>1. /\ Asks(t, Front!GetProduct(t), 1) /\ Front!GetProduct(t).next = PRODUCTCATA_SVC
        /\ Front!GetProduct(t).id = t.request.item.product
    BY <1>1, FrontGetProduct
  <2>. DEFINE u == [Front!GetProduct(t) EXCEPT !.viewed = 0]
  <2>2. /\ Asks(t, u, 1) /\ u.next = PRODUCTCATA_SVC /\ u.id = t.request.item.product
    BY <2>1, Zeroed
  <2>3. Front!AddToCartHandler(t) = u
    BY <1>1 DEF Front!AddToCartHandler
  <2>. HIDE DEF u
  <2>. QED  BY <2>2, <2>3 DEF Handled, Asks, Adding
<1>2. CASE t.hop = 1
  <2>1. Inserts(t, Front!InsertCart(t))
    BY <1>2, FrontInsert DEF Adding
  <2>2. Front!AddToCartHandler(t) = Front!InsertCart(t)
    BY <1>2 DEF Front!AddToCartHandler
  <2>. QED  BY <2>1, <2>2 DEF Inserts, Adding
<1>3. CASE t.hop \in 2 .. 6
  <2>1. Ends(t, Front!ReturnResponse(t))
    BY FrontReturn
  <2>2. Front!AddToCartHandler(t) = Front!ReturnResponse(t)
    BY <1>3 DEF Front!AddToCartHandler
  <2>. QED  BY <2>1, <2>2 DEF Handled, Ends, Finished, Adding
<1>. QED  BY <1>1, <1>2, <1>3

LEMMA ViewCartStep ==
    ASSUME NEW t \in Txn, t.hop \in 0 .. 6
    PROVE  Handled(t, Front!ViewCartHandler(t))
<1>1. CASE t.hop = 0
  <2>1. Asks(t, Front!GetCurrencies(t), 1)
    BY <1>1, FrontCalled
  <2>. QED  BY <1>1, <2>1 DEF Front!ViewCartHandler, Handled
<1>2. CASE t.hop = 1
  <2>1. Asks(t, Front!GetCart(t), 2)
    BY <1>2, FrontCalled
  <2>2. Asks(t, [Front!GetCart(t) EXCEPT !.itemCnt = 0], 2)
    BY <2>1, Zeroed
  <2>. QED  BY <1>2, <2>2 DEF Front!ViewCartHandler, Handled
<1>3. CASE t.hop = 2
  <2>1. Asks(t, Front!GetRecommendations(t), 3)
    BY <1>3, FrontCalled
  <2>. QED  BY <1>3, <2>1 DEF Front!ViewCartHandler, Handled
<1>4. CASE t.hop = 3
  <2>1. Asks(t, Front!GetShippingQuote(t), 4)
    BY <1>4, FrontQuote
  <2>. QED  BY <1>4, <2>1 DEF Front!ViewCartHandler, Handled
<1>5. CASE t.hop = 4
  <2>1. Front!ViewCartHandler(t) = Front!ConvertCurrencyOfShippingQuote(t)
    BY <1>5 DEF Front!ViewCartHandler
  <2>. QED  BY <1>5, <2>1, FrontCost DEF Handled
<1>6. CASE t.hop = 5
  <2>1. Front!ViewCartHandler(t) = Front!GetCartItemInfo(t)
    BY <1>6 DEF Front!ViewCartHandler
  <2>2. \/ Asks(t, Front!GetCartItemInfo(t), 5) \/ Asks(t, Front!GetCartItemInfo(t), 6)
        \/ Ends(t, Front!GetCartItemInfo(t))
    <3>1. t.hop \in 0 .. 5 /\ t.hop + 1 = 6
      BY <1>6
    <3>. QED  BY <1>6, <3>1, FrontItems
  <2>. QED  BY <2>1, <2>2 DEF Handled
<1>7. CASE t.hop = 6
  <2>1. Front!ViewCartHandler(t) = Front!ConvertCurrencyOfCart(t)
    BY <1>7 DEF Front!ViewCartHandler
  <2>2. Asks(t, Front!ConvertCurrencyOfCart(t), 6) \/ Ends(t, Front!ConvertCurrencyOfCart(t))
    BY <1>7, FrontCart
  <2>. QED  BY <2>1, <2>2 DEF Handled
<1>. QED  BY <1>1, <1>2, <1>3, <1>4, <1>5, <1>6, <1>7

(* placeOrderHandler: the only page that calls the checkout service.       *)
LEMMA PlaceOrderStep ==
    ASSUME NEW t \in Txn, t.hop \in 0 .. 3
    PROVE  LET u == Front!PlaceOrderHandler(t) IN
           /\ t.hop = 0 => /\ u \in Txn /\ u.request = t.request /\ u.hop = 1
                           /\ u.next = CHECKOUT_SVC /\ u.coHop = 0
           /\ t.hop \in {1, 2} => Asks(t, u, t.hop + 1)
           /\ t.hop = 3 => Ends(t, u)
<1>. DEFINE u == Front!Call(t, CHECKOUT_SVC, "PlaceOrder")
<1>1. ASSUME t.hop = 0
      PROVE  LET v == Front!PlaceOrderHandler(t) IN
             /\ v \in Txn /\ v.request = t.request /\ v.hop = 1
             /\ v.next = CHECKOUT_SVC /\ v.coHop = 0
  <2>1. 1 \in Hops /\ 7 \in Fns /\ "PlaceOrder" \in Text /\ 0 \in DeskHops
    BY Members DEF Hops, Text, DeskHops
  <2>2. u \in Txn /\ u.hop = 1 /\ u.next = CHECKOUT_SVC /\ u.request = t.request
    BY <1>1, <2>1, FrontCall
  <2>3. Front!PlaceOrderHandler(t) = [u EXCEPT !.coHop = 0]
    BY <1>1 DEF Front!PlaceOrderHandler, Front!PlaceOrder
  <2>. HIDE DEF u
  <2>. QED  BY <2>1, <2>2, <2>3 DEF Txn
<1>2. t.hop = 1 => Asks(t, Front!PlaceOrderHandler(t), 2)
  BY FrontCalled DEF Front!PlaceOrderHandler
<1>3. t.hop = 2 => Asks(t, Front!PlaceOrderHandler(t), 3)
  BY FrontCalled DEF Front!PlaceOrderHandler
<1>4. t.hop = 3 => Ends(t, Front!PlaceOrderHandler(t))
  BY FrontReturn DEF Front!PlaceOrderHandler
<1>. QED  BY <1>1, <1>2, <1>3, <1>4

(* What a handler hands on is on its course, but that an order is only     *)
(* three calls of the frontend long.                                       *)
LEMMA HandledCourse ==
    ASSUME NEW t \in Txn, NEW u, Handled(t, u),
           t.request.path = "checkout" => u.hop \in {1, 2, 3, 103},
           t.request.path = "addToCart" => Adding(u)
    PROVE  u \in Txn /\ u.request = t.request /\ Course(u) /\ (Browsing(u) \/ Finished(u))
<1>1. CASE Ends(t, u)
  BY <1>1 DEF Ends, Finished, Course, Adding
<1>2. ASSUME NEW h \in 0 .. 6, Asks(t, u, h)
      PROVE  u \in Txn /\ u.request = t.request /\ Course(u) /\ Browsing(u)
  <2>1. Browsing(u)
    BY <1>2 DEF Asks, Browsing, FrontCalls
  <2>2. Adding(u)
    BY <1>2 DEF Asks, Adding, PageCalls
  <2>. QED  BY <1>2, <2>1, <2>2 DEF Asks, Course
<1>. QED  BY <1>1, <1>2 DEF Handled

(* httpRequestDispatcher: a request stays on its course, and only an order *)
(* that has just arrived goes to the checkout service.                     *)
LEMMA FrontStep ==
    ASSUME NEW t \in Txn, Browsing(t), Adding(t), t.next = FRONTEND
    PROVE  LET u == Front!HttpRequestDispatcher(t) IN
           /\ u \in Txn /\ u.request = t.request /\ Course(u)
           /\ IF t.request.path = "checkout" /\ t.hop = 0
              THEN u.hop = 1 /\ u.next = CHECKOUT_SVC /\ u.coHop = 0
              ELSE (Browsing(u) \/ Finished(u)) /\ (t.request.path = "checkout" => u.hop # 0)
<1>. DEFINE u == Front!HttpRequestDispatcher(t)
<1>0. t.hop \in 0 .. 6 /\ t.request.path \in Paths
  BY DEF Browsing, Txn, Asked
<1>. SUFFICES /\ u \in Txn /\ u.request = t.request /\ Course(u)
              /\ IF t.request.path = "checkout" /\ t.hop = 0
                 THEN u.hop = 1 /\ u.next = CHECKOUT_SVC /\ u.coHop = 0
                 ELSE (Browsing(u) \/ Finished(u)) /\ (t.request.path = "checkout" => u.hop # 0)
  OBVIOUS
<1>1. CASE t.request.path = "checkout"
  <2>1. u = Front!PlaceOrderHandler(t)
    BY <1>1 DEF Front!HttpRequestDispatcher
  <2>2. t.hop \in 0 .. 3
    BY <1>0, <1>1 DEF Browsing
  <2>. HIDE DEF u
  <2>3. CASE t.hop = 0
    <3>1. u \in Txn /\ u.request = t.request /\ u.hop = 1 /\ u.next = CHECKOUT_SVC /\ u.coHop = 0
      BY <2>1, <2>3, PlaceOrderStep
    <3>. QED  BY <1>1, <2>3, <3>1 DEF Course, Ordering, Adding
  <2>4. CASE t.hop \in {1, 2}
    <3>1. Asks(t, u, t.hop + 1)
      BY <2>1, <2>4, PlaceOrderStep
    <3>2. Handled(t, u) /\ u.hop \in {2, 3}
      BY <2>4, <3>1 DEF Handled, Asks
    <3>. QED  BY <1>1, <2>4, <3>2, HandledCourse
  <2>5. CASE t.hop = 3
    <3>1. Ends(t, u) /\ u.hop = 103
      BY <1>0, <2>1, <2>5, PlaceOrderStep, FrontReturn DEF Front!PlaceOrderHandler
    <3>2. Handled(t, u)
      BY <3>1 DEF Handled
    <3>. QED  BY <1>1, <2>5, <3>1, <3>2, HandledCourse
  <2>. QED  BY <2>2, <2>3, <2>4, <2>5
<1>2. CASE t.request.path = "addToCart"
  <2>1. u = Front!AddToCartHandler(t)
    BY <1>2 DEF Front!HttpRequestDispatcher
  <2>. HIDE DEF u
  <2>2. (Handled(t, u) \/ Inserts(t, u)) /\ Adding(u)
    BY <1>0, <1>2, <2>1, AddToCartStep
  <2>3. CASE Handled(t, u)
    <3>. QED  BY <1>2, <2>2, <2>3, HandledCourse
  <2>4. CASE Inserts(t, u)
    BY <1>2, <2>2, <2>4 DEF Inserts, Course, Browsing, FrontCalls
  <2>. QED  BY <2>2, <2>3, <2>4
<1>3. CASE t.request.path = "cart"
  <2>1. u = t
    BY <1>3 DEF Front!HttpRequestDispatcher
  <2>. QED  BY <1>3, <2>1 DEF Course
<1>4. CASE t.request.path \in {"home", "product", "viewCart", "setCurrency", "none"}
  <2>1. Handled(t, u)
    <3>1. Ends(t, Front!ReturnResponse(t))
      BY <1>0, FrontReturn
    <3>. QED
      BY <1>0, <1>4, <3>1, HomeStep, ProductStep, ViewCartStep
      DEF Front!HttpRequestDispatcher, Front!SetCurrencyHandler, Handled
  <2>. HIDE DEF u
  <2>2. u \in Txn /\ u.request = t.request /\ Course(u) /\ (Browsing(u) \/ Finished(u))
    BY <1>4, <2>1, HandledCourse
  <2>. QED  BY <1>4, <2>2
<1>. QED  BY <1>0, <1>1, <1>2, <1>3, <1>4 DEF Paths

-----------------------------------------------------------------------------
(* A call of the checkout service, and its return to the frontend.         *)
OrderAsks(t, u, hop) ==
    /\ u \in Txn /\ u.request = t.request /\ u.hop = t.hop
    /\ u.caller = CHECKOUT_SVC /\ u.coHop = hop /\ <<u.next, u.rpc>> \in DeskCalls(hop)
OrderReturns(t, u) ==
    /\ u \in Txn /\ u.request = t.request /\ u.hop = t.hop
    /\ u.next = FRONTEND

LEMMA DeskCall ==
    ASSUME NEW t \in Txn, NEW s \in Fns, NEW rpc \in Text, t.coHop + 1 \in DeskHops
    PROVE  LET u == Desk!Call(t, s, rpc) IN
           /\ u \in Txn /\ u.request = t.request /\ u.hop = t.hop
           /\ u.caller = CHECKOUT_SVC /\ u.next = s /\ u.rpc = rpc
           /\ u.coHop = t.coHop + 1
<1>1. 7 \in Fns
  BY Members
<1>. QED  BY <1>1 DEF Txn, Desk!Call, Desk!Ask

LEMMA DeskCalled ==
    ASSUME NEW t \in Txn
    PROVE  /\ t.coHop = 0 => OrderAsks(t, Desk!GetCart(t), 1)
           /\ t.coHop = 6 => OrderAsks(t, Desk!ShipOrder(t), 7)
           /\ t.coHop = 7 => OrderAsks(t, Desk!EmptyUserCart(t), 8)
           /\ t.coHop = 8 => OrderAsks(t, Desk!SendOrderConfirmation(t), 9)
<1>1. /\ 4 \in Fns /\ 6 \in Fns /\ 9 \in Fns /\ "GetCart" \in Text /\ "ShipOrder" \in Text
      /\ "EmptyCart" \in Text /\ "SendOrderConfirmation" \in Text
  BY Members DEF Text
<1>2. \A h \in 0 .. 9 : h \in DeskHops
  BY Members
<1>3. t.coHop = 0 => OrderAsks(t, Desk!GetCart(t), 1)
  BY <1>1, <1>2, DeskCall DEF OrderAsks, DeskCalls, Desk!GetCart
<1>4. t.coHop = 6 => OrderAsks(t, Desk!ShipOrder(t), 7)
  BY <1>1, <1>2, DeskCall DEF OrderAsks, DeskCalls, Desk!ShipOrder
<1>5. t.coHop = 7 => OrderAsks(t, Desk!EmptyUserCart(t), 8)
  BY <1>1, <1>2, DeskCall DEF OrderAsks, DeskCalls, Desk!EmptyUserCart
<1>6. t.coHop = 8 => OrderAsks(t, Desk!SendOrderConfirmation(t), 9)
  BY <1>1, <1>2, DeskCall DEF OrderAsks, DeskCalls, Desk!SendOrderConfirmation
<1>. QED  BY <1>3, <1>4, <1>5, <1>6

LEMMA DeskConvert ==
    ASSUME NEW t \in Txn, NEW m \in MoneyType, t.coHop \in {2, 4}
    PROVE  OrderAsks(t, Desk!AskConvert(t, CHECKOUT_SVC, m), t.coHop)
<1>1. 7 \in Fns
  BY Members
<1>2. Desk!AskConvert(t, CHECKOUT_SVC, m) \in Txn
  BY <1>1, AskType, SameAsk
<1>. QED  BY <1>2 DEF Txn, OrderAsks, DeskCalls, Desk!AskConvert, Desk!Ask

LEMMA DeskProduct ==
    ASSUME NEW t \in Txn, NEW id \in OrNone, t.coHop = 1
    PROVE  OrderAsks(t, Desk!AskProduct(t, CHECKOUT_SVC, id), 1)
<1>1. 7 \in Fns
  BY Members
<1>2. Desk!AskProduct(t, CHECKOUT_SVC, id) \in Txn
  BY <1>1, AskType, SameAsk
<1>. QED  BY <1>2 DEF Txn, OrderAsks, DeskCalls, Desk!AskProduct, Desk!Ask

LEMMA DeskQuote ==
    ASSUME NEW t \in Txn, t.coHop = 3
    PROVE  OrderAsks(t, Desk!QuoteShipping(t), 4)
<1>. DEFINE u == [t EXCEPT !.quote.flag = FALSE]
<1>1. [t.quote EXCEPT !.flag = FALSE] \in Quotes
  BY DEF Txn, Quotes
<1>2. u \in Txn /\ u.request = t.request /\ u.hop = t.hop /\ u.coHop = 3
  BY <1>1 DEF Txn
<1>3. Desk!QuoteShipping(t) = Desk!Call(u, SHIPPING_SVC, "GetQuote")
  BY DEF Desk!QuoteShipping
<1>4. u.coHop + 1 \in DeskHops /\ u.coHop + 1 = 4 /\ 6 \in Fns /\ "GetQuote" \in Text
  BY <1>2, Members DEF DeskHops, Text
<1>. HIDE DEF u
<1>5. LET v == Desk!Call(u, SHIPPING_SVC, "GetQuote") IN
      /\ v \in Txn /\ v.request = u.request /\ v.hop = u.hop
      /\ v.caller = CHECKOUT_SVC /\ v.next = SHIPPING_SVC /\ v.rpc = "GetQuote" /\ v.coHop = 4
  BY <1>2, <1>4, DeskCall
<1>. QED  BY <1>2, <1>3, <1>5 DEF OrderAsks, DeskCalls

(* The total is charged as it was computed: order items are not multiplied.*)
LEMMA DeskCharge ==
    ASSUME NEW t \in Txn, t.coHop = 5
    PROVE  /\ OrderAsks(t, Desk!ChargeCard(Desk!CalculateTotalPrice(t)), 6)
           /\ Desk!ChargeCard(Desk!CalculateTotalPrice(t)).cart = t.cart
           /\ Desk!ChargeCard(Desk!CalculateTotalPrice(t)).charge =
                    SumOf(t.total, t.orders, t.orderCnt, t.quote.cost)
<1>. DEFINE total == SumOf(t.total, t.orders, t.orderCnt, t.quote.cost)
            u == [t EXCEPT !.total = total]
            v == [u EXCEPT !.charge = total]
<1>0. /\ t.orders \in OrderViews /\ t.orders \in Views /\ t.orderCnt \in Counts
      /\ t.total \in Sums /\ t.quote.cost \in MoneyType
  BY OrderViewsAreViews DEF Txn, Quotes
<1>1. Multiplied(t.orders, t.orderCnt) = t.orders
  BY <1>0, MultipliedOrders
<1>2. total \in Sums
  BY <1>0, SumType
<1>3. Desk!CalculateTotalPrice(t) = [t EXCEPT !.orders = t.orders, !.total = total]
  BY <1>1, SameRpc DEF Desk!CalculateTotalPrice
<1>. HIDE DEF total
<1>4. Desk!CalculateTotalPrice(t) = u
  BY <1>2, <1>3 DEF Txn
<1>5. u \in Txn /\ u.total = total
  BY <1>2 DEF Txn
<1>6. Desk!ChargeCard(u) = Desk!Call(v, PAYMENT_SVC, "Charge")
  BY <1>5 DEF Desk!ChargeCard
<1>7. /\ v \in Txn /\ v.request = t.request /\ v.hop = t.hop /\ v.coHop = 5
      /\ v.charge = total /\ v.cart = t.cart
  BY <1>2 DEF Txn
<1>. HIDE DEF u, v
<1>8. v.coHop + 1 \in DeskHops /\ v.coHop + 1 = 6 /\ 8 \in Fns /\ "Charge" \in Text
  BY <1>7, Members DEF DeskHops, Text
<1>9. LET w == Desk!Call(v, PAYMENT_SVC, "Charge") IN
      /\ w \in Txn /\ w.request = v.request /\ w.hop = v.hop
      /\ w.caller = CHECKOUT_SVC /\ w.next = PAYMENT_SVC /\ w.rpc = "Charge" /\ w.coHop = 6
  BY <1>7, <1>8, DeskCall
<1>10. /\ Desk!Call(v, PAYMENT_SVC, "Charge").charge = v.charge
       /\ Desk!Call(v, PAYMENT_SVC, "Charge").cart = v.cart
  BY <1>7 DEF Desk!Call, Desk!Ask, Txn
<1>. QED  BY <1>4, <1>6, <1>7, <1>9, <1>10 DEF OrderAsks, DeskCalls, total

LEMMA OrderViewsSet ==
    ASSUME NEW v \in OrderViews, NEW i \in Counts
    PROVE  /\ v[i].price \in MoneyType /\ v[i].quantity = 0
           /\ \A m \in MoneyType : [v EXCEPT ![i].price = m] \in OrderViews
           /\ \A p \in OrNone, m \in MoneyType :
                [v EXCEPT ![i].product = p, ![i].price = m] \in OrderViews
  BY DEF OrderViews

(* As in the frontend: the result is stored where it was asked for, and    *)
(* the product with its price.                                             *)
StoredOrder(t) ==
    IF t.orderConv = 0 THEN t ELSE [t EXCEPT !.orders[t.orderConv - 1].price = t.result]
FilledOrder(t) ==
    IF t.orderCnt = 0 THEN t
    ELSE [t EXCEPT !.orders[t.orderCnt - 1].product = t.product,
                   !.orders[t.orderCnt - 1].price = PriceUsd(t.product)]

LEMMA StoredOrderType ==
    ASSUME NEW t \in Txn
    PROVE  LET u == StoredOrder(t) IN
           /\ u \in Txn /\ u.request = t.request /\ u.hop = t.hop /\ u.coHop = t.coHop
           /\ u.orderCnt = t.orderCnt /\ u.orderConv = t.orderConv /\ u.cart = t.cart
           /\ t.orderConv # 0 => u.orders = [t.orders EXCEPT ![t.orderConv - 1].price = t.result]
           /\ t.orderConv = 0 => u.orders = t.orders
<1>1. CASE t.orderConv = 0
  BY <1>1 DEF StoredOrder
<1>2. CASE t.orderConv # 0
  <2>1. t.orderConv - 1 \in Counts /\ t.orders \in OrderViews /\ t.result \in MoneyType
    BY <1>2, RpcAssumption DEF Txn, Counts
  <2>2. [t.orders EXCEPT ![t.orderConv - 1].price = t.result] \in OrderViews
    BY <2>1, OrderViewsSet
  <2>3. StoredOrder(t) = [t EXCEPT !.orders = [t.orders EXCEPT ![t.orderConv - 1].price = t.result]]
    BY <1>2 DEF StoredOrder, Txn
  <2>. QED  BY <1>2, <2>2, <2>3 DEF Txn
<1>. QED  BY <1>1, <1>2

LEMMA FilledOrderType ==
    ASSUME NEW t \in Txn
    PROVE  LET u == FilledOrder(t) IN
           /\ u \in Txn /\ u.request = t.request /\ u.hop = t.hop /\ u.coHop = t.coHop
           /\ u.orderCnt = t.orderCnt /\ u.cart = t.cart
           /\ t.orderCnt # 0 => u.orders = [t.orders EXCEPT ![t.orderCnt - 1].product = t.product,
                                                ![t.orderCnt - 1].price = PriceUsd(t.product)]
           /\ t.orderCnt = 0 => u.orders = t.orders
<1>1. CASE t.orderCnt = 0
  BY <1>1 DEF FilledOrder
<1>2. CASE t.orderCnt # 0
  <2>. DEFINE i == t.orderCnt - 1
              orders == [t.orders EXCEPT ![i].product = t.product, ![i].price = PriceUsd(t.product)]
  <2>1. i \in Counts /\ t.orders \in OrderViews /\ t.product \in OrNone
    BY <1>2, RpcAssumption DEF Txn, Counts
  <2>2. PriceUsd(t.product) \in MoneyType
    BY <2>1, Amounts
  <2>3. orders \in OrderViews
    BY <2>1, <2>2, OrderViewsSet
  <2>4. FilledOrder(t) = [t EXCEPT !.orders = orders]
    BY <1>2 DEF FilledOrder, Txn
  <2>. QED  BY <1>2, <2>3, <2>4 DEF Txn
<1>. QED  BY <1>1, <1>2

LEMMA DeskCost ==
    ASSUME NEW t \in Txn, t.coHop = 4
    PROVE  LET u == Desk!ConvertCurrencyOfShippingQuote(t) IN
           /\ t.quote.flag => OrderAsks(t, u, 6)
           /\ ~t.quote.flag => OrderAsks(t, u, 4)
           /\ t.quote.flag =>
                /\ u.cart = t.cart
                /\ u.charge = SumOf(t.total, t.orders, t.orderCnt, t.result)
<1>1. CASE t.quote.flag
  <2>. DEFINE v == [t EXCEPT !.quote.cost = t.result, !.coHop = 5]
  <2>0. [t.quote EXCEPT !.cost = t.result] \in Quotes
    BY DEF Txn, Quotes
  <2>1. 5 \in DeskHops
    BY Members
  <2>2. /\ v \in Txn /\ v.request = t.request /\ v.hop = t.hop /\ v.coHop = 5 /\ v.cart = t.cart
        /\ v.total = t.total /\ v.orders = t.orders /\ v.orderCnt = t.orderCnt
    BY <2>0, <2>1 DEF Txn
  <2>3. v.quote.cost = t.result
    BY DEF Txn, Quotes
  <2>4. Desk!ConvertCurrencyOfShippingQuote(t) = Desk!ChargeCard(Desk!CalculateTotalPrice(v))
    BY <1>1 DEF Desk!ConvertCurrencyOfShippingQuote
  <2>. HIDE DEF v
  <2>5. /\ OrderAsks(v, Desk!ChargeCard(Desk!CalculateTotalPrice(v)), 6)
        /\ Desk!ChargeCard(Desk!CalculateTotalPrice(v)).cart = t.cart
        /\ Desk!ChargeCard(Desk!CalculateTotalPrice(v)).charge =
                SumOf(t.total, t.orders, t.orderCnt, t.result)
    BY <2>2, <2>3, DeskCharge
  <2>. QED  BY <1>1, <2>2, <2>4, <2>5 DEF OrderAsks
<1>2. CASE ~t.quote.flag
  <2>. DEFINE u == Desk!AskConvert(t, CHECKOUT_SVC, t.quote.cost)
  <2>1. t.quote.cost \in MoneyType
    BY DEF Txn, Quotes
  <2>2. OrderAsks(t, u, 4)
    BY <2>1, DeskConvert
  <2>3. Desk!ConvertCurrencyOfShippingQuote(t) = [u EXCEPT !.quote.flag = TRUE]
    BY <1>2 DEF Desk!ConvertCurrencyOfShippingQuote
  <2>. HIDE DEF u
  <2>4. [u.quote EXCEPT !.flag = TRUE] \in Quotes
    BY <2>2 DEF OrderAsks, Txn, Quotes
  <2>. QED  BY <1>2, <2>2, <2>3, <2>4 DEF OrderAsks, Txn
<1>. QED  BY <1>1, <1>2

LEMMA DeskCart ==
    ASSUME NEW t \in Txn, t.coHop = 2
    PROVE  LET s == StoredOrder(t)
               u == Desk!ConvertCurrencyOfCart(t) IN
           /\ t.orderConv < t.orderCnt =>
                /\ OrderAsks(t, u, 2)
                /\ u = AskConvert([s EXCEPT !.orderConv = t.orderConv + 1], CHECKOUT_SVC,
                                  s.orders[t.orderConv].price)
           /\ ~(t.orderConv < t.orderCnt) =>
                /\ OrderAsks(t, u, 4)
                /\ u = Desk!QuoteShipping([s EXCEPT !.coHop = 3])
<1>. DEFINE s == StoredOrder(t)
            v == [s EXCEPT !.orderConv = t.orderConv + 1]
            w == [s EXCEPT !.coHop = 3]
<1>1. s \in Txn /\ s.request = t.request /\ s.hop = t.hop /\ s.coHop = 2
      /\ s.orderCnt = t.orderCnt /\ s.orderConv = t.orderConv
  BY StoredOrderType
<1>2. Desk!ConvertCurrencyOfCart(t) =
        IF s.orderConv < s.orderCnt
        THEN Desk!AskConvert([s EXCEPT !.orderConv = @ + 1], CHECKOUT_SVC, s.orders[s.orderConv].price)
        ELSE Desk!QuoteShipping([s EXCEPT !.coHop = @ + 1])
  BY DEF Desk!ConvertCurrencyOfCart, StoredOrder
<1>. HIDE DEF s
<1>3. CASE t.orderConv < t.orderCnt
  <2>1. t.orderConv + 1 \in Counts /\ t.orderConv \in Counts
    BY <1>3, RpcAssumption DEF Txn, Counts
  <2>2. v \in Txn /\ v.request = t.request /\ v.hop = t.hop /\ v.coHop = 2
    BY <1>1, <2>1 DEF Txn
  <2>3. s.orders[t.orderConv].price \in MoneyType
    BY <1>1, <2>1, OrderViewsSet DEF Txn
  <2>4. Desk!ConvertCurrencyOfCart(t) = Desk!AskConvert(v, CHECKOUT_SVC, s.orders[t.orderConv].price)
    BY <1>1, <1>2, <1>3 DEF Txn
  <2>5. OrderAsks(t, Desk!ConvertCurrencyOfCart(t), 2)
    <3>. HIDE DEF v
    <3>. QED  BY <2>2, <2>3, <2>4, DeskConvert DEF OrderAsks
  <2>. QED  BY <1>3, <2>4, <2>5, SameAsk DEF s
<1>4. CASE ~(t.orderConv < t.orderCnt)
  <2>1. Desk!ConvertCurrencyOfCart(t) = Desk!QuoteShipping(w)
    BY <1>1, <1>2, <1>4 DEF Txn
  <2>2. 3 \in DeskHops
    BY Members
  <2>3. w \in Txn /\ w.request = t.request /\ w.hop = t.hop /\ w.coHop = 3
    BY <1>1, <2>2 DEF Txn
  <2>4. OrderAsks(w, Desk!QuoteShipping(w), 4)
    <3>. HIDE DEF w
    <3>. QED  BY <2>3, DeskQuote
  <2>. QED  BY <1>4, <2>1, <2>3, <2>4 DEF OrderAsks, s
<1>. QED  BY <1>3, <1>4

LEMMA DeskItems ==
    ASSUME NEW t \in Txn, t.coHop = 1
    PROVE  LET s == FilledOrder(t)
               u == Desk!GetOrderItemInfo(t) IN
           /\ t.cart.num = 0 => OrderReturns(t, u) /\ u.coHop = 1
           /\ t.cart.num > 0 /\ t.orderCnt < t.cart.num =>
                /\ OrderAsks(t, u, 1)
                /\ u = AskProduct([s EXCEPT !.orderCnt = t.orderCnt + 1], CHECKOUT_SVC,
                                  t.cart.items[t.orderCnt].product)
           /\ t.cart.num > 0 /\ ~(t.orderCnt < t.cart.num) =>
                /\ OrderAsks(t, u, 2)
                /\ u = [AskConvert([s EXCEPT !.orderConv = 1], CHECKOUT_SVC, s.orders[0].price)
                            EXCEPT !.coHop = 2]
<1>. DEFINE s == FilledOrder(t)
<1>0. /\ s \in Txn /\ s.request = t.request /\ s.hop = t.hop /\ s.cart = t.cart
      /\ s.orderCnt = t.orderCnt /\ s.coHop = 1
  BY FilledOrderType
<1>1. t.cart.num \in Counts /\ t.orderCnt \in Counts /\ 0 \in Counts /\ 1 \in Counts
  BY Members DEF Txn, Carts
<1>2. Desk!GetOrderItemInfo(t) =
        IF t.cart.num <= 0 THEN Desk!ReturnResponseToFrontend([t EXCEPT !.total = <<>>])
        ELSE IF t.orderCnt < t.cart.num
        THEN Desk!AskProduct([s EXCEPT !.orderCnt = @ + 1], CHECKOUT_SVC,
                             t.cart.items[t.orderCnt].product)
        ELSE [Desk!ConvertCurrencyOfCart([s EXCEPT !.orderConv = 0]) EXCEPT !.coHop = @ + 1]
  <2>1. Desk!PriceUsd(t.product) = PriceUsd(t.product)
    BY SameRpc
  <2>. QED  BY <2>1 DEF Desk!GetOrderItemInfo, FilledOrder
<1>. HIDE DEF s
<1>3. CASE t.cart.num = 0
  <2>. DEFINE u == [t EXCEPT !.total = <<>>]
  <2>0. <<>> \in Sums /\ 1 \in Fns /\ 7 \in Fns
    BY Members DEF Sums
  <2>1. u \in Txn /\ u.hop = t.hop /\ u.request = t.request /\ u.coHop = 1
    BY <2>0 DEF Txn
  <2>2. Desk!GetOrderItemInfo(t) = Desk!ReturnResponseToFrontend(u)
    BY <1>2, <1>3
  <2>. HIDE DEF u
  <2>3. OrderReturns(u, Desk!ReturnResponseToFrontend(u)) /\ Desk!ReturnResponseToFrontend(u).coHop = 1
    BY <2>0, <2>1 DEF Txn, OrderReturns, Desk!ReturnResponseToFrontend
  <2>. QED  BY <1>3, <2>1, <2>2, <2>3 DEF OrderReturns
<1>4. CASE t.cart.num > 0 /\ t.orderCnt < t.cart.num
  <2>. DEFINE v == [s EXCEPT !.orderCnt = t.orderCnt + 1]
  <2>1. t.orderCnt + 1 \in Counts
    BY <1>1, <1>4, RpcAssumption DEF Counts
  <2>2. v \in Txn /\ v.request = t.request /\ v.hop = t.hop /\ v.coHop = 1
    BY <1>0, <2>1 DEF Txn
  <2>3. t.cart.items[t.orderCnt].product \in OrNone
    BY <1>1, CartItems
  <2>4. Desk!GetOrderItemInfo(t) = Desk!AskProduct(v, CHECKOUT_SVC, t.cart.items[t.orderCnt].product)
    BY <1>0, <1>1, <1>2, <1>4 DEF Counts
  <2>5. OrderAsks(t, Desk!GetOrderItemInfo(t), 1)
    <3>. HIDE DEF v
    <3>. QED  BY <2>2, <2>3, <2>4, DeskProduct DEF OrderAsks
  <2>. QED  BY <1>4, <2>4, <2>5, SameAsk DEF s
<1>5. CASE t.cart.num > 0 /\ ~(t.orderCnt < t.cart.num)
  <2>. DEFINE v == [s EXCEPT !.orderConv = 0]
              price == s.orders[0].price
              c == [s EXCEPT !.orderConv = 1]
              w == AskConvert(c, CHECKOUT_SVC, price)
  <2>1. v \in Txn /\ v.orderConv = 0 /\ v.orderCnt > 0 /\ v.orders = s.orders
    BY <1>0, <1>1, <1>5 DEF Txn, Counts
  <2>2. Desk!GetOrderItemInfo(t) = [Desk!ConvertCurrencyOfCart(v) EXCEPT !.coHop = @ + 1]
    BY <1>1, <1>2, <1>5 DEF Counts
  <2>3. Desk!ConvertCurrencyOfCart(v) =
            Desk!AskConvert([v EXCEPT !.orderConv = @ + 1], CHECKOUT_SVC, v.orders[0].price)
    BY <2>1 DEF Desk!ConvertCurrencyOfCart
  <2>4. [v EXCEPT !.orderConv = @ + 1] = c
    <3>1. v.orderConv + 1 = 1
      BY <2>1
    <3>2. [v EXCEPT !.orderConv = 1] = c
      BY <1>0 DEF Txn
    <3>. HIDE DEF v
    <3>. QED  BY <3>1, <3>2
  <2>5. Desk!ConvertCurrencyOfCart(v) = w
    BY <2>1, <2>3, <2>4, SameAsk
  <2>6. price \in MoneyType
    BY <1>0, <1>1, OrderViewsSet DEF Txn
  <2>7. c \in Txn /\ c.request = t.request /\ c.hop = t.hop /\ c.coHop = 1
    BY <1>0, <1>1 DEF Txn
  <2>. HIDE DEF v, price, c
  <2>8. 7 \in Fns /\ 2 \in DeskHops
    BY Members
  <2>9. w \in Txn
    BY <2>6, <2>7, <2>8, AskType
  <2>10. /\ w.request = t.request /\ w.hop = t.hop /\ w.coHop = 1
         /\ w.caller = CHECKOUT_SVC /\ w.next = CURRENCY_SVC /\ w.rpc = "Convert"
    BY <2>7 DEF AskConvert, Ask, Txn
  <2>. HIDE DEF w
  <2>11. [w EXCEPT !.coHop = @ + 1] = [w EXCEPT !.coHop = 2]
    BY <2>10
  <2>12. OrderAsks(t, [w EXCEPT !.coHop = 2], 2)
    BY <2>8, <2>9, <2>10 DEF OrderAsks, DeskCalls, Txn
  <2>. QED  BY <1>5, <2>2, <2>5, <2>11, <2>12 DEF w, c, price, s
<1>. QED  BY <1>1, <1>3, <1>4, <1>5 DEF Counts

(* The steps the order may be in after the one it is in.                   *)
Follows(hop) ==
    CASE hop = 0 -> {1}
      [] hop = 1 -> {1, 2}
      [] hop = 2 -> {2, 4}
      [] hop = 4 -> {4, 6}
      [] hop \in {6, 7, 8} -> {hop + 1}
      [] OTHER   -> {}

(* prepareOrderItemsAndShippingQuoteFromCart: the order asks the services  *)
(* in this order, and returns at its end or with an empty cart.            *)
LEMMA DeskStep ==
    ASSUME NEW t \in Txn, Ordering(t), t.next = CHECKOUT_SVC
    PROVE  LET u == Desk!PlaceOrder(t) IN
           /\ u \in Txn /\ u.request = t.request /\ u.hop = 1 /\ Course(u)
           /\ \/ OrderAsks(t, u, u.coHop) /\ u.coHop \in Follows(t.coHop) /\ Ordering(u)
              \/ t.coHop \in {1, 9} /\ u.next = FRONTEND
<1>. DEFINE u == Desk!PlaceOrder(t)
<1>1. t.request.path = "checkout" /\ t.hop = 1 /\ t.coHop \in {0, 1, 2, 4, 6, 7, 8, 9}
  BY DEF Ordering, DeskCalls
<1>2. SUFFICES \/ \E h \in Follows(t.coHop) : OrderAsks(t, u, h)
               \/ t.coHop \in {1, 9} /\ OrderReturns(t, u)
  <2>1. ASSUME NEW h \in Follows(t.coHop), OrderAsks(t, u, h)
        PROVE  /\ u \in Txn /\ u.request = t.request /\ u.hop = 1 /\ Course(u)
               /\ OrderAsks(t, u, u.coHop) /\ u.coHop \in Follows(t.coHop) /\ Ordering(u)
    <3>1. Ordering(u) /\ Adding(u)
      BY <1>1, <2>1 DEF OrderAsks, Ordering, Adding, DeskCalls
    <3>. QED  BY <1>1, <2>1, <3>1 DEF OrderAsks, Course
  <2>2. ASSUME t.coHop \in {1, 9}, OrderReturns(t, u)
        PROVE  /\ u \in Txn /\ u.request = t.request /\ u.hop = 1 /\ Course(u)
               /\ t.coHop \in {1, 9} /\ u.next = FRONTEND
    <3>1. Browsing(u) /\ Adding(u)
      BY <1>1, <2>2 DEF OrderReturns, Browsing, Adding
    <3>. QED  BY <1>1, <2>2, <3>1 DEF OrderReturns, Course
  <2>. QED  BY <1>2, <2>1, <2>2
<1>3. CASE t.coHop = 0
  <2>. DEFINE v == Desk!GetCart(t)
  <2>1. OrderAsks(t, v, 1)
    BY <1>3, DeskCalled
  <2>2. u = [v EXCEPT !.orderCnt = 0]
    BY <1>3 DEF Desk!PlaceOrder
  <2>. HIDE DEF v, u
  <2>3. OrderAsks(t, u, 1)
    BY <2>1, <2>2, Members DEF OrderAsks, Txn
  <2>. QED  BY <1>3, <2>3 DEF Follows
<1>4. CASE t.coHop = 1
  <2>1. u = Desk!GetOrderItemInfo(t)
    BY <1>4 DEF Desk!PlaceOrder
  <2>2. t.cart.num \in Nat /\ t.orderCnt \in Nat
    BY RpcAssumption DEF Txn, Carts, Counts
  <2>. HIDE DEF u
  <2>3. CASE t.cart.num = 0
    <3>1. OrderReturns(t, u)
      BY <1>4, <2>1, <2>3, DeskItems
    <3>. QED  BY <1>4, <3>1
  <2>4. CASE t.cart.num > 0 /\ t.orderCnt < t.cart.num
    <3>1. OrderAsks(t, u, 1)
      BY <1>4, <2>1, <2>4, DeskItems
    <3>. QED  BY <1>4, <3>1 DEF Follows
  <2>5. CASE t.cart.num > 0 /\ ~(t.orderCnt < t.cart.num)
    <3>1. OrderAsks(t, u, 2)
      BY <1>4, <2>1, <2>5, DeskItems
    <3>. QED  BY <1>4, <3>1 DEF Follows
  <2>. QED  BY <2>2, <2>3, <2>4, <2>5
<1>5. CASE t.coHop = 2
  <2>1. u = Desk!ConvertCurrencyOfCart(t)
    BY <1>5 DEF Desk!PlaceOrder
  <2>. HIDE DEF u
  <2>2. OrderAsks(t, u, 2) \/ OrderAsks(t, u, 4)
    BY <1>5, <2>1, DeskCart
  <2>. QED  BY <1>5, <2>2 DEF Follows
<1>6. CASE t.coHop = 4
  <2>1. u = Desk!ConvertCurrencyOfShippingQuote(t)
    BY <1>6 DEF Desk!PlaceOrder
  <2>. HIDE DEF u
  <2>2. OrderAsks(t, u, 4) \/ OrderAsks(t, u, 6)
    BY <1>6, <2>1, DeskCost
  <2>. QED  BY <1>6, <2>2 DEF Follows
<1>7. CASE t.coHop = 6
  BY <1>7, DeskCalled DEF Follows, Desk!PlaceOrder
<1>8. CASE t.coHop = 7
  BY <1>8, DeskCalled DEF Follows, Desk!PlaceOrder
<1>9. CASE t.coHop = 8
  BY <1>9, DeskCalled DEF Follows, Desk!PlaceOrder
<1>10. CASE t.coHop = 9
  <2>1. u = Desk!ReturnResponseToFrontend(t)
    BY <1>10 DEF Desk!PlaceOrder
  <2>. HIDE DEF u
  <2>2. 1 \in Fns /\ 7 \in Fns
    BY Members
  <2>3. OrderReturns(t, u)
    BY <2>1, <2>2 DEF Txn, OrderReturns, Desk!ReturnResponseToFrontend
  <2>. QED  BY <1>10, <2>3
<1>. QED  BY <1>1, <1>3, <1>4, <1>5, <1>6, <1>7, <1>8, <1>9, <1>10

-----------------------------------------------------------------------------
(* What is asked of a service is what it does.                             *)
LEMMA AskedWell ==
    /\ DOMAIN Serves = {2, 3, 4, 5, 6, 8, 9, 10}
    /\ \A s, r : \A h \in DeskHops :
            <<s, r>> \in FrontCalls \/ <<s, r>> \in DeskCalls(h) => s \in DOMAIN Serves /\ r \in Serves[s]
<1>1. DOMAIN Serves = {2, 3, 4, 5, 6, 8, 9, 10}
  BY DEF Serves
<1>2. /\ Serves[2] = {"GetSupportedCurrencies", "Convert"}
      /\ Serves[3] = {"ListProducts", "GetProduct"}
      /\ Serves[4] = {"AddItem", "GetCart", "EmptyCart"}
      /\ Serves[5] = {"ListRecommendations"}
      /\ Serves[6] = {"GetQuote", "ShipOrder"}
      /\ Serves[8] = {"Charge"}
      /\ Serves[9] = {"SendOrderConfirmation"}
      /\ Serves[10] = {"GetAds"}
  BY DEF Serves
<1>3. \A s, r : <<s, r>> \in FrontCalls => s \in DOMAIN Serves /\ r \in Serves[s]
  BY <1>1, <1>2 DEF FrontCalls, PageCalls
<1>4. \A s, r : \A h \in DeskHops : <<s, r>> \in DeskCalls(h) => s \in DOMAIN Serves /\ r \in Serves[s]
  BY <1>1, <1>2 DEF DeskCalls
<1>. QED  BY <1>1, <1>3, <1>4

(* What comes back from a service goes to its caller, on the same course.  *)
Replied(t, u) ==
    /\ u \in Txn /\ u.request = t.request /\ u.hop = t.hop /\ u.coHop = t.coHop /\ u.id = t.id
    /\ u.next = t.caller

LEMMA RepliedCourse ==
    ASSUME NEW t \in Txn, NEW u, Course(t), t.next \in DOMAIN Serves, Replied(t, u)
    PROVE  /\ Course(u)
           /\ \/ Browsing(t) /\ t.caller = FRONTEND /\ u.next = FRONTEND /\ Browsing(u)
              \/ Ordering(t) /\ t.caller = CHECKOUT_SVC /\ u.next = CHECKOUT_SVC /\ Ordering(u)
<1>1. t.next \notin {0, 1, 7} /\ t.coHop \in DeskHops
  BY AskedWell DEF Txn
<1>2. CASE Browsing(t)
  <2>1. t.caller = FRONTEND /\ u.next = FRONTEND
    BY <1>1, <1>2 DEF Browsing, Replied
  <2>2. Browsing(u) /\ Adding(u)
    BY <1>2, <2>1 DEF Browsing, Replied, Adding, Course
  <2>. QED  BY <1>2, <2>1, <2>2 DEF Course
<1>3. CASE Ordering(t)
  <2>1. t.caller = CHECKOUT_SVC /\ u.next = CHECKOUT_SVC /\ <<t.next, t.rpc>> \in DeskCalls(t.coHop)
    BY <1>1, <1>3 DEF Ordering, Replied
  <2>2. t.coHop \in {1, 2, 4, 6, 7, 8, 9}
    BY <2>1 DEF DeskCalls
  <2>3. Ordering(u) /\ Adding(u)
    BY <1>3, <2>1, <2>2 DEF Ordering, Replied, Adding
  <2>. QED  BY <1>3, <2>1, <2>3 DEF Course
<1>. QED  BY <1>1, <1>2, <1>3 DEF Course, Finished

LEMMA CalledWell ==
    ASSUME NEW t \in Txn, Course(t), t.next \in DOMAIN Serves
    PROVE  t.rpc \in Serves[t.next]
<1>1. t.next \notin {0, 1, 7} /\ t.coHop \in DeskHops
  BY AskedWell DEF Txn
<1>2. <<t.next, t.rpc>> \in FrontCalls \/ <<t.next, t.rpc>> \in DeskCalls(t.coHop)
  BY <1>1 DEF Course, Finished, Browsing, Ordering
<1>. QED  BY <1>1, <1>2, AskedWell

LEMMA ReplyType ==
    ASSUME NEW t \in Txn, NEW v \in Txn, v.request = t.request, v.hop = t.hop, v.coHop = t.coHop,
           v.id = t.id, v.next = t.next, v.caller = t.caller
    PROVE  Replied(t, Reply(v))
  BY DEF Replied, Reply, Txn

(* A service answers what it was asked, and leaves the rest alone.         *)
LEMMA ServiceStep ==
    ASSUME NEW t \in Txn, Course(t), NEW s \in Stateless, t.next = s
    PROVE  Replied(t, Reply(Does!ServiceOf(s, t)))
<1>. DEFINE v == Does!ServiceOf(s, t)
<1>1. t.rpc \in Serves[s] /\ s \in {2, 3, 5, 6, 8, 9, 10}
  BY AskedWell, CalledWell DEF Stateless
<1>2. v \in {t, Does!Convert(t), Does!GetProduct(t), Does!GetQuote(t)}
  <2>1. CASE s \in {5, 9, 10}
    BY <2>1 DEF Does!ServiceOf, Does!RecommendationService, Does!AdService, Does!EmailService
  <2>2. CASE s = 2
    BY <1>1, <2>2 DEF Serves, Does!ServiceOf, Does!CurrencyService
  <2>3. CASE s = 3
    BY <1>1, <2>3 DEF Serves, Does!ServiceOf, Does!ProductCatalogService
  <2>4. CASE s = 6
    BY <1>1, <2>4 DEF Serves, Does!ServiceOf, Does!ShippingService
  <2>5. CASE s = 8
    BY <1>1, <2>5 DEF Serves, Does!ServiceOf, Does!PaymentService
  <2>. QED  BY <1>1, <2>1, <2>2, <2>3, <2>4, <2>5
<1>3. ASSUME NEW w \in {t, Does!Convert(t), Does!GetProduct(t), Does!GetQuote(t)}
      PROVE  /\ w \in Txn /\ w.request = t.request /\ w.hop = t.hop /\ w.coHop = t.coHop
             /\ w.id = t.id /\ w.next = t.next /\ w.caller = t.caller
  <2>1. CASE w = t
    BY <2>1
  <2>2. CASE w = Does!Convert(t)
    <3>1. Does!Converted(t.from) = Converted(t.from)
      BY DEF Converted, Does!Converted
    <3>2. Converted(t.from) \in MoneyType
      BY Amounts DEF Txn
    <3>. QED  BY <2>2, <3>1, <3>2 DEF Does!Convert, Txn
  <2>3. CASE w = Does!GetProduct(t)
    BY <2>3 DEF Does!GetProduct, Txn, OrNone, Products
  <2>4. CASE w = Does!GetQuote(t)
    <3>1. Does!QuoteFor(t.cart.num) \in MoneyType
      BY DEF Does!QuoteFor, Does!Money, MoneyType
    <3>2. [t.quote EXCEPT !.cost = Does!QuoteFor(t.cart.num)] \in Quotes
      BY <3>1 DEF Txn, Quotes
    <3>. QED  BY <2>4, <3>2 DEF Does!GetQuote, Txn
  <2>. QED  BY <2>1, <2>2, <2>3, <2>4
<1>. HIDE DEF v
<1>. QED  BY <1>2, <1>3, ReplyType DEF v

-----------------------------------------------------------------------------
(* The cart service of the Boutique is that of Cart, with the objects for  *)
(* its workers, so that what Cart_proofs shows of it holds here.           *)
Proved == INSTANCE Cart_proofs
            WITH Worker <- Object, Product <- Products, Requests <- CartRequests

LEMMA ShopAssumed == Proved!CartAssumption /\ Proved!RequestsAssumption
<1>1. None \notin Proved!Node
  BY ShopAssumption DEF Shop!Node, Proved!Node, Shop!Cart, Proved!Cart, Shop!Item, Proved!Item,
                        Shop!Blank, Proved!Blank
<1>2. CartRequests \subseteq Proved!Request
  BY DEF CartRequests, Proved!Request, Item, Proved!Item, Blank, Proved!Blank
<1>. QED  BY <1>1, <1>2, RpcAssumption DEF Proved!CartAssumption, Proved!RequestsAssumption

LEMMA ShopInit == Shop!CartInit => Proved!CartInit
  BY DEF Shop!CartInit, Proved!CartInit, Shop!Blank, Proved!Blank, Shop!NoItems, Proved!NoItems

LEMMA ShopStep ==
    ASSUME NEW o \in Object,
           (\E r \in CartRequests : Shop!Call(o, r)) \/ Shop!CartStep(o) \/ Shop!HandBack(o)
    PROVE  Proved!Next
<1>1. ASSUME NEW r \in CartRequests, Shop!Call(o, r)
      PROVE  Proved!Call(o, r)
  BY <1>1 DEF Shop!Call, Proved!Call
<1>2. ASSUME Shop!HandBack(o)
      PROVE  Proved!HandBack(o)
  BY <1>2 DEF Shop!HandBack, Proved!HandBack, Shop!At, Proved!At, Shop!Go, Proved!Go
<1>3. ASSUME Shop!CartStep(o)
      PROVE  Proved!CartStep(o)
  <2>. USE DEF Shop!At, Proved!At, Shop!Go, Proved!Go, Shop!Find, Proved!Find
  <2>1. Shop!FindNone(o) => Proved!FindNone(o)
    BY DEF Shop!FindNone, Proved!FindNone
  <2>2. Shop!Update(o) => Proved!Update(o)
    BY DEF Shop!Update, Proved!Update, Shop!StoreAfter, Proved!StoreAfter
  <2>3. Shop!InsertDescend(o) => Proved!InsertDescend(o)
    BY DEF Shop!InsertDescend, Proved!InsertDescend, Shop!Taken, Proved!Taken
  <2>4. Shop!InsertLink(o) => Proved!InsertLink(o)
    BY DEF Shop!InsertLink, Proved!InsertLink, Shop!NewCart, Proved!NewCart, Shop!NoItems,
           Proved!NoItems, Shop!Blank, Proved!Blank
  <2>5. Shop!InsertFixup(o) => Proved!InsertFixup(o)
    BY DEF Shop!InsertFixup, Proved!InsertFixup, Shop!RootBlack, Proved!RootBlack
  <2>6. Shop!InsertVerify(o) => Proved!InsertVerify(o)
    BY DEF Shop!InsertVerify, Proved!InsertVerify
  <2>7. Shop!GetCart(o) => Proved!GetCart(o)
    BY DEF Shop!GetCart, Proved!GetCart
  <2>8. Shop!EmptyCart(o) => Proved!EmptyCart(o)
    BY DEF Shop!EmptyCart, Proved!EmptyCart, Shop!StoreAfter, Proved!StoreAfter
  <2>. QED
    BY <1>3, <2>1, <2>2, <2>3, <2>4, <2>5, <2>6, <2>7, <2>8 DEF Shop!CartStep, Proved!CartStep
<1>. QED  BY <1>1, <1>2, <1>3 DEF Proved!Next

LEMMA ShopKept ==
    /\ Shop!CartInit => Proved!CartInv
    /\ Proved!CartInv /\ [Proved!Next]_shop => Proved!CartInv'
  BY ShopAssumed, ShopInit, Proved!InitInv, Proved!NextInv DEF shop, Proved!cartVars

(* What a step of the cart service does to the worker that takes it.       *)
LEMMA ShopWorks ==
    ASSUME Proved!CartInv, NEW o \in Object
    PROVE  /\ reply[o] \in Carts /\ pc \in [Object -> {"idle", "find", "insert", "link", "fixup",
                                                       "verify", "done"}]
           /\ Shop!CartStep(o) => /\ pc[o] # "idle" /\ pc'[o] # "idle"
                                  /\ \A p \in Object \ {o} : pc'[p] = pc[p]
           /\ \A r : Shop!Call(o, r) => /\ pc[o] = "idle" /\ pc'[o] # "idle"
                                        /\ \A p \in Object \ {o} : pc'[p] = pc[p]
           /\ Shop!HandBack(o) => /\ pc[o] # "idle" /\ pc'[o] = "idle"
                                  /\ \A p \in Object \ {o} : pc'[p] = pc[p]
<1>1. /\ pc \in [Object -> {"idle", "find", "insert", "link", "fixup", "verify", "done"}]
      /\ reply \in [Object -> Proved!Cart]
  BY DEF Proved!CartInv, Proved!CartTypeOK
<1>2. Proved!Cart = Carts
  BY DEF Proved!Cart, Carts, Counts, Proved!Item, Item, Proved!Blank, Blank
<1>3. ASSUME Shop!CartStep(o)
      PROVE  /\ pc[o] # "idle" /\ pc'[o] # "idle"
             /\ \A p \in Object \ {o} : pc'[p] = pc[p]
  BY <1>1, <1>3
  DEF Shop!CartStep, Shop!FindNone, Shop!Update, Shop!InsertDescend, Shop!InsertLink,
      Shop!InsertFixup, Shop!InsertVerify, Shop!GetCart, Shop!EmptyCart, Shop!Find, Shop!At, Shop!Go
<1>4. ASSUME NEW r, Shop!Call(o, r)
      PROVE  /\ pc[o] = "idle" /\ pc'[o] # "idle"
             /\ \A p \in Object \ {o} : pc'[p] = pc[p]
  BY <1>1, <1>4 DEF Shop!Call
<1>5. ASSUME Shop!HandBack(o)
      PROVE  /\ pc[o] # "idle" /\ pc'[o] = "idle"
             /\ \A p \in Object \ {o} : pc'[p] = pc[p]
  BY <1>1, <1>5 DEF Shop!HandBack, Shop!At, Shop!Go
<1>. QED  BY <1>1, <1>2, <1>3, <1>4, <1>5

-----------------------------------------------------------------------------
(* The invariant: what a transaction is made of, that one that is not in   *)
(* the pool is on its course, that a worker of the cart service has it     *)
(* only as long as it is there, and how much of its order is done.         *)
Typed ==
    /\ txn \in [Object -> Txn]
    /\ busy \subseteq Object
    /\ asked \in 0 .. MaxRequests
    /\ converter \in BOOLEAN
    /\ visits \in [Object -> Seq(Visits)]
    /\ done \in [Object -> Seq(Visits)]

OnCourse ==
    \A o \in Object :
        IF o \in busy THEN Course(txn[o]) ELSE txn[o].hop \in 0 .. 6 \union 100 .. 108

InShop == \A o \in Object : pc[o] # "idle" => o \in busy /\ txn[o].next = CART_SVC

Charged == Append(<<>>, "Charge")
Shipped == Append(Charged, "ShipOrder")
CartEmptied == Append(Shipped, "EmptyCart")
Confirmed == Append(CartEmptied, "SendOrderConfirmation")

(* How much of an order is done, by the step it is in and whether the cart *)
(* service has begun.                                                      *)
SoFar(t, begun) ==
    CASE t.coHop = 6 /\ t.next = CHECKOUT_SVC -> Charged
      [] t.coHop = 7 -> IF t.next = CHECKOUT_SVC THEN Shipped ELSE Charged
      [] t.coHop = 8 -> IF t.next = CHECKOUT_SVC \/ begun THEN CartEmptied ELSE Shipped
      [] t.coHop = 9 -> IF t.next = CHECKOUT_SVC THEN Confirmed ELSE CartEmptied
      [] OTHER -> <<>>

InOrder(t, begun, d) ==
    IF Ordering(t) THEN d = SoFar(t, begun)
    ELSE d \in {<<>>, Confirmed} /\ (t.request.path = "checkout" /\ t.hop = 0 => d = <<>>)

OrderInv ==
    \A o \in Object :
        IF o \in busy THEN InOrder(txn[o], pc[o] # "idle", done[o]) ELSE done[o] = <<>>

Kept == Typed /\ OnCourse /\ InShop /\ Proved!CartInv /\ OrderInv

LEMMA OneCourse ==
    ASSUME NEW t
    PROVE  /\ t.next = FRONTEND => ~Ordering(t)
           /\ t.next = GATEWAY => ~Ordering(t)
           /\ Browsing(t) => ~Ordering(t)
           /\ Finished(t) => ~Ordering(t)
<1>0. t.next \in {0, 1} => <<t.next, t.rpc>> \notin DeskCalls(t.coHop)
  BY DEF DeskCalls
<1>1. t.next = FRONTEND => ~Ordering(t)
  BY <1>0 DEF Ordering
<1>2. t.next = GATEWAY => ~Ordering(t)
  BY <1>0 DEF Ordering
<1>3. Browsing(t) => ~Ordering(t)
  BY <1>1 DEF Browsing, Ordering, FrontCalls, PageCalls
<1>. QED  BY <1>1, <1>2, <1>3 DEF Finished

(* What a request was handed to is one of its visits, and a step of its    *)
(* order only when it is one of the four.                                  *)
LEMMA Steps ==
    /\ \A what : IsStep(what) <=> what \in {"Charge", "ShipOrder", "EmptyCart", "SendOrderConfirmation"}
    /\ "frontend" \in Visits /\ "checkout" \in Visits
    /\ \A s \in DOMAIN Serves : Serves[s] \subseteq Visits
<1>1. \A what : IsStep(what) <=> what \in {"Charge", "ShipOrder", "EmptyCart", "SendOrderConfirmation"}
  <2>1. DOMAIN Abstract!Steps = {1, 2, 3, 4}
    BY DEF Abstract!Steps
  <2>2. /\ Abstract!Steps[1] = "Charge" /\ Abstract!Steps[2] = "ShipOrder"
        /\ Abstract!Steps[3] = "EmptyCart" /\ Abstract!Steps[4] = "SendOrderConfirmation"
    BY DEF Abstract!Steps
  <2>. QED  BY <2>1, <2>2 DEF IsStep
<1>. QED  BY <1>1 DEF Visits

LEMMA Visiting ==
    ASSUME Typed, NEW o \in Object, NEW what \in Visits, Visit(o, what)
    PROVE  /\ visits' \in [Object -> Seq(Visits)] /\ done' \in [Object -> Seq(Visits)]
           /\ IsStep(what) => done' = [done EXCEPT ![o] = Append(done[o], what)]
           /\ ~IsStep(what) => done' = done
<1>1. Append(visits[o], what) \in Seq(Visits) /\ Append(done[o], what) \in Seq(Visits)
  BY DEF Typed
<1>2. visits' \in [Object -> Seq(Visits)]
  BY <1>1 DEF Typed, Visit
<1>3. IsStep(what) => done' = [done EXCEPT ![o] = Append(done[o], what)]
  BY DEF Visit
<1>4. ~IsStep(what) => done' = done
  BY DEF Visit
<1>. QED  BY <1>1, <1>2, <1>3, <1>4 DEF Typed

(* What Append does, for the provers to cite.                              *)
Longer(s, what, r) ==
    /\ r \in Seq(Visits) /\ Len(r) = Len(s) + 1
    /\ \A i \in 1 .. Len(s) : r[i] = s[i]
    /\ r[Len(s) + 1] = what

LEMMA Appended ==
    ASSUME NEW s \in Seq(Visits), NEW what \in Visits
    PROVE  Longer(s, what, Append(s, what))
  BY DEF Longer

LEMMA OrderSteps ==
    /\ Len(<<>>) = 0 /\ Len(Charged) = 1 /\ Len(Shipped) = 2 /\ Len(CartEmptied) = 3
    /\ Len(Confirmed) = 4
    /\ Confirmed = Abstract!Steps
<1>0. /\ "Charge" \in Visits /\ "ShipOrder" \in Visits /\ "EmptyCart" \in Visits
      /\ "SendOrderConfirmation" \in Visits
  <2>1. /\ DOMAIN Serves = {2, 3, 4, 5, 6, 8, 9, 10}
        /\ "Charge" \in Serves[8] /\ "ShipOrder" \in Serves[6] /\ "EmptyCart" \in Serves[4]
        /\ "SendOrderConfirmation" \in Serves[9]
    BY DEF Serves
  <2>. QED  BY <2>1, Steps
<1>1. Charged \in Seq(Visits) /\ Len(Charged) = 1 /\ Charged[1] = "Charge"
  BY <1>0 DEF Charged
<1>2. /\ Shipped \in Seq(Visits) /\ Len(Shipped) = 2
      /\ Shipped[1] = "Charge" /\ Shipped[2] = "ShipOrder"
  <2>1. Longer(Charged, "ShipOrder", Shipped)
    BY <1>0, <1>1, Appended DEF Shipped
  <2>2. Len(Shipped) = 2 /\ Shipped \in Seq(Visits)
    BY <1>1, <2>1 DEF Longer
  <2>3. Shipped[1] = "Charge"
    BY <1>1, <2>1 DEF Longer
  <2>4. Shipped[2] = "ShipOrder"
    BY <1>1, <2>1 DEF Longer
  <2>. QED  BY <2>2, <2>3, <2>4
<1>3. /\ CartEmptied \in Seq(Visits) /\ Len(CartEmptied) = 3
      /\ CartEmptied[1] = "Charge" /\ CartEmptied[2] = "ShipOrder" /\ CartEmptied[3] = "EmptyCart"
  <2>1. Longer(Shipped, "EmptyCart", CartEmptied)
    BY <1>0, <1>2, Appended DEF CartEmptied
  <2>2. Len(CartEmptied) = 3 /\ CartEmptied \in Seq(Visits)
    BY <1>2, <2>1 DEF Longer
  <2>3. CartEmptied[1] = "Charge" /\ CartEmptied[2] = "ShipOrder"
    BY <1>2, <2>1 DEF Longer
  <2>4. CartEmptied[3] = "EmptyCart"
    BY <1>2, <2>1 DEF Longer
  <2>. QED  BY <2>2, <2>3, <2>4
<1>4. /\ Confirmed \in Seq(Visits) /\ Len(Confirmed) = 4
      /\ Confirmed[1] = "Charge" /\ Confirmed[2] = "ShipOrder" /\ Confirmed[3] = "EmptyCart"
      /\ Confirmed[4] = "SendOrderConfirmation"
  <2>1. Longer(CartEmptied, "SendOrderConfirmation", Confirmed)
    BY <1>0, <1>3, Appended DEF Confirmed
  <2>2. Len(Confirmed) = 4 /\ Confirmed \in Seq(Visits)
    BY <1>3, <2>1 DEF Longer
  <2>3. Confirmed[1] = "Charge" /\ Confirmed[2] = "ShipOrder" /\ Confirmed[3] = "EmptyCart"
    BY <1>3, <2>1 DEF Longer
  <2>4. Confirmed[4] = "SendOrderConfirmation"
    BY <1>3, <2>1 DEF Longer
  <2>. QED  BY <2>2, <2>3, <2>4
<1>5. Confirmed = Abstract!Steps
  <2>1. /\ Abstract!Steps \in Seq(Visits) /\ Len(Abstract!Steps) = 4
        /\ Abstract!Steps[1] = "Charge" /\ Abstract!Steps[2] = "ShipOrder"
        /\ Abstract!Steps[3] = "EmptyCart" /\ Abstract!Steps[4] = "SendOrderConfirmation"
    BY <1>0 DEF Abstract!Steps
  <2>2. \A i \in 1 .. 4 : Confirmed[i] = Abstract!Steps[i]
    BY <1>4, <2>1
  <2>. QED  BY <1>4, <2>1, <2>2
<1>. QED  BY <1>1, <1>2, <1>3, <1>4, <1>5

(* One step of an order more is a step of Order.                           *)
LEMMA OrderProceeds ==
    ASSUME Typed, NEW o \in Object, NEW what,
           done' = [done EXCEPT ![o] = Append(done[o], what)],
           \/ done[o] = <<>> /\ what = "Charge"
           \/ done[o] = Charged /\ what = "ShipOrder"
           \/ done[o] = Shipped /\ what = "EmptyCart"
           \/ done[o] = CartEmptied /\ what = "SendOrderConfirmation"
    PROVE  /\ Abstract!Next
           /\ done[o] = <<>> => done'[o] = Charged
           /\ done[o] = Charged => done'[o] = Shipped
           /\ done[o] = Shipped => done'[o] = CartEmptied
           /\ done[o] = CartEmptied => done'[o] = Confirmed
<1>. DEFINE d == done[o]
<1>1. Len(Abstract!Steps) = 4
  BY DEF Abstract!Steps
<1>2. /\ Abstract!Steps[1] = "Charge" /\ Abstract!Steps[2] = "ShipOrder"
      /\ Abstract!Steps[3] = "EmptyCart" /\ Abstract!Steps[4] = "SendOrderConfirmation"
  BY DEF Abstract!Steps
<1>3. done'[o] = Append(d, what) /\ done' = [done EXCEPT ![o] = Append(d, what)]
  BY DEF Typed
<1>4. \/ d = <<>> /\ Len(d) = 0 /\ what = "Charge" /\ Append(d, what) = Charged
      \/ d = Charged /\ Len(d) = 1 /\ what = "ShipOrder" /\ Append(d, what) = Shipped
      \/ d = Shipped /\ Len(d) = 2 /\ what = "EmptyCart" /\ Append(d, what) = CartEmptied
      \/ d = CartEmptied /\ Len(d) = 3 /\ what = "SendOrderConfirmation"
         /\ Append(d, what) = Confirmed
  <2>1. CASE d = <<>> /\ what = "Charge"
    BY <2>1, OrderSteps, Zenon DEF Charged
  <2>2. CASE d = Charged /\ what = "ShipOrder"
    BY <2>2, OrderSteps, Zenon DEF Shipped
  <2>3. CASE d = Shipped /\ what = "EmptyCart"
    BY <2>3, OrderSteps, Zenon DEF CartEmptied
  <2>4. CASE d = CartEmptied /\ what = "SendOrderConfirmation"
    BY <2>4, OrderSteps, Zenon DEF Confirmed
  <2>. QED  BY <2>1, <2>2, <2>3, <2>4
<1>5. Len(d) < 4 /\ what = Abstract!Steps[Len(d) + 1]
  <2>1. CASE d = <<>> /\ Len(d) = 0 /\ what = "Charge"
    BY <1>2, <2>1
  <2>2. CASE Len(d) = 1 /\ what = "ShipOrder"
    BY <1>2, <2>2
  <2>3. CASE Len(d) = 2 /\ what = "EmptyCart"
    BY <1>2, <2>3
  <2>4. CASE Len(d) = 3 /\ what = "SendOrderConfirmation"
    BY <1>2, <2>4
  <2>. HIDE DEF d
  <2>. QED  BY <1>4, <2>1, <2>2, <2>3, <2>4, Zenon
<1>6. Abstract!Next
  BY <1>1, <1>3, <1>5 DEF Abstract!Next, Abstract!Proceed
<1>7. /\ <<>> # Charged /\ <<>> # Shipped /\ <<>> # CartEmptied /\ Charged # Shipped
      /\ Charged # CartEmptied /\ Shipped # CartEmptied
  <2>1. ASSUME NEW e, NEW f, Len(e) # Len(f)
        PROVE  e # f
    BY <2>1
  <2>2. /\ Len(<<>>) # Len(Charged) /\ Len(<<>>) # Len(Shipped) /\ Len(<<>>) # Len(CartEmptied)
        /\ Len(Charged) # Len(Shipped) /\ Len(Charged) # Len(CartEmptied)
        /\ Len(Shipped) # Len(CartEmptied)
    BY OrderSteps
  <2>. QED  BY <2>1, <2>2, Zenon
<1>. HIDE DEF d
<1>8. /\ d = <<>> => Append(d, what) = Charged
      /\ d = Charged => Append(d, what) = Shipped
      /\ d = Shipped => Append(d, what) = CartEmptied
      /\ d = CartEmptied => Append(d, what) = Confirmed
  BY <1>4, <1>7, Zenon
<1>. QED  BY <1>3, <1>6, <1>8, Zenon DEF d

(* A transaction handed on by one step.                                    *)
LEMMA HandedOn ==
    ASSUME Kept, NEW o \in busy, NEW u \in Txn, Course(u), Becomes(o, u),
           busy' = busy, asked' = asked, converter' \in BOOLEAN,
           visits' \in [Object -> Seq(Visits)], done' \in [Object -> Seq(Visits)],
           \A p \in Object \ {o} : done'[p] = done[p] /\ pc'[p] = pc[p],
           pc'[o] = "idle", Proved!CartInv',
           InOrder(u, FALSE, done'[o])
    PROVE  Kept'
<1>1. o \in Object /\ txn'[o] = u /\ \A p \in Object \ {o} : txn'[p] = txn[p]
  BY DEF Kept, Typed, Becomes
<1>2. Typed'
  BY DEF Kept, Typed, Becomes
<1>3. OnCourse'
  <2>. SUFFICES ASSUME NEW p \in Object
                PROVE  IF p \in busy THEN Course(txn'[p]) ELSE txn'[p].hop \in 0 .. 6 \union 100 .. 108
    BY DEF OnCourse
  <2>1. CASE p = o
    BY <1>1, <2>1
  <2>2. CASE p # o
    BY <1>1, <2>2 DEF Kept, OnCourse
  <2>. QED  BY <2>1, <2>2
<1>4. InShop'
  BY <1>1 DEF Kept, InShop
<1>5. OrderInv'
  <2>. SUFFICES ASSUME NEW p \in Object
                PROVE  IF p \in busy THEN InOrder(txn'[p], pc'[p] # "idle", done'[p])
                                     ELSE done'[p] = <<>>
    BY DEF OrderInv
  <2>1. CASE p = o
    BY <1>1, <2>1
  <2>2. CASE p # o
    BY <1>1, <2>2 DEF Kept, OrderInv
  <2>. QED  BY <2>1, <2>2
<1>. QED  BY <1>2, <1>3, <1>4, <1>5 DEF Kept

LEMMA InitKept == Init => Kept /\ Abstract!Init
<1>. SUFFICES ASSUME Init PROVE Kept /\ Abstract!Init
  OBVIOUS
<1>1. NewTransaction \in Txn
  <2>1. [path |-> "none", item |-> Blank] \in Asked
    BY DEF Asked, Paths, Blank
  <2>2. /\ 0 \in Fns /\ 0 \in Hops /\ "none" \in Text /\ NoMoney \in MoneyType /\ Blank \in Lines
        /\ None \in OrNone /\ [flag |-> FALSE, cost |-> NoMoney] \in Quotes /\ NoView \in ViewType
        /\ 0 \in Counts /\ <<>> \in Sums /\ 0 \in DeskHops
    BY Members, Amounts DEF Hops, DeskHops, Text, Lines, Blank, Quotes, NoView, ViewType, OrNone, Sums
  <2>3. [num |-> 0, items |-> [i \in 0 .. Slots - 1 |-> Blank]] \in Carts
    BY Members DEF Carts, Counts
  <2>4. NoViews \in Views /\ NoViews \in OrderViews
    <3>1. NoView \in [product : OrNone, quantity : {0}, price : MoneyType]
      BY <2>2 DEF NoView
    <3>. QED  BY <2>2, <3>1 DEF NoViews, Views, OrderViews, Counts
  <2>. QED  BY <2>1, <2>2, <2>3, <2>4 DEF NewTransaction, Txn
<1>2. NewTransaction.hop = 0
  BY DEF NewTransaction
<1>3. Typed
  BY <1>1, RequestsAssumption DEF Init, Typed
<1>4. OnCourse
  BY <1>2 DEF Init, OnCourse
<1>5. InShop
  BY DEF Init, Shop!CartInit, InShop
<1>6. OrderInv
  BY DEF Init, OrderInv
<1>7. Proved!CartInv
  BY ShopKept DEF Init
<1>8. Abstract!Init
  BY DEF Init, Abstract!Init
<1>. QED  BY <1>3, <1>4, <1>5, <1>6, <1>7, <1>8 DEF Kept

LEMMA BeginKept ==
    ASSUME Kept, NEW o \in Object, NEW r \in Requests, Begin(o, r)
    PROVE  Kept' /\ done' = done
<1>. DEFINE u == [txn[o] EXCEPT !.request = r, !.hop = 0, !.next = FRONTEND]
<1>1. r \in Asked
  BY RequestsAssumption DEF Asked
<1>2. txn[o] \in Txn /\ 1 \in Fns /\ 0 \in Hops
  BY Members DEF Kept, Typed, Hops
<1>3. u \in Txn /\ u.request = r /\ u.hop = 0 /\ u.next = FRONTEND
  BY <1>1, <1>2 DEF Txn
<1>4. Becomes(o, u) /\ busy' = busy \union {o} /\ asked' = asked + 1 /\ asked < MaxRequests
      /\ UNCHANGED <<visits, done, converter, shop>>
  BY DEF Begin
<1>. HIDE DEF u
<1>5. txn' = [txn EXCEPT ![o] = u] /\ txn'[o] = u /\ \A p \in Object \ {o} : txn'[p] = txn[p]
  BY <1>4 DEF Becomes, Kept, Typed
<1>6. Course(u) /\ ~Ordering(u)
  <2>1. Browsing(u)
    BY <1>3 DEF Browsing
  <2>2. Adding(u)
    BY <1>3 DEF Adding
  <2>. QED  BY <1>3, <2>1, <2>2, OneCourse DEF Course
<1>7. Typed'
  BY <1>3, <1>4, <1>5, RequestsAssumption DEF Kept, Typed
<1>8. OnCourse'
  BY <1>4, <1>5, <1>6 DEF Kept, OnCourse
<1>9. InShop'
  BY <1>4, <1>5 DEF Kept, InShop, shop, Begin
<1>10. Proved!CartInv'
  BY <1>4, ShopKept DEF Kept
<1>11. done[o] = <<>>
  BY DEF Kept, OrderInv, Begin
<1>12. OrderInv'
  <2>. SUFFICES ASSUME NEW p \in Object
                PROVE  IF p \in busy' THEN InOrder(txn'[p], pc'[p] # "idle", done'[p])
                                      ELSE done'[p] = <<>>
    BY DEF OrderInv
  <2>1. CASE p = o
    BY <1>4, <1>5, <1>6, <1>11, <2>1 DEF InOrder
  <2>2. CASE p # o
    <3>1. txn'[p] = txn[p] /\ pc'[p] = pc[p] /\ done'[p] = done[p] /\ (p \in busy' <=> p \in busy)
      BY <1>4, <1>5, <2>2 DEF shop
    <3>. QED  BY <3>1 DEF Kept, OrderInv
  <2>. QED  BY <2>1, <2>2
<1>. QED  BY <1>4, <1>7, <1>8, <1>9, <1>10, <1>12 DEF Kept

(* A function that is not the cart service hands a transaction on.         *)
LEMMA HandsOn ==
    ASSUME Kept, NEW o \in busy, NEW u \in Txn, Course(u), Becomes(o, u), txn[o].next # CART_SVC,
           UNCHANGED <<busy, asked, shop>>, converter' \in BOOLEAN,
           visits' \in [Object -> Seq(Visits)], done' \in [Object -> Seq(Visits)],
           \A p \in Object \ {o} : done'[p] = done[p],
           InOrder(u, FALSE, done'[o])
    PROVE  Kept'
<1>1. o \in Object /\ pc' = pc /\ pc[o] = "idle" /\ shop' = shop
  BY DEF Kept, Typed, InShop, shop
<1>2. Proved!CartInv'
  BY <1>1, ShopKept DEF Kept
<1>. QED  BY <1>1, <1>2, HandedOn

LEMMA FrontendKept ==
    ASSUME Kept, NEW o \in Object, Frontend(o)
    PROVE  Kept' /\ done' = done
<1>. DEFINE t == txn[o]  u == Front!HttpRequestDispatcher(t)
<1>1. o \in busy /\ t.next = FRONTEND /\ t \in Txn /\ Course(t) /\ Typed
  BY DEF Kept, Typed, OnCourse, Frontend, At
<1>2. Browsing(t) /\ Adding(t) /\ ~Ordering(t)
  BY <1>1, OneCourse DEF Course, Finished
<1>3. Becomes(o, u) /\ Visit(o, "frontend") /\ UNCHANGED <<busy, asked, converter, shop>>
  BY DEF Frontend
<1>4. InOrder(t, pc[o] # "idle", done[o])
  BY <1>1 DEF Kept, OrderInv
<1>. HIDE DEF t
<1>5. /\ u \in Txn /\ u.request = t.request /\ Course(u)
      /\ IF t.request.path = "checkout" /\ t.hop = 0
         THEN u.hop = 1 /\ u.next = CHECKOUT_SVC /\ u.coHop = 0
         ELSE (Browsing(u) \/ Finished(u)) /\ (t.request.path = "checkout" => u.hop # 0)
  BY <1>1, <1>2, FrontStep
<1>. HIDE DEF u
<1>6. visits' \in [Object -> Seq(Visits)] /\ done' \in [Object -> Seq(Visits)] /\ done' = done
  <2>1. "frontend" \in Visits /\ ~IsStep("frontend")
    BY Steps
  <2>. QED  BY <1>1, <1>3, <2>1, Visiting
<1>7. InOrder(u, FALSE, done[o])
  <2>1. CASE t.request.path = "checkout" /\ t.hop = 0
    <3>1. done[o] = <<>> /\ SoFar(u, FALSE) = <<>>
      BY <1>2, <1>4, <1>5, <2>1 DEF InOrder, SoFar
    <3>. QED  BY <1>5, <2>1, <3>1 DEF InOrder
  <2>2. CASE ~(t.request.path = "checkout" /\ t.hop = 0)
    <3>1. ~Ordering(u)
      BY <1>5, <2>2, OneCourse
    <3>. QED  BY <1>2, <1>4, <1>5, <2>2, <3>1 DEF InOrder
  <2>. QED  BY <2>1, <2>2
<1>8. t.next # CART_SVC /\ converter' \in BOOLEAN
  BY <1>1, <1>3 DEF Typed
<1>. QED  BY <1>1, <1>3, <1>5, <1>6, <1>7, <1>8, HandsOn DEF t

LEMMA UnservedKept ==
    ASSUME Kept, NEW o \in Object, Unserved(o)
    PROVE  Kept' /\ done' = done
<1>1. txn[o] \in Txn /\ Front!HttpRequestDispatcher(txn[o]) = txn[o]
  BY DEF Kept, Typed, Unserved, Front!HttpRequestDispatcher
<1>2. txn' = txn
  BY <1>1 DEF Kept, Typed, Unserved, Becomes
<1>3. UNCHANGED <<busy, asked, visits, done, converter, shop>>
  BY DEF Unserved
<1>4. Typed' /\ OnCourse' /\ InShop' /\ OrderInv'
  BY <1>2, <1>3 DEF Kept, Typed, OnCourse, InShop, OrderInv, shop
<1>5. Proved!CartInv'
  BY <1>3, ShopKept DEF Kept
<1>. QED  BY <1>3, <1>4, <1>5 DEF Kept

LEMMA CheckoutKept ==
    ASSUME Kept, NEW o \in Object, Checkout(o)
    PROVE  Kept' /\ done' = done
<1>. DEFINE t == txn[o]  u == Desk!PlaceOrder(t)
<1>1. o \in busy /\ t.next = CHECKOUT_SVC /\ t \in Txn /\ Course(t) /\ Typed
  BY DEF Kept, Typed, OnCourse, Checkout, At
<1>2. Ordering(t)
  BY <1>1 DEF Course, Finished, Browsing, FrontCalls, PageCalls
<1>3. Becomes(o, u) /\ Visit(o, "checkout") /\ UNCHANGED <<busy, asked, converter, shop>>
  BY DEF Checkout
<1>4. done[o] = SoFar(t, pc[o] # "idle")
  BY <1>1, <1>2 DEF Kept, OrderInv, InOrder
<1>. HIDE DEF t
<1>5. /\ u \in Txn /\ u.request = t.request /\ u.hop = 1 /\ Course(u)
      /\ \/ OrderAsks(t, u, u.coHop) /\ u.coHop \in Follows(t.coHop) /\ Ordering(u)
         \/ t.coHop \in {1, 9} /\ u.next = FRONTEND
  BY <1>1, <1>2, DeskStep
<1>. HIDE DEF u
<1>6. visits' \in [Object -> Seq(Visits)] /\ done' \in [Object -> Seq(Visits)] /\ done' = done
  <2>1. "checkout" \in Visits /\ ~IsStep("checkout")
    BY Steps
  <2>. QED  BY <1>1, <1>3, <2>1, Visiting
<1>7. InOrder(u, FALSE, done[o])
  <2>1. CASE OrderAsks(t, u, u.coHop) /\ u.coHop \in Follows(t.coHop) /\ Ordering(u)
    <3>1. u.next # CHECKOUT_SVC
      BY <2>1 DEF OrderAsks, DeskCalls
    <3>2. \/ t.coHop \in {0, 1, 2, 4} /\ u.coHop \in {1, 2, 4, 6}
          \/ t.coHop = 6 /\ u.coHop = 7
          \/ t.coHop = 7 /\ u.coHop = 8
          \/ t.coHop = 8 /\ u.coHop = 9
      BY <2>1 DEF Follows
    <3>3. SoFar(u, FALSE) = SoFar(t, pc[o] # "idle")
      <4>1. CASE t.coHop \in {0, 1, 2, 4} /\ u.coHop \in {1, 2, 4, 6}
        BY <1>1, <3>1, <4>1 DEF SoFar
      <4>2. CASE t.coHop = 6 /\ u.coHop = 7
        BY <1>1, <3>1, <4>2 DEF SoFar
      <4>3. CASE t.coHop = 7 /\ u.coHop = 8
        BY <1>1, <3>1, <4>3 DEF SoFar
      <4>4. CASE t.coHop = 8 /\ u.coHop = 9
        BY <1>1, <3>1, <4>4 DEF SoFar
      <4>. QED  BY <3>2, <4>1, <4>2, <4>3, <4>4
    <3>. QED  BY <1>4, <2>1, <3>3 DEF InOrder
  <2>2. CASE t.coHop \in {1, 9} /\ u.next = FRONTEND
    <3>1. ~Ordering(u)
      BY <2>2, OneCourse
    <3>2. done[o] \in {<<>>, Confirmed}
      BY <1>1, <1>4, <2>2 DEF SoFar
    <3>. QED  BY <1>5, <3>1, <3>2 DEF InOrder
  <2>. QED  BY <1>5, <2>1, <2>2
<1>8. t.next # CART_SVC /\ converter' \in BOOLEAN
  BY <1>1, <1>3 DEF Typed
<1>. QED  BY <1>1, <1>3, <1>5, <1>6, <1>7, <1>8, HandsOn DEF t

(* What is asked of a service, and whether it is a step of the order.      *)
LEMMA CalledSteps ==
    ASSUME NEW t \in Txn, Course(t), t.next \in DOMAIN Serves
    PROVE  /\ t.rpc \in Visits
           /\ ~Ordering(t) => ~IsStep(t.rpc)
           /\ Ordering(t) =>
                \/ t.coHop \in {1, 2, 4} /\ ~IsStep(t.rpc)
                \/ t.coHop = 6 /\ t.rpc = "Charge" /\ t.next # CART_SVC
                \/ t.coHop = 7 /\ t.rpc = "ShipOrder" /\ t.next # CART_SVC
                \/ t.coHop = 8 /\ t.rpc = "EmptyCart" /\ t.next = CART_SVC
                \/ t.coHop = 9 /\ t.rpc = "SendOrderConfirmation" /\ t.next # CART_SVC
<1>1. t.next \notin {0, 1, 7} /\ t.coHop \in DeskHops
  BY AskedWell DEF Txn
<1>2. t.rpc \in Visits
  BY CalledWell, Steps
<1>3. ~Ordering(t) => ~IsStep(t.rpc)
  <2>. SUFFICES ASSUME ~Ordering(t) PROVE ~IsStep(t.rpc)
    OBVIOUS
  <2>1. <<t.next, t.rpc>> \in FrontCalls
    BY <1>1 DEF Course, Finished, Browsing
  <2>. QED  BY <2>1, Steps DEF FrontCalls, PageCalls
<1>4. ASSUME Ordering(t)
      PROVE  \/ t.coHop \in {1, 2, 4} /\ ~IsStep(t.rpc)
             \/ t.coHop = 6 /\ t.rpc = "Charge" /\ t.next # CART_SVC
             \/ t.coHop = 7 /\ t.rpc = "ShipOrder" /\ t.next # CART_SVC
             \/ t.coHop = 8 /\ t.rpc = "EmptyCart" /\ t.next = CART_SVC
             \/ t.coHop = 9 /\ t.rpc = "SendOrderConfirmation" /\ t.next # CART_SVC
  <2>1. <<t.next, t.rpc>> \in DeskCalls(t.coHop)
    BY <1>1, <1>4 DEF Ordering
  <2>. QED  BY <2>1, Steps DEF DeskCalls
<1>. QED  BY <1>2, <1>3, <1>4

LEMMA ServeKept ==
    ASSUME Kept, NEW o \in Object, NEW s \in Stateless, Serve(o, s)
    PROVE  Kept' /\ (Abstract!Next \/ done' = done)
<1>. DEFINE t == txn[o]  u == Reply(Does!ServiceOf(s, t))
<1>1. o \in busy /\ t.next = s /\ t \in Txn /\ Course(t) /\ Typed
  BY DEF Kept, Typed, OnCourse, Serve, At
<1>2. s \in DOMAIN Serves /\ s # CART_SVC
  BY DEF Stateless
<1>3. Becomes(o, u) /\ Visit(o, t.rpc) /\ UNCHANGED <<busy, asked, converter, shop>>
  BY DEF Serve
<1>4. InOrder(t, pc[o] # "idle", done[o]) /\ pc[o] = "idle"
  BY <1>1, <1>2 DEF Kept, OrderInv, InShop
<1>. HIDE DEF t
<1>5. Replied(t, u)
  BY <1>1, ServiceStep
<1>. HIDE DEF u
<1>6. /\ Course(u)
      /\ \/ Browsing(t) /\ t.caller = FRONTEND /\ u.next = FRONTEND /\ Browsing(u)
         \/ Ordering(t) /\ t.caller = CHECKOUT_SVC /\ u.next = CHECKOUT_SVC /\ Ordering(u)
  BY <1>1, <1>2, <1>5, RepliedCourse
<1>7. /\ t.rpc \in Visits
      /\ ~Ordering(t) => ~IsStep(t.rpc)
      /\ Ordering(t) =>
           \/ t.coHop \in {1, 2, 4} /\ ~IsStep(t.rpc)
           \/ t.coHop = 6 /\ t.rpc = "Charge"
           \/ t.coHop = 7 /\ t.rpc = "ShipOrder"
           \/ t.coHop = 9 /\ t.rpc = "SendOrderConfirmation"
  BY <1>1, <1>2, CalledSteps
<1>8. /\ visits' \in [Object -> Seq(Visits)] /\ done' \in [Object -> Seq(Visits)]
      /\ IsStep(t.rpc) => done' = [done EXCEPT ![o] = Append(done[o], t.rpc)]
      /\ ~IsStep(t.rpc) => done' = done
  BY <1>1, <1>3, <1>7, Visiting
<1>9. InOrder(u, FALSE, done'[o]) /\ (Abstract!Next \/ done' = done)
  <2>1. CASE ~Ordering(t)
    <3>1. done' = done /\ Browsing(u) /\ ~Ordering(u)
      BY <1>6, <1>7, <1>8, <2>1, OneCourse
    <3>. QED  BY <1>4, <1>5, <2>1, <3>1 DEF InOrder, Replied
  <2>2. CASE Ordering(t)
    <3>1. u.next = CHECKOUT_SVC /\ Ordering(u) /\ u.coHop = t.coHop /\ t.next \notin {7}
      BY <1>1, <1>2, <1>5, <1>6, <2>2, OneCourse, AskedWell DEF Replied
    <3>2. done[o] = SoFar(t, FALSE)
      BY <1>4, <2>2 DEF InOrder
    <3>3. CASE t.coHop \in {1, 2, 4} /\ ~IsStep(t.rpc)
      <4>1. SoFar(t, FALSE) = <<>> /\ SoFar(u, FALSE) = <<>> /\ done' = done
        BY <1>8, <3>1, <3>3 DEF SoFar
      <4>. QED  BY <3>1, <3>2, <4>1 DEF InOrder
    <3>4. CASE t.coHop = 6 /\ t.rpc = "Charge"
      <4>1. SoFar(t, FALSE) = <<>> /\ SoFar(u, FALSE) = Charged
        BY <3>1, <3>4 DEF SoFar
      <4>2. Abstract!Next /\ done'[o] = Charged
        BY <1>1, <1>8, <3>2, <3>4, <4>1, Steps, OrderProceeds
      <4>. QED  BY <3>1, <4>1, <4>2 DEF InOrder
    <3>5. CASE t.coHop = 7 /\ t.rpc = "ShipOrder"
      <4>1. SoFar(t, FALSE) = Charged /\ SoFar(u, FALSE) = Shipped
        BY <3>1, <3>5 DEF SoFar
      <4>2. Abstract!Next /\ done'[o] = Shipped
        BY <1>1, <1>8, <3>2, <3>5, <4>1, Steps, OrderProceeds
      <4>. QED  BY <3>1, <4>1, <4>2 DEF InOrder
    <3>6. CASE t.coHop = 9 /\ t.rpc = "SendOrderConfirmation"
      <4>1. SoFar(t, FALSE) = CartEmptied /\ SoFar(u, FALSE) = Confirmed
        BY <3>1, <3>6 DEF SoFar
      <4>2. Abstract!Next /\ done'[o] = Confirmed
        BY <1>1, <1>8, <3>2, <3>6, <4>1, Steps, OrderProceeds
      <4>. QED  BY <3>1, <4>1, <4>2 DEF InOrder
    <3>. QED  BY <1>7, <2>2, <3>3, <3>4, <3>5, <3>6
  <2>. QED  BY <2>1, <2>2
<1>10. \A p \in Object \ {o} : done'[p] = done[p]
  BY <1>1, <1>8 DEF Typed
<1>11. t.next # CART_SVC /\ converter' \in BOOLEAN /\ u \in Txn
  BY <1>1, <1>2, <1>3, <1>5 DEF Typed, Replied
<1>12. Kept'
  BY <1>1, <1>3, <1>6, <1>8, <1>9, <1>10, <1>11, HandsOn DEF t
<1>. QED  BY <1>9, <1>12

LEMMA ConvertNothingKept ==
    ASSUME Kept, NEW o \in Object, ConvertNothing(o)
    PROVE  Kept' /\ done' = done
<1>1. UNCHANGED <<txn, busy, asked, visits, done, shop>> /\ converter' = FALSE
  BY DEF ConvertNothing
<1>2. Typed' /\ OnCourse' /\ InShop' /\ OrderInv'
  BY <1>1 DEF Kept, Typed, OnCourse, InShop, OrderInv, shop
<1>3. Proved!CartInv'
  BY <1>1, ShopKept DEF Kept
<1>. QED  BY <1>1, <1>2, <1>3 DEF Kept

(* The cart service begins: for an order, when it is to empty the cart.    *)
LEMMA CartCallKept ==
    ASSUME Kept, NEW o \in Object, CartCall(o)
    PROVE  Kept' /\ (Abstract!Next \/ done' = done)
<1>. DEFINE t == txn[o]
            r == [rpc |-> t.rpc, item |-> IF t.rpc = "AddItem" THEN t.add ELSE Blank]
<1>1. o \in busy /\ t.next = CART_SVC /\ t \in Txn /\ Course(t) /\ Typed
  BY DEF Kept, Typed, OnCourse, CartCall, At
<1>2. t.rpc \in {"AddItem", "GetCart", "EmptyCart"} /\ CART_SVC \in DOMAIN Serves
  <2>1. Serves[CART_SVC] = {"AddItem", "GetCart", "EmptyCart"} /\ CART_SVC \in DOMAIN Serves
    BY DEF Serves
  <2>. QED  BY <2>1 DEF CartCall
<1>3. Shop!Call(o, r) /\ Visit(o, t.rpc) /\ UNCHANGED <<txn, busy, asked, converter>>
  BY DEF CartCall
<1>4. r \in CartRequests
  <2>1. t.rpc = "AddItem" => t.add \in Item
    BY <1>1 DEF Course, Adding
  <2>. HIDE DEF t
  <2>. QED  BY <1>2, <2>1 DEF CartRequests
<1>5. Proved!CartInv'
  BY <1>3, <1>4, ShopStep, ShopKept DEF Kept
<1>6. pc[o] = "idle" /\ pc'[o] # "idle" /\ \A p \in Object \ {o} : pc'[p] = pc[p]
  BY <1>3, ShopWorks DEF Kept
<1>7. InOrder(t, FALSE, done[o])
  BY <1>1, <1>6 DEF Kept, OrderInv
<1>. HIDE DEF t, r
<1>8. /\ t.rpc \in Visits
      /\ ~Ordering(t) => ~IsStep(t.rpc)
      /\ Ordering(t) => \/ t.coHop \in {1, 2, 4} /\ ~IsStep(t.rpc)
                        \/ t.coHop = 8 /\ t.rpc = "EmptyCart"
  BY <1>1, <1>2, CalledSteps
<1>9. /\ visits' \in [Object -> Seq(Visits)] /\ done' \in [Object -> Seq(Visits)]
      /\ IsStep(t.rpc) => done' = [done EXCEPT ![o] = Append(done[o], t.rpc)]
      /\ ~IsStep(t.rpc) => done' = done
  BY <1>1, <1>3, <1>8, Visiting
<1>10. InOrder(t, TRUE, done'[o]) /\ (Abstract!Next \/ done' = done)
  <2>1. CASE ~Ordering(t)
    BY <1>7, <1>8, <1>9, <2>1 DEF InOrder
  <2>2. CASE Ordering(t) /\ t.coHop \in {1, 2, 4} /\ ~IsStep(t.rpc)
    <3>1. SoFar(t, FALSE) = <<>> /\ SoFar(t, TRUE) = <<>>
      BY <2>2 DEF SoFar
    <3>. QED  BY <1>7, <1>9, <2>2, <3>1 DEF InOrder
  <2>3. CASE Ordering(t) /\ t.coHop = 8 /\ t.rpc = "EmptyCart"
    <3>1. SoFar(t, FALSE) = Shipped /\ SoFar(t, TRUE) = CartEmptied
      BY <1>1, <2>3 DEF SoFar
    <3>2. done[o] = Shipped
      BY <1>7, <2>3, <3>1 DEF InOrder
    <3>3. Abstract!Next /\ done'[o] = CartEmptied
      BY <1>1, <1>9, <2>3, <3>2, Steps, OrderProceeds
    <3>. QED  BY <2>3, <3>1, <3>3 DEF InOrder
  <2>. QED  BY <1>8, <2>1, <2>2, <2>3
<1>11. \A p \in Object \ {o} : done'[p] = done[p]
  BY <1>1, <1>9 DEF Typed
<1>12. Typed' /\ OnCourse'
  BY <1>3, <1>9 DEF Kept, Typed, OnCourse
<1>13. InShop'
  BY <1>1, <1>3, <1>6 DEF Kept, InShop, t
<1>14. OrderInv'
  <2>. SUFFICES ASSUME NEW p \in Object
                PROVE  IF p \in busy THEN InOrder(txn[p], pc'[p] # "idle", done'[p])
                                     ELSE done'[p] = <<>>
    BY <1>3 DEF OrderInv
  <2>1. CASE p = o
    BY <1>1, <1>6, <1>10, <2>1 DEF t
  <2>2. CASE p # o
    BY <1>6, <1>11, <2>2 DEF Kept, OrderInv
  <2>. QED  BY <2>1, <2>2
<1>. QED  BY <1>5, <1>10, <1>12, <1>13, <1>14 DEF Kept

LEMMA CartWorkKept ==
    ASSUME Kept, NEW o \in Object, CartWork(o)
    PROVE  Kept' /\ done' = done
<1>1. Shop!CartStep(o) /\ UNCHANGED <<txn, busy, asked, visits, done, converter>>
  BY DEF CartWork
<1>2. pc[o] # "idle" /\ pc'[o] # "idle" /\ \A p \in Object \ {o} : pc'[p] = pc[p]
  BY <1>1, ShopWorks DEF Kept
<1>3. Proved!CartInv'
  BY <1>1, ShopStep, ShopKept DEF Kept
<1>4. \A p \in Object : pc'[p] # "idle" <=> pc[p] # "idle"
  BY <1>2
<1>5. Typed' /\ OnCourse' /\ InShop'
  BY <1>1, <1>4 DEF Kept, Typed, OnCourse, InShop
<1>6. OrderInv'
  <2>. SUFFICES ASSUME NEW p \in Object
                PROVE  IF p \in busy THEN InOrder(txn[p], pc'[p] # "idle", done[p])
                                     ELSE done[p] = <<>>
    BY <1>1 DEF OrderInv
  <2>1. (pc'[p] # "idle") = (pc[p] # "idle")
    BY <1>4
  <2>. QED  BY <2>1 DEF Kept, OrderInv
<1>. QED  BY <1>1, <1>3, <1>5, <1>6 DEF Kept

LEMMA CartReturnKept ==
    ASSUME Kept, NEW o \in Object, CartReturn(o)
    PROVE  Kept' /\ done' = done
<1>. DEFINE t == txn[o]  v == [t EXCEPT !.cart = reply[o]]  u == Reply(v)
<1>1. Shop!HandBack(o) /\ Becomes(o, u) /\ UNCHANGED <<busy, asked, visits, done, converter>>
  BY DEF CartReturn
<1>2. pc[o] # "idle" /\ pc'[o] = "idle" /\ \A p \in Object \ {o} : pc'[p] = pc[p]
  BY <1>1, ShopWorks DEF Kept
<1>3. o \in busy /\ t.next = CART_SVC /\ t \in Txn /\ Course(t) /\ Typed /\ reply[o] \in Carts
  BY <1>2, ShopWorks DEF Kept, Typed, OnCourse, InShop
<1>4. Proved!CartInv'
  BY <1>1, ShopStep, ShopKept DEF Kept
<1>5. InOrder(t, TRUE, done[o])
  <2>1. (pc[o] # "idle") = TRUE
    BY <1>2
  <2>. QED  BY <1>3, <2>1 DEF Kept, OrderInv
<1>6. /\ v \in Txn /\ v.request = t.request /\ v.hop = t.hop /\ v.coHop = t.coHop
      /\ v.id = t.id /\ v.next = t.next /\ v.caller = t.caller
  BY <1>3 DEF Txn
<1>. HIDE DEF t, v
<1>7. Replied(t, u)
  BY <1>3, <1>6, ReplyType
<1>. HIDE DEF u
<1>8. CART_SVC \in DOMAIN Serves
  BY AskedWell
<1>9. /\ Course(u)
      /\ \/ Browsing(t) /\ t.caller = FRONTEND /\ u.next = FRONTEND /\ Browsing(u)
         \/ Ordering(t) /\ t.caller = CHECKOUT_SVC /\ u.next = CHECKOUT_SVC /\ Ordering(u)
  BY <1>3, <1>7, <1>8, RepliedCourse
<1>10. InOrder(u, FALSE, done'[o])
  <2>1. CASE Browsing(t) /\ Browsing(u)
    BY <1>1, <1>5, <1>7, <2>1, OneCourse DEF InOrder, Replied
  <2>2. CASE Ordering(t) /\ u.next = CHECKOUT_SVC /\ Ordering(u)
    <3>1. t.coHop \in {1, 2, 4, 8}
      BY <1>3, <1>8, <2>2, CalledSteps
    <3>2. SoFar(u, FALSE) = SoFar(t, TRUE)
      BY <1>3, <1>7, <2>2, <3>1 DEF SoFar, Replied
    <3>. QED  BY <1>1, <1>5, <2>2, <3>2 DEF InOrder
  <2>. QED  BY <1>9, <2>1, <2>2
<1>11. /\ u \in Txn /\ converter' \in BOOLEAN /\ visits' \in [Object -> Seq(Visits)]
       /\ done' \in [Object -> Seq(Visits)]
  BY <1>1, <1>3, <1>7 DEF Typed, Replied
<1>12. Kept'
  BY <1>1, <1>2, <1>3, <1>4, <1>9, <1>10, <1>11, HandedOn
<1>. QED  BY <1>1, <1>12

(* The gateway is only reached with a hop_count beyond the route, so that  *)
(* it answers: an order is done, or there was none.                        *)
LEMMA GatewayKept ==
    ASSUME Kept, NEW o \in Object, Gateway(o)
    PROVE  Kept' /\ (Abstract!Next \/ done' = done)
<1>. DEFINE t == txn[o]  hop == (t.hop + 1) % 256  u == [t EXCEPT !.hop = hop]
<1>1. o \in busy /\ t.next = GATEWAY /\ t \in Txn /\ Course(t) /\ Typed
  BY DEF Kept, Typed, OnCourse, Gateway, At
<1>2. Finished(t) /\ ~Ordering(t)
  BY <1>1, OneCourse DEF Course, Browsing, Ordering, FrontCalls, PageCalls, DeskCalls
<1>3. hop = t.hop + 1 /\ t.hop \in 100 .. 106
  BY <1>2 DEF Finished
<1>4. Len(Route) = 11
  BY DEF Route
<1>5. /\ Becomes(o, u) /\ busy' = busy \ {o} /\ visits' = [visits EXCEPT ![o] = <<>>]
      /\ done' = [done EXCEPT ![o] = <<>>] /\ UNCHANGED <<asked, converter, shop>>
  BY <1>3, <1>4 DEF Gateway
<1>6. hop \in Hops /\ hop \in 101 .. 107
  BY <1>3 DEF Hops
<1>7. done[o] \in {<<>>, Confirmed}
  BY <1>1, <1>2 DEF Kept, OrderInv, InOrder
<1>8. u \in Txn /\ u.hop = hop
  BY <1>1, <1>6 DEF Txn
<1>. HIDE DEF t, hop, u
<1>9. txn'[o] = u /\ \A p \in Object \ {o} : txn'[p] = txn[p]
  BY <1>1, <1>5 DEF Becomes, Typed
<1>10. Typed'
  <2>1. <<>> \in Seq(Visits)
    OBVIOUS
  <2>2. txn' \in [Object -> Txn]
    BY <1>1, <1>5, <1>8 DEF Becomes, Typed
  <2>. QED  BY <1>1, <1>5, <2>1, <2>2 DEF Typed
<1>11. OnCourse'
  BY <1>5, <1>6, <1>8, <1>9 DEF Kept, OnCourse
<1>12. pc' = pc /\ pc[o] = "idle"
  BY <1>1, <1>5 DEF Kept, InShop, shop, t
<1>13. InShop'
  BY <1>5, <1>9, <1>12 DEF Kept, InShop
<1>14. OrderInv'
  <2>. SUFFICES ASSUME NEW p \in Object
                PROVE  IF p \in busy' THEN InOrder(txn'[p], pc'[p] # "idle", done'[p])
                                      ELSE done'[p] = <<>>
    BY DEF OrderInv
  <2>1. CASE p = o
    BY <1>1, <1>5, <2>1 DEF Typed
  <2>2. CASE p # o
    <3>1. done'[p] = done[p] /\ txn'[p] = txn[p] /\ (p \in busy' <=> p \in busy)
      BY <1>1, <1>5, <1>9, <2>2 DEF Typed
    <3>. QED  BY <1>12, <3>1 DEF Kept, OrderInv
  <2>. QED  BY <2>1, <2>2
<1>15. Proved!CartInv'
  BY <1>5, ShopKept DEF Kept
<1>16. Abstract!Next \/ done' = done
  <2>1. CASE done[o] = <<>>
    BY <1>1, <1>5, <2>1 DEF Typed
  <2>2. CASE done[o] = Confirmed
    BY <1>5, <2>2, OrderSteps DEF Abstract!Next, Abstract!End
  <2>. QED  BY <1>7, <2>1, <2>2
<1>. QED  BY <1>10, <1>11, <1>13, <1>14, <1>15, <1>16 DEF Kept

LEMMA StepKept == Kept /\ [Next]_vars => Kept' /\ [Abstract!Next]_done
<1>. SUFFICES ASSUME Kept, [Next]_vars PROVE Kept' /\ (Abstract!Next \/ done' = done)
  OBVIOUS
<1>1. CASE UNCHANGED vars
  <2>1. UNCHANGED shop
    BY <1>1 DEF vars, shop
  <2>2. Proved!CartInv'
    BY <2>1, ShopKept DEF Kept
  <2>3. Typed' /\ OnCourse' /\ InShop' /\ OrderInv' /\ done' = done
    BY <1>1 DEF vars, Kept, Typed, OnCourse, InShop, OrderInv
  <2>. QED  BY <2>2, <2>3 DEF Kept
<1>2. ASSUME NEW o \in Object, NEW r \in Requests, Begin(o, r)
      PROVE  Kept' /\ (Abstract!Next \/ done' = done)
  BY <1>2, BeginKept
<1>3. ASSUME NEW o \in Object, Step(o)
      PROVE  Kept' /\ (Abstract!Next \/ done' = done)
  <2>1. CASE Frontend(o)
    BY <2>1, FrontendKept
  <2>2. CASE Unserved(o)
    BY <2>2, UnservedKept
  <2>3. CASE Checkout(o)
    BY <2>3, CheckoutKept
  <2>4. ASSUME NEW s \in Stateless, Serve(o, s)
        PROVE  Kept' /\ (Abstract!Next \/ done' = done)
    BY <2>4, ServeKept
  <2>5. CASE ConvertNothing(o)
    BY <2>5, ConvertNothingKept
  <2>6. CASE CartCall(o)
    BY <2>6, CartCallKept
  <2>7. CASE CartWork(o)
    BY <2>7, CartWorkKept
  <2>8. CASE CartReturn(o)
    BY <2>8, CartReturnKept
  <2>9. CASE Gateway(o)
    BY <2>9, GatewayKept
  <2>. QED  BY <1>3, <2>1, <2>2, <2>3, <2>4, <2>5, <2>6, <2>7, <2>8, <2>9 DEF Step
<1>. QED  BY <1>1, <1>2, <1>3 DEF Next

THEOREM Invariance == Spec => []Kept
<1>1. Init => Kept
  BY InitKept
<1>2. Kept /\ [Next]_vars => Kept'
  BY StepKept
<1>. QED  BY <1>1, <1>2, PTL DEF Spec

(* The variables keep their types, whatever the requests: the counters of  *)
(* the handlers stay within the arrays they index, and hop_count, a byte,  *)
(* never wraps.                                                            *)
THEOREM TypeCorrect == Spec => []TypeOK
<1>1. Kept => TypeOK
  <2>. SUFFICES ASSUME Kept PROVE TypeOK
    OBVIOUS
  <2>1. ASSUME NEW o \in Object
        PROVE  LET t == txn[o] IN
               /\ t.next \in DOMAIN Serves \union {GATEWAY, FRONTEND, CHECKOUT_SVC}
               /\ t.caller \in DOMAIN Serves \union {GATEWAY, FRONTEND, CHECKOUT_SVC}
               /\ t.hop \in 0 .. 6 \union 100 .. 108
               /\ t.coHop \in 0 .. 9
               /\ {t.from, t.result, t.quote.cost} \subseteq MoneyType
               /\ {t.id, t.product} \subseteq Products \union {None}
               /\ {t.itemCnt, t.convCnt, t.orderCnt, t.orderConv} \subseteq 0 .. Slots
               /\ t.items \in [0 .. Slots - 1 -> ViewType]
               /\ t.orders \in [0 .. Slots - 1 -> ViewType]
               /\ t.total \in Seq(MoneyType)
               /\ t.charge \in Seq(MoneyType)
    <3>. DEFINE t == txn[o]
    <3>1. t \in Txn
      BY DEF Kept, Typed
    <3>2. t.hop \in 0 .. 6 \union 100 .. 108
      <4>1. CASE o \in busy
        <5>1. Course(t)
          BY <4>1 DEF Kept, OnCourse
        <5>. HIDE DEF t
        <5>. QED  BY <5>1 DEF Course, Finished, Browsing, Ordering
      <4>2. CASE o \notin busy
        BY <4>2 DEF Kept, OnCourse
      <4>. QED  BY <4>1, <4>2
    <3>. HIDE DEF t
    <3>3. /\ t.next \in DOMAIN Serves \union {GATEWAY, FRONTEND, CHECKOUT_SVC}
          /\ t.caller \in DOMAIN Serves \union {GATEWAY, FRONTEND, CHECKOUT_SVC}
      BY <3>1, AskedWell DEF Txn, Fns
    <3>4. t.coHop \in 0 .. 9 /\ {t.from, t.result, t.quote.cost} \subseteq MoneyType
      BY <3>1 DEF Txn, DeskHops, Quotes
    <3>5. /\ {t.id, t.product} \subseteq Products \union {None}
          /\ t.total \in Seq(MoneyType) /\ t.charge \in Seq(MoneyType)
      BY <3>1 DEF Txn, OrNone, Sums
    <3>6. {t.itemCnt, t.convCnt, t.orderCnt, t.orderConv} \subseteq 0 .. Slots
      BY <3>1, RpcAssumption DEF Txn, Counts
    <3>7. t.items \in [0 .. Slots - 1 -> ViewType] /\ t.orders \in [0 .. Slots - 1 -> ViewType]
      BY <3>1, OrderViewsAreViews DEF Txn, Views, Counts
    <3>. QED  BY <3>2, <3>3, <3>4, <3>5, <3>6, <3>7 DEF t
  <2>2. /\ busy \subseteq Object /\ asked \in 0 .. MaxRequests /\ converter \in BOOLEAN
        /\ visits \in [Object -> Seq(Visits)]
    BY DEF Kept, Typed
  <2>. QED  BY <2>1, <2>2 DEF TypeOK
<1>. QED  BY <1>1, Invariance, PTL

(* Only an order is ever with the checkout service or with one it asked,   *)
(* in the first step of the frontend; and no service is asked for what it  *)
(* does not do, so that none ever runs its mock test on a client's data.   *)
THEOREM CallsNest == Spec => []NestedCalls
<1>1. Kept => NestedCalls
  <2>. SUFFICES ASSUME Kept, NEW o \in busy
                PROVE  LET t == txn[o] IN
                       /\ (CHECKOUT_SVC = t.next \/ (t.next \in DOMAIN Serves /\ t.caller = CHECKOUT_SVC))
                              => t.request.path = "checkout" /\ t.hop = 1
                       /\ t.next \in DOMAIN Serves => t.rpc \in Serves[t.next]
    BY DEF NestedCalls
  <2>. DEFINE t == txn[o]
  <2>1. t \in Txn /\ Course(t)
    BY DEF Kept, Typed, OnCourse
  <2>. HIDE DEF t
  <2>2. t.next \in DOMAIN Serves => t.next \notin {0, 1, 7}
    BY AskedWell
  <2>3. ASSUME CHECKOUT_SVC = t.next \/ (t.next \in DOMAIN Serves /\ t.caller = CHECKOUT_SVC)
        PROVE  t.request.path = "checkout" /\ t.hop = 1
    <3>1. ~Finished(t)
      BY <2>2, <2>3 DEF Finished
    <3>2. ~Browsing(t)
      BY <2>2, <2>3 DEF Browsing, FrontCalls, PageCalls
    <3>. QED  BY <2>1, <3>1, <3>2 DEF Course, Ordering
  <2>4. t.next \in DOMAIN Serves => t.rpc \in Serves[t.next]
    BY <2>1, CalledWell
  <2>. QED  BY <2>3, <2>4 DEF t
<1>. QED  BY <1>1, Invariance, PTL

(* The Boutique implements Order: an order is charged, shipped, taken from *)
(* the cart and confirmed, each once and in this order, and answered when  *)
(* all of it or none is done.                                              *)
THEOREM OrdersAreWhole == Spec => OrderSpec
<1>1. Init => Abstract!Init
  BY InitKept
<1>2. Kept /\ [Next]_vars => [Abstract!Next]_done
  BY StepKept
<1>. QED  BY <1>1, <1>2, Invariance, PTL DEF Spec, OrderSpec, Abstract!Spec

-----------------------------------------------------------------------------
(* Where a request that was handed on k times goes next on the way of its  *)
(* page, or on the short one of an empty cart.                             *)
NextOn(path, k) == IF k = Len(Way(path)) THEN GATEWAY ELSE Way(path)[k + 1]
NextShort(path, k) == IF k = Len(ShortWay(path)) THEN GATEWAY ELSE ShortWay(path)[k + 1]

(* What is known of a request that was handed on k times, page by page:    *)
(* which step its handler is in, and where the price that it waits for is. *)
(* A price is only known of a product of the catalogue.                    *)
Known(p, fact) == p \in Catalogue => fact
Quote(cur) == Money("shipping", cur, 0)

HomeAt(t, k) ==
    /\ k \in 0 .. 9
    /\ k = 0 => t.hop = 0
    /\ k \in {1, 2} => t.hop = 1
    /\ k \in {3, 4} => t.hop = 2
    /\ k \in {5, 6} => t.hop = 3
    /\ k \in {7, 8} => t.hop = 5

AddToCartAt(t, k) ==
    /\ k \in 0 .. 5
    /\ k = 0 => t.hop = 0
    /\ k \in {1, 2} => t.hop = 1
    /\ k \in {3, 4} => t.hop = 2

ProductAt(t, k) ==
    LET p == t.request.item.product IN
    /\ k \in 0 .. 13
    /\ k = 0 => t.hop = 0
    /\ k \in {1, 2} => t.hop = 1
    /\ k \in {3, 4} => t.hop = 2
    /\ k \in {5, 6} => t.hop = 3
    /\ k \in 1 .. 6 => t.viewed = 0
    /\ k \in {7, 8} => t.hop = 3 /\ t.viewed = 1
    /\ k \in {9, 10} => t.hop = 4
    /\ k \in {11, 12} => t.hop = 5
    /\ k = 1 => t.id = p /\ t.rpc = "GetProduct"
    /\ k \in 2 .. 8 => Known(p, t.product = p)
    /\ k = 7 => Known(p, t.from = PriceUsd(p)) /\ t.rpc = "Convert"
    /\ k = 8 => Known(p, t.result = PriceCad(p))
    /\ k \in 9 .. 13 =>
        Known(p, t.view = [product |-> p, quantity |-> 0, price |-> PriceCad(p)])

ViewCartAt(t, k) ==
    LET p == t.cart.items[0].product
        q == t.cart.items[0].quantity IN
    /\ k \in 0 .. 15
    /\ k = 0 => t.hop = 0
    /\ k \in {1, 2} => t.hop = 1
    /\ k \in {3, 4} => t.hop = 2
    /\ k \in {5, 6} => t.hop = 3
    /\ k \in {7, 8} => t.hop = 4 /\ ~t.quote.flag
    /\ k \in {9, 10} => t.hop = 4 /\ t.quote.flag
    /\ k \in {11, 12} => t.hop = 5
    /\ k \in {13, 14} => t.hop = 6 /\ t.convCnt = 1
    /\ k \in 3 .. 10 => t.itemCnt = 0
    /\ k \in 4 .. 10 => t.cart.num \in {0, 1}
    /\ k \in 11 .. 14 => t.itemCnt = 1
    /\ k \in 11 .. 15 => t.cart.num = 1
    /\ k = 11 => t.id = p /\ t.rpc = "GetProduct"
    /\ k = 12 => Known(p, t.product = p)
    /\ k \in {13, 14} => Known(p, t.items[0].product = p /\ t.items[0].quantity = q)
    /\ k = 13 => Known(p, t.from = PriceUsd(p)) /\ t.rpc = "Convert"
    /\ k = 14 => Known(p, t.result = PriceCad(p))
    /\ k = 15 => Known(p, t.items[0] = [product |-> p, quantity |-> q,
                                        price |-> MultiplySlow(PriceCad(p), q)])

CheckoutAt(t, k) ==
    LET p == t.cart.items[0].product IN
    /\ k \in 0 .. 25
    /\ k = 0 => t.hop = 0
    /\ k \in 1 .. 20 => t.hop = 1
    /\ k \in {21, 22} => t.hop = 2
    /\ k \in {23, 24} => t.hop = 3
    /\ k = 1 => t.coHop = 0
    /\ k \in 2 .. 5 => t.coHop = 1
    /\ k \in {6, 7} => t.coHop = 2
    /\ k \in 8 .. 11 => t.coHop = 4
    /\ k \in {12, 13} => t.coHop = 6
    /\ k \in {14, 15} => t.coHop = 7
    /\ k \in {16, 17} => t.coHop = 8
    /\ k \in {18, 19} => t.coHop = 9
    /\ k \in {2, 4, 6, 8, 10, 12, 14, 16, 18} => t.caller = CHECKOUT_SVC
    /\ k \in {21, 23} => t.caller = FRONTEND
    /\ k \in {2, 3} => t.orderCnt = 0
    /\ k = 3 => t.cart.num \in {0, 1}
    /\ k \in 4 .. 11 => t.orderCnt = 1
    /\ k \in 4 .. 25 => t.cart.num = 1
    /\ k = 16 => t.rpc = "EmptyCart"
    /\ k \in {6, 7} => t.orderConv = 1
    /\ k \in {8, 9} => ~t.quote.flag
    /\ k \in {10, 11} => t.quote.flag
    /\ k = 4 => t.id = p /\ t.rpc = "GetProduct"
    /\ k = 5 => Known(p, t.product = p)
    /\ k = 6 => Known(p, t.from = PriceUsd(p)) /\ t.rpc = "Convert"
    /\ k = 7 => Known(p, t.result = PriceCad(p))
    /\ k \in 8 .. 11 => Known(p, t.orders[0].price = PriceCad(p))
    /\ k = 8 => t.rpc = "GetQuote"
    /\ k = 9 => t.quote.cost = Quote("USD")
    /\ k = 10 => t.from = Quote("USD") /\ t.rpc = "Convert"
    /\ k = 11 => t.result = Quote("CAD")
    /\ k = 12 => /\ Len(t.charge) >= 2 /\ t.charge[Len(t.charge)] = Quote("CAD")
                 /\ Known(p, t.charge[Len(t.charge) - 1] = PriceCad(p))

Stage(t, k) ==
    LET path == t.request.path IN
    /\ k \in Nat /\ t.next = NextOn(path, k)
    /\ path \in {"setCurrency", "none"} => k \in {0, 1}
    /\ path = "cart" => k = 0
    /\ path = "home" => HomeAt(t, k)
    /\ path = "addToCart" => AddToCartAt(t, k)
    /\ path = "product" => ProductAt(t, k)
    /\ path = "viewCart" => ViewCartAt(t, k)
    /\ path = "checkout" => CheckoutAt(t, k)

(* With an empty cart a request leaves its way: an order goes back to the  *)
(* frontend, which finishes it.                                            *)
ShowsNothing(t, k) ==
    LET path == t.request.path IN
    /\ t.cart.num = 0 /\ t.next = NextShort(path, k)
    /\ \/ path = "viewCart" /\ k = 11
       \/ /\ path = "checkout" /\ k \in 4 .. 9
          /\ k = 4 => t.hop = 1
          /\ k \in {5, 6} => t.hop = 2
          /\ k \in {7, 8} => t.hop = 3
          /\ k \in {5, 7} => t.caller = FRONTEND

Walked(v, way) == \A i \in 1 .. Len(v) : Visited(v[i]) = way[i]

(* The cart service counts as visited when it begins. *)
OnWay(t, v, begun) ==
    LET path == t.request.path IN
    \/ ~begun /\ ShowsNothing(t, Len(v)) /\ Walked(v, ShortWay(path))
    \/ Stage(t, IF begun THEN Len(v) - 1 ELSE Len(v)) /\ Walked(v, Way(path))

WayInv ==
    \A o \in Object :
        IF o \in busy THEN OnWay(txn[o], visits[o], pc[o] # "idle") ELSE visits[o] = <<>>

(* The ways, function by function. *)
LEMMA Ways ==
    /\ \A k \in 0 .. 1 : NextOn("setCurrency", k) = IF k = 0 THEN 1 ELSE 0
    /\ \A k \in 0 .. 1 : NextOn("none", k) = IF k = 0 THEN 1 ELSE 0
    /\ NextOn("cart", 0) = 1
    /\ \A k \in 0 .. 9 : NextOn("home", k) =
            CASE k \in {0, 2, 4, 6, 8} -> 1 [] k = 1 -> 2 [] k = 3 -> 3 [] k = 5 -> 4
              [] k = 7 -> 10 [] k = 9 -> 0
    /\ \A k \in 0 .. 5 : NextOn("addToCart", k) =
            CASE k \in {0, 2, 4} -> 1 [] k = 1 -> 3 [] k = 3 -> 4 [] k = 5 -> 0
    /\ \A k \in 0 .. 13 : NextOn("product", k) =
            CASE k \in {0, 2, 4, 6, 8, 10, 12} -> 1 [] k = 1 -> 3 [] k \in {3, 7} -> 2 [] k = 5 -> 4
              [] k = 9 -> 5 [] k = 11 -> 10 [] k = 13 -> 0
    /\ \A k \in 0 .. 15 : NextOn("viewCart", k) =
            CASE k \in {0, 2, 4, 6, 8, 10, 12, 14} -> 1 [] k \in {1, 9, 13} -> 2 [] k = 3 -> 4
              [] k = 5 -> 5 [] k = 7 -> 6 [] k = 11 -> 3 [] k = 15 -> 0
    /\ \A k \in 0 .. 25 : NextOn("checkout", k) =
            CASE k \in {0, 20, 22, 24} -> 1 [] k \in {1, 3, 5, 7, 9, 11, 13, 15, 17, 19} -> 7
              [] k \in {2, 16} -> 4 [] k = 4 -> 3 [] k \in {6, 10, 23} -> 2 [] k \in {8, 14} -> 6
              [] k = 12 -> 8 [] k = 18 -> 9 [] k = 21 -> 5 [] k = 25 -> 0
  BY DEF NextOn, Way, ConfiguredRoute

LEMMA ShortWays ==
    /\ NextShort("viewCart", 11) = 0
    /\ \A k \in 4 .. 9 : NextShort("checkout", k) =
            CASE k \in {4, 6, 8} -> 1 [] k = 5 -> 5 [] k = 7 -> 2 [] k = 9 -> 0
    /\ Len(ShortWay("viewCart")) = 11 /\ Len(ShortWay("checkout")) = 9
    /\ \A i \in 1 .. 11 : ShortWay("viewCart")[i] = Way("viewCart")[i]
    /\ \A i \in 1 .. 5 : ShortWay("checkout")[i] = IF i = 5 THEN 1 ELSE Way("checkout")[i]
  BY DEF NextShort, ShortWay, Way, ConfiguredRoute

LEMMA NothingNext ==
    ASSUME NEW t, NEW k, ShowsNothing(t, k)
    PROVE  \/ t.request.path = "viewCart" /\ k = 11 /\ t.next = GATEWAY
           \/ /\ t.request.path = "checkout" /\ k \in 4 .. 9
              /\ t.next = CASE k \in {4, 6, 8} -> 1 [] k = 5 -> 5 [] k = 7 -> 2 [] k = 9 -> 0
<1>1. CASE t.request.path = "viewCart" /\ k = 11
  BY <1>1, ShortWays DEF ShowsNothing
<1>2. CASE t.request.path = "checkout" /\ k \in 4 .. 9
  <2>1. t.next = NextShort("checkout", k)
    BY <1>2 DEF ShowsNothing
  <2>. QED  BY <1>2, <2>1, ShortWays, Zenon
<1>. QED  BY <1>1, <1>2 DEF ShowsNothing

(* What a service leaves alone, and what it answers.                       *)
Passed(t, u) ==
    /\ u.request = t.request /\ u.hop = t.hop /\ u.coHop = t.coHop /\ u.next = t.caller
    /\ u.viewed = t.viewed /\ u.view = t.view
    /\ u.items = t.items /\ u.itemCnt = t.itemCnt /\ u.convCnt = t.convCnt
    /\ u.orders = t.orders /\ u.orderCnt = t.orderCnt /\ u.orderConv = t.orderConv
    /\ u.charge = t.charge /\ u.quote.flag = t.quote.flag

Answered(t, u) ==
    /\ Passed(t, u)
    /\ t.next = CART_SVC => u.cart.num \in {0, 1}
    /\ t.next # CART_SVC \/ t.rpc # "GetCart" => u.cart = t.cart
    /\ t.next = CURRENCY_SVC /\ t.rpc = "Convert" => u.result = Converted(t.from)
    /\ t.next # PRODUCTCATA_SVC => u.product = t.product
    /\ t.next = PRODUCTCATA_SVC /\ t.rpc = "GetProduct" /\ t.id \in Catalogue => u.product = t.id
    /\ t.next = SHIPPING_SVC /\ t.rpc = "GetQuote" /\ t.cart.num = 1 => u.quote.cost = Quote("USD")

LEMMA ServiceAnswers ==
    ASSUME NEW t \in Txn, Course(t), NEW s \in Stateless, t.next = s
    PROVE  Answered(t, Reply(Does!ServiceOf(s, t)))
<1>. DEFINE v == Does!ServiceOf(s, t)
<1>1. t.rpc \in Serves[s] /\ s \in {2, 3, 5, 6, 8, 9, 10}
  BY AskedWell, CalledWell DEF Stateless
<1>2. CASE s \in {5, 8, 9, 10}
  <2>1. v = t
    BY <1>1, <1>2 DEF Serves, Does!ServiceOf, Does!RecommendationService, Does!AdService,
                      Does!EmailService, Does!PaymentService
  <2>. HIDE DEF v
  <2>. QED  BY <1>2, <2>1 DEF Answered, Passed, Reply, Txn, v
<1>3. CASE s = 2
  <2>1. Does!Converted(t.from) = Converted(t.from)
    BY DEF Converted, Does!Converted
  <2>2. v = IF t.rpc = "Convert" THEN [t EXCEPT !.result = Converted(t.from)] ELSE t
    BY <1>1, <1>3, <2>1 DEF Serves, Does!ServiceOf, Does!CurrencyService, Does!Convert
  <2>. HIDE DEF v
  <2>. QED  BY <1>3, <2>2 DEF Answered, Passed, Reply, Txn, v
<1>4. CASE s = 3
  <2>1. v = IF t.rpc = "GetProduct" /\ t.id \in Catalogue THEN [t EXCEPT !.product = t.id] ELSE t
    BY <1>1, <1>4 DEF Serves, Does!ServiceOf, Does!ProductCatalogService, Does!GetProduct
  <2>. HIDE DEF v
  <2>. QED  BY <1>4, <2>1 DEF Answered, Passed, Reply, Txn, v
<1>5. CASE s = 6
  <2>1. v = IF t.rpc = "GetQuote" THEN [t EXCEPT !.quote.cost = Does!QuoteFor(t.cart.num)] ELSE t
    BY <1>1, <1>5 DEF Serves, Does!ServiceOf, Does!ShippingService, Does!GetQuote
  <2>2. t.cart.num = 1 => Does!QuoteFor(t.cart.num) = Quote("USD")
    BY DEF Does!QuoteFor, Does!Money, Quote, Money
  <2>. HIDE DEF v
  <2>. QED  BY <1>5, <2>1, <2>2 DEF Answered, Passed, Reply, Txn, v, Quotes
<1>. QED  BY <1>1, <1>2, <1>3, <1>4, <1>5

(* What a price becomes. *)
LEMMA Prices ==
    /\ \A p : Converted(PriceUsd(p)) = PriceCad(p)
    /\ Converted(Quote("USD")) = Quote("CAD")
  BY DEF PriceCad, Quote, Money, Converted

(* The answer of a service is the next step of a page.                     *)
LEMMA ProductAnswered ==
    ASSUME NEW t \in Txn, NEW u, NEW k, ProductAt(t, k), t.next = NextOn("product", k),
           t.next \in DOMAIN Serves, Answered(t, u)
    PROVE  ProductAt(u, k + 1) /\ NextOn("product", k + 1) = FRONTEND
<1>1. k \in 0 .. 13 /\ t.next # 0 /\ t.next # 1
  BY AskedWell DEF ProductAt
<1>2. k \in {1, 3, 5, 7, 9, 11}
  BY <1>1, Ways
<1>3. NextOn("product", k + 1) = 1
  BY <1>2, Ways
<1>4. CASE k = 1
  BY <1>4, Ways DEF ProductAt, Answered, Passed, Known
<1>5. CASE k = 3
  BY <1>5, Ways DEF ProductAt, Answered, Passed
<1>6. CASE k = 5
  BY <1>6, Ways DEF ProductAt, Answered, Passed
<1>7. CASE k = 7
  BY <1>7, Ways, Prices DEF ProductAt, Answered, Passed, Known
<1>8. CASE k = 9
  BY <1>8, Ways DEF ProductAt, Answered, Passed
<1>9. CASE k = 11
  BY <1>9, Ways DEF ProductAt, Answered, Passed
<1>. QED  BY <1>2, <1>3, <1>4, <1>5, <1>6, <1>7, <1>8, <1>9

LEMMA HomeAnswered ==
    ASSUME NEW t \in Txn, NEW u, NEW k, HomeAt(t, k), t.next = NextOn("home", k),
           t.next \in DOMAIN Serves, Answered(t, u)
    PROVE  HomeAt(u, k + 1) /\ NextOn("home", k + 1) = FRONTEND
<1>1. k \in 0 .. 9 /\ t.next # 0 /\ t.next # 1
  BY AskedWell DEF HomeAt
<1>2. k \in {1, 3, 5, 7}
  BY <1>1, Ways
<1>. QED  BY <1>2, Ways DEF HomeAt, Answered, Passed

LEMMA AddToCartAnswered ==
    ASSUME NEW t \in Txn, NEW u, NEW k, AddToCartAt(t, k), t.next = NextOn("addToCart", k),
           t.next \in DOMAIN Serves, Answered(t, u)
    PROVE  AddToCartAt(u, k + 1) /\ NextOn("addToCart", k + 1) = FRONTEND
<1>1. k \in 0 .. 5 /\ t.next # 0 /\ t.next # 1
  BY AskedWell DEF AddToCartAt
<1>2. k \in {1, 3}
  BY <1>1, Ways
<1>. QED  BY <1>2, Ways DEF AddToCartAt, Answered, Passed

LEMMA ViewCartAnswered ==
    ASSUME NEW t \in Txn, NEW u, NEW k, ViewCartAt(t, k), t.next = NextOn("viewCart", k),
           t.next \in DOMAIN Serves, Answered(t, u)
    PROVE  ViewCartAt(u, k + 1) /\ NextOn("viewCart", k + 1) = FRONTEND
<1>1. k \in 0 .. 15 /\ t.next # 0 /\ t.next # 1
  BY AskedWell DEF ViewCartAt
<1>2. k \in {1, 3, 5, 7, 9, 11, 13}
  BY <1>1, Ways
<1>3. NextOn("viewCart", k + 1) = 1
  BY <1>2, Ways
<1>4. CASE k = 1
  BY <1>4, Ways DEF ViewCartAt, Answered, Passed
<1>5. CASE k = 3
  BY <1>5, Ways DEF ViewCartAt, Answered, Passed
<1>6. CASE k = 5
  BY <1>6, Ways DEF ViewCartAt, Answered, Passed
<1>7. CASE k = 7
  BY <1>7, Ways DEF ViewCartAt, Answered, Passed
<1>8. CASE k = 9
  BY <1>8, Ways DEF ViewCartAt, Answered, Passed
<1>9. CASE k = 11
  BY <1>9, Ways DEF ViewCartAt, Answered, Passed, Known
<1>10. CASE k = 13
  BY <1>10, Ways, Prices DEF ViewCartAt, Answered, Passed, Known
<1>. QED  BY <1>2, <1>3, <1>4, <1>5, <1>6, <1>7, <1>8, <1>9, <1>10

LEMMA CheckoutAnswered ==
    ASSUME NEW t \in Txn, NEW u, NEW k, CheckoutAt(t, k), t.next = NextOn("checkout", k),
           t.next \in DOMAIN Serves, Answered(t, u)
    PROVE  CheckoutAt(u, k + 1) /\ NextOn("checkout", k + 1) = t.caller
<1>1. k \in 0 .. 25 /\ t.next # 0 /\ t.next # 1 /\ t.next # 7
  BY AskedWell DEF CheckoutAt
<1>2. k \in {2, 4, 6, 8, 10, 12, 14, 16, 18, 21, 23}
  BY <1>1, Ways
<1>3. NextOn("checkout", k + 1) = IF k \in {21, 23} THEN 1 ELSE 7
  BY <1>2, Ways
<1>4. t.caller = IF k \in {21, 23} THEN 1 ELSE 7
  BY <1>2 DEF CheckoutAt
<1>5. CASE k = 2
  BY <1>5, Ways DEF CheckoutAt, Answered, Passed
<1>6. CASE k = 4
  BY <1>6, Ways DEF CheckoutAt, Answered, Passed, Known
<1>7. CASE k = 6
  BY <1>7, Ways, Prices DEF CheckoutAt, Answered, Passed, Known
<1>8. CASE k = 8
  BY <1>8, Ways DEF CheckoutAt, Answered, Passed
<1>9. CASE k = 10
  BY <1>9, Ways, Prices DEF CheckoutAt, Answered, Passed
<1>10. CASE k \in {12, 14, 16, 18, 21, 23}
  <2>0. u.cart = t.cart
    <3>1. k # 16 => t.next # 4
      BY <1>10, Ways
    <3>2. k = 16 => t.rpc = "EmptyCart"
      BY DEF CheckoutAt
    <3>. QED  BY <3>1, <3>2 DEF Answered
  <2>1. k = 12 => CheckoutAt(u, k + 1)
    BY <2>0 DEF CheckoutAt, Answered, Passed
  <2>2. k = 14 => CheckoutAt(u, k + 1)
    BY <2>0 DEF CheckoutAt, Answered, Passed
  <2>3. k = 16 => CheckoutAt(u, k + 1)
    BY <2>0 DEF CheckoutAt, Answered, Passed
  <2>4. k = 18 => CheckoutAt(u, k + 1)
    BY <2>0 DEF CheckoutAt, Answered, Passed
  <2>5. k = 21 => CheckoutAt(u, k + 1)
    BY <2>0 DEF CheckoutAt, Answered, Passed
  <2>6. k = 23 => CheckoutAt(u, k + 1)
    BY <2>0 DEF CheckoutAt, Answered, Passed
  <2>. QED  BY <1>3, <1>4, <1>10, <2>1, <2>2, <2>3, <2>4, <2>5, <2>6
<1>. QED  BY <1>2, <1>3, <1>4, <1>5, <1>6, <1>7, <1>8, <1>9, <1>10

(* A service brings a request a step further, whichever page it is.        *)
LEMMA StageAnswered ==
    ASSUME NEW t \in Txn, NEW u, NEW k, Stage(t, k), Course(t),
           t.next \in DOMAIN Serves, Answered(t, u)
    PROVE  Stage(u, k + 1)
<1>1. u.request = t.request /\ u.next = t.caller
  BY DEF Answered, Passed
<1>2. t.request.path # "checkout" => t.caller = FRONTEND
  BY AskedWell DEF Course, Finished, Browsing, Ordering
<1>0. t.request.path \in Paths
  BY DEF Txn, Asked
<1>3. CASE t.request.path \in {"setCurrency", "none", "cart"}
  <2>1. /\ t.request.path \in {"setCurrency", "none"} => k \in 0 .. 1
        /\ t.request.path = "cart" => k = 0
        /\ t.next = NextOn(t.request.path, k)
    BY DEF Stage
  <2>2. t.next \in {0, 1}
    BY <1>3, <2>1, Ways
  <2>. QED  BY <2>2, AskedWell
<1>8. CASE t.request.path = "home"
  BY <1>1, <1>2, <1>8, HomeAnswered DEF Stage
<1>4. CASE t.request.path = "addToCart"
  BY <1>1, <1>2, <1>4, AddToCartAnswered DEF Stage
<1>5. CASE t.request.path = "product"
  BY <1>1, <1>2, <1>5, ProductAnswered DEF Stage
<1>6. CASE t.request.path = "viewCart"
  BY <1>1, <1>2, <1>6, ViewCartAnswered DEF Stage
<1>7. CASE t.request.path = "checkout"
  <2>1. CheckoutAt(t, k) /\ t.next = NextOn("checkout", k) /\ k \in Nat
    BY <1>7 DEF Stage
  <2>2. CheckoutAt(u, k + 1) /\ u.next = NextOn("checkout", k + 1)
    BY <1>1, <2>1, CheckoutAnswered
  <2>. QED  BY <1>1, <1>7, <2>1, <2>2 DEF Stage
<1>. QED  BY <1>0, <1>3, <1>4, <1>5, <1>6, <1>7, <1>8 DEF Paths

(* Of an order with an empty cart, too. *)
LEMMA NothingAnswered ==
    ASSUME NEW t \in Txn, NEW u, NEW k, ShowsNothing(t, k), t.next \in DOMAIN Serves,
           Answered(t, u)
    PROVE  ShowsNothing(u, k + 1)
<1>1. t.next \notin {0, 1}
  BY AskedWell
<1>2. t.request.path = "checkout" /\ k \in {5, 7} /\ t.next # 4
  BY <1>1, NothingNext
<1>3. u.request = t.request /\ u.hop = t.hop /\ u.next = t.caller /\ u.cart = t.cart
  BY <1>2 DEF Answered, Passed
<1>4. t.cart.num = 0 /\ t.caller = 1 /\ (k = 5 => t.hop = 2) /\ (k = 7 => t.hop = 3)
  BY <1>2 DEF ShowsNothing
<1>5. CASE k = 5
  BY <1>2, <1>3, <1>4, <1>5, ShortWays DEF ShowsNothing
<1>6. CASE k = 7
  BY <1>2, <1>3, <1>4, <1>6, ShortWays DEF ShowsNothing
<1>. QED  BY <1>2, <1>5, <1>6

(* What a call of the frontend and its response leave alone.               *)
Keeps(t, u) ==
    /\ u.request = t.request /\ u.cart = t.cart /\ u.product = t.product /\ u.result = t.result
    /\ u.viewed = t.viewed /\ u.view = t.view /\ u.quote = t.quote
    /\ u.items = t.items /\ u.itemCnt = t.itemCnt /\ u.convCnt = t.convCnt

LEMMA FrontKeeps ==
    ASSUME NEW t \in Txn
    PROVE  /\ \A s, r : Keeps(t, Front!Call(t, s, r))
           /\ \A s, r : Front!Call(t, s, r).next = s /\ Front!Call(t, s, r).hop = t.hop + 1
                        /\ Front!Call(t, s, r).caller = FRONTEND
           /\ Keeps(t, Front!ReturnResponse(t)) /\ Front!ReturnResponse(t).next = GATEWAY
  BY DEF Txn, Keeps, Front!Call, Front!Ask, Front!ReturnResponse

LEMMA FrontAsks ==
    ASSUME NEW t \in Txn
    PROVE  /\ \A m : LET u == Front!AskConvert(t, FRONTEND, m) IN
                /\ Keeps(t, u) /\ u.next = CURRENCY_SVC /\ u.rpc = "Convert" /\ u.from = m
                /\ u.hop = t.hop
           /\ \A id : LET u == Front!AskProduct(t, FRONTEND, id) IN
                /\ Keeps(t, u) /\ u.next = PRODUCTCATA_SVC /\ u.rpc = "GetProduct" /\ u.id = id
                /\ u.hop = t.hop
  BY DEF Txn, Keeps, Front!AskConvert, Front!AskProduct, Front!Ask

(* homeHandler: it goes past the conversion that it prepares.              *)
LEMMA HomeOn ==
    ASSUME NEW t \in Txn, NEW k, HomeAt(t, k), NextOn("home", k) = FRONTEND
    PROVE  LET u == Front!HomeHandler(t) IN
           HomeAt(u, k + 1) /\ u.next = NextOn("home", k + 1)
<1>1. k \in {0, 2, 4, 6, 8}
  <2>1. k \in 0 .. 9
    BY DEF HomeAt
  <2>. QED  BY <2>1, Ways
<1>2. CASE k = 0
  <2>1. t.hop = 0
    BY <1>2 DEF HomeAt
  <2>2. Front!HomeHandler(t) = Front!Call(t, CURRENCY_SVC, "GetSupportedCurrencies")
    BY <2>1 DEF Front!HomeHandler, Front!GetCurrencies
  <2>. QED  BY <1>2, <2>1, <2>2, FrontKeeps, Ways DEF HomeAt
<1>3. CASE k = 2
  <2>1. t.hop = 1
    BY <1>3 DEF HomeAt
  <2>. DEFINE w == Front!Call(t, PRODUCTCATA_SVC, "ListProducts")
  <2>2. Front!HomeHandler(t) = [w EXCEPT !.viewed = 0]
    BY <2>1 DEF Front!HomeHandler, Front!GetProducts
  <2>3. w.next = PRODUCTCATA_SVC /\ w.hop = 2
    BY <2>1, FrontKeeps
  <2>4. w \in Txn
    BY <2>1, FrontCall, Members DEF Text, Hops
  <2>. HIDE DEF w
  <2>5. [w EXCEPT !.viewed = 0].next = PRODUCTCATA_SVC /\ [w EXCEPT !.viewed = 0].hop = 2
    BY <2>3, <2>4 DEF Txn
  <2>. QED  BY <1>3, <2>2, <2>5, Ways DEF HomeAt
<1>4. CASE k = 4
  <2>1. t.hop = 2
    BY <1>4 DEF HomeAt
  <2>2. Front!HomeHandler(t) = Front!Call(t, CART_SVC, "GetCart")
    BY <2>1 DEF Front!HomeHandler, Front!GetCart
  <2>. QED  BY <1>4, <2>1, <2>2, FrontKeeps, Ways DEF HomeAt
<1>5. CASE k = 6
  <2>1. t.hop = 3
    BY <1>5 DEF HomeAt
  <2>. DEFINE w == Front!ConvertCurrencyOfProducts(t)
  <2>2. Front!HomeHandler(t) = Front!Call(w, AD_SVC, "GetAds")
    BY <2>1 DEF Front!HomeHandler, Front!ChooseAd
  <2>3. w \in Txn /\ w.hop = 4
    BY <2>1, HomeConverts
  <2>. HIDE DEF w
  <2>. QED  BY <1>5, <2>2, <2>3, FrontKeeps, Ways DEF HomeAt
<1>6. CASE k = 8
  <2>1. t.hop = 5
    BY <1>6 DEF HomeAt
  <2>2. Front!HomeHandler(t) = Front!ReturnResponse(t)
    BY <2>1 DEF Front!HomeHandler
  <2>. QED  BY <1>6, <2>1, <2>2, FrontKeeps, Ways DEF HomeAt
<1>. QED  BY <1>1, <1>2, <1>3, <1>4, <1>5, <1>6

(* addToCartHandler. *)
LEMMA AddToCartOn ==
    ASSUME NEW t \in Txn, NEW k, AddToCartAt(t, k), NextOn("addToCart", k) = FRONTEND
    PROVE  LET u == Front!AddToCartHandler(t) IN
           AddToCartAt(u, k + 1) /\ u.next = NextOn("addToCart", k + 1)
<1>1. k \in {0, 2, 4}
  <2>1. k \in 0 .. 5
    BY DEF AddToCartAt
  <2>. QED  BY <2>1, Ways
<1>2. CASE k = 0
  <2>1. t.hop = 0
    BY <1>2 DEF AddToCartAt
  <2>2. Front!AddToCartHandler(t) = [Front!GetProduct(t) EXCEPT !.viewed = 0]
    BY <2>1 DEF Front!AddToCartHandler
  <2>. QED  BY <1>2, <2>1, <2>2, Ways DEF AddToCartAt, Front!GetProduct, Front!AskProduct, Front!Ask, Txn
<1>3. CASE k = 2
  <2>1. t.hop = 1
    BY <1>3 DEF AddToCartAt
  <2>2. Front!AddToCartHandler(t) = Front!InsertCart(t)
    BY <2>1 DEF Front!AddToCartHandler
  <2>. QED  BY <1>3, <2>1, <2>2, Ways DEF AddToCartAt, Front!InsertCart, Front!Call, Front!Ask, Txn
<1>4. CASE k = 4
  <2>1. t.hop = 2
    BY <1>4 DEF AddToCartAt
  <2>2. Front!AddToCartHandler(t) = Front!ReturnResponse(t)
    BY <2>1 DEF Front!AddToCartHandler
  <2>. QED  BY <1>4, <2>1, <2>2, FrontKeeps, Ways DEF AddToCartAt
<1>. QED  BY <1>1, <1>2, <1>3, <1>4

(* productHandler: the product is still there when its price comes back.   *)
LEMMA ProductOn ==
    ASSUME NEW t \in Txn, NEW k, ProductAt(t, k), NextOn("product", k) = FRONTEND
    PROVE  LET u == Front!ProductHandler(t) IN
           ProductAt(u, k + 1) /\ u.next = NextOn("product", k + 1)
<1>1. k \in {0, 2, 4, 6, 8, 10, 12}
  <2>1. k \in 0 .. 13
    BY DEF ProductAt
  <2>. QED  BY <2>1, Ways
<1>2. CASE k = 0
  <2>1. t.hop = 0
    BY <1>2 DEF ProductAt
  <2>2. Front!ProductHandler(t) = [Front!GetProduct(t) EXCEPT !.viewed = 0]
    BY <2>1 DEF Front!ProductHandler
  <2>. QED
    BY <1>2, <2>1, <2>2, Ways DEF ProductAt, Front!GetProduct, Front!AskProduct, Front!Ask, Txn
<1>3. CASE k = 2
  <2>1. t.hop = 1
    BY <1>3 DEF ProductAt
  <2>2. Front!ProductHandler(t) = Front!Call(t, CURRENCY_SVC, "GetSupportedCurrencies")
    BY <2>1 DEF Front!ProductHandler, Front!GetCurrencies
  <2>. QED  BY <1>3, <2>1, <2>2, FrontKeeps, Ways DEF ProductAt, Keeps
<1>4. CASE k = 4
  <2>1. t.hop = 2
    BY <1>4 DEF ProductAt
  <2>2. Front!ProductHandler(t) = Front!Call(t, CART_SVC, "GetCart")
    BY <2>1 DEF Front!ProductHandler, Front!GetCart
  <2>. QED  BY <1>4, <2>1, <2>2, FrontKeeps, Ways DEF ProductAt, Keeps
<1>5. CASE k = 6
  <2>1. t.hop = 3 /\ t.viewed = 0
    BY <1>5 DEF ProductAt
  <2>. DEFINE v == [t EXCEPT !.viewed = 1]
  <2>2. Front!ProductHandler(t) = Front!AskConvert(v, FRONTEND, PriceUsd(t.product))
    BY <2>1, SameRpc DEF Front!ProductHandler, Front!ConvertCurrencyOfProduct
  <2>3. v \in Txn /\ v.viewed = 1 /\ v.product = t.product /\ v.request = t.request /\ v.hop = t.hop
    BY Members DEF Txn
  <2>. HIDE DEF v
  <2>. QED  BY <1>5, <2>1, <2>2, <2>3, FrontAsks, Ways DEF ProductAt, Keeps, Known
<1>6. CASE k = 8
  <2>1. t.hop = 3 /\ t.viewed = 1
    BY <1>6 DEF ProductAt
  <2>. DEFINE w == [product |-> t.product, quantity |-> 0, price |-> t.result]
              v == [t EXCEPT !.view = w]
  <2>2. Front!ProductHandler(t) = Front!Call(v, RECOMMEND_SVC, "ListRecommendations")
    BY <2>1 DEF Front!ProductHandler, Front!ConvertCurrencyOfProduct, Front!GetRecommendations
  <2>3. w \in ViewType
    BY DEF Txn, ViewType, OrNone
  <2>4. v \in Txn /\ v.view = w /\ v.request = t.request /\ v.hop = t.hop
    BY <2>3 DEF Txn
  <2>. HIDE DEF v
  <2>. QED  BY <1>6, <2>1, <2>2, <2>4, FrontKeeps, Ways DEF ProductAt, Keeps, Known
<1>7. CASE k = 10
  <2>1. t.hop = 4
    BY <1>7 DEF ProductAt
  <2>2. Front!ProductHandler(t) = Front!Call(t, AD_SVC, "GetAds")
    BY <2>1 DEF Front!ProductHandler, Front!ChooseAd
  <2>. QED  BY <1>7, <2>1, <2>2, FrontKeeps, Ways DEF ProductAt, Keeps
<1>8. CASE k = 12
  <2>1. t.hop = 5
    BY <1>8 DEF ProductAt
  <2>2. Front!ProductHandler(t) = Front!ReturnResponse(t)
    BY <2>1 DEF Front!ProductHandler
  <2>. QED  BY <1>8, <2>1, <2>2, FrontKeeps, Ways DEF ProductAt, Keeps
<1>. QED  BY <1>1, <1>2, <1>3, <1>4, <1>5, <1>6, <1>7, <1>8

(* getCartItemInfo, when the quote is known: the first product is asked    *)
(* for, or there is none.                                                  *)
LEMMA FirstItem ==
    ASSUME NEW t \in Txn, ViewCartAt(t, 10)
    PROVE  LET u == Front!ViewCartHandler(t) IN
           /\ t.cart.num = 1 => ViewCartAt(u, 11) /\ u.next = PRODUCTCATA_SVC
           /\ t.cart.num = 0 => u.next = GATEWAY
           /\ u.request = t.request /\ u.cart = t.cart
<1>. DEFINE v == [t EXCEPT !.quote.cost = t.result]
            w == Front!GetCartItemInfo(v)
            p == t.cart.items[0].product
<1>1. t.hop = 4 /\ t.quote.flag /\ t.itemCnt = 0 /\ t.cart.num \in {0, 1}
  BY DEF ViewCartAt
<1>2. [t.quote EXCEPT !.cost = t.result] \in Quotes
  BY DEF Txn, Quotes
<1>3. /\ v \in Txn /\ v.request = t.request /\ v.hop = 4 /\ v.cart = t.cart /\ v.itemCnt = 0
      /\ v.convCnt = t.convCnt
  BY <1>1, <1>2 DEF Txn
<1>4. Front!ViewCartHandler(t) = [w EXCEPT !.hop = @ + 1]
  BY <1>1 DEF Front!ViewCartHandler, Front!ConvertCurrencyOfShippingQuote
<1>. HIDE DEF v
<1>5. CASE t.cart.num = 1
  <2>. DEFINE x == [v EXCEPT !.itemCnt = 1]
  <2>1. Filled(v) = v
    BY <1>3 DEF Filled
  <2>2. w = Front!AskProduct(x, FRONTEND, p)
    <3>1. /\ v.hop \in 0 .. 5 /\ v.cart.num > 0 /\ v.itemCnt < v.cart.num /\ v.itemCnt + 1 = 1
      BY <1>3, <1>5
    <3>2. w = AskProduct([Filled(v) EXCEPT !.itemCnt = v.itemCnt + 1], FRONTEND,
                         v.cart.items[v.itemCnt].product)
      BY <1>3, <3>1, FrontItems
    <3>3. w = AskProduct(x, FRONTEND, p)
      BY <1>3, <2>1, <3>1, <3>2
    <3>. QED  BY <3>3, SameAsk
  <2>3. x \in Txn /\ x.request = t.request /\ x.hop = 4 /\ x.cart = t.cart /\ x.itemCnt = 1
    BY <1>3, Members DEF Txn
  <2>. HIDE DEF x
  <2>4. /\ w \in Txn /\ w.request = t.request /\ w.hop = 4 /\ w.cart = t.cart /\ w.itemCnt = 1
        /\ w.next = PRODUCTCATA_SVC /\ w.rpc = "GetProduct" /\ w.id = p
    <3>1. p \in OrNone
      BY Members, CartItems
    <3>. HIDE DEF p
    <3>2. w \in Txn
      BY <2>2, <2>3, <3>1, FrontProduct DEF Asks
    <3>. QED  BY <2>2, <2>3, <3>2, FrontAsks DEF Keeps
  <2>. HIDE DEF w
  <2>5. LET u == [w EXCEPT !.hop = @ + 1] IN
        /\ u.request = t.request /\ u.hop = 5 /\ u.cart = t.cart /\ u.itemCnt = 1
        /\ u.next = PRODUCTCATA_SVC /\ u.rpc = "GetProduct" /\ u.id = p
    BY <2>4 DEF Txn
  <2>. QED  BY <1>4, <1>5, <2>5 DEF ViewCartAt
<1>6. CASE t.cart.num = 0
  <2>. DEFINE x == [v EXCEPT !.total = <<>>]
  <2>1. w = Front!ReturnResponse(x)
    BY <1>3, <1>6 DEF Front!GetCartItemInfo
  <2>0. <<>> \in Sums
    BY DEF Sums
  <2>2. x \in Txn /\ x.request = t.request /\ x.hop = 4 /\ x.cart = t.cart
    BY <1>3, <2>0 DEF Txn
  <2>. HIDE DEF x
  <2>3. w.request = t.request /\ w.cart = t.cart /\ w.next = GATEWAY
    BY <2>1, <2>2, FrontKeeps DEF Keeps
  <2>4. w \in Txn
    BY <2>1, <2>2, FrontReturn DEF Ends
  <2>. HIDE DEF w
  <2>5. LET u == [w EXCEPT !.hop = @ + 1] IN
        u.request = t.request /\ u.cart = t.cart /\ u.next = GATEWAY
    BY <2>3, <2>4 DEF Txn
  <2>. QED  BY <1>4, <1>6, <2>5
<1>. QED  BY <1>1, <1>5, <1>6

(* getCartItemInfo, when the product is known: its price is asked for.     *)
LEMMA ItemKnown ==
    ASSUME NEW t \in Txn, ViewCartAt(t, 12)
    PROVE  LET u == Front!ViewCartHandler(t) IN
           ViewCartAt(u, 13) /\ u.next = CURRENCY_SVC /\ u.request = t.request
<1>. DEFINE p == t.cart.items[0].product
            q == t.cart.items[0].quantity
            s == Filled(t)
            v == [s EXCEPT !.convCnt = 0]
            x == [v EXCEPT !.convCnt = 1]
            w == Front!ConvertCurrencyOfCart(v)
<1>1. t.hop = 5 /\ t.itemCnt = 1 /\ t.cart.num = 1 /\ Known(p, t.product = p)
  BY DEF ViewCartAt
<1>2. Front!ViewCartHandler(t) = [w EXCEPT !.hop = @ + 1]
  <2>1. Front!ViewCartHandler(t) = Front!GetCartItemInfo(t)
    BY <1>1 DEF Front!ViewCartHandler
  <2>2. t.hop \in 0 .. 5 /\ t.cart.num > 0 /\ ~(t.itemCnt < t.cart.num)
    BY <1>1
  <2>3. Front!GetCartItemInfo(t) =
            [Front!ConvertCurrencyOfCart([Filled(t) EXCEPT !.convCnt = 0]) EXCEPT !.hop = @ + 1]
    BY <2>2, FrontItems
  <2>. QED  BY <2>1, <2>3
<1>3. s.items[0] = [product |-> t.product, quantity |-> q, price |-> PriceUsd(t.product)]
  <2>. DEFINE y == [product |-> t.product, quantity |-> q, price |-> PriceUsd(t.product)]
  <2>1. s = [t EXCEPT !.items[0] = y]
    BY <1>1 DEF Filled
  <2>. HIDE DEF y, s
  <2>2. t.items \in Views /\ 0 \in Counts
    BY Members DEF Txn
  <2>3. s.items = [t.items EXCEPT ![0] = y]
    BY <2>1 DEF Txn
  <2>. QED  BY <2>2, <2>3 DEF Views, y
<1>4. /\ s \in Txn /\ s.request = t.request /\ s.hop = 5 /\ s.cart = t.cart /\ s.itemCnt = 1
  BY <1>1, FilledType
<1>. HIDE DEF s
<1>5. /\ v \in Txn /\ v.request = t.request /\ v.hop = 5 /\ v.cart = t.cart /\ v.itemCnt = 1
      /\ v.convCnt = 0 /\ v.items = s.items
  BY <1>4, Members DEF Txn
<1>. HIDE DEF v
<1>6. /\ x \in Txn /\ x.request = t.request /\ x.hop = 5 /\ x.cart = t.cart /\ x.itemCnt = 1
      /\ x.convCnt = 1 /\ x.items = s.items
  BY <1>5, Members DEF Txn
<1>7. w = Front!AskConvert(x, FRONTEND, s.items[0].price)
  <2>1. Stored(v) = v
    BY <1>5 DEF Stored
  <2>. QED  BY <1>5, <2>1, FrontCart, SameAsk
<1>. HIDE DEF x
<1>8. w \in Txn
  <2>1. s.items[0].price \in MoneyType
    BY <1>4, Members, ViewsSet DEF Txn
  <2>. QED  BY <1>6, <1>7, <2>1, FrontConvert DEF Asks
<1>9. /\ w.request = t.request /\ w.hop = 5 /\ w.cart = t.cart /\ w.itemCnt = 1 /\ w.convCnt = 1
      /\ w.items = s.items /\ w.next = CURRENCY_SVC /\ w.rpc = "Convert" /\ w.from = s.items[0].price
  BY <1>6, <1>7, FrontAsks DEF Keeps
<1>. HIDE DEF w
<1>10. LET u == [w EXCEPT !.hop = @ + 1] IN
       /\ u.request = t.request /\ u.hop = 6 /\ u.cart = t.cart /\ u.itemCnt = 1 /\ u.convCnt = 1
       /\ u.items = s.items /\ u.next = CURRENCY_SVC /\ u.rpc = "Convert" /\ u.from = s.items[0].price
  BY <1>8, <1>9 DEF Txn
<1>. QED  BY <1>1, <1>2, <1>3, <1>10 DEF ViewCartAt, Known

(* calculateTotalPrice: the price of the item is the one that came back,   *)
(* as often as the item is in the cart.                                    *)
LEMMA ItemPriced ==
    ASSUME NEW t \in Txn, ViewCartAt(t, 14)
    PROVE  LET u == Front!ViewCartHandler(t) IN
           ViewCartAt(u, 15) /\ u.next = GATEWAY /\ u.request = t.request
<1>. DEFINE p == t.cart.items[0].product
            q == t.cart.items[0].quantity
            s == Stored(t)
            u == Front!CalculateTotalPrice(s)
<1>1. /\ t.hop = 6 /\ t.itemCnt = 1 /\ t.convCnt = 1 /\ t.cart.num = 1
      /\ Known(p, t.items[0].product = p /\ t.items[0].quantity = q) /\ Known(p, t.result = PriceCad(p))
  BY DEF ViewCartAt
<1>2. Front!ViewCartHandler(t) = u
  <2>1. Front!ViewCartHandler(t) = Front!ConvertCurrencyOfCart(t)
    BY <1>1 DEF Front!ViewCartHandler
  <2>2. t.hop \in 0 .. 6 /\ ~(t.convCnt < t.itemCnt)
    BY <1>1
  <2>3. Front!ConvertCurrencyOfCart(t) = Front!CalculateTotalPrice(Stored(t))
    BY <2>2, FrontCart
  <2>. QED  BY <2>1, <2>3
<1>3. 0 \in Counts /\ t.items \in Views /\ t.items[0] \in ViewType
  BY Members, ViewsSet DEF Txn
<1>4. /\ s \in Txn /\ s.request = t.request /\ s.hop = 6 /\ s.cart = t.cart /\ s.itemCnt = 1
  BY <1>1, StoredType
<1>5. s.items[0] = [t.items[0] EXCEPT !.price = t.result]
  <2>1. s = [t EXCEPT !.items[0].price = t.result]
    BY <1>1 DEF Stored
  <2>2. s.items = [t.items EXCEPT ![0].price = t.result]
    BY <2>1 DEF Txn
  <2>. QED  BY <1>3, <2>2 DEF Views
<1>. HIDE DEF s
<1>6. /\ u.request = t.request /\ u.cart = t.cart /\ u.next = GATEWAY
      /\ u.items = Multiplied(s.items, 1)
  BY <1>4, FrontTotal DEF Ends, Finished
<1>. HIDE DEF u
<1>7. u.items[0] = [s.items[0] EXCEPT !.price = MultiplySlow(s.items[0].price, s.items[0].quantity)]
  <2>1. 0 \in DOMAIN s.items
    BY <1>3, <1>4 DEF Txn, Views
  <2>. QED  BY <1>6, <2>1 DEF Multiplied
<1>8. s.items[0].product = t.items[0].product /\ s.items[0].quantity = t.items[0].quantity
      /\ s.items[0].price = t.result
  BY <1>3, <1>5 DEF ViewType
<1>9. u.items[0] = [product |-> t.items[0].product, quantity |-> t.items[0].quantity,
                    price |-> MultiplySlow(t.result, t.items[0].quantity)]
  BY <1>3, <1>5, <1>7, <1>8 DEF ViewType
<1>. QED  BY <1>1, <1>2, <1>6, <1>9 DEF ViewCartAt, Known

(* viewCartHandler: a step further, or the empty cart is shown.            *)
LEMMA ViewCartOn ==
    ASSUME NEW t \in Txn, NEW k, ViewCartAt(t, k), NextOn("viewCart", k) = FRONTEND
    PROVE  LET u == Front!ViewCartHandler(t) IN
           /\ u.request = t.request
           /\ \/ ViewCartAt(u, k + 1) /\ u.next = NextOn("viewCart", k + 1)
              \/ k = 10 /\ u.cart.num = 0 /\ u.next = GATEWAY
<1>1. k \in {0, 2, 4, 6, 8, 10, 12, 14}
  <2>1. k \in 0 .. 15
    BY DEF ViewCartAt
  <2>. QED  BY <2>1, Ways
<1>2. CASE k = 0
  <2>1. t.hop = 0
    BY <1>2 DEF ViewCartAt
  <2>2. Front!ViewCartHandler(t) = Front!Call(t, CURRENCY_SVC, "GetSupportedCurrencies")
    BY <2>1 DEF Front!ViewCartHandler, Front!GetCurrencies
  <2>. QED  BY <1>2, <2>1, <2>2, FrontKeeps, Ways DEF ViewCartAt, Keeps
<1>3. CASE k = 2
  <2>1. t.hop = 1
    BY <1>3 DEF ViewCartAt
  <2>. DEFINE w == Front!Call(t, CART_SVC, "GetCart")
  <2>2. Front!ViewCartHandler(t) = [w EXCEPT !.itemCnt = 0]
    BY <2>1 DEF Front!ViewCartHandler, Front!GetCart
  <2>3. w.request = t.request /\ w.next = CART_SVC /\ w.hop = 2
    BY <2>1, FrontKeeps DEF Keeps
  <2>4. w \in Txn
    BY <2>1, FrontCall, Members DEF Text, Hops
  <2>. HIDE DEF w
  <2>5. LET u == [w EXCEPT !.itemCnt = 0] IN
        u.request = t.request /\ u.next = CART_SVC /\ u.hop = 2 /\ u.itemCnt = 0
    BY <2>3, <2>4 DEF Txn
  <2>. QED  BY <1>3, <2>2, <2>5, Ways DEF ViewCartAt
<1>4. CASE k = 4
  <2>1. t.hop = 2
    BY <1>4 DEF ViewCartAt
  <2>2. Front!ViewCartHandler(t) = Front!Call(t, RECOMMEND_SVC, "ListRecommendations")
    BY <2>1 DEF Front!ViewCartHandler, Front!GetRecommendations
  <2>. QED  BY <1>4, <2>1, <2>2, FrontKeeps, Ways DEF ViewCartAt, Keeps
<1>5. CASE k = 6
  <2>1. t.hop = 3 /\ t.itemCnt = 0
    BY <1>5 DEF ViewCartAt
  <2>. DEFINE v == [t EXCEPT !.quote.flag = FALSE]
  <2>2. Front!ViewCartHandler(t) = Front!Call(v, SHIPPING_SVC, "GetQuote")
    BY <2>1 DEF Front!ViewCartHandler, Front!GetShippingQuote
  <2>3. [t.quote EXCEPT !.flag = FALSE] \in Quotes
    BY DEF Txn, Quotes
  <2>4. /\ v \in Txn /\ v.request = t.request /\ v.hop = 3 /\ v.itemCnt = 0 /\ ~v.quote.flag
        /\ v.cart = t.cart
    BY <2>1, <2>3 DEF Txn, Quotes
  <2>. HIDE DEF v
  <2>. QED  BY <1>5, <2>2, <2>4, FrontKeeps, Ways DEF ViewCartAt, Keeps
<1>6. CASE k = 8
  <2>1. t.hop = 4 /\ ~t.quote.flag /\ t.itemCnt = 0
    BY <1>6 DEF ViewCartAt
  <2>. DEFINE w == Front!AskConvert(t, FRONTEND, t.quote.cost)
  <2>2. Front!ViewCartHandler(t) = [w EXCEPT !.quote.flag = TRUE]
    BY <2>1 DEF Front!ViewCartHandler, Front!ConvertCurrencyOfShippingQuote
  <2>3. w \in Txn
    <3>1. t.quote.cost \in MoneyType
      BY DEF Txn, Quotes
    <3>. QED  BY <3>1, FrontConvert DEF Asks
  <2>4. /\ w.request = t.request /\ w.next = CURRENCY_SVC /\ w.hop = 4 /\ w.itemCnt = 0
        /\ w.cart = t.cart
    BY <2>1, FrontAsks DEF Keeps
  <2>. HIDE DEF w
  <2>5. LET u == [w EXCEPT !.quote.flag = TRUE] IN
        /\ u.request = t.request /\ u.next = CURRENCY_SVC /\ u.hop = 4 /\ u.itemCnt = 0
        /\ u.quote.flag /\ u.cart = t.cart
    BY <2>3, <2>4 DEF Txn, Quotes
  <2>. QED  BY <1>6, <2>2, <2>5, Ways DEF ViewCartAt
<1>7. CASE k = 10
  <2>1. ViewCartAt(t, 10) /\ t.cart.num \in {0, 1}
    BY <1>7 DEF ViewCartAt
  <2>2. k + 1 = 11 /\ NextOn("viewCart", k + 1) = 3
    BY <1>7, Ways
  <2>. QED  BY <1>7, <2>1, <2>2, FirstItem
<1>8. CASE k = 12
  BY <1>8, ItemKnown, Ways
<1>9. CASE k = 14
  BY <1>9, ItemPriced, Ways
<1>. QED  BY <1>1, <1>2, <1>3, <1>4, <1>5, <1>6, <1>7, <1>8, <1>9

(* placeOrderHandler, before the order and after it.                       *)
LEMMA CheckoutOn ==
    ASSUME NEW t \in Txn, NEW k, CheckoutAt(t, k), NextOn("checkout", k) = FRONTEND
    PROVE  LET u == Front!PlaceOrderHandler(t) IN
           /\ u.request = t.request
           /\ CheckoutAt(u, k + 1) /\ u.next = NextOn("checkout", k + 1)
<1>1. k \in {0, 20, 22, 24}
  <2>1. k \in 0 .. 25
    BY DEF CheckoutAt
  <2>. QED  BY <2>1, Ways
<1>2. CASE k = 0
  <2>1. t.hop = 0
    BY <1>2 DEF CheckoutAt
  <2>2. LET u == Front!PlaceOrderHandler(t) IN
        u.request = t.request /\ u.hop = 1 /\ u.next = CHECKOUT_SVC /\ u.coHop = 0
    BY <2>1, PlaceOrderStep
  <2>. QED  BY <1>2, <2>2, Ways DEF CheckoutAt
<1>3. CASE k = 20
  <2>1. t.hop = 1
    BY <1>3 DEF CheckoutAt
  <2>2. Front!PlaceOrderHandler(t) = Front!Call(t, RECOMMEND_SVC, "ListRecommendations")
    BY <2>1 DEF Front!PlaceOrderHandler, Front!GetRecommendations
  <2>. QED  BY <1>3, <2>1, <2>2, FrontKeeps, Ways DEF CheckoutAt, Keeps
<1>4. CASE k = 22
  <2>1. t.hop = 2
    BY <1>4 DEF CheckoutAt
  <2>2. Front!PlaceOrderHandler(t) = Front!Call(t, CURRENCY_SVC, "GetSupportedCurrencies")
    BY <2>1 DEF Front!PlaceOrderHandler, Front!GetCurrencies
  <2>. QED  BY <1>4, <2>1, <2>2, FrontKeeps, Ways DEF CheckoutAt, Keeps
<1>5. CASE k = 24
  <2>1. t.hop = 3
    BY <1>5 DEF CheckoutAt
  <2>2. Front!PlaceOrderHandler(t) = Front!ReturnResponse(t)
    BY <2>1 DEF Front!PlaceOrderHandler
  <2>. QED  BY <1>5, <2>1, <2>2, FrontKeeps, Ways DEF CheckoutAt, Keeps
<1>. QED  BY <1>1, <1>2, <1>3, <1>4, <1>5

(* The frontend brings a request a step further, or shows nothing.         *)
LEMMA StageFront ==
    ASSUME NEW t \in Txn, NEW k, Stage(t, k), t.next = FRONTEND, t.request.path # "cart"
    PROVE  LET u == Front!HttpRequestDispatcher(t) IN
           u.request = t.request => Stage(u, k + 1) \/ (ShowsNothing(u, k + 1) /\ k = 10)
<1>. DEFINE u == Front!HttpRequestDispatcher(t)
<1>. SUFFICES ASSUME u.request = t.request
              PROVE  Stage(u, k + 1) \/ (ShowsNothing(u, k + 1) /\ k = 10)
  OBVIOUS
<1>0. t.request.path \in Paths
  BY DEF Txn, Asked
<1>6. CASE t.request.path = "none"
  <2>1. k \in {0, 1} /\ NextOn("none", k) = 1
    BY <1>6 DEF Stage
  <2>2. k = 0 /\ NextOn("none", k + 1) = 0
    BY <2>1, Ways
  <2>3. u.next = GATEWAY
    BY <1>6, FrontKeeps DEF Front!HttpRequestDispatcher
  <2>. QED  BY <1>6, <2>2, <2>3 DEF Stage
<1>7. CASE t.request.path = "home"
  <2>1. u = Front!HomeHandler(t)
    BY <1>7 DEF Front!HttpRequestDispatcher
  <2>2. k \in Nat /\ HomeAt(u, k + 1) /\ u.next = NextOn("home", k + 1)
    BY <1>7, <2>1, HomeOn DEF Stage
  <2>. QED  BY <1>7, <2>2 DEF Stage
<1>1. CASE t.request.path = "setCurrency"
  <2>1. k \in {0, 1} /\ NextOn("setCurrency", k) = 1
    BY <1>1 DEF Stage
  <2>2. k = 0 /\ NextOn("setCurrency", k + 1) = 0
    BY <2>1, Ways
  <2>3. u.next = GATEWAY
    BY <1>1, FrontKeeps DEF Front!HttpRequestDispatcher, Front!SetCurrencyHandler
  <2>. QED  BY <1>1, <2>2, <2>3 DEF Stage
<1>2. CASE t.request.path = "addToCart"
  <2>1. u = Front!AddToCartHandler(t)
    BY <1>2 DEF Front!HttpRequestDispatcher
  <2>2. k \in Nat /\ AddToCartAt(u, k + 1) /\ u.next = NextOn("addToCart", k + 1)
    BY <1>2, <2>1, AddToCartOn DEF Stage
  <2>. QED  BY <1>2, <2>2 DEF Stage
<1>3. CASE t.request.path = "product"
  <2>1. u = Front!ProductHandler(t)
    BY <1>3 DEF Front!HttpRequestDispatcher
  <2>2. k \in Nat /\ ProductAt(u, k + 1) /\ u.next = NextOn("product", k + 1)
    BY <1>3, <2>1, ProductOn DEF Stage
  <2>. QED  BY <1>3, <2>2 DEF Stage
<1>4. CASE t.request.path = "viewCart"
  <2>1. u = Front!ViewCartHandler(t)
    BY <1>4 DEF Front!HttpRequestDispatcher
  <2>2. /\ k \in Nat
        /\ \/ ViewCartAt(u, k + 1) /\ u.next = NextOn("viewCart", k + 1)
           \/ k = 10 /\ u.cart.num = 0 /\ u.next = GATEWAY
    <3>1. k \in Nat /\ ViewCartAt(t, k) /\ NextOn("viewCart", k) = FRONTEND
      BY <1>4 DEF Stage
    <3>. QED  BY <2>1, <3>1, ViewCartOn
  <2>. HIDE DEF u
  <2>3. k = 10 => NextShort("viewCart", k + 1) = GATEWAY
    BY ShortWays
  <2>. QED  BY <1>4, <2>2, <2>3 DEF Stage, ShowsNothing
<1>5. CASE t.request.path = "checkout"
  <2>1. u = Front!PlaceOrderHandler(t)
    BY <1>5 DEF Front!HttpRequestDispatcher
  <2>2. k \in Nat /\ CheckoutAt(u, k + 1) /\ u.next = NextOn("checkout", k + 1)
    BY <1>5, <2>1, CheckoutOn DEF Stage
  <2>. QED  BY <1>5, <2>2 DEF Stage
<1>. QED  BY <1>0, <1>1, <1>2, <1>3, <1>4, <1>5, <1>6, <1>7 DEF Paths

(* And it finishes an order with an empty cart. *)
LEMMA NothingFront ==
    ASSUME NEW t \in Txn, NEW k, ShowsNothing(t, k), t.next = FRONTEND
    PROVE  ShowsNothing(Front!HttpRequestDispatcher(t), k + 1)
<1>. DEFINE u == Front!HttpRequestDispatcher(t)
<1>1. t.request.path = "checkout" /\ k \in {4, 6, 8} /\ t.cart.num = 0
  <2>1. t.cart.num = 0
    BY DEF ShowsNothing
  <2>. QED  BY <2>1, NothingNext
<1>2. u = Front!PlaceOrderHandler(t)
  BY <1>1 DEF Front!HttpRequestDispatcher
<1>3. CASE k = 4
  <2>1. t.hop = 1
    BY <1>1, <1>3 DEF ShowsNothing
  <2>2. u = Front!Call(t, RECOMMEND_SVC, "ListRecommendations")
    BY <1>2, <2>1 DEF Front!PlaceOrderHandler, Front!GetRecommendations
  <2>. HIDE DEF u
  <2>3. u.request = t.request /\ u.cart = t.cart /\ u.next = 5 /\ u.hop = 2 /\ u.caller = FRONTEND
    BY <2>1, <2>2, FrontKeeps DEF Keeps
  <2>. QED  BY <1>1, <1>3, <2>3, ShortWays DEF ShowsNothing, u
<1>4. CASE k = 6
  <2>1. t.hop = 2
    BY <1>1, <1>4 DEF ShowsNothing
  <2>2. u = Front!Call(t, CURRENCY_SVC, "GetSupportedCurrencies")
    BY <1>2, <2>1 DEF Front!PlaceOrderHandler, Front!GetCurrencies
  <2>. HIDE DEF u
  <2>3. u.request = t.request /\ u.cart = t.cart /\ u.next = 2 /\ u.hop = 3 /\ u.caller = FRONTEND
    BY <2>1, <2>2, FrontKeeps DEF Keeps
  <2>. QED  BY <1>1, <1>4, <2>3, ShortWays DEF ShowsNothing, u
<1>5. CASE k = 8
  <2>1. t.hop = 3
    BY <1>1, <1>5 DEF ShowsNothing
  <2>2. u = Front!ReturnResponse(t)
    BY <1>2, <2>1 DEF Front!PlaceOrderHandler
  <2>. HIDE DEF u
  <2>3. u.request = t.request /\ u.cart = t.cart /\ u.next = 0
    BY <2>2, FrontKeeps DEF Keeps
  <2>. QED  BY <1>1, <1>5, <2>3, ShortWays DEF ShowsNothing, u
<1>. QED  BY <1>1, <1>3, <1>4, <1>5

(* What a call of the checkout service leaves alone.                       *)
Carries(t, u) ==
    /\ u.request = t.request /\ u.hop = t.hop /\ u.cart = t.cart /\ u.product = t.product
    /\ u.result = t.result /\ u.quote = t.quote /\ u.caller = CHECKOUT_SVC
    /\ u.orders = t.orders /\ u.orderCnt = t.orderCnt /\ u.orderConv = t.orderConv

LEMMA DeskKeeps ==
    ASSUME NEW t \in Txn
    PROVE  /\ \A s, r : LET u == Desk!Call(t, s, r) IN
                Carries(t, u) /\ u.next = s /\ u.rpc = r /\ u.coHop = t.coHop + 1
           /\ \A m : LET u == AskConvert(t, CHECKOUT_SVC, m) IN
                /\ Carries(t, u) /\ u.next = CURRENCY_SVC /\ u.rpc = "Convert" /\ u.from = m
                /\ u.coHop = t.coHop
           /\ \A id : LET u == AskProduct(t, CHECKOUT_SVC, id) IN
                /\ Carries(t, u) /\ u.next = PRODUCTCATA_SVC /\ u.rpc = "GetProduct" /\ u.id = id
                /\ u.coHop = t.coHop
  BY DEF Txn, Carries, Desk!Call, Desk!Ask, AskConvert, AskProduct, Ask

(* getOrderItemInfo: the product of the item is asked for; or the cart is  *)
(* empty, and the order returns.                                           *)
LEMMA OrderedFirst ==
    ASSUME NEW t \in Txn, CheckoutAt(t, 3)
    PROVE  LET u == Desk!PlaceOrder(t) IN
           /\ t.cart.num = 1 => CheckoutAt(u, 4) /\ u.next = PRODUCTCATA_SVC
           /\ t.cart.num = 0 => u.next = FRONTEND /\ u.hop = 1 /\ u.cart = t.cart
<1>. DEFINE p == t.cart.items[0].product
            u == Desk!PlaceOrder(t)
<1>1. t.hop = 1 /\ t.coHop = 1 /\ t.orderCnt = 0
  BY DEF CheckoutAt
<1>2. u = Desk!GetOrderItemInfo(t)
  BY <1>1 DEF Desk!PlaceOrder
<1>3. CASE t.cart.num = 1
  <2>. DEFINE x == [t EXCEPT !.orderCnt = 1]
  <2>1. FilledOrder(t) = t
    BY <1>1 DEF FilledOrder
  <2>2. t.cart.num > 0 /\ t.orderCnt < t.cart.num /\ t.orderCnt + 1 = 1
    BY <1>1, <1>3
  <2>3. u = AskProduct([FilledOrder(t) EXCEPT !.orderCnt = t.orderCnt + 1], CHECKOUT_SVC,
                       t.cart.items[t.orderCnt].product)
    BY <1>1, <1>2, <2>2, DeskItems
  <2>4. u = AskProduct(x, CHECKOUT_SVC, p)
    BY <1>1, <2>1, <2>2, <2>3
  <2>5. /\ x \in Txn /\ x.request = t.request /\ x.hop = 1 /\ x.cart = t.cart /\ x.orderCnt = 1
        /\ x.coHop = 1
    BY <1>1, Members DEF Txn
  <2>. HIDE DEF x, u
  <2>6. /\ Carries(x, u) /\ u.next = PRODUCTCATA_SVC /\ u.rpc = "GetProduct" /\ u.id = p
        /\ u.coHop = 1
    BY <2>4, <2>5, DeskKeeps
  <2>. QED  BY <1>3, <2>5, <2>6 DEF Carries, CheckoutAt, u
<1>4. CASE t.cart.num = 0
  <2>. DEFINE x == [t EXCEPT !.total = <<>>]
  <2>1. u = Desk!ReturnResponseToFrontend(x)
    BY <1>2, <1>4 DEF Desk!GetOrderItemInfo
  <2>2. <<>> \in Sums
    BY DEF Sums
  <2>3. x \in Txn /\ x.hop = 1 /\ x.cart = t.cart
    BY <1>1, <2>2 DEF Txn
  <2>. HIDE DEF x, u
  <2>4. u.next = FRONTEND /\ u.hop = 1 /\ u.cart = t.cart
    BY <2>1, <2>3 DEF Desk!ReturnResponseToFrontend, Txn
  <2>. QED  BY <1>4, <2>4 DEF u
<1>. QED  BY <1>3, <1>4

(* getOrderItemInfo, when the product is known: its price is asked for.    *)
LEMMA OrderedKnown ==
    ASSUME NEW t \in Txn, CheckoutAt(t, 5)
    PROVE  LET u == Desk!PlaceOrder(t) IN
           CheckoutAt(u, 6) /\ u.next = CURRENCY_SVC
<1>. DEFINE p == t.cart.items[0].product
            s == FilledOrder(t)
            x == [s EXCEPT !.orderConv = 1]
            w == AskConvert(x, CHECKOUT_SVC, s.orders[0].price)
            u == Desk!PlaceOrder(t)
<1>1. t.hop = 1 /\ t.coHop = 1 /\ t.orderCnt = 1 /\ t.cart.num = 1 /\ Known(p, t.product = p)
  BY DEF CheckoutAt
<1>2. u = [w EXCEPT !.coHop = 2]
  <2>1. u = Desk!GetOrderItemInfo(t)
    BY <1>1 DEF Desk!PlaceOrder
  <2>2. t.cart.num > 0 /\ ~(t.orderCnt < t.cart.num)
    BY <1>1
  <2>. QED  BY <1>1, <2>1, <2>2, DeskItems
<1>3. /\ s \in Txn /\ s.request = t.request /\ s.hop = 1 /\ s.coHop = 1 /\ s.cart = t.cart
      /\ s.orderCnt = 1
  BY <1>1, FilledOrderType
<1>4. s.orders[0].price = PriceUsd(t.product)
  <2>1. s.orders = [t.orders EXCEPT ![0].product = t.product, ![0].price = PriceUsd(t.product)]
    <3>1. t.orderCnt # 0 /\ t.orderCnt - 1 = 0
      BY <1>1
    <3>2. s.orders = [t.orders EXCEPT ![t.orderCnt - 1].product = t.product,
                                      ![t.orderCnt - 1].price = PriceUsd(t.product)]
      BY <3>1, FilledOrderType
    <3>. QED  BY <3>1, <3>2
  <2>2. t.orders \in OrderViews /\ 0 \in Counts
    BY Members DEF Txn
  <2>3. t.orders[0] \in [product : OrNone, quantity : {0}, price : MoneyType]
    BY <2>2 DEF OrderViews
  <2>. QED  BY <2>1, <2>2, <2>3 DEF OrderViews
<1>5. s.orders[0].price \in MoneyType
  BY <1>3, Members, OrderViewsSet DEF Txn
<1>. HIDE DEF s
<1>6. /\ x \in Txn /\ x.request = t.request /\ x.hop = 1 /\ x.coHop = 1 /\ x.cart = t.cart
      /\ x.orderCnt = 1 /\ x.orderConv = 1
  BY <1>3, Members DEF Txn
<1>. HIDE DEF x
<1>7. w \in Txn
  BY <1>5, <1>6, Members, AskType
<1>8. Carries(x, w) /\ w.next = CURRENCY_SVC /\ w.rpc = "Convert" /\ w.from = s.orders[0].price
  BY <1>6, DeskKeeps
<1>. HIDE DEF w, u
<1>9. /\ u.hop = 1 /\ u.coHop = 2 /\ u.cart = t.cart /\ u.orderCnt = 1 /\ u.orderConv = 1
      /\ u.caller = CHECKOUT_SVC /\ u.next = CURRENCY_SVC /\ u.rpc = "Convert"
      /\ u.from = s.orders[0].price
  BY <1>2, <1>6, <1>7, <1>8, Members DEF Txn, Carries
<1>. QED  BY <1>1, <1>4, <1>9 DEF CheckoutAt, Known, u

(* convertCurrencyOfCart: the price of the item is stored, and the quote   *)
(* is asked for.                                                           *)
LEMMA OrderedPriced ==
    ASSUME NEW t \in Txn, CheckoutAt(t, 7)
    PROVE  LET u == Desk!PlaceOrder(t) IN
           CheckoutAt(u, 8) /\ u.next = SHIPPING_SVC
<1>. DEFINE p == t.cart.items[0].product
            s == StoredOrder(t)
            x == [s EXCEPT !.coHop = 3]
            y == [x EXCEPT !.quote.flag = FALSE]
            u == Desk!PlaceOrder(t)
<1>1. /\ t.hop = 1 /\ t.coHop = 2 /\ t.orderCnt = 1 /\ t.orderConv = 1 /\ t.cart.num = 1
      /\ Known(p, t.result = PriceCad(p))
  BY DEF CheckoutAt
<1>2. u = Desk!Call(y, SHIPPING_SVC, "GetQuote")
  <2>1. u = Desk!ConvertCurrencyOfCart(t)
    BY <1>1 DEF Desk!PlaceOrder
  <2>2. ~(t.orderConv < t.orderCnt)
    BY <1>1
  <2>3. u = Desk!QuoteShipping(x)
    BY <1>1, <2>1, <2>2, DeskCart
  <2>. HIDE DEF x
  <2>. QED  BY <2>3 DEF Desk!QuoteShipping
<1>3. /\ s \in Txn /\ s.request = t.request /\ s.hop = 1 /\ s.cart = t.cart /\ s.orderCnt = 1
      /\ s.orders = [t.orders EXCEPT ![0].price = t.result]
  <2>1. t.orderConv # 0 /\ t.orderConv - 1 = 0
    BY <1>1
  <2>2. s.orders = [t.orders EXCEPT ![t.orderConv - 1].price = t.result]
    BY <2>1, StoredOrderType
  <2>. QED  BY <1>1, <2>1, <2>2, StoredOrderType
<1>4. s.orders[0].price = t.result
  <2>1. t.orders \in OrderViews /\ 0 \in Counts
    BY Members DEF Txn
  <2>2. t.orders[0] \in [product : OrNone, quantity : {0}, price : MoneyType]
    BY <2>1 DEF OrderViews
  <2>. QED  BY <1>3, <2>1, <2>2 DEF OrderViews
<1>. HIDE DEF s
<1>5. /\ x \in Txn /\ x.hop = 1 /\ x.coHop = 3 /\ x.cart = t.cart
      /\ x.orderCnt = 1 /\ x.orders = s.orders
  BY <1>3, Members DEF Txn
<1>. HIDE DEF x
<1>6. [x.quote EXCEPT !.flag = FALSE] \in Quotes
  BY <1>5 DEF Txn, Quotes
<1>7. /\ y \in Txn /\ y.hop = 1 /\ y.coHop = 3 /\ y.cart = t.cart
      /\ y.orderCnt = 1 /\ y.orders = s.orders /\ ~y.quote.flag
  BY <1>5, <1>6 DEF Txn, Quotes
<1>. HIDE DEF y, u
<1>8. Carries(y, u) /\ u.next = SHIPPING_SVC /\ u.rpc = "GetQuote" /\ u.coHop = 4
  BY <1>2, <1>7, DeskKeeps
<1>. QED  BY <1>1, <1>4, <1>7, <1>8 DEF CheckoutAt, Carries, Known, u

(* The sum ends with the price of the only item and with the quote.        *)
LEMMA SumEnds ==
    ASSUME NEW total \in Sums, NEW v \in Views, NEW cost \in MoneyType
    PROVE  LET sum == SumOf(total, v, 1, cost) IN
           /\ Len(sum) >= 2 /\ sum[Len(sum)] = cost /\ sum[Len(sum) - 1] = v[0].price
<1>. DEFINE m == v[0].price
            one == [i \in 1 .. 1 |-> v[i - 1].price]
            items == total \o one
<1>1. m \in MoneyType
  BY Members, ViewsSet
<1>2. one = <<m>>
  <2>1. \A i \in 1 .. 1 : v[i - 1].price = m
    OBVIOUS
  <2>2. one = [i \in 1 .. 1 |-> m]
    BY <2>1, Zenon
  <2>. HIDE DEF m, one
  <2>3. [i \in 1 .. 1 |-> m] = <<m>>
    OBVIOUS
  <2>. QED  BY <2>2, <2>3
<1>. HIDE DEF one, m
<1>3. /\ items \in Seq(MoneyType) /\ Len(items) = Len(total) + 1 /\ Len(total) \in Nat
      /\ items[Len(total) + 1] = m
  <2>1. total \in Seq(MoneyType) /\ Len(total) \in Nat
    BY DEF Sums
  <2>. QED  BY <1>1, <1>2, <2>1
<1>. HIDE DEF items
<1>4. LET sum == items \o <<cost>> IN
      /\ Len(sum) = Len(total) + 2 /\ sum[Len(total) + 2] = cost /\ sum[Len(total) + 1] = m
  BY <1>3
<1>5. SumOf(total, v, 1, cost) = items \o <<cost>>
  BY DEF SumOf, items, one
<1>. QED  BY <1>3, <1>4, <1>5 DEF m

(* convertCurrencyOfShippingQuote: the quote in dollars is converted, and  *)
(* then charged with the item.                                             *)
LEMMA OrderedQuote ==
    ASSUME NEW t \in Txn, CheckoutAt(t, 9)
    PROVE  LET u == Desk!PlaceOrder(t) IN
           CheckoutAt(u, 10) /\ u.next = CURRENCY_SVC
<1>. DEFINE p == t.cart.items[0].product
            w == AskConvert(t, CHECKOUT_SVC, t.quote.cost)
            u == Desk!PlaceOrder(t)
<1>1. /\ t.hop = 1 /\ t.coHop = 4 /\ t.orderCnt = 1 /\ t.cart.num = 1 /\ ~t.quote.flag
      /\ Known(p, t.orders[0].price = PriceCad(p)) /\ t.quote.cost = Quote("USD")
  BY DEF CheckoutAt
<1>2. u = [w EXCEPT !.quote.flag = TRUE]
  <2>1. u = [Desk!AskConvert(t, CHECKOUT_SVC, t.quote.cost) EXCEPT !.quote.flag = TRUE]
    BY <1>1 DEF Desk!PlaceOrder, Desk!ConvertCurrencyOfShippingQuote
  <2>. QED  BY <2>1, SameAsk
<1>3. w \in Txn
  <2>1. t.quote.cost \in MoneyType
    BY DEF Txn, Quotes
  <2>. QED  BY <2>1, Members, AskType
<1>4. Carries(t, w) /\ w.next = CURRENCY_SVC /\ w.rpc = "Convert" /\ w.from = t.quote.cost
      /\ w.coHop = t.coHop
  BY DeskKeeps
<1>. HIDE DEF w, u
<1>5. /\ u.hop = 1 /\ u.coHop = 4 /\ u.cart = t.cart /\ u.orderCnt = 1 /\ u.orders = t.orders
      /\ u.caller = CHECKOUT_SVC /\ u.next = CURRENCY_SVC /\ u.rpc = "Convert"
      /\ u.from = t.quote.cost /\ u.quote.flag
  BY <1>1, <1>2, <1>3, <1>4 DEF Txn, Carries, Quotes
<1>. QED  BY <1>1, <1>5 DEF CheckoutAt, Known, u

LEMMA OrderedCharge ==
    ASSUME NEW t \in Txn, CheckoutAt(t, 11)
    PROVE  LET u == Desk!PlaceOrder(t) IN
           CheckoutAt(u, 12) /\ u.next = PAYMENT_SVC
<1>. DEFINE p == t.cart.items[0].product
            u == Desk!PlaceOrder(t)
<1>1. /\ t.hop = 1 /\ t.coHop = 4 /\ t.orderCnt = 1 /\ t.cart.num = 1 /\ t.quote.flag
      /\ Known(p, t.orders[0].price = PriceCad(p)) /\ t.result = Quote("CAD")
  BY DEF CheckoutAt
<1>2. u = Desk!ConvertCurrencyOfShippingQuote(t)
  BY <1>1 DEF Desk!PlaceOrder
<1>. HIDE DEF u
<1>3. /\ OrderAsks(t, u, 6) /\ u.cart = t.cart
      /\ u.charge = SumOf(t.total, t.orders, t.orderCnt, t.result)
  BY <1>1, <1>2, DeskCost
<1>4. u.hop = 1 /\ u.coHop = 6 /\ u.caller = CHECKOUT_SVC /\ u.next = PAYMENT_SVC
  BY <1>1, <1>3 DEF OrderAsks, DeskCalls
<1>5. /\ Len(u.charge) >= 2 /\ u.charge[Len(u.charge)] = t.result
      /\ u.charge[Len(u.charge) - 1] = t.orders[0].price
  <2>1. t.total \in Sums /\ t.orders \in Views /\ t.result \in MoneyType
    BY OrderViewsAreViews DEF Txn
  <2>2. u.charge = SumOf(t.total, t.orders, 1, t.result)
    BY <1>1, <1>3
  <2>. QED  BY <2>1, <2>2, SumEnds
<1>. QED  BY <1>1, <1>3, <1>4, <1>5 DEF CheckoutAt, Known, u

(* prepareOrderItemsAndShippingQuoteFromCart brings an order a step on, or *)
(* returns it when the cart is empty.                                      *)
LEMMA OrderOn ==
    ASSUME NEW t \in Txn, NEW k, CheckoutAt(t, k), NextOn("checkout", k) = CHECKOUT_SVC
    PROVE  LET u == Desk!PlaceOrder(t) IN
           \/ CheckoutAt(u, k + 1) /\ u.next = NextOn("checkout", k + 1)
           \/ k = 3 /\ u.cart.num = 0 /\ u.next = FRONTEND /\ u.hop = 1
<1>. DEFINE u == Desk!PlaceOrder(t)
<1>1. k \in {1, 3, 5, 7, 9, 11, 13, 15, 17, 19}
  <2>1. k \in 0 .. 25
    BY DEF CheckoutAt
  <2>. QED  BY <2>1, Ways
<1>2. CASE k = 1
  <2>1. t.hop = 1 /\ t.coHop = 0
    BY <1>2 DEF CheckoutAt
  <2>. DEFINE w == Desk!Call(t, CART_SVC, "GetCart")
  <2>2. u = [w EXCEPT !.orderCnt = 0]
    BY <2>1 DEF Desk!PlaceOrder, Desk!GetCart
  <2>3. w \in Txn
    BY <2>1, DeskCall, Members DEF Text
  <2>4. Carries(t, w) /\ w.next = CART_SVC /\ w.coHop = 1
    BY <2>1, DeskKeeps
  <2>. HIDE DEF w, u
  <2>5. u.hop = 1 /\ u.coHop = 1 /\ u.orderCnt = 0 /\ u.caller = CHECKOUT_SVC /\ u.next = CART_SVC
    BY <2>1, <2>2, <2>3, <2>4, Members DEF Txn, Carries
  <2>. QED  BY <1>2, <2>5, Ways DEF CheckoutAt, u
<1>3. CASE k = 3
  <2>1. t.cart.num \in {0, 1} /\ CheckoutAt(t, 3)
    BY <1>3 DEF CheckoutAt
  <2>2. k + 1 = 4 /\ NextOn("checkout", k + 1) = 3
    BY <1>3, Ways
  <2>. QED  BY <1>3, <2>1, <2>2, OrderedFirst
<1>4. CASE k = 5
  BY <1>4, OrderedKnown, Ways
<1>5. CASE k = 7
  BY <1>5, OrderedPriced, Ways
<1>6. CASE k = 9
  BY <1>6, OrderedQuote, Ways
<1>7. CASE k = 11
  BY <1>7, OrderedCharge, Ways
<1>8. CASE k = 13
  <2>1. t.hop = 1 /\ t.coHop = 6
    BY <1>8 DEF CheckoutAt
  <2>2. u = Desk!Call(t, SHIPPING_SVC, "ShipOrder")
    BY <2>1 DEF Desk!PlaceOrder, Desk!ShipOrder
  <2>. QED  BY <1>8, <2>1, <2>2, DeskKeeps, Ways DEF CheckoutAt, Carries
<1>9. CASE k = 15
  <2>1. t.hop = 1 /\ t.coHop = 7
    BY <1>9 DEF CheckoutAt
  <2>2. u = Desk!Call(t, CART_SVC, "EmptyCart")
    BY <2>1 DEF Desk!PlaceOrder, Desk!EmptyUserCart
  <2>. QED  BY <1>9, <2>1, <2>2, DeskKeeps, Ways DEF CheckoutAt, Carries
<1>10. CASE k = 17
  <2>1. t.hop = 1 /\ t.coHop = 8
    BY <1>10 DEF CheckoutAt
  <2>2. u = Desk!Call(t, EMAIL_SVC, "SendOrderConfirmation")
    BY <2>1 DEF Desk!PlaceOrder, Desk!SendOrderConfirmation
  <2>. QED  BY <1>10, <2>1, <2>2, DeskKeeps, Ways DEF CheckoutAt, Carries
<1>11. CASE k = 19
  <2>1. t.hop = 1 /\ t.coHop = 9
    BY <1>11 DEF CheckoutAt
  <2>2. u = Desk!ReturnResponseToFrontend(t)
    BY <2>1 DEF Desk!PlaceOrder
  <2>3. u.hop = 1 /\ u.next = FRONTEND /\ u.cart = t.cart
    BY <2>1, <2>2 DEF Desk!ReturnResponseToFrontend, Txn
  <2>. QED  BY <1>11, <2>3, Ways DEF CheckoutAt
<1>. QED  BY <1>1, <1>2, <1>3, <1>4, <1>5, <1>6, <1>7, <1>8, <1>9, <1>10, <1>11

-----------------------------------------------------------------------------
(* The function that a visit was paid to is the one that does what it says.*)
LEMMA Paid ==
    /\ Visited("frontend") = FRONTEND /\ Visited("checkout") = CHECKOUT_SVC
    /\ \A s \in DOMAIN Serves : \A r \in Serves[s] : Visited(r) = s
<1>1. DOMAIN Serves = {2, 3, 4, 5, 6, 8, 9, 10}
  BY AskedWell
<1>2. /\ Serves[2] = {"GetSupportedCurrencies", "Convert"}
      /\ Serves[3] = {"ListProducts", "GetProduct"}
      /\ Serves[4] = {"AddItem", "GetCart", "EmptyCart"}
      /\ Serves[5] = {"ListRecommendations"}
      /\ Serves[6] = {"GetQuote", "ShipOrder"}
      /\ Serves[8] = {"Charge"}
      /\ Serves[9] = {"SendOrderConfirmation"}
      /\ Serves[10] = {"GetAds"}
  BY DEF Serves
<1>3. ASSUME NEW s \in DOMAIN Serves, NEW r \in Serves[s]
      PROVE  Visited(r) = s
  <2>1. \A other \in DOMAIN Serves : r \in Serves[other] => other = s
    BY <1>1, <1>2
  <2>2. r # "frontend" /\ r # "checkout"
    BY <1>1, <1>2
  <2>3. Visited(r) = CHOOSE other \in DOMAIN Serves : r \in Serves[other]
    BY <2>2 DEF Visited
  <2>4. Visited(r) \in DOMAIN Serves /\ r \in Serves[Visited(r)]
    BY <1>3, <2>3
  <2>. QED  BY <2>1, <2>4
<1>. QED  BY <1>3 DEF Visited

(* A visit to the function that is next is a step along the way.           *)
LEMMA WalkedOn ==
    ASSUME NEW way, NEW v \in Seq(Visits), NEW what \in Visits, Walked(v, way),
           Visited(what) = way[Len(v) + 1]
    PROVE  Walked(Append(v, what), way)
<1>. DEFINE w == Append(v, what)
<1>1. Longer(v, what, w)
  BY Appended
<1>. HIDE DEF w
<1>2. ASSUME NEW i \in 1 .. Len(w)
      PROVE  Visited(w[i]) = way[i]
  <2>1. Len(v) \in Nat /\ Len(w) = Len(v) + 1
    BY <1>1 DEF Longer
  <2>2. CASE i \in 1 .. Len(v)
    BY <1>1, <2>2 DEF Longer, Walked
  <2>3. CASE i = Len(v) + 1
    BY <1>1, <2>3 DEF Longer
  <2>. QED  BY <2>1, <2>2, <2>3
<1>. QED  BY <1>2 DEF Walked, w

(* Up to where they part, the short way is the way.                        *)
LEMMA WalkedShort ==
    ASSUME NEW path, NEW v \in Seq(Visits), Walked(v, Way(path)),
           (path = "viewCart" /\ Len(v) = 10) \/ (path = "checkout" /\ Len(v) = 4)
    PROVE  Walked(v, ShortWay(path))
<1>1. CASE path = "viewCart" /\ Len(v) = 10
  <2>. SUFFICES ASSUME NEW i \in 1 .. 10 PROVE Visited(v[i]) = ShortWay(path)[i]
    BY <1>1 DEF Walked
  <2>1. ShortWay(path)[i] = Way(path)[i]
    BY <1>1, ShortWays
  <2>. QED  BY <1>1, <2>1 DEF Walked
<1>2. CASE path = "checkout" /\ Len(v) = 4
  <2>. SUFFICES ASSUME NEW i \in 1 .. 4 PROVE Visited(v[i]) = ShortWay(path)[i]
    BY <1>2 DEF Walked
  <2>1. ShortWay(path)[i] = Way(path)[i]
    BY <1>2, ShortWays
  <2>. QED  BY <1>2, <2>1 DEF Walked
<1>. QED  BY <1>1, <1>2

(* The length of a way, and what may become of a request along it.         *)
Onward(t, u, k) ==
    /\ Stage(t, k) => \/ Stage(u, k + 1)
                      \/ ShowsNothing(u, k + 1) /\ (k = 10 \/ (k = 3 /\ t.request.path = "checkout"))
    /\ ShowsNothing(t, k) => ShowsNothing(u, k + 1)

LEMMA OnwardWay ==
    ASSUME NEW t, NEW u, NEW v \in Seq(Visits), NEW what \in Visits, OnWay(t, v, FALSE),
           u.request = t.request, t.next # GATEWAY, Visited(what) = t.next,
           Onward(t, u, Len(v))
    PROVE  OnWay(u, Append(v, what), FALSE)
<1>. DEFINE w == Append(v, what)  path == t.request.path  k == Len(v)
<1>1. Len(w) = k + 1 /\ w \in Seq(Visits) /\ k \in Nat
  BY Appended DEF Longer
<1>2. ASSUME Stage(t, k), Walked(v, Way(path))
      PROVE  Walked(w, Way(path))
  <2>1. Visited(what) = Way(path)[k + 1]
    BY <1>2 DEF Stage, NextOn
  <2>. QED  BY <1>2, <2>1, WalkedOn
<1>3. ASSUME ShowsNothing(t, k), Walked(v, ShortWay(path))
      PROVE  Walked(w, ShortWay(path))
  <2>1. Visited(what) = ShortWay(path)[k + 1]
    BY <1>3 DEF ShowsNothing, NextShort
  <2>. QED  BY <1>3, <2>1, WalkedOn
<1>4. ASSUME Stage(t, k), ShowsNothing(u, k + 1), k = 10 \/ (k = 3 /\ path = "checkout"),
             Walked(v, Way(path))
      PROVE  Walked(w, ShortWay(path))
  <2>. HIDE DEF w
  <2>1. CASE k = 10
    <3>1. path = "viewCart" \/ path = "checkout"
      BY <1>4 DEF ShowsNothing
    <3>2. path = "viewCart"
      <4>1. ~(k + 1 \in 4 .. 9)
        BY <2>1
      <4>. QED  BY <1>4, <4>1 DEF ShowsNothing
    <3>3. Walked(v, ShortWay(path))
      BY <1>4, <2>1, <3>2, WalkedShort
    <3>4. Visited(what) = Way(path)[11] /\ Way(path)[11] = ShortWay(path)[11]
      <4>1. Visited(what) = Way(path)[k + 1]
        BY <1>4 DEF Stage, NextOn
      <4>2. k + 1 = 11
        BY <2>1
      <4>3. Way("viewCart")[11] = ShortWay("viewCart")[11]
        BY ShortWays
      <4>. HIDE DEF path, k, w
      <4>4. Visited(what) = Way("viewCart")[11]
        BY <3>2, <4>1, <4>2, Zenon
      <4>. QED  BY <3>2, <4>3, <4>4, Zenon
    <3>5. Visited(what) = ShortWay(path)[Len(v) + 1]
      BY <2>1, <3>4
    <3>. HIDE DEF path, k
    <3>. QED  BY <3>3, <3>5, WalkedOn DEF w
  <2>2. CASE k = 3 /\ path = "checkout"
    <3>1. Visited(what) = Way(path)[k + 1]
      BY <1>4 DEF Stage, NextOn
    <3>2. Walked(w, Way(path))
      BY <1>4, <3>1, WalkedOn DEF w
    <3>. QED  BY <1>1, <2>2, <3>2, WalkedShort
  <2>. QED  BY <1>4, <2>1, <2>2
<1>. HIDE DEF w, k
<1>. QED  BY <1>1, <1>2, <1>3, <1>4 DEF OnWay, Onward, w, k

(* A step of one transaction leaves the others on their way.               *)
LEMMA OthersOnWay ==
    ASSUME WayInv, NEW o \in Object,
           \A p \in Object \ {o} : /\ txn'[p] = txn[p] /\ visits'[p] = visits[p] /\ pc'[p] = pc[p]
                                   /\ p \in busy' <=> p \in busy,
           IF o \in busy' THEN OnWay(txn'[o], visits'[o], pc'[o] # "idle") ELSE visits'[o] = <<>>
    PROVE  WayInv'
<1>. SUFFICES ASSUME NEW p \in Object
              PROVE  IF p \in busy' THEN OnWay(txn'[p], visits'[p], pc'[p] # "idle")
                                    ELSE visits'[p] = <<>>
  BY DEF WayInv
<1>1. CASE p = o
  BY <1>1
<1>2. CASE p # o
  BY <1>2 DEF WayInv
<1>. QED  BY <1>1, <1>2

(* What is true of a transaction that no worker of the cart service has.   *)
LEMMA BeforeVisit ==
    ASSUME Kept, WayInv, NEW o \in busy, pc[o] = "idle"
    PROVE  /\ o \in Object /\ txn[o] \in Txn /\ Course(txn[o]) /\ visits[o] \in Seq(Visits)
           /\ OnWay(txn[o], visits[o], FALSE)
<1>1. o \in Object /\ txn[o] \in Txn /\ Course(txn[o]) /\ visits[o] \in Seq(Visits)
  BY DEF Kept, Typed, OnCourse
<1>2. (pc[o] # "idle") = FALSE
  OBVIOUS
<1>. QED  BY <1>1, <1>2 DEF WayInv

(* A visit to one function leaves what the others were handed alone.       *)
LEMMA VisitsOf ==
    ASSUME Kept, NEW o \in Object, NEW what, Visit(o, what)
    PROVE  /\ visits'[o] = Append(visits[o], what)
           /\ \A p \in Object \ {o} : visits'[p] = visits[p]
  BY DEF Visit, Kept, Typed

LEMMA BecomesOf ==
    ASSUME Kept, NEW o \in Object, NEW u, Becomes(o, u)
    PROVE  txn'[o] = u /\ \A p \in Object \ {o} : txn'[p] = txn[p]
  BY DEF Becomes, Kept, Typed

(* No handler but that of GetCart writes to the answer of the cart service.*)
Leaves(t, u) == "cart" \in DOMAIN t => "cart" \in DOMAIN u /\ u.cart = t.cart

LEMMA CallsLeave ==
    ASSUME NEW t
    PROVE  /\ \A s, r : Leaves(t, Front!Call(t, s, r))
           /\ \A m : Leaves(t, Front!AskConvert(t, FRONTEND, m))
           /\ \A id : Leaves(t, Front!AskProduct(t, FRONTEND, id))
           /\ Leaves(t, Front!ReturnResponse(t))
  BY DEF Leaves, Front!Call, Front!AskConvert, Front!AskProduct, Front!Ask, Front!ReturnResponse

LEMMA TotalLeaves ==
    ASSUME NEW t
    PROVE  Leaves(t, Front!CalculateTotalPrice(t))
<1>. DEFINE items == Front!Multiplied(t.items, t.itemCnt)
            v == [t EXCEPT !.items = items,
                           !.total = Front!SumOf(@, items, t.itemCnt, t.quote.cost)]
<1>1. Leaves(t, v)
  BY DEF Leaves
<1>2. Front!CalculateTotalPrice(t) = Front!ReturnResponse(v)
  BY DEF Front!CalculateTotalPrice
<1>. HIDE DEF v
<1>. QED  BY <1>1, <1>2, CallsLeave DEF Leaves

LEMMA CartPricesLeave ==
    ASSUME NEW t
    PROVE  Leaves(t, Front!ConvertCurrencyOfCart(t))
<1>. DEFINE u == IF t.convCnt = 0 THEN t ELSE [t EXCEPT !.items[t.convCnt - 1].price = t.result]
            v == [u EXCEPT !.convCnt = @ + 1]
            price == u.items[u.convCnt].price
<1>1. Leaves(t, u)
  BY DEF Leaves
<1>2. Front!ConvertCurrencyOfCart(t) =
        IF u.convCnt < u.itemCnt THEN Front!AskConvert(v, FRONTEND, price)
        ELSE Front!CalculateTotalPrice(u)
  BY DEF Front!ConvertCurrencyOfCart
<1>. HIDE DEF u, price
<1>3. Leaves(u, v)
  BY DEF Leaves
<1>. HIDE DEF v
<1>4. Leaves(v, Front!AskConvert(v, FRONTEND, price)) /\ Leaves(u, Front!CalculateTotalPrice(u))
  BY CallsLeave, TotalLeaves
<1>. QED  BY <1>1, <1>2, <1>3, <1>4 DEF Leaves

LEMMA CartItemsLeave ==
    ASSUME NEW t
    PROVE  Leaves(t, Front!GetCartItemInfo(t))
<1>. DEFINE last == t.itemCnt - 1
            u == IF t.itemCnt = 0 THEN t
                 ELSE [t EXCEPT !.items[last] =
                          [product |-> t.product, quantity |-> t.cart.items[last].quantity,
                           price |-> Front!PriceUsd(t.product)]]
            a == [t EXCEPT !.total = <<>>]
            b == [u EXCEPT !.itemCnt = @ + 1]
            c == [u EXCEPT !.convCnt = 0]
            d == Front!ConvertCurrencyOfCart(c)
            id == t.cart.items[t.itemCnt].product
<1>1. Leaves(t, u) /\ Leaves(t, a)
  BY DEF Leaves
<1>2. Front!GetCartItemInfo(t) =
        IF t.cart.num <= 0 THEN Front!ReturnResponse(a)
        ELSE IF t.itemCnt < t.cart.num THEN Front!AskProduct(b, FRONTEND, id)
        ELSE [d EXCEPT !.hop = @ + 1]
  BY DEF Front!GetCartItemInfo
<1>. HIDE DEF u, a, id
<1>3. Leaves(u, b) /\ Leaves(u, c) /\ Leaves(d, [d EXCEPT !.hop = @ + 1])
  BY DEF Leaves
<1>. HIDE DEF b, c
<1>4. Leaves(c, d) /\ Leaves(a, Front!ReturnResponse(a)) /\ Leaves(b, Front!AskProduct(b, FRONTEND, id))
  BY CallsLeave, CartPricesLeave
<1>. HIDE DEF d
<1>. QED  BY <1>1, <1>2, <1>3, <1>4 DEF Leaves

(* Nor does any page. *)
LEMMA PagesLeave ==
    ASSUME NEW t
    PROVE  /\ Leaves(t, Front!HomeHandler(t)) /\ Leaves(t, Front!ProductHandler(t))
           /\ Leaves(t, Front!AddToCartHandler(t)) /\ Leaves(t, Front!ViewCartHandler(t))
           /\ Leaves(t, Front!PlaceOrderHandler(t)) /\ Leaves(t, Front!SetCurrencyHandler(t))
<1>0. ASSUME NEW a, NEW b, NEW c, Leaves(a, b), Leaves(b, c)
      PROVE  Leaves(a, c)
  BY <1>0 DEF Leaves
<1>1. /\ Leaves(t, Front!GetCurrencies(t)) /\ Leaves(t, Front!GetProducts(t))
      /\ Leaves(t, Front!GetCart(t)) /\ Leaves(t, Front!ChooseAd(t))
      /\ Leaves(t, Front!GetRecommendations(t)) /\ Leaves(t, Front!ReturnResponse(t))
  BY CallsLeave DEF Front!GetCurrencies, Front!GetProducts, Front!GetCart, Front!ChooseAd,
                    Front!GetRecommendations
<1>2. Leaves(t, Front!ChooseAd(Front!ConvertCurrencyOfProducts(t)))
  <2>. DEFINE u == Front!ConvertCurrencyOfProducts(t)
              w == Front!AskConvert(t, FRONTEND, Front!PriceUsd(Listed))
  <2>1. u = [w EXCEPT !.view = [product |-> Listed, quantity |-> 0, price |-> t.result],
                      !.viewed = 1, !.hop = @ + 1]
    BY DEF Front!ConvertCurrencyOfProducts
  <2>2. Leaves(t, w)
    BY CallsLeave
  <2>. HIDE DEF w
  <2>3. Leaves(w, u)
    BY <2>1 DEF Leaves
  <2>. HIDE DEF u
  <2>4. Leaves(u, Front!ChooseAd(u))
    BY CallsLeave DEF Front!ChooseAd
  <2>. QED  BY <2>2, <2>3, <2>4 DEF Leaves, u
<1>3. Leaves(t, Front!ConvertCurrencyOfProduct(t))
  <2>. DEFINE u == [t EXCEPT !.view = [product |-> t.product, quantity |-> 0, price |-> t.result]]
              v == [t EXCEPT !.viewed = 1]
              price == Front!PriceUsd(t.product)
  <2>1. Leaves(t, u) /\ Leaves(t, v)
    BY DEF Leaves
  <2>2. Front!ConvertCurrencyOfProduct(t) =
            IF t.viewed # 0 THEN Front!GetRecommendations(u) ELSE Front!AskConvert(v, FRONTEND, price)
    BY DEF Front!ConvertCurrencyOfProduct
  <2>. HIDE DEF u, v, price
  <2>3. Leaves(u, Front!GetRecommendations(u)) /\ Leaves(v, Front!AskConvert(v, FRONTEND, price))
    BY CallsLeave DEF Front!GetRecommendations
  <2>. QED  BY <2>1, <2>2, <2>3 DEF Leaves
<1>4. Leaves(t, [Front!GetProduct(t) EXCEPT !.viewed = 0])
  <2>. DEFINE u == Front!AskProduct(t, FRONTEND, t.request.item.product)
  <2>1. Front!GetProduct(t) = [u EXCEPT !.hop = @ + 1]
    BY DEF Front!GetProduct
  <2>2. Leaves(t, u)
    BY CallsLeave
  <2>. HIDE DEF u
  <2>. QED  BY <2>1, <2>2 DEF Leaves
<1>5. Leaves(t, Front!InsertCart(t))
  <2>. DEFINE u == [t EXCEPT !.add = [product |-> t.id, quantity |-> t.request.item.quantity]]
  <2>1. Leaves(t, u)
    BY DEF Leaves
  <2>. HIDE DEF u
  <2>2. Leaves(u, Front!Call(u, CART_SVC, "AddItem"))
    BY CallsLeave
  <2>. QED  BY <2>1, <2>2 DEF Leaves, Front!InsertCart, u
<1>6. Leaves(t, Front!GetShippingQuote(t))
  <2>. DEFINE u == [t EXCEPT !.quote.flag = FALSE]
  <2>1. Leaves(t, u)
    BY DEF Leaves
  <2>. HIDE DEF u
  <2>2. Leaves(u, Front!Call(u, SHIPPING_SVC, "GetQuote"))
    BY CallsLeave
  <2>. QED  BY <2>1, <2>2 DEF Leaves, Front!GetShippingQuote, u
<1>7. Leaves(t, Front!ConvertCurrencyOfShippingQuote(t))
  <2>. DEFINE u == [t EXCEPT !.quote.cost = t.result]
              v == Front!GetCartItemInfo(u)
              w == Front!AskConvert(t, FRONTEND, t.quote.cost)
  <2>1. Front!ConvertCurrencyOfShippingQuote(t) =
            IF t.quote.flag THEN [v EXCEPT !.hop = @ + 1] ELSE [w EXCEPT !.quote.flag = TRUE]
    BY DEF Front!ConvertCurrencyOfShippingQuote
  <2>2. Leaves(t, u) /\ Leaves(v, [v EXCEPT !.hop = @ + 1]) /\ Leaves(w, [w EXCEPT !.quote.flag = TRUE])
    BY DEF Leaves
  <2>. HIDE DEF u
  <2>3. Leaves(u, v) /\ Leaves(t, w)
    BY CartItemsLeave, CallsLeave
  <2>. HIDE DEF v, w
  <2>. QED  BY <2>1, <2>2, <2>3 DEF Leaves
<1>8. Leaves(t, Front!PlaceOrder(t))
  <2>. DEFINE u == Front!Call(t, CHECKOUT_SVC, "PlaceOrder")
  <2>1. Front!PlaceOrder(t) = [u EXCEPT !.coHop = 0]
    BY DEF Front!PlaceOrder
  <2>2. Leaves(t, u)
    BY CallsLeave
  <2>. HIDE DEF u
  <2>. QED  BY <2>1, <2>2 DEF Leaves
<1>9. Leaves(t, [Front!GetProducts(t) EXCEPT !.viewed = 0]) /\ Leaves(t, [Front!GetCart(t) EXCEPT !.itemCnt = 0])
  <2>. DEFINE u == Front!GetProducts(t)  v == Front!GetCart(t)
  <2>1. Leaves(t, u) /\ Leaves(t, v)
    BY <1>1
  <2>. HIDE DEF u, v
  <2>2. Leaves(u, [u EXCEPT !.viewed = 0]) /\ Leaves(v, [v EXCEPT !.itemCnt = 0])
    BY DEF Leaves
  <2>. QED  BY <2>1, <2>2 DEF Leaves, u, v
<1>. QED
  BY <1>1, <1>2, <1>3, <1>4, <1>5, <1>6, <1>7, <1>8, <1>9, CartItemsLeave, CartPricesLeave
  DEF Front!HomeHandler, Front!ProductHandler, Front!AddToCartHandler, Front!ViewCartHandler,
      Front!PlaceOrderHandler, Front!SetCurrencyHandler

LEMMA FrontLeaves ==
    ASSUME NEW t
    PROVE  Leaves(t, Front!HttpRequestDispatcher(t))
<1>1. Leaves(t, t) /\ Leaves(t, Front!ReturnResponse(t))
  BY CallsLeave DEF Leaves
<1>. QED  BY <1>1, PagesLeave DEF Front!HttpRequestDispatcher

(* And no step of an order. *)
LEMMA DeskLeaves ==
    ASSUME NEW t
    PROVE  Leaves(t, Desk!PlaceOrder(t))
<1>0. ASSUME NEW a
      PROVE  /\ \A s, r : Leaves(a, Desk!Call(a, s, r))
             /\ \A m : Leaves(a, Desk!AskConvert(a, CHECKOUT_SVC, m))
             /\ \A id : Leaves(a, Desk!AskProduct(a, CHECKOUT_SVC, id))
             /\ Leaves(a, Desk!ReturnResponseToFrontend(a))
  BY DEF Leaves, Desk!Call, Desk!AskConvert, Desk!AskProduct, Desk!Ask, Desk!ReturnResponseToFrontend
<1>1. ASSUME NEW a
      PROVE  Leaves(a, Desk!ChargeCard(a)) /\ Leaves(a, Desk!CalculateTotalPrice(a))
  <2>. DEFINE b == [a EXCEPT !.charge = a.total]
  <2>1. Leaves(a, b) /\ Leaves(a, Desk!CalculateTotalPrice(a))
    BY DEF Leaves, Desk!CalculateTotalPrice
  <2>. HIDE DEF b
  <2>2. Leaves(b, Desk!Call(b, PAYMENT_SVC, "Charge"))
    BY <1>0
  <2>. QED  BY <2>1, <2>2 DEF Leaves, Desk!ChargeCard, b
<1>2. ASSUME NEW a
      PROVE  Leaves(a, Desk!ChargeCard(Desk!CalculateTotalPrice(a)))
  <2>. DEFINE b == Desk!CalculateTotalPrice(a)
  <2>1. Leaves(a, b) /\ Leaves(b, Desk!ChargeCard(b))
    BY <1>1
  <2>. HIDE DEF b
  <2>. QED  BY <2>1 DEF Leaves, b
<1>3. Leaves(t, Desk!ConvertCurrencyOfShippingQuote(t))
  <2>. DEFINE u == [t EXCEPT !.quote.cost = t.result, !.coHop = @ + 1]
              w == Desk!AskConvert(t, CHECKOUT_SVC, t.quote.cost)
  <2>1. Desk!ConvertCurrencyOfShippingQuote(t) =
            IF t.quote.flag THEN Desk!ChargeCard(Desk!CalculateTotalPrice(u))
            ELSE [w EXCEPT !.quote.flag = TRUE]
    BY DEF Desk!ConvertCurrencyOfShippingQuote
  <2>2. Leaves(t, u) /\ Leaves(w, [w EXCEPT !.quote.flag = TRUE])
    BY DEF Leaves
  <2>. HIDE DEF u
  <2>3. Leaves(t, w) /\ Leaves(u, Desk!ChargeCard(Desk!CalculateTotalPrice(u)))
    BY <1>0, <1>2
  <2>. HIDE DEF w
  <2>. QED  BY <2>1, <2>2, <2>3 DEF Leaves
<1>4. ASSUME NEW a
      PROVE  Leaves(a, Desk!QuoteShipping(a))
  <2>. DEFINE b == [a EXCEPT !.quote.flag = FALSE]
  <2>1. Leaves(a, b)
    BY DEF Leaves
  <2>. HIDE DEF b
  <2>2. Leaves(b, Desk!Call(b, SHIPPING_SVC, "GetQuote"))
    BY <1>0
  <2>. QED  BY <2>1, <2>2 DEF Leaves, Desk!QuoteShipping, b
<1>5. ASSUME NEW a
      PROVE  Leaves(a, Desk!ConvertCurrencyOfCart(a))
  <2>. DEFINE u == IF a.orderConv = 0 THEN a ELSE [a EXCEPT !.orders[a.orderConv - 1].price = a.result]
              v == [u EXCEPT !.orderConv = @ + 1]
              x == [u EXCEPT !.coHop = @ + 1]
              price == u.orders[u.orderConv].price
  <2>1. Leaves(a, u)
    BY DEF Leaves
  <2>2. Desk!ConvertCurrencyOfCart(a) =
            IF u.orderConv < u.orderCnt THEN Desk!AskConvert(v, CHECKOUT_SVC, price)
            ELSE Desk!QuoteShipping(x)
    BY DEF Desk!ConvertCurrencyOfCart
  <2>. HIDE DEF u, price
  <2>3. Leaves(u, v) /\ Leaves(u, x)
    BY DEF Leaves
  <2>. HIDE DEF v, x
  <2>4. Leaves(v, Desk!AskConvert(v, CHECKOUT_SVC, price)) /\ Leaves(x, Desk!QuoteShipping(x))
    BY <1>0, <1>4
  <2>. QED  BY <2>1, <2>2, <2>3, <2>4 DEF Leaves
<1>6. Leaves(t, Desk!GetOrderItemInfo(t))
  <2>. DEFINE last == t.orderCnt - 1
              u == IF t.orderCnt = 0 THEN t
                   ELSE [t EXCEPT !.orders[last].product = t.product,
                                  !.orders[last].price = Desk!PriceUsd(t.product)]
              a == [t EXCEPT !.total = <<>>]
              b == [u EXCEPT !.orderCnt = @ + 1]
              c == [u EXCEPT !.orderConv = 0]
              d == Desk!ConvertCurrencyOfCart(c)
              id == t.cart.items[t.orderCnt].product
  <2>1. Leaves(t, u) /\ Leaves(t, a)
    BY DEF Leaves
  <2>2. Desk!GetOrderItemInfo(t) =
          IF t.cart.num <= 0 THEN Desk!ReturnResponseToFrontend(a)
          ELSE IF t.orderCnt < t.cart.num THEN Desk!AskProduct(b, CHECKOUT_SVC, id)
          ELSE [d EXCEPT !.coHop = @ + 1]
    BY DEF Desk!GetOrderItemInfo
  <2>. HIDE DEF u, a, id
  <2>3. Leaves(u, b) /\ Leaves(u, c) /\ Leaves(d, [d EXCEPT !.coHop = @ + 1])
    BY DEF Leaves
  <2>. HIDE DEF b, c
  <2>4. Leaves(c, d) /\ Leaves(a, Desk!ReturnResponseToFrontend(a))
        /\ Leaves(b, Desk!AskProduct(b, CHECKOUT_SVC, id))
    BY <1>0, <1>5
  <2>. HIDE DEF d
  <2>. QED  BY <2>1, <2>2, <2>3, <2>4 DEF Leaves
<1>7. Leaves(t, [Desk!GetCart(t) EXCEPT !.orderCnt = 0])
  <2>. DEFINE u == Desk!GetCart(t)
  <2>1. Leaves(t, u)
    BY <1>0 DEF Desk!GetCart
  <2>. HIDE DEF u
  <2>2. Leaves(u, [u EXCEPT !.orderCnt = 0])
    BY DEF Leaves
  <2>. QED  BY <2>1, <2>2 DEF Leaves, u
<1>8. /\ Leaves(t, Desk!ShipOrder(t)) /\ Leaves(t, Desk!EmptyUserCart(t))
      /\ Leaves(t, Desk!SendOrderConfirmation(t)) /\ Leaves(t, Desk!ReturnResponseToFrontend(t))
  BY <1>0 DEF Desk!ShipOrder, Desk!EmptyUserCart, Desk!SendOrderConfirmation
<1>9. /\ Leaves(t, Desk!ConvertCurrencyOfCart(t)) /\ Leaves(t, Desk!QuoteShipping(t))
      /\ Leaves(t, Desk!ChargeCard(Desk!CalculateTotalPrice(t)))
  BY <1>2, <1>4, <1>5
<1>. QED  BY <1>3, <1>6, <1>7, <1>8, <1>9 DEF Desk!PlaceOrder

(* So the transaction has the last cart that the service answered it with; *)
(* while it is there the service knows what it asks for.                   *)
CartHeld ==
    \A o \in Object :
        /\ pc[o] # "idle" => request[o].rpc = txn[o].rpc
        /\ pc[o] = "idle" \/ txn[o].rpc # "GetCart" => reply[o] = txn[o].cart

LEMMA OthersHeld ==
    ASSUME CartHeld, NEW o \in Object,
           \A p \in Object \ {o} : /\ txn'[p] = txn[p] /\ pc'[p] = pc[p]
                                   /\ request'[p] = request[p] /\ reply'[p] = reply[p],
           pc'[o] # "idle" => request'[o].rpc = txn'[o].rpc,
           pc'[o] = "idle" \/ txn'[o].rpc # "GetCart" => reply'[o] = txn'[o].cart
    PROVE  CartHeld'
<1>. SUFFICES ASSUME NEW p \in Object
              PROVE  /\ pc'[p] # "idle" => request'[p].rpc = txn'[p].rpc
                     /\ pc'[p] = "idle" \/ txn'[p].rpc # "GetCart" => reply'[p] = txn'[p].cart
  BY DEF CartHeld
<1>1. CASE p = o
  BY <1>1
<1>2. CASE p # o
  BY <1>2 DEF CartHeld
<1>. QED  BY <1>1, <1>2

(* A function other than the cart service leaves the cart alone. *)
LEMMA HandedHeld ==
    ASSUME Kept, CartHeld, NEW o \in Object, pc[o] = "idle", NEW u, Becomes(o, u),
           u.cart = txn[o].cart, UNCHANGED <<pc, request, reply>>
    PROVE  CartHeld'
<1>1. txn'[o] = u /\ \A p \in Object \ {o} : txn'[p] = txn[p]
  BY BecomesOf
<1>2. reply[o] = txn[o].cart
  BY DEF CartHeld
<1>. QED  BY <1>1, <1>2, OthersHeld

LEMMA HeldInit == Init => CartHeld
<1>. SUFFICES ASSUME Init, NEW o \in Object
              PROVE  pc[o] = "idle" /\ reply[o] = txn[o].cart
  BY DEF CartHeld
<1>1. Shop!NoItems = NewTransaction.cart
  <2>1. Shop!Blank = Blank
    BY DEF Shop!Blank, Blank
  <2>. QED  BY <2>1 DEF Shop!NoItems, NewTransaction
<1>2. txn[o] = NewTransaction /\ reply[o] = Shop!NoItems /\ pc[o] = "idle"
  BY DEF Init, Shop!CartInit
<1>. QED  BY <1>1, <1>2

LEMMA HeldNext == Kept /\ CartHeld /\ [Next]_vars => CartHeld'
<1>. SUFFICES ASSUME Kept, CartHeld, [Next]_vars PROVE CartHeld'
  OBVIOUS
<1>1. CASE UNCHANGED vars
  BY <1>1 DEF vars, CartHeld
<1>2. ASSUME NEW o \in Object, NEW r \in Requests, Begin(o, r)
      PROVE  CartHeld'
  <2>1. pc[o] = "idle" /\ txn[o] \in Txn
    BY <1>2 DEF Kept, Typed, InShop, Begin
  <2>. DEFINE u == [txn[o] EXCEPT !.request = r, !.hop = 0, !.next = FRONTEND]
  <2>2. Becomes(o, u) /\ UNCHANGED <<pc, request, reply>>
    BY <1>2 DEF Begin, shop
  <2>3. u.cart = txn[o].cart
    BY <2>1 DEF Txn
  <2>. QED  BY <2>1, <2>2, <2>3, HandedHeld
<1>3. ASSUME NEW o \in Object, Step(o)
      PROVE  CartHeld'
  <2>. DEFINE t == txn[o]
  <2>0. t \in Txn /\ "cart" \in DOMAIN t /\ (t.next # CART_SVC => pc[o] = "idle")
    BY DEF Kept, Typed, InShop, Txn
  <2>1. CASE Frontend(o) \/ Unserved(o)
    <3>1. /\ t.next = FRONTEND /\ Becomes(o, Front!HttpRequestDispatcher(t))
          /\ UNCHANGED <<pc, request, reply>>
      BY <2>1 DEF Frontend, Unserved, At, shop
    <3>2. Front!HttpRequestDispatcher(t).cart = t.cart
      BY <2>0, FrontLeaves DEF Leaves
    <3>. QED  BY <2>0, <3>1, <3>2, HandedHeld
  <2>2. CASE Checkout(o)
    <3>1. /\ t.next = CHECKOUT_SVC /\ Becomes(o, Desk!PlaceOrder(t)) /\ UNCHANGED <<pc, request, reply>>
      BY <2>2 DEF Checkout, At, shop
    <3>2. Desk!PlaceOrder(t).cart = t.cart
      BY <2>0, DeskLeaves DEF Leaves
    <3>. QED  BY <2>0, <3>1, <3>2, HandedHeld
  <2>3. ASSUME NEW s \in Stateless, Serve(o, s)
        PROVE  CartHeld'
    <3>. DEFINE u == Reply(Does!ServiceOf(s, t))
    <3>1. /\ t.next = s /\ o \in busy /\ s # CART_SVC
          /\ Becomes(o, u) /\ UNCHANGED <<pc, request, reply>>
      BY <2>3 DEF Serve, At, shop, Stateless
    <3>2. Course(t)
      BY <3>1 DEF Kept, OnCourse
    <3>3. Answered(t, u)
      BY <2>0, <3>1, <3>2, ServiceAnswers
    <3>. HIDE DEF u
    <3>. QED  BY <2>0, <3>1, <3>3, HandedHeld DEF Answered
  <2>4. CASE ConvertNothing(o)
    BY <2>4 DEF ConvertNothing, shop, CartHeld
  <2>5. CASE CartCall(o)
    <3>1. /\ txn' = txn /\ pc[o] = "idle" /\ pc' = [pc EXCEPT ![o] = "find"] /\ reply' = reply
          /\ request' = [request EXCEPT ![o] =
                            [rpc |-> t.rpc, item |-> IF t.rpc = "AddItem" THEN t.add ELSE Blank]]
      BY <2>5 DEF CartCall, Shop!Call
    <3>2. request \in [Object -> Proved!Request] /\ pc \in [Object -> {"idle", "find", "insert",
                                                          "link", "fixup", "verify", "done"}]
      BY DEF Kept, Proved!CartInv, Proved!CartTypeOK
    <3>3. request'[o].rpc = t.rpc /\ reply'[o] = t.cart
      BY <3>1, <3>2 DEF CartHeld
    <3>. QED  BY <3>1, <3>2, <3>3, OthersHeld
  <2>6. CASE CartWork(o)
    <3>1. Shop!CartStep(o) /\ txn' = txn
      BY <2>6 DEF CartWork
    <3>2. pc[o] # "idle" /\ pc'[o] # "idle" /\ \A p \in Object \ {o} : pc'[p] = pc[p]
      BY <3>1, ShopWorks DEF Kept
    <3>3. reply \in [Object -> Proved!Cart]
      BY DEF Kept, Proved!CartInv, Proved!CartTypeOK
    <3>4. request' = request
      BY <3>1 DEF Shop!CartStep, Shop!FindNone, Shop!Update, Shop!InsertDescend, Shop!InsertLink,
                  Shop!InsertFixup, Shop!InsertVerify, Shop!GetCart, Shop!EmptyCart
    <3>5. \/ reply' = reply
          \/ /\ request[o].rpc = "GetCart"
             /\ \E c : reply' = [reply EXCEPT ![o] = c]
      BY <3>1 DEF Shop!CartStep, Shop!FindNone, Shop!Update, Shop!InsertDescend, Shop!InsertLink,
                  Shop!InsertFixup, Shop!InsertVerify, Shop!GetCart, Shop!EmptyCart, Shop!Find
    <3>6. \A p \in Object \ {o} : reply'[p] = reply[p]
      BY <3>3, <3>5
    <3>7. request[o].rpc = t.rpc /\ (t.rpc # "GetCart" => reply[o] = t.cart)
      BY <3>2 DEF CartHeld
    <3>8. t.rpc # "GetCart" => reply'[o] = t.cart
      BY <3>5, <3>7
    <3>. QED  BY <3>1, <3>2, <3>4, <3>6, <3>7, <3>8, OthersHeld
  <2>7. CASE CartReturn(o)
    <3>. DEFINE u == Reply([t EXCEPT !.cart = reply[o]])
    <3>1. Shop!HandBack(o) /\ Becomes(o, u) /\ request' = request /\ reply' = reply
      BY <2>7 DEF CartReturn, Shop!HandBack
    <3>2. pc'[o] = "idle" /\ \A p \in Object \ {o} : pc'[p] = pc[p]
      BY <3>1, ShopWorks DEF Kept
    <3>3. u.cart = reply[o]
      BY <2>0 DEF Reply, Txn
    <3>. HIDE DEF u
    <3>4. txn'[o] = u /\ \A p \in Object \ {o} : txn'[p] = txn[p]
      BY <3>1, BecomesOf
    <3>. QED  BY <3>1, <3>2, <3>3, <3>4, OthersHeld
  <2>8. CASE Gateway(o)
    <3>. DEFINE a == [t EXCEPT !.hop = (t.hop + 1) % 256]
                b == [t EXCEPT !.hop = (t.hop + 1) % 256, !.next = Route[((t.hop + 1) % 256) + 1]]
    <3>1. /\ t.next = GATEWAY /\ UNCHANGED <<pc, request, reply>>
          /\ Becomes(o, a) \/ Becomes(o, b)
      BY <2>8 DEF Gateway, At, shop
    <3>2. a.cart = t.cart /\ b.cart = t.cart
      BY <2>0 DEF Txn
    <3>. HIDE DEF a, b
    <3>3. CASE Becomes(o, a)
      BY <2>0, <3>1, <3>2, <3>3, HandedHeld
    <3>4. CASE Becomes(o, b)
      BY <2>0, <3>1, <3>2, <3>4, HandedHeld
    <3>. QED  BY <3>1, <3>3, <3>4
  <2>. QED  BY <1>3, <2>1, <2>2, <2>3, <2>4, <2>5, <2>6, <2>7, <2>8 DEF Step
<1>. QED  BY <1>1, <1>2, <1>3 DEF Next

LEMMA WayInit == Init => WayInv
  BY DEF Init, WayInv

(* A request that was just read is at the beginning of its way. *)
LEMMA BeginOnWay ==
    ASSUME Kept, WayInv, NEW o \in Object, NEW r \in Requests, Begin(o, r)
    PROVE  WayInv'
<1>. DEFINE u == [txn[o] EXCEPT !.request = r, !.hop = 0, !.next = FRONTEND]
<1>1. txn[o] \in Txn /\ visits[o] = <<>> /\ pc[o] = "idle"
  BY DEF Kept, Typed, InShop, WayInv, Begin
<1>2. u.request = r /\ u.hop = 0 /\ u.next = FRONTEND
  BY <1>1 DEF Txn
<1>3. Becomes(o, u) /\ busy' = busy \union {o} /\ visits' = visits /\ pc' = pc
  BY DEF Begin, shop
<1>. HIDE DEF u
<1>4. txn'[o] = u /\ \A p \in Object \ {o} : txn'[p] = txn[p]
  BY <1>3, BecomesOf
<1>5. Stage(u, 0)
  <2>0. r.path \in Paths
    BY RequestsAssumption
  <2>1. NextOn(r.path, 0) = 1
    BY <2>0, Ways DEF Paths
  <2>. QED  BY <1>2, <2>1 DEF Stage, HomeAt, AddToCartAt, ProductAt, ViewCartAt, CheckoutAt
<1>6. Len(visits[o]) = 0 /\ Walked(visits[o], Way(r.path))
  BY <1>1 DEF Walked
<1>7. OnWay(u, visits[o], FALSE)
  BY <1>2, <1>5, <1>6 DEF OnWay
<1>8. (pc'[o] # "idle") = FALSE
  BY <1>1, <1>3
<1>9. IF o \in busy' THEN OnWay(txn'[o], visits'[o], pc'[o] # "idle") ELSE visits'[o] = <<>>
  BY <1>3, <1>4, <1>7, <1>8
<1>. QED  BY <1>3, <1>4, <1>9, OthersOnWay

(* A function that is not the cart service hands a transaction on.         *)
LEMMA HandedOnWay ==
    ASSUME Kept, WayInv, NEW o \in busy, txn[o].next # CART_SVC, NEW u, NEW what,
           Becomes(o, u), Visit(o, what), busy' = busy, pc' = pc,
           OnWay(u, Append(visits[o], what), FALSE)
    PROVE  WayInv'
<1>1. o \in Object
  BY DEF Kept, Typed
<1>2. pc[o] = "idle"
  BY <1>1 DEF Kept, InShop
<1>3. txn'[o] = u /\ \A p \in Object \ {o} : txn'[p] = txn[p]
  BY <1>1, BecomesOf
<1>4. visits'[o] = Append(visits[o], what) /\ \A p \in Object \ {o} : visits'[p] = visits[p]
  BY <1>1, VisitsOf
<1>5. (pc'[o] # "idle") = FALSE
  BY <1>2
<1>. QED  BY <1>1, <1>3, <1>4, <1>5, OthersOnWay

LEMMA FrontendOnWay ==
    ASSUME Kept, WayInv, NEW o \in Object, Frontend(o)
    PROVE  WayInv'
<1>. DEFINE t == txn[o]  u == Front!HttpRequestDispatcher(t)  v == visits[o]  what == "frontend"
<1>1. /\ o \in busy /\ t.next = FRONTEND /\ Becomes(o, u) /\ Visit(o, what)
      /\ busy' = busy /\ pc' = pc /\ t.request.path # "cart"
  BY DEF Frontend, At, shop
<1>0. t.next # GATEWAY /\ t.next # CART_SVC
  BY <1>1
<1>2. pc[o] = "idle"
  BY <1>1 DEF Kept, InShop
<1>3. t \in Txn /\ Course(t) /\ v \in Seq(Visits) /\ OnWay(t, v, FALSE)
  BY <1>1, <1>2, BeforeVisit
<1>. HIDE DEF t, v
<1>4. Browsing(t) /\ Adding(t)
  BY <1>1, <1>3, OneCourse DEF Course, Finished
<1>5. u.request = t.request
  BY <1>1, <1>3, <1>4, FrontStep
<1>6. Stage(t, Len(v)) => Stage(u, Len(v) + 1) \/ (ShowsNothing(u, Len(v) + 1) /\ Len(v) = 10)
  BY <1>1, <1>3, <1>5, StageFront
<1>7. ShowsNothing(t, Len(v)) => ShowsNothing(u, Len(v) + 1)
  BY <1>1, <1>3, NothingFront
<1>8. what \in Visits /\ Visited(what) = t.next
  BY <1>1, Steps, Paid
<1>. HIDE DEF u, what
<1>10. Onward(t, u, Len(v))
  BY <1>6, <1>7 DEF Onward
<1>9. OnWay(u, Append(v, what), FALSE)
  BY <1>0, <1>1, <1>3, <1>5, <1>8, <1>10, OnwardWay
<1>. QED  BY <1>0, <1>1, <1>9, HandedOnWay DEF t, v

LEMMA UnservedOnWay ==
    ASSUME Kept, WayInv, NEW o \in Object, Unserved(o)
    PROVE  WayInv'
<1>1. txn[o] \in Txn /\ Front!HttpRequestDispatcher(txn[o]) = txn[o]
  BY DEF Kept, Typed, Unserved, Front!HttpRequestDispatcher
<1>2. txn' = txn
  BY <1>1 DEF Kept, Typed, Unserved, Becomes
<1>3. busy' = busy /\ visits' = visits /\ pc' = pc
  BY DEF Unserved, shop
<1>. QED  BY <1>2, <1>3 DEF WayInv

LEMMA CheckoutOnWay ==
    ASSUME Kept, WayInv, NEW o \in Object, Checkout(o)
    PROVE  WayInv'
<1>. DEFINE t == txn[o]  u == Desk!PlaceOrder(t)  v == visits[o]  what == "checkout"
<1>1. /\ o \in busy /\ t.next = CHECKOUT_SVC /\ Becomes(o, u) /\ Visit(o, what)
      /\ busy' = busy /\ pc' = pc
  BY DEF Checkout, At, shop
<1>0. t.next # GATEWAY /\ t.next # CART_SVC
  BY <1>1
<1>2. pc[o] = "idle"
  BY <1>1 DEF Kept, InShop
<1>3. t \in Txn /\ Course(t) /\ v \in Seq(Visits) /\ OnWay(t, v, FALSE)
  BY <1>1, <1>2, BeforeVisit
<1>. HIDE DEF t, v
<1>4. Ordering(t) /\ t.request.path = "checkout"
  BY <1>1, <1>3 DEF Course, Finished, Browsing, Ordering, FrontCalls, PageCalls
<1>5. u.request = t.request
  BY <1>1, <1>3, <1>4, DeskStep
<1>6. ASSUME Stage(t, Len(v))
      PROVE  Stage(u, Len(v) + 1) \/ (ShowsNothing(u, Len(v) + 1) /\ Len(v) = 3)
  <2>1. CheckoutAt(t, Len(v)) /\ NextOn("checkout", Len(v)) = CHECKOUT_SVC /\ Len(v) \in Nat
    BY <1>1, <1>4, <1>6 DEF Stage
  <2>2. \/ CheckoutAt(u, Len(v) + 1) /\ u.next = NextOn("checkout", Len(v) + 1)
        \/ Len(v) = 3 /\ u.cart.num = 0 /\ u.next = FRONTEND /\ u.hop = 1
    BY <1>3, <2>1, OrderOn
  <2>. HIDE DEF u
  <2>3. Len(v) = 3 => NextShort("checkout", Len(v) + 1) = 1 /\ Len(v) + 1 = 4
    BY ShortWays
  <2>. QED  BY <1>4, <1>5, <2>1, <2>2, <2>3 DEF Stage, ShowsNothing
<1>7. ~ShowsNothing(t, Len(v))
  BY <1>1, NothingNext
<1>8. what \in Visits /\ Visited(what) = t.next
  BY <1>1, Steps, Paid
<1>. HIDE DEF u, what
<1>10. Onward(t, u, Len(v))
  BY <1>4, <1>6, <1>7 DEF Onward
<1>9. OnWay(u, Append(v, what), FALSE)
  BY <1>0, <1>1, <1>3, <1>5, <1>8, <1>10, OnwardWay
<1>. QED  BY <1>0, <1>1, <1>9, HandedOnWay DEF t, v

LEMMA ServeOnWay ==
    ASSUME Kept, WayInv, NEW o \in Object, NEW s \in Stateless, Serve(o, s)
    PROVE  WayInv'
<1>. DEFINE t == txn[o]  u == Reply(Does!ServiceOf(s, t))  v == visits[o]
<1>1. /\ o \in busy /\ t.next = s /\ Becomes(o, u) /\ Visit(o, t.rpc)
      /\ busy' = busy /\ pc' = pc
  BY DEF Serve, At, shop
<1>2. s \in DOMAIN Serves /\ s \notin {GATEWAY, CART_SVC}
  BY AskedWell DEF Stateless
<1>3. pc[o] = "idle"
  BY <1>1, <1>2 DEF Kept, InShop
<1>4. t \in Txn /\ Course(t) /\ v \in Seq(Visits) /\ OnWay(t, v, FALSE)
  BY <1>1, <1>3, BeforeVisit
<1>. HIDE DEF t, v
<1>5. Answered(t, u)
  BY <1>1, <1>4, ServiceAnswers
<1>. HIDE DEF u
<1>6. u.request = t.request
  BY <1>5 DEF Answered, Passed
<1>7. Onward(t, u, Len(v))
  <2>1. Stage(t, Len(v)) => Stage(u, Len(v) + 1)
    BY <1>1, <1>2, <1>4, <1>5, StageAnswered
  <2>2. ShowsNothing(t, Len(v)) => ShowsNothing(u, Len(v) + 1)
    BY <1>1, <1>2, <1>4, <1>5, NothingAnswered
  <2>. QED  BY <2>1, <2>2 DEF Onward
<1>9. t.rpc \in Visits /\ Visited(t.rpc) = t.next
  BY <1>1, <1>2, <1>4, CalledWell, Steps, Paid
<1>10. OnWay(u, Append(v, t.rpc), FALSE)
  BY <1>1, <1>2, <1>4, <1>6, <1>7, <1>9, OnwardWay
<1>. QED  BY <1>1, <1>2, <1>10, HandedOnWay DEF t, v

LEMMA CartCallOnWay ==
    ASSUME Kept, WayInv, NEW o \in Object, CartCall(o)
    PROVE  WayInv'
<1>. DEFINE t == txn[o]  v == visits[o]  w == Append(v, t.rpc)
            r == [rpc |-> t.rpc, item |-> IF t.rpc = "AddItem" THEN t.add ELSE Blank]
<1>1. /\ o \in busy /\ t.next = CART_SVC /\ Visit(o, t.rpc) /\ Shop!Call(o, r)
      /\ txn' = txn /\ busy' = busy
  BY DEF CartCall, At
<1>2. pc[o] = "idle" /\ pc'[o] # "idle" /\ \A p \in Object \ {o} : pc'[p] = pc[p]
  BY <1>1, ShopWorks DEF Kept
<1>3. t \in Txn /\ Course(t) /\ v \in Seq(Visits) /\ OnWay(t, v, FALSE)
  BY <1>1, <1>2, BeforeVisit
<1>4. visits'[o] = w /\ \A p \in Object \ {o} : visits'[p] = visits[p]
  BY <1>1, VisitsOf
<1>. HIDE DEF t, v
<1>5. t.next \in DOMAIN Serves /\ t.next # GATEWAY
  BY <1>1, AskedWell
<1>6. t.rpc \in Visits /\ Visited(t.rpc) = t.next
  BY <1>3, <1>5, CalledWell, Steps, Paid
<1>7. Len(w) - 1 = Len(v)
  BY <1>3, <1>6, Appended DEF Longer
<1>8. ASSUME Stage(t, Len(v)), Walked(v, Way(t.request.path))
      PROVE  Walked(w, Way(t.request.path))
  <2>1. Visited(t.rpc) = Way(t.request.path)[Len(v) + 1]
    BY <1>5, <1>6, <1>8 DEF Stage, NextOn
  <2>. QED  BY <1>3, <1>6, <1>8, <2>1, WalkedOn
<1>11. ~ShowsNothing(t, Len(v))
  BY <1>1, NothingNext
<1>. HIDE DEF w, r
<1>9. OnWay(t, w, TRUE)
  BY <1>3, <1>7, <1>8, <1>11 DEF OnWay
<1>10. (pc'[o] # "idle") = TRUE
  BY <1>2
<1>. QED  BY <1>1, <1>2, <1>4, <1>9, <1>10, OthersOnWay DEF t

LEMMA CartWorkOnWay ==
    ASSUME Kept, WayInv, NEW o \in Object, CartWork(o)
    PROVE  WayInv'
<1>1. Shop!CartStep(o) /\ txn' = txn /\ busy' = busy /\ visits' = visits
  BY DEF CartWork
<1>2. pc[o] # "idle" /\ pc'[o] # "idle" /\ \A p \in Object \ {o} : pc'[p] = pc[p]
  BY <1>1, ShopWorks DEF Kept
<1>3. (pc'[o] # "idle") = (pc[o] # "idle")
  BY <1>2
<1>4. IF o \in busy' THEN OnWay(txn'[o], visits'[o], pc'[o] # "idle") ELSE visits'[o] = <<>>
  BY <1>1, <1>3 DEF WayInv
<1>. QED  BY <1>1, <1>2, <1>4, OthersOnWay

(* A cart that is answered has one item, or none: a reader sees it as one  *)
(* AddItem created it.                                                     *)
LEMMA CartOfOne ==
    ASSUME Proved!CartInv, NEW o \in Object
    PROVE  reply[o].num \in {0, 1}
<1>1. reply[o] \in Carts
  BY ShopWorks
<1>2. ASSUME reply[o].num > 0
      PROVE  reply[o].num = 1
  <2>1. PICK r \in CartRequests : reply[o] = Proved!NewCart(r.item)
    BY <1>2 DEF Proved!CartInv, Proved!ReadsAreWhole
  <2>2. Proved!NewCart(r.item).num = 1
    BY DEF Proved!NewCart
  <2>. QED  BY <2>1, <2>2
<1>3. reply[o].num \in Nat
  BY <1>1 DEF Carts, Counts
<1>. QED  BY <1>2, <1>3

LEMMA CartReturnOnWay ==
    ASSUME Kept, CartHeld, WayInv, NEW o \in Object, CartReturn(o)
    PROVE  WayInv'
<1>. DEFINE t == txn[o]  x == [t EXCEPT !.cart = reply[o]]  u == Reply(x)  v == visits[o]
            path == t.request.path
<1>0. t.rpc # "GetCart" => reply[o] = t.cart
  BY DEF CartHeld
<1>1. Shop!HandBack(o) /\ Becomes(o, u) /\ busy' = busy /\ visits' = visits
  BY DEF CartReturn
<1>2. pc[o] # "idle" /\ pc'[o] = "idle" /\ \A p \in Object \ {o} : pc'[p] = pc[p]
  BY <1>1, ShopWorks DEF Kept
<1>3. /\ o \in busy /\ t.next = CART_SVC /\ t \in Txn /\ Course(t) /\ v \in Seq(Visits)
      /\ reply[o] \in Carts /\ reply[o].num \in {0, 1}
  BY <1>2, ShopWorks, CartOfOne DEF Kept, Typed, OnCourse, InShop
<1>4. OnWay(t, v, TRUE)
  <2>1. (pc[o] # "idle") = TRUE
    BY <1>2
  <2>. QED  BY <1>3, <2>1 DEF WayInv
<1>5. txn'[o] = u /\ \A p \in Object \ {o} : txn'[p] = txn[p]
  BY <1>1, BecomesOf
<1>. HIDE DEF t
<1>6. Answered(t, u)
  <2>1. x \in Txn
    BY <1>3 DEF Txn
  <2>2. /\ u.request = t.request /\ u.hop = t.hop /\ u.coHop = t.coHop /\ u.next = t.caller
        /\ u.viewed = t.viewed /\ u.view = t.view
        /\ u.items = t.items /\ u.itemCnt = t.itemCnt /\ u.convCnt = t.convCnt
        /\ u.orders = t.orders /\ u.orderCnt = t.orderCnt /\ u.orderConv = t.orderConv
        /\ u.charge = t.charge /\ u.quote = t.quote /\ u.product = t.product /\ u.cart = reply[o]
    BY <1>3 DEF Reply, Txn
  <2>. HIDE DEF u
  <2>. QED  BY <1>0, <1>3, <2>2 DEF Answered, Passed
<1>. HIDE DEF u, v
<1>7. t.next \in DOMAIN Serves
  BY <1>3, AskedWell
<1>9. Stage(t, Len(v) - 1) => Stage(u, Len(v))
  <2>1. Stage(t, Len(v) - 1) => Stage(u, Len(v) - 1 + 1)
    BY <1>3, <1>6, <1>7, StageAnswered
  <2>2. Len(v) - 1 + 1 = Len(v)
    BY <1>3
  <2>. QED  BY <2>1, <2>2
<1>10. OnWay(u, v, FALSE)
  BY <1>4, <1>6, <1>9 DEF OnWay, Answered, Passed
<1>11. (pc'[o] # "idle") = FALSE
  BY <1>2
<1>12. IF o \in busy' THEN OnWay(txn'[o], visits'[o], pc'[o] # "idle") ELSE visits'[o] = <<>>
  BY <1>1, <1>3, <1>5, <1>10, <1>11 DEF v
<1>. QED  BY <1>1, <1>2, <1>5, <1>12, OthersOnWay

LEMMA GatewayOnWay ==
    ASSUME Kept, WayInv, NEW o \in Object, Gateway(o)
    PROVE  WayInv'
<1>. DEFINE t == txn[o]  hop == (t.hop + 1) % 256  u == [t EXCEPT !.hop = hop]
<1>1. o \in busy /\ t.next = GATEWAY /\ t \in Txn /\ Course(t)
  BY DEF Kept, Typed, OnCourse, Gateway, At
<1>2. Finished(t)
  BY <1>1 DEF Course, Browsing, Ordering, FrontCalls, PageCalls, DeskCalls
<1>3. hop = t.hop + 1 /\ t.hop \in 100 .. 106
  BY <1>2 DEF Finished
<1>4. Len(Route) = 11
  BY DEF Route
<1>5. /\ Becomes(o, u) /\ busy' = busy \ {o} /\ visits' = [visits EXCEPT ![o] = <<>>]
      /\ pc' = pc
  BY <1>3, <1>4 DEF Gateway, shop
<1>6. \A p \in Object \ {o} : txn'[p] = txn[p] /\ visits'[p] = visits[p]
  BY <1>5, BecomesOf DEF Kept, Typed
<1>7. visits'[o] = <<>> /\ o \notin busy'
  BY <1>5 DEF Kept, Typed
<1>. QED  BY <1>5, <1>6, <1>7, OthersOnWay

LEMMA WayNext == Kept /\ CartHeld /\ WayInv /\ [Next]_vars => WayInv'
<1>. SUFFICES ASSUME Kept, CartHeld, WayInv, [Next]_vars PROVE WayInv'
  OBVIOUS
<1>1. CASE UNCHANGED vars
  BY <1>1 DEF vars, WayInv
<1>2. ASSUME NEW o \in Object, NEW r \in Requests, Begin(o, r)
      PROVE  WayInv'
  BY <1>2, BeginOnWay
<1>3. ASSUME NEW o \in Object, Step(o)
      PROVE  WayInv'
  <2>1. CASE Frontend(o)
    BY <2>1, FrontendOnWay
  <2>2. CASE Unserved(o)
    BY <2>2, UnservedOnWay
  <2>3. CASE Checkout(o)
    BY <2>3, CheckoutOnWay
  <2>4. ASSUME NEW s \in Stateless, Serve(o, s)
        PROVE  WayInv'
    BY <2>4, ServeOnWay
  <2>5. CASE ConvertNothing(o)
    BY <2>5 DEF ConvertNothing, shop, WayInv
  <2>6. CASE CartCall(o)
    BY <2>6, CartCallOnWay
  <2>7. CASE CartWork(o)
    BY <2>7, CartWorkOnWay
  <2>8. CASE CartReturn(o)
    BY <2>8, CartReturnOnWay
  <2>9. CASE Gateway(o)
    BY <2>9, GatewayOnWay
  <2>. QED  BY <1>3, <2>1, <2>2, <2>3, <2>4, <2>5, <2>6, <2>7, <2>8, <2>9 DEF Step
<1>. QED  BY <1>1, <1>2, <1>3 DEF Next

(* Every request is on the way of its page, with what it was answered so   *)
(* far at its place.                                                       *)
THEOREM KeptToItsWay == Spec => []WayInv
<1>1. Kept /\ CartHeld /\ WayInv /\ [Next]_vars => WayInv'
  BY WayNext
<1>2. Kept /\ CartHeld /\ [Next]_vars => CartHeld'
  BY HeldNext
<1>. QED  BY <1>1, <1>2, HeldInit, WayInit, Invariance, PTL DEF Spec

(* What the way of a page ends with. *)
LEMMA Arrived ==
    ASSUME NEW t \in Txn, NEW v \in Seq(Visits), Stage(t, Len(v)), t.next = GATEWAY
    PROVE  Len(v) = Len(Way(t.request.path))
<1>. DEFINE path == t.request.path  k == Len(v)
<1>1. k \in Nat /\ NextOn(path, k) = 0
  BY DEF Stage
<1>0. path \in Paths
  BY DEF Txn, Asked
<1>2. /\ path = "setCurrency" => k \in 0 .. 1
      /\ path = "none" => k \in 0 .. 1
      /\ path = "cart" => k = 0
      /\ path = "home" => k \in 0 .. 9
      /\ path = "addToCart" => k \in 0 .. 5
      /\ path = "product" => k \in 0 .. 13
      /\ path = "viewCart" => k \in 0 .. 15
      /\ path = "checkout" => k \in 0 .. 25
  BY DEF Stage, HomeAt, AddToCartAt, ProductAt, ViewCartAt, CheckoutAt
<1>. HIDE DEF path, k
<1>3. /\ path = "setCurrency" => k = 1
      /\ path = "none" => k = 1
      /\ path # "cart"
      /\ path = "home" => k = 9
      /\ path = "addToCart" => k = 5
      /\ path = "product" => k = 13
      /\ path = "viewCart" => k = 15
      /\ path = "checkout" => k = 25
  <2>1. path = "setCurrency" => k = 1
    <3>1. \A j \in 0 .. 1 : NextOn("setCurrency", j) = 0 => j = 1
      BY DEF NextOn, Way, ConfiguredRoute
    <3>. QED  BY <1>1, <1>2, <3>1
  <2>2. path = "addToCart" => k = 5
    <3>1. \A j \in 0 .. 5 : NextOn("addToCart", j) = 0 => j = 5
      BY DEF NextOn, Way, ConfiguredRoute
    <3>. QED  BY <1>1, <1>2, <3>1
  <2>3. path = "product" => k = 13
    <3>1. \A j \in 0 .. 13 : NextOn("product", j) = 0 => j = 13
      BY DEF NextOn, Way, ConfiguredRoute
    <3>. QED  BY <1>1, <1>2, <3>1
  <2>4. path = "viewCart" => k = 15
    <3>1. \A j \in 0 .. 15 : NextOn("viewCart", j) = 0 => j = 15
      BY DEF NextOn, Way, ConfiguredRoute
    <3>. QED  BY <1>1, <1>2, <3>1
  <2>5. path = "checkout" => k = 25
    <3>. DEFINE n == NextOn("checkout", k)
    <3>1. k \in 0 .. 25 =>
            n = CASE k \in {0, 20, 22, 24} -> 1 [] k \in {1, 3, 5, 7, 9, 11, 13, 15, 17, 19} -> 7
                  [] k \in {2, 16} -> 4 [] k = 4 -> 3 [] k \in {6, 10, 23} -> 2
                  [] k \in {8, 14} -> 6 [] k = 12 -> 8 [] k = 18 -> 9 [] k = 21 -> 5 [] k = 25 -> 0
      BY Ways, Zenon
    <3>2. path = "checkout" => n = 0 /\ k \in 0 .. 25
      BY <1>1, <1>2
    <3>. HIDE DEF n
    <3>. QED  BY <3>1, <3>2
  <2>6. path # "cart" /\ (path = "none" => k = 1)
    BY <1>1, <1>2, Ways
  <2>7. path = "home" => k = 9
    <3>1. \A j \in 0 .. 9 : NextOn("home", j) = 0 => j = 9
      BY DEF NextOn, Way, ConfiguredRoute
    <3>. QED  BY <1>1, <1>2, <3>1
  <2>. QED  BY <2>1, <2>2, <2>3, <2>4, <2>5, <2>6, <2>7
<1>4. /\ Len(Way("none")) = 1 /\ Len(Way("home")) = 9
      /\ Len(Way("setCurrency")) = 1 /\ Len(Way("addToCart")) = 5 /\ Len(Way("product")) = 13
      /\ Len(Way("viewCart")) = 15 /\ Len(Way("checkout")) = 25
  BY DEF Way, ConfiguredRoute
<1>5. k = Len(Way(path))
  BY <1>0, <1>3, <1>4 DEF Paths
<1>. QED  BY <1>5 DEF path, k

(* What was walked to the end of a way is the way.                         *)
LEMMA WalkedToItsEnd ==
    ASSUME NEW way \in Seq(Fns), NEW v \in Seq(Visits), Walked(v, way), Len(v) = Len(way)
    PROVE  [i \in DOMAIN v |-> Visited(v[i])] = way
<1>. DEFINE n == Len(way)
<1>1. DOMAIN v = 1 .. n /\ way = [i \in 1 .. n |-> way[i]]
  OBVIOUS
<1>2. \A i \in 1 .. n : Visited(v[i]) = way[i]
  BY DEF Walked
<1>3. [i \in DOMAIN v |-> Visited(v[i])] = [i \in 1 .. n |-> way[i]]
  BY <1>1, <1>2
<1>. QED  BY <1>1, <1>3

LEMMA WaysLead ==
    /\ \A path \in Paths : Way(path) \in Seq(Fns)
    /\ ShortWay("viewCart") \in Seq(Fns) /\ ShortWay("checkout") \in Seq(Fns)
    /\ \A path \in Paths \ {"viewCart", "checkout"} : ShortWay(path) = Way(path)
<1>1. \A h \in 1 .. 10 : h \in Fns
  BY DEF Fns
<1>2. \A path \in Paths : Way(path) \in Seq(Fns)
  BY <1>1 DEF Way, ConfiguredRoute, Paths
<1>3. ShortWay("viewCart") \in Seq(Fns) /\ ShortWay("checkout") \in Seq(Fns)
  BY <1>1 DEF ShortWay
<1>4. \A path \in Paths \ {"viewCart", "checkout"} : ShortWay(path) = Way(path)
  BY DEF ShortWay
<1>. QED  BY <1>2, <1>3, <1>4

LEMMA AtGateway ==
    ASSUME Kept, WayInv, NEW o \in busy, txn[o].next = GATEWAY
    PROVE  /\ o \in Object /\ txn[o] \in Txn /\ Course(txn[o]) /\ visits[o] \in Seq(Visits)
           /\ OnWay(txn[o], visits[o], FALSE)
<1>1. o \in Object
  BY DEF Kept, Typed
<1>2. txn[o].next # CART_SVC
  OBVIOUS
<1>3. pc[o] = "idle"
  BY <1>1, <1>2 DEF Kept, InShop
<1>. QED  BY <1>3, BeforeVisit

(* A request that comes back to the gateway was handed to the functions on *)
(* the way of its page, whatever the requests, and however they are mixed: *)
(* the two hop counters count along it.                                    *)
THEOREM WaysFollowed == Spec => []RouteFollowed
<1>1. Kept /\ WayInv => RouteFollowed
  <2>. SUFFICES ASSUME Kept, WayInv, NEW o \in busy, txn[o].next = GATEWAY
                PROVE  [i \in DOMAIN visits[o] |-> Visited(visits[o][i])]
                            = IF txn[o].cart.num = 0 THEN ShortWay(txn[o].request.path)
                                                     ELSE Way(txn[o].request.path)
    BY DEF RouteFollowed, At
  <2>. DEFINE t == txn[o]  v == visits[o]  path == t.request.path  k == Len(v)
              went == [i \in DOMAIN v |-> Visited(v[i])]
  <2>1. t \in Txn /\ v \in Seq(Visits) /\ OnWay(t, v, FALSE) /\ t.next = GATEWAY
    BY AtGateway
  <2>2. path \in Paths
    BY <2>1 DEF Txn, Asked
  <2>. HIDE DEF t, v
  <2>3. CASE ShowsNothing(t, k) /\ Walked(v, ShortWay(path))
    <3>1. t.cart.num = 0 /\ path \in {"viewCart", "checkout"}
      BY <2>3 DEF ShowsNothing
    <3>2. k = Len(ShortWay(path))
      <4>1. \/ path = "viewCart" /\ k = 11
            \/ /\ path = "checkout" /\ k \in 4 .. 9
               /\ 0 = CASE k \in {4, 6, 8} -> 1 [] k = 5 -> 5 [] k = 7 -> 2 [] k = 9 -> 0
        BY <2>1, <2>3, NothingNext
      <4>2. k \in 4 .. 9 => \/ k = 9
                            \/ 0 # CASE k \in {4, 6, 8} -> 1 [] k = 5 -> 5 [] k = 7 -> 2 [] k = 9 -> 0
        BY SMTT(30)
      <4>3. \/ path = "viewCart" /\ k = 11
            \/ path = "checkout" /\ k = 9
        BY <4>1, <4>2, Zenon
      <4>4. Len(ShortWay("viewCart")) = 11 /\ Len(ShortWay("checkout")) = 9
        BY ShortWays
      <4>. HIDE DEF k, path
      <4>. QED  BY <4>3, <4>4, Zenon
    <3>3. ShortWay(path) \in Seq(Fns)
      BY <3>1, WaysLead
    <3>4. went = ShortWay(path)
      BY <2>1, <2>3, <3>2, <3>3, WalkedToItsEnd
    <3>. QED  BY <3>1, <3>4 DEF t, v
  <2>4. CASE Stage(t, k) /\ Walked(v, Way(path))
    <3>1. k = Len(Way(path))
      BY <2>1, <2>4, Arrived
    <3>2. Way(path) \in Seq(Fns)
      BY <2>2, WaysLead
    <3>3. went = Way(path)
      BY <2>1, <2>4, <3>1, <3>2, WalkedToItsEnd
    <3>4. path = "viewCart" => k = 15
      BY <3>1 DEF Way, ConfiguredRoute
    <3>5. path = "checkout" => k = 25
      BY <3>1 DEF Way, ConfiguredRoute
    <3>6. path \in {"viewCart", "checkout"} => t.cart.num # 0
      BY <2>4, <3>4, <3>5 DEF Stage, ViewCartAt, CheckoutAt
    <3>7. path \notin {"viewCart", "checkout"} => ShortWay(path) = Way(path)
      BY <2>2, WaysLead
    <3>. QED  BY <3>3, <3>6, <3>7 DEF t, v
  <2>. QED  BY <2>1, <2>3, <2>4 DEF OnWay
<1>. QED  BY <1>1, Invariance, KeptToItsWay, PTL

(* What a page shows are the prices of what was asked for, converted and   *)
(* multiplied, for every catalogue and whatever the object's last          *)
(* transaction has left in the fields that the prices go through.          *)
THEOREM PricesShown == Spec => []ShownPrices
<1>1. Kept /\ WayInv => ShownPrices
  <2>. SUFFICES ASSUME Kept, WayInv, NEW o \in busy, txn[o].next = GATEWAY
                PROVE  LET t == txn[o] IN
                       /\ (t.request.path = "product" /\ t.request.item.product \in Catalogue) =>
                            t.view = [product |-> t.request.item.product, quantity |-> 0,
                                      price |-> PriceCad(t.request.item.product)]
                       /\ t.request.path = "viewCart" =>
                            \A i \in 0 .. t.cart.num - 1 :
                                LET item == t.cart.items[i] IN
                                item.product \in Catalogue =>
                                    t.items[i] = [product |-> item.product, quantity |-> item.quantity,
                                                  price |-> MultiplySlow(PriceCad(item.product), item.quantity)]
    BY DEF ShownPrices, At
  <2>. DEFINE t == txn[o]  v == visits[o]
  <2>1. t \in Txn /\ v \in Seq(Visits) /\ OnWay(t, v, FALSE) /\ t.next = GATEWAY
    BY AtGateway
  <2>. HIDE DEF t, v
  <2>2. Len(Way("product")) = 13 /\ Len(Way("viewCart")) = 15
    BY DEF Way, ConfiguredRoute
  <2>3. (t.request.path = "product" /\ t.request.item.product \in Catalogue) =>
            t.view = [product |-> t.request.item.product, quantity |-> 0,
                      price |-> PriceCad(t.request.item.product)]
    <3>. SUFFICES ASSUME t.request.path = "product", t.request.item.product \in Catalogue
                  PROVE  t.view = [product |-> t.request.item.product, quantity |-> 0,
                                   price |-> PriceCad(t.request.item.product)]
      OBVIOUS
    <3>1. Stage(t, Len(v))
      BY <2>1 DEF OnWay, ShowsNothing
    <3>2. Len(v) = 13
      BY <2>1, <2>2, <3>1, Arrived
    <3>3. ProductAt(t, 13)
      BY <3>1, <3>2 DEF Stage
    <3>. QED  BY <3>3 DEF ProductAt, Known
  <2>4. ASSUME t.request.path = "viewCart", NEW i \in 0 .. t.cart.num - 1,
               t.cart.items[i].product \in Catalogue
        PROVE  t.items[i] = [product |-> t.cart.items[i].product, quantity |-> t.cart.items[i].quantity,
                             price |-> MultiplySlow(PriceCad(t.cart.items[i].product),
                                                    t.cart.items[i].quantity)]
    <3>1. t.cart.num # 0
      OBVIOUS
    <3>2. Stage(t, Len(v))
      BY <2>1, <2>4, <3>1 DEF OnWay, ShowsNothing
    <3>3. Len(v) = 15
      BY <2>1, <2>2, <2>4, <3>2, Arrived
    <3>4. ViewCartAt(t, 15)
      BY <2>4, <3>2, <3>3 DEF Stage
    <3>5. t.cart.num = 1
      BY <3>4 DEF ViewCartAt
    <3>6. i = 0
      BY <3>5
    <3>. QED  BY <2>4, <3>4, <3>6 DEF ViewCartAt, Known
  <2>. QED  BY <2>3, <2>4 DEF t
<1>. QED  BY <1>1, Invariance, KeptToItsWay, PTL

(* What is charged ends with the items of this order, each once and        *)
(* converted, and the converted quote.                                     *)
THEOREM ChargesWhole == Spec => []ChargedOrder
<1>1. Kept /\ WayInv => ChargedOrder
  <2>. SUFFICES ASSUME Kept, WayInv, NEW o \in busy, txn[o].next = PAYMENT_SVC
                PROVE  LET t == txn[o]
                           n == t.cart.num
                           old == Len(t.charge) - n - 1
                       IN  /\ old >= 0
                           /\ t.charge[old + n + 1] = Money("shipping", "CAD", 0)
                           /\ \A i \in 1 .. n :
                                LET p == t.cart.items[i - 1].product
                                IN  p \in Catalogue => t.charge[old + i] = PriceCad(p)
    BY DEF ChargedOrder, At
  <2>. DEFINE t == txn[o]  v == visits[o]  k == Len(v)
  <2>1. pc[o] = "idle" /\ t.next = PAYMENT_SVC
    BY DEF Kept, Typed, InShop
  <2>2. t \in Txn /\ Course(t) /\ v \in Seq(Visits) /\ OnWay(t, v, FALSE)
    BY <2>1, BeforeVisit
  <2>. HIDE DEF t, v
  <2>3. t.request.path = "checkout"
    BY <2>1, <2>2 DEF Course, Finished, Browsing, Ordering, FrontCalls, PageCalls
  <2>4. Stage(t, k)
    BY <2>1, <2>2, <2>3, NothingNext DEF OnWay
  <2>. HIDE DEF k
  <2>5. CheckoutAt(t, k) /\ k \in 0 .. 25 /\ NextOn("checkout", k) = 8
    BY <2>1, <2>3, <2>4 DEF Stage, CheckoutAt
  <2>6. k = 12
    BY <2>5, Ways
  <2>7. /\ t.cart.num = 1 /\ Len(t.charge) >= 2 /\ t.charge[Len(t.charge)] = Quote("CAD")
        /\ Known(t.cart.items[0].product,
                 t.charge[Len(t.charge) - 1] = PriceCad(t.cart.items[0].product))
    BY <2>5, <2>6 DEF CheckoutAt
  <2>8. Len(t.charge) \in Nat
    BY <2>2 DEF Txn, Sums
  <2>9. Len(t.charge) - t.cart.num - 1 + t.cart.num + 1 = Len(t.charge)
    BY <2>7, <2>8
  <2>10. ASSUME NEW i \in 1 .. t.cart.num
         PROVE  i = 1 /\ i - 1 = 0 /\ Len(t.charge) - t.cart.num - 1 + i = Len(t.charge) - 1
    BY <2>7, <2>8
  <2>. QED  BY <2>7, <2>8, <2>9, <2>10 DEF t, Quote, Known
<1>. QED  BY <1>1, Invariance, KeptToItsWay, PTL

=============================================================================
