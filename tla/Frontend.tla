------------------------------ MODULE Frontend ------------------------------
(***************************************************************************)
(* The frontend of the Online Boutique, frontendservice.c and shm_rpc.c.   *)
(* It keeps nothing between two arrivals of a transaction: hop_count is    *)
(* the program counter of a request.  Each operator below takes the        *)
(* transaction that arrived to the one that is handed on.  The default     *)
(* currency is CAD and never set, so the branches for USD are left out.    *)
(***************************************************************************)
EXTENDS Rpc

Call(t, service, rpc) ==
    [Ask(t, FRONTEND, service, rpc) EXCEPT !.hop = @ + 1]

\* Mutant of ReturnResponse: hop_count is left where it is.
HopUnmoved(t) == [t EXCEPT !.next = GATEWAY]

ReturnResponse(t) ==
    [t EXCEPT !.hop = (@ + 100) % 256, !.next = GATEWAY]

GetCurrencies(t) == Call(t, CURRENCY_SVC, "GetSupportedCurrencies")
GetProducts(t) == Call(t, PRODUCTCATA_SVC, "ListProducts")

\* Mutant of GetCart: rpc_handler keeps what it was.
CartUnnamed(t) == Call(t, CART_SVC, t.rpc)

GetCart(t) == Call(t, CART_SVC, "GetCart")
ChooseAd(t) == Call(t, AD_SVC, "GetAds")
GetRecommendations(t) == Call(t, RECOMMEND_SVC, "ListRecommendations")

(* The identifier is in the query. *)
GetProduct(t) ==
    [AskProduct(t, FRONTEND, t.request.item.product) EXCEPT !.hop = @ + 1]

InsertCart(t) ==
    Call([t EXCEPT !.add = [product |-> t.id, quantity |-> t.request.item.quantity]],
         CART_SVC, "AddItem")

GetShippingQuote(t) ==
    Call([t EXCEPT !.quote.flag = FALSE], SHIPPING_SVC, "GetQuote")

(***************************************************************************)
(* homeHandler calls itself as soon as convertCurrencyOfProducts has made  *)
(* the request for one product, until the list is done and an ad is chosen:*)
(* every view gets the result that is in the transaction.                  *)
(***************************************************************************)
ConvertCurrencyOfProducts(t) ==
    [AskConvert(t, FRONTEND, PriceUsd(Listed)) EXCEPT
        !.view = [product |-> Listed, quantity |-> 0, price |-> t.result],
        !.viewed = 1, !.hop = @ + 1]

ConvertCurrencyOfProduct(t) ==
    IF t.viewed # 0
    THEN GetRecommendations([t EXCEPT
            !.view = [product |-> t.product, quantity |-> 0, price |-> t.result]])
    ELSE AskConvert([t EXCEPT !.viewed = 1], FRONTEND, PriceUsd(t.product))

(* Of shm_rpc.c: the multiplied prices stay in the views. *)
CalculateTotalPrice(t) ==
    LET items == Multiplied(t.items, t.itemCnt)
    IN  ReturnResponse([t EXCEPT
            !.items = items,
            !.total = SumOf(@, items, t.itemCnt, t.quote.cost)])

\* Mutant of ConvertCurrencyOfCart: the result goes to the next item.
ResultOneOff(t) ==
    LET u == IF t.convCnt = 0 THEN t
             ELSE [t EXCEPT !.items[t.convCnt].price = t.result]
    IN  IF u.convCnt < u.itemCnt
        THEN AskConvert([u EXCEPT !.convCnt = @ + 1], FRONTEND,
                        u.items[u.convCnt].price)
        ELSE CalculateTotalPrice(u)

(* The answer to the last request is stored before the next is made. *)
ConvertCurrencyOfCart(t) ==
    LET u == IF t.convCnt = 0 THEN t
             ELSE [t EXCEPT !.items[t.convCnt - 1].price = t.result]
    IN  IF u.convCnt < u.itemCnt
        THEN AskConvert([u EXCEPT !.convCnt = @ + 1], FRONTEND,
                        u.items[u.convCnt].price)
        ELSE CalculateTotalPrice(u)

GetCartItemInfo(t) ==
    LET last == t.itemCnt - 1
        u == IF t.itemCnt = 0 THEN t
             ELSE [t EXCEPT !.items[last] =
                      [product  |-> t.product,
                       quantity |-> t.cart.items[last].quantity,
                       price    |-> PriceUsd(t.product)]]
    IN  IF t.cart.num <= 0 THEN ReturnResponse([t EXCEPT !.total = <<>>])
        ELSE IF t.itemCnt < t.cart.num
        THEN AskProduct([u EXCEPT !.itemCnt = @ + 1], FRONTEND,
                        t.cart.items[t.itemCnt].product)
        ELSE [ConvertCurrencyOfCart([u EXCEPT !.convCnt = 0]) EXCEPT !.hop = @ + 1]

(* The fourth step of viewCartHandler comes twice: it asks for the quote   *)
(* to be converted, and takes the result.                                  *)
ConvertCurrencyOfShippingQuote(t) ==
    IF t.quote.flag
    THEN [GetCartItemInfo([t EXCEPT !.quote.cost = t.result]) EXCEPT !.hop = @ + 1]
    ELSE [AskConvert(t, FRONTEND, t.quote.cost) EXCEPT !.quote.flag = TRUE]

PlaceOrder(t) ==
    [Call(t, CHECKOUT_SVC, "PlaceOrder") EXCEPT !.coHop = 0]

-----------------------------------------------------------------------------
SetCurrencyHandler(t) == ReturnResponse(t)

HomeHandler(t) ==
    CASE t.hop = 0 -> GetCurrencies(t)
      [] t.hop = 1 -> [GetProducts(t) EXCEPT !.viewed = 0]
      [] t.hop = 2 -> GetCart(t)
      [] t.hop = 3 -> ChooseAd(ConvertCurrencyOfProducts(t))
      [] t.hop = 4 -> ChooseAd(t)
      [] OTHER     -> ReturnResponse(t)

ProductHandler(t) ==
    CASE t.hop = 0 -> [GetProduct(t) EXCEPT !.viewed = 0]
      [] t.hop = 1 -> GetCurrencies(t)
      [] t.hop = 2 -> GetCart(t)
      [] t.hop = 3 -> ConvertCurrencyOfProduct(t)
      [] t.hop = 4 -> ChooseAd(t)
      [] OTHER     -> ReturnResponse(t)

AddToCartHandler(t) ==
    CASE t.hop = 0 -> [GetProduct(t) EXCEPT !.viewed = 0]
      [] t.hop = 1 -> InsertCart(t)
      [] OTHER     -> ReturnResponse(t)

ViewCartHandler(t) ==
    CASE t.hop = 0 -> GetCurrencies(t)
      [] t.hop = 1 -> [GetCart(t) EXCEPT !.itemCnt = 0]
      [] t.hop = 2 -> GetRecommendations(t)
      [] t.hop = 3 -> GetShippingQuote(t)
      [] t.hop = 4 -> ConvertCurrencyOfShippingQuote(t)
      [] t.hop = 5 -> GetCartItemInfo(t)
      [] t.hop = 6 -> ConvertCurrencyOfCart(t)
      [] OTHER     -> ReturnResponse(t)

PlaceOrderHandler(t) ==
    CASE t.hop = 0 -> PlaceOrder(t)
      [] t.hop = 1 -> GetRecommendations(t)
      [] t.hop = 2 -> GetCurrencies(t)
      [] OTHER     -> ReturnResponse(t)

(* A request for the cart that neither gets nor posts is left as it is. *)
HttpRequestDispatcher(t) ==
    CASE t.request.path = "checkout"    -> PlaceOrderHandler(t)
      [] t.request.path = "viewCart"    -> ViewCartHandler(t)
      [] t.request.path = "addToCart"   -> AddToCartHandler(t)
      [] t.request.path = "cart"        -> t
      [] t.request.path = "product"     -> ProductHandler(t)
      [] t.request.path = "setCurrency" -> SetCurrencyHandler(t)
      [] t.request.path = "home"        -> HomeHandler(t)
      [] OTHER                          -> ReturnResponse(t)
=============================================================================
