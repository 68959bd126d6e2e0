------------------------------ MODULE Checkout ------------------------------
(***************************************************************************)
(* The checkout service, checkoutservice.c: an order, sequenced by         *)
(* checkoutsvc_hop_cnt as a request is by hop_count in the frontend.  The  *)
(* program goes on from one step to the next by calling                    *)
(* prepareOrderItemsAndShippingQuoteFromCart again where the step has      *)
(* nothing to ask; here it calls the step that comes next.                 *)
(***************************************************************************)
EXTENDS Rpc

\* Mutant of Call: it moves the counter of the frontend.
OtherCounter(t, service, rpc) ==
    [Ask(t, CHECKOUT_SVC, service, rpc) EXCEPT !.hop = @ + 1]

Call(t, service, rpc) ==
    [Ask(t, CHECKOUT_SVC, service, rpc) EXCEPT !.coHop = @ + 1]

(* Both returnResponseToFrontend and ...WithOrderResult. *)
ReturnResponseToFrontend(t) ==
    [t EXCEPT !.next = FRONTEND, !.caller = CHECKOUT_SVC]

GetCart(t) == Call(t, CART_SVC, "GetCart")
EmptyUserCart(t) == Call(t, CART_SVC, "EmptyCart")

\* Mutant of ShipOrder: checkoutsvc_hop_cnt moves by two.
TwoSteps(t) == [Call(t, SHIPPING_SVC, "ShipOrder") EXCEPT !.coHop = @ + 1]

ShipOrder(t) == Call(t, SHIPPING_SVC, "ShipOrder")
SendOrderConfirmation(t) == Call(t, EMAIL_SVC, "SendOrderConfirmation")

ChargeCard(t) ==
    Call([t EXCEPT !.charge = t.total], PAYMENT_SVC, "Charge")

\* Mutant of CalculateTotalPrice: the quote is not added.
QuoteForgotten(t) ==
    [t EXCEPT !.total = @ \o [i \in 1 .. t.orderCnt |-> t.orders[i - 1].price]]

(* The quantity of an order item is never set, and so 0. *)
CalculateTotalPrice(t) ==
    LET orders == Multiplied(t.orders, t.orderCnt)
    IN  [t EXCEPT !.orders = orders,
                  !.total = SumOf(@, orders, t.orderCnt, t.quote.cost)]

ConvertCurrencyOfShippingQuote(t) ==
    IF t.quote.flag
    THEN ChargeCard(CalculateTotalPrice(
            [t EXCEPT !.quote.cost = t.result, !.coHop = @ + 1]))
    ELSE [AskConvert(t, CHECKOUT_SVC, t.quote.cost) EXCEPT !.quote.flag = TRUE]

QuoteShipping(t) ==
    Call([t EXCEPT !.quote.flag = FALSE], SHIPPING_SVC, "GetQuote")

ConvertCurrencyOfCart(t) ==
    LET u == IF t.orderConv = 0 THEN t
             ELSE [t EXCEPT !.orders[t.orderConv - 1].price = t.result]
    IN  IF u.orderConv < u.orderCnt
        THEN AskConvert([u EXCEPT !.orderConv = @ + 1], CHECKOUT_SVC,
                        u.orders[u.orderConv].price)
        ELSE QuoteShipping([u EXCEPT !.coHop = @ + 1])

(* When the last item is known there is at least one to be converted.      *)
GetOrderItemInfo(t) ==
    LET last == t.orderCnt - 1
        u == IF t.orderCnt = 0 THEN t
             ELSE [t EXCEPT !.orders[last].product = t.product,
                            !.orders[last].price = PriceUsd(t.product)]
    IN  IF t.cart.num <= 0 THEN ReturnResponseToFrontend([t EXCEPT !.total = <<>>])
        ELSE IF t.orderCnt < t.cart.num
        THEN AskProduct([u EXCEPT !.orderCnt = @ + 1], CHECKOUT_SVC,
                        t.cart.items[t.orderCnt].product)
        ELSE [ConvertCurrencyOfCart([u EXCEPT !.orderConv = 0]) EXCEPT !.coHop = @ + 1]

(* prepareOrderItemsAndShippingQuoteFromCart. *)
PlaceOrder(t) ==
    CASE t.coHop = 0 -> [GetCart(t) EXCEPT !.orderCnt = 0]
      [] t.coHop = 1 -> GetOrderItemInfo(t)
      [] t.coHop = 2 -> ConvertCurrencyOfCart(t)
      [] t.coHop = 3 -> QuoteShipping(t)
      [] t.coHop = 4 -> ConvertCurrencyOfShippingQuote(t)
      [] t.coHop = 5 -> ChargeCard(CalculateTotalPrice(t))
      [] t.coHop = 6 -> ShipOrder(t)
      [] t.coHop = 7 -> EmptyUserCart(t)
      [] t.coHop = 8 -> SendOrderConfirmation(t)
      [] OTHER       -> ReturnResponseToFrontend(t)
=============================================================================
