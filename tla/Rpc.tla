-------------------------------- MODULE Rpc --------------------------------
(***************************************************************************)
(* How the functions of the Online Boutique call each other.  A request    *)
(* has one transaction, struct http_transaction of http.h, which is handed *)
(* from function to function and is the only thing they share: next_fn and *)
(* rpc_handler say what is to be done, caller_fn where it returns to, and  *)
(* the counters how far each caller has come.  A transaction is reused     *)
(* without being cleared.                                                  *)
(***************************************************************************)
EXTENDS Integers, Sequences

CONSTANTS
    Catalogue,  \* The products of the catalogue.
    Unknown,    \* The identifiers a client may send that name no product.
    Listed,     \* The product that stands for the list of the catalogue.
    Slots,      \* The length of the arrays of a transaction.
    None        \* What a field holds before it is first written.

ASSUME RpcAssumption ==
    /\ Slots \in Nat /\ Slots > 2
    /\ Listed \in Catalogue
    /\ None \notin Catalogue \union Unknown

GATEWAY == 0
FRONTEND == 1
CURRENCY_SVC == 2
PRODUCTCATA_SVC == 3
CART_SVC == 4
RECOMMEND_SVC == 5
SHIPPING_SVC == 6
CHECKOUT_SVC == 7
PAYMENT_SVC == 8
EMAIL_SVC == 9
AD_SVC == 10

(* What each service does; another rpc_handler starts its mock test. *)
Serves == [s \in {CURRENCY_SVC, PRODUCTCATA_SVC, CART_SVC, RECOMMEND_SVC,
                  SHIPPING_SVC, PAYMENT_SVC, EMAIL_SVC, AD_SVC} |->
    CASE s = CURRENCY_SVC    -> {"GetSupportedCurrencies", "Convert"}
      [] s = PRODUCTCATA_SVC -> {"ListProducts", "GetProduct"}
      [] s = CART_SVC        -> {"AddItem", "GetCart", "EmptyCart"}
      [] s = RECOMMEND_SVC   -> {"ListRecommendations"}
      [] s = SHIPPING_SVC    -> {"GetQuote", "ShipOrder"}
      [] s = PAYMENT_SVC     -> {"Charge"}
      [] s = EMAIL_SVC       -> {"SendOrderConfirmation"}
      [] s = AD_SVC          -> {"GetAds"}]

(***************************************************************************)
(* An amount of money: the price of what (of nothing: zero), in which      *)
(* currency, and how many times it was doubled.  A sum is the sequence of  *)
(* the amounts that were added to it.                                      *)
(***************************************************************************)
Money(of, cur, doubled) == [of |-> of, cur |-> cur, doubled |-> doubled]
NoMoney == Money(None, None, 0)
PriceUsd(product) == IF product = None THEN NoMoney ELSE Money(product, "USD", 0)
Converted(m) == [m EXCEPT !.cur = "CAD"]

(* MultiplySlow adds the amount to itself, and not to what it was, n - 1   *)
(* times.                                                                  *)
MultiplySlow(m, n) == IF n > 1 THEN [m EXCEPT !.doubled = @ + n - 1] ELSE m

(* The first n of the prices in views, each times its quantity. *)
Multiplied(views, n) ==
    [i \in DOMAIN views |->
        IF i < n THEN [views[i] EXCEPT !.price = MultiplySlow(@, views[i].quantity)]
                 ELSE views[i]]

SumOf(total, views, n, cost) ==
    total \o [i \in 1 .. n |-> views[i - 1].price] \o <<cost>>

NoView == [product |-> None, quantity |-> 0, price |-> NoMoney]
NoViews == [i \in 0 .. Slots - 1 |-> NoView]
Blank == [product |-> None, quantity |-> 0]

(* A transaction that was never used. *)
NewTransaction ==
    [request   |-> [path |-> "none", item |-> Blank],
     next      |-> GATEWAY,     \* next_fn
     caller    |-> GATEWAY,     \* caller_fn
     hop       |-> 0,           \* hop_count
     rpc       |-> "none",      \* rpc_handler
     from      |-> NoMoney,     \* currency_conversion_req.From
     result    |-> NoMoney,     \* currency_conversion_result
     add       |-> Blank,       \* add_item_request.Item
     cart      |-> [num |-> 0, items |-> [i \in 0 .. Slots - 1 |-> Blank]],
     id        |-> None,        \* get_product_request.Id
     product   |-> None,        \* get_product_response
     quote     |-> [flag |-> FALSE, cost |-> NoMoney],  \* get_quote_response
     view      |-> NoView,      \* product_view
     viewed    |-> 0,           \* productViewCntr
     items     |-> NoViews,     \* cart_item_view
     itemCnt   |-> 0,           \* cartItemViewCntr
     convCnt   |-> 0,           \* cartItemCurConvertCntr
     total     |-> <<>>,        \* total_price
     coHop     |-> 0,           \* checkoutsvc_hop_cnt
     orders    |-> NoViews,     \* order_item_view
     orderCnt  |-> 0,           \* orderItemViewCntr
     orderConv |-> 0,           \* orderItemCurConvertCntr
     charge    |-> <<>>]        \* charge_request.Amount

(* A caller sets the handler and both ends of its call ... *)
Ask(t, caller, service, rpc) ==
    [t EXCEPT !.rpc = rpc, !.caller = caller, !.next = service]

(* ... and every service ends by swapping them. *)
Reply(t) == [t EXCEPT !.next = t.caller, !.caller = t.next]

AskConvert(t, caller, price) ==
    Ask([t EXCEPT !.from = price], caller, CURRENCY_SVC, "Convert")
AskProduct(t, caller, id) ==
    Ask([t EXCEPT !.id = id], caller, PRODUCTCATA_SVC, "GetProduct")
=============================================================================
