------------------------------ MODULE Services ------------------------------
(***************************************************************************)
(* The services of the Online Boutique that keep nothing between two       *)
(* calls.  Each operator below is what the worker of one service makes of  *)
(* the transaction that arrived: the procedure rpc_handler names, or, for  *)
(* a name the service does not know, its mock test on made-up data.  What  *)
(* no other function looks at (lists, advertisements, recommendations,     *)
(* tracking numbers) is left out of the transaction.                       *)
(***************************************************************************)
EXTENDS Rpc

(***************************************************************************)
(* currencyservice.c.                                                      *)
(***************************************************************************)
Convert(t) == [t EXCEPT !.result = Converted(t.from)]

MockCurrencyConversionRequest(t) == [t EXCEPT !.from = Money("mock", "EUR", 0)]

CurrencyService(t) ==
    CASE t.rpc = "GetSupportedCurrencies" -> t
      [] t.rpc = "Convert"                -> Convert(t)
      [] OTHER                            -> Convert(MockCurrencyConversionRequest(t))

(***************************************************************************)
(* productcatalogservice.c.                                                *)
(***************************************************************************)
\* A product that is not found leaves the last one in its place.
GetProduct(t) == IF t.id \in Catalogue THEN [t EXCEPT !.product = t.id] ELSE t

MockGetProductRequest(t) == [t EXCEPT !.id = Listed]

ProductCatalogService(t) ==
    CASE t.rpc \in {"ListProducts", "SearchProducts"} -> t
      [] t.rpc = "GetProduct" -> GetProduct(t)
      [] OTHER                -> GetProduct(MockGetProductRequest(t))

(***************************************************************************)
(* shippingservice.c.  A quote is 8.99 whatever there is to be shipped.    *)
(***************************************************************************)
QuoteFor(items) == Money(IF items = 0 THEN None ELSE "shipping", "USD", 0)

GetQuote(t) == [t EXCEPT !.quote.cost = QuoteFor(t.cart.num)]

MockGetQuote(t) == [t EXCEPT !.quote.cost = QuoteFor(3)]

ShippingService(t) ==
    CASE t.rpc = "ShipOrder" -> t
      [] t.rpc = "GetQuote"  -> GetQuote(t)
      [] OTHER               -> MockGetQuote(t)

(***************************************************************************)
(* paymentservice.c.  Charge returns in the same way whether it takes the  *)
(* card or not; see Payment for when it does.                              *)
(***************************************************************************)
MockChargeRequest(t) == [t EXCEPT !.charge = <<Money("mock", "USD", 0)>>]

PaymentService(t) ==
    CASE t.rpc = "Charge" -> t
      [] OTHER            -> MockChargeRequest(t)

(***************************************************************************)
(* recommendationservice.c, adservice.c and emailservice.c: neither what   *)
(* they do nor their mock tests change what another function looks at.     *)
(***************************************************************************)
RecommendationService(t) == t
AdService(t) == t
EmailService(t) == t

ServiceOf(service, t) ==
    CASE service = CURRENCY_SVC    -> CurrencyService(t)
      [] service = PRODUCTCATA_SVC -> ProductCatalogService(t)
      [] service = SHIPPING_SVC    -> ShippingService(t)
      [] service = PAYMENT_SVC     -> PaymentService(t)
      [] service = RECOMMEND_SVC   -> RecommendationService(t)
      [] service = AD_SVC          -> AdService(t)
      [] service = EMAIL_SVC       -> EmailService(t)
=============================================================================
