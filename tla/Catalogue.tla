------------------------------ MODULE Catalogue ------------------------------
(***************************************************************************)
(* What the product catalogue, the recommendation and the ad service know  *)
(* of the products: three tables in three programs.  A product is named as *)
(* in the catalogue; of its name and description there are only the words  *)
(* that are asked for.                                                     *)
(***************************************************************************)
EXTENDS Integers, Sequences, Functions

Product(id, units, nanos, categories, words) ==
    [id |-> id, price |-> <<units, nanos>>, categories |-> categories, words |-> words]

\* productcatalogservice.c.
Products == <<
    Product("Sunglasses",       19, 99, {"accessories"},      {"outfits", "Sun"}),
    Product("Tank Top",         18, 99, {"clothing", "tops"}, {"cotton"}),
    Product("Watch",           109, 99, {"accessories"},      {"outfits"}),
    Product("Loafers",          89, 99, {"footwear"},         {"summer"}),
    Product("Hairdryer",        24, 99, {"hair", "beauty"},   {"perfect"}),
    Product("Candle Holder",    18, 99, {"decor", "home"},    {"candle"}),
    Product("Shakers",          18, 49, {"kitchen"},          {"kitchen"}),
    Product("Bamboo Glass Jar",  5, 49, {"kitchen"},          {"kitchen", "perfect"}),
    Product("Mug",               8, 99, {"kitchen"},          {"mustard"}) >>

\* GetProduct: the first with the id; without one, the answer stays as it is.
GetProduct(id, response) ==
    IF \E i \in DOMAIN Products : Products[i].id = id
    THEN Products[CHOOSE i \in DOMAIN Products : Products[i].id = id]
    ELSE response

\* ListProducts: as many as there is room for in the response.
ListProducts == Products

\* SearchProducts: strstr finds the query in the name or the description.
SearchProducts(query) ==
    LET found[k \in 0 .. Len(Products)] ==
            IF k = 0 THEN <<>>
            ELSE IF query \in Products[k].words THEN Append(found[k - 1], Products[k])
            ELSE found[k - 1]
    IN found[Len(Products)]

\* recommendationservice.c: the products it draws one of.
Recommendable == <<"Sunglasses", "Tank Top", "Watch", "Loafers", "Hairdryer", "Candle Holder",
                   "Shakers", "Bamboo Glass Jar", "Mug">>

\* adservice.c: the product each ad is for, by its category; others have no ad.
AdNames == <<"clothing", "accessories", "footwear", "hair", "decor", "kitchen">>
NoAd == "No Ad found."
AdByCategory(key) ==
    CASE key = "clothing"    -> "Tank Top"
      [] key = "accessories" -> "Watch"
      [] key = "footwear"    -> "Loafers"
      [] key = "hair"        -> "Hairdryer"
      [] key = "decor"       -> "Candle Holder"
      [] key = "kitchen"     -> "Mug"
      [] OTHER               -> NoAd

RandomAds == {AdByCategory(AdNames[i]) : i \in DOMAIN AdNames}

(* GetAds: what it may answer.  A random ad is for those who give no key;  *)
(* a key without an ad gives an empty one.                                 *)
GetAds(keys) ==
    IF keys = <<>> THEN {<<ad>> : ad \in RandomAds}
    ELSE {[i \in DOMAIN keys |-> AdByCategory(keys[i])]}

-----------------------------------------------------------------------------
(* What the three services say of a product agrees: whatever is listed,    *)
(* recommended or advertised is found by GetProduct as that product, and   *)
(* every ad is for a product of the category that was asked for.           *)
TablesMatch ==
    LET None == Product("", 0, 0, {}, {})
        Known(id) == GetProduct(id, None) # None IN
    /\ \A i \in DOMAIN ListProducts : GetProduct(ListProducts[i].id, None) = ListProducts[i]
    /\ \A i \in DOMAIN Recommendable : Known(Recommendable[i])
    /\ \A ads \in GetAds(<<>>) : Len(ads) = 1 /\ Known(ads[1])
    /\ \A i, j \in DOMAIN AdNames : \A ads \in GetAds(<<AdNames[i], AdNames[j]>>) :
            /\ AdNames[i] \in GetProduct(ads[1], None).categories
            /\ AdNames[j] \in GetProduct(ads[2], None).categories

(* A search finds the products with the word, and in the order of the      *)
(* catalogue, in which no product is listed twice.                         *)
SearchFinds(query) ==
    LET found == SearchProducts(query) IN
    /\ Range(found) = {p \in Range(Products) : query \in p.words}
    /\ \A i, j \in DOMAIN found : i < j =>
            \E k, l \in DOMAIN Products :
                k < l /\ Products[k] = found[i] /\ Products[l] = found[j]
    /\ \A k, l \in DOMAIN Products : Products[k] = Products[l] => k = l
=============================================================================
