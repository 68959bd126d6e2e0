----------------------------- MODULE MCBoutique -----------------------------
(***************************************************************************)
(* The Online Boutique with two objects and three requests of every kind.  *)
(***************************************************************************)
EXTENDS Boutique

CONSTANTS o1, o2, tanktop, watch, lamp

Ask1(path, product, quantity) ==
    [path |-> path, item |-> IF product = None THEN Blank ELSE [product |-> product, quantity |-> quantity]]

MCRequests ==
    {Ask1(path, None, 0) : path \in {"home", "setCurrency", "viewCart", "checkout", "none", "cart"}}
        \union {Ask1("product", watch, 0)}
        \union {Ask1("addToCart", tanktop, 2), Ask1("addToCart", lamp, 1)}
=============================================================================
