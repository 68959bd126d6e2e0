------------------------------- MODULE MCCart -------------------------------
(***************************************************************************)
(* The cart service with three workers, two products and every request.    *)
(***************************************************************************)
EXTENDS Cart, TLC

CONSTANTS w1, w2, w3, tanktop, watch

MCItem == [product : {tanktop, watch}, quantity : {1, 2}]

MCRequests ==
    [rpc : {"AddItem"}, item : MCItem]
        \union [rpc : {"GetCart", "EmptyCart"}, item : {Blank}]

MCSymmetry == Permutations({w1, w2, w3}) \union Permutations({tanktop, watch})
=============================================================================
