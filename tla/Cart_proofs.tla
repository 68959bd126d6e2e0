---------------------------- MODULE Cart_proofs ----------------------------
(***************************************************************************)
(* Proofs about the cart service, for any workers, products and requests.  *)
(* The argument: the only cart that is ever stored is one that             *)
(* AddItemAsync has just made, as a write to a cart that was found goes to *)
(* a copy (StoreAfter); so whatever two insertions do to each other, what  *)
(* a reader copies out is the cart of one request, whole.                  *)
(***************************************************************************)
EXTENDS Cart, TLAPS

(* A new cart is a cart, of one item.                                      *)
LEMMA NewCartType ==
    ASSUME NEW r \in Requests
    PROVE  NewCart(r.item) \in Cart /\ NewCart(r.item).num = 1
<1>1. r.item \in Item \union {Blank}
  BY RequestsAssumption DEF Request
<1>2. NoItems.items \in [0 .. Slots - 1 -> Item \union {Blank}]
  BY DEF NoItems
<1>3. [NoItems.items EXCEPT ![0] = r.item] \in [0 .. Slots - 1 -> Item \union {Blank}]
  BY <1>1, <1>2, CartAssumption
<1>4. 1 \in 0 .. Slots - 1
  BY CartAssumption
<1>. QED  BY <1>3, <1>4 DEF NewCart, Cart

LEMMA NoItemsType == NoItems \in Cart /\ NoItems.num = 0
  BY CartAssumption DEF NoItems, Cart

LEMMA NodeIsNotNone == \A n \in Node : n # None
  BY CartAssumption

LEMMA InitInv == CartInit => CartInv
<1>. SUFFICES ASSUME CartInit PROVE CartInv
  OBVIOUS
<1>1. [w \in Worker |-> [rpc |-> "GetCart", item |-> Blank]] \in [Worker -> Request]
  BY DEF Request
<1>2. CartTypeOK
  BY <1>1, NoItemsType DEF CartInit, CartTypeOK
<1>3. ReadsAreWhole
  BY NoItemsType DEF CartInit, ReadsAreWhole
<1>. QED  BY <1>2, <1>3 DEF CartInit, CartInv, StoreIsWhole, Inserting

(* A new request is one of Requests.                                       *)
LEMMA CallInv ==
    ASSUME CartInv, NEW w \in Worker, NEW r \in Requests, Call(w, r)
    PROVE  CartInv'
<1>. USE DEF CartInv, Call
<1>1. r \in Request
  BY RequestsAssumption
<1>2. CartTypeOK'
  BY <1>1 DEF CartTypeOK
<1>3. StoreIsWhole' /\ ReadsAreWhole'
  BY DEF StoreIsWhole, ReadsAreWhole
<1>4. Inserting'
  BY DEF CartTypeOK, Inserting
<1>. QED  BY <1>2, <1>3, <1>4

(* Writing to a cart that was found changes nothing in the store.          *)
LEMMA UpdateInv ==
    ASSUME CartInv, NEW w \in Worker, Update(w)
    PROVE  CartInv'
<1>. USE DEF CartInv
<1>1. store' = store
  BY DEF Update, StoreAfter, CartTypeOK, Node
<1>2. CartTypeOK'
  BY <1>1 DEF CartTypeOK, Update, Go
<1>3. StoreIsWhole' /\ ReadsAreWhole'
  BY <1>1 DEF StoreIsWhole, ReadsAreWhole, Update
<1>4. Inserting'
  BY <1>1 DEF CartTypeOK, Inserting, Update, Go
<1>. QED  BY <1>2, <1>3, <1>4

LEMMA EmptyCartInv ==
    ASSUME CartInv, NEW w \in Worker, EmptyCart(w)
    PROVE  CartInv'
<1>. USE DEF CartInv
<1>1. store' = store
  BY DEF EmptyCart, StoreAfter, CartTypeOK, Node
<1>2. CartTypeOK'
  BY <1>1 DEF CartTypeOK, EmptyCart, Go
<1>3. StoreIsWhole' /\ ReadsAreWhole'
  BY <1>1 DEF StoreIsWhole, ReadsAreWhole, EmptyCart
<1>4. Inserting'
  BY <1>1 DEF CartTypeOK, Inserting, EmptyCart, Go
<1>. QED  BY <1>2, <1>3, <1>4

(* A worker that finds no cart still has its request.                      *)
LEMMA FindNoneInv ==
    ASSUME CartInv, NEW w \in Worker, FindNone(w)
    PROVE  CartInv'
<1>. USE DEF CartInv
<1>1. CartTypeOK'
  BY DEF CartTypeOK, FindNone, Go
<1>2. StoreIsWhole' /\ ReadsAreWhole'
  BY DEF StoreIsWhole, ReadsAreWhole, FindNone
<1>3. Inserting'
  BY DEF CartTypeOK, Inserting, FindNone, Find, At, Go
<1>. QED  BY <1>1, <1>2, <1>3

LEMMA InsertDescendInv ==
    ASSUME CartInv, NEW w \in Worker, InsertDescend(w)
    PROVE  CartInv'
<1>. USE DEF CartInv
<1>1. CartTypeOK'
  BY DEF CartTypeOK, InsertDescend, Go
<1>2. StoreIsWhole' /\ ReadsAreWhole'
  BY DEF StoreIsWhole, ReadsAreWhole, InsertDescend
<1>3. Inserting'
  BY DEF CartTypeOK, Inserting, InsertDescend, At, Go
<1>. QED  BY <1>1, <1>2, <1>3

(* What is linked is the new cart of a request.                            *)
LEMMA InsertLinkInv ==
    ASSUME CartInv, NEW w \in Worker, InsertLink(w)
    PROVE  CartInv'
<1>. USE DEF CartInv
<1>1. request[w] \in Requests
  BY DEF Inserting, InsertLink, At
<1>2. store'.cart = NewCart(request[w].item) /\ store' \in Node
  BY <1>1, NewCartType DEF InsertLink, Node
<1>3. CartTypeOK'
  BY <1>2 DEF CartTypeOK, InsertLink, Go
<1>4. StoreIsWhole'
  BY <1>1, <1>2 DEF StoreIsWhole
<1>5. ReadsAreWhole'
  BY DEF ReadsAreWhole, InsertLink
<1>6. store' # None
  BY <1>2, NodeIsNotNone
<1>7. Inserting'
  BY <1>6 DEF CartTypeOK, Inserting, InsertLink, Go
<1>. QED  BY <1>3, <1>4, <1>5, <1>7

(* The fix-up paints the root, whosever it is; its cart stays.             *)
LEMMA InsertFixupInv ==
    ASSUME CartInv, NEW w \in Worker, InsertFixup(w)
    PROVE  CartInv'
<1>. USE DEF CartInv
<1>1. store # None /\ store \in Node
  BY DEF Inserting, InsertFixup, At, CartTypeOK
<1>2. store' \in Node /\ store'.cart = store.cart
  BY <1>1 DEF InsertFixup, RootBlack, Node
<1>3. store' # None
  BY <1>2, NodeIsNotNone
<1>4. CartTypeOK'
  BY <1>2 DEF CartTypeOK, InsertFixup, Go
<1>5. StoreIsWhole'
  BY <1>1, <1>2 DEF StoreIsWhole
<1>6. ReadsAreWhole'
  BY DEF ReadsAreWhole, InsertFixup
<1>7. Inserting'
  BY <1>3 DEF CartTypeOK, Inserting, InsertFixup, Go
<1>. QED  BY <1>4, <1>5, <1>6, <1>7

LEMMA InsertVerifyInv ==
    ASSUME CartInv, NEW w \in Worker, InsertVerify(w)
    PROVE  CartInv'
<1>. USE DEF CartInv
<1>1. CartTypeOK'
  BY DEF CartTypeOK, InsertVerify, Go
<1>2. StoreIsWhole' /\ ReadsAreWhole'
  BY DEF StoreIsWhole, ReadsAreWhole, InsertVerify
<1>3. Inserting'
  BY DEF CartTypeOK, Inserting, InsertVerify, Go
<1>. QED  BY <1>1, <1>2, <1>3

(* A reader gets the stored cart, or none.                                 *)
LEMMA GetCartInv ==
    ASSUME CartInv, NEW w \in Worker, GetCart(w)
    PROVE  CartInv'
<1>. USE DEF CartInv
<1>1. CASE store = None
  <2>1. reply' = [reply EXCEPT ![w] = [@ EXCEPT !.num = 0]]
    BY <1>1 DEF GetCart
  <2>2. 0 \in 0 .. Slots - 1
    BY CartAssumption
  <2>3. reply' \in [Worker -> Cart] /\ reply'[w].num = 0
    BY <2>1, <2>2 DEF CartTypeOK, Cart
  <2>4. \A v \in Worker : v # w => reply'[v] = reply[v]
    BY <2>1 DEF CartTypeOK
  <2>5. CartTypeOK'
    BY <2>3 DEF CartTypeOK, GetCart, Go
  <2>6. ReadsAreWhole'
    BY <2>3, <2>4 DEF ReadsAreWhole
  <2>7. StoreIsWhole' /\ Inserting'
    BY <1>1 DEF StoreIsWhole, CartTypeOK, Inserting, GetCart, Go
  <2>. QED  BY <2>5, <2>6, <2>7
<1>2. CASE store # None
  <2>1. reply' = [reply EXCEPT ![w] = store.cart]
    BY <1>2 DEF GetCart
  <2>2. store.cart \in Cart
    BY <1>2 DEF CartTypeOK, Node
  <2>3. CartTypeOK'
    BY <2>1, <2>2 DEF CartTypeOK, GetCart, Go
  <2>4. ReadsAreWhole'
    BY <1>2, <2>1 DEF StoreIsWhole, ReadsAreWhole, CartTypeOK
  <2>5. StoreIsWhole' /\ Inserting'
    BY <1>2 DEF StoreIsWhole, CartTypeOK, Inserting, GetCart, Go
  <2>. QED  BY <2>3, <2>4, <2>5
<1>. QED  BY <1>1, <1>2

LEMMA HandBackInv ==
    ASSUME CartInv, NEW w \in Worker, HandBack(w)
    PROVE  CartInv'
<1>. USE DEF CartInv
<1>1. CartTypeOK'
  BY DEF CartTypeOK, HandBack, Go
<1>2. StoreIsWhole' /\ ReadsAreWhole'
  BY DEF StoreIsWhole, ReadsAreWhole, HandBack
<1>3. Inserting'
  BY DEF CartTypeOK, Inserting, HandBack, Go
<1>. QED  BY <1>1, <1>2, <1>3

LEMMA NextInv == CartInv /\ [Next]_cartVars => CartInv'
<1>. SUFFICES ASSUME CartInv, [Next]_cartVars PROVE CartInv'
  OBVIOUS
<1>1. CASE UNCHANGED cartVars
  BY <1>1 DEF cartVars, CartInv, CartTypeOK, StoreIsWhole, Inserting, ReadsAreWhole
<1>2. ASSUME NEW w \in Worker, NEW r \in Requests, Call(w, r) PROVE CartInv'
  BY <1>2, CallInv
<1>3. ASSUME NEW w \in Worker, CartStep(w) PROVE CartInv'
  BY <1>3, FindNoneInv, UpdateInv, InsertDescendInv, InsertLinkInv, InsertFixupInv,
     InsertVerifyInv, GetCartInv, EmptyCartInv DEF CartStep
<1>4. ASSUME NEW w \in Worker, HandBack(w) PROVE CartInv'
  BY <1>4, HandBackInv
<1>. QED  BY <1>1, <1>2, <1>3, <1>4 DEF Next

THEOREM Invariance == Spec => []CartInv
<1>1. CartInit => CartInv
  BY InitInv
<1>2. CartInv /\ [Next]_cartVars => CartInv'
  BY NextInv
<1>. QED  BY <1>1, <1>2, PTL DEF Spec

(* The variables keep their types, so that no cart has more items than it  *)
(* has room for (AddItemAsync).                                            *)
THEOREM CartTypeCorrect == Spec => []CartTypeOK
<1>1. CartInv => CartTypeOK
  BY DEF CartInv
<1>. QED  BY <1>1, Invariance, PTL

(* Whatever the workers do at the same time, GetCart answers an empty cart *)
(* or the whole cart of one AddItem.                                       *)
THEOREM WholeReads == Spec => []ReadsAreWhole
<1>1. CartInv => ReadsAreWhole
  BY DEF CartInv
<1>. QED  BY <1>1, Invariance, PTL

(* Once a cart is there and no worker is about to link one, it is the cart *)
(* for good: AddItem and EmptyCart are without effect.                     *)
LEMMA SettledStep ==
    ASSUME CartInv, [Next]_cartVars, Settled
    PROVE  store' # None /\ store'.cart = store.cart /\ Settled'
<1>. USE DEF CartInv, Settled
<1>0. store # None /\ store \in Node
  BY DEF CartTypeOK
<1>1. CASE UNCHANGED cartVars
  BY <1>1 DEF cartVars
<1>2. ASSUME NEW w \in Worker, NEW r \in Requests, Call(w, r)
      PROVE  store' = store /\ Settled'
  BY <1>2 DEF Call, CartTypeOK
<1>3. ASSUME NEW w \in Worker, FindNone(w) \/ InsertDescend(w) \/ InsertVerify(w)
                                   \/ GetCart(w) \/ HandBack(w)
      PROVE  store' = store /\ Settled'
  BY <1>3 DEF FindNone, InsertDescend, InsertVerify, GetCart, HandBack, Taken, Go, CartTypeOK
<1>4. ASSUME NEW w \in Worker, Update(w) \/ EmptyCart(w)
      PROVE  store' = store /\ Settled'
  <2>1. store' = store
    BY <1>0, <1>4 DEF Update, EmptyCart, StoreAfter, Node
  <2>. QED  BY <2>1, <1>4 DEF Update, EmptyCart, Go, CartTypeOK
<1>5. ASSUME NEW w \in Worker, InsertFixup(w)
      PROVE  store' # None /\ store'.cart = store.cart /\ Settled'
  <2>1. store' \in Node /\ store'.cart = store.cart
    BY <1>0, <1>5 DEF InsertFixup, RootBlack, Node
  <2>2. store' # None
    BY <2>1, NodeIsNotNone
  <2>3. \A v \in Worker : pc'[v] # "link"
    BY <1>5 DEF InsertFixup, Go, CartTypeOK
  <2>. QED  BY <2>1, <2>2, <2>3
<1>6. ASSUME NEW w \in Worker PROVE ~InsertLink(w)
  BY DEF InsertLink, At
<1>. QED  BY <1>0, <1>1, <1>2, <1>3, <1>4, <1>5, <1>6 DEF Next, CartStep

(* So after the first insertions the cart never changes.                   *)
THEOREM SettledIsFinal == Spec => SettledForGood
<1>1. CartInv /\ [Next]_cartVars =>
        [Settled => store' # None /\ store'.cart = store.cart /\ Settled']_cartVars
  BY SettledStep
<1>. QED  BY <1>1, Invariance, PTL DEF Spec, SettledForGood
-----------------------------------------------------------------------------
(* A root that is red has just been linked: the worker that linked it is   *)
(* still on its way to paint it (insert_c_rb), whoever else has linked or  *)
(* painted in between.                                                     *)
RedIsFresh == store # None /\ store.red => pc[store.by] = "fixup"

LEMMA FreshStep == CartInv /\ RedIsFresh /\ [Next]_cartVars => RedIsFresh'
<1>. SUFFICES ASSUME CartInv, RedIsFresh, [Next]_cartVars PROVE RedIsFresh'
  OBVIOUS
<1>. USE DEF CartInv
<1>1. CASE UNCHANGED cartVars
  BY <1>1 DEF cartVars, RedIsFresh
<1>2. ASSUME NEW w \in Worker, store' = store, pc[w] # "fixup",
             \E place : pc' = [pc EXCEPT ![w] = place]
      PROVE  RedIsFresh'
  BY <1>2 DEF RedIsFresh, CartTypeOK, Node
<1>3. ASSUME NEW w \in Worker, NEW r \in Requests, Call(w, r)
      PROVE  RedIsFresh'
  BY <1>2, <1>3 DEF Call
<1>4. ASSUME NEW w \in Worker, FindNone(w) \/ InsertDescend(w) \/ GetCart(w) \/ HandBack(w)
      PROVE  RedIsFresh'
  BY <1>2, <1>4 DEF FindNone, InsertDescend, GetCart, HandBack, Find, At, Go
<1>5. ASSUME NEW w \in Worker, Update(w) \/ EmptyCart(w)
      PROVE  RedIsFresh'
  <2>1. store' = store
    BY <1>5 DEF Update, EmptyCart, StoreAfter, CartTypeOK, Node
  <2>. QED  BY <1>2, <1>5, <2>1 DEF Update, EmptyCart, Find, At, Go
<1>6. ASSUME NEW w \in Worker, InsertLink(w)
      PROVE  RedIsFresh'
  BY <1>6 DEF InsertLink, Go, RedIsFresh, CartTypeOK
<1>7. ASSUME NEW w \in Worker, InsertFixup(w)
      PROVE  RedIsFresh'
  <2>1. store # None /\ store \in Node
    BY <1>7 DEF Inserting, InsertFixup, At, CartTypeOK
  <2>2. CASE store' = RootBlack(store)
    BY <2>1, <2>2 DEF RootBlack, RedIsFresh, Node
  <2>3. CASE UNCHANGED <<store, pc>>
    BY <2>3 DEF RedIsFresh
  <2>. QED  BY <1>7, <2>2, <2>3 DEF InsertFixup
<1>8. ASSUME NEW w \in Worker, InsertVerify(w)
      PROVE  RedIsFresh'
  <2>1. CASE UNCHANGED pc
    BY <1>8, <2>1 DEF InsertVerify, RedIsFresh
  <2>2. CASE Go(w, "done")
    BY <1>2, <1>8, <2>2 DEF InsertVerify, At, Go
  <2>. QED  BY <1>8, <2>1, <2>2 DEF InsertVerify
<1>. QED  BY <1>1, <1>3, <1>4, <1>5, <1>6, <1>7, <1>8 DEF Next, CartStep

(* A worker that verifies the tree finds the root black, unless another    *)
(* worker has linked its own node over it: the assertion of c_rb.c:486     *)
(* can only fail because the map has no lock.                              *)
THEOREM VerifiedIsBlack == Spec => []RootIsBlack
<1>1. CartInit => RedIsFresh
  BY DEF CartInit, RedIsFresh
<1>2. CartInv /\ RedIsFresh => RootIsBlack
  <2>. SUFFICES ASSUME CartInv, RedIsFresh, NEW w \in Worker, pc[w] = "verify", store.red
                PROVE  \E v \in Worker \ {w} : pc[v] = "fixup" /\ store.by = v
    BY DEF RootIsBlack
  <2>1. store # None /\ store \in Node
    BY DEF CartInv, Inserting, CartTypeOK
  <2>2. store.by \in Worker /\ pc[store.by] = "fixup"
    BY <2>1 DEF RedIsFresh, Node
  <2>. QED  BY <2>2
<1>. QED  BY <1>1, <1>2, FreshStep, Invariance, PTL DEF Spec
=============================================================================
