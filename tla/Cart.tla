-------------------------------- MODULE Cart --------------------------------
(***************************************************************************)
(* The cart service of the Online Boutique, cartservice.c.  Its worker     *)
(* threads share LocalCartStore, a map without a lock.  Every caller names *)
(* the same user, so that the map, a red-black tree, has one node or none; *)
(* and find_c_map gives its caller a copy of the cart in the node, so that *)
(* what the service writes into a cart it has found never reaches the map. *)
(* The workers are pinned to one processor, which only makes them come in  *)
(* between each other less often: a pin that fails is reported and ignored.*)
(***************************************************************************)
EXTENDS Integers

CONSTANTS
    Worker,     \* The worker threads.
    Product,    \* The products one can order.
    Slots,      \* The length of Items in struct _cart.
    None        \* No cart, no product.

VARIABLES
    store,      \* The root of LocalCartStore: a node, or None.
    up,         \* The service has not crashed.
    pc,         \* Where each worker is.
    request,    \* The request of each worker, its rpc_handler and its item.
    reply       \* The get_cart_response of the last GetCart of each worker.

cartVars == <<store, up, pc, request, reply>>

Item == [product : Product, quantity : Int]
Blank == [product |-> None, quantity |-> 0]
Cart == [num : 0 .. Slots - 1, items : [0 .. Slots - 1 -> Item \union {Blank}]]
Node == [cart : Cart, red : BOOLEAN, by : Worker]   \* by has inserted it.
Request == [rpc : {"AddItem", "GetCart", "EmptyCart"}, item : Item \union {Blank}]

ASSUME CartAssumption ==
    /\ Slots \in Nat /\ Slots > 2
    /\ None \notin Node

NoItems == [num |-> 0, items |-> [i \in 0 .. Slots - 1 |-> Blank]]

\* newCart of AddItemAsync.
NewCart(item) == [num |-> 1, items |-> [NoItems.items EXCEPT ![0] = item]]

Visible(c) == 0 .. c.num - 1

(***************************************************************************)
(* AddItemAsync for a cart it has found.  Of a product in the cart there   *)
(* is one more; another product is written one slot past the last, as      *)
(* num_items is incremented before it is used as the index.                *)
(***************************************************************************)
Updated(c, item) ==
    IF \E i \in Visible(c) : c.items[i].product = item.product
    THEN [c EXCEPT !.items = [i \in DOMAIN c.items |->
             IF i \in Visible(c) /\ c.items[i].product = item.product
             THEN [c.items[i] EXCEPT !.quantity = @ + 1]
             ELSE c.items[i]]]
    ELSE [c EXCEPT !.num = @ + 1, !.items[c.num + 1] = item]

(* EmptyCartAsync for a cart it has found: num_items stays as it is. *)
Emptied(c) ==
    [c EXCEPT !.items = [i \in DOMAIN c.items |->
        IF i \in Visible(c) THEN Blank ELSE c.items[i]]]

\* Mutant of StoreAfter: find_c_map gives a reference.
ByReference(c, written) == written

(* The cart c of the map after its copy has been written to. *)
StoreAfter(c, written) == c

CartInit ==
    /\ store = None
    /\ up = TRUE
    /\ pc = [w \in Worker |-> "idle"]
    /\ request = [w \in Worker |-> [rpc |-> "GetCart", item |-> Blank]]
    /\ reply = [w \in Worker |-> NoItems]

-----------------------------------------------------------------------------
(* nf_worker, a request arrives. *)
Call(w, r) ==
    /\ up /\ pc[w] = "idle"
    /\ request' = [request EXCEPT ![w] = r]
    /\ pc' = [pc EXCEPT ![w] = "find"]
    /\ UNCHANGED <<store, up, reply>>

At(w, place) == up /\ pc[w] = place
Find(w, rpc) == At(w, "find") /\ request[w].rpc = rpc
Go(w, place) == pc' = [pc EXCEPT ![w] = place]

(* AddItemAsync, find_c_map: no cart, a new one is to be inserted. *)
FindNone(w) ==
    /\ Find(w, "AddItem")
    /\ store = None
    /\ Go(w, "insert")
    /\ UNCHANGED <<store, up, request, reply>>

(* AddItemAsync, find_c_map and the update of what it found. *)
Update(w) ==
    /\ Find(w, "AddItem")
    /\ store # None
    /\ store' = [store EXCEPT !.cart =
                     StoreAfter(@, Updated(@, request[w].item))]
    /\ Go(w, "done")
    /\ UNCHANGED <<up, request, reply>>

\* Mutant of Taken: the tree takes a second node for a key.
NeverTaken == FALSE

(* insert_c_rb meets a node with the key. *)
Taken == store # None

(* insert_c_rb, the descent: the key is there, and AddItemAsync ignores    *)
(* CLIB_RBTREE_KEY_DUPLICATE, or the tree is empty.                        *)
InsertDescend(w) ==
    /\ At(w, "insert")
    /\ Go(w, IF Taken THEN "done" ELSE "link")
    /\ UNCHANGED <<store, up, request, reply>>

(* insert_c_rb: the new node, red, becomes the root, whatever the root is. *)
InsertLink(w) ==
    /\ At(w, "link")
    /\ store' = [cart |-> NewCart(request[w].item), red |-> TRUE, by |-> w]
    /\ Go(w, "fixup")
    /\ UNCHANGED <<up, request, reply>>

\* Mutant of RootBlack: the root stays as it was linked.
RootLeftRed(node) == node

\* The last line of __rb_insert_fixup.
RootBlack(node) == [node EXCEPT !.red = FALSE]

(* __rb_insert_fixup makes the root black.  When the root is another node  *)
(* by now, it first follows the parent of its own, which is null, unless   *)
(* the compiler has kept the root that was just stored.                    *)
InsertFixup(w) ==
    /\ At(w, "fixup")
    /\ \/ /\ store' = RootBlack(store)
          /\ Go(w, "verify")
          /\ UNCHANGED up
       \/ /\ store.by # w
          /\ up' = FALSE
          /\ UNCHANGED <<store, pc>>
    /\ UNCHANGED <<request, reply>>

(* debug_verify_properties asserts that the root is black. *)
InsertVerify(w) ==
    /\ At(w, "verify")
    /\ IF store.red THEN up' = FALSE /\ UNCHANGED pc
                    ELSE Go(w, "done") /\ UNCHANGED up
    /\ UNCHANGED <<store, request, reply>>

(* GetCartAsync. *)
GetCart(w) ==
    /\ Find(w, "GetCart")
    /\ reply' = [reply EXCEPT ![w] =
                    IF store = None THEN [@ EXCEPT !.num = 0] ELSE store.cart]
    /\ Go(w, "done")
    /\ UNCHANGED <<store, up, request>>

(* EmptyCartAsync. *)
EmptyCart(w) ==
    /\ Find(w, "EmptyCart")
    /\ store' = IF store = None THEN None
                ELSE [store EXCEPT !.cart = StoreAfter(@, Emptied(@))]
    /\ Go(w, "done")
    /\ UNCHANGED <<up, request, reply>>

CartStep(w) ==
    \/ FindNone(w) \/ Update(w)
    \/ InsertDescend(w) \/ InsertLink(w) \/ InsertFixup(w) \/ InsertVerify(w)
    \/ GetCart(w) \/ EmptyCart(w)

(* nf_worker hands the transaction back. *)
HandBack(w) ==
    /\ At(w, "done")
    /\ Go(w, "idle")
    /\ UNCHANGED <<store, up, request, reply>>

-----------------------------------------------------------------------------
(* The service by itself, under any requests. *)
CONSTANT Requests

ASSUME RequestsAssumption == Requests \subseteq Request

Next ==
    \E w \in Worker :
        (\E r \in Requests : Call(w, r)) \/ CartStep(w) \/ HandBack(w)

Spec == CartInit /\ [][Next]_cartVars

(* The variables keep their types: in particular no cart that is stored or *)
(* answered says that it has more items than Items has room for, the slot  *)
(* AddItemAsync leaves empty included.                                     *)
CartTypeOK ==
    /\ store \in Node \union {None}
    /\ up \in BOOLEAN
    /\ pc \in [Worker -> {"idle", "find", "insert", "link", "fixup", "verify", "done"}]
    /\ request \in [Worker -> Request]
    /\ reply \in [Worker -> Cart]

(* A reader never sees a cart half made: what GetCart answers is empty, or *)
(* the cart exactly as one AddItem created it.                             *)
ReadsAreWhole ==
    \A w \in Worker :
        reply[w].num > 0 => \E r \in Requests : reply[w] = NewCart(r.item)

(* Two AddItem may both find no cart, and the second to link then hides    *)
(* the cart of the first; but once a cart is there and nobody is left      *)
(* between the descent and the link, every reader sees that same cart for  *)
(* ever, whatever is added or emptied.                                     *)
Settled == store # None /\ \A w \in Worker : pc[w] # "link"
SettledForGood ==
    [][Settled => store' # None /\ store'.cart = store.cart /\ Settled']_cartVars

(* Why: the node, if there is one, is as AddItemAsync made it, it stays    *)
(* there while its insertion is finished, and a worker is busy with one of *)
(* Requests.                                                               *)
StoreIsWhole ==
    store # None => \E r \in Requests : store.cart = NewCart(r.item)
Inserting ==
    \A w \in Worker :
        /\ pc[w] \in {"find", "insert", "link"} => request[w] \in Requests
        /\ pc[w] \in {"fixup", "verify"} => store # None

CartInv == CartTypeOK /\ StoreIsWhole /\ Inserting /\ ReadsAreWhole

(* "If the item exists, we update its quantity" (cartservice.c:123), "The  *)
(* item doesn't exist, we update it into DB" (134): at the end of AddItem  *)
(* its product is in the store.                                            *)
AddedIsStored ==
    [][\A w \in Worker :
          (pc[w] # "done" /\ pc'[w] = "done" /\ request[w].rpc = "AddItem") =>
              /\ store' # None
              /\ \E i \in Visible(store'.cart) :
                     store'.cart.items[i].product = request[w].item.product]_cartVars

(* assert(debug_node_color(pTree,root) == clib_black), c_rb.c:486: a worker *)
(* that verifies the tree after its insertion finds the root black, unless *)
(* another worker has just linked a node of its own over it, which only    *)
(* the missing lock of the map allows.                                     *)
RootIsBlack ==
    \A w \in Worker :
        pc[w] = "verify" /\ store.red =>
            \E v \in Worker \ {w} : pc[v] = "fixup" /\ store.by = v
=============================================================================
