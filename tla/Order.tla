------------------------------- MODULE Order -------------------------------
(***************************************************************************)
(* What becomes of an order: the services are asked to charge, to ship, to *)
(* empty the cart and to confirm, each once and in this order, and a       *)
(* request ends with all of it done or with none.                          *)
(***************************************************************************)
EXTENDS Naturals, Sequences

CONSTANT Object     \* An order, named by the object that carries it.

VARIABLE done       \* What was done for each.

Steps == <<"Charge", "ShipOrder", "EmptyCart", "SendOrderConfirmation">>

Init == done = [o \in Object |-> <<>>]

Proceed(o) ==
    /\ Len(done[o]) < Len(Steps)
    /\ done' = [done EXCEPT ![o] = Append(@, Steps[Len(@) + 1])]

End(o) ==
    /\ done[o] = Steps
    /\ done' = [done EXCEPT ![o] = <<>>]

Next == \E o \in Object : Proceed(o) \/ End(o)

Spec == Init /\ [][Next]_done
=============================================================================
