-------------------------------- MODULE Pool --------------------------------
(***************************************************************************)
(* What the object pool promises its two callers, whatever the ring behind *)
(* it does: an object handed out is in use by nobody else until it is      *)
(* given back.  ObjectPool is shown to implement this specification.       *)
(***************************************************************************)

EXTENDS Naturals

CONSTANT Object     \* The objects of the shared region.

VARIABLE uses       \* uses[o]: the transactions that object o carries.

Init == uses = [o \in Object |-> 0]

(* The objects that carry a transaction. *)
InUse == {o \in Object : uses[o] > 0}

(* allocate_object: an object nobody uses is handed out. *)
Take(o) ==
    /\ uses[o] = 0
    /\ uses' = [uses EXCEPT ![o] = 1]

(* release_object: an object in use is given back. *)
Give(o) ==
    /\ uses[o] = 1
    /\ uses' = [uses EXCEPT ![o] = 0]

Next == \E o \in Object : Take(o) \/ Give(o)

Spec == Init /\ [][Next]_uses

TypeOK == uses \in [Object -> {0, 1}]
=============================================================================
