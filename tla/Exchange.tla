------------------------------ MODULE Exchange -------------------------------
(***************************************************************************)
(* What the passing of objects between processes promises, whatever        *)
(* carries it: an object belongs to one process at a time, from the moment *)
(* it is sent to it, and a transaction changes only while a process owns   *)
(* its object, one transaction at a time.  The promise ends, for good, if  *)
(* what carries it ever gives an object to one owner more.  NfChain is     *)
(* shown to implement this specification.                                  *)
(***************************************************************************)

CONSTANTS Object, Proc, Free, Lost

VARIABLES
    owner,      \* owner[o]: a process, or Free, or Lost.
    txn,        \* txn[o]: the transaction in o.
    doubled     \* Whether an object was given to one owner more.

Init == owner = [o \in Object |-> Free] /\ doubled = FALSE

(* An object enters circulation at process p. *)
Take(o, p) ==
    /\ owner[o] = Free
    /\ owner' = [owner EXCEPT ![o] = p]
    /\ UNCHANGED txn

(* Its owner writes the transaction, and keeps o, sends it to q or drops it. *)
Pass(o, q) ==
    /\ owner[o] \in Proc
    /\ owner' = [owner EXCEPT ![o] = q]
    /\ \A x \in Object \ {o} : txn'[x] = txn[x]

(* Its owner gives an object back. *)
Give(o) ==
    /\ owner[o] \in Proc
    /\ owner' = [owner EXCEPT ![o] = Free]
    /\ UNCHANGED txn

(* A process ends, perhaps while it writes, and all it owns is lost. *)
End(p) ==
    /\ owner' = [o \in Object |-> IF owner[o] = p THEN Lost ELSE owner[o]]
    /\ \A x \in Object : owner[x] # p => txn'[x] = txn[x]

Exchanged ==
    \/ \E o \in Object, p \in Proc : Take(o, p)
    \/ \E o \in Object, q \in Proc \union {Lost} : Pass(o, q)
    \/ \E o \in Object : Give(o)
    \/ \E p \in Proc : End(p)

Next == doubled' \/ (Exchanged /\ UNCHANGED doubled)

Spec == Init /\ [][Next]_<<owner, txn, doubled>>
=============================================================================
