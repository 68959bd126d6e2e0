---------------------------- MODULE SharedRegion ----------------------------
(***************************************************************************)
(* What the processes of a SigBPF node share: the transactions in the      *)
(* objects of the shared region, and the real-time signals by which one    *)
(* process hands an object to another.  The signal carries the address     *)
(* only (io_sigbpf.c), so whoever holds the address owns the transaction.  *)
(* The module has the two operations of io_sigbpf.c, transfer_ownership    *)
(* and wait_for_ownership, as operators that Gateway and NetworkFunction   *)
(* build their steps from.                                                 *)
(***************************************************************************)
EXTENDS Naturals, Sequences

CONSTANTS
    Object,     \* The addresses of the objects in circulation.
    Fn,         \* The ids of the network functions; 0 is the gateway.
    Request,    \* The requests that clients make, one per connection.
    RouteOf,    \* RouteOf[r]: the route id in the path of request r.
    Route,      \* Route[i]: the hops that the configuration gives route i.
    Known,      \* Known[p]: the processes whose pid is in p's hash table.
    Limited,    \* Whether the kernel's limits for the user may be met.
    None        \* No object, no descriptor, no request.

Proc == {0} \union Fn

ASSUME SharedRegionAssumption ==
    /\ Fn \subseteq Nat \ {0}
    /\ RouteOf \in [Request -> DOMAIN Route]
    /\ 0 \in DOMAIN Route /\ Route[0] = <<>>
    /\ \A i \in DOMAIN Route : Route[i] \in Seq(Proc)
    /\ Known \in [Proc -> SUBSET Proc]
    /\ Limited \in BOOLEAN
    /\ None \notin Object /\ None \notin Request

VARIABLES
    txn,        \* txn[o]: the struct http_transaction in object o.
    signals,    \* signals[p]: the SIGBPF signals queued for p, oldest first.
    alive,      \* alive[p]: process p has neither exited nor been killed.
    doubled     \* Whether an object was ever given to one more holder: a
                \* history of NfRx and of RxOverrun, which nothing reads but
                \* the pool, whose order it ends.

sharedVars == <<txn, signals, alive, doubled>>

Transaction ==
    [request : Request \union {None},   \* Whose bytes are in the buffer.
     sockfd  : Nat,
     route   : DOMAIN Route,
     hop     : Nat]

Signal == [addr : Object, from : Proc]

SharedTypeOK ==
    /\ txn \in [Object -> Transaction]
    /\ signals \in [Proc -> Seq(Signal)]
    /\ alive \in [Proc -> BOOLEAN]
    /\ doubled \in BOOLEAN

(* The region is fresh: shm_open and ftruncate leave it zero.              *)
SharedInit ==
    /\ txn = [o \in Object |->
                 [request |-> None, sockfd |-> 0, route |-> 0, hop |-> 0]]
    /\ signals = [p \in Proc |-> <<>>]
    /\ alive = [p \in Proc |-> TRUE]
    /\ doubled = FALSE

(* route[i].hop[k], an array that is zero past the configured hops.        *)
HopAt(i, k) == IF k < Len(Route[i]) THEN Route[i][k + 1] ELSE 0

(* A process goes: its queued signals go with it, its objects stay.        *)
Exit(p) ==
    /\ alive' = [alive EXCEPT ![p] = FALSE]
    /\ signals' = [signals EXCEPT ![p] = <<>>]

\* Mutant of TransferOwnership: the address is sent twice.
SignalledTwice(p, o, q) ==
    LET m == [addr |-> o, from |-> p]
    IN  /\ signals' = [signals EXCEPT ![q] = @ \o <<m, m>>]
        /\ UNCHANGED alive

\* Mutant of TransferOwnership: a signal that is not queued when one of its
\* number is pending, as with a number below SIGRTMIN.
NotQueued(p, o, q) ==
    /\ signals' = [signals EXCEPT ![q] =
                      IF @ = <<>> THEN <<[addr |-> o, from |-> p]>> ELSE @]
    /\ UNCHANGED alive

(***************************************************************************)
(* transfer_ownership: p signals q with the address o.  A q that is not in *)
(* p's hash table is not signalled and the address is dropped, with the    *)
(* same result 0; p exits when sigqueue fails, because q is gone or as     *)
(* many signals as the user may have are queued, in whichever processes.   *)
(***************************************************************************)
TransferOwnership(p, o, q) ==
    \/ /\ q \in Known[p] /\ alive[q]
       /\ signals' = [signals EXCEPT ![q] = Append(@, [addr |-> o, from |-> p])]
       /\ UNCHANGED alive
    \/ /\ q \in Known[p]
       /\ ~alive[q] \/ Limited
       /\ Exit(p)
    \/ /\ q \notin Known[p]
       /\ UNCHANGED <<signals, alive>>

(***************************************************************************)
(* wait_for_ownership: p takes the oldest signal.  The result is the       *)
(* object it names when the sender is in p's hash table; otherwise the     *)
(* caller's pointer stays what it was.  A table has one pid for a slot, so *)
(* a sender whose slot another pid has overwritten is not in it.           *)
(***************************************************************************)
CanWait(p) == alive[p] /\ signals[p] # <<>>

Accepted(p) == Head(signals[p]).from \in Known[p]

Awaited(p, before) == IF Accepted(p) THEN Head(signals[p]).addr ELSE before

Consume(p) ==
    /\ signals' = [signals EXCEPT ![p] = Tail(@)]
    /\ UNCHANGED alive

=============================================================================
