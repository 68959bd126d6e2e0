----------------------------- MODULE ObjectPool -----------------------------
(***************************************************************************)
(* The object pool of src/sigbpf.c: a ring of free object addresses in     *)
(* shared memory, with a head from which allocate_object takes and a tail  *)
(* at which release_object puts back.  There is no lock and no barrier.    *)
(* One thread of the gateway allocates (server_process_rx) and another     *)
(* releases (server_process_tx), and they run on different cores, so the   *)
(* loads and stores of the two functions are the steps of this module.     *)
(* The compiler may exchange the two stores of release_object (gcc -O3,    *)
(* plain fields of a struct), hence StoreSlot and StoreTail in any order.  *)
(***************************************************************************)
EXTENDS Integers, FiniteSets

CONSTANTS
    N,      \* N_ELEMENTS, the size of the ring (a power of two).
    Limit   \* The most objects the gateway has in use at once.

ASSUME NAssumption == N \in Nat /\ N > 1
ASSUME LimitAssumption == Limit \in Nat

VARIABLES
    head,   \* ringbuff->head, written by the allocating thread only.
    tail,   \* ringbuff->tail, written by the releasing thread only.
    ring,   \* ringbuff->ringbuffer, the free addresses.
    rx,     \* The allocating thread: where it is in allocate_object.
    taken,  \* The address allocate_object has loaded from the ring.
    tx,     \* The releasing thread: where it is in release_object.
    back,   \* The address release_object is given.
    end,    \* ringbuff->tail as the running release_object has loaded it.
    stored, \* The stores the running release_object has made.
    uses    \* uses[o]: the transactions in flight in object o.

vars == <<head, tail, ring, rx, taken, tx, back, end, stored, uses>>

Index == 0 .. N - 1
Object == 0 .. N - 1

\* Mutant of Masked: the mask left out.
Unmasked(i) == i

(* i & N_MASK, for the i the ring computes: at most one past its last index. *)
Masked(i) == IF i = N THEN 0 ELSE i

(* The objects that carry a transaction. *)
InUse == {o \in Object : uses[o] > 0}

(***************************************************************************)
(* Plausible slips in the index arithmetic, which the properties below     *)
(* detect: a tail moved twice, a neighbouring slot written, an off-by-one  *)
(* in either guard.                                                        *)
(***************************************************************************)
TailMovedTwice(t) == Masked(Masked(t + 1) + 1)
NeighbourSlot(t) == Masked(t + 1)
EmptyOneEarly(h) == h + 2 = tail \/ h + 1 = tail
FullOneEarly(t) == Masked(Masked(t + 1) + 1) = head

(***************************************************************************)
(* sigbpf_mempool_create: every address is in the ring and the last one,   *)
(* in the slot of the tail, is out of circulation from the start.          *)
(***************************************************************************)
Init ==
    /\ head = 0
    /\ tail = N - 1
    /\ ring = [i \in Index |-> i]
    /\ rx = "idle" /\ taken = 0
    /\ tx = "idle" /\ back = 0 /\ end = 0 /\ stored = {}
    /\ uses = [o \in Object |-> 0]

(***************************************************************************)
(* allocate_object, called by conn_read.  new_h is compared before it is   *)
(* masked: when head is the last index the ring is never found empty.      *)
(***************************************************************************)
SeemsEmpty(h) == h + 1 = tail

(* The slot release_object writes and the tail it leaves. *)
Slot(t) == t
NextTail(t) == Masked(t + 1)

(* The head allocate_object leaves. *)
NextHead(h) == Masked(h + 1)

(* An object is left for the request: the caller has fewer than Limit in use. *)
AllocateCheck ==
    /\ rx = "idle"
    /\ Cardinality(InUse) < Limit
    /\ ~SeemsEmpty(head)
    /\ rx' = "load"
    /\ UNCHANGED <<head, tail, ring, taken, tx, back, end, stored, uses>>

(* No object: -1 ends conn_read, event_process and server_process_rx. *)
AllocateRefused ==
    /\ rx = "idle"
    /\ Cardinality(InUse) < Limit
    /\ SeemsEmpty(head)
    /\ rx' = "ended"
    /\ UNCHANGED <<head, tail, ring, taken, tx, back, end, stored, uses>>

AllocateLoad ==
    /\ rx = "load"
    /\ taken' = ring[head]
    /\ rx' = "commit"
    /\ UNCHANGED <<head, tail, ring, tx, back, end, stored, uses>>

AllocateCommit ==
    /\ rx = "commit"
    /\ head' = NextHead(head)
    /\ uses' = [uses EXCEPT ![taken] = @ + 1]
    /\ rx' = "idle"
    /\ UNCHANGED <<tail, ring, taken, tx, back, end, stored>>

(***************************************************************************)
(* release_object, called by server_process_tx with the address of a       *)
(* transaction it has answered.  The caller ignores the result, so an      *)
(* address refused here is in the ring no more and in use no more.         *)
(***************************************************************************)
SeemsFull(t) == NextTail(t) = head

ReleaseCheck(o) ==
    /\ tx = "idle"
    /\ uses[o] > 0
    /\ IF SeemsFull(tail)
       THEN /\ uses' = [uses EXCEPT ![o] = @ - 1]
            /\ UNCHANGED <<tx, back, end, stored>>
       ELSE /\ tx' = "store"
            /\ back' = o
            /\ end' = tail
            /\ stored' = {}
            /\ UNCHANGED uses
    /\ UNCHANGED <<head, tail, ring, rx, taken>>

StoreSlot ==
    /\ tx = "store"
    /\ "slot" \notin stored
    /\ ring' = [ring EXCEPT ![Slot(end)] = back]
    /\ stored' = stored \union {"slot"}
    /\ UNCHANGED <<head, tail, rx, taken, tx, back, end, uses>>

StoreTail ==
    /\ tx = "store"
    /\ "tail" \notin stored
    /\ tail' = NextTail(end)
    /\ stored' = stored \union {"tail"}
    /\ UNCHANGED <<head, ring, rx, taken, tx, back, end, uses>>

ReleaseReturn ==
    /\ tx = "store"
    /\ stored = {"slot", "tail"}
    /\ uses' = [uses EXCEPT ![back] = @ - 1]
    /\ tx' = "idle"
    /\ UNCHANGED <<head, tail, ring, rx, taken, back, end, stored>>

-----------------------------------------------------------------------------
Allocate == AllocateCheck \/ AllocateRefused \/ AllocateLoad \/ AllocateCommit

Release ==
    \/ \E o \in Object : ReleaseCheck(o)
    \/ StoreSlot
    \/ StoreTail
    \/ ReleaseReturn

Next == Allocate \/ Release

Spec == Init /\ [][Next]_vars
-----------------------------------------------------------------------------
(***************************************************************************)
(* The slots that hold a free address: from head up to the tail as it was  *)
(* before the release that is under way.                                   *)
(***************************************************************************)
End == IF tx = "store" THEN end ELSE tail
Distance(i) == IF i >= head THEN i - head ELSE i - head + N
Available == Distance(End)
Free == {i \in Index : Distance(i) < Available}

(* The variables keep their types.                                         *)
TypeOK ==
    /\ head \in Index
    /\ tail \in Index
    /\ ring \in [Index -> Object]
    /\ rx \in {"idle", "load", "commit", "ended"}
    /\ taken \in Object
    /\ tx \in {"idle", "store"}
    /\ back \in Object
    /\ end \in Index
    /\ stored \subseteq {"slot", "tail"}
    /\ uses \in [Object -> Nat]

(* An object carries at most one transaction: allocate_object never hands  *)
(* out an address that the services of another request still work on,      *)
(* whatever the order in which the stores of release_object are seen.      *)
ExclusiveUse == \A o \in Object : uses[o] <= 1

(* No object is lost: each address the ring started with is in a slot      *)
(* from head to tail or carries a transaction.                             *)
NoneLost == \A o \in 0 .. N - 2 : uses[o] > 0 \/ \E i \in Free : ring[i] = o

(* The two threads never touch the same slot at the same time: while       *)
(* allocate_object is about to load the slot at head, the store of         *)
(* release_object is to another slot.                                      *)
NoSlotRace == ~(rx = "load" /\ tx = "store" /\ head = end)

(* server_process_tx may ignore the result of release_object: the ring is  *)
(* never found full by the release of an object that is in use.            *)
NeverFull == (tx = "idle" /\ InUse # {}) => ~SeemsFull(tail)

(* server_process_rx, which a refused allocation ends for good, is refused *)
(* one only when all but at most one of the objects in circulation are in  *)
(* use: a tail that is stored late never makes a full pool look empty.     *)
RefusedWhenOut == SeemsEmpty(head) => Cardinality(InUse) >= N - 2

(* When every address in circulation is in use the allocating thread finds *)
(* the ring empty, so that conn_read gets no object and says so.           *)
EmptyIsSeen ==
    (rx = "idle" /\ tx = "idle" /\ InUse = 0 .. N - 2) => SeemsEmpty(head)

(* Every step on the ring is a Take, a Give or no step at all of Pool.     *)
Abstract == INSTANCE Pool
PoolSpec == Abstract!Spec
-----------------------------------------------------------------------------
(***************************************************************************)
(* The inductive invariant behind the properties above, for Limit < N.     *)
(***************************************************************************)

(* The releasing thread holds the transaction it is about to give back,    *)
(* and its stores so far have had their effect.                            *)
Releasing ==
    tx = "store" =>
        /\ tail = IF "tail" \in stored THEN Masked(end + 1) ELSE end
        /\ "slot" \in stored => ring[end] = back
        /\ uses[back] > 0

(* The allocating thread was let in below the limit, and the address it    *)
(* has loaded is still the one at head.                                    *)
Allocating ==
    /\ rx \in {"load", "commit"} => Cardinality(InUse) < Limit
    /\ rx = "commit" => taken = ring[head]

(* The free slots and the objects in use make up the circulation.          *)
Balanced == Available + Cardinality(InUse) = N - 1

(* The free slots hold different addresses, none of them in use.           *)
FreeIsFree ==
    \A i \in Free :
        /\ uses[ring[i]] = 0
        /\ \A j \in Free : ring[i] = ring[j] => i = j

IInv ==
    /\ TypeOK
    /\ Releasing
    /\ Allocating
    /\ Balanced
    /\ FreeIsFree
    /\ ExclusiveUse
    /\ NoneLost
=============================================================================
