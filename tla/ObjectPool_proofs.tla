-------------------------- MODULE ObjectPool_proofs --------------------------
(***************************************************************************)
(* Proofs about the object pool, for every size of the ring and every      *)
(* limit below that size.  The argument: the slots from head to tail and   *)
(* the objects in use always add up to the N - 1 addresses in circulation  *)
(* (Balanced), so a limit below N leaves a free slot under head whenever   *)
(* allocate_object gets past its check, and a free slot holds an address   *)
(* that nobody uses (FreeIsFree).                                          *)
(***************************************************************************)
EXTENDS ObjectPool, FiniteSetTheorems, TLAPS

(* The objects in use are finitely many.                                   *)
LEMMA InUseFinite == IsFiniteSet(InUse) /\ Cardinality(InUse) \in Nat
<1>1. IsFiniteSet(Object)
  BY FS_Interval, NAssumption DEF Object
<1>2. InUse \subseteq Object
  BY DEF InUse
<1>. QED  BY <1>1, <1>2, FS_Subset, FS_CardinalityType

(* Masking is reduction modulo the size of the ring, for the one step past *)
(* the last index that the code takes.                                     *)
LEMMA MaskedIndex ==
    ASSUME NEW i \in Index
    PROVE  Masked(i + 1) \in Index
  BY NAssumption DEF Masked, Index

(* Distances are taken round the ring: each index has its own.             *)
LEMMA DistanceType ==
    ASSUME TypeOK
    PROVE  /\ \A i \in Index : Distance(i) \in Index
           /\ \A i, j \in Index : Distance(i) = Distance(j) => i = j
           /\ End \in Index
           /\ Available \in Index
  BY NAssumption DEF TypeOK, Distance, Index, End, Available

LEMMA InitInv == Init => IInv
<1>. SUFFICES ASSUME Init PROVE IInv
  OBVIOUS
<1>1. TypeOK
  BY NAssumption DEF Init, TypeOK, Index, Object
<1>2. InUse = {}
  BY DEF Init, InUse
<1>3. Cardinality(InUse) = 0
  BY <1>2, FS_EmptySet
<1>4. Available = N - 1
  BY NAssumption DEF Init, Available, Distance, End
<1>5. Balanced
  BY <1>3, <1>4, NAssumption DEF Balanced
<1>6. FreeIsFree
  BY DEF Init, FreeIsFree, Free, Object, Index
<1>7. NoneLost
  <2>. SUFFICES ASSUME NEW o \in 0 .. N - 2 PROVE \E i \in Free : ring[i] = o
    BY DEF NoneLost
  <2>1. o \in Index /\ Distance(o) = o
    BY NAssumption DEF Init, Distance, Index
  <2>2. o \in Free
    BY <2>1, <1>4, NAssumption DEF Free
  <2>. QED  BY <2>1, <2>2 DEF Init
<1>. QED
  BY <1>1, <1>5, <1>6, <1>7 DEF IInv, Init, Releasing, Allocating, ExclusiveUse

(* A step of the allocating thread keeps the invariant.                    *)
LEMMA AllocateInv ==
    ASSUME Limit < N, IInv, Allocate
    PROVE  IInv'
<1>. USE NAssumption, LimitAssumption
<1>0. TypeOK /\ Cardinality(InUse) \in Nat /\ Available \in Index /\ End \in Index
  BY InUseFinite, DistanceType DEF IInv
<1>1. CASE AllocateCheck
  <2>1. /\ UNCHANGED <<head, tail, ring, tx, back, end, stored, uses, taken>>
        /\ Cardinality(InUse) < Limit /\ rx' = "load"
    BY <1>1 DEF AllocateCheck
  <2>2. InUse' = InUse /\ Available' = Available /\ Free' = Free
    BY <2>1 DEF InUse, Available, Distance, End, Free
  <2>3. Allocating' /\ Releasing' /\ Balanced'
    BY <2>1, <2>2 DEF IInv, Allocating, Releasing, Balanced
  <2>. QED
    BY <2>1, <2>2, <2>3 DEF IInv, TypeOK, FreeIsFree, ExclusiveUse, NoneLost
<1>2. CASE AllocateRefused
  <2>1. /\ UNCHANGED <<head, tail, ring, tx, back, end, stored, uses, taken>>
        /\ rx' = "ended"
    BY <1>2 DEF AllocateRefused
  <2>2. InUse' = InUse /\ Available' = Available /\ Free' = Free
    BY <2>1 DEF InUse, Available, Distance, End, Free
  <2>3. Allocating' /\ Releasing' /\ Balanced'
    BY <2>1, <2>2 DEF IInv, Allocating, Releasing, Balanced
  <2>. QED
    BY <2>1, <2>2, <2>3 DEF IInv, TypeOK, FreeIsFree, ExclusiveUse, NoneLost
<1>3. CASE AllocateLoad
  <2>1. /\ UNCHANGED <<head, tail, ring, tx, back, end, stored, uses>>
        /\ rx = "load" /\ rx' = "commit" /\ taken' = ring[head]
    BY <1>3 DEF AllocateLoad
  <2>2. InUse' = InUse /\ Available' = Available /\ Free' = Free
    BY <2>1 DEF InUse, Available, Distance, End, Free
  <2>3. Allocating' /\ Releasing' /\ Balanced'
    BY <2>1, <2>2 DEF IInv, Allocating, Releasing, Balanced
  <2>. QED
    BY <1>0, <2>1, <2>2, <2>3 DEF IInv, TypeOK, FreeIsFree, ExclusiveUse, NoneLost
<1>4. CASE AllocateCommit
  <2>1. /\ UNCHANGED <<tail, ring, tx, back, end, stored, taken>>
        /\ rx = "commit" /\ rx' = "idle"
        /\ head' = Masked(head + 1)
        /\ uses' = [uses EXCEPT ![taken] = @ + 1]
        /\ taken = ring[head]
        /\ Cardinality(InUse) < Limit
    BY <1>4 DEF AllocateCommit, NextHead, IInv, Allocating
  <2>2. Distance(head) = 0 /\ Available > 0 /\ head \in Free
    BY <1>0, <2>1 DEF IInv, Balanced, Distance, Free, TypeOK, Index
  <2>3. taken \in Object /\ uses[taken] = 0
    BY <2>1, <2>2 DEF IInv, FreeIsFree, TypeOK
  <2>4. TypeOK'
    BY <1>0, <2>1, <2>3, MaskedIndex DEF TypeOK
  <2>5. \A i \in Index : Distance(i)' = IF i = head THEN N - 1 ELSE Distance(i) - 1
    BY <1>0, <2>1 DEF TypeOK, Distance, Masked, Index
  <2>6. End' = End
    BY <2>1 DEF End
  <2>7. Available' = Available - 1
    BY <1>0, <2>2, <2>5, <2>6 DEF Available
  <2>8. Free' = Free \ {head}
    BY <1>0, <2>2, <2>5, <2>7, DistanceType DEF Free, Index
  <2>9. InUse' = InUse \union {taken} /\ taken \notin InUse
    BY <1>0, <2>1, <2>3 DEF InUse, TypeOK
  <2>10. Cardinality(InUse)' = Cardinality(InUse) + 1
    BY <2>9, InUseFinite, FS_AddElement
  <2>11. Balanced'
    BY <1>0, <2>7, <2>10 DEF IInv, Balanced, Index
  <2>12. \A i \in Free' : ring[i] # taken /\ ring[i] \in Object
    BY <1>0, <2>1, <2>2, <2>8 DEF IInv, FreeIsFree, Free, TypeOK
  <2>13. FreeIsFree'
    BY <1>0, <2>1, <2>8, <2>12 DEF IInv, FreeIsFree, TypeOK
  <2>14. ExclusiveUse'
    BY <1>0, <2>1, <2>3 DEF IInv, ExclusiveUse, TypeOK
  <2>15. NoneLost'
    BY <1>0, <2>1, <2>3, <2>8 DEF IInv, NoneLost, TypeOK, Object
  <2>16. Releasing' /\ Allocating'
    BY <1>0, <2>1, <2>3 DEF IInv, Releasing, Allocating, TypeOK
  <2>. QED
    BY <2>4, <2>11, <2>13, <2>14, <2>15, <2>16 DEF IInv
<1>. QED  BY <1>1, <1>2, <1>3, <1>4 DEF Allocate

(* A step of the releasing thread keeps the invariant.                     *)
LEMMA ReleaseInv ==
    ASSUME Limit < N, IInv, Release
    PROVE  IInv'
<1>. USE NAssumption, LimitAssumption
<1>0. TypeOK /\ Cardinality(InUse) \in Nat /\ Available \in Index /\ End \in Index
  BY InUseFinite, DistanceType DEF IInv
<1>1. ASSUME NEW o \in Object, ReleaseCheck(o) PROVE IInv'
  <2>1. /\ UNCHANGED <<head, tail, ring, rx, taken>>
        /\ tx = "idle" /\ uses[o] > 0
    BY <1>1 DEF ReleaseCheck
  <2>2. o \in InUse
    BY <2>1 DEF InUse
  <2>3. Cardinality(InUse) > 0
    BY <1>0, <2>2, InUseFinite, FS_EmptySet
  <2>4. ~SeemsFull(tail)
    BY <1>0, <2>1, <2>3
       DEF IInv, Balanced, Available, Distance, End, SeemsFull, NextTail, Masked, TypeOK, Index
  <2>5. /\ tx' = "store" /\ back' = o /\ end' = tail /\ stored' = {}
        /\ UNCHANGED uses
    BY <1>1, <2>4 DEF ReleaseCheck
  <2>6. End' = End /\ InUse' = InUse
    BY <2>1, <2>5 DEF End, InUse
  <2>7. Available' = Available /\ Free' = Free
    BY <2>1, <2>6 DEF Available, Distance, Free
  <2>8. TypeOK'
    BY <1>0, <2>1, <2>5 DEF TypeOK
  <2>9. Allocating' /\ Releasing' /\ Balanced'
    BY <2>1, <2>5, <2>6, <2>7 DEF IInv, Allocating, Releasing, Balanced
  <2>. QED
    BY <2>1, <2>5, <2>7, <2>8, <2>9 DEF IInv, FreeIsFree, ExclusiveUse, NoneLost
<1>2. CASE StoreSlot
  <2>1. /\ UNCHANGED <<head, tail, rx, taken, tx, back, end, uses>>
        /\ tx = "store"
        /\ ring' = [ring EXCEPT ![end] = back]
        /\ stored' = stored \union {"slot"}
    BY <1>2 DEF StoreSlot, Slot
  <2>2. InUse' = InUse /\ Available' = Available /\ Free' = Free
    BY <2>1 DEF InUse, Available, Distance, End, Free
  <2>3. end \notin Free
    BY <1>0, <2>1 DEF Free, Available, End, Index
  <2>4. \A i \in Free : ring'[i] = ring[i]
    BY <1>0, <2>1, <2>3 DEF Free, TypeOK
  <2>5. TypeOK'
    BY <1>0, <2>1 DEF TypeOK
  <2>6. rx = "commit" => head \in Free
    BY <1>0 DEF IInv, Allocating, Balanced, Distance, Free, TypeOK, Index
  <2>7. Allocating' /\ Releasing' /\ Balanced'
    BY <1>0, <2>1, <2>2, <2>4, <2>6 DEF IInv, Allocating, Releasing, Balanced, TypeOK
  <2>. QED
    BY <2>1, <2>2, <2>4, <2>5, <2>7 DEF IInv, FreeIsFree, ExclusiveUse, NoneLost
<1>3. CASE StoreTail
  <2>1. /\ UNCHANGED <<head, ring, rx, taken, tx, back, end, uses>>
        /\ tx = "store"
        /\ tail' = Masked(end + 1)
        /\ stored' = stored \union {"tail"}
    BY <1>3 DEF StoreTail, NextTail
  <2>2. End' = End /\ InUse' = InUse
    BY <2>1 DEF End, InUse
  <2>3. Available' = Available /\ Free' = Free
    BY <2>1, <2>2 DEF Available, Distance, Free
  <2>4. TypeOK'
    BY <1>0, <2>1, MaskedIndex DEF TypeOK
  <2>5. Allocating' /\ Releasing' /\ Balanced'
    BY <2>1, <2>2, <2>3 DEF IInv, Allocating, Releasing, Balanced
  <2>. QED
    BY <2>1, <2>3, <2>4, <2>5 DEF IInv, FreeIsFree, ExclusiveUse, NoneLost
<1>4. CASE ReleaseReturn
  <2>1. /\ UNCHANGED <<head, tail, ring, rx, taken, back, end, stored>>
        /\ tx = "store" /\ tx' = "idle"
        /\ stored = {"slot", "tail"}
        /\ uses' = [uses EXCEPT ![back] = @ - 1]
    BY <1>4 DEF ReleaseReturn
  <2>2. tail = Masked(end + 1) /\ ring[end] = back /\ uses[back] = 1
    BY <1>0, <2>1 DEF IInv, Releasing, ExclusiveUse, TypeOK
  <2>3. TypeOK'
    BY <1>0, <2>1, <2>2 DEF TypeOK
  <2>4. InUse' = InUse \ {back} /\ back \in InUse
    BY <1>0, <2>1, <2>2 DEF InUse, TypeOK
  <2>5. Cardinality(InUse)' = Cardinality(InUse) - 1 /\ Cardinality(InUse) > 0
    BY <1>0, <2>4, InUseFinite, FS_RemoveElement, FS_EmptySet
  <2>6. Available < N - 1 /\ End = end /\ End' = Masked(end + 1)
    BY <1>0, <2>1, <2>2, <2>5 DEF IInv, Balanced, End, Index
  <2>7. \A i \in Index : Distance(i)' = Distance(i)
    BY <2>1 DEF Distance
  <2>8. Available' = Available + 1
    BY <1>0, <2>1, <2>6 DEF Available, Distance, Masked, TypeOK, Index
  <2>9. Distance(end) = Available /\ end \in Index
    BY <1>0, <2>6 DEF Available
  <2>10. Free' = Free \union {end}
    BY <1>0, <2>7, <2>8, <2>9, DistanceType DEF Free, Index
  <2>11. Balanced'
    BY <1>0, <2>5, <2>8 DEF IInv, Balanced, Index
  <2>12. \A i \in Free : ring[i] # back /\ ring[i] \in Object
    BY <1>0, <2>2 DEF IInv, FreeIsFree, Free, TypeOK
  <2>13. FreeIsFree'
    BY <1>0, <2>1, <2>2, <2>10, <2>12 DEF IInv, FreeIsFree, TypeOK
  <2>14. ExclusiveUse'
    BY <1>0, <2>1, <2>2 DEF IInv, ExclusiveUse, TypeOK
  <2>15. NoneLost'
    BY <1>0, <2>1, <2>2, <2>10 DEF IInv, NoneLost, TypeOK, Object
  <2>16. Releasing'
    BY <2>1 DEF Releasing
  <2>17. Allocating'
    BY <1>0, <2>1, <2>5 DEF IInv, Allocating
  <2>. QED
    BY <2>3, <2>11, <2>13, <2>14, <2>15, <2>16, <2>17 DEF IInv
<1>. QED  BY <1>1, <1>2, <1>3, <1>4 DEF Release

LEMMA StutterInv ==
    ASSUME IInv, UNCHANGED vars
    PROVE  IInv'
<1>1. /\ UNCHANGED <<head, tail, ring, rx, taken, tx, back, end, stored, uses>>
      /\ InUse' = InUse /\ Available' = Available /\ Free' = Free
  BY DEF vars, InUse, Available, Distance, End, Free
<1>2. TypeOK' /\ FreeIsFree' /\ ExclusiveUse' /\ NoneLost'
  BY <1>1 DEF IInv, TypeOK, FreeIsFree, ExclusiveUse, NoneLost
<1>3. Releasing' /\ Allocating' /\ Balanced'
  BY <1>1 DEF IInv, Releasing, Allocating, Balanced
<1>. QED  BY <1>2, <1>3 DEF IInv

(***************************************************************************)
(* The inductive invariant holds of every behaviour of the pool, whatever  *)
(* the size of the ring, as long as fewer than N objects are asked for.    *)
(***************************************************************************)
THEOREM Invariance ==
    ASSUME Limit < N
    PROVE  Spec => []IInv
<1>1. IInv /\ [Next]_vars => IInv'
  BY AllocateInv, ReleaseInv, StutterInv DEF Next
<1>. QED  BY <1>1, InitInv, PTL DEF Spec

(* The variables of the pool keep their types.                             *)
THEOREM TypeCorrect ==
    ASSUME Limit < N
    PROVE  Spec => []TypeOK
<1>1. IInv => TypeOK
  BY DEF IInv
<1>. QED  BY <1>1, Invariance, PTL

(* An object never carries two transactions: what allocate_object hands    *)
(* out is in nobody's hands, in every interleaving of the two threads and  *)
(* either order of the stores of release_object.                           *)
THEOREM Exclusive ==
    ASSUME Limit < N
    PROVE  Spec => []ExclusiveUse
<1>1. IInv => ExclusiveUse
  BY DEF IInv
<1>. QED  BY <1>1, Invariance, PTL

(* Every address in circulation stays in a free slot or in use.            *)
THEOREM Conservation ==
    ASSUME Limit < N
    PROVE  Spec => []NoneLost
<1>1. IInv => NoneLost
  BY DEF IInv
<1>. QED  BY <1>1, Invariance, PTL

(* allocate_object and release_object never access one slot at once.       *)
THEOREM SlotsApart ==
    ASSUME Limit < N
    PROVE  Spec => []NoSlotRace
<1>1. IInv => NoSlotRace
  <2>. SUFFICES ASSUME IInv, rx = "load", tx = "store", head = end PROVE FALSE
    BY DEF NoSlotRace
  <2>1. Available = 0
    BY DEF Available, End, Distance, IInv, TypeOK, Index
  <2>2. Available > 0
    BY InUseFinite, DistanceType, NAssumption, LimitAssumption
       DEF IInv, Allocating, Balanced, Index
  <2>. QED  BY <2>1, <2>2
<1>. QED  BY <1>1, Invariance, PTL

(* release_object of an object in use never reports an overflow, which its *)
(* caller would not notice.                                                *)
THEOREM ReleaseSucceeds ==
    ASSUME Limit < N
    PROVE  Spec => []NeverFull
<1>1. IInv => NeverFull
  <2>. SUFFICES ASSUME IInv, tx = "idle", InUse # {} PROVE ~SeemsFull(tail)
    BY DEF NeverFull
  <2>1. Cardinality(InUse) > 0
    BY InUseFinite, FS_EmptySet
  <2>. QED
    BY <2>1, InUseFinite, DistanceType, NAssumption
       DEF IInv, Balanced, Available, Distance, End, SeemsFull, NextTail, Masked,
           TypeOK, Index
<1>. QED  BY <1>1, Invariance, PTL

(* allocate_object answers -1, the answer that ends server_process_rx,     *)
(* only when at most one object is left: whatever the order in which the   *)
(* stores of release_object are seen.                                      *)
THEOREM AllocateSucceeds ==
    ASSUME Limit < N
    PROVE  Spec => []RefusedWhenOut
<1>. USE NAssumption, LimitAssumption
<1>1. IInv => RefusedWhenOut
  <2>. SUFFICES ASSUME IInv, head + 1 = tail PROVE Available <= 1
    BY InUseFinite, DistanceType DEF RefusedWhenOut, SeemsEmpty, IInv, Balanced, Index
  <2>1. CASE tx = "store" /\ "tail" \in stored
    <3>1. tail = Masked(end + 1) /\ end \in Index /\ head \in Index
      BY <2>1 DEF IInv, Releasing, TypeOK
    <3>2. end = head
      BY <3>1 DEF Masked, Index
    <3>. QED  BY <2>1, <3>1, <3>2 DEF Available, Distance, End, Index
  <2>2. CASE ~(tx = "store" /\ "tail" \in stored)
    BY <2>2 DEF Available, Distance, End, IInv, Releasing, TypeOK, Index
  <2>. QED  BY <2>1, <2>2
<1>. QED  BY <1>1, Invariance, PTL

(***************************************************************************)
(* The ring implements the abstract pool: the only visible steps are the   *)
(* end of allocate_object, which takes an object out of no one's hands,    *)
(* and the end of release_object.                                          *)
(***************************************************************************)
THEOREM Refinement ==
    ASSUME Limit < N
    PROVE  Spec => PoolSpec
<1>. USE NAssumption, LimitAssumption
<1>1. Init => Abstract!Init
  BY DEF Init, Abstract!Init
<1>2. IInv /\ [Next]_vars => [Abstract!Next]_uses
  <2>. SUFFICES ASSUME IInv, [Next]_vars PROVE Abstract!Next \/ uses' = uses
    OBVIOUS
  <2>1. TypeOK
    BY DEF IInv
  <2>2. CASE uses' = uses
    BY <2>2
  <2>3. CASE AllocateCommit
    <3>1. head \in Free
      BY <2>3, InUseFinite, DistanceType
         DEF AllocateCommit, IInv, Allocating, Balanced, Distance, Free, TypeOK, Index
    <3>2. taken \in Object /\ uses[taken] = 0
      BY <2>3, <3>1 DEF AllocateCommit, IInv, Allocating, FreeIsFree, TypeOK
    <3>3. uses' = [uses EXCEPT ![taken] = 1]
      BY <2>1, <2>3, <3>2 DEF AllocateCommit, TypeOK
    <3>. QED  BY <3>2, <3>3 DEF Abstract!Next, Abstract!Take
  <2>4. CASE ReleaseReturn
    <3>1. back \in Object /\ uses[back] = 1
      BY <2>1, <2>4 DEF ReleaseReturn, IInv, Releasing, ExclusiveUse, TypeOK
    <3>2. uses' = [uses EXCEPT ![back] = 0]
      BY <2>1, <2>4, <3>1 DEF ReleaseReturn, TypeOK
    <3>. QED  BY <3>1, <3>2 DEF Abstract!Next, Abstract!Give
  <2>5. ASSUME NEW o \in Object, ReleaseCheck(o) PROVE uses' = uses
    <3>1. o \in InUse /\ tx = "idle"
      BY <2>5 DEF ReleaseCheck, InUse
    <3>2. Cardinality(InUse) > 0
      BY <3>1, InUseFinite, FS_EmptySet
    <3>3. ~SeemsFull(tail)
      BY <3>1, <3>2, InUseFinite, DistanceType
         DEF IInv, Balanced, Available, Distance, End, SeemsFull, NextTail, Masked,
             TypeOK, Index
    <3>. QED  BY <2>5, <3>3 DEF ReleaseCheck
  <2>. QED
    BY <2>2, <2>3, <2>4, <2>5
       DEF Next, Allocate, Release, AllocateCheck, AllocateRefused, AllocateLoad,
           StoreSlot, StoreTail, vars
<1>. QED  BY <1>1, <1>2, Invariance, PTL DEF Spec, PoolSpec, Abstract!Spec
=============================================================================
