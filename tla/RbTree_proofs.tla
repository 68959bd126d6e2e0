--------------------------- MODULE RbTree_proofs ---------------------------
(***************************************************************************)
(* Proofs about the red-black tree and the map, for any integers as keys,  *)
(* any values and any memory.  The argument: the tree is described by two  *)
(* functions that the code does not have, what is under a node (Shape) and *)
(* how many black nodes are on each way down from it (Balanced).  Rotating *)
(* and painting change both in a way that can be written down, so that the *)
(* loops of both fix-ups have invariants (InsertInv, RemoveInv).  A loop   *)
(* that goes through the tree has what lies under the place where it is as *)
(* its measure: it ends before Memory turns are over.  The map follows     *)
(* from the keys at the nodes (Matches).                                   *)
(***************************************************************************)
EXTENDS RbTree, FiniteSetTheorems, WellFoundedInduction, TLAPS

(* A set of numbers has a least one. *)
LEMMA Least ==
    ASSUME NEW S \in SUBSET Nat, S # {}
    PROVE  \E x \in S : \A y \in S : x <= y
<1>. DEFINE Up(x) == 1 .. x
            T == {Up(x) : x \in S}
<1>1. T \subseteq FiniteSubsetsOf(Nat)
  <2>1. \A x \in S : IsFiniteSet(Up(x)) /\ Up(x) \in SUBSET Nat
    BY FS_Interval
  <2>. QED  BY <2>1 DEF FiniteSubsetsOf
<1>2. T # {}
  OBVIOUS
<1>3. PICK U \in T : \A V \in T : <<V, U>> \notin StrictSubsetOrdering(Nat)
  BY <1>1, <1>2, FS_StrictSubsetOrderingWellFounded, WFMin
<1>4. PICK x \in S : U = Up(x)
  OBVIOUS
<1>5. ASSUME NEW y \in S PROVE x <= y
  <2>1. <<Up(y), Up(x)>> \notin StrictSubsetOrdering(Nat)
    BY <1>3, <1>4
  <2>2. SUFFICES ASSUME y < x PROVE FALSE
    BY y \in Nat, x \in Nat
  <2>3. x \in Up(x) /\ x \notin Up(y) /\ Up(y) \subseteq Up(x) /\ Up(x) \subseteq Nat
    BY <2>2
  <2>. QED  BY <2>1, <2>3 DEF StrictSubsetOrdering
<1>. QED  BY <1>5

(* Induction, for what can be said of a number by its being in a set.      *)
LEMMA Induct ==
    ASSUME NEW n \in Nat, NEW G, 0 \in G, \A k \in 0 .. n - 1 : k \in G => k + 1 \in G
    PROVE  \A k \in 0 .. n : k \in G
<1>. DEFINE S == {k \in 0 .. n : k \notin G}
<1>1. SUFFICES ASSUME S # {} PROVE FALSE
  OBVIOUS
<1>2. PICK k \in S : \A y \in S : k <= y
  <2>1. S \in SUBSET Nat /\ S # {}
    BY <1>1
  <2>. HIDE DEF S
  <2>. QED  BY <2>1, Least
<1>3. k # 0 /\ k - 1 \in 0 .. n - 1 /\ k - 1 \notin S
  BY <1>2
<1>. QED  BY <1>2, <1>3

(* What a loop whose turns lead from T[k - 1] to T[k] has after each turn. *)
Looped(n, X, T, start, step) ==
    \E f \in [0 .. n -> X] :
       f[0] = start /\ \A k \in 1 .. n : f[k - 1] \in T[k - 1] /\ f[k] = step[f[k - 1]]

LEMMA LoopExists ==
    ASSUME NEW n \in Nat, NEW X, NEW T, \A k \in 0 .. n : T[k] \subseteq X,
           NEW start \in T[0], NEW step,
           \A k \in 1 .. n : \A s \in T[k - 1] : step[s] \in T[k]
    PROVE  Looped(n, X, T, start, step)
<1>. DEFINE Good(m, f) == f[0] = start /\ (\A k \in 1 .. m : f[k] = step[f[k - 1]]) /\ f[m] \in T[m]
            G == {m \in 0 .. n : \E f \in [0 .. m -> X] : Good(m, f)}
<1>1. 0 \in G
  <2>. DEFINE f == [k \in 0 .. 0 |-> start]
  <2>1. f \in [0 .. 0 -> X] /\ f[0] = start
    OBVIOUS
  <2>. HIDE DEF f
  <2>. QED  BY <2>1
<1>2. ASSUME NEW m \in 0 .. n - 1, m \in G PROVE m + 1 \in G
  <2>1. PICK f \in [0 .. m -> X] : Good(m, f)
    BY <1>2
  <2>2. step[f[m]] \in T[m + 1] /\ step[f[m]] \in X
    BY <2>1
  <2>. DEFINE g == [k \in 0 .. m + 1 |-> IF k = m + 1 THEN step[f[m]] ELSE f[k]]
  <2>3. g \in [0 .. m + 1 -> X]
    BY <2>2
  <2>4. g[0] = start
    BY <2>1
  <2>5. \A k \in 1 .. m + 1 : g[k] = step[g[k - 1]]
    BY <2>1
  <2>6. g[m + 1] \in T[m + 1]
    BY <2>2
  <2>. HIDE DEF g
  <2>. QED  BY <2>3, <2>4, <2>5, <2>6
<1>. HIDE DEF G
<1>3. n \in G
  <2>1. \A k \in 0 .. n - 1 : k \in G => k + 1 \in G
    BY <1>2
  <2>2. \A k \in 0 .. n : k \in G
    BY <1>1, <2>1, Induct
  <2>. QED  BY <2>2
<1>4. PICK f \in [0 .. n -> X] : f[0] = start /\ \A k \in 1 .. n : f[k] = step[f[k - 1]]
  BY <1>3 DEF G
<1>. DEFINE H == {k \in 0 .. n : f[k] \in T[k]}
<1>5. 0 \in H /\ \A k \in 0 .. n - 1 : k \in H => k + 1 \in H
  BY <1>4
<1>6. \A k \in 0 .. n : k \in H
  <2>. HIDE DEF H
  <2>. QED  BY <1>5, Induct
<1>7. \A k \in 1 .. n : f[k - 1] \in T[k - 1]
  BY <1>6
<1>. QED  BY <1>4, <1>7 DEF Looped

LEMMA LoopStays ==
    ASSUME NEW n \in Nat, NEW T, NEW f, f[0] \in T[0],
           \A k \in 1 .. n : f[k - 1] \in T[k - 1] => f[k] \in T[k]
    PROVE  f[n] \in T[n]
<1>. DEFINE G == {k \in 0 .. n : f[k] \in T[k]}
<1>1. 0 \in G /\ \A k \in 0 .. n - 1 : k \in G => k + 1 \in G
  OBVIOUS
<1>. HIDE DEF G
<1>2. n \in G
  BY <1>1, Induct
<1>. QED  BY <1>2 DEF G

-----------------------------------------------------------------------------
(* The tree as a shape. *)

Side == {"left", "right"}
Spot == {Sentinel} \union Place
Value == {Null} \union UNION {ValueOf[k] : k \in Key}
NodeType == [left : Spot, right : Spot, parent : Spot \union {Null}, red : BOOLEAN,
             key : Int, value : Value]
Trees == [root : Spot, used : SUBSET Place, node : [Spot -> NodeType]]

(* The nodes N hang together below the root, each with its link back, and  *)
(* under[x] is what is under x, with x itself: no node twice.              *)
Links(t, N) ==
    /\ N \subseteq Place
    /\ t.root \in N \union {Sentinel}
    /\ t.root # Sentinel => t.node[t.root].parent = Null
    /\ ~t.node[Sentinel].red
    /\ \A x \in N, s \in Side :
        /\ t.node[x][s] \in N \union {Sentinel}
        /\ t.node[x][s] # Sentinel => t.node[t.node[x][s]].parent = x
    /\ \A x \in N :
        x # t.root => t.node[x].parent \in N /\ \E s \in Side : t.node[t.node[x].parent][s] = x

Unders(t, N, under) ==
    /\ under \in [Spot -> SUBSET N]
    /\ under[Sentinel] = {} /\ under[t.root] = N
    /\ \A x \in N :
        LET left == under[t.node[x].left]
            right == under[t.node[x].right]
        IN  /\ under[x] = {x} \union left \union right
            /\ x \notin left \union right /\ left \intersect right = {}

Before(side, j, k) == IF side = "left" THEN j < k ELSE k < j

Ordered(t, N, under) ==
    \A x \in N, s \in Side : \A y \in under[t.node[x][s]] :
        Before(s, t.node[y].key, t.node[x].key)

Shape(t, N, under) ==
    t \in Trees /\ Links(t, N) /\ Unders(t, N, under) /\ Ordered(t, N, under)

LEMMA Sides == \A s \in Side : Other(s) \in Side /\ Other(s) # s /\ Other(Other(s)) = s
  BY DEF Side, Other

(* The children of a node, by side. *)
LEMMA Children ==
    ASSUME NEW t, NEW N, NEW under, Shape(t, N, under), NEW x \in N, NEW s \in Side
    PROVE  LET c == t.node[x][s]
               d == t.node[x][Other(s)]
           IN  /\ c \in N \union {Sentinel} /\ d \in N \union {Sentinel}
               /\ c # x /\ d # x /\ (c # Sentinel => c # d)
               /\ under[x] = {x} \union under[c] \union under[d]
               /\ x \notin under[c] /\ x \notin under[d]
               /\ under[c] \intersect under[d] = {}
               /\ \A y \in N : y \in under[y] /\ y # Sentinel /\ y # Null
<1>1. \A y \in N : y \in under[y] /\ y # Sentinel /\ y # Null
  BY DEF Shape, Unders, Links, Place, Sentinel, Null
<1>2. {t.node[x][s], t.node[x][Other(s)]} \subseteq N \union {Sentinel}
  BY Sides DEF Shape, Links
<1>3. /\ under[x] = {x} \union under[t.node[x][s]] \union under[t.node[x][Other(s)]]
      /\ x \notin under[t.node[x][s]] /\ x \notin under[t.node[x][Other(s)]]
      /\ under[t.node[x][s]] \intersect under[t.node[x][Other(s)]] = {}
  <2>1. CASE s = "left"
    BY <2>1 DEF Shape, Unders, Other
  <2>2. CASE s = "right"
    BY <2>2 DEF Shape, Unders, Other
  <2>. QED  BY <2>1, <2>2 DEF Side
<1>. QED  BY <1>1, <1>2, <1>3

(* What holds of a node whenever it holds of its children holds of all.    *)
LEMMA FromBelow ==
    ASSUME NEW t, NEW N, NEW under, Shape(t, N, under), NEW A,
           \A x \in N : (\A s \in Side : t.node[x][s] \in A \union {Sentinel}) => x \in A
    PROVE  N \subseteq A
<1>1. IsFiniteSet(N) /\ Cardinality(N) \in Nat
  <2>1. N \subseteq 1 .. Memory
    BY DEF Shape, Links, Place
  <2>2. IsFiniteSet(1 .. Memory)
    BY FS_Interval, TreeAssumption
  <2>. QED  BY <2>1, <2>2, FS_Subset, FS_CardinalityType
<1>2. \A x \in Spot : IsFiniteSet(under[x]) /\ Cardinality(under[x]) \in 0 .. Cardinality(N)
  <2>. SUFFICES ASSUME NEW x \in Spot
                PROVE  IsFiniteSet(under[x]) /\ Cardinality(under[x]) \in 0 .. Cardinality(N)
    OBVIOUS
  <2>1. under[x] \subseteq N
    BY DEF Shape, Unders
  <2>2. IsFiniteSet(under[x]) /\ Cardinality(under[x]) <= Cardinality(N)
    BY <1>1, <2>1, FS_Subset
  <2>. QED  BY <1>1, <2>2, FS_CardinalityType
<1>. DEFINE G == {k \in 0 .. Cardinality(N) : \A x \in N : Cardinality(under[x]) <= k => x \in A}
<1>3. ASSUME NEW x \in N, NEW s \in Side, t.node[x][s] # Sentinel
      PROVE  /\ t.node[x][s] \in N
             /\ Cardinality(under[t.node[x][s]]) < Cardinality(under[x])
  <2>. DEFINE c == t.node[x][s]
  <2>1. c \in N /\ under[c] \subseteq under[x] /\ x \in under[x] /\ x \notin under[c]
    BY <1>3, Children
  <2>2. x \in Spot /\ N \subseteq Spot
    BY DEF Shape, Links, Spot
  <2>. HIDE DEF c
  <2>3. IsFiniteSet(under[x])
    BY <1>2, <2>2
  <2>4. under[c] # under[x]
    BY <2>1
  <2>5. Cardinality(under[c]) < Cardinality(under[x])
    BY <2>1, <2>3, <2>4, FS_Subset, FS_CardinalityType
  <2>. QED  BY <2>1, <2>5 DEF c
<1>4. \A x \in N : Cardinality(under[x]) \in 0 .. Cardinality(N)
  BY <1>2 DEF Shape, Links, Spot
<1>5. 0 \in G
  <2>. SUFFICES ASSUME NEW x \in N, Cardinality(under[x]) <= 0 PROVE x \in A
    BY <1>1
  <2>1. Cardinality(under[x]) = 0
    BY <1>4
  <2>2. \A s \in Side : t.node[x][s] = Sentinel
    <3>. SUFFICES ASSUME NEW s \in Side, t.node[x][s] # Sentinel PROVE FALSE
      OBVIOUS
    <3>. QED  BY <1>3, <1>4, <2>1
  <2>. QED  BY <2>2
<1>6. ASSUME NEW k \in 0 .. Cardinality(N) - 1, k \in G PROVE k + 1 \in G
  <2>. SUFFICES ASSUME NEW x \in N, Cardinality(under[x]) <= k + 1 PROVE x \in A
    BY <1>1
  <2>1. ASSUME NEW s \in Side, t.node[x][s] # Sentinel PROVE t.node[x][s] \in A
    <3>1. t.node[x][s] \in N /\ Cardinality(under[t.node[x][s]]) < Cardinality(under[x])
      BY <1>3, <2>1
    <3>2. Cardinality(under[t.node[x][s]]) <= k
      BY <1>4, <3>1
    <3>. QED  BY <1>6, <3>1, <3>2
  <2>. QED  BY <2>1
<1>7. Cardinality(N) \in G
  <2>. HIDE DEF G
  <2>. QED  BY <1>1, <1>5, <1>6, Induct
<1>. QED  BY <1>4, <1>7 DEF Looped

(* The parent of a node under x is under x, and so is what is under it.    *)
LEMMA UpClosed ==
    ASSUME NEW t, NEW N, NEW under, Shape(t, N, under)
    PROVE  \A x \in N : \A y \in under[x] :
              /\ under[y] \subseteq under[x]
              /\ y # x => t.node[y].parent \in under[x]
<1>. DEFINE Good(x) == \A y \in under[x] :
                          /\ under[y] \subseteq under[x]
                          /\ y # x => t.node[y].parent \in under[x]
            A == {x \in N : Good(x)}
<1>1. ASSUME NEW x \in N, \A s \in Side : t.node[x][s] \in A \union {Sentinel} PROVE x \in A
  <2>. SUFFICES ASSUME NEW y \in under[x], y # x
                PROVE  under[y] \subseteq under[x] /\ t.node[y].parent \in under[x]
    OBVIOUS
  <2>1. PICK s \in Side : y \in under[t.node[x][s]]
    <3>1. y \in under[t.node[x]["left"]] \/ y \in under[t.node[x]["right"]]
      BY DEF Shape, Unders
    <3>. QED  BY <3>1 DEF Side
  <2>. DEFINE c == t.node[x][s]
  <2>2. c # Sentinel /\ under[c] \subseteq under[x] /\ x \in under[x]
    BY <2>1, Children, SMTT(60) DEF Shape, Unders
  <2>3. c \in A
    BY <1>1, <2>2
  <2>4. y = c => t.node[y].parent = x
    BY <2>2 DEF Shape, Links
  <2>5. y \in under[c]
    BY <2>1
  <2>. HIDE DEF c
  <2>6. under[y] \subseteq under[c] /\ (y # c => t.node[y].parent \in under[c])
    BY <2>3, <2>5
  <2>. QED  BY <2>2, <2>4, <2>6
<1>2. N \subseteq A
  <2>. HIDE DEF A
  <2>. QED  BY <1>1, FromBelow
<1>. QED  BY <1>2

(* The keys of the nodes are integers, and those on one side of a node are *)
(* before its key.                                                         *)
LEMMA Keys ==
    ASSUME NEW t, NEW N, NEW under, Shape(t, N, under)
    PROVE  /\ \A x \in N : t.node[x].key \in Int
           /\ \A x \in N, s \in Side : \A y \in under[t.node[x][s]] :
                  y \in N /\ Before(s, t.node[y].key, t.node[x].key)
<1>1. N \subseteq Spot
  BY DEF Shape, Links, Spot
<1>2. \A x \in N : t.node[x].key \in Int
  BY <1>1 DEF Shape, Trees, NodeType
<1>3. \A x \in N, s \in Side : under[t.node[x][s]] \subseteq N
  <2>. SUFFICES ASSUME NEW x \in N, NEW s \in Side PROVE under[t.node[x][s]] \subseteq N
    OBVIOUS
  <2>1. t.node[x][s] \in Spot
    BY <1>1 DEF Shape, Links, Spot
  <2>. QED  BY <2>1 DEF Shape, Unders
<1>. QED  BY <1>2, <1>3 DEF Shape, Ordered

(* Two nodes of the same key are the same.                                 *)
LEMMA KeysDiffer ==
    ASSUME NEW t, NEW N, NEW under, Shape(t, N, under)
    PROVE  \A x, y \in N : t.node[x].key = t.node[y].key => x = y
<1>. DEFINE Good(z) == \A x, y \in under[z] : t.node[x].key = t.node[y].key => x = y
            A == {z \in N : Good(z)}
<1>1. ASSUME NEW z \in N, \A s \in Side : t.node[z][s] \in A \union {Sentinel} PROVE z \in A
  <2>. DEFINE l == t.node[z]["left"]
              r == t.node[z]["right"]
  <2>1. /\ under[z] = {z} \union under[l] \union under[r]
        /\ under[l] \subseteq N /\ under[r] \subseteq N
    <3>1. "left" \in Side /\ "right" \in Side
      BY DEF Side
    <3>2. under[l] \subseteq N /\ under[r] \subseteq N
      BY <3>1, Keys
    <3>. QED  BY <3>2 DEF Shape, Unders
  <2>2. \A x \in under[l] : t.node[x].key < t.node[z].key /\ t.node[x].key \in Int
    BY Keys, <2>1 DEF Before, Side
  <2>3. \A x \in under[r] : t.node[z].key < t.node[x].key /\ t.node[x].key \in Int
    BY Keys, <2>1 DEF Before, Side
  <2>4. l \in A \union {Sentinel} /\ r \in A \union {Sentinel} /\ under[Sentinel] = {}
    BY <1>1 DEF Side, Shape, Unders
  <2>5. (\A x, y \in under[l] : t.node[x].key = t.node[y].key => x = y)
        /\ (\A x, y \in under[r] : t.node[x].key = t.node[y].key => x = y)
    BY <2>4
  <2>6. t.node[z].key \in Int
    BY Keys
  <2>. HIDE DEF l, r
  <2>. QED  BY <2>1, <2>2, <2>3, <2>5, <2>6
<1>2. N \subseteq A
  <2>. HIDE DEF A
  <2>. QED  BY <1>1, FromBelow
<1>3. N # {} => t.root \in N
  BY DEF Shape, Links, Unders
<1>4. N # {} => Good(t.root)
  BY <1>2, <1>3
<1>. QED  BY <1>4 DEF Shape, Unders

(* A key that is not under x is before all that are, or after them.        *)
LEMMA Apart ==
    ASSUME NEW t, NEW N, NEW under, Shape(t, N, under), NEW x \in N, NEW w \in N, w \notin under[x]
    PROVE  \/ \A y \in under[x] : t.node[w].key < t.node[y].key
           \/ \A y \in under[x] : t.node[y].key < t.node[w].key
<1>. DEFINE Goal == \/ \A y \in under[x] : t.node[w].key < t.node[y].key
                    \/ \A y \in under[x] : t.node[y].key < t.node[w].key
            A == {z \in N : x \in under[z] /\ w \in under[z] => Goal}
<1>1. ASSUME NEW z \in N, \A s \in Side : t.node[z][s] \in A \union {Sentinel} PROVE z \in A
  <2>. SUFFICES ASSUME x \in under[z], w \in under[z] PROVE Goal
    OBVIOUS
  <2>1. PICK s \in Side : x \in under[t.node[z][s]]
    <3>1. x = z \/ x \in under[t.node[z]["left"]] \/ x \in under[t.node[z]["right"]]
      BY DEF Shape, Unders
    <3>. QED  BY <3>1 DEF Side
  <2>. DEFINE c == t.node[z][s]
              d == t.node[z][Other(s)]
  <2>2. /\ c \in N /\ under[x] \subseteq under[c] /\ c \in A
        /\ under[z] = {z} \union under[c] \union under[d]
    <3>1. c # Sentinel
      BY <2>1 DEF Shape, Unders
    <3>. QED  BY <1>1, <2>1, <3>1, Children, UpClosed
  <2>3. \A y \in under[x] : /\ Before(s, t.node[y].key, t.node[z].key)
                            /\ t.node[y].key \in Int
    BY <2>2, Keys
  <2>4. CASE w \in under[c]
    BY <2>1, <2>2, <2>4
  <2>5. CASE w = z
    BY <2>3, <2>5 DEF Before
  <2>6. CASE w \in under[d]
    <3>1. Before(Other(s), t.node[w].key, t.node[z].key)
      BY <2>6, Keys, Sides
    <3>. QED  BY <2>3, <3>1, Keys DEF Before, Side, Other
  <2>. QED  BY <2>2, <2>4, <2>5, <2>6
<1>2. N \subseteq A
  <2>. HIDE DEF A
  <2>. QED  BY <1>1, FromBelow
<1>3. t.root \in N /\ under[t.root] = N
  BY DEF Shape, Links, Unders
<1>. QED  BY <1>2, <1>3

-----------------------------------------------------------------------------
(* What the links become when one of them is set, and when a node goes up. *)

Same(t, w, fields) == \A z \in Spot, f \in fields : w.node[z][f] = t.node[z][f]

LEMMA Parents ==
    ASSUME NEW t \in Trees, NEW x \in Spot, NEW p \in Spot \union {Null}
    PROVE  LET w == WithParent(t, x, p) IN
           /\ w \in Trees /\ w.root = t.root /\ w.used = t.used
           /\ \A z \in Spot : w.node[z].parent = IF z = x /\ x # Sentinel THEN p ELSE t.node[z].parent
           /\ Same(t, w, {"left", "right", "red", "key", "value"})
<1>1. CASE x = Sentinel
  BY <1>1 DEF WithParent, Same
<1>2. CASE x # Sentinel
  BY <1>2 DEF Trees, NodeType, WithParent, Spot, Same
<1>. QED  BY <1>1, <1>2

LEMMA Hung ==
    ASSUME NEW t \in Trees, NEW p \in Spot \union {Null}, NEW old, NEW new \in Spot
    PROVE  LET w == Hang(t, p, old, new) IN
           /\ w \in Trees /\ w.used = t.used
           /\ w.root = (IF p = Null THEN new ELSE t.root)
           /\ \A z \in Spot, s \in Side : w.node[z][s] =
                IF z = p /\ s = (IF t.node[p].left = old THEN "left" ELSE "right") THEN new
                ELSE t.node[z][s]
           /\ Same(t, w, {"parent", "red", "key", "value"})
<1>0. Null \notin Spot
  BY DEF Null, Spot, Sentinel, Place
<1>1. CASE p = Null
  BY <1>0, <1>1 DEF Hang, Trees, NodeType, Same, Side
<1>2. CASE p # Null /\ t.node[p].left = old
  BY <1>0, <1>2 DEF Hang, Trees, NodeType, Same, Side
<1>3. CASE p # Null /\ t.node[p].left # old
  BY <1>0, <1>3 DEF Hang, Trees, NodeType, Same, Side
<1>. QED  BY <1>1, <1>2, <1>3

LEMMA ChildSet ==
    ASSUME NEW t \in Trees, NEW x \in Spot, NEW side \in Side, NEW c \in Spot
    PROVE  LET w == [t EXCEPT !.node[x][side] = c] IN
           /\ w \in Trees /\ w.root = t.root /\ w.used = t.used
           /\ \A z \in Spot, s \in Side : w.node[z][s] = IF z = x /\ s = side THEN c ELSE t.node[z][s]
           /\ Same(t, w, {"parent", "red", "key", "value"})
  BY DEF Trees, NodeType, Side, Same

(* A rotation: b goes up from the far side of a, and gives it its inner child. *)
Rotated(t, w, N, a, b, side) ==
    LET inner == t.node[b][side] IN
    /\ w \in Trees /\ w.used = t.used
    /\ w.root = (IF t.node[a].parent = Null THEN b ELSE t.root)
    /\ \A z \in N, s \in Side : w.node[z][s] =
         IF z = a /\ s = Other(side) THEN inner
         ELSE IF z = b /\ s = side THEN a
         ELSE IF t.node[z][s] = a THEN b
         ELSE t.node[z][s]
    /\ \A z \in Spot : w.node[z].parent =
         IF z = a THEN b ELSE IF z = b THEN t.node[a].parent
         ELSE IF z = inner /\ z # Sentinel THEN a ELSE t.node[z].parent
    /\ Same(t, w, {"red", "key", "value"})

LEMMA RotateEffect ==
    ASSUME NEW t, NEW N, NEW under, Shape(t, N, under), NEW a \in N, NEW side \in Side,
           t.node[a][Other(side)] # Sentinel
    PROVE  Rotated(t, Rotate(t, a, side), N, a, t.node[a][Other(side)], side)
<1>. DEFINE far == Other(side)
            b == t.node[a][far]
            inner == t.node[b][side]
            p == t.node[a].parent
            t1 == WithParent(t, inner, a)
            t2 == Hang(t1, p, a, b)
            t3 == [t2 EXCEPT !.node[a][far] = inner]
            t4 == [t3 EXCEPT !.node[b][side] = a]
            t5 == WithParent(t4, b, p)
            w == WithParent(t5, a, b)
<1>1. far \in Side /\ far # side
  BY Sides
<1>2. /\ b \in N /\ a # b /\ a # Sentinel /\ b # Sentinel /\ inner \in N \union {Sentinel}
      /\ inner # a /\ inner # b
  <2>1. b \in N /\ a # b /\ a # Sentinel /\ b # Sentinel
    BY <1>1, Children
  <2>2. inner \in N \union {Sentinel} /\ inner # b
    BY <2>1, Children
  <2>3. inner # a
    <3>1. a \notin under[b]
      BY <1>1, Children
    <3>2. inner \in N => inner \in under[inner] /\ under[inner] \subseteq under[b]
      BY <2>1, Children
    <3>. QED  BY <2>1, <2>2, <3>1, <3>2
  <2>. QED  BY <2>1, <2>2, <2>3
<1>3. /\ N \subseteq Spot /\ t \in Trees /\ p \in Spot \union {Null}
      /\ a \in Spot /\ b \in Spot /\ inner \in Spot
  <2>1. N \subseteq Spot /\ t \in Trees
    BY DEF Shape, Links, Spot
  <2>2. p \in Spot \union {Null}
    BY <2>1 DEF Trees, NodeType
  <2>. QED  BY <1>2, <2>1, <2>2 DEF Spot
<1>4. /\ p # a /\ p # b
      /\ \A z \in N, s \in Side : t.node[z][s] = a => z = p
      /\ p # Null => \E s \in Side : t.node[p][s] = a
      /\ p # Null => p \in N
  <2>1. \A z \in N, s \in Side : t.node[z][s] = a => z = p /\ z # a
    BY <1>2, Children DEF Shape, Links
  <2>2. p # Null => p \in N /\ \E s \in Side : t.node[p][s] = a
    BY <1>2 DEF Shape, Links
  <2>3. b # p
    <3>. SUFFICES ASSUME b = p PROVE FALSE
      OBVIOUS
    <3>1. PICK s \in Side : t.node[b][s] = a
      BY <1>2, <2>2, Children
    <3>2. a \in under[a] /\ under[a] \subseteq under[b] /\ a \notin under[b]
      BY <1>1, <1>2, <3>1, Children
    <3>. QED  BY <3>2
  <2>4. p # a
    BY <1>2, <2>1, <2>2, Children
  <2>. QED  BY <2>1, <2>2, <2>3, <2>4
<1>5. p # Null => \A s \in Side : t.node[p][s] = a <=> s = (IF t.node[p].left = a THEN "left" ELSE "right")
  <2>. SUFFICES ASSUME p # Null, NEW s \in Side
                PROVE  t.node[p][s] = a <=> s = (IF t.node[p].left = a THEN "left" ELSE "right")
    OBVIOUS
  <2>1. PICK q \in Side : t.node[p][q] = a
    BY <1>4
  <2>2. t.node[p][Other(q)] # a
    BY <1>2, <1>4, <2>1, Children
  <2>. QED  BY <2>1, <2>2 DEF Side, Other
<1>. HIDE DEF far, b, inner, p
<1>6. /\ t1 \in Trees /\ t1.root = t.root /\ t1.used = t.used
      /\ \A z \in Spot : t1.node[z].parent = IF z = inner /\ inner # Sentinel THEN a ELSE t.node[z].parent
      /\ Same(t, t1, {"left", "right", "red", "key", "value"})
  BY <1>3, Parents
<1>. HIDE DEF t1
<1>7. /\ t2 \in Trees /\ t2.used = t1.used
      /\ t2.root = (IF p = Null THEN b ELSE t1.root)
      /\ \A z \in Spot, s \in Side : t2.node[z][s] =
                IF z = p /\ s = (IF t1.node[p].left = a THEN "left" ELSE "right") THEN b
                ELSE t1.node[z][s]
      /\ Same(t1, t2, {"parent", "red", "key", "value"})
  <2>1. t1 \in Trees /\ p \in Spot \union {Null} /\ b \in Spot
    BY <1>3, <1>6
  <2>. QED  BY <2>1, Hung
<1>. HIDE DEF t2
<1>8. /\ t3 \in Trees /\ t3.root = t2.root /\ t3.used = t2.used
      /\ \A z \in Spot, s \in Side : t3.node[z][s] = IF z = a /\ s = far THEN inner ELSE t2.node[z][s]
      /\ Same(t2, t3, {"parent", "red", "key", "value"})
  BY <1>1, <1>3, <1>7, ChildSet
<1>. HIDE DEF t3
<1>9. /\ t4 \in Trees /\ t4.root = t3.root /\ t4.used = t3.used
      /\ \A z \in Spot, s \in Side : t4.node[z][s] = IF z = b /\ s = side THEN a ELSE t3.node[z][s]
      /\ Same(t3, t4, {"parent", "red", "key", "value"})
  BY <1>3, <1>8, ChildSet
<1>. HIDE DEF t4
<1>10. /\ t5 \in Trees /\ t5.root = t4.root /\ t5.used = t4.used
       /\ \A z \in Spot : t5.node[z].parent = IF z = b /\ b # Sentinel THEN p ELSE t4.node[z].parent
       /\ Same(t4, t5, {"left", "right", "red", "key", "value"})
  BY <1>3, <1>9, Parents
<1>. HIDE DEF t5
<1>11. /\ w \in Trees /\ w.root = t5.root /\ w.used = t5.used
       /\ \A z \in Spot : w.node[z].parent = IF z = a /\ a # Sentinel THEN b ELSE t5.node[z].parent
       /\ Same(t5, w, {"left", "right", "red", "key", "value"})
  BY <1>3, <1>10, Parents
<1>12. w = Rotate(t, a, side)
  BY DEF Rotate, t5, t4, t3, t2, t1, far, b, inner, p
<1>. HIDE DEF w
<1>13. \A z \in Spot : w.node[z].parent =
         IF z = a THEN b ELSE IF z = b THEN p
         ELSE IF z = inner /\ z # Sentinel THEN a ELSE t.node[z].parent
  BY <1>2, <1>6, <1>7, <1>8, <1>9, <1>10, <1>11 DEF Same
<1>14. Same(t, w, {"red", "key", "value"})
  BY <1>6, <1>7, <1>8, <1>9, <1>10, <1>11 DEF Same
<1>15. ASSUME NEW z \in N, NEW s \in Side
       PROVE  w.node[z][s] = IF z = a /\ s = far THEN inner
                             ELSE IF z = b /\ s = side THEN a
                             ELSE IF t.node[z][s] = a THEN b
                             ELSE t.node[z][s]
  <2>1. z \in Spot
    BY <1>3
  <2>2. w.node[z][s] = t4.node[z][s] /\ t1.node[z][s] = t.node[z][s]
    BY <1>6, <1>10, <1>11, <2>1 DEF Same, Side
  <2>3. t4.node[z][s] = IF z = b /\ s = side THEN a ELSE IF z = a /\ s = far THEN inner
                        ELSE t2.node[z][s]
    BY <1>8, <1>9, <2>1
  <2>4. z = p => t1.node[p].left = t.node[p].left
    BY <1>6, <2>1 DEF Same
  <2>5. t2.node[z][s] = IF t.node[z][s] = a THEN b ELSE t.node[z][s]
    <3>1. CASE z = p
      <4>1. p # Null
        BY <3>1, Children
      <4>. QED  BY <1>5, <1>7, <2>1, <2>2, <2>4, <3>1, <4>1
    <3>2. CASE z # p
      BY <1>4, <1>7, <2>1, <2>2, <3>2
    <3>. QED  BY <3>1, <3>2
  <2>. QED  BY <1>2, <2>2, <2>3, <2>5
<1>16. w.used = t.used /\ w.root = (IF p = Null THEN b ELSE t.root)
  BY <1>6, <1>7, <1>8, <1>9, <1>10, <1>11
<1>. QED  BY <1>11, <1>12, <1>13, <1>14, <1>15, <1>16 DEF Rotated, far, b, inner, p

(* What is under a and b once b is above.                                  *)
Turned(t, under, a, b, side) ==
    [under EXCEPT ![b] = under[a],
                  ![a] = {a} \union under[t.node[a][side]] \union under[t.node[b][side]]]

LEMMA RotateShape ==
    ASSUME NEW t, NEW N, NEW under, Shape(t, N, under), NEW a \in N, NEW side \in Side,
           NEW b, b = t.node[a][Other(side)], b # Sentinel, NEW w, Rotated(t, w, N, a, b, side)
    PROVE  Shape(w, N, Turned(t, under, a, b, side))
<1>. DEFINE far == Other(side)
            c == t.node[a][side]
            inner == t.node[b][side]
            outer == t.node[b][far]
            p == t.node[a].parent
            v == Turned(t, under, a, b, side)
<1>1. far \in Side /\ far # side /\ Other(side) = far /\ Other(far) = side
      /\ \A s \in Side : s = side \/ s = far
  BY Sides DEF Side, Other
<1>2. /\ b \in N /\ a # b /\ a # Sentinel /\ b # Sentinel
      /\ c \in N \union {Sentinel} /\ c # a
      /\ under[a] = {a} \union under[c] \union under[b]
      /\ a \notin under[c] /\ a \notin under[b] /\ under[c] \intersect under[b] = {}
  BY <1>1, Children, SMTT(60)
<1>3. /\ inner \in N \union {Sentinel} /\ outer \in N \union {Sentinel}
      /\ inner # b /\ outer # b /\ (inner # Sentinel => inner # outer)
      /\ under[b] = {b} \union under[inner] \union under[outer]
      /\ b \notin under[inner] /\ b \notin under[outer]
      /\ under[inner] \intersect under[outer] = {}
  BY <1>1, <1>2, Children, SMTT(60)
<1>4. /\ under[Sentinel] = {} /\ N \subseteq Spot /\ Sentinel \notin N /\ Null \notin N
      /\ \A z \in N : z \in under[z]
      /\ under \in [Spot -> SUBSET N]
  BY Children DEF Shape, Links, Unders, Spot, Place, Sentinel, Null
<1>5. a # inner /\ a # outer /\ b # c /\ (inner # Sentinel => inner # c) /\ (outer # Sentinel => outer # c)
  BY <1>2, <1>3, <1>4, ZenonT(60)
<1>6. \A z \in N, s \in Side : t.node[z][s] \in {a, b} =>
          /\ t.node[z][s] = b => z = a /\ s = far
          /\ t.node[z][s] = a => z = p /\ z # a /\ z # b
  <2>. SUFFICES ASSUME NEW z \in N, NEW s \in Side
                PROVE  /\ t.node[z][s] = b => z = a /\ s = far
                       /\ t.node[z][s] = a => z = p /\ z # a /\ z # b
    BY <1>2
  <2>1. t.node[z][s] = b => t.node[b].parent = z
    BY <1>2 DEF Shape, Links
  <2>2. t.node[b].parent = a
    BY <1>1, <1>2 DEF Shape, Links
  <2>3. t.node[z][s] = a => z = p
    BY <1>2, SMTT(60) DEF Shape, Links
  <2>. QED  BY <1>1, <1>2, <1>3, <1>5, <2>1, <2>2, <2>3, Zenon
<1>7. /\ v \in [Spot -> SUBSET N] /\ v[b] = under[a]
      /\ v[a] = {a} \union under[c] \union under[inner]
      /\ \A z \in Spot : z # a /\ z # b => v[z] = under[z]
  <2>1. a \in Spot /\ b \in Spot /\ c \in Spot /\ inner \in Spot
    BY <1>2, <1>3, <1>4, Zenon DEF Spot
  <2>2. {a} \union under[c] \union under[inner] \in SUBSET N /\ under[a] \in SUBSET N
    BY <1>4, <2>1
  <2>. QED  BY <1>2, <1>4, <2>1, <2>2, Zenon DEF Turned
<1>8. \A z \in N, s \in Side : w.node[z][s] =
         IF z = a /\ s = far THEN inner
         ELSE IF z = b /\ s = side THEN a
         ELSE IF t.node[z][s] = a THEN b
         ELSE t.node[z][s]
  BY DEF Rotated
<1>9. \A z \in Spot : w.node[z].parent =
         IF z = a THEN b ELSE IF z = b THEN p
         ELSE IF z = inner /\ z # Sentinel THEN a ELSE t.node[z].parent
  BY Zenon DEF Rotated
<1>10. /\ w.node[a][side] = c /\ w.node[a][far] = inner
       /\ w.node[b][side] = a /\ w.node[b][far] = outer
  BY <1>1, <1>2, <1>3, <1>5, <1>8, Zenon
<1>11. /\ t.root \in N \union {Sentinel} /\ (t.root # Sentinel => t.node[t.root].parent = Null)
       /\ under[t.root] = N
       /\ p = Null <=> a = t.root
       /\ p # Null => p \in N /\ \E s \in Side : t.node[p][s] = a
  <2>1. /\ t.root \in N \union {Sentinel} /\ (t.root # Sentinel => t.node[t.root].parent = Null)
        /\ under[t.root] = N
    BY DEF Shape, Links, Unders
  <2>2. a # t.root => p \in N /\ \E s \in Side : t.node[p][s] = a
    BY DEF Shape, Links
  <2>. QED  BY <1>2, <1>4, <2>1, <2>2
<1>12. w.root = IF a = t.root THEN b ELSE t.root
  BY <1>11 DEF Rotated
<1>. HIDE DEF far, c, inner, outer, p, v
<1>13. Links(w, N)
  <2>1. N \subseteq Place /\ w.root \in N \union {Sentinel} /\ ~w.node[Sentinel].red
    <3>1. N \subseteq Place /\ ~t.node[Sentinel].red /\ Sentinel \in Spot
      BY DEF Shape, Links, Spot
    <3>2. w.node[Sentinel].red = t.node[Sentinel].red
      BY <3>1 DEF Rotated, Same
    <3>. QED  BY <1>2, <1>11, <1>12, <3>1, <3>2
  <2>2. w.root # Sentinel => w.node[w.root].parent = Null
    <3>1. CASE a = t.root
      BY <1>2, <1>4, <1>9, <1>11, <1>12, <3>1
    <3>2. CASE a # t.root /\ t.root # Sentinel
      <4>1. t.root \in N /\ t.node[t.root].parent = Null
        BY <1>11, <3>2
      <4>2. t.root # b /\ t.root # inner
        <5>1. t.node[b].parent = a
          BY <1>1, <1>2 DEF Shape, Links, far
        <5>2. inner # Sentinel => t.node[inner].parent = b
          BY <1>1, <1>2 DEF Shape, Links, inner
        <5>. QED  BY <1>2, <1>4, <3>2, <4>1, <5>1, <5>2
      <4>. QED  BY <1>4, <1>9, <1>12, <3>2, <4>1, <4>2
    <3>. QED  BY <1>12, <3>1, <3>2
  <2>3. ASSUME NEW z \in N, NEW s \in Side
        PROVE  /\ w.node[z][s] \in N \union {Sentinel}
               /\ w.node[z][s] # Sentinel => w.node[w.node[z][s]].parent = z
    <3>1. /\ t.node[z][s] \in N \union {Sentinel}
          /\ t.node[z][s] # Sentinel => t.node[t.node[z][s]].parent = z
      BY DEF Shape, Links
    <3>2. CASE z = a /\ s = far
      BY <1>3, <1>4, <1>5, <1>8, <1>9, <3>2
    <3>3. CASE z = b /\ s = side
      BY <1>1, <1>2, <1>4, <1>8, <1>9, <3>3
    <3>4. CASE ~(z = a /\ s = far) /\ ~(z = b /\ s = side) /\ t.node[z][s] = a
      BY <1>2, <1>4, <1>6, <1>8, <1>9, <3>4
    <3>5. CASE ~(z = a /\ s = far) /\ ~(z = b /\ s = side) /\ t.node[z][s] # a
      <4>1. w.node[z][s] = t.node[z][s] /\ t.node[z][s] # b
        BY <1>6, <1>8, <3>5, Zenon
      <4>2. t.node[z][s] # Sentinel => t.node[z][s] # inner
        <5>. SUFFICES ASSUME inner # Sentinel, t.node[z][s] = inner PROVE FALSE
          OBVIOUS
        <5>1. z = b
          <6>1. t.node[inner].parent = b
            BY <1>1, <1>2 DEF Shape, Links, inner
          <6>. QED  BY <3>1, <6>1
        <5>2. s = far
          BY <1>1, <3>5, <5>1
        <5>. QED  BY <1>3, <5>1, <5>2 DEF outer
      <4>. QED  BY <1>4, <1>9, <3>1, <3>5, <4>1, <4>2
    <3>. QED  BY <3>2, <3>3, <3>4, <3>5
  <2>4. ASSUME NEW z \in N, z # w.root
        PROVE  w.node[z].parent \in N /\ \E s \in Side : w.node[w.node[z].parent][s] = z
    <3>1. CASE z = a
      BY <1>2, <1>4, <1>9, <1>10, <3>1
    <3>2. CASE z = b
      <4>1. a # t.root
        BY <1>12, <2>4, <3>2
      <4>2. p \in N /\ w.node[z].parent = p
        BY <1>2, <1>4, <1>9, <1>11, <3>2, <4>1
      <4>3. PICK s \in Side : t.node[p][s] = a
        BY <1>4, <1>11, <4>2
      <4>4. p # a /\ p # b
        BY <1>2, <1>6, <4>2, <4>3
      <4>. QED  BY <1>8, <3>2, <4>2, <4>3, <4>4
    <3>3. CASE z = inner
      BY <1>1, <1>3, <1>4, <1>5, <1>9, <1>10, <3>3
    <3>4. CASE z \notin {a, b, inner}
      <4>1. z # t.root
        BY <1>12, <2>4, <3>4
      <4>2. PICK s \in Side : t.node[z].parent \in N /\ t.node[t.node[z].parent][s] = z
        BY <4>1 DEF Shape, Links
      <4>3. w.node[z].parent = t.node[z].parent
        BY <1>4, <1>9, <3>4
      <4>4. w.node[t.node[z].parent][s] = z
        <5>1. ~(t.node[z].parent = a /\ s = far) /\ ~(t.node[z].parent = b /\ s = side)
          BY <1>2, <3>4, <4>2 DEF inner, far
        <5>. QED  BY <1>8, <3>4, <4>2, <5>1
      <4>. QED  BY <4>2, <4>3, <4>4
    <3>. QED  BY <3>1, <3>2, <3>3, <3>4
  <2>. QED  BY <2>1, <2>2, <2>3, <2>4 DEF Links
<1>14. Unders(w, N, v)
  <2>1. v[Sentinel] = {} /\ v[w.root] = N
    <3>1. Sentinel \in Spot /\ t.root \in Spot
      BY <1>4, <1>11 DEF Spot
    <3>2. t.root # b
      <4>1. t.node[b].parent = a
        BY <1>1, <1>2 DEF Shape, Links, far
      <4>. QED  BY <1>2, <1>4, <1>11, <4>1
    <3>. QED  BY <1>2, <1>4, <1>7, <1>11, <1>12, <3>1, <3>2
  <2>2. ASSUME NEW z \in N
        PROVE  \A s \in Side : LET l == v[w.node[z][s]]
                                   r == v[w.node[z][Other(s)]]
                               IN  /\ v[z] = {z} \union l \union r
                                   /\ z \notin l \union r /\ l \intersect r = {}
    <3>1. a \in Spot /\ b \in Spot /\ c \in Spot /\ inner \in Spot /\ outer \in Spot
      BY <1>2, <1>3, <1>4 DEF Spot
    <3>2. CASE z = a
      <4>1. v[c] = under[c] /\ v[inner] = under[inner]
        BY <1>2, <1>3, <1>5, <1>7, <3>1
      <4>2. /\ a \notin under[c] /\ a \notin under[inner] /\ under[c] \intersect under[inner] = {}
        BY <1>2, <1>3, Zenon
      <4>. QED  BY <1>1, <1>7, <1>10, <3>2, <4>1, <4>2
    <3>3. CASE z = b
      <4>1. v[outer] = under[outer]
        BY <1>3, <1>5, <1>7, <3>1
      <4>2. /\ b \notin v[a] /\ b \notin under[outer] /\ v[a] \intersect under[outer] = {}
            /\ v[b] = {b} \union v[a] \union under[outer]
        <5>1. b \notin under[c] /\ a \notin under[outer] /\ under[c] \intersect under[outer] = {}
          BY <1>2, <1>3
        <5>. QED  BY <1>2, <1>3, <1>7, <5>1
      <4>. QED  BY <1>1, <1>7, <1>10, <3>3, <4>1, <4>2
    <3>4. CASE z # a /\ z # b
      <4>1. ASSUME NEW s \in Side PROVE v[w.node[z][s]] = under[t.node[z][s]]
        <5>1. CASE t.node[z][s] = a
          BY <1>7, <1>8, <3>4, <5>1
        <5>2. CASE t.node[z][s] # a
          <6>1. w.node[z][s] = t.node[z][s] /\ t.node[z][s] # b
            BY <1>6, <1>8, <3>4, <5>2
          <6>2. t.node[z][s] \in Spot
            BY <1>4 DEF Shape, Links, Spot
          <6>. QED  BY <1>7, <5>2, <6>1, <6>2
        <5>. QED  BY <5>1, <5>2
      <4>2. v[z] = under[z]
        BY <1>4, <1>7, <3>4
      <4>3. ASSUME NEW s \in Side
            PROVE  LET l == under[t.node[z][s]]
                       r == under[t.node[z][Other(s)]]
                   IN  under[z] = {z} \union l \union r /\ z \notin l \union r /\ l \intersect r = {}
        BY Children
      <4>. QED  BY <4>1, <4>2, <4>3, Sides
    <3>. QED  BY <3>2, <3>3, <3>4
  <2>3. ASSUME NEW z \in N
        PROVE  /\ v[z] = {z} \union v[w.node[z].left] \union v[w.node[z].right]
               /\ z \notin v[w.node[z].left] \union v[w.node[z].right]
               /\ v[w.node[z].left] \intersect v[w.node[z].right] = {}
    <3>1. "left" \in Side /\ Other("left") = "right"
      BY DEF Side, Other
    <3>. QED  BY <2>2, <3>1
  <2>. QED  BY <1>7, <2>1, <2>3 DEF Unders
<1>15. Ordered(w, N, v)
  <2>. SUFFICES ASSUME NEW z \in N, NEW s \in Side, NEW y \in v[w.node[z][s]]
                PROVE  Before(s, w.node[y].key, w.node[z].key)
    BY DEF Ordered
  <2>1. \A q \in N : w.node[q].key = t.node[q].key
    BY <1>4 DEF Rotated, Same
  <2>2. a \in Spot /\ b \in Spot /\ c \in Spot /\ inner \in Spot /\ outer \in Spot
    BY <1>2, <1>3, <1>4 DEF Spot
  <2>3. w.node[z][s] \in Spot /\ y \in N
    <3>1. w.node[z][s] \in Spot
      BY <1>4, <1>13 DEF Links, Spot
    <3>. QED  BY <1>7, <3>1
  <2>4. \A q \in N, g \in Side : \A x \in under[t.node[q][g]] : Before(g, t.node[x].key, t.node[q].key)
    BY Keys
  <2>5. CASE z = a
    <3>1. CASE s = far
      <4>1. y \in under[inner]
        BY <1>3, <1>5, <1>7, <1>10, <2>2, <2>5, <3>1
      <4>2. y \in under[b]
        BY <1>3, <4>1
      <4>3. Before(far, t.node[y].key, t.node[a].key)
        BY <1>1, <2>4, <4>2 DEF far
      <4>. QED  BY <2>1, <2>3, <2>5, <3>1, <4>3
    <3>2. CASE s = side
      <4>1. y \in under[c]
        BY <1>2, <1>5, <1>7, <1>10, <2>2, <2>5, <3>2
      <4>2. Before(side, t.node[y].key, t.node[a].key)
        BY <2>4, <4>1 DEF c
      <4>. QED  BY <2>1, <2>3, <2>5, <3>2, <4>2
    <3>. QED  BY <1>1, <3>1, <3>2
  <2>6. CASE z = b
    <3>1. CASE s = far
      <4>1. y \in under[outer]
        BY <1>3, <1>5, <1>7, <1>10, <2>2, <2>6, <3>1
      <4>2. Before(far, t.node[y].key, t.node[b].key)
        BY <1>1, <1>2, <2>4, <4>1 DEF outer
      <4>. QED  BY <2>1, <2>3, <2>6, <3>1, <4>2
    <3>2. CASE s = side
      <4>1. y \in {a} \union under[c] \union under[inner]
        BY <1>7, <1>10, <2>6, <3>2
      <4>2. Before(far, t.node[b].key, t.node[a].key)
        BY <1>1, <1>2, <1>4, <2>4 DEF far
      <4>3. Before(side, t.node[a].key, t.node[b].key)
        BY <1>1, <4>2 DEF Before, far, Other, Side
      <4>4. CASE y \in under[c]
        <5>1. Before(side, t.node[y].key, t.node[a].key)
          BY <2>4, <4>4 DEF c
        <5>2. Before(side, t.node[y].key, t.node[b].key)
          BY <1>2, <2>3, <4>3, <5>1, Keys DEF Before, Side
        <5>. QED  BY <1>2, <2>1, <2>3, <2>6, <3>2, <5>2
      <4>5. CASE y \in under[inner]
        <5>1. Before(side, t.node[y].key, t.node[b].key)
          BY <1>2, <2>4, <4>5 DEF inner
        <5>. QED  BY <1>2, <2>1, <2>3, <2>6, <3>2, <5>1
      <4>. QED  BY <1>2, <2>1, <2>6, <3>2, <4>1, <4>3, <4>4, <4>5
    <3>. QED  BY <1>1, <3>1, <3>2
  <2>7. CASE z # a /\ z # b
    <3>1. y \in under[t.node[z][s]]
      <4>1. CASE t.node[z][s] = a
        BY <1>7, <1>8, <2>7, <4>1
      <4>2. CASE t.node[z][s] # a
        <5>1. w.node[z][s] = t.node[z][s] /\ t.node[z][s] # b
          BY <1>6, <1>8, <2>7, <4>2
        <5>. QED  BY <1>7, <2>3, <4>2, <5>1
      <4>. QED  BY <4>1, <4>2
    <3>. QED  BY <2>1, <2>3, <2>4, <3>1
  <2>. QED  BY <2>5, <2>6, <2>7
<1>. QED  BY <1>13, <1>14, <1>15 DEF Shape, Rotated, v

-----------------------------------------------------------------------------
(* The colours.  black[x] is the number of black nodes on a way down from  *)
(* x, the sentinel with them; one is missing on the way into short.        *)

Missing(t, short, y, s) ==
    IF t.node[y][s] = short /\ t.node[short].parent = y THEN 1 ELSE 0

Balanced(t, N, black, short) ==
    /\ black \in [Spot -> Nat \ {0}] /\ black[Sentinel] = 1
    /\ \A y \in N, s \in Side :
        black[y] = black[t.node[y][s]] + Missing(t, short, y, s) + (IF t.node[y].red THEN 0 ELSE 1)

(* A red node has a red child only where it is in above or the child in below. *)
Reds(t, N, above, below) ==
    \A y \in N, s \in Side :
        t.node[y].red /\ t.node[t.node[y][s]].red => y \in above \/ t.node[y][s] \in below

Repainted(t, w) ==
    /\ w \in Trees /\ w.root = t.root /\ w.used = t.used /\ ~w.node[Sentinel].red
    /\ Same(t, w, {"left", "right", "parent", "key", "value"})

LEMMA Painting ==
    ASSUME NEW t \in Trees, ~t.node[Sentinel].red, NEW black, NEW red, Sentinel \notin red
    PROVE  LET w == Coloured(t, black, red)
           IN  /\ Repainted(t, w)
               /\ \A z \in Spot : w.node[z].red = (z \in red \/ (t.node[z].red /\ z \notin black))
<1>. DEFINE w == Coloured(t, black, red)
<1>1. DOMAIN t.node = Spot /\ Sentinel \in Spot
  BY DEF Trees, Spot
<1>2. w = [t EXCEPT !.node = [x \in Spot |->
              [t.node[x] EXCEPT !.red = (x \in red \/ (t.node[x].red /\ x \notin black))]]]
  BY <1>1 DEF Coloured
<1>. HIDE DEF w
<1>3. w.root = t.root /\ w.used = t.used
      /\ \A x \in Spot : w.node[x] =
            [t.node[x] EXCEPT !.red = (x \in red \/ (t.node[x].red /\ x \notin black))]
  BY <1>2 DEF Trees
<1>4. \A x \in Spot : t.node[x] \in NodeType
  BY DEF Trees
<1>5. \A x \in Spot : /\ w.node[x] \in NodeType
                      /\ w.node[x].red = (x \in red \/ (t.node[x].red /\ x \notin black))
                      /\ w.node[x].left = t.node[x].left /\ w.node[x].right = t.node[x].right
                      /\ w.node[x].parent = t.node[x].parent
                      /\ w.node[x].key = t.node[x].key /\ w.node[x].value = t.node[x].value
  <2>. SUFFICES ASSUME NEW x \in Spot
                PROVE /\ w.node[x] \in NodeType
                      /\ w.node[x].red = (x \in red \/ (t.node[x].red /\ x \notin black))
                      /\ w.node[x].left = t.node[x].left /\ w.node[x].right = t.node[x].right
                      /\ w.node[x].parent = t.node[x].parent
                      /\ w.node[x].key = t.node[x].key /\ w.node[x].value = t.node[x].value
    OBVIOUS
  <2>. DEFINE colour == (x \in red \/ (t.node[x].red /\ x \notin black))
  <2>1. colour \in BOOLEAN
    OBVIOUS
  <2>2. w.node[x] = [t.node[x] EXCEPT !.red = colour]
    BY <1>3
  <2>. HIDE DEF colour
  <2>3. /\ w.node[x] \in NodeType /\ w.node[x].red = colour
        /\ w.node[x].left = t.node[x].left /\ w.node[x].right = t.node[x].right
        /\ w.node[x].parent = t.node[x].parent
        /\ w.node[x].key = t.node[x].key /\ w.node[x].value = t.node[x].value
    BY <1>4, <2>1, <2>2 DEF NodeType
  <2>. QED  BY <2>3 DEF colour
<1>6. w \in Trees
  <2>1. w.node = [x \in Spot |-> w.node[x]]
    BY <1>2 DEF Trees
  <2>2. w.node \in [Spot -> NodeType]
    BY <1>5, <2>1
  <2>3. w = [t EXCEPT !.node = w.node]
    BY <1>2, <2>1 DEF Trees
  <2>. QED  BY <2>2, <2>3 DEF Trees
<1>7. ~w.node[Sentinel].red
  BY <1>1, <1>5
<1>8. Same(t, w, {"left", "right", "parent", "key", "value"})
  BY <1>5 DEF Same
<1>9. Repainted(t, w)
  BY <1>3, <1>6, <1>7, <1>8 DEF Repainted
<1>. QED  BY <1>5, <1>9 DEF w

LEMMA RepaintedShape ==
    ASSUME NEW t, NEW N, NEW under, Shape(t, N, under), NEW w, Repainted(t, w)
    PROVE  Shape(w, N, under) /\ \A z \in N, s \in Side : w.node[z][s] = t.node[z][s]
<1>1. N \subseteq Spot /\ t.root \in N \union {Sentinel} /\ w.root = t.root
  BY DEF Shape, Links, Spot, Repainted
<1>2. /\ \A z \in N, s \in Side : w.node[z][s] = t.node[z][s]
      /\ \A z \in N : w.node[z].parent = t.node[z].parent /\ w.node[z].key = t.node[z].key
  BY <1>1 DEF Repainted, Same, Side
<1>3. Links(w, N)
  BY <1>1, <1>2 DEF Shape, Links, Repainted
<1>4. Unders(w, N, under)
  <2>1. \A x \in N : w.node[x].left = t.node[x].left /\ w.node[x].right = t.node[x].right
    BY <1>2 DEF Side
  <2>. QED  BY <1>1, <2>1 DEF Shape, Unders
<1>5. Ordered(w, N, under)
  <2>. SUFFICES ASSUME NEW x \in N, NEW s \in Side, NEW y \in under[w.node[x][s]]
                PROVE  Before(s, w.node[y].key, w.node[x].key)
    BY DEF Ordered
  <2>1. y \in N /\ Before(s, t.node[y].key, t.node[x].key)
    BY <1>2, Keys
  <2>. QED  BY <1>2, <2>1
<1>. QED  BY <1>2, <1>3, <1>4, <1>5 DEF Shape, Repainted

(* A red node that goes up in exchange for the colour of its parent.       *)
LEMMA SwapBalance ==
    ASSUME NEW t, NEW N, NEW under, Shape(t, N, under),
           NEW black, NEW short \in Spot \union {Null}, Balanced(t, N, black, short),
           NEW a \in N, NEW side \in Side, NEW b, b = t.node[a][Other(side)], b # Sentinel,
           t.node[b].red, short \notin {a, b},
           t.node[b][side] # short \/ t.node[short].parent \notin {a, b},
           NEW t1, Repainted(t, t1), t1.node[a].red, t1.node[b].red = t.node[a].red,
           \A z \in N : z \notin {a, b} => t1.node[z].red = t.node[z].red,
           NEW w, Rotated(t1, w, N, a, b, side)
    PROVE  Balanced(w, N, [black EXCEPT ![a] = black[b], ![b] = black[a]], short)
<1>. DEFINE far == Other(side)
            c == t.node[a][side]
            inner == t.node[b][side]
            outer == t.node[b][far]
            g == [black EXCEPT ![a] = black[b], ![b] = black[a]]
<1>1. far \in Side /\ far # side /\ Other(side) = far /\ Other(far) = side
      /\ \A s \in Side : s = side \/ s = far
  BY Sides, Zenon DEF Side, Other
<1>2. /\ b \in N /\ a # b /\ a # Sentinel /\ b # Sentinel
      /\ c \in N \union {Sentinel} /\ c # a /\ c # b
      /\ inner \in N \union {Sentinel} /\ outer \in N \union {Sentinel}
      /\ inner # b /\ outer # b /\ inner # a /\ outer # a
  <2>1. /\ b \in N /\ a # b /\ a # Sentinel /\ b # Sentinel
        /\ c \in N \union {Sentinel} /\ c # a /\ c # b /\ a \notin under[b]
    BY <1>1, Children, SMTT(60)
  <2>2. /\ inner \in N \union {Sentinel} /\ outer \in N \union {Sentinel}
        /\ inner # b /\ outer # b
        /\ under[inner] \subseteq under[b] /\ under[outer] \subseteq under[b]
    BY <1>1, <2>1, Children
  <2>3. a \in under[a]
    BY Children
  <2>. QED  BY <2>1, <2>2, <2>3
<1>3. N \subseteq Spot /\ Sentinel \in Spot /\ Null \notin Spot
  BY SMTT(60) DEF Shape, Links, Spot, Place, Null, Sentinel
<1>4. /\ g \in [Spot -> Nat \ {0}] /\ g[a] = black[b] /\ g[b] = black[a] /\ g[Sentinel] = 1
      /\ \A z \in Spot : z # a /\ z # b => g[z] = black[z]
      /\ black \in [Spot -> Nat \ {0}]
  BY <1>2, <1>3 DEF Balanced
<1>5. /\ \A z \in N, s \in Side : t1.node[z][s] = t.node[z][s]
      /\ \A z \in Spot : t1.node[z].parent = t.node[z].parent
  BY RepaintedShape, SMTT(60) DEF Repainted, Same
<1>6. \A z \in N, s \in Side : w.node[z][s] =
         IF z = a /\ s = far THEN inner
         ELSE IF z = b /\ s = side THEN a
         ELSE IF t.node[z][s] = a THEN b
         ELSE t.node[z][s]
  BY <1>2, <1>5 DEF Rotated
<1>7. /\ w.node[a][side] = c /\ w.node[a][far] = inner
      /\ w.node[b][side] = a /\ w.node[b][far] = outer
  BY <1>1, <1>2, <1>6, Zenon
<1>8. /\ w.node[a].red /\ w.node[b].red = t.node[a].red
      /\ \A z \in N : z \notin {a, b} => w.node[z].red = t.node[z].red
  BY <1>2, <1>3 DEF Rotated, Same
<1>9. short \in Spot => w.node[short].parent = t.node[short].parent
  <2>. SUFFICES ASSUME short \in Spot PROVE w.node[short].parent = t.node[short].parent
    BY Zenon
  <2>1. w.node[short].parent = IF short = inner /\ short # Sentinel THEN a ELSE t.node[short].parent
    BY <1>1, <1>2, <1>5, ZenonT(60) DEF Rotated
  <2>2. short = inner /\ short # Sentinel => t.node[short].parent = b
    BY <1>1, <1>2 DEF Shape, Links
  <2>. QED  BY <2>1, <2>2
<1>10. \A z \in N, s \in Side : t.node[z][s] = b => z = a
  BY <1>1, <1>2 DEF Shape, Links
<1>11. \A y \in N, s \in Side :
        black[y] = black[t.node[y][s]] + Missing(t, short, y, s) + (IF t.node[y].red THEN 0 ELSE 1)
  BY DEF Balanced
<1>12. /\ \A y \in N, s \in Side : t.node[y][s] \in Spot
       /\ \A y \in N, s \in Side : Missing(t, short, y, s) \in {0, 1} /\ Missing(w, short, y, s) \in {0, 1}
  BY <1>3 DEF Shape, Links, Missing, Spot
<1>. HIDE DEF far, c, inner, outer, g
<1>13. /\ Missing(t, short, a, far) = 0 /\ Missing(t, short, b, side) = 0
       /\ Missing(w, short, a, far) = 0 /\ Missing(w, short, b, side) = 0
       /\ Missing(w, short, a, side) = Missing(t, short, a, side)
       /\ Missing(w, short, b, far) = Missing(t, short, b, far)
  <2>1. Missing(t, short, a, far) = 0 /\ Missing(w, short, b, side) = 0
    BY <1>7 DEF Missing, far
  <2>2. Missing(t, short, b, side) = 0 /\ Missing(w, short, a, far) = 0
    BY <1>1, <1>2, <1>3, <1>7, <1>9 DEF Missing, inner
  <2>3. /\ Missing(w, short, a, side) = Missing(t, short, a, side)
        /\ Missing(w, short, b, far) = Missing(t, short, b, far)
    <3>1. c = short \/ outer = short => short \in Spot
      BY <1>2, <1>3
    <3>. QED  BY <1>7, <1>9, <3>1 DEF Missing, c, outer
  <2>. QED  BY <2>1, <2>2, <2>3
<1>14. black[b] = black[inner] /\ black[b] = black[outer] + Missing(t, short, b, far)
  <2>1. inner \in Spot /\ outer \in Spot /\ black[inner] \in Nat /\ black[outer] \in Nat
    BY <1>2, <1>3, <1>4
  <2>2. black[b] = black[inner] + Missing(t, short, b, side) + 0
    BY <1>2, <1>11 DEF inner
  <2>3. black[b] = black[outer] + Missing(t, short, b, far) + 0
    BY <1>1, <1>2, <1>11 DEF outer
  <2>. QED  BY <1>1, <1>2, <1>12, <1>13, <2>1, <2>2, <2>3
<1>15. /\ black[a] = black[b] + (IF t.node[a].red THEN 0 ELSE 1)
       /\ black[b] = black[c] + Missing(t, short, a, side)
  <2>1. black[a] = black[b] + Missing(t, short, a, far) + (IF t.node[a].red THEN 0 ELSE 1)
    BY <1>1, <1>11
  <2>2. black[a] = black[c] + Missing(t, short, a, side) + (IF t.node[a].red THEN 0 ELSE 1)
    BY <1>1, <1>11 DEF c
  <2>3. black[a] \in Nat /\ black[b] \in Nat /\ black[c] \in Nat
    BY <1>2, <1>3, <1>4
  <2>. QED  BY <1>12, <1>13, <2>1, <2>2, <2>3
<1>16. ASSUME NEW y \in N, NEW s \in Side
       PROVE  g[y] = g[w.node[y][s]] + Missing(w, short, y, s) + (IF w.node[y].red THEN 0 ELSE 1)
  <2>0. black[a] \in Nat /\ black[b] \in Nat /\ black[c] \in Nat /\ black[inner] \in Nat /\ black[outer] \in Nat
    BY <1>2, <1>3, <1>4
  <2>1. CASE y = a /\ s = far
    <3>1. g[inner] = black[inner]
      BY <1>2, <1>3, <1>4
    <3>. QED  BY <1>4, <1>7, <1>8, <1>13, <1>14, <2>0, <2>1, <3>1
  <2>2. CASE y = a /\ s = side
    <3>1. g[c] = black[c]
      BY SMTT(60), <1>2, <1>3, <1>4
    <3>. QED  BY <1>1, <1>4, <1>7, <1>8, <1>12, <1>13, <1>15, <2>0, <2>2, <3>1
  <2>3. CASE y = b /\ s = side
    BY SMTT(60), <1>2, <1>4, <1>7, <1>8, <1>13, <1>15, <2>0, <2>3
  <2>4. CASE y = b /\ s = far
    <3>1. g[outer] = black[outer]
      BY <1>2, <1>3, <1>4
    <3>2. g[b] = black[b] + (IF w.node[b].red THEN 0 ELSE 1)
      BY <1>4, <1>8, <1>15
    <3>. QED  BY <1>1, <1>2, <1>7, <1>12, <1>13, <1>14, <2>0, <2>4, <3>1, <3>2
  <2>5. CASE y # a /\ y # b
    <3>1. g[y] = black[y] /\ w.node[y].red = t.node[y].red
      BY <1>3, <1>4, <1>8, <2>5
    <3>2. g[w.node[y][s]] = black[t.node[y][s]]
      <4>1. CASE t.node[y][s] = a
        BY <1>4, <1>6, <2>5, <4>1
      <4>2. CASE t.node[y][s] # a
        BY <1>4, <1>6, <1>10, <1>12, <2>5, <4>2
      <4>. QED  BY <4>1, <4>2
    <3>3. Missing(w, short, y, s) = Missing(t, short, y, s)
      <4>1. CASE t.node[y][s] = a
        BY <1>6, <2>5, <4>1 DEF Missing
      <4>2. CASE t.node[y][s] # a
        <5>1. w.node[y][s] = t.node[y][s] /\ t.node[y][s] \in Spot
          BY <1>6, <1>12, <2>5, <4>2
        <5>. QED  BY <1>9, <5>1 DEF Missing
      <4>. QED  BY <4>1, <4>2
    <3>. QED  BY <1>11, <3>1, <3>2, <3>3
  <2>. QED  BY <1>1, <2>1, <2>2, <2>3, <2>4, <2>5
<1>17. Balanced(w, N, g, short)
  BY <1>4, <1>16, Zenon DEF Balanced
<1>. QED  BY <1>17 DEF g

-----------------------------------------------------------------------------
(* __rb_insert_fixup: the only red node under a red one is x, and it goes  *)
(* up, or the rotations end it.                                            *)

InsertInv(t, N, under, black, x) ==
    /\ Shape(t, N, under)
    /\ Balanced(t, N, black, Null)
    /\ Reds(t, N, {}, {x})
    /\ t.node[t.root].red => t.root = x
    /\ x \in N /\ t.node[x].red

Settled(t, x) == x = t.root \/ ~t.node[t.node[x].parent].red

SameData(t, w) == w.used = t.used /\ Same(t, w, {"key", "value"})

(* The parent p of x is red, so that it is not the root and has a parent g.*)
Kin(t, N, x, p, g, side) ==
    /\ p \in N /\ t.node[p].red /\ g \in N /\ ~t.node[g].red
    /\ side \in Side /\ t.node[g][side] = p /\ t.node[g][Other(side)] # p
    /\ t.node[g][Other(side)] \in N \union {Sentinel}
    /\ x \in {t.node[p][side], t.node[p][Other(side)]}
    /\ t.node[p][side] # t.node[p][Other(side)]
    /\ x # p /\ x # g /\ p # g
    /\ p # t.root /\ x # t.root /\ ~t.node[t.root].red

LEMMA Grandparent ==
    ASSUME NEW t, NEW N, NEW under, NEW black, NEW x, InsertInv(t, N, under, black, x),
           ~Settled(t, x)
    PROVE  LET p == t.node[x].parent
               g == t.node[p].parent
               side == SideOf(t, p, g)
           IN  Kin(t, N, x, p, g, side)
<1>. DEFINE p == t.node[x].parent
            g == t.node[p].parent
            side == SideOf(t, p, g)
<1>1. Shape(t, N, under) /\ x \in N /\ x # t.root /\ t.node[p].red
  BY DEF InsertInv, Settled
<1>2. p \in N /\ \E s \in Side : t.node[p][s] = x
  BY <1>1 DEF Shape, Links
<1>3. ~t.node[t.root].red /\ p # t.root
  BY <1>1 DEF InsertInv
<1>4. g \in N /\ \E s \in Side : t.node[g][s] = p
  BY <1>1, <1>2, <1>3 DEF Shape, Links
<1>5. side \in Side /\ t.node[g][side] = p
  BY <1>4 DEF SideOf, Side
<1>. HIDE DEF p, g, side
<1>6. Other(side) \in Side /\ (\A s \in Side : s = side \/ s = Other(side))
  BY <1>5 DEF Side, Other
<1>7. /\ t.node[g][Other(side)] # p /\ t.node[g][Other(side)] \in N \union {Sentinel}
      /\ p # g /\ p # Sentinel /\ x # Sentinel /\ under[p] \subseteq under[g] /\ g \notin under[p]
  BY <1>1, <1>2, <1>4, <1>5, Children
<1>8. /\ x # p /\ x \in {t.node[p][side], t.node[p][Other(side)]}
      /\ t.node[p][side] # t.node[p][Other(side)]
      /\ x \in under[p]
  <2>1. PICK s \in Side : t.node[p][s] = x
    BY <1>2
  <2>2. x # p /\ t.node[p][Other(s)] # x /\ x \in under[x] /\ under[x] \subseteq under[p]
    BY <1>1, <1>2, <1>7, <2>1, Children
  <2>3. s = side \/ s = Other(side)
    BY <1>6
  <2>4. Other(Other(side)) = side
    BY <1>5, Sides
  <2>. QED  BY <2>1, <2>2, <2>3, <2>4
<1>9. ~t.node[g].red
  BY <1>1, <1>4, <1>5, <1>8 DEF InsertInv, Reds
<1>10. Kin(t, N, x, p, g, side)
  BY <1>1, <1>2, <1>3, <1>4, <1>5, <1>7, <1>8, <1>9 DEF Kin
<1>. QED  BY <1>10 DEF p, g, side

(* A red uncle: the colours of both generations change places.             *)
LEMMA RedUncle ==
    ASSUME NEW t, NEW N, NEW under, NEW black, NEW x, InsertInv(t, N, under, black, x),
           ~Settled(t, x)
    PROVE  LET p == t.node[x].parent
               g == t.node[p].parent
               uncle == t.node[g][Other(SideOf(t, p, g))]
               w == Coloured(t, {p, uncle}, {g})
           IN  t.node[uncle].red =>
                 /\ InsertInv(w, N, under, [black EXCEPT ![p] = @ + 1, ![uncle] = @ + 1], g)
                 /\ SameData(t, w)
<1>. DEFINE p == t.node[x].parent
            g == t.node[p].parent
            side == SideOf(t, p, g)
            uncle == t.node[g][Other(side)]
            w == Coloured(t, {p, uncle}, {g})
            f == [black EXCEPT ![p] = @ + 1, ![uncle] = @ + 1]
<1>0. SUFFICES ASSUME t.node[uncle].red
               PROVE  InsertInv(w, N, under, f, g) /\ SameData(t, w)
  BY ZenonT(60)
<1>1. /\ p \in N /\ t.node[p].red /\ g \in N /\ ~t.node[g].red
      /\ side \in Side /\ t.node[g][side] = p /\ uncle # p /\ uncle \in N \union {Sentinel}
      /\ x # p /\ x # g /\ p # g /\ p # t.root /\ x # t.root /\ ~t.node[t.root].red
  <2>1. Kin(t, N, x, p, g, side)
    BY SMTT(60), Grandparent
  <2>. HIDE DEF p, g, side
  <2>. QED  BY <2>1 DEF Kin
<1>2. \A s \in Side : t.node[g][s] \in {p, uncle}
  BY <1>1 DEF Side, Other
<1>3. /\ t.node[x].parent = p /\ t.node[p].parent = g /\ t.node[uncle].red
      /\ uncle # Sentinel => t.node[uncle].parent = g
  BY <1>0, <1>1, Sides, Zenon DEF InsertInv, Shape, Links
<1>. HIDE DEF p, g, side, uncle
<1>4. /\ Shape(t, N, under) /\ t \in Trees /\ ~t.node[Sentinel].red /\ N \subseteq Spot
      /\ Sentinel \in Spot /\ Sentinel \notin N /\ x \in N
  BY DEF InsertInv, Shape, Links, Spot, Place, Sentinel
<1>5. uncle \in N /\ uncle # g
  <2>1. uncle \in N
    BY <1>1, <1>4, <1>3
  <2>. QED  BY <1>1, <1>4, <1>3, <2>1 DEF InsertInv, Shape, Links
<1>6. /\ Repainted(t, w)
      /\ \A z \in Spot : w.node[z].red = (z \in {g} \/ (t.node[z].red /\ z \notin {p, uncle}))
  BY <1>1, <1>4, Painting
<1>. HIDE DEF w
<1>7. /\ Shape(w, N, under)
      /\ \A z \in N, s \in Side : w.node[z][s] = t.node[z][s]
  BY <1>4, <1>6, RepaintedShape
<1>8. w.root = t.root /\ SameData(t, w)
  BY <1>6 DEF Repainted, SameData, Same
<1>9. Balanced(w, N, f, Null)
  <2>1. black \in [Spot -> Nat \ {0}] /\ black[Sentinel] = 1
    BY DEF InsertInv, Balanced
  <2>2. /\ f \in [Spot -> Nat \ {0}] /\ f[Sentinel] = 1
        /\ f[p] = black[p] + 1 /\ f[uncle] = black[uncle] + 1
        /\ \A z \in Spot : z # p /\ z # uncle => f[z] = black[z]
    BY <1>1, <1>4, <1>5, <2>1
  <2>. HIDE DEF f
  <2>3. ASSUME NEW y \in N, NEW s \in Side
        PROVE  f[y] = f[w.node[y][s]] + Missing(w, Null, y, s) + (IF w.node[y].red THEN 0 ELSE 1)
    <3>1. /\ t.node[y][s] \in Spot /\ y \in Spot /\ t.node[y][s] # Null
          /\ Missing(w, Null, y, s) = 0 /\ Missing(t, Null, y, s) = 0
      BY <1>4, <1>7 DEF Shape, Links, Missing, Spot, Place, Sentinel, Null
    <3>2. black[y] = black[t.node[y][s]] + 0 + (IF t.node[y].red THEN 0 ELSE 1)
      BY <3>1 DEF InsertInv, Balanced
    <3>3. black[t.node[y][s]] \in Nat
      BY <2>1, <3>1
    <3>4. t.node[y][s] = p \/ t.node[y][s] = uncle => y = g
      BY <1>1, <1>4, <1>5, <1>3 DEF Shape, Links
    <3>5. w.node[y].red = (y = g \/ (t.node[y].red /\ y \notin {p, uncle}))
      BY <1>6, <3>1
    <3>6. CASE y = g
      <4>1. t.node[y][s] = p \/ t.node[y][s] = uncle
        BY <1>2, <3>6
      <4>2. f[y] = black[y]
        BY <1>1, <1>5, <2>2, <3>1, <3>6
      <4>3. f[w.node[y][s]] = black[t.node[y][s]] + 1 /\ w.node[y].red /\ ~t.node[y].red
        BY <1>1, <1>7, <2>2, <3>5, <3>6, <4>1, ZenonT(60)
      <4>. QED  BY <3>1, <3>2, <3>3, <4>2, <4>3
    <3>7. CASE y \in {p, uncle}
      <4>1. f[t.node[y][s]] = black[t.node[y][s]]
        BY <1>1, <1>5, <2>2, <3>1, <3>4, <3>7
      <4>2. f[w.node[y][s]] = black[t.node[y][s]] /\ f[y] = black[y] + 1
        BY <1>7, <2>2, <3>7, <4>1
      <4>3. ~w.node[y].red /\ t.node[y].red
        BY <1>1, <1>5, <1>3, <3>5, <3>7
      <4>. QED  BY <3>1, <3>2, <3>3, <4>2, <4>3
    <3>8. CASE y \notin {g, p, uncle}
      <4>1. f[t.node[y][s]] = black[t.node[y][s]] /\ f[y] = black[y]
        BY <2>2, <3>1, <3>4, <3>8
      <4>. QED  BY <1>7, <3>1, <3>2, <3>3, <3>5, <3>8, <4>1
    <3>. QED  BY <3>6, <3>7, <3>8
  <2>. QED  BY <2>2, <2>3 DEF Balanced
<1>. HIDE DEF f
<1>10. Reds(w, N, {}, {g})
  <2>. SUFFICES ASSUME NEW y \in N, NEW s \in Side, w.node[y].red, w.node[w.node[y][s]].red
                PROVE  w.node[y][s] = g
    BY DEF Reds
  <2>1. w.node[y][s] = t.node[y][s] /\ t.node[y][s] \in Spot /\ y \in Spot
    BY <1>4, <1>7 DEF Shape, Links, Spot
  <2>2. CASE y = g
    BY <1>1, <1>5, <1>6, <1>2, <2>1, <2>2
  <2>3. CASE y # g /\ t.node[y][s] # g
    <3>1. t.node[y].red /\ t.node[t.node[y][s]].red /\ y \notin {p, uncle}
      BY <1>6, <2>1, <2>3
    <3>2. t.node[y][s] = x
      BY <3>1 DEF InsertInv, Reds
    <3>3. y = p
      BY <1>4, <1>3, <3>2 DEF Shape, Links
    <3>. QED  BY <3>1, <3>3
  <2>. QED  BY <2>1, <2>2, <2>3
<1>11. w.node[g].red /\ (w.node[w.root].red => w.root = g)
  <2>1. t.root \in Spot /\ g \in Spot
    BY <1>1, <1>4 DEF Shape, Links, Spot
  <2>. QED  BY <1>1, <1>6, <1>8, <2>1
<1>12. InsertInv(w, N, under, f, g)
  BY <1>1, <1>7, <1>8, <1>9, <1>10, <1>11 DEF InsertInv
<1>. QED  BY <1>8, <1>12, Zenon

(* An inner x changes places with its parent, which is then the outer one. *)
Straight(t, w, N, x, p, g, side) ==
    /\ \E above, count : InsertInv(w, N, above, count, p)
    /\ SameData(t, w) /\ ~Settled(w, p)
    /\ w.node[p].parent = x /\ w.node[x].parent = g /\ SideOf(w, x, g) = side
    /\ w.node[x][side] = p
    /\ w.node[g][Other(side)] = t.node[g][Other(side)]
    /\ \A z \in Spot : w.node[z].red = t.node[z].red

LEMMA Straightened ==
    ASSUME NEW t, NEW N, NEW under, NEW black, NEW x, InsertInv(t, N, under, black, x),
           ~Settled(t, x)
    PROVE  LET p == t.node[x].parent
               g == t.node[p].parent
               side == SideOf(t, p, g)
               w == Rotate(t, p, side)
           IN  x = t.node[p][Other(side)] => Straight(t, w, N, x, p, g, side)
<1>. DEFINE p == t.node[x].parent
            g == t.node[p].parent
            side == SideOf(t, p, g)
            far == Other(side)
            w == Rotate(t, p, side)
            above == Turned(t, under, p, x, side)
            count == [black EXCEPT ![p] = black[x], ![x] = black[p]]
<1>0. SUFFICES ASSUME x = t.node[p][far]
               PROVE  /\ InsertInv(w, N, above, count, p)
                      /\ SameData(t, w) /\ ~Settled(w, p)
                      /\ w.node[p].parent = x /\ w.node[x].parent = g /\ SideOf(w, x, g) = side
                      /\ w.node[x][side] = p
                      /\ w.node[g][far] = t.node[g][far]
                      /\ \A z \in Spot : w.node[z].red = t.node[z].red
  BY ZenonT(60) DEF Straight
<1>1. /\ p \in N /\ t.node[p].red /\ g \in N /\ ~t.node[g].red
      /\ side \in Side /\ t.node[g][side] = p /\ t.node[g][far] # p
      /\ t.node[p][side] # t.node[p][far]
      /\ x # p /\ x # g /\ p # g /\ p # t.root /\ x # t.root /\ ~t.node[t.root].red
  <2>1. Kin(t, N, x, p, g, side)
    BY Grandparent
  <2>. HIDE DEF p, g, side
  <2>. QED  BY <2>1 DEF Kin
<1>2. /\ Shape(t, N, under) /\ t \in Trees /\ ~t.node[Sentinel].red /\ N \subseteq Spot
      /\ Sentinel \in Spot /\ Sentinel \notin N /\ x \in N /\ t.node[x].red /\ Null \notin Spot
      /\ t.root \in N \union {Sentinel}
      /\ t.node[p].parent = g /\ t.node[x].parent = p
  BY SMTT(60) DEF InsertInv, Shape, Links, Spot, Place, Sentinel, Null
<1>3. far \in Side /\ far # side /\ Other(far) = side /\ \A s \in Side : s = side \/ s = far
  BY <1>1, Sides DEF Side, Other
<1>. HIDE DEF p, g, side
<1>4. Rotated(t, w, N, p, x, side)
  BY <1>0, <1>1, <1>2, RotateEffect
<1>. HIDE DEF w
<1>5. Shape(w, N, above)
  BY <1>0, <1>1, <1>2, <1>4, RotateShape
<1>6. Balanced(w, N, count, Null)
  <2>1. Repainted(t, t)
    BY <1>2 DEF Repainted, Same
  <2>2. Balanced(t, N, black, Null) /\ Null \in Spot \union {Null}
    BY DEF InsertInv
  <2>3. Null \notin {p, x} /\ t.node[x][side] # Null
    BY <1>1, <1>2 DEF Shape, Links
  <2>. QED  BY <1>0, <1>1, <1>2, <1>4, <2>1, <2>2, <2>3, SwapBalance
<1>7. /\ \A z \in N, s \in Side : w.node[z][s] =
           IF z = p /\ s = far THEN t.node[x][side]
           ELSE IF z = x /\ s = side THEN p
           ELSE IF t.node[z][s] = p THEN x
           ELSE t.node[z][s]
      /\ \A z \in Spot : w.node[z].red = t.node[z].red
      /\ w.root = t.root /\ SameData(t, w)
      /\ w.node[p].parent = x /\ w.node[x].parent = g
  BY <1>1, <1>2, <1>4 DEF Rotated, Same, SameData
<1>8. w.node[g][side] = x /\ w.node[g][far] = t.node[g][far] /\ w.node[x][side] = p
  BY <1>0, <1>1, <1>2, <1>3, <1>7
<1>9. Reds(w, N, {}, {p})
  <2>. SUFFICES ASSUME NEW y \in N, NEW s \in Side, w.node[y].red, w.node[w.node[y][s]].red
                PROVE  w.node[y][s] = p
    BY DEF Reds
  <2>1. \A z \in N, q \in Side : /\ t.node[z][q] \in Spot
                                 /\ t.node[z].red /\ t.node[t.node[z][q]].red => t.node[z][q] = x
    BY <1>2 DEF InsertInv, Reds, Shape, Links, Spot
  <2>2. CASE y = p /\ s = far
    <3>1. w.node[y][s] = t.node[x][side] /\ t.node[x][side] # x
      BY <1>1, <1>2, <1>7, <2>2, Children
    <3>. QED  BY <1>1, <1>2, <1>7, <2>1, <2>2, <3>1
  <2>3. CASE y = p /\ s = side
    <3>1. w.node[y][s] = t.node[p][side] /\ t.node[p][side] # x
      <4>1. t.node[p][side] # p
        BY <1>1, <1>2, Children
      <4>. QED  BY <1>0, <1>1, <1>3, <1>7, <2>3, <4>1
    <3>. QED  BY <1>1, <1>2, <1>7, <2>1, <2>3, <3>1
  <2>4. CASE y = x /\ s = side
    BY <1>8, <2>4
  <2>5. CASE y = x /\ s = far
    <3>1. t.node[x][far] # p /\ t.node[x][far] # x
      <4>1. p \notin under[x] /\ t.node[x][far] \in N => t.node[x][far] \in under[x]
        BY <1>0, <1>1, <1>2, <1>3, Children, SMTT(60)
      <4>2. p \notin under[x]
        BY <1>0, <1>1, <1>2, <1>3, Children
      <4>. QED  BY <1>1, <1>2, <1>3, <4>1, <4>2, Children
    <3>2. w.node[y][s] = t.node[x][far]
      BY <1>1, <1>2, <1>3, <1>7, <2>5, <3>1
    <3>. QED  BY <1>2, <1>3, <1>7, <2>1, <2>5, <3>1, <3>2
  <2>6. CASE y # p /\ y # x
    <3>1. t.node[y][s] # p
      <4>. SUFFICES ASSUME t.node[y][s] = p PROVE FALSE
        OBVIOUS
      <4>1. y = g
        BY <1>1, <1>2 DEF Shape, Links
      <4>. QED  BY <1>1, <1>2, <1>7, <4>1
    <3>2. w.node[y][s] = t.node[y][s] /\ t.node[y][s] \in Spot
      BY <1>7, <2>1, <2>6, <3>1
    <3>3. t.node[y][s] = x
      BY <1>2, <1>7, <2>1, <3>2
    <3>4. y = p
      BY <1>2, <3>3 DEF Shape, Links
    <3>. QED  BY <2>6, <3>4
  <2>. QED  BY <1>3, <2>2, <2>3, <2>4, <2>5, <2>6
<1>10. SideOf(w, x, g) = side
  <2>1. w.node[g][far] # x
    <3>. SUFFICES ASSUME t.node[g][far] = x PROVE FALSE
      BY <1>8
    <3>1. t.node[x].parent = g
      BY <1>1, <1>2, <1>3 DEF Shape, Links
    <3>. QED  BY <1>1, <1>2, <3>1
  <2>. QED  BY <1>1, <1>8, <2>1 DEF SideOf, Side, Other, far
<1>11. ~w.node[w.root].red /\ w.node[p].red /\ w.node[x].red /\ p # w.root
  <2>1. t.root \in Spot
    BY <1>2 DEF Spot
  <2>. QED  BY <1>1, <1>2, <1>7, <2>1
<1>12. InsertInv(w, N, above, count, p) /\ ~Settled(w, p)
  BY <1>1, <1>5, <1>6, <1>7, <1>9, <1>11 DEF InsertInv, Settled
<1>. QED  BY <1>7, <1>8, <1>10, <1>12

(* Below a black uncle, and an outer x: the rotation ends the loop.        *)
LEMMA BlackUncle ==
    ASSUME NEW t, NEW N, NEW under, NEW black, NEW x, InsertInv(t, N, under, black, x),
           ~Settled(t, x)
    PROVE  LET p == t.node[x].parent
               g == t.node[p].parent
               side == SideOf(t, p, g)
               far == Other(side)
               w == Rotate(Coloured(t, {p}, {g}), g, far)
           IN  x = t.node[p][side] /\ ~t.node[t.node[g][far]].red =>
                 /\ \E above, count : InsertInv(w, N, above, count, x)
                 /\ SameData(t, w) /\ Settled(w, x)
<1>. DEFINE p == t.node[x].parent
            g == t.node[p].parent
            side == SideOf(t, p, g)
            far == Other(side)
            uncle == t.node[g][far]
            t1 == Coloured(t, {p}, {g})
            w == Rotate(t1, g, far)
            above == Turned(t1, under, g, p, far)
            count == [black EXCEPT ![g] = black[p], ![p] = black[g]]
<1>0. SUFFICES ASSUME x = t.node[p][side], ~t.node[uncle].red
               PROVE  /\ InsertInv(w, N, above, count, x)
                      /\ SameData(t, w) /\ Settled(w, x)
  BY ZenonT(60)
<1>1. /\ p \in N /\ t.node[p].red /\ g \in N /\ ~t.node[g].red
      /\ side \in Side /\ t.node[g][side] = p /\ t.node[g][far] # p
      /\ t.node[g][far] \in N \union {Sentinel}
      /\ t.node[p][side] # t.node[p][far]
      /\ x # p /\ x # g /\ p # g /\ p # t.root /\ x # t.root /\ ~t.node[t.root].red
  <2>1. Kin(t, N, x, p, g, side)
    BY Grandparent
  <2>. HIDE DEF p, g, side
  <2>. QED  BY <2>1, SMTT(60) DEF Kin
<1>2. /\ Shape(t, N, under) /\ t \in Trees /\ ~t.node[Sentinel].red /\ N \subseteq Spot
      /\ Sentinel \in Spot /\ Sentinel \notin N /\ x \in N /\ t.node[x].red /\ Null \notin Spot
      /\ t.root \in N \union {Sentinel}
      /\ t.node[p].parent = g /\ t.node[x].parent = p
  BY DEF InsertInv, Shape, Links, Spot, Place, Sentinel, Null
<1>3. far \in Side /\ far # side /\ Other(far) = side /\ \A s \in Side : s = side \/ s = far
  BY <1>1, Sides DEF Side, Other
<1>4. t.node[g][far] = uncle /\ ~t.node[uncle].red /\ uncle # p /\ uncle \in N \union {Sentinel}
  BY <1>0, <1>1, Zenon
<1>5. \A z \in Spot : t.node[z].red \in BOOLEAN
  BY <1>2 DEF Trees, NodeType
<1>. HIDE DEF p, g, side, far, uncle
<1>6. /\ Repainted(t, t1)
      /\ \A z \in Spot : t1.node[z].red = (z \in {g} \/ (t.node[z].red /\ z \notin {p}))
  BY <1>1, <1>2, Painting
<1>. HIDE DEF t1
<1>7. Shape(t1, N, under) /\ \A z \in N, s \in Side : t1.node[z][s] = t.node[z][s]
  BY <1>2, <1>6, RepaintedShape
<1>8. t1.node[g][side] = p /\ p # Sentinel
  BY <1>1, <1>2, <1>7
<1>9. Rotated(t1, w, N, g, p, far)
  BY <1>1, <1>3, <1>7, <1>8, RotateEffect
<1>. HIDE DEF w
<1>10. Shape(w, N, above)
  BY <1>1, <1>3, <1>7, <1>8, <1>9, RotateShape
<1>11. Balanced(w, N, count, Null)
  <2>1. Balanced(t, N, black, Null) /\ Null \in Spot \union {Null}
    BY DEF InsertInv
  <2>2. Null \notin {g, p} /\ t.node[p][far] # Null
    BY <1>1, <1>2, <1>3 DEF Shape, Links
  <2>3. t1.node[g].red /\ t1.node[p].red = t.node[g].red
        /\ \A z \in N : z \notin {g, p} => t1.node[z].red = t.node[z].red
    BY <1>1, <1>2, <1>6, <1>5
  <2>. QED  BY SMTT(60), <1>1, <1>2, <1>3, <1>6, <1>8, <1>9, <2>1, <2>2, <2>3, SwapBalance
<1>12. /\ \A z \in N, s \in Side : w.node[z][s] =
            IF z = g /\ s = side THEN t.node[p][far]
            ELSE IF z = p /\ s = far THEN g
            ELSE IF t.node[z][s] = g THEN p
            ELSE t.node[z][s]
       /\ \A z \in Spot : w.node[z].red = (z \in {g} \/ (t.node[z].red /\ z \notin {p}))
       /\ w.root = (IF t.node[g].parent = Null THEN p ELSE t.root)
       /\ w.node[x].parent = p
  <2>1. \A z \in Spot : t1.node[z].parent = t.node[z].parent
    BY <1>6 DEF Repainted, Same
  <2>2. x # t.node[p][far] /\ t1.node[p][far] = t.node[p][far] /\ t1.root = t.root
    BY <1>0, <1>1, <1>3, <1>6, <1>7 DEF Repainted
  <2>3. /\ \A z \in N, s \in Side : w.node[z][s] =
            IF z = g /\ s = side THEN t.node[p][far]
            ELSE IF z = p /\ s = far THEN g
            ELSE IF t.node[z][s] = g THEN p
            ELSE t.node[z][s]
    BY <1>3, <1>7, <1>9, <2>2 DEF Rotated
  <2>4. \A z \in Spot : w.node[z].red = (z \in {g} \/ (t.node[z].red /\ z \notin {p}))
    BY <1>6, <1>9 DEF Rotated, Same
  <2>5. w.root = (IF t.node[g].parent = Null THEN p ELSE t.root)
    BY <1>1, <1>2, <1>9, <2>1, <2>2 DEF Rotated
  <2>6. w.node[x].parent = p
    BY <1>1, <1>2, <1>9, <2>1, <2>2 DEF Rotated
  <2>. QED  BY <2>3, <2>4, <2>5, <2>6
<1>13. SameData(t, w)
  BY <1>6, <1>9 DEF Rotated, Repainted, Same, SameData
<1>14. Reds(w, N, {}, {x})
  <2>. SUFFICES ASSUME NEW y \in N, NEW s \in Side, w.node[y].red, w.node[w.node[y][s]].red
                PROVE  w.node[y][s] = x
    BY DEF Reds
  <2>1. \A z \in N, q \in Side : /\ t.node[z][q] \in Spot
                                 /\ t.node[z].red /\ t.node[t.node[z][q]].red => t.node[z][q] = x
    BY <1>2 DEF InsertInv, Reds, Shape, Links, Spot
  <2>2. CASE y = g /\ s = side
    <3>1. w.node[y][s] = t.node[p][far] /\ t.node[p][far] # x /\ t.node[p][far] \in Spot
      BY <1>0, <1>1, <1>3, <1>12, <2>1, <2>2
    <3>2. t.node[p][far] # g
      <4>1. g \notin under[p] /\ (t.node[p][far] \in N => t.node[p][far] \in under[p])
        BY <1>1, <1>2, <1>3, Children
      <4>. QED  BY <1>1, <1>2, <1>3, <4>1 DEF Shape, Links
    <3>3. t.node[t.node[p][far]].red
      BY <1>12, <2>2, <3>1, <3>2
    <3>. QED  BY <1>1, <1>3, <2>1, <3>1, <3>3
  <2>3. CASE y = g /\ s = far
    <3>1. uncle # g
      BY <1>1, <1>2, <1>3, <1>4, Children
    <3>2. w.node[y][s] = uncle /\ uncle \in Spot
      BY <1>1, <1>2, <1>3, <1>4, <1>12, <2>1, <2>3, <3>1
    <3>. QED  BY <1>1, <1>2, <1>4, <1>12, <2>3, <3>1, <3>2
  <2>4. CASE y = p
    BY <1>1, <1>2, <1>12, <2>4
  <2>5. CASE y # g /\ y # p
    <3>1. t.node[y][s] # g
      <4>. SUFFICES ASSUME t.node[y][s] = g PROVE FALSE
        OBVIOUS
      <4>1. w.node[y][s] = p
        BY <1>12, <2>5
      <4>. QED  BY <1>1, <1>2, <1>12, <4>1, ZenonT(60)
    <3>2. w.node[y][s] = t.node[y][s] /\ t.node[y][s] \in Spot
      BY <1>12, <2>1, <2>5, <3>1
    <3>3. t.node[t.node[y][s]].red /\ t.node[y].red
      BY <1>2, <1>12, <2>5, <3>1, <3>2
    <3>. QED  BY <2>1, <3>2, <3>3
  <2>. QED  BY <1>3, <2>2, <2>3, <2>4, <2>5
<1>15. /\ ~w.node[p].red /\ w.node[x].red
       /\ w.node[w.root].red => w.root = x
  <2>1. ~w.node[p].red /\ w.node[x].red
    BY <1>1, <1>2, <1>12
  <2>2. CASE t.node[g].parent = Null
    BY <1>12, <2>1, <2>2
  <2>3. CASE t.node[g].parent # Null
    <3>1. w.root = t.root /\ t.root \in Spot /\ (t.root # Sentinel => t.node[t.root].parent = Null)
      BY <1>1, <1>2, <1>12, <2>3 DEF Shape, Links, Spot
    <3>2. t.root # g
      BY <1>1, <1>2, <2>3, <3>1
    <3>3. ~w.node[t.root].red
      <4>1. ~t.node[t.root].red /\ t.root \notin {g}
        BY <1>1, <3>2
      <4>2. w.node[t.root].red = (t.root \in {g} \/ (t.node[t.root].red /\ t.root \notin {p}))
        BY <1>12, <3>1
      <4>. QED  BY <4>1, <4>2
    <3>. QED  BY <2>1, <3>1, <3>3
  <2>. QED  BY <2>1, <2>2, <2>3
<1>16. InsertInv(w, N, above, count, x) /\ Settled(w, x)
  BY <1>2, <1>10, <1>11, <1>12, <1>14, <1>15 DEF InsertInv, Settled
<1>. QED  BY <1>13, <1>16, Zenon

(* A turn of the loop, and the loop.                                       *)
LEMMA InsertTurns ==
    ASSUME NEW t, NEW N, NEW under, NEW black, NEW x, InsertInv(t, N, under, black, x)
    PROVE  LET loop == [tree |-> t, at |-> x]
               next == InsertTurn(loop)
           IN  /\ next = [tree |-> next.tree, at |-> next.at]
               /\ Settled(t, x) => next = loop
               /\ SameData(t, next.tree)
               /\ \E above, count :
                   /\ InsertInv(next.tree, N, above, count, next.at)
                   /\ Settled(next.tree, next.at) \/ under[x] \subseteq above[next.at] \ {next.at}
<1>. DEFINE loop == [tree |-> t, at |-> x]
            next == InsertTurn(loop)
            p == t.node[x].parent
            g == t.node[p].parent
            side == SideOf(t, p, g)
            far == Other(side)
            uncle == t.node[g][far]
            Goal == \E above, count :
                      /\ InsertInv(next.tree, N, above, count, next.at)
                      /\ Settled(next.tree, next.at) \/ under[x] \subseteq above[next.at] \ {next.at}
<1>0. SUFFICES /\ next = [tree |-> next.tree, at |-> next.at]
               /\ Settled(t, x) => next = loop
               /\ SameData(t, next.tree)
               /\ Goal
  OBVIOUS
<1>1. CASE Settled(t, x)
  <2>1. next = loop
    BY <1>1 DEF Settled, InsertTurn
  <2>. HIDE DEF next
  <2>2. next.tree = t /\ next.at = x
    BY <2>1
  <2>3. Goal
    BY <1>1, <2>2
  <2>4. SameData(t, t)
    BY Zenon DEF SameData, Same
  <2>. QED  BY <2>1, <2>2, <2>3, <2>4, Zenon
<1>2. CASE ~Settled(t, x)
  <2>1. /\ p \in N /\ g \in N /\ side \in Side
        /\ x \in {t.node[p][side], t.node[p][far]} /\ t.node[p][side] # t.node[p][far]
        /\ t.node[g][side] = p /\ x # g
    <3>1. Kin(t, N, x, p, g, side)
      BY <1>2, Grandparent
    <3>. HIDE DEF p, g, side
    <3>. QED  BY <3>1 DEF Kin
  <2>2. ~(x = t.root \/ ~t.node[p].red)
    BY <1>2 DEF Settled
  <2>3. CASE t.node[uncle].red
    <3>. DEFINE w == Coloured(t, {p, uncle}, {g})
                count == [black EXCEPT ![p] = @ + 1, ![uncle] = @ + 1]
    <3>1. InsertInv(w, N, under, count, g) /\ SameData(t, w)
      BY <1>2, <2>3, RedUncle, ZenonT(60)
    <3>2. next = [tree |-> w, at |-> g]
      BY <2>2, <2>3, Zenon DEF InsertTurn
    <3>3. under[x] \subseteq under[g] \ {g}
      <4>1. Shape(t, N, under)
        BY DEF InsertInv
      <4>2. under[x] \subseteq under[p] /\ under[p] \subseteq under[g] /\ g \notin under[p]
        <5>. HIDE DEF p, g, side, far
        <5>1. Other(side) \in Side /\ Other(side) = far
          BY <2>1, Sides DEF far
        <5>. QED  BY <2>1, <4>1, <5>1, Children
      <4>. QED  BY <4>2
    <3>. HIDE DEF next, w, count, p, g, side, far, uncle
    <3>4. next.tree = w /\ next.at = g
      BY <3>2
    <3>5. Goal
      BY <3>1, <3>3, <3>4
    <3>. HIDE DEF Goal
    <3>. QED  BY <1>2, <3>1, <3>2, <3>4, <3>5, Zenon
  <2>4. CASE ~t.node[uncle].red /\ x = t.node[p][far]
    <3>. DEFINE u == Rotate(t, p, side)
                w == Rotate(Coloured(u, {x}, {g}), g, far)
    <3>1. /\ \E above, count : InsertInv(u, N, above, count, p)
          /\ SameData(t, u) /\ ~Settled(u, p)
          /\ u.node[p].parent = x /\ u.node[x].parent = g /\ SideOf(u, x, g) = side
          /\ u.node[x][side] = p
          /\ u.node[g][far] = uncle
          /\ \A z \in Spot : u.node[z].red = t.node[z].red
      <4>1. Straight(t, u, N, x, p, g, side)
        BY <1>2, <2>4, Straightened, Zenon
      <4>. QED  BY <4>1, ZenonT(60) DEF Straight
    <3>2. next = [tree |-> w, at |-> p]
      BY <2>2, <2>4, ZenonT(60) DEF InsertTurn
    <3>3. uncle \in Spot
      BY <2>1, Sides, Zenon DEF InsertInv, Shape, Links, Spot
    <3>. HIDE DEF next, u, p, g, side, uncle
    <3>4. PICK above, count : InsertInv(u, N, above, count, p)
      BY <3>1
    <3>5. /\ \E a1, c1 : InsertInv(w, N, a1, c1, p)
          /\ SameData(u, w) /\ Settled(w, p)
      <4>1. ~u.node[u.node[g][far]].red /\ p = u.node[x][side]
        BY <2>4, <3>1, <3>3
      <4>. QED  BY <3>1, <3>4, <4>1, BlackUncle, Zenon
    <3>. HIDE DEF w
    <3>6. next.tree = w /\ next.at = p
      BY <3>2
    <3>7. Goal
      BY <3>5, <3>6
    <3>8. SameData(t, w)
      BY <3>1, <3>5 DEF SameData, Same
    <3>. HIDE DEF Goal
    <3>. QED  BY <1>2, <3>2, <3>6, <3>7, <3>8, Zenon
  <2>5. CASE ~t.node[uncle].red /\ x # t.node[p][far]
    <3>. DEFINE w == Rotate(Coloured(t, {p}, {g}), g, far)
    <3>1. x = t.node[p][side]
      BY <2>1, <2>5, Zenon
    <3>2. /\ \E above, count : InsertInv(w, N, above, count, x)
          /\ SameData(t, w) /\ Settled(w, x)
      BY <1>2, <2>5, <3>1, BlackUncle, ZenonT(60)
    <3>3. next = [tree |-> w, at |-> x]
      BY <2>2, <2>5, Zenon DEF InsertTurn
    <3>. HIDE DEF next, w, p, g, side, far, uncle
    <3>4. next.tree = w /\ next.at = x
      BY <3>3
    <3>5. Goal
      BY <3>2, <3>4
    <3>. HIDE DEF Goal
    <3>. QED  BY <1>2, <3>2, <3>3, <3>4, <3>5, Zenon
  <2>. QED  BY <2>3, <2>4, <2>5, ZenonT(60)
<1>. QED  BY <1>1, <1>2

(* The shape of a tree whose colours are right. *)
RedBlack(t, N, under, black) ==
    /\ Shape(t, N, under) /\ Balanced(t, N, black, Null)
    /\ Reds(t, N, {}, {}) /\ ~t.node[t.root].red

LEMMA Sizes ==
    ASSUME NEW t, NEW N, NEW under, Shape(t, N, under)
    PROVE  /\ IsFiniteSet(N) /\ Cardinality(N) \in 0 .. Memory
           /\ \A S \in SUBSET N : IsFiniteSet(S) /\ Cardinality(S) \in 0 .. Cardinality(N)
           /\ \A S, R \in SUBSET N : S \subseteq R /\ S # R => Cardinality(S) < Cardinality(R)
           /\ N = Place => Cardinality(N) = Memory
<1>1. N \subseteq 1 .. Memory /\ IsFiniteSet(1 .. Memory) /\ Cardinality(1 .. Memory) = Memory
  <2>1. N \subseteq 1 .. Memory
    BY DEF Shape, Links, Place
  <2>2. IsFiniteSet(1 .. Memory) /\ Cardinality(1 .. Memory) = Memory
    <3>1. 1 \in Int /\ Memory \in Int /\ Memory \in Nat /\ Memory - 1 + 1 = Memory
      BY TreeAssumption
    <3>2. IsFiniteSet(1 .. Memory)
      BY <3>1, FS_Interval
    <3>3. Cardinality(1 .. Memory) = IF 1 > Memory THEN 0 ELSE Memory - 1 + 1
      BY <3>1, FS_Interval
    <3>. QED  BY <3>1, <3>2, <3>3
  <2>. QED  BY <2>1, <2>2
<1>2. IsFiniteSet(N) /\ Cardinality(N) \in 0 .. Memory
  <2>1. IsFiniteSet(N) /\ Cardinality(N) <= Cardinality(1 .. Memory)
    BY <1>1, FS_Subset
  <2>2. Cardinality(N) \in Nat
    BY <2>1, FS_CardinalityType
  <2>. QED  BY <1>1, <2>1, <2>2, TreeAssumption
<1>3. ASSUME NEW S \in SUBSET N PROVE IsFiniteSet(S) /\ Cardinality(S) \in 0 .. Cardinality(N)
  <2>1. IsFiniteSet(S) /\ Cardinality(S) <= Cardinality(N)
    BY <1>2, FS_Subset
  <2>2. Cardinality(S) \in Nat
    BY <2>1, FS_CardinalityType
  <2>. QED  BY <1>2, <2>1, <2>2
<1>4. ASSUME NEW S \in SUBSET N, NEW R \in SUBSET N, S \subseteq R, S # R
      PROVE  Cardinality(S) < Cardinality(R)
  <2>1. IsFiniteSet(R) /\ Cardinality(S) \in Nat /\ Cardinality(R) \in Nat
    BY <1>2, <1>3
  <2>2. Cardinality(S) <= Cardinality(R) /\ Cardinality(S) # Cardinality(R)
    BY <1>4, <2>1, FS_Subset
  <2>. QED  BY <2>1, <2>2
<1>5. N = Place => Cardinality(N) = Memory
  BY <1>1 DEF Place
<1>. QED  BY <1>2, <1>3, <1>4, <1>5

(* The root becomes black.                                                 *)
LEMMA RootPainted ==
    ASSUME NEW t, NEW N, NEW under, NEW black, NEW x, InsertInv(t, N, under, black, x),
           Settled(t, x)
    PROVE  LET w == Coloured(t, {t.root}, {})
           IN  SameData(t, w) /\ \E count : RedBlack(w, N, under, count)
<1>. DEFINE w == Coloured(t, {t.root}, {})
            r == t.root
            count == [black EXCEPT ![r] = IF t.node[r].red THEN @ + 1 ELSE @]
<1>1. /\ Shape(t, N, under) /\ t \in Trees /\ ~t.node[Sentinel].red /\ N \subseteq Spot
      /\ Sentinel \in Spot /\ Sentinel \notin N /\ x \in N /\ Null \notin Spot
      /\ t.root \in N \union {Sentinel}
  BY DEF InsertInv, Shape, Links, Spot, Place, Sentinel, Null
<1>2. r \in N \union {Sentinel} /\ r \in Spot /\ t.root = r
  BY <1>1
<1>3. /\ Repainted(t, w)
      /\ \A z \in Spot : w.node[z].red = (t.node[z].red /\ z # r)
  BY <1>1, Painting
<1>4. t.node[r].red => r \in N /\ \A y \in N, s \in Side : t.node[y][s] # r
  BY <1>1, <1>2 DEF Shape, Links
<1>. HIDE DEF w, r
<1>5. Shape(w, N, under) /\ \A z \in N, s \in Side : w.node[z][s] = t.node[z][s]
  BY <1>1, <1>3, RepaintedShape
<1>6. SameData(t, w) /\ w.root = r
  BY <1>1, <1>3, <1>2 DEF Repainted, SameData, Same
<1>7. Balanced(w, N, count, Null)
  <2>1. black \in [Spot -> Nat \ {0}] /\ black[Sentinel] = 1
    BY DEF InsertInv, Balanced
  <2>2. /\ count \in [Spot -> Nat \ {0}] /\ count[Sentinel] = 1
        /\ count[r] = IF t.node[r].red THEN black[r] + 1 ELSE black[r]
        /\ \A z \in Spot : z # r => count[z] = black[z]
    BY <1>1, <1>2, <2>1
  <2>. HIDE DEF count
  <2>3. ASSUME NEW y \in N, NEW s \in Side
        PROVE  count[y] = count[w.node[y][s]] + Missing(w, Null, y, s) + (IF w.node[y].red THEN 0 ELSE 1)
    <3>1. /\ t.node[y][s] \in Spot /\ y \in Spot /\ t.node[y][s] # Null
          /\ Missing(w, Null, y, s) = 0 /\ Missing(t, Null, y, s) = 0
      <4>1. t.node[y][s] \in Spot /\ y \in Spot /\ w.node[y][s] = t.node[y][s]
        BY <1>1, <1>5 DEF Shape, Links, Spot
      <4>. QED  BY <1>1, <4>1 DEF Missing
    <3>2. black[y] = black[t.node[y][s]] + 0 + (IF t.node[y].red THEN 0 ELSE 1)
      BY <3>1 DEF InsertInv, Balanced
    <3>3. black[t.node[y][s]] \in Nat /\ count[w.node[y][s]] = black[t.node[y][s]]
      BY <1>4, <1>5, <2>1, <2>2, <3>1
    <3>4. w.node[y].red = (t.node[y].red /\ y # r)
      BY <1>3, <3>1
    <3>5. CASE y = r
      <4>1. CASE t.node[r].red
        <5>1. count[y] = black[y] + 1 /\ ~w.node[y].red
          BY <2>2, <3>4, <3>5, <4>1
        <5>. QED  BY <3>1, <3>2, <3>3, <3>5, <4>1, <5>1
      <4>2. CASE ~t.node[r].red
        BY <2>2, <3>1, <3>2, <3>3, <3>4, <3>5, <4>2
      <4>. QED  BY <4>1, <4>2
    <3>6. CASE y # r
      <4>1. t.node[y].red \in BOOLEAN
        BY <1>1, <3>1 DEF Trees, NodeType
      <4>2. count[y] = black[y] /\ w.node[y].red = t.node[y].red
        BY <2>2, <3>1, <3>4, <3>6, <4>1
      <4>. QED  BY <3>1, <3>2, <3>3, <4>2
    <3>. QED  BY <3>5, <3>6
  <2>. QED  BY <2>2, <2>3 DEF Balanced
<1>8. Reds(w, N, {}, {})
  <2>. SUFFICES ASSUME NEW y \in N, NEW s \in Side, w.node[y].red, w.node[w.node[y][s]].red
                PROVE  FALSE
    BY DEF Reds
  <2>1. w.node[y][s] = t.node[y][s] /\ t.node[y][s] \in Spot /\ y \in Spot
    BY <1>1, <1>5 DEF Shape, Links, Spot
  <2>2. t.node[y].red /\ t.node[t.node[y][s]].red /\ t.node[y][s] # r
    BY <1>3, <2>1
  <2>3. t.node[y][s] = x
    BY <2>2 DEF InsertInv, Reds
  <2>4. t.node[x].parent = y
    BY <1>1, <2>3 DEF Shape, Links
  <2>. QED  BY <1>1, <1>2, <2>2, <2>3, <2>4 DEF Settled
<1>9. ~w.node[w.root].red
  BY <1>1, <1>3, <1>6, <1>2
<1>10. RedBlack(w, N, under, count)
  BY <1>5, <1>7, <1>8, <1>9 DEF RedBlack
<1>. QED  BY <1>6, <1>10 DEF w, r

LEMMA InsertFixed ==
    ASSUME NEW t, NEW N, NEW under, NEW black, NEW x, InsertInv(t, N, under, black, x)
    PROVE  LET w == InsertFixup(t, x)
           IN  SameData(t, w) /\ \E above, count : RedBlack(w, N, above, count)
<1>. DEFINE X == [tree : Trees, at : Spot]
            Good(s, a, c, k) ==
                /\ InsertInv(s.tree, N, a, c, s.at)
                /\ Settled(s.tree, s.at) \/ Cardinality(a[s.at]) >= k + 1
            T == [k \in 0 .. Memory |-> {s \in X : SameData(t, s.tree) /\ \E a, c : Good(s, a, c, k)}]
            start == [tree |-> t, at |-> x]
            step == [s \in X |-> InsertTurn(s)]
            after == CHOOSE f : f = [k \in 0 .. Memory |-> IF k = 0 THEN start ELSE InsertTurn(f[k - 1])]
<1>1. Memory \in Nat
  BY TreeAssumption
<1>2. ASSUME NEW r, NEW N1, NEW a, NEW c, NEW y, InsertInv(r, N1, a, c, y)
      PROVE  /\ r \in Trees /\ y \in Spot /\ y \in a[y] /\ a[y] \subseteq N1
             /\ Shape(r, N1, a)
  <2>1. Shape(r, N1, a) /\ y \in N1
    BY <1>2 DEF InsertInv
  <2>2. y \in Spot
    BY <2>1 DEF Shape, Links, Spot
  <2>. QED  BY <2>1, <2>2, Children DEF Shape, Unders, Side
<1>3. start \in T[0]
  <2>1. t \in Trees /\ x \in Spot /\ x \in under[x] /\ under[x] \subseteq N /\ Shape(t, N, under)
    BY <1>2
  <2>2. start \in X /\ start.tree = t /\ start.at = x
    BY <2>1
  <2>3. SameData(t, t)
    BY DEF SameData, Same
  <2>4. Cardinality(under[x]) >= 0 + 1
    <3>1. {} \in SUBSET N /\ under[x] \in SUBSET N /\ {} # under[x]
      BY <2>1
    <3>2. Cardinality({}) < Cardinality(under[x]) /\ Cardinality({}) \in Nat /\ Cardinality(under[x]) \in Nat
      BY <2>1, <3>1, Sizes
    <3>. QED  BY <3>2
  <2>. HIDE DEF start, X
  <2>5. Good(start, under, black, 0)
    BY <2>2, <2>4
  <2>. HIDE DEF Good
  <2>. QED  BY <1>1, <2>2, <2>3, <2>5
<1>4. ASSUME NEW k \in 1 .. Memory, NEW s \in T[k - 1]
      PROVE  s \in X /\ InsertTurn(s) \in T[k]
  <2>. DEFINE next == InsertTurn(s)
  <2>1. k - 1 \in 0 .. Memory /\ k \in 0 .. Memory
    BY <1>1
  <2>2. s \in X /\ SameData(t, s.tree) /\ \E a, c : Good(s, a, c, k - 1)
    BY <2>1
  <2>3. PICK a, c : Good(s, a, c, k - 1)
    BY <2>2
  <2>4. s = [tree |-> s.tree, at |-> s.at]
    BY <2>2
  <2>5. /\ next = [tree |-> next.tree, at |-> next.at]
        /\ Settled(s.tree, s.at) => next = s
        /\ SameData(s.tree, next.tree)
        /\ \E above, count :
            /\ InsertInv(next.tree, N, above, count, next.at)
            /\ Settled(next.tree, next.at) \/ a[s.at] \subseteq above[next.at] \ {next.at}
    <3>. DEFINE s2 == [tree |-> s.tree, at |-> s.at]
    <3>1. LET n2 == InsertTurn(s2)
          IN /\ n2 = [tree |-> n2.tree, at |-> n2.at]
             /\ Settled(s.tree, s.at) => n2 = s2
             /\ SameData(s.tree, n2.tree)
             /\ \E above, count :
                 /\ InsertInv(n2.tree, N, above, count, n2.at)
                 /\ Settled(n2.tree, n2.at) \/ a[s.at] \subseteq above[n2.at] \ {n2.at}
      BY <2>3, InsertTurns
    <3>. HIDE DEF s2, X, Good
    <3>2. s2 = s
      BY <2>4 DEF s2
    <3>. QED  BY <3>1, <3>2
  <2>. HIDE DEF next
  <2>6. PICK above, count :
            /\ InsertInv(next.tree, N, above, count, next.at)
            /\ Settled(next.tree, next.at) \/ a[s.at] \subseteq above[next.at] \ {next.at}
    BY <2>5
  <2>7. next \in X
    <3>1. next.tree \in Trees /\ next.at \in Spot
      BY <1>2, <2>6
    <3>. HIDE DEF T
    <3>2. [tree |-> next.tree, at |-> next.at] \in X
      BY <3>1
    <3>. QED  BY <2>5, <3>2
  <2>8. SameData(t, next.tree)
    BY <2>2, <2>5 DEF SameData, Same
  <2>9. \E b, d : Good(next, b, d, k)
    <3>1. CASE Settled(s.tree, s.at)
      BY <2>3, <2>5, <3>1
    <3>2. CASE Settled(next.tree, next.at)
      <4>1. Good(next, above, count, k)
        BY <2>6, <3>2
      <4>. QED  BY <4>1
    <3>3. CASE ~Settled(s.tree, s.at) /\ ~Settled(next.tree, next.at)
      <4>1. Cardinality(a[s.at]) >= k
        BY <2>3, <3>3
      <4>2. /\ a[s.at] \subseteq above[next.at] /\ a[s.at] # above[next.at]
            /\ above[next.at] \subseteq N /\ Shape(next.tree, N, above)
        BY <1>2, <2>6, <3>3
      <4>3. /\ Cardinality(a[s.at]) < Cardinality(above[next.at])
            /\ Cardinality(a[s.at]) \in Nat /\ Cardinality(above[next.at]) \in Nat
        BY <4>2, Sizes
      <4>4. Cardinality(above[next.at]) >= k + 1
        BY <4>1, <4>3
      <4>5. Good(next, above, count, k)
        BY <2>6, <4>4
      <4>. HIDE DEF Good
      <4>. QED  BY <4>5
    <3>. QED  BY <3>1, <3>2, <3>3
  <2>. HIDE DEF X, Good
  <2>. QED  BY <2>1, <2>2, <2>7, <2>8, <2>9 DEF next
<1>5. \A k \in 0 .. Memory : T[k] \subseteq X
  OBVIOUS
<1>. HIDE DEF X, Good, T, start
<1>6. \A k \in 1 .. Memory : \A s \in T[k - 1] : step[s] \in T[k] /\ step[s] = InsertTurn(s)
  BY <1>4
<1>. HIDE DEF step
<1>7. PICK f \in [0 .. Memory -> X] :
         f[0] = start /\ \A k \in 1 .. Memory : f[k - 1] \in T[k - 1] /\ f[k] = step[f[k - 1]]
  <2>1. \A k \in 1 .. Memory : \A s \in T[k - 1] : step[s] \in T[k]
    BY <1>6
  <2>2. Looped(Memory, X, T, start, step)
    BY <1>1, <1>3, <1>5, <2>1, LoopExists
  <2>. QED  BY <2>2 DEF Looped
<1>8. f = [k \in 0 .. Memory |-> IF k = 0 THEN start ELSE InsertTurn(f[k - 1])]
  <2>1. \A k \in 0 .. Memory : f[k] = IF k = 0 THEN start ELSE InsertTurn(f[k - 1])
    BY <1>1, <1>6, <1>7
  <2>. QED  BY <1>7, <2>1
<1>9. after = [k \in 0 .. Memory |-> IF k = 0 THEN start ELSE InsertTurn(after[k - 1])]
  BY <1>8
<1>10. Repeated(InsertTurn, start) = after[Memory]
  BY DEF Repeated
<1>. HIDE DEF after
<1>11. after[Memory] \in T[Memory]
  <2>1. after[0] = start /\ \A k \in 1 .. Memory : after[k] = InsertTurn(after[k - 1])
    BY <1>1, <1>9
  <2>2. \A k \in 1 .. Memory : after[k - 1] \in T[k - 1] => after[k] \in T[k]
    BY <1>4, <2>1
  <2>. QED  BY <1>1, <1>3, <2>1, <2>2, LoopStays
<1>. DEFINE last == after[Memory]
<1>12. PICK a, c : SameData(t, last.tree) /\ Good(last, a, c, Memory)
  BY <1>1, <1>11 DEF T
<1>13. Settled(last.tree, last.at)
  <2>1. a[last.at] \subseteq N /\ Shape(last.tree, N, a)
    BY <1>2, <1>12 DEF Good
  <2>2. Cardinality(a[last.at]) <= Memory /\ Cardinality(a[last.at]) \in Nat
    BY <1>1, <2>1, Sizes
  <2>. QED  BY <1>1, <1>12, <2>2 DEF Good
<1>14. LET w == Coloured(last.tree, {last.tree.root}, {})
       IN  SameData(last.tree, w) /\ \E count : RedBlack(w, N, a, count)
  BY <1>12, <1>13, RootPainted DEF Good
<1>15. InsertFixup(t, x) = Coloured(last.tree, {last.tree.root}, {})
  BY <1>10 DEF InsertFixup, start
<1>. QED  BY <1>12, <1>14, <1>15 DEF SameData, Same

-----------------------------------------------------------------------------
(* __rb_remove_fixup: one black node is missing on the ways through x.     *)

(* A rotation after a painting, in terms of the tree before both.          *)
Lifted(t, t1, w, N, under, a, b, side) ==
    LET far == Other(side)
        below == {t.node[a][side], t.node[b][side], t.node[b][far]}
    IN  /\ Shape(w, N, Turned(t, under, a, b, side)) /\ SameData(t, w)
        /\ w.root = (IF t.root = a THEN b ELSE t.root) /\ t.root # b
        /\ \A z \in Spot : w.node[z].red = t1.node[z].red
        /\ w.node[a][side] = t.node[a][side] /\ w.node[a][far] = t.node[b][side]
        /\ w.node[b][side] = a /\ w.node[b][far] = t.node[b][far]
        /\ \A z \in N \ {a, b}, s \in Side :
              /\ t.node[z][s] # b
              /\ w.node[z][s] = IF t.node[z][s] = a THEN b ELSE t.node[z][s]
        /\ b \in N /\ a # b /\ below \subseteq (N \union {Sentinel}) \ {a, b}
        /\ w.node[Sentinel].parent = t.node[Sentinel].parent
        /\ Rotated(t1, w, N, a, b, side)

LEMMA Lifts ==
    ASSUME NEW t, NEW N, NEW under, Shape(t, N, under), NEW t1, Repainted(t, t1),
           NEW a \in N, NEW side \in Side, t.node[a][Other(side)] # Sentinel
    PROVE  Lifted(t, t1, Rotate(t1, a, side), N, under, a, t.node[a][Other(side)], side)
<1>. DEFINE far == Other(side)
            b == t.node[a][far]
            c == t.node[a][side]
            inner == t.node[b][side]
            outer == t.node[b][far]
            w == Rotate(t1, a, side)
<1>1. far \in Side /\ far # side /\ Other(side) = far /\ Other(far) = side
      /\ \A s \in Side : s = side \/ s = far
  BY Sides DEF Side, Other
<1>2. /\ b \in N /\ a # b /\ a # Sentinel /\ b # Sentinel
      /\ c \in N \union {Sentinel} /\ c # a /\ c # b
      /\ inner \in N \union {Sentinel} /\ outer \in N \union {Sentinel}
      /\ inner # b /\ outer # b /\ inner # a /\ outer # a
  <2>1. /\ b \in N /\ a # b /\ a # Sentinel /\ b # Sentinel
        /\ c \in N \union {Sentinel} /\ c # a /\ c # b /\ a \notin under[b]
    BY <1>1, Children
  <2>2. /\ inner \in N \union {Sentinel} /\ outer \in N \union {Sentinel}
        /\ inner # b /\ outer # b
        /\ under[inner] \subseteq under[b] /\ under[outer] \subseteq under[b]
    BY <1>1, <2>1, Children
  <2>3. a \in under[a]
    BY Children
  <2>. QED  BY <2>1, <2>2, <2>3
<1>3. Shape(t1, N, under) /\ \A z \in N, s \in Side : t1.node[z][s] = t.node[z][s]
  BY RepaintedShape
<1>4. b = t1.node[a][far] /\ c = t1.node[a][side] /\ inner = t1.node[b][side]
      /\ outer = t1.node[b][far]
  BY <1>1, <1>2, <1>3
<1>5. \A z \in Spot : t1.node[z].parent = t.node[z].parent
  BY DEF Repainted, Same
<1>6. N \subseteq Spot /\ Sentinel \in Spot /\ Null \notin Spot /\ Sentinel \notin N /\ Null \notin N
      /\ t.root \in N \union {Sentinel}
      /\ (t.root # Sentinel => t.node[t.root].parent = Null)
  BY DEF Shape, Links, Spot, Place, Null, Sentinel
<1>7. t.node[a].parent = Null <=> t.root = a
  <2>1. a # t.root => t.node[a].parent \in N
    BY DEF Shape, Links
  <2>. QED  BY <1>2, <1>6, <2>1
<1>8. /\ \A z \in N, s \in Side : t.node[z][s] = b => z = a
      /\ \A z \in N, s \in Side : t.node[z][s] = a => z # a /\ z # b
  <2>1. \A z \in N, s \in Side : t.node[z][s] = b => z = a
    BY <1>1, <1>2 DEF Shape, Links
  <2>2. \A z \in N, s \in Side : t.node[z][s] = a => z # a
    BY Children
  <2>3. \A s \in Side : t.node[b][s] # a
    BY <1>1, <1>2
  <2>. QED  BY <2>1, <2>2, <2>3
<1>. HIDE DEF far, b, c, inner, outer
<1>9. Rotated(t1, w, N, a, b, side)
  <2>1. t1.node[a][Other(side)] # Sentinel
    BY <1>1, <1>2, <1>4
  <2>2. Rotated(t1, w, N, a, t1.node[a][Other(side)], side)
    BY <1>3, <2>1, RotateEffect
  <2>. QED  BY <1>1, <1>4, <2>2
<1>. HIDE DEF w
<1>10. Shape(w, N, Turned(t, under, a, b, side))
  <2>1. Shape(w, N, Turned(t1, under, a, b, side))
    BY <1>1, <1>2, <1>3, <1>4, <1>9, RotateShape
  <2>2. Turned(t1, under, a, b, side) = Turned(t, under, a, b, side)
    BY <1>2, <1>3 DEF Turned
  <2>. QED  BY <2>1, <2>2
<1>11. SameData(t, w)
  BY <1>9 DEF SameData, Same, Rotated, Repainted
<1>12. w.root = IF t.root = a THEN b ELSE t.root
  BY <1>5, <1>6, <1>7, <1>9 DEF Rotated, Repainted
<1>13. \A z \in Spot : w.node[z].red = t1.node[z].red
  BY <1>9 DEF Rotated, Same
<1>14. \A z \in N, s \in Side : w.node[z][s] =
         IF z = a /\ s = far THEN inner
         ELSE IF z = b /\ s = side THEN a
         ELSE IF t.node[z][s] = a THEN b
         ELSE t.node[z][s]
  BY <1>1, <1>3, <1>4, <1>9 DEF Rotated
<1>15. /\ w.node[a][side] = c /\ w.node[a][far] = inner
       /\ w.node[b][side] = a /\ w.node[b][far] = outer
  BY <1>1, <1>2, <1>14 DEF c, outer
<1>16. \A z \in N \ {a, b}, s \in Side :
          /\ t.node[z][s] # b
          /\ w.node[z][s] = IF t.node[z][s] = a THEN b ELSE t.node[z][s]
  BY <1>8, <1>14
<1>17. w.node[Sentinel].parent = t.node[Sentinel].parent
  BY <1>2, <1>5, <1>6, <1>9 DEF Rotated
<1>18. t.root # b
  <2>1. t.node[b].parent = a
    BY <1>1, <1>2 DEF Shape, Links, b
  <2>. QED  BY <1>2, <1>6, <2>1
<1>19. {c, inner, outer} \subseteq (N \union {Sentinel}) \ {a, b}
  BY <1>2
<1>20. Lifted(t, t1, w, N, under, a, b, side)
  BY <1>1, <1>2, <1>9, <1>10, <1>11, <1>12, <1>13, <1>15, <1>16, <1>17, <1>18, <1>19
     DEF Lifted, far, c, inner, outer
<1>. QED  BY <1>20 DEF w, b, far

(* Who gets the colour of the node that goes down takes its place.         *)
Recoloured(t, t1, a, b, side) ==
    /\ \A z \in Spot \ {a, b} : t1.node[z].red => t.node[z].red
    /\ t1.node[b].red => t.node[a].red
    /\ t1.node[a].red => ~t1.node[b].red /\ ~t1.node[t.node[a][side]].red
                         /\ ~t1.node[t.node[b][side]].red
    /\ t1.node[b].red => ~t1.node[t.node[b][Other(side)]].red

LEMMA LiftedColours ==
    ASSUME NEW t, NEW N, NEW under, Shape(t, N, under), NEW t1, NEW w, NEW a \in N,
           NEW side \in Side, NEW b, Lifted(t, t1, w, N, under, a, b, side),
           Reds(t, N, {}, {}), ~t.node[t.root].red, Recoloured(t, t1, a, b, side)
    PROVE  Reds(w, N, {}, {}) /\ ~w.node[w.root].red
<1>. DEFINE far == Other(side)
<1>0. /\ \A z \in Spot \ {a, b} : t1.node[z].red => t.node[z].red
      /\ t1.node[b].red => t.node[a].red
      /\ t1.node[a].red => ~t1.node[b].red /\ ~t1.node[t.node[a][side]].red
                           /\ ~t1.node[t.node[b][side]].red
      /\ t1.node[b].red => ~t1.node[t.node[b][far]].red
  BY DEF Recoloured
<1>1. far \in Side /\ far # side /\ \A s \in Side : s = side \/ s = far
  BY Sides DEF Side, Other
<1>2. /\ w.root = (IF t.root = a THEN b ELSE t.root) /\ t.root # b
      /\ \A z \in Spot : w.node[z].red = t1.node[z].red
      /\ w.node[a][side] = t.node[a][side] /\ w.node[a][far] = t.node[b][side]
      /\ w.node[b][side] = a /\ w.node[b][far] = t.node[b][far]
      /\ \A z \in N \ {a, b}, s \in Side :
            /\ t.node[z][s] # b
            /\ w.node[z][s] = IF t.node[z][s] = a THEN b ELSE t.node[z][s]
      /\ b \in N /\ a # b
      /\ t.node[a][side] \in (N \union {Sentinel}) \ {a, b}
      /\ t.node[b][side] \in (N \union {Sentinel}) \ {a, b}
      /\ t.node[b][far] \in (N \union {Sentinel}) \ {a, b}
  BY DEF Lifted
<1>3. /\ N \subseteq Spot /\ Sentinel \in Spot /\ Sentinel \notin N /\ t.root \in N \union {Sentinel}
      /\ \A z \in N, s \in Side : t.node[z][s] \in Spot
  <2>1. N \subseteq Spot /\ Sentinel \in Spot /\ Sentinel \notin N /\ t.root \in N \union {Sentinel}
    BY DEF Shape, Links, Spot, Place, Sentinel
  <2>. QED  BY <2>1 DEF Shape, Links, Spot
<1>. HIDE DEF far
<1>4. Reds(w, N, {}, {})
  <2>. SUFFICES ASSUME NEW y \in N, NEW s \in Side, w.node[y].red, w.node[w.node[y][s]].red
                PROVE  FALSE
    BY DEF Reds
  <2>1. CASE y = a
    <3>1. t1.node[a].red
      BY <1>0, <1>2, <1>3, <2>1
    <3>2. t1.node[w.node[y][s]].red
      BY <1>1, <1>2, <1>3, <2>1
    <3>. QED  BY <1>0, <1>1, <1>2, <2>1, <3>1, <3>2
  <2>2. CASE y = b
    <3>1. t1.node[b].red
      BY <1>0, <1>2, <1>3, <2>2
    <3>2. t1.node[w.node[y][s]].red
      BY <1>1, <1>2, <1>3, <2>2
    <3>. QED  BY <1>0, <1>1, <1>2, <2>2, <3>1, <3>2 DEF far
  <2>3. CASE y \notin {a, b}
    <3>1. t.node[y].red
      BY <1>0, <1>2, <1>3, <2>3
    <3>2. CASE t.node[y][s] = a
      <4>1. t.node[a].red
        BY <1>0, <1>2, <1>3, <2>3, <3>2
      <4>. QED  BY <3>1, <3>2, <4>1 DEF Reds
    <3>3. CASE t.node[y][s] # a
      <4>1. t.node[t.node[y][s]].red
        BY <1>0, <1>2, <1>3, <2>3, <3>3
      <4>. QED  BY <3>1, <4>1 DEF Reds
    <3>. QED  BY <3>2, <3>3
  <2>. QED  BY <2>1, <2>2, <2>3
<1>5. ~w.node[w.root].red
  <2>1. CASE t.root = a
    BY <1>0, <1>2, <1>3, <2>1
  <2>2. CASE t.root # a /\ t.root # b
    BY <1>0, <1>2, <1>3, <2>2, SMTT(60)
  <2>. QED  BY <1>2, <2>1, <2>2
<1>. QED  BY <1>4, <1>5

(* A black x, below p on the side, that is not the root. *)
Lack(t, N, under, black, x, p, side) ==
    /\ Shape(t, N, under) /\ Balanced(t, N, black, x)
    /\ Reds(t, N, {}, {}) /\ ~t.node[t.root].red
    /\ x \in N \union {Sentinel} /\ ~t.node[x].red /\ t.node[x].parent = p
    /\ p \in N /\ side \in Side /\ t.node[p][side] = x /\ t.node[p][Other(side)] # x

(* The sibling is a node, and has children where they are needed.          *)
LEMMA Sibling ==
    ASSUME NEW t, NEW N, NEW under, NEW black, NEW x, NEW p, NEW side,
           Lack(t, N, under, black, x, p, side)
    PROVE  LET far == Other(side)
               w == t.node[p][far]
           IN  /\ w \in N /\ w # p /\ w # x /\ w # Sentinel /\ x # p
               /\ t.node[w].parent = p /\ p \notin under[w]
               /\ black[w] = black[x] + 1
               /\ black[p] = black[w] + (IF t.node[p].red THEN 0 ELSE 1)
               /\ t.node[w].red => ~t.node[p].red
               /\ \A s \in Side :
                   /\ t.node[w][s] \in (N \union {Sentinel}) \ {w, p, x} \/ t.node[w][s] = Sentinel
                   /\ black[w] = black[t.node[w][s]] + (IF t.node[w].red THEN 0 ELSE 1)
                   /\ t.node[w].red => t.node[w][s] # x /\ t.node[w][s] # Sentinel
                                       /\ ~t.node[t.node[w][s]].red
<1>. DEFINE far == Other(side)
            w == t.node[p][far]
<1>1. /\ Shape(t, N, under) /\ Balanced(t, N, black, x) /\ Reds(t, N, {}, {})
      /\ x \in N \union {Sentinel} /\ ~t.node[x].red /\ t.node[x].parent = p
      /\ p \in N /\ side \in Side /\ t.node[p][side] = x /\ w # x
  BY DEF Lack
<1>2. far \in Side /\ far # side /\ Other(side) = far /\ Other(far) = side
      /\ \A s \in Side : s = side \/ s = far
  BY <1>1, Sides DEF Side, Other
<1>3. /\ N \subseteq Spot /\ Sentinel \in Spot /\ Sentinel \notin N /\ x \in Spot
      /\ \A z \in Spot : t.node[z].red \in BOOLEAN
  <2>1. N \subseteq Spot /\ Sentinel \in Spot /\ Sentinel \notin N
    BY <1>1 DEF Shape, Links, Spot, Place, Sentinel
  <2>. QED  BY <1>1, <2>1 DEF Shape, Trees, NodeType
<1>4. w \in N \union {Sentinel} /\ w # p /\ x # p /\ p \in under[p]
  BY <1>1, <1>2, Children
<1>5. black \in [Spot -> Nat \ {0}] /\ black[Sentinel] = 1
      /\ black[x] \in Nat \ {0} /\ black[w] \in Nat \ {0} /\ black[p] \in Nat \ {0}
  BY <1>1, <1>3, <1>4 DEF Balanced
<1>6. \A y \in N, s \in Side :
        black[y] = black[t.node[y][s]] + Missing(t, x, y, s) + (IF t.node[y].red THEN 0 ELSE 1)
  BY <1>1 DEF Balanced
<1>7. Missing(t, x, p, side) = 1 /\ Missing(t, x, p, far) = 0
  BY <1>1 DEF Missing
<1>8. black[p] = black[x] + 1 + (IF t.node[p].red THEN 0 ELSE 1)
      /\ black[p] = black[w] + 0 + (IF t.node[p].red THEN 0 ELSE 1)
  BY <1>1, <1>2, <1>6, <1>7
<1>9. black[w] = black[x] + 1 /\ black[p] = black[w] + (IF t.node[p].red THEN 0 ELSE 1)
  BY <1>5, <1>8
<1>10. w # Sentinel
  BY <1>5, <1>9
<1>11. w \in N /\ t.node[w].parent = p /\ p \notin under[w]
  <2>1. w \in N
    BY <1>4, <1>10
  <2>2. t.node[w].parent = p
    BY <1>1, <1>2, <1>10 DEF Shape, Links
  <2>. QED  BY <1>1, <1>2, <2>1, <2>2, Children
<1>. HIDE DEF w, far
<1>12. t.node[w].red => ~t.node[p].red
  BY <1>1, <1>2, <1>11 DEF Reds, w
<1>13. ASSUME NEW s \in Side
       PROVE  /\ t.node[w][s] \in (N \union {Sentinel}) \ {w, p, x} \/ t.node[w][s] = Sentinel
              /\ black[w] = black[t.node[w][s]] + (IF t.node[w].red THEN 0 ELSE 1)
              /\ t.node[w].red => t.node[w][s] # x /\ t.node[w][s] # Sentinel
                                  /\ ~t.node[t.node[w][s]].red
  <2>. DEFINE c == t.node[w][s]
  <2>1. /\ c \in N \union {Sentinel} /\ c # w /\ under[c] \subseteq under[w]
        /\ c \in N => c \in under[c]
    BY <1>1, <1>11, Children
  <2>2. c # p
    BY <1>1, <1>3, <1>11, <2>1
  <2>3. c # Sentinel => t.node[c].parent = w
    BY <1>1, <1>11 DEF Shape, Links
  <2>4. c # Sentinel => c # x
    BY <1>1, <1>4, <2>3
  <2>5. Missing(t, x, w, s) = 0
    BY <1>1, <1>4 DEF Missing
  <2>6. black[w] = black[c] + 0 + (IF t.node[w].red THEN 0 ELSE 1)
    BY <1>6, <1>11, <2>5
  <2>7. black[c] \in Nat
    BY <1>3, <1>5, <2>1
  <2>8. black[w] = black[c] + (IF t.node[w].red THEN 0 ELSE 1)
    BY <2>6, <2>7
  <2>9. ASSUME t.node[w].red PROVE c # x /\ c # Sentinel /\ ~t.node[c].red
    <3>1. black[c] = black[x] + 1
      BY <1>5, <1>9, <2>7, <2>8, <2>9
    <3>2. c # x /\ c # Sentinel
      BY <1>5, <3>1
    <3>3. ~t.node[c].red
      BY <1>1, <1>11, <2>9 DEF Reds
    <3>. QED  BY <3>2, <3>3
  <2>. QED  BY <2>1, <2>2, <2>4, <2>8, <2>9
<1>14. w # x
  BY <1>1
<1>. QED  BY <1>4, <1>9, <1>10, <1>11, <1>12, <1>13, <1>14 DEF w, far

(* A red sibling goes up.                                                  *)
LEMMA RedSibling ==
    ASSUME NEW t, NEW N, NEW under, NEW black, NEW x, NEW p, NEW side,
           Lack(t, N, under, black, x, p, side)
    PROVE  LET w == SiblingBlack(t, p, side)
           IN  /\ SameData(t, w)
               /\ \E above, count : Lack(w, N, above, count, x, p, side) /\ above[x] = under[x]
               /\ ~w.node[w.node[p][Other(side)]].red
<1>. DEFINE far == Other(side)
            b == t.node[p][far]
            t1 == Coloured(t, {b}, {p})
            w == Rotate(t1, p, side)
            above == Turned(t, under, p, b, side)
            count == [black EXCEPT ![p] = black[b], ![b] = black[p]]
<1>1. /\ Shape(t, N, under) /\ Balanced(t, N, black, x) /\ Reds(t, N, {}, {})
      /\ x \in N \union {Sentinel} /\ ~t.node[x].red /\ t.node[x].parent = p
      /\ p \in N /\ side \in Side /\ t.node[p][side] = x /\ b # x /\ ~t.node[t.root].red
  BY DEF Lack
<1>2. far \in Side /\ far # side /\ Other(side) = far /\ Other(far) = side
      /\ \A s \in Side : s = side \/ s = far
  BY <1>1, Sides DEF Side, Other
<1>3. /\ N \subseteq Spot /\ Sentinel \in Spot /\ Sentinel \notin N /\ x \in Spot /\ t \in Trees
      /\ ~t.node[Sentinel].red
  BY <1>1, SMTT(60) DEF Shape, Links, Spot, Place, Sentinel
<1>4. /\ b \in N /\ b # p /\ b # x /\ b # Sentinel /\ x # p
      /\ t.node[b].red => ~t.node[p].red
      /\ \A s \in Side :
           /\ t.node[b][s] \in (N \union {Sentinel}) \ {b, p, x} \/ t.node[b][s] = Sentinel
           /\ t.node[b].red => t.node[b][s] # x /\ t.node[b][s] # Sentinel
                               /\ ~t.node[t.node[b][s]].red
  BY Sibling
<1>5. CASE ~t.node[b].red
  <2>1. SiblingBlack(t, p, side) = t
    BY <1>5 DEF SiblingBlack
  <2>2. SameData(t, t)
    BY DEF SameData, Same
  <2>. HIDE DEF far, b
  <2>3. ~t.node[t.node[p][Other(side)]].red
    BY <1>5 DEF b, far
  <2>. QED  BY <2>1, <2>2, <2>3
<1>6. CASE t.node[b].red
  <2>1. SiblingBlack(t, p, side) = w
    BY <1>6 DEF SiblingBlack
  <2>. HIDE DEF far, b
  <2>2. /\ Repainted(t, t1)
        /\ \A z \in Spot : t1.node[z].red = (z \in {p} \/ (t.node[z].red /\ z \notin {b}))
    BY <1>1, <1>3, Painting
  <2>. HIDE DEF t1
  <2>3. Lifted(t, t1, w, N, under, p, b, side)
    <3>1. t.node[p][Other(side)] # Sentinel /\ t.node[p][Other(side)] = b
      BY <1>4 DEF b, far
    <3>. QED  BY <1>1, <2>2, <3>1, Lifts
  <2>. HIDE DEF w
  <2>4. /\ Shape(w, N, above) /\ SameData(t, w)
        /\ \A z \in Spot : w.node[z].red = t1.node[z].red
        /\ w.node[p][side] = x /\ w.node[p][far] = t.node[b][side]
        /\ w.node[Sentinel].parent = t.node[Sentinel].parent
        /\ Rotated(t1, w, N, p, b, side)
    <3>. HIDE DEF above
    <3>1. /\ Shape(w, N, above) /\ SameData(t, w) /\ Rotated(t1, w, N, p, b, side)
          /\ w.node[Sentinel].parent = t.node[Sentinel].parent
      BY <2>3 DEF Lifted, above
    <3>2. /\ \A z \in Spot : w.node[z].red = t1.node[z].red
          /\ w.node[p][side] = t.node[p][side] /\ w.node[p][Other(side)] = t.node[b][side]
      BY <2>3 DEF Lifted
    <3>. QED  BY <1>1, <3>1, <3>2 DEF far
  <2>5. Reds(w, N, {}, {}) /\ ~w.node[w.root].red
    <3>1. /\ \A z \in Spot \ {p, b} : t1.node[z].red => t.node[z].red
          /\ ~t1.node[b].red /\ ~t1.node[x].red /\ ~t1.node[t.node[b][side]].red
      <4>1. t.node[b][side] \in Spot /\ t.node[b][side] # p /\ ~t.node[t.node[b][side]].red
        BY <1>1, <1>3, <1>4, <1>6
      <4>. QED  BY <1>1, <1>3, <1>4, <2>2, <4>1
    <3>2. /\ t1.node[b].red => t.node[p].red
          /\ t1.node[p].red => ~t1.node[b].red /\ ~t1.node[t.node[p][side]].red
                               /\ ~t1.node[t.node[b][side]].red
          /\ t1.node[b].red => ~t1.node[t.node[b][Other(side)]].red
      BY <1>1, <3>1
    <3>3. Recoloured(t, t1, p, b, side)
      BY <3>1, <3>2, Zenon DEF Recoloured
    <3>. QED  BY <1>1, <2>3, <3>3, LiftedColours
  <2>6. Balanced(w, N, count, x)
    <3>1. t.node[b][side] # x /\ x \notin {p, b}
      BY <1>1, <1>4, <1>6
    <3>2. t1.node[p].red /\ t1.node[b].red = t.node[p].red
          /\ \A z \in N : z \notin {p, b} => t1.node[z].red = t.node[z].red
      <4>1. \A z \in Spot : t.node[z].red \in BOOLEAN
        BY <1>3 DEF Trees, NodeType
      <4>. QED  BY <1>1, <1>3, <1>4, <1>6, <2>2, <4>1
    <3>3. b = t.node[p][Other(side)]
      BY DEF b, far
    <3>. QED  BY <1>1, <1>3, <1>4, <1>6, <2>2, <2>4, <3>1, <3>2, <3>3, SwapBalance
  <2>7. w.node[x].parent = p /\ ~w.node[x].red /\ w.node[p][far] # x
    <3>1. x # Sentinel => w.node[x].parent = p
      BY <1>1, <2>4 DEF Shape, Links
    <3>2. ~w.node[x].red
      BY <1>1, <1>3, <1>4, <2>2, <2>4
    <3>. QED  BY <1>1, <1>4, <1>6, <2>4, <3>1, <3>2
  <2>8. Lack(w, N, above, count, x, p, side)
    BY <1>1, <2>4, <2>5, <2>6, <2>7 DEF Lack, far
  <2>9. above[x] = under[x]
    BY <1>1, <1>3, <1>4 DEF Shape, Unders, Turned
  <2>10. ~w.node[w.node[p][Other(side)]].red
    <3>1. /\ t.node[b][side] \in Spot /\ t.node[b][side] # p /\ ~t.node[t.node[b][side]].red
      BY <1>1, <1>3, <1>4, <1>6
    <3>. QED  BY <2>2, <2>4, <3>1 DEF far
  <2>. QED  BY <2>1, <2>4, <2>8, <2>9, <2>10
<1>. QED  BY <1>5, <1>6

(* A red nephew on the near side goes up, and the sibling below it is red. *)
LEMMA RedNephew ==
    ASSUME NEW t, NEW N, NEW under, NEW black, NEW x, NEW p, NEW side,
           Lack(t, N, under, black, x, p, side)
    PROVE  LET far == Other(side)
               d == t.node[p][far]
               w == NephewFar(t, p, side)
               e == w.node[p][far]
           IN  ~t.node[d].red /\ (t.node[t.node[d].left].red \/ t.node[t.node[d].right].red) =>
               /\ SameData(t, w)
               /\ \E above, count : Lack(w, N, above, count, x, p, side)
               /\ ~w.node[e].red /\ w.node[w.node[e][far]].red
<1>. DEFINE far == Other(side)
            a == t.node[p][far]
            b == t.node[a][side]
            f == t.node[a][far]
            t1 == Coloured(t, {b}, {a})
            w == Rotate(t1, a, far)
            above == Turned(t, under, a, b, far)
            count == [black EXCEPT ![a] = black[b], ![b] = black[a]]
            res == NephewFar(t, p, side)
<1>0. SUFFICES ASSUME ~t.node[a].red, t.node[t.node[a].left].red \/ t.node[t.node[a].right].red
               PROVE  /\ SameData(t, res)
                      /\ \E u, c : Lack(res, N, u, c, x, p, side)
                      /\ ~res.node[res.node[p][far]].red
                      /\ res.node[res.node[res.node[p][far]][far]].red
  OBVIOUS
<1>1. /\ Shape(t, N, under) /\ Balanced(t, N, black, x) /\ Reds(t, N, {}, {})
      /\ x \in N \union {Sentinel} /\ ~t.node[x].red /\ t.node[x].parent = p
      /\ p \in N /\ side \in Side /\ t.node[p][side] = x /\ a # x /\ ~t.node[t.root].red
  BY DEF Lack
<1>2. far \in Side /\ far # side /\ Other(side) = far /\ Other(far) = side
      /\ \A s \in Side : s = side \/ s = far
  BY <1>1, Sides DEF Side, Other
<1>3. /\ N \subseteq Spot /\ Sentinel \in Spot /\ Sentinel \notin N /\ x \in Spot /\ t \in Trees
      /\ ~t.node[Sentinel].red
  BY <1>1, SMTT(60) DEF Shape, Links, Spot, Place, Sentinel
<1>4. /\ a \in N /\ a # p /\ a # x /\ a # Sentinel /\ x # p /\ p \notin under[a] /\ t.node[a].parent = p
      /\ \A s \in Side :
           t.node[a][s] \in (N \union {Sentinel}) \ {a, p, x} \/ t.node[a][s] = Sentinel
  BY SMTT(60), Sibling
<1>5. t.node[b].red \/ t.node[f].red
  BY <1>0, <1>1 DEF Side, Other
<1>6. CASE t.node[f].red
  <2>1. NephewFar(t, p, side) = t
    BY <1>6 DEF NephewFar
  <2>2. SameData(t, t)
    BY DEF SameData, Same
  <2>. HIDE DEF res
  <2>3. res = t
    BY <2>1 DEF res
  <2>4. ~res.node[res.node[p][far]].red /\ res.node[res.node[res.node[p][far]][far]].red
    BY <1>0, <1>6, <2>3
  <2>. QED  BY <2>2, <2>3, <2>4
<1>7. CASE ~t.node[f].red
  <2>1. res = w
    BY <1>7, SMTT(60) DEF NephewFar
  <2>. HIDE DEF res
  <2>2. t.node[b].red /\ b \in (N \union {Sentinel}) \ {a, p, x} /\ b # Sentinel /\ b \in N
    BY <1>1, <1>3, <1>4, <1>5, <1>7
  <2>. HIDE DEF b
  <2>3. /\ Repainted(t, t1)
        /\ \A z \in Spot : t1.node[z].red = (z \in {a} \/ (t.node[z].red /\ z \notin {b}))
    <3>1. Sentinel \notin {a}
      BY <1>4
    <3>. DEFINE B == {b}
                R == {a}
    <3>. HIDE DEF a, B, R
    <3>2. /\ Repainted(t, Coloured(t, B, R))
          /\ \A z \in Spot : Coloured(t, B, R).node[z].red = (z \in R \/ (t.node[z].red /\ z \notin B))
      BY <1>3, <3>1, Painting DEF R
    <3>. QED  BY <3>2 DEF B, R
  <2>. HIDE DEF t1
  <2>4. Lifted(t, t1, w, N, under, a, b, far)
    <3>1. t.node[a][Other(far)] # Sentinel /\ t.node[a][Other(far)] = b
      BY <1>2, <2>2 DEF b
    <3>. HIDE DEF a, far
    <3>. QED  BY <1>1, <1>2, <1>4, <2>3, <3>1, Lifts
  <2>. HIDE DEF w
  <2>5. /\ Shape(w, N, above) /\ SameData(t, w)
        /\ \A z \in Spot : w.node[z].red = t1.node[z].red
        /\ w.node[b][far] = a /\ w.node[p][far] = b /\ w.node[p][side] = x
        /\ w.node[Sentinel].parent = t.node[Sentinel].parent
        /\ Rotated(t1, w, N, a, b, far)
    <3>. HIDE DEF above
    <3>1. /\ Shape(w, N, above) /\ SameData(t, w) /\ Rotated(t1, w, N, a, b, far)
          /\ w.node[Sentinel].parent = t.node[Sentinel].parent
      BY <2>4 DEF Lifted, above
    <3>2. /\ \A z \in Spot : w.node[z].red = t1.node[z].red
          /\ w.node[b][far] = a
          /\ \A z \in N \ {a, b}, s \in Side :
                w.node[z][s] = IF t.node[z][s] = a THEN b ELSE t.node[z][s]
      BY <2>4 DEF Lifted
    <3>3. w.node[p][far] = b /\ w.node[p][side] = x
      <4>1. p \in N \ {a, b}
        BY <1>1, <1>4, <2>2
      <4>2. t.node[p][far] = a
        OBVIOUS
      <4>. HIDE DEF a, far
      <4>. QED  BY <1>1, <1>2, <1>4, <3>2, <4>1, <4>2
    <3>. QED  BY <3>1, <3>2, <3>3
  <2>6. Reds(w, N, {}, {}) /\ ~w.node[w.root].red
    <3>. DEFINE i == t.node[b][far]
    <3>0. i \in N \union {Sentinel} /\ i # a /\ i # b
      BY <2>4, <1>2 DEF Lifted
    <3>1. ~t.node[i].red
      BY <1>1, <1>2, <2>2 DEF Reds
    <3>2. i \in Spot /\ f \in Spot /\ f # a /\ f # b
      <4>1. f # Sentinel => f # b
        BY <1>1, <1>2, <1>4, Children DEF b
      <4>. QED  BY <1>2, <1>3, <1>4, <2>2, <3>0, <4>1
    <3>. HIDE DEF f, i, a
    <3>3. ~t1.node[b].red /\ ~t1.node[f].red /\ ~t1.node[i].red
      BY <1>3, <1>4, <1>7, <2>2, <2>3, <3>0, <3>1, <3>2
    <3>4. /\ \A z \in Spot \ {a, b} : t1.node[z].red => t.node[z].red
          /\ t1.node[b].red => t.node[a].red
          /\ t1.node[a].red => ~t1.node[b].red /\ ~t1.node[t.node[a][far]].red
                               /\ ~t1.node[t.node[b][far]].red
          /\ t1.node[b].red => ~t1.node[t.node[b][Other(far)]].red
      BY <2>3, <3>3 DEF f, i
    <3>5. Shape(t, N, under) /\ a \in N /\ far \in Side /\ Reds(t, N, {}, {}) /\ ~t.node[t.root].red
      BY <1>1, <1>2, <1>4
    <3>. HIDE DEF far
    <3>6. Recoloured(t, t1, a, b, far)
      BY <3>4 DEF Recoloured
    <3>. QED  BY <2>4, <3>5, <3>6, LiftedColours
  <2>7. Balanced(w, N, count, x)
    <3>1. x \notin {a, b} /\ p \notin {a, b}
      BY <1>1, <1>4, <2>2
    <3>2. t1.node[a].red /\ t1.node[b].red = t.node[a].red
          /\ \A z \in N : z \notin {a, b} => t1.node[z].red = t.node[z].red
      <4>1. \A z \in Spot : t.node[z].red \in BOOLEAN
        BY <1>3 DEF Trees, NodeType
      <4>. HIDE DEF a
      <4>. QED  BY <1>0, <1>3, <1>4, <2>2, <2>3, <4>1
    <3>3. b = t.node[a][Other(far)]
      BY <1>2 DEF b
    <3>. HIDE DEF a, far
    <3>. QED  BY <1>1, <1>2, <1>3, <1>4, <2>2, <2>3, <2>5, <3>1, <3>2, <3>3, SwapBalance, SMTT(60)
  <2>8. w.node[x].parent = p /\ ~w.node[x].red /\ w.node[p][far] # x
    <3>1. x # Sentinel => w.node[x].parent = p
      BY <1>1, <2>5 DEF Shape, Links
    <3>2. ~w.node[x].red
      BY <1>1, <1>3, <1>4, <2>3, <2>5
    <3>. QED  BY <1>1, <2>2, <2>5, <3>1, <3>2
  <2>. HIDE DEF a
  <2>9. Lack(w, N, above, count, x, p, side)
    BY <1>1, <2>5, <2>6, <2>7, <2>8 DEF Lack, far
  <2>10. ~w.node[w.node[p][far]].red /\ w.node[w.node[w.node[p][far]][far]].red
    BY <1>3, <1>4, <2>2, <2>3, <2>5, ZenonT(60)
  <2>. QED  BY <2>1, <2>5, <2>9, <2>10
<1>. QED  BY <1>6, <1>7

(* A black sibling with a red far child takes the place of p: none is      *)
(* missing any more.                                                       *)
LEMMA SiblingLast ==
    ASSUME NEW t, NEW N, NEW under, NEW black, NEW x, NEW p, NEW side,
           Lack(t, N, under, black, x, p, side)
    PROVE  LET d == t.node[p][Other(side)]
               w == SiblingUp(t, p, side)
           IN  ~t.node[d].red /\ t.node[t.node[d][Other(side)]].red =>
               SameData(t, w) /\ \E above, count : RedBlack(w, N, above, count)
<1>. DEFINE far == Other(side)
            b == t.node[p][far]
            i == t.node[b][side]
            f == t.node[b][far]
            taken == [t EXCEPT !.node[b].red = t.node[p].red]
            t1 == Coloured(taken, {p, f}, {})
            w == Rotate(t1, p, side)
            above == Turned(t, under, p, b, side)
            count == [black EXCEPT ![b] = black[p], ![p] = black[x] + 1, ![f] = @ + 1]
<1>0. SUFFICES ASSUME ~t.node[b].red, t.node[f].red
               PROVE  SameData(t, w) /\ \E u, c : RedBlack(w, N, u, c)
  BY DEF SiblingUp
<1>1. /\ Shape(t, N, under) /\ Balanced(t, N, black, x) /\ Reds(t, N, {}, {})
      /\ x \in N \union {Sentinel} /\ ~t.node[x].red /\ t.node[x].parent = p
      /\ p \in N /\ side \in Side /\ t.node[p][side] = x /\ b # x /\ ~t.node[t.root].red
  BY DEF Lack
<1>2. far \in Side /\ far # side /\ Other(side) = far /\ Other(far) = side
      /\ \A s \in Side : s = side \/ s = far
  BY <1>1, Sides DEF Side, Other
<1>3. /\ N \subseteq Spot /\ Sentinel \in Spot /\ Sentinel \notin N /\ x \in Spot /\ t \in Trees
      /\ ~t.node[Sentinel].red /\ Null \notin Spot
  BY <1>1 DEF Shape, Links, Spot, Place, Sentinel, Null
<1>4. /\ b \in N /\ b # p /\ b # x /\ b # Sentinel /\ x # p /\ p \notin under[b] /\ t.node[b].parent = p
      /\ black[b] = black[x] + 1
      /\ black[p] = black[b] + (IF t.node[p].red THEN 0 ELSE 1)
      /\ \A s \in Side :
           /\ t.node[b][s] \in (N \union {Sentinel}) \ {b, p, x} \/ t.node[b][s] = Sentinel
           /\ black[b] = black[t.node[b][s]] + (IF t.node[b].red THEN 0 ELSE 1)
  BY Sibling
<1>5. /\ f \in N /\ f # b /\ f # p /\ f # x /\ f # Sentinel /\ f # i
      /\ i \in N \union {Sentinel} /\ i # b /\ i # p
      /\ \A z \in N, s \in Side : t.node[z][s] = f => z = b /\ s = far
  <2>1. f # Sentinel
    BY <1>0, <1>3
  <2>2. f \in N /\ f # b /\ f # p /\ f # x
    BY <1>2, <1>4, <2>1
  <2>3. i \in N \union {Sentinel} /\ i # b /\ i # p /\ f # i
    BY <1>1, <1>2, <1>3, <1>4, <2>1, Children
  <2>4. t.node[f].parent = b
    BY <1>1, <1>2, <1>4, <2>1 DEF Shape, Links
  <2>5. \A z \in N, s \in Side : t.node[z][s] = f => z = b
    BY <1>1, <2>1, <2>4 DEF Shape, Links
  <2>. QED  BY <1>2, <2>1, <2>2, <2>3, <2>5
<1>6. \A z \in Spot : t.node[z].red \in BOOLEAN
  BY <1>3 DEF Trees, NodeType
<1>7. /\ black \in [Spot -> Nat \ {0}] /\ black[Sentinel] = 1
      /\ \A y \in N, s \in Side :
            black[y] = black[t.node[y][s]] + Missing(t, x, y, s) + (IF t.node[y].red THEN 0 ELSE 1)
  BY <1>1 DEF Balanced
<1>8. /\ black[b] = black[i] + 1 /\ black[b] = black[f] + 1
  BY <1>0, <1>1, <1>2, <1>4
<1>9. t.node[b].parent = p /\ t.node[p][side] = x /\ b = t.node[p][Other(side)] /\ f = t.node[b][far]
      /\ i = t.node[b][side] /\ t.node[b][Other(side)] = f
  BY <1>1, <1>4
<1>. HIDE DEF far, b, i, f
<1>10. /\ taken \in Trees /\ taken.root = t.root /\ taken.used = t.used
       /\ Same(t, taken, {"left", "right", "parent", "key", "value"})
       /\ \A z \in Spot : taken.node[z].red = IF z = b THEN t.node[p].red ELSE t.node[z].red
       /\ ~taken.node[Sentinel].red
  <2>1. b \in Spot /\ p \in Spot /\ t.node[p].red \in BOOLEAN /\ Sentinel # b
    BY <1>1, <1>3, <1>4, <1>6
  <2>2. /\ taken \in Trees /\ taken.root = t.root /\ taken.used = t.used
        /\ \A z \in Spot : taken.node[z] = IF z = b THEN [t.node[b] EXCEPT !.red = t.node[p].red]
                                           ELSE t.node[z]
    BY <1>3, <2>1 DEF Trees, NodeType
  <2>3. \A z \in Spot : t.node[z] \in NodeType
    BY <1>3 DEF Trees
  <2>4. /\ Same(t, taken, {"left", "right", "parent", "key", "value"})
        /\ \A z \in Spot : taken.node[z].red = IF z = b THEN t.node[p].red ELSE t.node[z].red
    BY <2>1, <2>2, <2>3 DEF NodeType, Same
  <2>. QED  BY <1>3, <2>1, <2>2, <2>4
<1>. HIDE DEF taken
<1>11. /\ Repainted(t, t1)
       /\ \A z \in Spot : t1.node[z].red = (z \notin {p, f} /\ taken.node[z].red)
  <2>. DEFINE B == {p, f}
              R == {}
  <2>. HIDE DEF B, R
  <2>1. /\ Repainted(taken, Coloured(taken, B, R))
        /\ \A z \in Spot : Coloured(taken, B, R).node[z].red = (z \in R \/ (taken.node[z].red /\ z \notin B))
    BY <1>10, Painting DEF R
  <2>2. /\ Repainted(taken, t1)
        /\ \A z \in Spot : t1.node[z].red = (z \notin {p, f} /\ taken.node[z].red)
    BY <2>1 DEF B, R
  <2>. HIDE DEF t1
  <2>. QED  BY <1>10, <2>2 DEF Repainted, Same
<1>. HIDE DEF t1
<1>12. /\ ~t1.node[p].red /\ ~t1.node[f].red /\ t1.node[b].red = t.node[p].red
       /\ \A z \in Spot : z \notin {p, f, b} => t1.node[z].red = t.node[z].red
       /\ \A z \in Spot : t1.node[z].red \in BOOLEAN
  BY <1>1, <1>3, <1>4, <1>5, <1>6, <1>10, <1>11
<1>13. Lifted(t, t1, w, N, under, p, b, side)
  <2>1. t.node[p][Other(side)] # Sentinel
    BY <1>4, <1>9
  <2>. QED  BY <1>1, <1>9, <1>11, <2>1, Lifts
<1>. HIDE DEF w
<1>14. /\ Shape(w, N, above) /\ SameData(t, w)
       /\ \A z \in Spot : w.node[z].red = t1.node[z].red
       /\ w.node[p][side] = x /\ w.node[p][far] = i
       /\ w.node[b][side] = p /\ w.node[b][far] = f
       /\ \A z \in N \ {p, b}, s \in Side :
              /\ t.node[z][s] # b
              /\ w.node[z][s] = IF t.node[z][s] = p THEN b ELSE t.node[z][s]
  <2>. HIDE DEF above
  <2>1. Shape(w, N, above) /\ SameData(t, w)
    BY <1>13 DEF Lifted, above
  <2>2. /\ \A z \in Spot : w.node[z].red = t1.node[z].red
        /\ w.node[p][side] = t.node[p][side] /\ w.node[p][Other(side)] = t.node[b][side]
        /\ w.node[b][side] = p /\ w.node[b][Other(side)] = t.node[b][Other(side)]
        /\ \A z \in N \ {p, b}, s \in Side :
              /\ t.node[z][s] # b
              /\ w.node[z][s] = IF t.node[z][s] = p THEN b ELSE t.node[z][s]
    BY <1>13 DEF Lifted
  <2>. QED  BY <1>2, <1>9, <2>1, <2>2
<1>15. Reds(w, N, {}, {}) /\ ~w.node[w.root].red
  <2>1. Shape(t, N, under) /\ p \in N /\ side \in Side /\ Reds(t, N, {}, {}) /\ ~t.node[t.root].red
    BY <1>1, Zenon
  <2>2. /\ \A z \in Spot \ {p, b} : t1.node[z].red => t.node[z].red
        /\ t1.node[b].red => t.node[p].red
        /\ t1.node[p].red => ~t1.node[b].red /\ ~t1.node[t.node[p][side]].red
                             /\ ~t1.node[t.node[b][side]].red
        /\ t1.node[b].red => ~t1.node[t.node[b][Other(side)]].red
    BY <1>9, <1>12
  <2>3. Recoloured(t, t1, p, b, side)
    BY <2>2 DEF Recoloured
  <2>. QED  BY <1>13, <2>1, <2>3, LiftedColours
<1>16. /\ count \in [Spot -> Nat \ {0}] /\ count[Sentinel] = 1
       /\ count[b] = black[p] /\ count[p] = black[x] + 1 /\ count[f] = black[f] + 1
       /\ \A z \in Spot : z \notin {b, p, f} => count[z] = black[z]
  <2>1. b \in Spot /\ p \in Spot /\ f \in Spot /\ black[p] \in Nat \ {0} /\ black[x] + 1 \in Nat \ {0}
        /\ black[f] + 1 \in Nat \ {0}
    BY <1>1, <1>3, <1>4, <1>5, <1>7
  <2>. QED  BY <1>3, <1>4, <1>5, <1>7, <2>1
<1>. HIDE DEF count, above
<1>17. ASSUME NEW y \in N, NEW s \in Side
       PROVE  /\ w.node[y][s] \in Spot
              /\ count[y] = count[w.node[y][s]] + (IF w.node[y].red THEN 0 ELSE 1)
  <2>0. /\ black[p] \in Nat /\ black[b] \in Nat /\ black[x] \in Nat /\ black[i] \in Nat /\ black[f] \in Nat
        /\ p \in Spot /\ b \in Spot /\ f \in Spot /\ i \in Spot /\ y \in Spot
        /\ t.node[y][s] \in Spot
    <3>1. t.node[y][s] \in Spot
      BY <1>1, <1>3 DEF Shape, Links
    <3>. QED  BY <1>1, <1>3, <1>4, <1>5, <1>7, <3>1
  <2>1. CASE y = p
    <3>1. ~w.node[y].red /\ count[y] = black[x] + 1
      BY <1>12, <1>14, <1>16, <2>0, <2>1
    <3>2. count[x] = black[x] /\ count[i] = black[i]
      BY <1>3, <1>4, <1>5, <1>16, <2>0
    <3>3. black[i] = black[x]
      BY <1>4, <1>8, <2>0
    <3>. QED  BY <1>2, <1>3, <1>14, <2>0, <2>1, <3>1, <3>2, <3>3
  <2>2. CASE y = b
    <3>1. w.node[y].red = t.node[p].red /\ count[y] = black[p]
      BY <1>12, <1>14, <1>16, <2>0, <2>2
    <3>2. count[p] = black[b] /\ count[f] = black[b]
      BY <1>4, <1>8, <1>16
    <3>3. count[y] = black[b] + (IF w.node[y].red THEN 0 ELSE 1)
      BY <1>4, <3>1
    <3>. QED  BY <1>2, <1>14, <2>0, <2>2, <3>2, <3>3
  <2>3. CASE y \notin {p, b}
    <3>1. /\ t.node[y][s] # b /\ t.node[y][s] # f
          /\ w.node[y][s] = IF t.node[y][s] = p THEN b ELSE t.node[y][s]
      BY <1>5, <1>14, <2>3
    <3>2. Missing(t, x, y, s) = 0
      BY <1>1, <2>3 DEF Missing
    <3>3. black[y] = black[t.node[y][s]] + (IF t.node[y].red THEN 0 ELSE 1)
      <4>1. black[y] = black[t.node[y][s]] + 0 + (IF t.node[y].red THEN 0 ELSE 1)
        BY <1>7, <3>2
      <4>2. black[t.node[y][s]] \in Nat
        BY <1>7, <2>0
      <4>. QED  BY <4>1, <4>2
    <3>4. count[w.node[y][s]] = black[t.node[y][s]]
      BY <1>16, <2>0, <3>1
    <3>5. CASE y = f
      <4>1. count[y] = black[y] + 1 /\ ~w.node[y].red /\ t.node[y].red
        BY <1>0, <1>12, <1>14, <1>16, <2>0, <3>5
      <4>2. black[t.node[y][s]] \in Nat
        BY <1>7, <2>0
      <4>. QED  BY <2>0, <3>1, <3>3, <3>4, <4>1, <4>2
    <3>6. CASE y # f
      <4>1. count[y] = black[y] /\ w.node[y].red = t.node[y].red
        BY <1>12, <1>14, <1>16, <2>0, <2>3, <3>6
      <4>. QED  BY <2>0, <3>1, <3>3, <3>4, <4>1
    <3>. QED  BY <3>5, <3>6
  <2>. QED  BY <2>1, <2>2, <2>3
<1>18. Balanced(w, N, count, Null)
  <2>1. ASSUME NEW y \in N, NEW s \in Side
        PROVE  count[y] = count[w.node[y][s]] + Missing(w, Null, y, s) + (IF w.node[y].red THEN 0 ELSE 1)
    <3>1. Missing(w, Null, y, s) = 0
      BY <1>3, <1>17 DEF Missing
    <3>2. count[w.node[y][s]] \in Nat
      BY <1>16, <1>17
    <3>. QED  BY <1>17, <3>1, <3>2
  <2>. QED  BY <1>16, <2>1 DEF Balanced
<1>19. RedBlack(w, N, above, count)
  BY <1>14, <1>15, <1>18 DEF RedBlack
<1>. QED  BY <1>14, <1>19 DEF above, count

RemoveInv(t, N, under, black, x) ==
    /\ Shape(t, N, under) /\ Balanced(t, N, black, x) /\ Reds(t, N, {x}, {x})
    /\ t.node[t.root].red => t.root = x
    /\ x \in N \union {Sentinel}
    /\ x # t.root =>
        /\ t.node[x].parent \in N
        /\ \E s \in Side : /\ t.node[t.node[x].parent][s] = x
                           /\ t.node[t.node[x].parent][Other(s)] # x

Ended(t, x) == x = t.root \/ t.node[x].red

LEMMA Lacking ==
    ASSUME NEW t, NEW N, NEW under, NEW black, NEW x, RemoveInv(t, N, under, black, x), ~Ended(t, x)
    PROVE  Lack(t, N, under, black, x, t.node[x].parent, SideOf(t, x, t.node[x].parent))
<1>. DEFINE p == t.node[x].parent
            side == SideOf(t, x, p)
<1>1. /\ Shape(t, N, under) /\ Balanced(t, N, black, x) /\ Reds(t, N, {x}, {x})
      /\ ~t.node[t.root].red /\ x \in N \union {Sentinel} /\ ~t.node[x].red /\ p \in N
      /\ \E s \in Side : t.node[p][s] = x /\ t.node[p][Other(s)] # x
  BY DEF RemoveInv, Ended
<1>2. Reds(t, N, {}, {})
  BY <1>1 DEF Reds
<1>. HIDE DEF p
<1>3. side \in Side /\ t.node[p][side] = x /\ t.node[p][Other(side)] # x
  BY <1>1 DEF SideOf, Side, Other
<1>. QED  BY <1>1, <1>2, <1>3 DEF Lack, p

(* Below a black sibling with black children the sibling becomes red, and  *)
(* a black is missing above.                                               *)
LEMMA BlackNephews ==
    ASSUME NEW t, NEW N, NEW under, NEW black, NEW x, NEW p, NEW side,
           Lack(t, N, under, black, x, p, side)
    PROVE  LET d == t.node[p][Other(side)]
               w == Coloured(t, {}, {d})
           IN  ~t.node[d].red /\ ~t.node[t.node[d].left].red /\ ~t.node[t.node[d].right].red =>
               /\ SameData(t, w)
               /\ \E count : RemoveInv(w, N, under, count, p)
               /\ under[x] \subseteq under[p] \ {p} /\ p \in under[p]
<1>. DEFINE far == Other(side)
            d == t.node[p][far]
            w == Coloured(t, {}, {d})
            count == [black EXCEPT ![d] = @ - 1, ![p] = @ - 1]
<1>0. SUFFICES ASSUME ~t.node[d].red, ~t.node[t.node[d].left].red, ~t.node[t.node[d].right].red
               PROVE  /\ SameData(t, w)
                      /\ RemoveInv(w, N, under, count, p)
                      /\ under[x] \subseteq under[p] \ {p} /\ p \in under[p]
  BY Zenon
<1>1. /\ Shape(t, N, under) /\ Balanced(t, N, black, x) /\ Reds(t, N, {}, {})
      /\ x \in N \union {Sentinel} /\ ~t.node[x].red /\ t.node[x].parent = p
      /\ p \in N /\ side \in Side /\ t.node[p][side] = x /\ d # x /\ ~t.node[t.root].red
  BY DEF Lack
<1>2. far \in Side /\ far # side /\ Other(side) = far /\ Other(far) = side
      /\ \A s \in Side : s = side \/ s = far
  BY <1>1, Sides DEF Side, Other
<1>3. /\ N \subseteq Spot /\ Sentinel \in Spot /\ Sentinel \notin N /\ x \in Spot /\ t \in Trees
      /\ ~t.node[Sentinel].red /\ t.root \in N \union {Sentinel}
  BY <1>1, SMTT(60) DEF Shape, Links, Spot, Place, Sentinel
<1>4. /\ d \in N /\ d # p /\ d # x /\ d # Sentinel /\ x # p /\ t.node[d].parent = p
      /\ black[d] = black[x] + 1
      /\ black[p] = black[d] + (IF t.node[p].red THEN 0 ELSE 1)
      /\ \A s \in Side :
           /\ t.node[d][s] \in (N \union {Sentinel}) \ {d, p, x} \/ t.node[d][s] = Sentinel
           /\ black[d] = black[t.node[d][s]] + (IF t.node[d].red THEN 0 ELSE 1)
  BY Sibling
<1>5. \A z \in N, s \in Side : t.node[z][s] = d => z = p /\ s = far
  BY <1>1, <1>2, <1>4 DEF Shape, Links
<1>6. \A s \in Side : ~t.node[t.node[d][s]].red
  BY <1>0 DEF Side
<1>7. t.node[p][side] = x /\ t.node[p][far] = d
  BY <1>1
<1>8. under[x] \subseteq under[p] \ {p} /\ p \in under[p]
  BY <1>1, Children
<1>9. /\ black \in [Spot -> Nat \ {0}] /\ black[Sentinel] = 1
      /\ \A y \in N, s \in Side :
            black[y] = black[t.node[y][s]] + Missing(t, x, y, s) + (IF t.node[y].red THEN 0 ELSE 1)
  BY <1>1 DEF Balanced
<1>. HIDE DEF far, d
<1>10. /\ Repainted(t, w)
       /\ \A z \in Spot : w.node[z].red = (z = d \/ t.node[z].red)
  <2>. DEFINE B == {}
              R == {d}
  <2>1. Sentinel \notin R
    BY <1>4
  <2>. HIDE DEF B, R
  <2>2. /\ Repainted(t, Coloured(t, B, R))
        /\ \A z \in Spot : Coloured(t, B, R).node[z].red = (z \in R \/ (t.node[z].red /\ z \notin B))
    BY <1>3, <2>1, Painting
  <2>. QED  BY <2>2 DEF B, R
<1>. HIDE DEF w
<1>11. Shape(w, N, under) /\ \A z \in N, s \in Side : w.node[z][s] = t.node[z][s]
  BY <1>1, <1>10, RepaintedShape
<1>12. SameData(t, w) /\ w.root = t.root /\ \A z \in Spot : w.node[z].parent = t.node[z].parent
  BY <1>10 DEF Repainted, SameData, Same
<1>13. /\ black[x] \in Nat \ {0} /\ black[d] \in Nat /\ black[p] \in Nat
       /\ d \in Spot /\ p \in Spot
  BY <1>1, <1>3, <1>4, <1>9
<1>14. /\ count \in [Spot -> Nat \ {0}] /\ count[Sentinel] = 1
       /\ count[d] = black[d] - 1 /\ count[p] = black[p] - 1
       /\ \A z \in Spot : z \notin {d, p} => count[z] = black[z]
  <2>1. black[d] - 1 \in Nat \ {0} /\ black[p] - 1 \in Nat \ {0}
    BY <1>4, <1>13
  <2>. QED  BY <1>1, <1>3, <1>4, <1>9, <1>13, <2>1
<1>. HIDE DEF count
<1>15. ASSUME NEW y \in N, NEW s \in Side
       PROVE  count[y] = count[w.node[y][s]] + Missing(w, p, y, s) + (IF w.node[y].red THEN 0 ELSE 1)
  <2>0. /\ y \in Spot /\ t.node[y][s] \in Spot /\ w.node[y][s] = t.node[y][s]
        /\ black[t.node[y][s]] \in Nat
    <3>1. y \in Spot /\ t.node[y][s] \in Spot
      BY <1>1, <1>3 DEF Shape, Links
    <3>. QED  BY <1>9, <1>11, <3>1
  <2>1. CASE y = p
    <3>1. Missing(w, p, y, s) = 0
      <4>1. w.node[y][s] # p
        BY <1>1, <2>0, <2>1, Children
      <4>. QED  BY <4>1 DEF Missing
    <3>2. w.node[y].red = t.node[p].red
      <4>1. t.node[p].red \in BOOLEAN
        BY <1>3, <1>13 DEF Trees, NodeType
      <4>. QED  BY <1>4, <1>10, <1>13, <2>1, <4>1
    <3>3. count[w.node[y][s]] = black[x]
      <4>1. count[x] = black[x] /\ count[d] = black[x]
        BY <1>3, <1>4, <1>13, <1>14
      <4>. QED  BY <1>2, <1>7, <2>0, <2>1, <4>1
    <3>4. count[y] = black[x] + (IF t.node[p].red THEN 0 ELSE 1)
      BY <1>4, <1>13, <1>14, <2>1
    <3>. QED  BY <1>13, <3>1, <3>2, <3>3, <3>4
  <2>2. CASE y = d
    <3>1. w.node[y][s] \notin {p, d}
      BY <1>1, <1>3, <1>4, <2>0, <2>2
    <3>2. Missing(w, p, y, s) = 0 /\ w.node[y].red
      BY <1>10, <2>0, <2>2, <3>1 DEF Missing
    <3>3. count[w.node[y][s]] = black[t.node[y][s]]
      BY <1>14, <2>0, <3>1
    <3>4. black[d] = black[t.node[y][s]] + 1
      BY <1>0, <1>4, <2>2 DEF d
    <3>. QED  BY <1>13, <1>14, <2>0, <2>2, <3>2, <3>3, <3>4
  <2>3. CASE y \notin {p, d}
    <3>1. count[y] = black[y] /\ w.node[y].red = t.node[y].red /\ t.node[y][s] # d
      <4>1. t.node[y].red \in BOOLEAN
        BY <1>3, <2>0 DEF Trees, NodeType
      <4>. QED  BY <1>5, <1>10, <1>14, <2>0, <2>3, <4>1
    <3>2. Missing(t, x, y, s) = 0
      BY <1>1, <2>3 DEF Missing
    <3>3. black[y] = black[t.node[y][s]] + 0 + (IF t.node[y].red THEN 0 ELSE 1)
      BY <1>9, <3>2
    <3>4. CASE t.node[y][s] = p
      <4>1. t.node[p].parent = y
        BY <1>1, <1>3, <3>4 DEF Shape, Links
      <4>2. Missing(w, p, y, s) = 1
        BY <1>12, <1>13, <2>0, <3>4, <4>1 DEF Missing
      <4>3. count[w.node[y][s]] = black[t.node[y][s]] - 1
        BY <1>14, <2>0, <3>4
      <4>. QED  BY <2>0, <3>1, <3>3, <4>2, <4>3
    <3>5. CASE t.node[y][s] # p
      <4>1. Missing(w, p, y, s) = 0
        BY <2>0, <3>5 DEF Missing
      <4>2. count[w.node[y][s]] = black[t.node[y][s]]
        BY <1>14, <2>0, <3>1, <3>5
      <4>. QED  BY <2>0, <3>1, <3>3, <4>1, <4>2
    <3>. QED  BY <3>4, <3>5
  <2>. QED  BY <2>1, <2>2, <2>3
<1>16. Balanced(w, N, count, p)
  BY <1>14, <1>15 DEF Balanced
<1>17. Reds(w, N, {p}, {p})
  <2>. SUFFICES ASSUME NEW y \in N, NEW s \in Side, w.node[y].red, w.node[w.node[y][s]].red
                PROVE  y = p
    BY DEF Reds
  <2>0. y \in Spot /\ t.node[y][s] \in Spot /\ w.node[y][s] = t.node[y][s]
    BY <1>1, <1>3, <1>11 DEF Shape, Links
  <2>1. CASE y = d
    <3>1. t.node[y][s] # d
      BY <1>1, <1>4, <2>1, Children
    <3>2. t.node[t.node[y][s]].red
      BY <1>10, <2>0, <3>1
    <3>. QED  BY <1>6, <2>1, <3>2
  <2>2. CASE y # d /\ t.node[y][s] = d
    BY <1>5, <2>2
  <2>3. CASE y # d /\ t.node[y][s] # d
    <3>1. t.node[y].red /\ t.node[t.node[y][s]].red
      BY <1>10, <2>0, <2>3
    <3>. QED  BY <1>1, <3>1 DEF Reds
  <2>. QED  BY <2>1, <2>2, <2>3
<1>18. w.node[w.root].red => w.root = p
  <2>1. t.root # d
    <3>1. p # Null /\ (t.root # Sentinel => t.node[t.root].parent = Null)
      BY <1>1, Children DEF Shape, Links
    <3>. QED  BY <1>4, <3>1
  <2>. QED  BY <1>1, <1>3, <1>10, <1>12, <2>1
<1>19. p # w.root =>
         /\ w.node[p].parent \in N
         /\ \E s \in Side : /\ w.node[w.node[p].parent][s] = p
                            /\ w.node[w.node[p].parent][Other(s)] # p
  <2>. SUFFICES ASSUME p # t.root
                PROVE  /\ t.node[p].parent \in N
                       /\ \E s \in Side : /\ w.node[t.node[p].parent][s] = p
                                          /\ w.node[t.node[p].parent][Other(s)] # p
    BY <1>12, <1>13
  <2>. DEFINE g == t.node[p].parent
  <2>1. PICK s \in Side : g \in N /\ t.node[g][s] = p
    BY <1>1 DEF Shape, Links
  <2>2. t.node[g][Other(s)] # p /\ Other(s) \in Side
    BY <1>1, <1>3, <2>1, Children, Sides
  <2>. HIDE DEF g
  <2>3. w.node[g][s] = p /\ w.node[g][Other(s)] # p
    BY <1>11, <2>1, <2>2
  <2>. QED  BY <2>1, <2>3 DEF g
<1>20. RemoveInv(w, N, under, count, p)
  BY <1>1, <1>11, <1>16, <1>17, <1>18, <1>19 DEF RemoveInv
<1>. QED  BY <1>8, <1>12, <1>20

(* A turn of the loop.  After the last rotation x is the root.             *)
LEMMA RemoveTurns ==
    ASSUME NEW t, NEW N, NEW under, NEW black, NEW x, RemoveInv(t, N, under, black, x)
    PROVE  LET loop == [tree |-> t, at |-> x]
               next == RemoveTurn(loop)
           IN  /\ next = [tree |-> next.tree, at |-> next.at]
               /\ Ended(t, x) => next = loop
               /\ SameData(t, next.tree)
               /\ \E above, count :
                   /\ RemoveInv(next.tree, N, above, count, next.at)
                   /\ \/ Ended(next.tree, next.at)
                      \/ /\ under[x] \subseteq above[next.at] \ {next.at}
                         /\ next.at \in above[next.at]
<1>. DEFINE loop == [tree |-> t, at |-> x]
            next == RemoveTurn(loop)
            p == t.node[x].parent
            side == SideOf(t, x, p)
            far == Other(side)
            t1 == SiblingBlack(t, p, side)
            d == t1.node[p][far]
            t2 == NephewFar(t1, p, side)
            up == SiblingUp(t2, p, side)
            Goal == \E above, count :
                      /\ RemoveInv(next.tree, N, above, count, next.at)
                      /\ \/ Ended(next.tree, next.at)
                         \/ /\ under[x] \subseteq above[next.at] \ {next.at}
                            /\ next.at \in above[next.at]
<1>0. SUFFICES /\ next = [tree |-> next.tree, at |-> next.at]
               /\ Ended(t, x) => next = loop
               /\ SameData(t, next.tree)
               /\ Goal
  OBVIOUS
<1>1. CASE Ended(t, x)
  <2>1. next = loop
    BY <1>1, Zenon DEF Ended, RemoveTurn
  <2>. HIDE DEF next
  <2>2. next.tree = t /\ next.at = x
    BY <2>1
  <2>3. Goal
    BY <1>1, <2>2
  <2>4. SameData(t, t)
    BY Zenon DEF SameData, Same
  <2>. QED  BY <2>1, <2>2, <2>3, <2>4, Zenon
<1>2. CASE ~Ended(t, x)
  <2>1. Lack(t, N, under, black, x, p, side)
    BY <1>2, Lacking
  <2>2. ~(x = t.root \/ t.node[x].red)
    BY <1>2, Zenon DEF Ended
  <2>3. /\ ~t1.node[t1.node[d].left].red /\ ~t1.node[t1.node[d].right].red =>
              next = [tree |-> Coloured(t1, {}, {d}), at |-> p]
        /\ t1.node[t1.node[d].left].red \/ t1.node[t1.node[d].right].red =>
              next = [tree |-> up, at |-> up.root]
    BY <2>2, ZenonT(60) DEF RemoveTurn
  <2>. HIDE DEF next, p, side
  <2>4. /\ SameData(t, t1)
        /\ \E a1, c1 : Lack(t1, N, a1, c1, x, p, side) /\ a1[x] = under[x]
        /\ ~t1.node[d].red
    BY <2>1, RedSibling
  <2>5. PICK a1, c1 : Lack(t1, N, a1, c1, x, p, side) /\ a1[x] = under[x]
    BY <2>4
  <2>6. CASE ~t1.node[t1.node[d].left].red /\ ~t1.node[t1.node[d].right].red
    <3>. DEFINE w == Coloured(t1, {}, {d})
    <3>. HIDE DEF t1
    <3>1. /\ SameData(t1, w)
          /\ \E count : RemoveInv(w, N, a1, count, p)
          /\ a1[x] \subseteq a1[p] \ {p} /\ p \in a1[p]
      BY <2>4, <2>5, <2>6, BlackNephews
    <3>. HIDE DEF w, d
    <3>2. next.tree = w /\ next.at = p
      BY <2>3, <2>6 DEF w
    <3>3. Goal
      BY <2>5, <3>1, <3>2
    <3>4. SameData(t, w)
      BY <2>4, <3>1 DEF SameData, Same
    <3>. HIDE DEF Goal
    <3>5. next = [tree |-> next.tree, at |-> next.at]
      BY <2>3, <2>6, <3>2 DEF w
    <3>. QED  BY <1>2, <3>2, <3>3, <3>4, <3>5
  <2>7. CASE t1.node[t1.node[d].left].red \/ t1.node[t1.node[d].right].red
    <3>. HIDE DEF t1
    <3>1. /\ SameData(t1, t2)
          /\ \E a2, c2 : Lack(t2, N, a2, c2, x, p, side)
          /\ ~t2.node[t2.node[p][far]].red /\ t2.node[t2.node[t2.node[p][far]][far]].red
      BY <2>4, <2>5, <2>7, RedNephew
    <3>2. PICK a2, c2 : Lack(t2, N, a2, c2, x, p, side)
      BY <3>1
    <3>. HIDE DEF t2
    <3>3. SameData(t2, up) /\ \E above, count : RedBlack(up, N, above, count)
      BY <3>1, <3>2, SiblingLast
    <3>. HIDE DEF up, d
    <3>4. next.tree = up /\ next.at = up.root
      BY <2>3, <2>7
    <3>5. PICK above, count : RedBlack(up, N, above, count)
      BY <3>3
    <3>6. RemoveInv(up, N, above, count, up.root) /\ Ended(up, up.root)
      <4>1. /\ Shape(up, N, above) /\ Balanced(up, N, count, Null) /\ Reds(up, N, {}, {})
            /\ ~up.node[up.root].red
        BY <3>5 DEF RedBlack
      <4>2. up.root \in N \union {Sentinel} /\ Sentinel \notin N /\ Null \notin N /\ Sentinel # Null
            /\ (up.root # Sentinel => up.node[up.root].parent = Null)
            /\ (up.root = Sentinel => N = {})
        BY <4>1 DEF Shape, Links, Unders, Place, Sentinel, Null
      <4>3. ASSUME NEW y \in N, NEW s \in Side
            PROVE  up.node[y][s] # up.root /\ up.node[y][s] # Null
        <5>1. /\ up.node[y][s] \in N \union {Sentinel}
              /\ up.node[y][s] # Sentinel => up.node[up.node[y][s]].parent = y
          BY <4>1 DEF Shape, Links
        <5>2. up.root # Sentinel /\ y # Null /\ up.node[up.root].parent = Null
          BY <4>2
        <5>. QED  BY <4>2, <5>1, <5>2
      <4>4. Balanced(up, N, count, up.root)
        <5>1. \A y \in N, s \in Side : Missing(up, up.root, y, s) = 0 /\ Missing(up, Null, y, s) = 0
          BY <4>3 DEF Missing
        <5>. QED  BY <4>1, <5>1 DEF Balanced
      <4>5. Reds(up, N, {up.root}, {up.root})
        BY <4>1 DEF Reds
      <4>. QED  BY <4>1, <4>2, <4>4, <4>5 DEF RemoveInv, Ended
    <3>7. Goal
      BY <3>4, <3>6
    <3>8. SameData(t, up)
      BY <2>4, <3>1, <3>3 DEF SameData, Same
    <3>. HIDE DEF Goal
    <3>9. next = [tree |-> next.tree, at |-> next.at]
      BY <2>3, <2>7, <3>4
    <3>. QED  BY <1>2, <3>4, <3>7, <3>8, <3>9, Zenon
  <2>. QED  BY <2>6, <2>7
<1>. QED  BY <1>1, <1>2

(* A red x becomes black: it is the one that was missing.                  *)
LEMMA RemovePainted ==
    ASSUME NEW t, NEW N, NEW under, NEW black, NEW x, RemoveInv(t, N, under, black, x), Ended(t, x)
    PROVE  LET w == Coloured(t, {x}, {})
           IN  SameData(t, w) /\ \E count : RedBlack(w, N, under, count)
<1>. DEFINE w == Coloured(t, {x}, {})
            count == [black EXCEPT ![x] = IF t.node[x].red THEN @ + 1 ELSE @]
<1>1. /\ Shape(t, N, under) /\ Balanced(t, N, black, x) /\ Reds(t, N, {x}, {x})
      /\ (t.node[t.root].red => t.root = x) /\ x \in N \union {Sentinel}
  BY DEF RemoveInv
<1>2. /\ t \in Trees /\ ~t.node[Sentinel].red /\ N \subseteq Spot
      /\ Sentinel \in Spot /\ Sentinel \notin N /\ x \in Spot /\ Null \notin Spot
      /\ t.root \in N \union {Sentinel} /\ t.root \in Spot
      /\ (t.root # Sentinel => t.node[t.root].parent = Null)
  <2>1. /\ t \in Trees /\ ~t.node[Sentinel].red /\ N \subseteq Place
        /\ t.root \in N \union {Sentinel}
        /\ (t.root # Sentinel => t.node[t.root].parent = Null)
    BY <1>1 DEF Shape, Links
  <2>2. N \subseteq Spot /\ Sentinel \in Spot
    BY <2>1 DEF Spot
  <2>3. Sentinel \notin N /\ Null \notin Spot
    BY <2>1 DEF Spot, Place, Sentinel, Null
  <2>4. x \in Spot /\ t.root \in Spot
    BY <1>1, <2>1, <2>2
  <2>. QED  BY <2>1, <2>2, <2>3, <2>4
<1>3. /\ Repainted(t, w)
      /\ \A z \in Spot : w.node[z].red = (t.node[z].red /\ z # x)
  <2>. DEFINE B == {x}
              R == {}
  <2>. HIDE DEF B, R
  <2>1. /\ Repainted(t, Coloured(t, B, R))
        /\ \A z \in Spot : Coloured(t, B, R).node[z].red = (z \in R \/ (t.node[z].red /\ z \notin B))
    BY <1>2, Painting DEF R
  <2>. QED  BY <2>1 DEF B, R
<1>. HIDE DEF w
<1>4. Shape(w, N, under) /\ \A z \in N, s \in Side : w.node[z][s] = t.node[z][s]
  BY <1>1, <1>3, RepaintedShape
<1>5. SameData(t, w) /\ w.root = t.root
  BY <1>3 DEF Repainted, SameData, Same
<1>6. \A z \in Spot : t.node[z].red \in BOOLEAN
  BY <1>2 DEF Trees, NodeType
<1>7. /\ black \in [Spot -> Nat \ {0}] /\ black[Sentinel] = 1 /\ black[x] \in Nat
      /\ \A y \in N, s \in Side :
            black[y] = black[t.node[y][s]] + Missing(t, x, y, s) + (IF t.node[y].red THEN 0 ELSE 1)
  BY <1>1, <1>2 DEF Balanced
<1>8. /\ count \in [Spot -> Nat \ {0}] /\ count[Sentinel] = 1
      /\ count[x] = IF t.node[x].red THEN black[x] + 1 ELSE black[x]
      /\ \A z \in Spot : z # x => count[z] = black[z]
  BY <1>2, <1>7
<1>. HIDE DEF count
<1>9. ASSUME NEW y \in N, NEW s \in Side
      PROVE  count[y] = count[w.node[y][s]] + Missing(w, Null, y, s) + (IF w.node[y].red THEN 0 ELSE 1)
  <2>0. /\ y \in Spot /\ t.node[y][s] \in Spot /\ w.node[y][s] = t.node[y][s]
        /\ black[t.node[y][s]] \in Nat /\ black[y] \in Nat /\ Missing(w, Null, y, s) = 0
    <3>1. y \in Spot /\ t.node[y][s] \in Spot
      BY <1>1, <1>2 DEF Shape, Links
    <3>. QED  BY <1>2, <1>4, <1>7, <3>1 DEF Missing
  <2>1. black[y] = black[t.node[y][s]] + Missing(t, x, y, s) + (IF t.node[y].red THEN 0 ELSE 1)
    BY <1>7
  <2>2. count[y] = black[y] + (IF y = x /\ t.node[x].red THEN 1 ELSE 0)
        /\ (IF w.node[y].red THEN 0 ELSE 1) = (IF t.node[y].red THEN 0 ELSE 1)
                                              + (IF y = x /\ t.node[x].red THEN 1 ELSE 0)
    <3>1. CASE y = x /\ t.node[x].red
      <4>1. count[y] = black[y] + 1 /\ ~w.node[y].red /\ t.node[y].red
        BY <1>3, <1>8, <2>0, <3>1
      <4>. QED  BY <2>0, <3>1, <4>1
    <3>2. CASE ~(y = x /\ t.node[x].red)
      <4>1. count[y] = black[y]
        BY <1>8, <2>0, <3>2
      <4>2. w.node[y].red <=> t.node[y].red
        BY <1>3, <2>0, <3>2
      <4>. QED  BY <2>0, <3>2, <4>1, <4>2
    <3>. QED  BY <3>1, <3>2
  <2>3. count[t.node[y][s]] = black[t.node[y][s]] + Missing(t, x, y, s)
    <3>1. CASE t.node[y][s] # x
      <4>1. Missing(t, x, y, s) = 0
        BY <3>1 DEF Missing
      <4>. QED  BY <1>8, <2>0, <3>1, <4>1
    <3>2. CASE t.node[y][s] = x
      <4>1. x # t.root
        BY <1>1, <1>2, <3>2 DEF Shape, Links, Unders
      <4>2. t.node[x].red /\ x # Sentinel
        BY <1>2, <4>1 DEF Ended
      <4>3. t.node[x].parent = y
        BY <1>1, <3>2, <4>2 DEF Shape, Links
      <4>4. Missing(t, x, y, s) = 1
        BY <3>2, <4>3 DEF Missing
      <4>. QED  BY <1>8, <3>2, <4>2, <4>4
    <3>. QED  BY <3>1, <3>2
  <2>4. Missing(t, x, y, s) \in {0, 1}
    BY DEF Missing
  <2>. QED  BY <2>0, <2>1, <2>2, <2>3, <2>4
<1>10. Balanced(w, N, count, Null)
  BY <1>8, <1>9 DEF Balanced
<1>11. Reds(w, N, {}, {})
  <2>. SUFFICES ASSUME NEW y \in N, NEW s \in Side, w.node[y].red, w.node[w.node[y][s]].red
                PROVE  FALSE
    BY DEF Reds
  <2>0. y \in Spot /\ t.node[y][s] \in Spot /\ w.node[y][s] = t.node[y][s]
    BY <1>1, <1>2, <1>4 DEF Shape, Links
  <2>. QED  BY <1>1, <1>3, <2>0 DEF Reds
<1>12. ~w.node[w.root].red
  BY <1>1, <1>2, <1>3, <1>5
<1>13. RedBlack(w, N, under, count)
  BY <1>4, <1>10, <1>11, <1>12 DEF RedBlack
<1>. QED  BY <1>5, <1>13 DEF w

LEMMA RemoveFixed ==
    ASSUME NEW t, NEW N, NEW under, NEW black, NEW x, RemoveInv(t, N, under, black, x)
    PROVE  LET w == RemoveFixup(t, x)
           IN  SameData(t, w) /\ \E above, count : RedBlack(w, N, above, count)
<1>. DEFINE X == [tree : Trees, at : Spot]
            Good(s, a, c, k) ==
                /\ RemoveInv(s.tree, N, a, c, s.at)
                /\ \/ Ended(s.tree, s.at)
                   \/ k = 0
                   \/ s.at \in a[s.at] /\ Cardinality(a[s.at]) >= k
            T == [k \in 0 .. Memory |-> {s \in X : SameData(t, s.tree) /\ \E a, c : Good(s, a, c, k)}]
            start == [tree |-> t, at |-> x]
            step == [s \in X |-> RemoveTurn(s)]
            after == CHOOSE f : f = [k \in 0 .. Memory |-> IF k = 0 THEN start ELSE RemoveTurn(f[k - 1])]
<1>1. Memory \in Nat
  BY TreeAssumption
<1>2. ASSUME NEW r, NEW N1, NEW a, NEW c, NEW y, RemoveInv(r, N1, a, c, y)
      PROVE  /\ r \in Trees /\ y \in Spot /\ a[y] \subseteq N1 /\ Shape(r, N1, a)
             /\ y \in N1 \union {Sentinel}
  <2>1. Shape(r, N1, a) /\ y \in N1 \union {Sentinel}
    BY <1>2 DEF RemoveInv
  <2>2. y \in Spot
    BY <2>1 DEF Shape, Links, Spot
  <2>. QED  BY <2>1, <2>2 DEF Shape, Unders
<1>3. start \in T[0]
  <2>1. t \in Trees /\ x \in Spot
    BY <1>2
  <2>2. start \in X /\ start.tree = t /\ start.at = x
    BY <2>1
  <2>3. SameData(t, t)
    BY DEF SameData, Same
  <2>. HIDE DEF start, X
  <2>4. Good(start, under, black, 0)
    BY <2>2
  <2>. HIDE DEF Good
  <2>. QED  BY <1>1, <2>2, <2>3, <2>4
<1>4. ASSUME NEW k \in 1 .. Memory, NEW s \in T[k - 1]
      PROVE  s \in X /\ RemoveTurn(s) \in T[k]
  <2>. DEFINE next == RemoveTurn(s)
  <2>1. k - 1 \in 0 .. Memory /\ k \in 0 .. Memory
    BY <1>1
  <2>2. s \in X /\ SameData(t, s.tree) /\ \E a, c : Good(s, a, c, k - 1)
    BY <2>1
  <2>3. PICK a, c : Good(s, a, c, k - 1)
    BY <2>2
  <2>4. s = [tree |-> s.tree, at |-> s.at]
    BY <2>2
  <2>5. /\ next = [tree |-> next.tree, at |-> next.at]
        /\ Ended(s.tree, s.at) => next = s
        /\ SameData(s.tree, next.tree)
        /\ \E above, count :
            /\ RemoveInv(next.tree, N, above, count, next.at)
            /\ \/ Ended(next.tree, next.at)
               \/ a[s.at] \subseteq above[next.at] \ {next.at} /\ next.at \in above[next.at]
    <3>. DEFINE s2 == [tree |-> s.tree, at |-> s.at]
    <3>1. LET n2 == RemoveTurn(s2)
          IN /\ n2 = [tree |-> n2.tree, at |-> n2.at]
             /\ Ended(s.tree, s.at) => n2 = s2
             /\ SameData(s.tree, n2.tree)
             /\ \E above, count :
                 /\ RemoveInv(n2.tree, N, above, count, n2.at)
                 /\ \/ Ended(n2.tree, n2.at)
                    \/ a[s.at] \subseteq above[n2.at] \ {n2.at} /\ n2.at \in above[n2.at]
      BY <2>3, RemoveTurns
    <3>. HIDE DEF s2, X, Good
    <3>2. s2 = s
      BY <2>4 DEF s2
    <3>. QED  BY <3>1, <3>2
  <2>. HIDE DEF next
  <2>6. PICK above, count :
            /\ RemoveInv(next.tree, N, above, count, next.at)
            /\ \/ Ended(next.tree, next.at)
               \/ a[s.at] \subseteq above[next.at] \ {next.at} /\ next.at \in above[next.at]
    BY <2>5
  <2>7. next \in X
    <3>1. next.tree \in Trees /\ next.at \in Spot
      BY <1>2, <2>6
    <3>. HIDE DEF T
    <3>2. [tree |-> next.tree, at |-> next.at] \in X
      BY <3>1
    <3>. QED  BY <2>5, <3>2
  <2>8. SameData(t, next.tree)
    BY <2>2, <2>5 DEF SameData, Same
  <2>9. \E b, d : Good(next, b, d, k)
    <3>1. CASE Ended(s.tree, s.at)
      BY <2>3, <2>5, <3>1
    <3>2. CASE Ended(next.tree, next.at)
      <4>1. Good(next, above, count, k)
        BY <2>6, <3>2
      <4>. QED  BY <4>1
    <3>3. CASE ~Ended(s.tree, s.at) /\ ~Ended(next.tree, next.at)
      <4>1. k - 1 = 0 \/ Cardinality(a[s.at]) >= k - 1
        BY <2>3, <3>3
      <4>2. /\ a[s.at] \subseteq above[next.at] /\ a[s.at] # above[next.at]
            /\ above[next.at] \subseteq N /\ Shape(next.tree, N, above)
            /\ next.at \in above[next.at]
        BY <1>2, <2>6, <3>3
      <4>3. /\ Cardinality(a[s.at]) < Cardinality(above[next.at])
            /\ Cardinality(a[s.at]) \in Nat /\ Cardinality(above[next.at]) \in Nat
        BY <4>2, Sizes
      <4>4. Cardinality(above[next.at]) >= k
        BY <4>1, <4>3
      <4>5. Good(next, above, count, k)
        BY <2>6, <4>2, <4>4
      <4>. HIDE DEF Good
      <4>. QED  BY <4>5
    <3>. QED  BY <3>1, <3>2, <3>3
  <2>. HIDE DEF X, Good
  <2>. QED  BY <2>1, <2>2, <2>7, <2>8, <2>9 DEF next
<1>5. \A k \in 0 .. Memory : T[k] \subseteq X
  OBVIOUS
<1>. HIDE DEF X, Good, T, start
<1>6. \A k \in 1 .. Memory : \A s \in T[k - 1] : step[s] \in T[k] /\ step[s] = RemoveTurn(s)
  BY <1>4
<1>. HIDE DEF step
<1>7. PICK f \in [0 .. Memory -> X] :
         f[0] = start /\ \A k \in 1 .. Memory : f[k - 1] \in T[k - 1] /\ f[k] = step[f[k - 1]]
  <2>1. \A k \in 1 .. Memory : \A s \in T[k - 1] : step[s] \in T[k]
    BY <1>6
  <2>2. Looped(Memory, X, T, start, step)
    BY TreeAssumption, <1>3, <1>5, <2>1, LoopExists
  <2>. QED  BY <2>2 DEF Looped
<1>8. f = [k \in 0 .. Memory |-> IF k = 0 THEN start ELSE RemoveTurn(f[k - 1])]
  <2>1. \A k \in 0 .. Memory : f[k] = IF k = 0 THEN start ELSE RemoveTurn(f[k - 1])
    BY TreeAssumption, <1>6, <1>7
  <2>. QED  BY <1>7, <2>1
<1>9. after = [k \in 0 .. Memory |-> IF k = 0 THEN start ELSE RemoveTurn(after[k - 1])]
  BY <1>8
<1>10. Repeated(RemoveTurn, start) = after[Memory]
  BY DEF Repeated
<1>. HIDE DEF after
<1>11. after[Memory] \in T[Memory]
  <2>1. after[0] = start /\ \A k \in 1 .. Memory : after[k] = RemoveTurn(after[k - 1])
    BY TreeAssumption, <1>9
  <2>2. \A k \in 1 .. Memory : after[k - 1] \in T[k - 1] => after[k] \in T[k]
    BY <1>4, <2>1
  <2>. QED  BY TreeAssumption, <1>3, <2>1, <2>2, LoopStays
<1>. DEFINE last == after[Memory]
<1>12. PICK a, c : SameData(t, last.tree) /\ Good(last, a, c, Memory)
  BY <1>1, <1>11 DEF T
<1>. HIDE DEF last
<1>13. Ended(last.tree, last.at)
  <2>1. /\ RemoveInv(last.tree, N, a, c, last.at)
        /\ a[last.at] \subseteq N /\ Shape(last.tree, N, a) /\ last.at \in N \union {Sentinel}
    BY <1>2, <1>12 DEF Good
  <2>2. /\ Cardinality(N) \in 0 .. Memory /\ N \in SUBSET N
        /\ a[last.at] # N => Cardinality(a[last.at]) < Cardinality(N)
        /\ Cardinality(a[last.at]) \in Nat
    BY <1>1, <2>1, Sizes
  <2>3. CASE Memory = 0
    <3>1. N = {}
      BY <2>1, <2>3 DEF Shape, Links, Place
    <3>. QED  BY <2>1, <3>1 DEF Ended, Shape, Links
  <2>4. CASE Memory # 0 /\ ~Ended(last.tree, last.at)
    <3>1. last.at \in a[last.at] /\ Cardinality(a[last.at]) >= Memory
      BY <1>12, <2>4 DEF Good
    <3>2. a[last.at] = N
      BY <1>1, <2>2, <3>1
    <3>3. /\ last.at \in N /\ last.tree.root \in N /\ last.tree.node[last.tree.root].parent = Null
          /\ Null \notin N
      BY <2>1, <3>1, <3>2 DEF Shape, Links, Unders, Place, Null
    <3>4. last.tree.root # last.at => last.tree.node[last.tree.root].parent \in N
      BY <2>1, <3>2, <3>3, UpClosed
    <3>. QED  BY <3>3, <3>4 DEF Ended
  <2>. QED  BY <2>3, <2>4
<1>14. LET w == Coloured(last.tree, {last.at}, {})
       IN  SameData(last.tree, w) /\ \E count : RedBlack(w, N, a, count)
  BY <1>12, <1>13, RemovePainted DEF Good
<1>15. RemoveFixup(t, x) = Coloured(last.tree, {last.at}, {})
  BY <1>10 DEF RemoveFixup, start, last
<1>. QED  BY <1>12, <1>14, <1>15 DEF SameData, Same

-----------------------------------------------------------------------------
(* A node with a side where nothing is: its only child takes its place.    *)

Without(t, w, N, y, x) ==
    /\ w \in Trees /\ ~w.node[Sentinel].red
    /\ w.root = (IF t.root = y THEN x ELSE t.root)
    /\ \A z \in N \ {y} :
        /\ \A s \in Side : w.node[z][s] = IF t.node[z][s] = y THEN x ELSE t.node[z][s]
        /\ w.node[z].parent = IF z = x THEN t.node[y].parent ELSE t.node[z].parent
        /\ w.node[z].key = t.node[z].key

Less(under, y) == [z \in Spot |-> under[z] \ {y}]

LEMMA Spliced ==
    ASSUME NEW t, NEW N, NEW under, Shape(t, N, under), NEW y \in N, NEW side \in Side,
           t.node[y][side] = Sentinel, NEW w, Without(t, w, N, y, t.node[y][Other(side)])
    PROVE  /\ Shape(w, N \ {y}, Less(under, y))
           /\ \A z \in N \ {y}, s \in Side : Less(under, y)[w.node[z][s]] = under[t.node[z][s]] \ {y}
<1>. DEFINE x == t.node[y][Other(side)]
            p == t.node[y].parent
            M == N \ {y}
            v == Less(under, y)
<1>1. /\ x \in N \union {Sentinel} /\ x # y /\ y \notin under[x]
      /\ under[y] = {y} \union under[x]
      /\ \A s \in Side : t.node[y][s] = x \/ t.node[y][s] = Sentinel
  <2>1. /\ x \in N \union {Sentinel} /\ x # y /\ y \notin under[x]
        /\ under[y] = {y} \union under[Sentinel] \union under[x]
    BY Children
  <2>2. under[Sentinel] = {}
    BY DEF Shape, Unders
  <2>3. \A s \in Side : s = side \/ s = Other(side)
    BY DEF Side, Other
  <2>. QED  BY <2>1, <2>2, <2>3
<1>2. /\ N \subseteq Spot /\ Sentinel \in Spot /\ Sentinel \notin N /\ Null \notin N /\ Sentinel # Null
      /\ t.root \in N \union {Sentinel} /\ (t.root # Sentinel => t.node[t.root].parent = Null)
      /\ under[t.root] = N /\ under[Sentinel] = {}
      /\ under \in [Spot -> SUBSET N]
  <2>1. /\ N \subseteq Place
        /\ t.root \in N \union {Sentinel} /\ (t.root # Sentinel => t.node[t.root].parent = Null)
        /\ under[t.root] = N /\ under[Sentinel] = {}
        /\ under \in [Spot -> SUBSET N]
    BY DEF Shape, Links, Unders
  <2>2. Sentinel \notin N /\ Null \notin N /\ Sentinel # Null
    BY <2>1 DEF Place, Sentinel, Null
  <2>. QED  BY <2>1, <2>2 DEF Spot
<1>3. /\ \A z \in N, s \in Side : /\ t.node[z][s] \in N \union {Sentinel}
                                  /\ t.node[z][s] # Sentinel => t.node[t.node[z][s]].parent = z
      /\ \A z \in N : z # t.root => t.node[z].parent \in N /\ \E s \in Side : t.node[t.node[z].parent][s] = z
  BY DEF Shape, Links
<1>4. x # Sentinel => t.node[x].parent = y /\ x # t.root
  BY <1>2, <1>3, Sides
<1>5. /\ w \in Trees /\ ~w.node[Sentinel].red
      /\ w.root = (IF t.root = y THEN x ELSE t.root)
      /\ \A z \in M :
          /\ \A s \in Side : w.node[z][s] = IF t.node[z][s] = y THEN x ELSE t.node[z][s]
          /\ w.node[z].parent = IF z = x THEN p ELSE t.node[z].parent
          /\ w.node[z].key = t.node[z].key
  BY DEF Without
<1>6. /\ y # Sentinel /\ (y # t.root => p \in M)
  BY <1>2, <1>3, Children
<1>. HIDE DEF x, p
<1>7. \A z \in M, s \in Side : t.node[z][s] # Sentinel => t.node[z][s] # x
  BY <1>3, <1>4
<1>8. Links(w, M)
  <2>1. M \subseteq Place /\ w.root \in M \union {Sentinel} /\ ~w.node[Sentinel].red
    BY <1>1, <1>2, <1>5 DEF Shape, Links
  <2>2. w.root # Sentinel => w.node[w.root].parent = Null
    <3>1. CASE t.root = y
      <4>1. p = Null
        BY <1>2, <1>6, <3>1 DEF p
      <4>. QED  BY <1>1, <1>5, <3>1, <4>1
    <3>2. CASE t.root # y
      BY <1>2, <1>4, <1>5, <3>2
    <3>. QED  BY <3>1, <3>2
  <2>3. ASSUME NEW z \in M, NEW s \in Side
        PROVE  /\ w.node[z][s] \in M \union {Sentinel}
               /\ w.node[z][s] # Sentinel => w.node[w.node[z][s]].parent = z
    <3>1. CASE t.node[z][s] = y
      <4>1. p = z
        BY <1>3, <1>6, <3>1 DEF p
      <4>. QED  BY <1>1, <1>5, <3>1, <4>1
    <3>2. CASE t.node[z][s] # y
      <4>. DEFINE c == t.node[z][s]
      <4>1. c \in M \union {Sentinel} /\ (c # Sentinel => t.node[c].parent = z /\ c # x)
        BY <1>3, <1>7, <3>2
      <4>2. w.node[z][s] = c
        BY <1>5, <3>2
      <4>. HIDE DEF c
      <4>. QED  BY <1>5, <4>1, <4>2
    <3>. QED  BY <3>1, <3>2
  <2>4. ASSUME NEW z \in M, z # w.root
        PROVE  w.node[z].parent \in M /\ \E s \in Side : w.node[w.node[z].parent][s] = z
    <3>1. CASE z = x
      <4>1. y # t.root
        BY <1>5, <2>4, <3>1
      <4>2. PICK s \in Side : t.node[p][s] = y
        BY <1>3, <4>1 DEF p
      <4>3. p \in M /\ w.node[p][s] = x
        BY <1>5, <1>6, <4>1, <4>2
      <4>. QED  BY <1>5, <3>1, <4>3
    <3>2. CASE z # x
      <4>1. z # t.root
        BY <1>5, <2>4
      <4>. DEFINE q == t.node[z].parent
      <4>2. PICK s \in Side : q \in N /\ t.node[q][s] = z
        BY <1>3, <4>1
      <4>3. q # y
        BY <1>1, <1>2, <3>2, <4>2
      <4>4. w.node[z].parent = q
        BY <1>5, <3>2
      <4>. HIDE DEF q
      <4>5. w.node[q][s] = z
        BY <1>5, <4>2, <4>3
      <4>. QED  BY <4>2, <4>3, <4>4, <4>5
    <3>. QED  BY <3>1, <3>2
  <2>. QED  BY <2>1, <2>2, <2>3, <2>4 DEF Links
<1>9. /\ v \in [Spot -> SUBSET M] /\ \A z \in Spot : v[z] = under[z] \ {y}
  BY <1>2 DEF Less
<1>. HIDE DEF v
<1>10. ASSUME NEW z \in M, NEW s \in Side
       PROVE  v[w.node[z][s]] = under[t.node[z][s]] \ {y} /\ t.node[z][s] \in Spot
  <2>1. t.node[z][s] \in Spot /\ x \in Spot
    BY <1>1, <1>2, <1>3
  <2>2. CASE t.node[z][s] = y
    BY <1>1, <1>5, <1>9, <2>1, <2>2
  <2>3. CASE t.node[z][s] # y
    BY <1>5, <1>9, <2>1, <2>3
  <2>. QED  BY <2>1, <2>2, <2>3
<1>11. Unders(w, M, v)
  <2>1. v[Sentinel] = {}
    BY <1>2, <1>9
  <2>2. v[w.root] = M
    <3>1. x \in Spot /\ t.root \in Spot
      BY <1>1, <1>2
    <3>2. CASE t.root = y
      BY <1>1, <1>2, <1>5, <1>9, <3>1, <3>2
    <3>3. CASE t.root # y
      BY <1>2, <1>5, <1>9, <3>1, <3>3
    <3>. QED  BY <3>2, <3>3
  <2>3. ASSUME NEW z \in M
        PROVE  /\ v[z] = {z} \union v[w.node[z].left] \union v[w.node[z].right]
               /\ z \notin v[w.node[z].left] \union v[w.node[z].right]
               /\ v[w.node[z].left] \intersect v[w.node[z].right] = {}
    <3>1. /\ v[w.node[z].left] = under[t.node[z].left] \ {y}
          /\ v[w.node[z].right] = under[t.node[z].right] \ {y}
      BY <1>10 DEF Side
    <3>2. /\ under[z] = {z} \union under[t.node[z].left] \union under[t.node[z].right]
          /\ z \notin under[t.node[z].left] \union under[t.node[z].right]
          /\ under[t.node[z].left] \intersect under[t.node[z].right] = {}
      BY DEF Shape, Unders
    <3>3. v[z] = under[z] \ {y} /\ z # y
      BY <1>2, <1>9
    <3>. QED  BY <3>1, <3>2, <3>3
  <2>. QED  BY <1>9, <2>1, <2>2, <2>3 DEF Unders
<1>12. Ordered(w, M, v)
  <2>. SUFFICES ASSUME NEW z \in M, NEW s \in Side, NEW q \in v[w.node[z][s]]
                PROVE  Before(s, w.node[q].key, w.node[z].key)
    BY DEF Ordered
  <2>1. q \in under[t.node[z][s]] /\ q # y
    BY <1>10
  <2>2. q \in N /\ Before(s, t.node[q].key, t.node[z].key)
    BY <2>1, Keys
  <2>. QED  BY <1>5, <2>1, <2>2
<1>. QED  BY <1>5, <1>8, <1>10, <1>11, <1>12 DEF Shape, v

TakenFrom(t, w, N, y, x, p) ==
    /\ Without(t, w, N, y, x)
    /\ SameData(t, w)
    /\ \A z \in Spot : w.node[z].red = t.node[z].red
    /\ w.node[x].parent = p

LEMMA TakenOut ==
    ASSUME NEW t, NEW N, NEW under, Shape(t, N, under), NEW y \in N, NEW x \in Spot
    PROVE  LET p == t.node[y].parent
               w == Hang([t EXCEPT !.node[x].parent = p], p, y, x)
           IN  TakenFrom(t, w, N, y, x, p)
<1>. DEFINE p == t.node[y].parent
            u == [t EXCEPT !.node[x].parent = p]
            w == Hang(u, p, y, x)
<1>1. /\ N \subseteq Spot /\ Sentinel \in Spot /\ Sentinel \notin N /\ Null \notin Spot
      /\ t \in Trees /\ ~t.node[Sentinel].red
      /\ t.root \in N \union {Sentinel} /\ (t.root # Sentinel => t.node[t.root].parent = Null)
  <2>1. /\ N \subseteq Place /\ t \in Trees /\ ~t.node[Sentinel].red
        /\ t.root \in N \union {Sentinel} /\ (t.root # Sentinel => t.node[t.root].parent = Null)
    BY DEF Shape, Links
  <2>2. Sentinel \notin N /\ Null \notin Spot
    BY <2>1 DEF Spot, Place, Sentinel, Null
  <2>. QED  BY <2>1, <2>2 DEF Spot
<1>2. /\ p \in Spot \union {Null} /\ (p = Null <=> t.root = y)
      /\ p # Null => p \in N /\ \E s \in Side : t.node[p][s] = y /\ t.node[p][Other(s)] # y
      /\ \A z \in N, s \in Side : t.node[z][s] = y => z = p
  <2>1. \A z \in N, s \in Side : t.node[z][s] = y => z = p /\ t.node[z][Other(s)] # y
    BY <1>1, Children DEF Shape, Links
  <2>2. y # t.root => p \in N /\ \E s \in Side : t.node[p][s] = y
    BY DEF Shape, Links
  <2>3. y = t.root => p = Null
    BY <1>1
  <2>. QED  BY <1>1, <2>1, <2>2, <2>3
<1>3. p # Null => \A s \in Side : t.node[p][s] = y <=> s = (IF t.node[p].left = y THEN "left" ELSE "right")
  <2>. SUFFICES ASSUME p # Null, NEW s \in Side
                PROVE  t.node[p][s] = y <=> s = (IF t.node[p].left = y THEN "left" ELSE "right")
    OBVIOUS
  <2>1. PICK q \in Side : t.node[p][q] = y /\ t.node[p][Other(q)] # y
    BY <1>2
  <2>. QED  BY <2>1 DEF Side, Other
<1>. HIDE DEF p
<1>4. /\ u \in Trees /\ u.root = t.root /\ u.used = t.used
      /\ \A z \in Spot : u.node[z].parent = IF z = x THEN p ELSE t.node[z].parent
      /\ Same(t, u, {"left", "right", "red", "key", "value"})
  BY <1>1, <1>2 DEF Trees, NodeType, Spot, Same
<1>. HIDE DEF u
<1>5. /\ w \in Trees /\ w.used = u.used
      /\ w.root = (IF p = Null THEN x ELSE u.root)
      /\ \A z \in Spot, s \in Side : w.node[z][s] =
              IF z = p /\ s = (IF u.node[p].left = y THEN "left" ELSE "right") THEN x
              ELSE u.node[z][s]
      /\ Same(u, w, {"parent", "red", "key", "value"})
  BY <1>2, <1>4, Hung
<1>. HIDE DEF w
<1>6. SameData(t, w)
  BY <1>4, <1>5 DEF SameData, Same
<1>7. /\ \A z \in Spot : w.node[z].red = t.node[z].red /\ w.node[z].key = t.node[z].key
                         /\ w.node[z].parent = IF z = x THEN p ELSE t.node[z].parent
  BY <1>4, <1>5 DEF Same
<1>8. ASSUME NEW z \in N, NEW s \in Side
      PROVE  w.node[z][s] = IF t.node[z][s] = y THEN x ELSE t.node[z][s]
  <2>1. z \in Spot /\ u.node[z][s] = t.node[z][s] /\ (p # Null => u.node[p].left = t.node[p].left)
    BY <1>1, <1>2, <1>4 DEF Same, Side
  <2>2. CASE z = p
    BY <1>1, <1>3, <1>5, <2>1, <2>2
  <2>3. CASE z # p
    BY <1>2, <1>5, <2>1, <2>3
  <2>. QED  BY <2>2, <2>3
<1>9. Without(t, w, N, y, x)
  BY <1>1, <1>2, <1>4, <1>5, <1>7, <1>8 DEF Without, p
<1>10. TakenFrom(t, w, N, y, x, p)
  <2>1. w.node[x].parent = p
    BY <1>7
  <2>. QED  BY <1>6, <1>7, <1>9, <2>1 DEF TakenFrom
<1>. QED  BY <1>10 DEF w, u, p

(* If the node was red the colours are still right, and if it was black    *)
(* one is missing on the ways through what took its place.                 *)
LEMMA OutColours ==
    ASSUME NEW t, NEW N, NEW under, NEW black, RedBlack(t, N, under, black),
           NEW y \in N, NEW side \in Side, t.node[y][side] = Sentinel,
           NEW x, x = t.node[y][Other(side)], NEW w, Without(t, w, N, y, x),
           \A z \in Spot : w.node[z].red = t.node[z].red, w.node[x].parent = t.node[y].parent
    PROVE  /\ t.node[y].red => RedBlack(w, N \ {y}, Less(under, y), black)
           /\ ~t.node[y].red => RemoveInv(w, N \ {y}, Less(under, y), black, x)
<1>. DEFINE p == t.node[y].parent
            M == N \ {y}
            v == Less(under, y)
<1>1. /\ Shape(t, N, under) /\ Balanced(t, N, black, Null) /\ Reds(t, N, {}, {}) /\ ~t.node[t.root].red
  BY DEF RedBlack
<1>2. Shape(w, M, v)
  BY <1>1, Spliced
<1>3. /\ N \subseteq Spot /\ Sentinel \in Spot /\ Sentinel \notin N /\ Null \notin Spot
      /\ t \in Trees /\ ~t.node[Sentinel].red
      /\ t.root \in N \union {Sentinel} /\ (t.root # Sentinel => t.node[t.root].parent = Null)
  <2>1. /\ N \subseteq Place /\ t \in Trees /\ ~t.node[Sentinel].red
        /\ t.root \in N \union {Sentinel} /\ (t.root # Sentinel => t.node[t.root].parent = Null)
    BY <1>1 DEF Shape, Links
  <2>2. Sentinel \notin N /\ Null \notin Spot
    BY <2>1 DEF Spot, Place, Sentinel, Null
  <2>. QED  BY <2>1, <2>2 DEF Spot
<1>4. \A z \in N, s \in Side : /\ t.node[z][s] \in N \union {Sentinel}
                               /\ t.node[z][s] # Sentinel => t.node[t.node[z][s]].parent = z
  BY <1>1 DEF Shape, Links
<1>5. /\ black \in [Spot -> Nat \ {0}] /\ black[Sentinel] = 1
      /\ \A z \in N, s \in Side :
           black[z] = black[t.node[z][s]] + (IF t.node[z].red THEN 0 ELSE 1)
  <2>1. /\ black \in [Spot -> Nat \ {0}] /\ black[Sentinel] = 1
        /\ \A z \in N, s \in Side :
             black[z] = black[t.node[z][s]] + Missing(t, Null, z, s) + (IF t.node[z].red THEN 0 ELSE 1)
    BY <1>1 DEF Balanced
  <2>2. ASSUME NEW z \in N, NEW s \in Side
        PROVE  black[z] = black[t.node[z][s]] + (IF t.node[z].red THEN 0 ELSE 1)
    <3>1. t.node[z][s] \in Spot
      BY <1>3, <1>4
    <3>2. Missing(t, Null, z, s) = 0 /\ black[t.node[z][s]] \in Nat
      BY <1>3, <2>1, <3>1 DEF Missing
    <3>. QED  BY <2>1, <3>2
  <2>. QED  BY <2>1, <2>2
<1>6. /\ x \in N \union {Sentinel} /\ x # y /\ x \in Spot /\ Other(side) \in Side
      /\ x # Sentinel => t.node[x].parent = y
  BY <1>3, <1>4, Sides, Children, <1>1
<1>7. /\ w.root = (IF t.root = y THEN x ELSE t.root)
      /\ \A z \in M, s \in Side : w.node[z][s] = IF t.node[z][s] = y THEN x ELSE t.node[z][s]
      /\ ~w.node[Sentinel].red
  BY DEF Without
<1>8. black[x] \in Nat \ {0} /\ black[y] = black[x] + (IF t.node[y].red THEN 0 ELSE 1)
  BY <1>5, <1>6
<1>9. t.node[y].red => x = Sentinel
  <2>. SUFFICES ASSUME t.node[y].red, x # Sentinel PROVE FALSE
    OBVIOUS
  <2>1. black[y] = 1 + 0
    BY <1>5
  <2>2. ~t.node[x].red
    BY <1>1, <1>6 DEF Reds
  <2>3. black[x] = black[t.node[x].left] + 1 /\ black[t.node[x].left] \in Nat \ {0}
    <3>1. "left" \in Side /\ x \in N /\ t.node[x].left \in Spot
      BY <1>3, <1>4, <1>6 DEF Side
    <3>. QED  BY <1>5, <2>2, <3>1
  <2>. QED  BY <1>8, <2>1, <2>3
<1>10. ASSUME NEW z \in M, NEW s \in Side
       PROVE  /\ w.node[z].red = t.node[z].red /\ z \in Spot /\ w.node[z][s] \in Spot
              /\ w.node[w.node[z][s]].red =>
                   \/ w.node[z][s] = x /\ x # Sentinel
                   \/ w.node[z][s] = t.node[z][s] /\ t.node[t.node[z][s]].red
  <2>1. z \in Spot /\ w.node[z][s] \in Spot
    BY <1>3, <1>4, <1>6, <1>7
  <2>2. CASE t.node[z][s] = y
    <3>1. w.node[z][s] = x
      BY <1>7, <2>2
    <3>. QED  BY <1>7, <2>1, <3>1
  <2>3. CASE t.node[z][s] # y
    <3>1. w.node[z][s] = t.node[z][s]
      BY SMTT(60), <1>7, <2>3
    <3>. QED  BY <2>1, <3>1
  <2>. QED  BY <2>2, <2>3
<1>. HIDE DEF p, v
<1>11. Reds(w, M, {}, {x}) /\ (x = Sentinel => Reds(w, M, {}, {}))
  BY <1>1, <1>7, <1>10 DEF Reds
<1>12. w.node[w.root].red => w.root = x /\ x # Sentinel
  BY <1>1, <1>3, <1>6, <1>7
<1>13. ASSUME t.node[y].red PROVE RedBlack(w, M, v, black)
  <2>1. x = Sentinel /\ black[y] = black[x]
    BY <1>8, <1>9, <1>13
  <2>2. ASSUME NEW z \in M, NEW s \in Side
        PROVE  black[z] = black[w.node[z][s]] + Missing(w, Null, z, s) + (IF w.node[z].red THEN 0 ELSE 1)
    <3>1. black[w.node[z][s]] = black[t.node[z][s]] /\ black[w.node[z][s]] \in Nat
      BY <1>5, <1>7, <1>10, <2>1
    <3>2. Missing(w, Null, z, s) = 0
      BY <1>3, <1>10 DEF Missing
    <3>3. w.node[z].red = t.node[z].red
      BY <1>10
    <3>. QED  BY <1>5, <3>1, <3>2, <3>3
  <2>3. Balanced(w, M, black, Null)
    BY <1>5, <2>2 DEF Balanced
  <2>. QED  BY <1>2, <1>11, <1>12, <2>1, <2>3 DEF RedBlack
<1>14. ASSUME ~t.node[y].red PROVE RemoveInv(w, M, v, black, x)
  <2>1. black[y] = black[x] + 1 /\ w.node[x].parent = p
    BY <1>8, <1>14 DEF p
  <2>2. ASSUME NEW z \in M, NEW s \in Side
        PROVE  black[z] = black[w.node[z][s]] + Missing(w, x, z, s) + (IF w.node[z].red THEN 0 ELSE 1)
    <3>1. CASE t.node[z][s] = y
      <4>1. w.node[z][s] = x /\ p = z
        BY <1>3, <1>4, <1>7, <3>1 DEF p
      <4>2. Missing(w, x, z, s) = 1
        BY <2>1, <4>1 DEF Missing
      <4>3. black[z] = black[y] + (IF w.node[z].red THEN 0 ELSE 1)
        BY <1>5, <1>10, <3>1
      <4>. QED  BY <1>8, <2>1, <4>1, <4>2, <4>3
    <3>2. CASE t.node[z][s] # y
      <4>1. w.node[z][s] = t.node[z][s] /\ black[t.node[z][s]] \in Nat
        BY <1>5, <1>7, <1>10, <3>2
      <4>2. Missing(w, x, z, s) = 0
        <5>. SUFFICES ASSUME t.node[z][s] = x, p = z PROVE FALSE
          BY <2>1, <4>1 DEF Missing
        <5>1. x = Sentinel
          BY <1>4, <1>6
        <5>2. t.root # y
          BY <1>3 DEF p
        <5>3. PICK q \in Side : t.node[z][q] = y
          BY <1>1, <5>2 DEF Shape, Links, p
        <5>4. black[y] = black[x]
          <6>1. black[y] \in Nat
            BY <1>3, <1>5
          <6>2. black[z] = black[y] + (IF t.node[z].red THEN 0 ELSE 1)
                /\ black[z] = black[x] + (IF t.node[z].red THEN 0 ELSE 1)
            BY <1>5, <5>3
          <6>. QED  BY <1>8, <6>1, <6>2
        <5>. QED  BY <1>8, <2>1, <5>4
      <4>3. w.node[z].red = t.node[z].red
        BY <1>10
      <4>. QED  BY <1>5, <4>1, <4>2, <4>3
    <3>. QED  BY <3>1, <3>2
  <2>3. Balanced(w, M, black, x)
    BY <1>5, <2>2 DEF Balanced
  <2>4. x # w.root => p \in M /\ \E s \in Side : w.node[p][s] = x /\ w.node[p][Other(s)] # x
    <3>. SUFFICES ASSUME x # w.root
                  PROVE  p \in M /\ \E s \in Side : w.node[p][s] = x /\ w.node[p][Other(s)] # x
      OBVIOUS
    <3>1. y # t.root
      BY <1>7
    <3>2. PICK s \in Side : p \in N /\ t.node[p][s] = y
      BY <1>1, <3>1 DEF Shape, Links, p
    <3>3. p # y /\ Other(s) \in Side /\ t.node[p][Other(s)] # y
      BY <1>1, <1>3, <3>2, Children, Sides
    <3>4. w.node[p][s] = x /\ w.node[p][Other(s)] = t.node[p][Other(s)]
      BY <1>7, <3>2, <3>3
    <3>5. t.node[p][Other(s)] # x
      <4>. SUFFICES ASSUME t.node[p][Other(s)] = x PROVE FALSE
        OBVIOUS
      <4>1. black[y] = black[x]
        <5>1. black[y] \in Nat
          BY <1>3, <1>5
        <5>2. black[p] = black[y] + (IF t.node[p].red THEN 0 ELSE 1)
              /\ black[p] = black[x] + (IF t.node[p].red THEN 0 ELSE 1)
          BY <1>5, <3>2, <3>3
        <5>. QED  BY <1>8, <5>1, <5>2
      <4>. QED  BY <1>8, <2>1, <4>1
    <3>. QED  BY <3>2, <3>3, <3>4, <3>5
  <2>5. Reds(w, M, {x}, {x})
    BY <1>11 DEF Reds
  <2>. QED  BY <1>2, <1>6, <1>12, <2>1, <2>3, <2>4, <2>5 DEF RemoveInv
<1>. QED  BY <1>13, <1>14 DEF v

-----------------------------------------------------------------------------
(* The loops that go through the tree: what is under the place where they  *)
(* are has a node less after each turn.                                    *)

LEMMA Befores ==
    ASSUME NEW side \in Side, NEW i \in Int, NEW j \in Int
    PROVE  /\ Before(Other(side), i, j) <=> Before(side, j, i)
           /\ i # j => Before(side, i, j) \/ Before(side, j, i)
           /\ ~(Before(side, i, j) /\ Before(side, j, i)) /\ ~Before(side, i, i)
           /\ \A k \in Int : Before(side, i, j) /\ Before(side, j, k) => Before(side, i, k)
  BY DEF Side, Before, Other

LEMMA Measure ==
    ASSUME NEW t, NEW N, NEW under, Shape(t, N, under), NEW y \in N
    PROVE  /\ Cardinality(under[y]) \in 1 .. Memory
           /\ \A s \in Side : /\ Cardinality(under[t.node[y][s]]) \in 0 .. Memory
                              /\ Cardinality(under[t.node[y][s]]) < Cardinality(under[y])
<1>1. Cardinality(N) \in 0 .. Memory /\ y \in under[y] /\ {} \in SUBSET N
      /\ \A z \in N \union {Sentinel} : under[z] \subseteq N
  <2>1. \A z \in N \union {Sentinel} : z \in Spot
    BY DEF Shape, Links, Spot
  <2>2. under \in [Spot -> SUBSET N]
    BY DEF Shape, Unders
  <2>3. y \in under[y]
    BY Children, Sides DEF Side
  <2>. QED  BY <2>1, <2>2, <2>3, Sizes
<1>2. Cardinality(under[y]) \in 0 .. Cardinality(N) /\ Cardinality({}) \in 0 .. Cardinality(N)
      /\ Cardinality({}) < Cardinality(under[y])
  BY <1>1, Sizes
<1>3. ASSUME NEW s \in Side
      PROVE  /\ Cardinality(under[t.node[y][s]]) \in 0 .. Cardinality(N)
             /\ Cardinality(under[t.node[y][s]]) < Cardinality(under[y])
  <2>. DEFINE c == t.node[y][s]
  <2>1. c \in N \union {Sentinel} /\ under[c] \subseteq under[y] /\ y \notin under[c]
    BY Children
  <2>. HIDE DEF c
  <2>2. under[c] \in SUBSET N /\ under[c] # under[y]
    BY <1>1, <2>1
  <2>3. Cardinality(under[c]) \in 0 .. Cardinality(N) /\ Cardinality(under[c]) < Cardinality(under[y])
    BY <1>1, <2>1, <2>2, Sizes
  <2>. QED  BY <2>3 DEF c
<1>. QED  BY <1>1, <1>2, <1>3, TreeAssumption

LEMMA OutermostNode ==
    ASSUME NEW t, NEW N, NEW under, Shape(t, N, under), NEW x \in N, NEW side \in Side
    PROVE  LET m == Outermost(t, x, side)
           IN  /\ m \in under[x] /\ m \in N /\ t.node[m][side] = Sentinel
               /\ \A v \in under[x] : v = m \/ Before(side, t.node[m].key, t.node[v].key)
<1>. DEFINE X == Spot
            Turn(y) == IF t.node[y][side] = Sentinel THEN y ELSE t.node[y][side]
            Good(y, k) ==
                /\ y \in N /\ y \in under[x] /\ under[y] \subseteq under[x]
                /\ \A v \in under[x] \ under[y] : \A q \in under[y] :
                        Before(side, t.node[q].key, t.node[v].key)
                /\ t.node[y][side] = Sentinel \/ Cardinality(under[y]) <= Memory - k
            T == [k \in 0 .. Memory |-> {y \in X : Good(y, k)}]
            start == x
            step == [y \in X |-> Turn(y)]
            after == CHOOSE f : f = [k \in 0 .. Memory |-> IF k = 0 THEN start ELSE Turn(f[k - 1])]
<1>1. Memory \in Nat /\ N \subseteq Spot
  BY TreeAssumption DEF Shape, Links, Spot
<1>2. /\ \A y \in N : y \in under[y] /\ t.node[y].key \in Int /\ under[y] \subseteq N
  <2>1. \A y \in N : y \in under[y]
    BY Children
  <2>. QED  BY <1>1, <2>1, Keys DEF Shape, Unders
<1>3. start \in T[0]
  <2>1. Cardinality(under[x]) <= Memory - 0
    BY <1>1, Measure
  <2>2. Good(x, 0)
    BY <1>2, <2>1
  <2>. HIDE DEF Good
  <2>. QED  BY <1>1, <2>2
<1>4. ASSUME NEW k \in 1 .. Memory, NEW s \in T[k - 1]
      PROVE  s \in X /\ Turn(s) \in T[k]
  <2>1. s \in X /\ Good(s, k - 1) /\ k \in 0 .. Memory
    BY <1>1
  <2>2. CASE t.node[s][side] = Sentinel
    <3>1. Turn(s) = s /\ Good(s, k)
      BY <2>1, <2>2
    <3>. HIDE DEF Turn, Good
    <3>. QED  BY <2>1, <3>1
  <2>3. CASE t.node[s][side] # Sentinel
    <3>. DEFINE c == t.node[s][side]
                d == t.node[s][Other(side)]
    <3>1. /\ c \in N /\ under[s] = {s} \union under[c] \union under[d]
          /\ s \in N /\ s \notin under[c]
      BY <2>1, <2>3, Children
    <3>2. /\ \A q \in under[c] : Before(side, t.node[q].key, t.node[s].key)
          /\ \A q \in under[d] : Before(Other(side), t.node[q].key, t.node[s].key)
      BY <3>1, Keys, Sides
    <3>3. Cardinality(under[c]) <= Memory - k
      <4>1. /\ Cardinality(under[c]) \in 0 .. Memory /\ Cardinality(under[s]) \in 1 .. Memory
            /\ Cardinality(under[c]) < Cardinality(under[s])
        BY <3>1, Measure
      <4>2. Cardinality(under[s]) <= Memory - (k - 1)
        BY <2>1, <2>3
      <4>. QED  BY <1>1, <4>1, <4>2
    <3>4. Turn(s) = c
      BY <2>3
    <3>. HIDE DEF c, d, Turn
    <3>5. /\ under[c] \subseteq N /\ under[s] \subseteq N /\ c \in under[c]
          /\ under[s] \subseteq under[x] /\ under[x] \subseteq N
          /\ \A q \in N : t.node[q].key \in Int
      BY <1>2, <2>1, <3>1
    <3>6. ASSUME NEW v \in under[x] \ under[c], NEW q \in under[c]
          PROVE  Before(side, t.node[q].key, t.node[v].key)
      <4>0. /\ t.node[q].key \in Int /\ t.node[v].key \in Int /\ t.node[s].key \in Int
        BY <3>1, <3>5
      <4>1. CASE v \notin under[s]
        BY <2>1, <3>1, <4>1
      <4>2. CASE v = s
        BY <3>2, <4>2
      <4>3. CASE v \in under[d]
        <5>1. Before(side, t.node[q].key, t.node[s].key) /\ Before(Other(side), t.node[v].key, t.node[s].key)
          BY <3>2, <4>3
        <5>. HIDE DEF Before
        <5>. QED  BY <4>0, <5>1, Befores
      <4>. QED  BY <3>1, <4>1, <4>2, <4>3
    <3>7. Good(c, k)
      BY <3>1, <3>3, <3>5, <3>6
    <3>. HIDE DEF Good
    <3>. QED  BY <1>1, <2>1, <3>1, <3>4, <3>7
  <2>. QED  BY <2>2, <2>3
<1>5. \A k \in 0 .. Memory : T[k] \subseteq X
  OBVIOUS
<1>. HIDE DEF X, Good, T, start
<1>6. \A k \in 1 .. Memory : \A s \in T[k - 1] : step[s] \in T[k] /\ step[s] = Turn(s)
  BY <1>4
<1>. HIDE DEF step
<1>7. PICK f \in [0 .. Memory -> X] :
         f[0] = start /\ \A k \in 1 .. Memory : f[k - 1] \in T[k - 1] /\ f[k] = step[f[k - 1]]
  <2>1. \A k \in 1 .. Memory : \A s \in T[k - 1] : step[s] \in T[k]
    BY <1>6
  <2>2. Looped(Memory, X, T, start, step)
    BY TreeAssumption, <1>3, <1>5, <2>1, LoopExists
  <2>. QED  BY <2>2 DEF Looped
<1>8. f = [k \in 0 .. Memory |-> IF k = 0 THEN start ELSE Turn(f[k - 1])]
  <2>1. \A k \in 0 .. Memory : f[k] = IF k = 0 THEN start ELSE Turn(f[k - 1])
    BY TreeAssumption, <1>6, <1>7, SMTT(60)
  <2>. QED  BY <1>7, <2>1
<1>9. after = [k \in 0 .. Memory |-> IF k = 0 THEN start ELSE Turn(after[k - 1])]
  BY <1>8, Zenon
<1>10. Outermost(t, x, side) = after[Memory]
  BY DEF Outermost, Repeated, start
<1>. HIDE DEF after
<1>11. after[Memory] \in T[Memory]
  <2>1. after[0] = start /\ \A k \in 1 .. Memory : after[k] = Turn(after[k - 1])
    <3>. HIDE DEF start, Turn
    <3>. QED  BY TreeAssumption, <1>9
  <2>2. \A k \in 1 .. Memory : after[k - 1] \in T[k - 1] => after[k] \in T[k]
    BY <1>4, <2>1
  <2>. QED  BY TreeAssumption, <1>3, <2>1, <2>2, LoopStays, Zenon
<1>. DEFINE m == after[Memory]
<1>12. Good(m, Memory) /\ Outermost(t, x, side) = m
  BY <1>1, <1>10, <1>11 DEF T
<1>. HIDE DEF m
<1>13. t.node[m][side] = Sentinel
  <2>1. m \in N /\ (t.node[m][side] = Sentinel \/ Cardinality(under[m]) <= Memory - Memory)
    BY <1>12 DEF Good
  <2>. QED  BY <1>1, <2>1, Measure
<1>14. ASSUME NEW v \in under[x] PROVE v = m \/ Before(side, t.node[m].key, t.node[v].key)
  <2>0. /\ m \in N /\ m \in under[m] /\ v \in N /\ t.node[m].key \in Int /\ t.node[v].key \in Int
    BY <1>2, <1>12 DEF Good
  <2>1. CASE v \notin under[m]
    BY <1>12, <2>0, <2>1 DEF Good
  <2>2. CASE v \in under[m] /\ v # m
    <3>1. v \in under[t.node[m][Other(side)]]
      <4>1. under[m] = {m} \union under[t.node[m][side]] \union under[t.node[m][Other(side)]]
        BY <2>0, Children
      <4>2. under[t.node[m][side]] = {}
        BY <1>13 DEF Shape, Unders
      <4>. QED  BY <2>2, <4>1, <4>2
    <3>2. Before(Other(side), t.node[v].key, t.node[m].key)
      BY <2>0, <3>1, Keys, Sides
    <3>. QED  BY <2>0, <3>2, Befores
  <2>. QED  BY <2>1, <2>2
<1>. QED  BY <1>12, <1>13, <1>14 DEF Good

-----------------------------------------------------------------------------
(* __remove_c_rb. *)

(* Trees that differ in what the nodes hold, and outside N.                *)
Alike(t, w, N) ==
    /\ w \in Trees /\ w.root = t.root
    /\ \A z \in N \union {Sentinel} : w.node[z].red = t.node[z].red
    /\ \A z \in N : /\ w.node[z].parent = t.node[z].parent
                    /\ \A s \in Side : w.node[z][s] = t.node[z][s]

LEMMA AlikeShape ==
    ASSUME NEW t, NEW N, NEW under, Shape(t, N, under), NEW w, Alike(t, w, N), Ordered(w, N, under)
    PROVE  /\ Shape(w, N, under)
           /\ \A above, below : Reds(t, N, above, below) => Reds(w, N, above, below)
           /\ w.node[w.root].red = t.node[t.root].red
<1>1. \A z \in N, s \in Side : /\ t.node[z][s] \in N \union {Sentinel}
                               /\ t.node[z][s] # Sentinel => t.node[t.node[z][s]].parent = z
  BY DEF Shape, Links
<1>2. /\ t.root \in N \union {Sentinel} /\ N \subseteq Place /\ ~t.node[Sentinel].red
      /\ (t.root # Sentinel => t.node[t.root].parent = Null)
      /\ \A z \in N : z # t.root => t.node[z].parent \in N /\ \E s \in Side : t.node[t.node[z].parent][s] = z
  BY DEF Shape, Links
<1>3. Links(w, N)
  <2>1. N \subseteq Place /\ w.root \in N \union {Sentinel} /\ ~w.node[Sentinel].red
        /\ (w.root # Sentinel => w.node[w.root].parent = Null)
    BY <1>2 DEF Alike
  <2>2. ASSUME NEW z \in N, NEW s \in Side
        PROVE  /\ w.node[z][s] \in N \union {Sentinel}
               /\ w.node[z][s] # Sentinel => w.node[w.node[z][s]].parent = z
    BY <1>1 DEF Alike
  <2>3. ASSUME NEW z \in N, z # w.root
        PROVE  w.node[z].parent \in N /\ \E s \in Side : w.node[w.node[z].parent][s] = z
    <3>1. PICK s \in Side : t.node[z].parent \in N /\ t.node[t.node[z].parent][s] = z
      BY <1>2, <2>3 DEF Alike
    <3>. QED  BY <3>1 DEF Alike
  <2>. QED  BY <2>1, <2>2, <2>3 DEF Links
<1>4. Unders(w, N, under)
  <2>1. \A x \in N : w.node[x].left = t.node[x].left /\ w.node[x].right = t.node[x].right
    BY DEF Alike, Side
  <2>2. w.root = t.root
    BY DEF Alike
  <2>. QED  BY <2>1, <2>2 DEF Shape, Unders
<1>5. ASSUME NEW above, NEW below, Reds(t, N, above, below) PROVE Reds(w, N, above, below)
  BY <1>1, <1>5 DEF Reds, Alike
<1>6. w.node[w.root].red = t.node[t.root].red
  BY <1>2 DEF Alike
<1>. QED  BY <1>3, <1>4, <1>5, <1>6 DEF Shape, Alike

LEMMA AlikeBalanced ==
    ASSUME NEW t, NEW N, NEW under, Shape(t, N, under), NEW w, Alike(t, w, N), NEW black,
           NEW short, Balanced(t, N, black, short),
           short = Null \/ w.node[short].parent = t.node[short].parent
    PROVE  Balanced(w, N, black, short)
<1>1. \A y \in N, s \in Side : t.node[y][s] \in N \union {Sentinel} /\ t.node[y][s] # Null
  BY DEF Shape, Links, Place, Sentinel, Null
<1>2. ASSUME NEW y \in N, NEW s \in Side
      PROVE  /\ w.node[y][s] = t.node[y][s] /\ w.node[y].red = t.node[y].red
             /\ Missing(w, short, y, s) = Missing(t, short, y, s)
  <2>1. w.node[y][s] = t.node[y][s] /\ w.node[y].red = t.node[y].red
    BY DEF Alike
  <2>2. CASE short = Null
    BY <1>1, <2>1, <2>2 DEF Missing
  <2>3. CASE short # Null
    BY <2>1, <2>3 DEF Missing
  <2>. QED  BY <2>1, <2>2, <2>3
<1>. QED  BY <1>2 DEF Balanced

LEMMA AlikeRedBlack ==
    ASSUME NEW t, NEW N, NEW under, NEW black, RedBlack(t, N, under, black),
           NEW w, Alike(t, w, N), Ordered(w, N, under)
    PROVE  RedBlack(w, N, under, black)
<1>1. Shape(t, N, under) /\ Balanced(t, N, black, Null) /\ Reds(t, N, {}, {}) /\ ~t.node[t.root].red
  BY DEF RedBlack
<1>. QED  BY <1>1, AlikeShape, AlikeBalanced DEF RedBlack

LEMMA AlikeRemove ==
    ASSUME NEW t, NEW N, NEW under, NEW black, NEW x, RemoveInv(t, N, under, black, x),
           NEW w, Alike(t, w, N), Ordered(w, N, under), w.node[x].parent = t.node[x].parent
    PROVE  RemoveInv(w, N, under, black, x)
<1>1. /\ Shape(t, N, under) /\ Balanced(t, N, black, x) /\ Reds(t, N, {x}, {x})
      /\ t.node[t.root].red => t.root = x
      /\ x \in N \union {Sentinel}
      /\ x # t.root =>
          /\ t.node[x].parent \in N
          /\ \E s \in Side : /\ t.node[t.node[x].parent][s] = x
                             /\ t.node[t.node[x].parent][Other(s)] # x
  BY DEF RemoveInv
<1>2. /\ Shape(w, N, under) /\ Balanced(w, N, black, x) /\ Reds(w, N, {x}, {x})
      /\ w.node[w.root].red => w.root = x
      /\ w.root = t.root
  <2>1. Shape(w, N, under) /\ Reds(w, N, {x}, {x}) /\ w.node[w.root].red = t.node[t.root].red
    BY <1>1, AlikeShape
  <2>2. Balanced(w, N, black, x)
    BY <1>1, AlikeBalanced
  <2>. QED  BY <1>1, <2>1, <2>2 DEF Alike
<1>3. ASSUME x # w.root
      PROVE  /\ w.node[x].parent \in N
             /\ \E s \in Side : /\ w.node[w.node[x].parent][s] = x
                                /\ w.node[w.node[x].parent][Other(s)] # x
  <2>1. PICK s \in Side : /\ t.node[x].parent \in N
                          /\ t.node[t.node[x].parent][s] = x
                          /\ t.node[t.node[x].parent][Other(s)] # x
    BY <1>1, <1>2, <1>3
  <2>2. Other(s) \in Side
    BY Sides
  <2>. QED  BY <2>1, <2>2 DEF Alike
<1>. QED  BY <1>1, <1>2, <1>3 DEF RemoveInv

(* The node that goes, and the one that takes its place. *)
Goes(t, z) == IF Sentinel \in {t.node[z].left, t.node[z].right} THEN z
              ELSE Outermost(t, t.node[z].right, "left")

Comes(t, y) == IF t.node[y].left # Sentinel THEN t.node[y].left ELSE t.node[y].right

LEMMA NodeThatGoes ==
    ASSUME NEW t, NEW N, NEW under, Shape(t, N, under), NEW z \in N
    PROVE  LET y == Goes(t, z)
           IN  /\ y \in N
               /\ \E s \in Side : t.node[y][s] = Sentinel /\ Comes(t, y) = t.node[y][Other(s)]
               /\ y # z => /\ y \in under[t.node[z]["right"]]
                           /\ \A v \in under[t.node[z]["right"]] \ {y} : t.node[y].key < t.node[v].key
<1>. DEFINE y == Goes(t, z)
            r == t.node[z]["right"]
<1>1. y = z \/ (y # z /\ r \in N /\ y = Outermost(t, r, "left"))
  <2>1. r \in N \union {Sentinel}
    BY DEF Shape, Links, Side
  <2>. QED  BY <2>1 DEF Goes
<1>. HIDE DEF y
<1>2. "left" \in Side /\ "right" \in Side /\ Other("left") = "right" /\ Other("right") = "left"
  BY DEF Side, Other
<1>3. CASE y = z
  <2>1. Sentinel \in {t.node[z].left, t.node[z].right}
    <3>1. CASE Sentinel \notin {t.node[z].left, t.node[z].right}
      <4>1. y = Outermost(t, r, "left") /\ r \in N
        BY <3>1 DEF y, Goes, Shape, Links, Side
      <4>2. y \in under[r] /\ z \notin under[r]
        BY <1>2, <4>1, OutermostNode, Children
      <4>. QED  BY <1>3, <4>2
    <3>. QED  BY <3>1
  <2>2. \E s \in Side : t.node[z][s] = Sentinel /\ Comes(t, z) = t.node[z][Other(s)]
    <3>1. CASE t.node[z].left = Sentinel
      BY <1>2, <3>1 DEF Comes
    <3>2. CASE t.node[z].left # Sentinel
      BY <1>2, <2>1, <3>2 DEF Comes
    <3>. QED  BY <3>1, <3>2
  <2>. QED  BY <1>3, <2>2 DEF y
<1>4. CASE y # z
  <2>1. y = Outermost(t, r, "left") /\ r \in N
    BY <1>1, <1>4
  <2>. HIDE DEF r
  <2>2. /\ y \in under[r] /\ y \in N /\ t.node[y]["left"] = Sentinel
        /\ \A v \in under[r] : v = y \/ Before("left", t.node[y].key, t.node[v].key)
    BY <1>2, <2>1, OutermostNode
  <2>3. Comes(t, y) = t.node[y][Other("left")]
    BY <1>2, <2>2 DEF Comes
  <2>4. \A v \in under[r] \ {y} : t.node[y].key < t.node[v].key
    BY <2>2 DEF Before
  <2>. QED  BY <1>2, <2>2, <2>3, <2>4 DEF y, r
<1>. QED  BY <1>3, <1>4

LEMMA TakingEffect ==
    ASSUME NEW t \in Trees, NEW z \in Spot, NEW y \in Spot
    PROVE  LET w == Taking(t, z, y)
           IN  /\ w \in Trees /\ w.root = t.root /\ w.used = t.used
               /\ Same(t, w, {"left", "right", "parent", "red"})
               /\ \A q \in Spot : /\ w.node[q].key = t.node[IF q = z THEN y ELSE q].key
                                  /\ w.node[q].value = t.node[IF q = z THEN y ELSE q].value
<1>. DEFINE w == Taking(t, z, y)
            u == [t EXCEPT !.node[z].key = t.node[y].key]
<1>1. t.node[y].key \in Int /\ t.node[y].value \in Value
  BY DEF Trees, NodeType
<1>2. w \in Trees /\ w.root = t.root /\ w.used = t.used
  <2>1. u \in Trees /\ u.root = t.root /\ u.used = t.used
    BY <1>1, SMTT(60) DEF Trees, NodeType
  <2>2. w = [u EXCEPT !.node[z].value = t.node[y].value]
    BY DEF Taking
  <2>. DEFINE b == t.node[y].value
  <2>3. w = [u EXCEPT !.node[z].value = b] /\ b \in Value
    BY <1>1, <2>2
  <2>. HIDE DEF u, w, b
  <2>4. w.root = u.root /\ w.used = u.used
    BY <2>1, <2>3 DEF Trees
  <2>5. ASSUME NEW r \in NodeType PROVE [r EXCEPT !.value = b] \in NodeType
    <3>. HIDE DEF Value
    <3>1. b \in Value
      BY <2>3
    <3>. QED  BY <3>1 DEF NodeType
  <2>6. w.node \in [Spot -> NodeType]
    <3>1. u.node \in [Spot -> NodeType]
      BY <2>1 DEF Trees
    <3>2. w.node = [u.node EXCEPT ![z] = [u.node[z] EXCEPT !.value = b]]
      BY <2>1, <2>3 DEF Trees
    <3>3. [u.node[z] EXCEPT !.value = b] \in NodeType
      BY <2>5, <3>1
    <3>. QED  BY <3>1, <3>2, <3>3
  <2>7. w = [root |-> w.root, used |-> w.used, node |-> w.node]
    BY <2>1, <2>3 DEF Trees
  <2>. QED  BY <2>1, <2>4, <2>6, <2>7 DEF Trees
<1>3. Same(t, w, {"left", "right", "parent", "red"})
  BY DEF Trees, NodeType, Taking, Same
<1>4. \A q \in Spot : /\ w.node[q].key = t.node[IF q = z THEN y ELSE q].key
                      /\ w.node[q].value = t.node[IF q = z THEN y ELSE q].value
  BY DEF Trees, NodeType, Taking
<1>. QED  BY <1>2, <1>3, <1>4

(* The tree without the node, cleaned up.                                  *)
Cleaned(t, y) ==
    [t EXCEPT !.used = @ \ {y}, !.node[y] = Blank, !.node[Sentinel].parent = Null]

Spare(t, N, y) == y \in Place /\ y \notin N /\ t.used = N \union {y}

Kept(t, w, N) == \A q \in N : w.node[q].key = t.node[q].key /\ w.node[q].value = t.node[q].value

LEMMA CleanedUp ==
    ASSUME NEW t, NEW N, NEW under, NEW black, NEW y, RedBlack(t, N, under, black),
           Spare(t, N, y)
    PROVE  LET w == Cleaned(t, y)
           IN  w.used = N /\ RedBlack(w, N, under, black) /\ Kept(t, w, N)
<1>. DEFINE v == [t EXCEPT !.used = @ \ {y}]
            u == [v EXCEPT !.node[y] = Blank]
            w == [u EXCEPT !.node[Sentinel].parent = Null]
<1>1. w = Cleaned(t, y)
  BY DEF Cleaned
<1>2. t \in Trees /\ N \subseteq Place
  BY DEF RedBlack, Shape, Links
<1>3. v \in Trees /\ v.root = t.root /\ v.used = N /\ v.node = t.node
  BY <1>2 DEF Trees, Spare
<1>4. Sentinel \notin Place /\ y # Sentinel /\ y \in Spot /\ Sentinel \in Spot /\ Null \in Spot \union {Null}
  BY DEF Place, Sentinel, Spot, Spare
<1>5. Blank \in NodeType
  <2>1. Null \in Int
    BY DEF Null
  <2>2. Null \in Value
    BY DEF Value
  <2>. HIDE DEF Value
  <2>. QED  BY <1>4, <2>1, <2>2 DEF Blank, NodeType
<1>. HIDE DEF v, Blank
<1>6. u \in Trees /\ u.root = t.root /\ u.used = N /\ \A q \in Spot : u.node[q] = IF q = y THEN Blank ELSE t.node[q]
  BY <1>3, <1>4, <1>5 DEF Trees
<1>. HIDE DEF u
<1>7. w \in Trees /\ w.root = t.root /\ w.used = N
  <2>1. /\ w = [root |-> w.root, used |-> w.used, node |-> w.node]
        /\ w.root = u.root /\ w.used = u.used
        /\ w.node = [u.node EXCEPT ![Sentinel] = [u.node[Sentinel] EXCEPT !.parent = Null]]
    BY <1>4, <1>6 DEF Trees
  <2>2. ASSUME NEW r \in NodeType PROVE [r EXCEPT !.parent = Null] \in NodeType
    BY DEF NodeType
  <2>3. u.node \in [Spot -> NodeType] /\ u.node[Sentinel] \in NodeType
    BY <1>4, <1>6 DEF Trees
  <2>4. [u.node EXCEPT ![Sentinel] = [@ EXCEPT !.parent = Null]] \in [Spot -> NodeType]
    BY <1>4, <2>2, <2>3
  <2>. QED  BY <1>6, <2>1, <2>4 DEF Trees
<1>8. /\ \A q \in Spot \ {Sentinel} : w.node[q] = u.node[q]
      /\ w.node[Sentinel].red = u.node[Sentinel].red
  BY <1>4, <1>6 DEF Trees, NodeType
<1>9. Alike(t, w, N) /\ \A q \in N : w.node[q] = t.node[q]
  <2>. HIDE DEF w
  <2>1. \A q \in N : q \in Spot \ {Sentinel} /\ q # y
    BY <1>2, <1>4 DEF Spot, Spare
  <2>2. \A q \in N : w.node[q] = t.node[q]
    BY <1>6, <1>8, <2>1
  <2>3. w.node[Sentinel].red = t.node[Sentinel].red
    BY <1>4, <1>6, <1>8
  <2>. QED  BY <1>7, <2>2, <2>3 DEF Alike
<1>. HIDE DEF w
<1>10. Ordered(w, N, under)
  <2>1. Ordered(t, N, under) /\ \A q \in N, s \in Side : under[t.node[q][s]] \subseteq N
    <3>1. under \in [Spot -> SUBSET N] /\ Ordered(t, N, under)
      BY DEF RedBlack, Shape, Unders
    <3>2. \A q \in N, s \in Side : t.node[q][s] \in Spot
      BY <1>2 DEF Trees, NodeType, Side, Spot
    <3>. QED  BY <3>1, <3>2
  <2>2. \A q \in N, s \in Side : w.node[q][s] = t.node[q][s]
    BY <1>9
  <2>. QED  BY <1>9, <2>1, <2>2 DEF Ordered
<1>11. RedBlack(w, N, under, black)
  BY <1>9, <1>10, AlikeRedBlack
<1>. QED  BY <1>1, <1>7, <1>9, <1>11 DEF Kept

(* remove_c_map: the tree of the nodes without the one that goes, and the  *)
(* key and the value of that one are now where the removed key was.        *)
LEMMA RemovedTree ==
    ASSUME NEW t, NEW under, NEW black, RedBlack(t, t.used, under, black), NEW z \in t.used
    PROVE  LET y == Goes(t, z)
               w == Removed(t, z)
           IN  /\ y \in t.used /\ w.used = t.used \ {y}
               /\ \E above, count : RedBlack(w, w.used, above, count)
               /\ \A q \in w.used : /\ w.node[q].key = t.node[IF q = z THEN y ELSE q].key
                                    /\ w.node[q].value = t.node[IF q = z THEN y ELSE q].value
<1>. DEFINE N == t.used
            y == Goes(t, z)
            M == N \ {y}
            L == Less(under, y)
            x == Comes(t, y)
            p == t.node[y].parent
            out == Hang([t EXCEPT !.node[x].parent = p], p, y, x)
            moved == Taking(out, z, y)
            fixed == IF t.node[y].red THEN moved ELSE RemoveFixup(moved, x)
            w == Cleaned(fixed, y)
<1>0. Removed(t, z) = w
  BY DEF Removed, Goes, Comes, Cleaned
<1>1. Shape(t, N, under) /\ N \subseteq Place /\ N \subseteq Spot /\ t \in Trees /\ Side \subseteq DOMAIN Blank
  BY DEF RedBlack, Shape, Links, Spot, Blank, Side
<1>2. /\ y \in N
      /\ \E s \in Side : t.node[y][s] = Sentinel /\ x = t.node[y][Other(s)]
      /\ y # z => /\ y \in under[t.node[z]["right"]]
                  /\ \A v \in under[t.node[z]["right"]] \ {y} : t.node[y].key < t.node[v].key
  BY <1>1, NodeThatGoes
<1>. HIDE DEF y, x
<1>3. x \in Spot
  BY <1>1, <1>2, Sides, SMTT(60) DEF Trees, NodeType, Side
<1>4. /\ Without(t, out, N, y, x) /\ SameData(t, out)
      /\ \A q \in Spot : out.node[q].red = t.node[q].red
      /\ out.node[x].parent = p
  <2>1. Shape(t, N, under) /\ y \in N /\ x \in Spot
    BY <1>1, <1>2, <1>3
  <2>. HIDE DEF N
  <2>2. TakenFrom(t, out, N, y, x, p)  BY <2>1, TakenOut
  <2>. QED  BY <2>2 DEF TakenFrom
<1>. HIDE DEF out
<1>5. /\ t.node[y].red => RedBlack(out, M, L, black)
      /\ ~t.node[y].red => RemoveInv(out, M, L, black, x)
  BY <1>2, <1>4, OutColours
<1>6. /\ Shape(out, M, L)
      /\ \A q \in M, s \in Side : L[out.node[q][s]] = under[t.node[q][s]] \ {y}
  <2>1. PICK s \in Side : t.node[y][s] = Sentinel /\ x = t.node[y][Other(s)]
    BY <1>2
  <2>2. Shape(t, N, under) /\ y \in N /\ Without(t, out, N, y, t.node[y][Other(s)])
    BY <1>1, <1>2, <1>4, <2>1
  <2>. HIDE DEF N
  <2>. QED  BY <2>1, <2>2, Spliced, SMTT(60)
<1>7. /\ moved \in Trees /\ moved.root = out.root /\ moved.used = N
      /\ Same(out, moved, {"left", "right", "parent", "red"})
      /\ \A q \in Spot : /\ moved.node[q].key = t.node[IF q = z THEN y ELSE q].key
                         /\ moved.node[q].value = t.node[IF q = z THEN y ELSE q].value
  <2>1. out \in Trees /\ z \in Spot /\ y \in Spot
    BY <1>1, <1>2, <1>4 DEF Without
  <2>2. /\ moved \in Trees /\ moved.root = out.root /\ moved.used = out.used
        /\ Same(out, moved, {"left", "right", "parent", "red"})
        /\ \A q \in Spot : /\ moved.node[q].key = out.node[IF q = z THEN y ELSE q].key
                           /\ moved.node[q].value = out.node[IF q = z THEN y ELSE q].value
    BY <2>1, TakingEffect
  <2>3. \A q \in Spot : out.node[q].key = t.node[q].key /\ out.node[q].value = t.node[q].value
    BY <1>4 DEF SameData, Same
  <2>4. out.used = N
    BY <1>4 DEF SameData
  <2>. QED  BY <2>1, <2>2, <2>3, <2>4
<1>. HIDE DEF moved
<1>8. Alike(out, moved, M) /\ moved.node[x].parent = out.node[x].parent
  <2>1. M \subseteq Spot /\ Sentinel \in Spot
    BY <1>1 DEF Spot
  <2>. QED  BY <1>3, <1>7, <2>1 DEF Alike, Same, Side
<1>9. Ordered(moved, M, L)
  <2>1. SUFFICES ASSUME NEW q \in M, NEW s \in Side, NEW v \in L[moved.node[q][s]]
                 PROVE  Before(s, moved.node[v].key, moved.node[q].key)
    BY DEF Ordered
  <2>. DEFINE c == t.node[q][s]
  <2>2. v \in under[c] /\ v # y
    BY <1>6, <1>8 DEF Alike
  <2>3. v \in N /\ Before(s, t.node[v].key, t.node[q].key)
    BY <1>1, <2>2, Keys
  <2>4. v \in Spot /\ q \in Spot
    BY <1>1, <2>3
  <2>5. CASE y = z \/ (v # z /\ q # z)
    BY <1>7, <2>2, <2>3, <2>4, <2>5
  <2>6. CASE y # z /\ v = z
    <3>1. c \in N /\ q \notin under[c]
      <4>1. c \in N \union {Sentinel} /\ q \notin under[c]
        BY <1>1, Children
      <4>. QED  BY <1>1, <2>2, <4>1 DEF Shape, Unders
    <3>2. q # z /\ under[z] \subseteq under[c]
      BY <1>1, <2>2, <2>6, <3>1, UpClosed
    <3>3. y \in under[z]
      <4>1. "right" \in Side
        BY DEF Side
      <4>. QED  BY <1>1, <1>2, <2>6, <4>1, Children
    <3>4. Before(s, t.node[y].key, t.node[q].key)
      BY <1>1, <3>2, <3>3, Keys
    <3>. QED  BY <1>7, <2>4, <2>6, <3>2, <3>4
  <2>7. CASE y # z /\ q = z
    <3>1. v # z
      BY <1>1, <2>2, <2>7, Children
    <3>2. t.node[v].key \in Int /\ t.node[y].key \in Int /\ t.node[z].key \in Int
      BY <1>1, <1>2, <2>3, Keys
    <3>3. Before(s, t.node[v].key, t.node[y].key)
      <4>1. CASE s = "left"
        <5>1. Before("right", t.node[y].key, t.node[z].key)
          <6>1. "right" \in Side
            BY DEF Side
          <6>. QED  BY <1>1, <1>2, <2>7, <6>1, Keys
        <5>. QED  BY <2>3, <2>7, <3>2, <4>1, <5>1 DEF Before
      <4>2. CASE s = "right"
        BY <1>2, <2>2, <2>7, <4>2 DEF Before
      <4>. QED  BY <4>1, <4>2 DEF Side
    <3>. QED  BY <1>7, <2>4, <2>7, <3>1, <3>3
  <2>. QED  BY <2>5, <2>6, <2>7
<1>10. SameData(moved, fixed) /\ \E above, count : RedBlack(fixed, M, above, count)
  <2>1. CASE t.node[y].red
    <3>1. RedBlack(moved, M, L, black)
      BY <1>5, <1>8, <1>9, <2>1, AlikeRedBlack
    <3>. QED  BY <2>1, <3>1 DEF SameData, Same
  <2>2. CASE ~t.node[y].red
    <3>1. RemoveInv(moved, M, L, black, x)
      BY <1>5, <1>8, <1>9, <2>2, AlikeRemove
    <3>. HIDE DEF M, L
    <3>2. SameData(moved, RemoveFixup(moved, x)) /\ \E above, count : RedBlack(RemoveFixup(moved, x), M, above, count)
      BY <3>1, RemoveFixed
    <3>. QED  BY <2>2, <3>2
  <2>. QED  BY <2>1, <2>2
<1>. HIDE DEF fixed
<1>11. PICK above, count : RedBlack(fixed, M, above, count)
  BY <1>10
<1>12. w.used = M /\ RedBlack(w, M, above, count) /\ Kept(fixed, w, M)
  <2>1. Spare(fixed, M, y)
    BY <1>1, <1>2, <1>7, <1>10 DEF SameData, Spare
  <2>2. RedBlack(fixed, M, above, count)
    BY <1>11
  <2>. HIDE DEF M
  <2>. QED  BY <2>1, <2>2, CleanedUp
<1>. HIDE DEF w
<1>13. \A q \in M : /\ w.node[q].key = t.node[IF q = z THEN y ELSE q].key
                    /\ w.node[q].value = t.node[IF q = z THEN y ELSE q].value
  BY <1>1, <1>7, <1>10, <1>12 DEF SameData, Same, Kept
<1>. QED  BY <1>0, <1>2, <1>12, <1>13 DEF y

-----------------------------------------------------------------------------
(* The way down to a key. *)

Toward(t, key, x) == IF key < t.node[x].key THEN "left" ELSE "right"

(* No node elsewhere has the key, and it fits where at is.                 *)
OnWay(t, N, under, key, at, above) ==
    /\ at \in N \union {Sentinel}
    /\ \/ above = Null /\ at = t.root
       \/ /\ above \in N /\ t.node[above][Toward(t, key, above)] = at
          /\ t.node[above].key # key
    /\ \A v \in N \ under[at] : t.node[v].key # key
    /\ \A v \in N, s \in Side : above \in under[t.node[v][s]] => Before(s, key, t.node[v].key)

LEMMA TowardBefore ==
    ASSUME NEW t, NEW x, t.node[x].key \in Int, NEW key \in Int, t.node[x].key # key
    PROVE  Toward(t, key, x) \in Side /\ Before(Toward(t, key, x), key, t.node[x].key)
  BY DEF Toward, Side, Before

LEMMA WayStep ==
    ASSUME NEW t, NEW N, NEW under, Shape(t, N, under), NEW key \in Int, NEW at \in N, NEW above,
           OnWay(t, N, under, key, at, above), t.node[at].key # key
    PROVE  OnWay(t, N, under, key, t.node[at][Toward(t, key, at)], at)
<1>. DEFINE s == Toward(t, key, at)
            c == t.node[at][s]
            d == t.node[at][Other(s)]
<1>1. s \in Side /\ Other(s) \in Side /\ Before(s, key, t.node[at].key)
  BY TowardBefore, Keys, Sides
<1>. HIDE DEF s
<1>2. /\ \A y \in N : t.node[y].key \in Int /\ y \in under[y]
      /\ c \in N \union {Sentinel} /\ under[at] = {at} \union under[c] \union under[d]
      /\ at \notin under[c]
  BY <1>1, Keys, Children
<1>3. ASSUME NEW v \in N \ under[c] PROVE t.node[v].key # key
  <2>1. CASE v \notin under[at]
    BY <2>1 DEF OnWay
  <2>2. CASE v = at
    BY <2>2
  <2>3. CASE v \in under[d]
    <3>1. Before(Other(s), t.node[v].key, t.node[at].key)
      BY <1>1, <2>3, Keys
    <3>. QED  BY <1>1, <1>2, <3>1, Befores
  <2>. QED  BY <1>2, <2>1, <2>2, <2>3
<1>4. ASSUME NEW v \in N, NEW r \in Side, at \in under[t.node[v][r]]
      PROVE  Before(r, key, t.node[v].key)
  <2>. DEFINE e == t.node[v][r]
  <2>1. e \in N \union {Sentinel} /\ v \notin under[e] /\ under[t.node[v][r]] \intersect under[t.node[v][Other(r)]] = {}
    BY Children
  <2>2. e \in N /\ under[e] \subseteq N
    <3>1. under \in [Spot -> SUBSET N] /\ under[Sentinel] = {} /\ N \subseteq Spot
      BY DEF Shape, Unders, Links, Spot
    <3>. QED  BY <1>4, <2>1, <3>1
  <2>3. under[at] \subseteq under[e] /\ (at # e => t.node[at].parent \in under[e])
    BY <1>4, <2>2, UpClosed
  <2>4. CASE above = Null /\ at = t.root
    BY <2>1, <2>3, <2>4 DEF Shape, Unders
  <2>5. CASE above \in N /\ t.node[above][Toward(t, key, above)] = at /\ t.node[above].key # key
    <3>1. Toward(t, key, above) \in Side /\ Before(Toward(t, key, above), key, t.node[above].key)
      BY <1>2, <2>5, TowardBefore
    <3>2. at # Sentinel /\ t.node[at].parent = above
      <4>1. at # Sentinel
        BY <1>4, <1>2 DEF Shape, Unders, Links, Place, Sentinel
      <4>. QED  BY <2>5, <3>1, <4>1 DEF Shape, Links
    <3>3. CASE v = above
      <4>1. r = Toward(t, key, above)
        <5>1. r # Toward(t, key, above) => Toward(t, key, above) = Other(r)
          BY <3>1 DEF Side, Other
        <5>2. at \in under[at]
          BY <1>2
        <5>. QED  BY <1>4, <2>1, <2>5, <3>3, <5>1, <5>2
      <4>. QED  BY <3>1, <3>3, <4>1
    <3>4. CASE v # above
      <4>1. at # e
        <5>1. e # Sentinel => t.node[e].parent = v
          BY DEF Shape, Links
        <5>2. e # Sentinel
          BY <1>4 DEF Shape, Unders
        <5>. QED  BY <3>2, <3>4, <5>1, <5>2
      <4>. QED  BY <2>3, <3>2, <4>1 DEF OnWay
    <3>. QED  BY <3>3, <3>4
  <2>. QED  BY <2>4, <2>5 DEF OnWay
<1>. QED  BY <1>1, <1>2, <1>3, <1>4 DEF OnWay, s

LEMMA WayEnds ==
    ASSUME NEW t, NEW N, NEW under, Shape(t, N, under), NEW key \in Int
    PROVE  LET way == WayTo(t, key)
           IN  /\ OnWay(t, N, under, key, way.at, way.above)
               /\ way.at = Sentinel \/ t.node[way.at].key = key
<1>. DEFINE X == [at : Spot, above : Spot \union {Null}]
            Turn(way) ==
                IF way.at = Sentinel \/ t.node[way.at].key = key THEN way
                ELSE [at    |-> t.node[way.at][IF key < t.node[way.at].key THEN "left" ELSE "right"],
                      above |-> way.at]
            Good(way, k) ==
                /\ OnWay(t, N, under, key, way.at, way.above)
                /\ \/ way.at = Sentinel \/ t.node[way.at].key = key
                   \/ Cardinality(under[way.at]) <= Memory - k
            T == [k \in 0 .. Memory |-> {way \in X : Good(way, k)}]
            start == [at |-> t.root, above |-> Null]
            step == [way \in X |-> Turn(way)]
            after == CHOOSE f : f = [k \in 0 .. Memory |-> IF k = 0 THEN start ELSE Turn(f[k - 1])]
<1>1. /\ Memory \in Nat /\ N \subseteq Spot /\ N \union {Sentinel} \subseteq Spot /\ t.root \in N \union {Sentinel}
      /\ Null \notin N /\ under[t.root] = N /\ under \in [Spot -> SUBSET N] /\ under[Sentinel] = {}
  <2>1. Memory \in Nat /\ N \subseteq Place /\ t.root \in N \union {Sentinel}
    BY TreeAssumption DEF Shape, Links
  <2>2. under[t.root] = N /\ under \in [Spot -> SUBSET N] /\ under[Sentinel] = {}
    BY DEF Shape, Unders
  <2>3. Null \notin Place
    BY DEF Null, Place
  <2>. QED  BY <2>1, <2>2, <2>3 DEF Spot
<1>2. \A v \in N, s \in Side : Null \notin under[t.node[v][s]]
  <2>1. \A v \in N, s \in Side : t.node[v][s] \in Spot
    BY <1>1 DEF Shape, Links
  <2>. QED  BY <1>1, <2>1
<1>3. start \in T[0]
  <2>1. OnWay(t, N, under, key, t.root, Null)
    BY <1>1, <1>2 DEF OnWay
  <2>2. t.root # Sentinel => Cardinality(under[t.root]) <= Memory - 0
    BY <1>1, Measure
  <2>3. start \in X /\ Good(start, 0)
    BY <1>1, <2>1, <2>2
  <2>. HIDE DEF Good, X, start
  <2>. QED  BY <1>1, <2>3
<1>4. ASSUME NEW k \in 1 .. Memory, NEW s \in T[k - 1]
      PROVE  s \in X /\ Turn(s) \in T[k]
  <2>1. s \in X /\ Good(s, k - 1) /\ k \in 0 .. Memory
    BY <1>1
  <2>2. CASE s.at = Sentinel \/ t.node[s.at].key = key
    <3>1. Turn(s) = s /\ Good(s, k)
      BY <2>1, <2>2
    <3>. HIDE DEF Turn, Good
    <3>. QED  BY <2>1, <3>1
  <2>3. CASE ~(s.at = Sentinel \/ t.node[s.at].key = key)
    <3>. DEFINE at == s.at
                c == t.node[at][Toward(t, key, at)]
                next == [at |-> c, above |-> at]
    <3>1. Turn(s) = next
      BY <2>3 DEF Toward
    <3>2. at \in N /\ t.node[at].key # key /\ OnWay(t, N, under, key, at, s.above)
      BY <2>1, <2>3 DEF OnWay
    <3>. HIDE DEF at, Turn
    <3>3. OnWay(t, N, under, key, c, at)
      BY <3>2, WayStep
    <3>4. Cardinality(under[c]) <= Memory - k
      <4>0. Toward(t, key, at) \in Side
        BY DEF Toward, Side
      <4>1. /\ Cardinality(under[c]) \in 0 .. Memory /\ Cardinality(under[at]) \in 1 .. Memory
            /\ Cardinality(under[c]) < Cardinality(under[at])
        BY <3>2, <4>0, Measure
      <4>2. Cardinality(under[at]) <= Memory - (k - 1)
        BY <2>1, <2>3 DEF at
      <4>. QED  BY <1>1, <4>1, <4>2
    <3>5. c \in Spot /\ at \in Spot
      BY <1>1, <3>2, <3>3 DEF OnWay
    <3>. HIDE DEF c
    <3>6. next \in X /\ Good(next, k)
      BY <3>3, <3>4, <3>5
    <3>. HIDE DEF Good, next, X
    <3>. QED  BY <1>1, <2>1, <3>1, <3>6
  <2>. QED  BY <2>2, <2>3
<1>5. \A k \in 0 .. Memory : T[k] \subseteq X
  OBVIOUS
<1>. HIDE DEF X, Good, T, start, Turn
<1>6. \A k \in 1 .. Memory : \A s \in T[k - 1] : step[s] \in T[k] /\ step[s] = Turn(s)
  BY <1>4
<1>. HIDE DEF step
<1>7. PICK f \in [0 .. Memory -> X] :
         f[0] = start /\ \A k \in 1 .. Memory : f[k - 1] \in T[k - 1] /\ f[k] = step[f[k - 1]]
  <2>1. \A k \in 1 .. Memory : \A s \in T[k - 1] : step[s] \in T[k]
    BY <1>6
  <2>2. Looped(Memory, X, T, start, step)
    BY TreeAssumption, <1>3, <1>5, <2>1, LoopExists
  <2>. QED  BY <2>2 DEF Looped
<1>8. f = [k \in 0 .. Memory |-> IF k = 0 THEN start ELSE Turn(f[k - 1])]
  <2>1. \A k \in 0 .. Memory : f[k] = IF k = 0 THEN start ELSE Turn(f[k - 1])
    BY TreeAssumption, <1>6, <1>7
  <2>. QED  BY <1>7, <2>1
<1>9. after = [k \in 0 .. Memory |-> IF k = 0 THEN start ELSE Turn(after[k - 1])]
  BY <1>8
<1>10. WayTo(t, key) = after[Memory]
  BY DEF WayTo, Repeated, start, Turn
<1>. HIDE DEF after
<1>11. after[Memory] \in T[Memory]
  <2>1. after[0] = start /\ \A k \in 1 .. Memory : after[k] = Turn(after[k - 1])
    <3>. HIDE DEF start, Turn
    <3>. QED  BY TreeAssumption, <1>9
  <2>2. \A k \in 1 .. Memory : after[k - 1] \in T[k - 1] => after[k] \in T[k]
    BY <1>4, <2>1
  <2>. QED  BY TreeAssumption, <1>3, <2>1, <2>2, LoopStays
<1>. DEFINE way == after[Memory]
<1>12. Good(way, Memory) /\ WayTo(t, key) = way
  BY <1>1, <1>10, <1>11 DEF T
<1>. HIDE DEF way
<1>13. way.at = Sentinel \/ t.node[way.at].key = key
  <2>1. way.at \in N \union {Sentinel}
    BY <1>12 DEF Good, OnWay
  <2>2. SUFFICES ASSUME way.at \in N, Cardinality(under[way.at]) <= Memory - Memory PROVE FALSE
    BY <1>12, <2>1 DEF Good
  <2>3. Cardinality(under[way.at]) \in 1 .. Memory
    BY <2>2, Measure
  <2>. QED  BY <1>1, <2>2, <2>3
<1>. QED  BY <1>12, <1>13 DEF Good

(* find_c_rb: the node of the key, or the sentinel if there is none.       *)
LEMMA FindNode ==
    ASSUME NEW t, NEW N, NEW under, Shape(t, N, under), NEW key \in Int
    PROVE  LET z == Find(t, key)
           IN  /\ z \in N \union {Sentinel}
               /\ z # Sentinel => z \in N /\ t.node[z].key = key
               /\ z = Sentinel => \A v \in N : t.node[v].key # key
<1>. DEFINE way == WayTo(t, key)
<1>1. /\ OnWay(t, N, under, key, way.at, way.above)
      /\ way.at = Sentinel \/ t.node[way.at].key = key
  BY WayEnds
<1>. HIDE DEF way
<1>2. under[Sentinel] = {}
  BY DEF Shape, Unders
<1>3. Find(t, key) = way.at
  BY DEF Find, way
<1>. QED  BY <1>1, <1>2, <1>3 DEF OnWay

(* A red leaf more, where the way to its key ends.                         *)
WithLeaf(t, w, N, key, x, above) ==
    /\ w \in Trees /\ w.root = (IF above = Null THEN x ELSE t.root)
    /\ ~w.node[Sentinel].red
    /\ \A z \in N :
        /\ \A s \in Side : w.node[z][s] = IF z = above /\ s = Toward(t, key, above) THEN x
                                          ELSE t.node[z][s]
        /\ w.node[z].parent = t.node[z].parent /\ w.node[z].red = t.node[z].red
        /\ w.node[z].key = t.node[z].key
    /\ \A s \in Side : w.node[x][s] = Sentinel
    /\ w.node[x].parent = above /\ w.node[x].red /\ w.node[x].key = key

LEMMA Attached ==
    ASSUME NEW t, NEW N, NEW under, NEW black, RedBlack(t, N, under, black),
           NEW key \in Int, NEW x \in Place, x \notin N, NEW above,
           OnWay(t, N, under, key, Sentinel, above),
           NEW w, WithLeaf(t, w, N, key, x, above)
    PROVE  \E more, count : InsertInv(w, N \union {x}, more, count, x)
<1>. DEFINE M == N \union {x}
            more == [q \in Spot |-> IF q = x THEN {x}
                                    ELSE IF above \in under[q] THEN under[q] \union {x} ELSE under[q]]
            count == [black EXCEPT ![x] = 1]
            dir == Toward(t, key, above)
<1>1. /\ N \subseteq Place /\ N \subseteq Spot /\ x \in Spot /\ Sentinel \in Spot
      /\ Sentinel \notin M /\ Null \notin Spot /\ x # Sentinel
  BY DEF RedBlack, Shape, Links, Spot, Place, Sentinel, Null
<1>2. Shape(t, N, under) /\ under \in [Spot -> SUBSET N] /\ under[Sentinel] = {} /\ under[t.root] = N
  BY DEF RedBlack, Shape, Unders
<1>3. /\ \A z \in N, s \in Side : t.node[z][s] \in N \union {Sentinel} /\ t.node[z][s] # x
      /\ \A q \in Spot : x \notin under[q] /\ under[q] \subseteq N
  <2>1. \A z \in N, s \in Side : t.node[z][s] \in N \union {Sentinel}
    BY <1>2 DEF Shape, Links
  <2>. QED  BY <1>1, <1>2, <2>1
<1>4. \/ above = Null /\ N = {} /\ t.root = Sentinel
      \/ above \in N /\ dir \in Side /\ t.node[above][dir] = Sentinel
         /\ Before(dir, key, t.node[above].key)
  <2>1. CASE above = Null /\ Sentinel = t.root
    BY <1>2, <2>1
  <2>2. CASE above \in N /\ t.node[above][dir] = Sentinel /\ t.node[above].key # key
    BY <1>2, <2>2, TowardBefore, Keys
  <2>. QED  BY <2>1, <2>2 DEF OnWay
<1>. HIDE DEF dir
<1>5. /\ w \in Trees /\ w.root = (IF above = Null THEN x ELSE t.root) /\ ~w.node[Sentinel].red
      /\ \A z \in N, s \in Side : w.node[z][s] = IF z = above /\ s = dir THEN x ELSE t.node[z][s]
      /\ \A z \in N : /\ w.node[z].parent = t.node[z].parent /\ w.node[z].red = t.node[z].red
                      /\ w.node[z].key = t.node[z].key
      /\ \A s \in Side : w.node[x][s] = Sentinel
      /\ w.node[x].parent = above /\ w.node[x].red /\ w.node[x].key = key
  BY DEF WithLeaf, dir
<1>6. Links(w, M)
  <2>1. /\ t.root \in N \union {Sentinel}
        /\ t.root # Sentinel => t.node[t.root].parent = Null
        /\ \A z \in N, s \in Side : t.node[z][s] # Sentinel => t.node[t.node[z][s]].parent = z
        /\ \A z \in N : z # t.root => t.node[z].parent \in N /\ \E s \in Side : t.node[t.node[z].parent][s] = z
    BY <1>2 DEF Shape, Links
  <2>2. w.root \in M \union {Sentinel} /\ (w.root # Sentinel => w.node[w.root].parent = Null)
    BY <1>1, <1>4, <1>5, <2>1
  <2>3. ASSUME NEW z \in M, NEW s \in Side
        PROVE  /\ w.node[z][s] \in M \union {Sentinel}
               /\ w.node[z][s] # Sentinel => w.node[w.node[z][s]].parent = z
    BY <1>3, <1>5, <2>1
  <2>4. ASSUME NEW z \in M, z # w.root
        PROVE  w.node[z].parent \in M /\ \E s \in Side : w.node[w.node[z].parent][s] = z
    <3>1. CASE z = x
      BY <1>1, <1>4, <1>5, <2>4, <3>1
    <3>2. CASE z \in N
      <4>1. z # t.root /\ z # Sentinel
        BY <1>1, <1>4, <1>5, <2>4, <3>2
      <4>2. PICK s \in Side : t.node[z].parent \in N /\ t.node[t.node[z].parent][s] = z
        BY <2>1, <3>2, <4>1
      <4>3. w.node[t.node[z].parent][s] = z
        BY <1>4, <1>5, <4>1, <4>2
      <4>. QED  BY <1>5, <3>2, <4>2, <4>3
    <3>. QED  BY <3>1, <3>2
  <2>. QED  BY <1>1, <1>5, <2>2, <2>3, <2>4 DEF Links
<1>7. more[x] = {x} /\ more[Sentinel] = {} /\ more[w.root] = M /\ more \in [Spot -> SUBSET M]
  <2>1. more[x] = {x} /\ more[Sentinel] = {}
    BY <1>1, <1>2
  <2>2. more \in [Spot -> SUBSET M]
    BY <1>3
  <2>3. more[w.root] = M
    <3>1. CASE above = Null /\ N = {}
      BY <1>1, <1>5, <3>1
    <3>2. CASE above \in N
      <4>1. w.root = t.root /\ t.root \in N /\ t.root # x
        BY <1>1, <1>2, <1>5, <3>2 DEF Shape, Links
      <4>. QED  BY <1>1, <1>2, <3>2, <4>1
    <3>. QED  BY <1>4, <3>1, <3>2
  <2>. QED  BY <2>1, <2>2, <2>3
<1>8. ASSUME NEW z \in N, NEW s \in Side
      PROVE  \/ z = above /\ s = dir /\ w.node[z][s] = x /\ more[w.node[z][s]] = {x}
                /\ under[t.node[z][s]] = {}
             \/ /\ ~(z = above /\ s = dir) /\ w.node[z][s] = t.node[z][s]
                /\ more[w.node[z][s]] = IF above \in under[t.node[z][s]]
                                        THEN under[t.node[z][s]] \union {x} ELSE under[t.node[z][s]]
  <2>1. t.node[z][s] \in Spot /\ t.node[z][s] # x
    BY <1>1, <1>3
  <2>2. CASE z = above /\ s = dir
    <3>1. w.node[z][s] = x
      BY <1>5, <2>2
    <3>2. t.node[z][s] = Sentinel
      BY <1>1, <1>4, <2>2
    <3>. HIDE DEF more
    <3>. QED  BY <1>2, <1>7, <2>2, <3>1, <3>2
  <2>3. CASE ~(z = above /\ s = dir)
    <3>1. w.node[z][s] = t.node[z][s]
      BY <1>5, <2>3
    <3>2. more[t.node[z][s]] = IF above \in under[t.node[z][s]]
                               THEN under[t.node[z][s]] \union {x} ELSE under[t.node[z][s]]
      BY <2>1
    <3>. HIDE DEF more
    <3>. QED  BY <2>3, <3>1, <3>2
  <2>. QED  BY <2>2, <2>3
<1>9. \A q \in N : more[q] = IF above \in under[q] THEN under[q] \union {x} ELSE under[q]
  BY <1>1
<1>. HIDE DEF more
<1>10. Unders(w, M, more)
  <2>1. ASSUME NEW z \in M
        PROVE  LET left == more[w.node[z].left]
                   right == more[w.node[z].right]
               IN  /\ more[z] = {z} \union left \union right
                   /\ z \notin left \union right /\ left \intersect right = {}
    <3>1. CASE z = x
      BY <1>5, <1>7, <3>1 DEF Side
    <3>2. CASE z \in N
      <4>. DEFINE l == under[t.node[z].left]
                  r == under[t.node[z].right]
      <4>1. /\ under[z] = {z} \union l \union r
            /\ z \notin l \union r /\ l \intersect r = {}
        BY <1>2, <3>2 DEF Shape, Unders
      <4>2. x \notin l /\ x \notin r /\ x # z
        BY <1>1, <1>3, <3>2 DEF Side
      <4>3. /\ \/ z = above /\ "left" = dir /\ more[w.node[z].left] = {x} /\ l = {}
               \/ ~(z = above /\ "left" = dir) /\ more[w.node[z].left] = IF above \in l THEN l \union {x} ELSE l
            /\ \/ z = above /\ "right" = dir /\ more[w.node[z].right] = {x} /\ r = {}
               \/ ~(z = above /\ "right" = dir) /\ more[w.node[z].right] = IF above \in r THEN r \union {x} ELSE r
        BY <1>8, <3>2 DEF Side
      <4>4. z = above => dir = "left" \/ dir = "right"
        BY <1>1, <1>4, <3>2 DEF Side
      <4>5. more[z] = IF above \in under[z] THEN under[z] \union {x} ELSE under[z]
        BY <1>9, <3>2
      <4>. HIDE DEF l, r
      <4>. QED  BY <4>1, <4>2, <4>3, <4>4, <4>5
    <3>. QED  BY <3>1, <3>2
  <2>. QED  BY <1>7, <2>1 DEF Unders
<1>11. Ordered(w, M, more)
  <2>1. ASSUME NEW z \in M, NEW s \in Side, NEW y \in more[w.node[z][s]]
        PROVE  Before(s, w.node[y].key, w.node[z].key)
    <3>1. CASE z = x
      BY <1>5, <1>7, <2>1, <3>1
    <3>2. CASE z \in N /\ z = above /\ s = dir /\ more[w.node[z][s]] = {x}
      BY <1>1, <1>4, <1>5, <2>1, <3>2
    <3>3. CASE z \in N /\ y \in under[t.node[z][s]]
      BY <1>2, <1>5, <3>3, Keys
    <3>4. CASE z \in N /\ y = x /\ above \in under[t.node[z][s]]
      BY <1>5, <3>4 DEF OnWay
    <3>5. z \in N => \/ z = above /\ s = dir /\ more[w.node[z][s]] = {x}
                     \/ y \in under[t.node[z][s]]
                     \/ y = x /\ above \in under[t.node[z][s]]
      <4>. SUFFICES ASSUME z \in N, ~(z = above /\ s = dir /\ more[w.node[z][s]] = {x})
                    PROVE  y \in under[t.node[z][s]] \/ (y = x /\ above \in under[t.node[z][s]])
        OBVIOUS
      <4>1. more[w.node[z][s]] = IF above \in under[t.node[z][s]]
                                 THEN under[t.node[z][s]] \union {x} ELSE under[t.node[z][s]]
        BY <1>8
      <4>. QED  BY <2>1, <4>1
    <3>. QED  BY <2>1, <3>1, <3>2, <3>3, <3>4, <3>5
  <2>. QED  BY <2>1 DEF Ordered
<1>12. Balanced(w, M, count, Null)
  <2>1. /\ black \in [Spot -> Nat \ {0}] /\ black[Sentinel] = 1
        /\ \A y \in N, s \in Side :
             black[y] = black[t.node[y][s]] + Missing(t, Null, y, s) + (IF t.node[y].red THEN 0 ELSE 1)
    BY DEF RedBlack, Balanced
  <2>2. \A y \in N, s \in Side : Missing(t, Null, y, s) = 0
    BY <1>1, <1>3 DEF Missing
  <2>3. \A y \in M, s \in Side : Missing(w, Null, y, s) = 0
    <3>1. \A y \in M, s \in Side : w.node[y][s] \in M \union {Sentinel}
      BY <1>6 DEF Links
    <3>. QED  BY <1>1, <3>1 DEF Missing
  <2>4. count \in [Spot -> Nat \ {0}] /\ count[x] = 1 /\ \A q \in Spot : q # x => count[q] = black[q]
    BY <1>1, <2>1
  <2>. HIDE DEF count
  <2>5. ASSUME NEW y \in M, NEW s \in Side
        PROVE  count[y] = count[w.node[y][s]] + 0 + (IF w.node[y].red THEN 0 ELSE 1)
    <3>1. CASE y = x
      BY <1>1, <1>5, <2>1, <2>4, <3>1
    <3>2. CASE y \in N
      <4>1. y \in Spot /\ y # x /\ t.node[y][s] \in Spot /\ t.node[y][s] # x
        BY <1>1, <1>3, <3>2
      <4>2. count[w.node[y][s]] = black[t.node[y][s]]
        <5>1. CASE y = above /\ s = dir
          BY <1>1, <1>4, <1>5, <2>1, <2>4, <3>2, <5>1
        <5>2. CASE ~(y = above /\ s = dir)
          BY <1>5, <2>4, <3>2, <4>1, <5>2
        <5>. QED  BY <5>1, <5>2
      <4>3. black[y] = black[t.node[y][s]] + 0 + (IF t.node[y].red THEN 0 ELSE 1)
        BY <2>1, <2>2, <3>2
      <4>4. w.node[y].red = t.node[y].red /\ count[y] = black[y]
        BY <1>5, <2>4, <3>2, <4>1
      <4>. QED  BY <4>2, <4>3, <4>4
    <3>. QED  BY <3>1, <3>2
  <2>6. count[Sentinel] = 1
    BY <1>1, <2>1, <2>4
  <2>. QED  BY <2>3, <2>4, <2>5, <2>6 DEF Balanced
<1>13. Reds(w, M, {}, {x}) /\ (w.node[w.root].red => w.root = x)
  <2>1. /\ \A y \in N, s \in Side : ~(t.node[y].red /\ t.node[t.node[y][s]].red)
        /\ ~t.node[t.root].red /\ ~t.node[Sentinel].red
    BY DEF RedBlack, Reds, Shape, Links
  <2>2. ASSUME NEW y \in M, NEW s \in Side, w.node[y].red, w.node[w.node[y][s]].red
        PROVE  w.node[y][s] = x
    <3>1. CASE y = x
      BY <1>5, <2>2, <3>1
    <3>2. CASE y \in N /\ ~(y = above /\ s = dir)
      BY <1>3, <1>5, <2>1, <2>2, <3>2
    <3>. QED  BY <1>5, <2>2, <3>1, <3>2
  <2>3. w.node[w.root].red => w.root = x
    <3>1. t.root \in N \union {Sentinel}
      BY <1>2 DEF Shape, Links
    <3>. QED  BY <1>5, <2>1, <3>1
  <2>. QED  BY <2>2, <2>3 DEF Reds
<1>. HIDE DEF M, count
<1>14. InsertInv(w, M, more, count, x)
  BY <1>5, <1>6, <1>10, <1>11, <1>12, <1>13 DEF InsertInv, Shape, M
<1>. QED  BY <1>14 DEF M

Extended(t, x, new) == [t EXCEPT !.used = @ \union {x}, !.node[x] = new]

LEMMA NodeAdded ==
    ASSUME NEW t \in Trees, NEW x \in Place, NEW new \in NodeType
    PROVE  LET s == Extended(t, x, new)
           IN  /\ s \in Trees /\ s.root = t.root /\ s.used = t.used \union {x}
               /\ \A q \in Spot : s.node[q] = IF q = x THEN new ELSE t.node[q]
<1>1. x \in Spot
  BY DEF Spot
<1>. QED  BY <1>1 DEF Trees, Extended

(* The tree w has what t has and one node more.                            *)
OneMore(t, w, key, value) ==
    \E x \in Place \ t.used :
        /\ w.used = t.used \union {x}
        /\ \E more, count : RedBlack(w, w.used, more, count)
        /\ w.node[x].key = key /\ w.node[x].value = value
        /\ Kept(t, w, t.used)

(* insert_c_rb of a key that no node has.                                  *)
LEMMA InsertedLeaf ==
    ASSUME NEW t, NEW under, NEW black, RedBlack(t, t.used, under, black), t.used # Place,
           NEW key \in Key, NEW value \in ValueOf[key], WayTo(t, key).at = Sentinel
    PROVE  OneMore(t, Inserted(t, key, value), key, value)
<1>. DEFINE N == t.used
            above == WayTo(t, key).above
            x == CHOOSE y \in Place : y \notin t.used
            new == [Blank EXCEPT !.parent = above, !.red = TRUE, !.key = key, !.value = value]
            s == Extended(t, x, new)
            side == Toward(t, key, above)
            u == IF above = Null THEN [s EXCEPT !.root = x] ELSE [s EXCEPT !.node[above][side] = x]
            w == InsertFixup(u, x)
<1>1. Inserted(t, key, value) = w
  BY DEF Inserted, Toward, Extended
<1>2. /\ Shape(t, N, under) /\ t \in Trees /\ N \subseteq Place /\ ~t.node[Sentinel].red
      /\ key \in Int
  BY TreeAssumption DEF RedBlack, Shape, Links
<1>3. x \in Place /\ x \notin N
  <2>1. \E y \in Place : y \notin t.used
    BY <1>2
  <2>. QED  BY <2>1
<1>4. OnWay(t, N, under, key, Sentinel, above)
  BY <1>2, WayEnds
<1>. HIDE DEF x, above
<1>5. /\ above = Null \/ above \in N
      /\ Sentinel \in Spot /\ Sentinel \notin Place /\ x \in Spot /\ N \subseteq Spot
      /\ Null \notin Spot /\ above # x
  BY <1>2, <1>3, <1>4 DEF OnWay, Spot, Sentinel, Place, Null
<1>6. new \in NodeType
  <2>1. value \in Value
    BY DEF Value
  <2>2. above \in Spot \union {Null}
    BY <1>5
  <2>. HIDE DEF Value
  <2>. QED  BY <1>2, <1>5, <2>1, <2>2 DEF Blank, NodeType
<1>7. /\ new.left = Sentinel /\ new.right = Sentinel /\ new.parent = above /\ new.red = TRUE
      /\ new.key = key /\ new.value = value
  BY DEF Blank
<1>. HIDE DEF new
<1>8. /\ s \in Trees /\ s.root = t.root /\ s.used = N \union {x}
      /\ \A q \in Spot : s.node[q] = IF q = x THEN new ELSE t.node[q]
  BY <1>2, <1>3, <1>6, NodeAdded
<1>. HIDE DEF s
<1>9. side \in Side
  BY DEF Side, Toward
<1>. HIDE DEF side
<1>10. /\ u \in Trees /\ u.used = N \union {x}
       /\ u.root = (IF above = Null THEN x ELSE t.root)
       /\ \A z \in Spot, r \in Side : u.node[z][r] = IF z = above /\ r = side THEN x ELSE s.node[z][r]
       /\ Same(s, u, {"parent", "red", "key", "value"})
  <2>1. CASE above = Null
    <3>1. u = [s EXCEPT !.root = x]
      BY <2>1
    <3>2. u \in Trees /\ u.used = s.used /\ u.root = x /\ u.node = s.node
      BY <1>5, <1>8, <3>1 DEF Trees
    <3>. HIDE DEF u
    <3>. QED  BY <1>5, <1>8, <2>1, <3>2 DEF Same
  <2>2. CASE above \in N
    <3>1. u = [s EXCEPT !.node[above][side] = x]
      BY <1>5, <2>2
    <3>2. above \in Spot /\ above # Null
      BY <1>5, <2>2
    <3>. HIDE DEF u
    <3>3. /\ u \in Trees /\ u.root = s.root /\ u.used = s.used
          /\ \A z \in Spot, r \in Side : u.node[z][r] = IF z = above /\ r = side THEN x ELSE s.node[z][r]
          /\ Same(s, u, {"parent", "red", "key", "value"})
      BY <1>5, <1>8, <1>9, <3>1, <3>2, ChildSet
    <3>. QED  BY <1>8, <3>2, <3>3
  <2>. QED  BY <1>5, <2>1, <2>2
<1>. HIDE DEF u
<1>11. WithLeaf(t, u, N, key, x, above)
  <2>1. /\ \A z \in N : s.node[z] = t.node[z] /\ z \in Spot /\ z # x
        /\ s.node[x] = new /\ s.node[Sentinel] = t.node[Sentinel]
    BY <1>3, <1>5, <1>8
  <2>2. ~u.node[Sentinel].red
    BY <1>2, <1>5, <1>10, <2>1 DEF Same
  <2>3. ASSUME NEW z \in N
        PROVE  /\ \A r \in Side : u.node[z][r] = IF z = above /\ r = side THEN x ELSE t.node[z][r]
               /\ u.node[z].parent = t.node[z].parent /\ u.node[z].red = t.node[z].red
               /\ u.node[z].key = t.node[z].key
    BY <1>10, <2>1 DEF Same
  <2>4. \A r \in Side : u.node[x][r] = Sentinel
    BY <1>5, <1>7, <1>10, <2>1 DEF Side
  <2>5. u.node[x].parent = above /\ u.node[x].red /\ u.node[x].key = key
    BY <1>5, <1>7, <1>10, <2>1 DEF Same
  <2>. QED  BY <1>10, <2>2, <2>3, <2>4, <2>5 DEF WithLeaf, side
<1>12. PICK above1, count1 : InsertInv(u, N \union {x}, above1, count1, x)
  BY <1>2, <1>3, <1>4, <1>11, Attached
<1>13. SameData(u, w) /\ \E more, count : RedBlack(w, N \union {x}, more, count)
  <2>. DEFINE M == N \union {x}
  <2>1. InsertInv(u, M, above1, count1, x)
    BY <1>12
  <2>. HIDE DEF M
  <2>2. SameData(u, w) /\ \E more, count : RedBlack(w, M, more, count)
    BY <2>1, InsertFixed
  <2>. QED  BY <2>2 DEF M
<1>. HIDE DEF w
<1>14. w.used = N \union {x}
  BY <1>10, <1>13 DEF SameData
<1>15. \A q \in Spot : w.node[q].key = s.node[q].key /\ w.node[q].value = s.node[q].value
  BY <1>10, <1>13 DEF SameData, Same
<1>16. Kept(t, w, N) /\ w.node[x].key = key /\ w.node[x].value = value
  BY <1>3, <1>5, <1>7, <1>8, <1>15 DEF Kept
<1>. QED  BY <1>1, <1>3, <1>13, <1>14, <1>16 DEF OneMore

-----------------------------------------------------------------------------
(* The iterator. *)

(* y is the next node after x in the order of the keys, or Null if none is.*)
NextAfter(t, N, x, y) ==
    \/ y = Null /\ \A v \in N : t.node[v].key <= t.node[x].key
    \/ /\ y \in N /\ t.node[x].key < t.node[y].key
       /\ \A v \in N : t.node[v].key <= t.node[x].key \/ t.node[y].key <= t.node[v].key

(* x has the greatest key of those under at. *)
Greatest(t, under, x, at) ==
    x \in under[at] /\ \A v \in under[at] : t.node[v].key <= t.node[x].key

LEMMA NextBelow ==
    ASSUME NEW t, NEW N, NEW under, Shape(t, N, under), NEW x \in N, t.node[x].right # Sentinel
    PROVE  NextAfter(t, N, x, Outermost(t, t.node[x].right, "left"))
<1>. DEFINE c == t.node[x]["right"]
            d == t.node[x]["left"]
            y == Outermost(t, c, "left")
<1>1. "left" \in Side /\ "right" \in Side /\ Other("right") = "left"
  BY DEF Side, Other
<1>2. /\ c \in N /\ under[x] = {x} \union under[c] \union under[d]
      /\ \A q \in N : q \in under[q] /\ t.node[q].key \in Int
  <2>1. c \in N \union {Sentinel} /\ c # Sentinel
    BY <1>1, Children
  <2>2. under[x] = {x} \union under[c] \union under[d]
    BY <1>1, Children
  <2>3. \A q \in N : q \in under[q]
    BY <1>1, Children
  <2>. QED  BY <2>1, <2>2, <2>3, Keys
<1>3. /\ y \in under[c] /\ y \in N
      /\ \A v \in under[c] : v = y \/ Before("left", t.node[y].key, t.node[v].key)
  BY <1>1, <1>2, OutermostNode
<1>. HIDE DEF y
<1>4. /\ \A v \in under[c] : t.node[x].key < t.node[v].key
      /\ \A v \in under[d] : t.node[v].key < t.node[x].key
  BY <1>1, Keys DEF Before
<1>. HIDE DEF c, d
<1>5. ASSUME NEW v \in N PROVE t.node[v].key <= t.node[x].key \/ t.node[y].key <= t.node[v].key
  <2>1. CASE v \in under[c]
    BY <1>2, <1>3, <2>1 DEF Before
  <2>2. CASE v \in under[d] \/ v = x
    BY <1>2, <1>4, <2>2
  <2>3. CASE v \notin under[x]
    <3>1. \/ \A q \in under[x] : t.node[v].key < t.node[q].key
          \/ \A q \in under[x] : t.node[q].key < t.node[v].key
      BY <2>3, Apart
    <3>2. x \in under[x] /\ y \in under[x]
      BY <1>2, <1>3
    <3>. QED  BY <1>2, <1>3, <3>1, <3>2
  <2>. QED  BY <1>2, <2>1, <2>2, <2>3
<1>6. NextAfter(t, N, x, y)
  BY <1>3, <1>4, <1>5 DEF NextAfter
<1>. QED  BY <1>6 DEF y, c

LEMMA NextAbove ==
    ASSUME NEW t, NEW N, NEW under, Shape(t, N, under), NEW x \in N, NEW at, NEW above \in N,
           Greatest(t, under, x, at), t.node[above].left = at
    PROVE  NextAfter(t, N, x, above)
<1>. DEFINE d == t.node[above]["right"]
<1>1. "left" \in Side /\ "right" \in Side /\ Other("left") = "right"
  BY DEF Side, Other
<1>2. /\ under[above] = {above} \union under[at] \union under[d]
      /\ \A q \in N : q \in under[q] /\ t.node[q].key \in Int
  <2>1. under[above] = {above} \union under[at] \union under[d]
    BY <1>1, Children
  <2>2. \A q \in N : q \in under[q]
    BY <1>1, Children
  <2>. QED  BY <2>1, <2>2, Keys
<1>3. /\ \A v \in under[at] : v \in N /\ t.node[v].key < t.node[above].key
      /\ \A v \in under[d] : t.node[above].key < t.node[v].key
  <2>1. \A v \in under[t.node[above]["left"]] : v \in N /\ Before("left", t.node[v].key, t.node[above].key)
    BY <1>1, Keys
  <2>2. \A v \in under[d] : v \in N /\ Before("right", t.node[v].key, t.node[above].key)
    BY <1>1, Keys
  <2>. QED  BY <2>1, <2>2 DEF Before
<1>. HIDE DEF d
<1>4. ASSUME NEW v \in N PROVE t.node[v].key <= t.node[x].key \/ t.node[above].key <= t.node[v].key
  <2>1. CASE v \in under[at]
    BY <2>1 DEF Greatest
  <2>2. CASE v \in under[d] \/ v = above
    BY <1>2, <1>3, <2>2
  <2>3. CASE v \notin under[above]
    <3>1. \/ \A q \in under[above] : t.node[v].key < t.node[q].key
          \/ \A q \in under[above] : t.node[q].key < t.node[v].key
      BY <2>3, Apart
    <3>2. x \in under[above] /\ above \in under[above]
      BY <1>2 DEF Greatest
    <3>. QED  BY <1>2, <3>1, <3>2
  <2>. QED  BY <1>2, <2>1, <2>2, <2>3
<1>. QED  BY <1>3, <1>4 DEF NextAfter, Greatest

LEMMA Climb ==
    ASSUME NEW t, NEW N, NEW under, Shape(t, N, under), NEW x \in N, NEW at, NEW above \in N,
           Greatest(t, under, x, at), t.node[above].right = at
    PROVE  Greatest(t, under, x, above)
<1>. DEFINE d == t.node[above]["left"]
<1>1. "left" \in Side /\ "right" \in Side /\ Other("left") = "right"
  BY DEF Side, Other
<1>2. /\ under[above] = {above} \union under[at] \union under[d]
      /\ \A q \in N : t.node[q].key \in Int
  <2>1. under[above] = {above} \union under[at] \union under[d]
    BY <1>1, Children
  <2>. QED  BY <2>1, Keys
<1>3. /\ \A v \in under[at] : v \in N /\ t.node[above].key < t.node[v].key
      /\ \A v \in under[d] : v \in N /\ t.node[v].key < t.node[above].key
  <2>1. \A v \in under[t.node[above]["right"]] : v \in N /\ Before("right", t.node[v].key, t.node[above].key)
    BY <1>1, Keys
  <2>2. \A v \in under[d] : v \in N /\ Before("left", t.node[v].key, t.node[above].key)
    BY <1>1, Keys
  <2>. QED  BY <2>1, <2>2 DEF Before
<1>. HIDE DEF d
<1>. QED  BY <1>2, <1>3 DEF Greatest

LEMMA NotLast ==
    ASSUME NEW t, NEW N, NEW under, Shape(t, N, under), NEW x \in N, NEW at \in N,
           Greatest(t, under, x, at), x # Outermost(t, t.root, "right")
    PROVE  /\ at # t.root /\ t.node[at].parent \in N
           /\ at \in {t.node[t.node[at].parent].left, t.node[t.node[at].parent].right}
<1>. DEFINE m == Outermost(t, t.root, "right")
<1>1. at # t.root
  <2>1. SUFFICES ASSUME at = t.root PROVE FALSE
    OBVIOUS
  <2>2. "right" \in Side /\ t.root \in N /\ under[t.root] = N
    BY <2>1 DEF Side, Shape, Unders
  <2>3. m \in N /\ \A v \in N : v = m \/ Before("right", t.node[m].key, t.node[v].key)
    BY <2>2, OutermostNode
  <2>. HIDE DEF m
  <2>4. x # m
    BY DEF m
  <2>5. Before("right", t.node[m].key, t.node[x].key)
    BY <2>3, <2>4
  <2>6. t.node[m].key <= t.node[x].key /\ t.node[m].key \in Int /\ t.node[x].key \in Int
    BY <2>1, <2>2, <2>3, Keys DEF Greatest
  <2>. QED  BY <2>5, <2>6 DEF Before
<1>2. t.node[at].parent \in N /\ \E s \in Side : t.node[t.node[at].parent][s] = at
  BY <1>1 DEF Shape, Links
<1>. QED  BY <1>1, <1>2 DEF Side

(* tree_successor. *)
LEMMA SuccessorNode ==
    ASSUME NEW t, NEW N, NEW under, Shape(t, N, under), NEW x \in N
    PROVE  NextAfter(t, N, x, Successor(t, x))
<1>1. CASE t.node[x].right # Sentinel
  BY <1>1, NextBelow DEF Successor
<1>2. CASE t.node[x].right = Sentinel /\ x = Outermost(t, t.root, "right")
  <2>1. x # Sentinel /\ "right" \in Side /\ t.root \in N /\ under[t.root] = N
    <3>1. N # {} /\ under[t.root] = N /\ under[Sentinel] = {} /\ t.root \in N \union {Sentinel}
      BY DEF Shape, Unders, Links
    <3>2. x # Sentinel
      BY Children DEF Side
    <3>. QED  BY <3>1, <3>2 DEF Side
  <2>2. \A v \in N : v = x \/ Before("right", t.node[x].key, t.node[v].key)
    BY <1>2, <2>1, OutermostNode
  <2>3. \A v \in N : t.node[v].key \in Int
    BY Keys
  <2>4. \A v \in N : t.node[v].key <= t.node[x].key
    BY <2>2, <2>3 DEF Before
  <2>. QED  BY <1>2, <2>4 DEF Successor, NextAfter
<1>3. CASE t.node[x].right = Sentinel /\ x # Outermost(t, t.root, "right")
<2>. DEFINE X == [at : N, above : N]
            Turn(way) ==
                IF way.above # Sentinel /\ way.at = t.node[way.above].right
                THEN [at |-> way.above, above |-> t.node[way.above].parent]
                ELSE way
            Good(way, k) ==
                /\ Greatest(t, under, x, way.at) /\ way.above = t.node[way.at].parent
                /\ way.at = t.node[way.above].right => Cardinality(under[way.at]) > k
            T == [k \in 0 .. Memory |-> {way \in X : Good(way, k)}]
            start == [at |-> x, above |-> t.node[x].parent]
            step == [way \in X |-> Turn(way)]
            after == CHOOSE f : f = [k \in 0 .. Memory |-> IF k = 0 THEN start ELSE Turn(f[k - 1])]
<2>1. Memory \in Nat /\ \A y \in N : y \in under[y] /\ y # Sentinel
  <3>1. \A y \in N : y \in under[y] /\ y # Sentinel
    BY Children DEF Side
  <3>. QED  BY <3>1, TreeAssumption
<2>2. start \in T[0]
  <3>1. Greatest(t, under, x, x)
    <4>1. under[x] = {x} \union under[t.node[x]["left"]] \union under[t.node[x]["right"]]
      <5>1. "left" \in Side /\ Other("left") = "right"
        BY DEF Side, Other
      <5>. QED  BY <5>1, Children
    <4>2. under[Sentinel] = {}
      BY DEF Shape, Unders
    <4>3. \A v \in under[t.node[x]["left"]] : v \in N /\ Before("left", t.node[v].key, t.node[x].key)
      BY Keys DEF Side
    <4>4. \A v \in N : t.node[v].key \in Int
      BY Keys
    <4>. QED  BY <1>3, <4>1, <4>2, <4>3, <4>4 DEF Greatest, Before
  <3>2. t.node[x].parent \in N
    BY <1>3, <3>1, NotLast
  <3>3. Cardinality(under[x]) > 0
    BY <2>1, Measure
  <3>4. start \in X /\ Good(start, 0)
    BY <3>1, <3>2, <3>3
  <3>. HIDE DEF X, Good, start
  <3>. QED  BY <2>1, <3>4
<2>3. ASSUME NEW k \in 1 .. Memory, NEW s \in T[k - 1]
      PROVE  s \in X /\ Turn(s) \in T[k]
  <3>1. s \in X /\ Good(s, k - 1) /\ k \in 0 .. Memory
    BY <2>1
  <3>2. CASE s.at # t.node[s.above].right
    <4>1. Turn(s) = s /\ Good(s, k)
      BY <3>1, <3>2
    <4>. HIDE DEF Turn, Good
    <4>. QED  BY <3>1, <4>1
  <3>3. CASE s.at = t.node[s.above].right
    <4>. DEFINE a == s.above
                next == [at |-> a, above |-> t.node[a].parent]
    <4>1. Turn(s) = next /\ a \in N /\ s.at \in N
      BY <2>1, <3>1, <3>3, ZenonT(60)
    <4>2. Greatest(t, under, x, a)
      BY <3>1, <3>3, <4>1, Climb, Zenon
    <4>3. t.node[a].parent \in N
      BY <1>3, <4>1, <4>2, NotLast
    <4>4. Cardinality(under[a]) > k
      <5>1. /\ Cardinality(under[t.node[a]["right"]]) \in 0 .. Memory
            /\ Cardinality(under[t.node[a]["right"]]) < Cardinality(under[a])
            /\ Cardinality(under[a]) \in 1 .. Memory
        BY <4>1, Measure, ZenonT(60) DEF Side
      <5>2. Cardinality(under[s.at]) > k - 1
        BY <3>1, <3>3, Zenon
      <5>. QED  BY <2>1, <3>3, <5>1, <5>2
    <4>. HIDE DEF a, Turn
    <4>5. next \in X /\ Good(next, k)
      BY <4>1, <4>2, <4>3, <4>4
    <4>. HIDE DEF Good, next, X
    <4>. QED  BY <2>1, <3>1, <4>1, <4>5, Zenon
  <3>. QED  BY <3>2, <3>3
<2>4. \A k \in 0 .. Memory : T[k] \subseteq X
  OBVIOUS
<2>. HIDE DEF X, Good, T, start, Turn
<2>5. \A k \in 1 .. Memory : \A s \in T[k - 1] : step[s] \in T[k] /\ step[s] = Turn(s)
  BY <2>3
<2>. HIDE DEF step
<2>6. PICK f \in [0 .. Memory -> X] :
         f[0] = start /\ \A k \in 1 .. Memory : f[k - 1] \in T[k - 1] /\ f[k] = step[f[k - 1]]
  <3>1. \A k \in 1 .. Memory : \A s \in T[k - 1] : step[s] \in T[k]
    BY <2>5
  <3>2. Looped(Memory, X, T, start, step)
    BY TreeAssumption, <2>2, <2>4, <3>1, LoopExists
  <3>. QED  BY <3>2 DEF Looped
<2>7. f = [k \in 0 .. Memory |-> IF k = 0 THEN start ELSE Turn(f[k - 1])]
  <3>1. \A k \in 0 .. Memory : f[k] = IF k = 0 THEN start ELSE Turn(f[k - 1])
    BY TreeAssumption, <2>5, <2>6
  <3>. QED  BY <2>6, <3>1
<2>8. after = [k \in 0 .. Memory |-> IF k = 0 THEN start ELSE Turn(after[k - 1])]
  BY <2>7
<2>9. Repeated(Turn, start) = after[Memory]
  BY DEF Repeated, start, Turn
<2>. HIDE DEF after
<2>10. after[Memory] \in T[Memory]
  <3>1. after[0] = start /\ \A k \in 1 .. Memory : after[k] = Turn(after[k - 1])
    <4>. HIDE DEF start, Turn
    <4>. QED  BY TreeAssumption, <2>8
  <3>2. \A k \in 1 .. Memory : after[k - 1] \in T[k - 1] => after[k] \in T[k]
    BY <2>3, <3>1
  <3>. QED  BY TreeAssumption, <2>2, <3>1, <3>2, LoopStays
<2>. DEFINE way == after[Memory]
<2>11. Good(way, Memory) /\ way \in X
  BY <2>1, <2>10 DEF T
<2>12. Successor(t, x) = way.above
  BY <1>3, <2>9 DEF Successor, Turn, start
<2>. HIDE DEF way
<2>13. /\ Greatest(t, under, x, way.at) /\ way.above \in N /\ way.at = t.node[way.above].left
  <3>1. /\ way.at \in N /\ way.above \in N /\ Greatest(t, under, x, way.at)
        /\ way.above = t.node[way.at].parent
        /\ way.at = t.node[way.above].right => Cardinality(under[way.at]) > Memory
    BY <2>11 DEF Good, X
  <3>2. Cardinality(under[way.at]) \in 1 .. Memory
    BY <3>1, Measure
  <3>3. way.at \in {t.node[way.above].left, t.node[way.above].right}
    BY <1>3, <3>1, NotLast
  <3>. QED  BY <2>1, <3>1, <3>2, <3>3
<2>. QED  BY <2>12, <2>13, NextAbove
<1>. QED  BY <1>1, <1>2, <1>3

(* Every key of the tree once, and each before the next.                   *)
LEMMA IteratedKeys ==
    ASSUME NEW t, NEW N, NEW under, Shape(t, N, under), N # {}
    PROVE  LET keys == Iterated(t)
           IN  /\ keys \in Seq(Int) /\ Range(keys) = {t.node[v].key : v \in N}
               /\ \A i, j \in DOMAIN keys : i < j => keys[i] < keys[j]
<1>. DEFINE X == [at : Spot \union {Null}, keys : Seq(Int)]
            Turn(way) ==
                IF way.at = Null THEN way
                ELSE [at |-> Successor(t, way.at), keys |-> Append(way.keys, t.node[way.at].key)]
            Left(y) == {v \in N : t.node[y].key <= t.node[v].key}
            Good(way, k) ==
                /\ way.at \in N \union {Null}
                /\ Range(way.keys) =
                     {t.node[v].key : v \in IF way.at = Null THEN N ELSE N \ Left(way.at)}
                /\ \A i, j \in DOMAIN way.keys : i < j => way.keys[i] < way.keys[j]
                /\ way.at \in N => Cardinality(Left(way.at)) <= Memory - k
            T == [k \in 0 .. Memory |-> {way \in X : Good(way, k)}]
            start == [at |-> Outermost(t, t.root, "left"), keys |-> <<>>]
            step == [way \in X |-> Turn(way)]
            after == CHOOSE f : f = [k \in 0 .. Memory |-> IF k = 0 THEN start ELSE Turn(f[k - 1])]
<1>1. Memory \in Nat /\ N \subseteq Spot /\ Null \notin N /\ \A v \in N : t.node[v].key \in Int
  <2>1. \A v \in N : t.node[v].key \in Int /\ v # Null
    <3>1. \A v \in N : v # Null
      BY Children DEF Side
    <3>. QED  BY <3>1, Keys
  <2>. QED  BY <2>1, TreeAssumption DEF Shape, Links, Spot
<1>2. \A S \in SUBSET N : Cardinality(S) \in 0 .. Memory
  <2>1. /\ Cardinality(N) \in 0 .. Memory
        /\ \A S \in SUBSET N : Cardinality(S) \in 0 .. Cardinality(N)
    BY Sizes
  <2>. QED  BY <1>1, <2>1
<1>3. start \in T[0]
  <2>. DEFINE m == Outermost(t, t.root, "left")
  <2>1. t.root \in N /\ under[t.root] = N /\ "left" \in Side
    BY DEF Shape, Links, Unders, Side
  <2>2. m \in N /\ \A v \in N : v = m \/ Before("left", t.node[m].key, t.node[v].key)
    BY <2>1, OutermostNode
  <2>. HIDE DEF m
  <2>3. N = Left(m)
    BY <1>1, <2>2 DEF Before
  <2>4. <<>> \in Seq(Int) /\ Range(<<>>) = {} /\ DOMAIN <<>> = {}
    BY DEF Range
  <2>5. {t.node[v].key : v \in N \ Left(m)} = {}
    BY <2>3
  <2>6. Cardinality(Left(m)) <= Memory - 0
    BY <1>1, <1>2
  <2>. HIDE DEF Left
  <2>7. start.at = m /\ start.keys = <<>>
    BY DEF m
  <2>8. start \in X
    BY <1>1, <2>2, <2>4 DEF m
  <2>9. m # Null
    BY <1>1, <2>2
  <2>. HIDE DEF start
  <2>10. Good(start, 0)
    BY <2>2, <2>4, <2>5, <2>6, <2>7, <2>9
  <2>. HIDE DEF X, Good
  <2>. QED  BY <1>1, <2>8, <2>10
<1>4. ASSUME NEW k \in 1 .. Memory, NEW s \in T[k - 1]
      PROVE  s \in X /\ Turn(s) \in T[k]
  <2>1. s \in X /\ Good(s, k - 1) /\ k \in 0 .. Memory
    BY <1>1
  <2>2. CASE s.at = Null
    <3>1. Turn(s) = s /\ Good(s, k)
      BY <1>1, <2>1, <2>2
    <3>. HIDE DEF Turn, Good
    <3>. QED  BY <2>1, <3>1
  <2>3. CASE s.at # Null
    <3>. DEFINE x == s.at
                q == s.keys
                c == t.node[x].key
                y == Successor(t, x)
                more == Append(q, c)
                next == [at |-> y, keys |-> more]
    <3>1. x \in N /\ q \in Seq(Int) /\ c \in Int /\ Turn(s) = next
      <4>1. x \in N /\ Turn(s) = next
        BY <2>1, <2>3
      <4>. QED  BY <1>1, <2>1, <4>1
    <3>2. NextAfter(t, N, x, y)
      BY <3>1, SuccessorNode
    <3>3. /\ Range(q) = {t.node[v].key : v \in N \ Left(x)}
          /\ \A i, j \in DOMAIN q : i < j => q[i] < q[j]
          /\ Cardinality(Left(x)) <= Memory - (k - 1)
      BY <2>1, <2>3, <3>1
    <3>. HIDE DEF x, q, y, c, Turn
    <3>4. /\ more \in Seq(Int) /\ DOMAIN more = 1 .. Len(q) + 1 /\ DOMAIN q = 1 .. Len(q) /\ Len(q) \in Nat
          /\ \A i \in 1 .. Len(q) : more[i] = q[i]
          /\ more[Len(q) + 1] = c
      BY <3>1
    <3>. HIDE DEF more
    <3>5. \A v \in N : t.node[v].key < c <=> v \in N \ Left(x)
      BY <1>1, <3>1 DEF c
    <3>. HIDE DEF Left
    <3>6. \A i \in DOMAIN q : q[i] < c
      <4>1. \A i \in DOMAIN q : q[i] \in {t.node[v].key : v \in N \ Left(x)}
        BY <3>3 DEF Range
      <4>. QED  BY <3>5, <4>1
    <3>7. \A i, j \in DOMAIN more : i < j => more[i] < more[j]
      <4>1. SUFFICES ASSUME NEW i \in 1 .. Len(q) + 1, NEW j \in 1 .. Len(q) + 1, i < j
                     PROVE  more[i] < more[j]
        BY <3>4
      <4>2. i \in 1 .. Len(q) /\ more[i] = q[i]
        BY <3>4, <4>1
      <4>3. CASE j = Len(q) + 1
        BY <3>4, <3>6, <4>2, <4>3
      <4>4. CASE j \in 1 .. Len(q)
        BY <3>3, <3>4, <4>1, <4>2, <4>4
      <4>. QED  BY <3>4, <4>3, <4>4
    <3>8. Range(more) = Range(q) \union {c}
      <4>1. Range(more) = {more[i] : i \in 1 .. Len(q) + 1} /\ Range(q) = {q[i] : i \in 1 .. Len(q)}
        BY <3>4 DEF Range
      <4>2. 1 .. Len(q) + 1 = (1 .. Len(q)) \union {Len(q) + 1}
        BY <3>4
      <4>3. {more[i] : i \in (1 .. Len(q)) \union {Len(q) + 1}} = {more[i] : i \in 1 .. Len(q)} \union {more[Len(q) + 1]}
        OBVIOUS
      <4>4. {more[i] : i \in 1 .. Len(q)} = {q[i] : i \in 1 .. Len(q)}
        BY <3>4
      <4>. QED  BY <3>4, <4>1, <4>2, <4>3, <4>4
    <3>9. /\ y = Null => \A v \in N : t.node[v].key < c \/ t.node[v].key = c
          /\ y \in N => /\ c < t.node[y].key
                        /\ \A v \in N : t.node[v].key < t.node[y].key
                                        <=> t.node[v].key < c \/ t.node[v].key = c
          /\ y \in N \union {Null}
      <4>1. CASE y = Null /\ \A v \in N : t.node[v].key <= t.node[x].key
        BY <1>1, <3>1, <4>1 DEF c
      <4>2. CASE /\ y \in N /\ t.node[x].key < t.node[y].key
                 /\ \A v \in N : t.node[v].key <= t.node[x].key \/ t.node[y].key <= t.node[v].key
        <5>1. c = t.node[x].key /\ c \in Int /\ t.node[y].key \in Int /\ y # Null
          BY <1>1, <3>1, <4>2 DEF c
        <5>2. ASSUME NEW v \in N
              PROVE  t.node[v].key < t.node[y].key <=> t.node[v].key < c \/ t.node[v].key = c
          <6>1. t.node[v].key \in Int
            BY <1>1
          <6>2. t.node[v].key <= c \/ t.node[y].key <= t.node[v].key
            BY <4>2, <5>1
          <6>3. c < t.node[y].key
            BY <4>2, <5>1
          <6>. QED  BY <5>1, <6>1, <6>2, <6>3
        <5>. QED  BY <4>2, <5>1, <5>2
      <4>. QED  BY <3>2, <4>1, <4>2 DEF NextAfter
    <3>10. Range(more) = {t.node[v].key : v \in IF y = Null THEN N ELSE N \ Left(y)}
      <4>1. \A v \in N : y \in N => (t.node[v].key < t.node[y].key <=> v \in N \ Left(y))
        BY <1>1 DEF Left
      <4>2. \A v \in IF y = Null THEN N ELSE N \ Left(y) : t.node[v].key \in Range(q) \union {c}
        BY <1>1, <3>3, <3>5, <3>9, <4>1
      <4>3. \A v \in N \ Left(x) : v \in IF y = Null THEN N ELSE N \ Left(y)
        BY <1>1, <3>5, <3>9, <4>1
      <4>4. x \in IF y = Null THEN N ELSE N \ Left(y)
        BY <1>1, <3>1, <3>9, <4>1 DEF c
      <4>. QED  BY <3>3, <3>8, <4>2, <4>3, <4>4 DEF c
    <3>11. y \in N => Cardinality(Left(y)) <= Memory - k
      <4>1. SUFFICES ASSUME y \in N PROVE Cardinality(Left(y)) <= Memory - k
        OBVIOUS
      <4>2. Left(y) \subseteq Left(x) /\ x \in Left(x) /\ x \notin Left(y) /\ Left(x) \subseteq N
        BY <1>1, <3>1, <3>9, <4>1 DEF Left, c
      <4>3. Cardinality(Left(y)) < Cardinality(Left(x))
        <5>1. Left(y) \in SUBSET N /\ Left(x) \in SUBSET N /\ Left(y) # Left(x)
          BY <4>2
        <5>. QED  BY <4>2, <5>1, Sizes
      <4>4. Cardinality(Left(y)) \in 0 .. Memory /\ Cardinality(Left(x)) \in 0 .. Memory
        BY <1>2, <4>2
      <4>. QED  BY <1>1, <3>3, <4>3, <4>4
    <3>12. next \in X
      BY <1>1, <3>4, <3>9
    <3>13. Good(next, k)
      BY <3>7, <3>9, <3>10, <3>11
    <3>. HIDE DEF Good, next, X
    <3>. QED  BY <2>1, <3>1, <3>12, <3>13
  <2>. QED  BY <2>2, <2>3
<1>5. \A k \in 0 .. Memory : T[k] \subseteq X
  OBVIOUS
<1>. HIDE DEF X, Good, T, start, Turn
<1>6. \A k \in 1 .. Memory : \A s \in T[k - 1] : step[s] \in T[k] /\ step[s] = Turn(s)
  BY <1>4
<1>. HIDE DEF step
<1>7. PICK f \in [0 .. Memory -> X] :
         f[0] = start /\ \A k \in 1 .. Memory : f[k - 1] \in T[k - 1] /\ f[k] = step[f[k - 1]]
  <2>1. \A k \in 1 .. Memory : \A s \in T[k - 1] : step[s] \in T[k]
    BY <1>6
  <2>2. Looped(Memory, X, T, start, step)
    BY TreeAssumption, <1>3, <1>5, <2>1, LoopExists
  <2>. QED  BY <2>2 DEF Looped
<1>8. f = [k \in 0 .. Memory |-> IF k = 0 THEN start ELSE Turn(f[k - 1])]
  <2>1. \A k \in 0 .. Memory : f[k] = IF k = 0 THEN start ELSE Turn(f[k - 1])
    BY TreeAssumption, <1>6, <1>7
  <2>. QED  BY <1>7, <2>1
<1>9. after = [k \in 0 .. Memory |-> IF k = 0 THEN start ELSE Turn(after[k - 1])]
  BY <1>8
<1>10. Repeated(Turn, start) = after[Memory]
  BY DEF Repeated, start, Turn
<1>. HIDE DEF after
<1>11. after[Memory] \in T[Memory]
  <2>1. after[0] = start /\ \A k \in 1 .. Memory : after[k] = Turn(after[k - 1])
    <3>. HIDE DEF start, Turn
    <3>. QED  BY TreeAssumption, <1>9
  <2>2. \A k \in 1 .. Memory : after[k - 1] \in T[k - 1] => after[k] \in T[k]
    BY <1>4, <2>1
  <2>. QED  BY TreeAssumption, <1>3, <2>1, <2>2, LoopStays
<1>. DEFINE way == after[Memory]
<1>12. Good(way, Memory) /\ way \in X
  BY <1>1, <1>11 DEF T
<1>13. Iterated(t) = way.keys
  BY <1>10 DEF Iterated, Turn, start
<1>. HIDE DEF way
<1>14. way.at = Null
  <2>1. SUFFICES ASSUME way.at \in N PROVE FALSE
    BY <1>12 DEF Good
  <2>2. Cardinality(Left(way.at)) <= Memory - Memory
    BY <1>12, <2>1 DEF Good
  <2>3. way.at \in Left(way.at) /\ Left(way.at) \subseteq N
    BY <1>1, <2>1
  <2>4. {} \in SUBSET N /\ Left(way.at) \in SUBSET N /\ {} # Left(way.at)
    BY <2>3
  <2>5. Cardinality({}) < Cardinality(Left(way.at))
    <3>. HIDE DEF Left
    <3>. QED  BY <2>4, Sizes
  <2>6. Cardinality({}) \in 0 .. Memory /\ Cardinality(Left(way.at)) \in 0 .. Memory
    BY <1>2, <2>4
  <2>. HIDE DEF Left
  <2>. QED  BY <1>1, <2>2, <2>5, <2>6
<1>15. /\ way.keys \in Seq(Int) /\ Range(way.keys) = {t.node[v].key : v \in N}
       /\ \A i, j \in DOMAIN way.keys : i < j => way.keys[i] < way.keys[j]
  <2>1. way.keys \in Seq(Int)
    BY <1>12 DEF X
  <2>. QED  BY <1>12, <1>14, <2>1 DEF Good
<1>. QED  BY <1>13, <1>15

-----------------------------------------------------------------------------
(* debug_verify_properties counts the black nodes that are on each way.    *)
LEMMA BlacksCounted ==
    ASSUME NEW t, NEW N, NEW under, NEW black, RedBlack(t, N, under, black)
    PROVE  Blacks(t)[t.root] # Null
<1>. DEFINE X == [Spot -> Int]
            Turn(count) ==
                [x \in DOMAIN t.node |->
                    IF x = Sentinel THEN 1
                    ELSE LET left == count[t.node[x].left]
                             right == count[t.node[x].right]
                         IN IF left = Null \/ left # right THEN Null
                            ELSE left + (IF t.node[x].red THEN 0 ELSE 1)]
            Good(count, k) ==
                /\ count[Sentinel] = 1
                /\ \A x \in N : Cardinality(under[x]) <= k => count[x] = black[x]
            T == [k \in 0 .. Memory |-> {count \in X : Good(count, k)}]
            start == [x \in DOMAIN t.node |-> 1]
            step == [count \in X |-> Turn(count)]
            after == CHOOSE f : f = [k \in 0 .. Memory |-> IF k = 0 THEN start ELSE Turn(f[k - 1])]
<1>1. /\ Memory \in Nat /\ N \subseteq Spot /\ Sentinel \in Spot /\ DOMAIN t.node = Spot
      /\ Sentinel \notin N /\ Shape(t, N, under) /\ t.root \in N \union {Sentinel} /\ Null \notin Spot
  <2>1. Memory \in Nat /\ Shape(t, N, under) /\ N \subseteq Place /\ t.root \in N \union {Sentinel}
    BY TreeAssumption DEF RedBlack, Shape, Links
  <2>2. DOMAIN t.node = Spot
    BY <2>1 DEF Shape, Trees
  <2>3. Sentinel \notin Place /\ Null \notin Place /\ Null # Sentinel
    BY DEF Null, Sentinel, Place
  <2>. QED  BY <2>1, <2>2, <2>3 DEF Spot
<1>2. /\ black \in [Spot -> Nat \ {0}] /\ black[Sentinel] = 1
      /\ \A y \in N, s \in Side : black[y] = black[t.node[y][s]] + (IF t.node[y].red THEN 0 ELSE 1)
  <2>1. /\ black \in [Spot -> Nat \ {0}] /\ black[Sentinel] = 1
        /\ \A y \in N, s \in Side :
            black[y] = black[t.node[y][s]] + Missing(t, Null, y, s) + (IF t.node[y].red THEN 0 ELSE 1)
    BY DEF RedBlack, Balanced
  <2>2. \A y \in N, s \in Side : t.node[y][s] \in N \union {Sentinel}
    BY <1>1 DEF Shape, Links
  <2>3. \A y \in N, s \in Side : Missing(t, Null, y, s) = 0 /\ black[t.node[y][s]] \in Nat
    BY <1>1, <2>1, <2>2 DEF Missing
  <2>. QED  BY <2>1, <2>3
<1>3. start \in T[0]
  <2>1. \A x \in N : Cardinality(under[x]) \in 1 .. Memory
    BY <1>1, Measure
  <2>2. \A x \in N : ~(Cardinality(under[x]) <= 0)
    BY <2>1
  <2>3. start \in X /\ start[Sentinel] = 1
    BY <1>1
  <2>. HIDE DEF start
  <2>4. start \in X /\ Good(start, 0)
    BY <2>2, <2>3
  <2>. HIDE DEF X, Good
  <2>. QED  BY <1>1, <2>4
<1>4. ASSUME NEW k \in 1 .. Memory, NEW s \in T[k - 1]
      PROVE  s \in X /\ Turn(s) \in T[k]
  <2>1. s \in X /\ Good(s, k - 1) /\ k \in 0 .. Memory
    BY <1>1
  <2>. DEFINE w == Turn(s)
  <2>2. \A x \in Spot : t.node[x].left \in Spot /\ t.node[x].right \in Spot
    BY <1>1 DEF Shape, Trees, NodeType
  <2>3. w \in X
    <3>1. ASSUME NEW x \in Spot PROVE w[x] \in Int
      <4>1. s[t.node[x].left] \in Int /\ s[t.node[x].right] \in Int
        BY <2>1, <2>2
      <4>. QED  BY <1>1, <4>1 DEF Null
    <3>2. w = [x \in Spot |-> w[x]]
      BY SMTT(60), <1>1
    <3>. HIDE DEF w
    <3>. QED  BY <3>1, <3>2
  <2>4. ASSUME NEW x \in N, Cardinality(under[x]) <= k PROVE w[x] = black[x]
    <3>. DEFINE l == t.node[x]["left"]
                r == t.node[x]["right"]
    <3>1. /\ l \in N \union {Sentinel} /\ r \in N \union {Sentinel}
          /\ Cardinality(under[l]) <= k - 1 /\ Cardinality(under[r]) <= k - 1
      <4>1. "left" \in Side /\ "right" \in Side
        BY DEF Side
      <4>2. /\ Cardinality(under[x]) \in 1 .. Memory
            /\ Cardinality(under[l]) \in 0 .. Memory /\ Cardinality(under[r]) \in 0 .. Memory
            /\ Cardinality(under[l]) < Cardinality(under[x])
            /\ Cardinality(under[r]) < Cardinality(under[x])
        BY <1>1, <4>1, Measure
      <4>3. l \in N \union {Sentinel} /\ r \in N \union {Sentinel}
        BY <1>1, <4>1 DEF Shape, Links
      <4>. QED  BY <1>1, <2>4, <4>2, <4>3
    <3>2. s[l] = black[l] /\ s[r] = black[r]
      BY <1>2, <2>1, <3>1
    <3>3. /\ black[x] = black[l] + (IF t.node[x].red THEN 0 ELSE 1)
          /\ black[x] = black[r] + (IF t.node[x].red THEN 0 ELSE 1)
          /\ black[l] \in Nat \ {0} /\ black[r] \in Nat \ {0}
      BY <1>1, <1>2, <3>1 DEF Side
    <3>4. black[l] = black[r] /\ black[l] # Null
      BY <3>3 DEF Null
    <3>5. w[x] = IF s[l] = Null \/ s[l] # s[r] THEN Null
                 ELSE s[l] + (IF t.node[x].red THEN 0 ELSE 1)
      BY <1>1
    <3>. QED  BY <3>2, <3>3, <3>4, <3>5
  <2>5. w[Sentinel] = 1
    BY <1>1
  <2>. HIDE DEF w
  <2>6. w \in X /\ Good(w, k)
    BY <2>3, <2>4, <2>5
  <2>. HIDE DEF X, Good
  <2>. QED  BY <2>1, <2>6 DEF w
<1>5. \A k \in 0 .. Memory : T[k] \subseteq X
  OBVIOUS
<1>. HIDE DEF X, Good, T, start, Turn
<1>6. \A k \in 1 .. Memory : \A s \in T[k - 1] : step[s] \in T[k] /\ step[s] = Turn(s)
  BY <1>4
<1>. HIDE DEF step
<1>7. PICK f \in [0 .. Memory -> X] :
         f[0] = start /\ \A k \in 1 .. Memory : f[k - 1] \in T[k - 1] /\ f[k] = step[f[k - 1]]
  <2>1. \A k \in 1 .. Memory : \A s \in T[k - 1] : step[s] \in T[k]
    BY <1>6
  <2>2. Looped(Memory, X, T, start, step)
    BY TreeAssumption, <1>3, <1>5, <2>1, LoopExists
  <2>. QED  BY <2>2 DEF Looped
<1>8. f = [k \in 0 .. Memory |-> IF k = 0 THEN start ELSE Turn(f[k - 1])]
  <2>1. \A k \in 0 .. Memory : f[k] = IF k = 0 THEN start ELSE Turn(f[k - 1])
    BY TreeAssumption, <1>6, <1>7
  <2>. QED  BY <1>7, <2>1
<1>9. after = [k \in 0 .. Memory |-> IF k = 0 THEN start ELSE Turn(after[k - 1])]
  BY <1>8
<1>10. Repeated(Turn, start) = after[Memory]
  BY DEF Repeated, start, Turn
<1>. HIDE DEF after
<1>11. after[Memory] \in T[Memory]
  <2>1. after[0] = start /\ \A k \in 1 .. Memory : after[k] = Turn(after[k - 1])
    <3>. HIDE DEF start, Turn
    <3>. QED  BY TreeAssumption, <1>9
  <2>2. \A k \in 1 .. Memory : after[k - 1] \in T[k - 1] => after[k] \in T[k]
    BY <1>4, <2>1
  <2>. QED  BY TreeAssumption, <1>3, <2>1, <2>2, LoopStays
<1>. DEFINE count == after[Memory]
<1>12. Good(count, Memory) /\ Blacks(t) = count
  <2>1. Good(count, Memory)
    BY <1>1, <1>11 DEF T
  <2>. QED  BY <1>10, <2>1 DEF Blacks, Turn, start
<1>. HIDE DEF count
<1>13. count[t.root] = black[t.root]
  <2>1. \A x \in N : Cardinality(under[x]) <= Memory
    BY <1>1, Measure
  <2>. QED  BY <1>1, <1>2, <1>12, <2>1 DEF Good
<1>14. black[t.root] \in Nat
  BY <1>1, <1>2
<1>. QED  BY <1>12, <1>13, <1>14 DEF Null

-----------------------------------------------------------------------------
(* delete_c_rb. *)

First(t, v) == IF t.node[v].left # Sentinel THEN t.node[v].left ELSE t.node[v].right

(* Where there is a choice the way down to y goes to the left.             *)
Foremost(t, N, under, y) == \A v \in N : y \in under[v] /\ y # v => y \in under[First(t, v)]

LEMMA FirstChild ==
    ASSUME NEW t, NEW N, NEW under, Shape(t, N, under), NEW v \in N
    PROVE  /\ First(t, v) \in N \union {Sentinel}
           /\ \E s \in Side : First(t, v) = t.node[v][s]
           /\ First(t, v) # Sentinel => t.node[First(t, v)].parent = v
           /\ First(t, v) = Sentinel <=> t.node[v].left = Sentinel /\ t.node[v].right = Sentinel
           /\ First(t, v) # Sentinel => First(t, v) \in under[v]
<1>1. \E s \in Side : First(t, v) = t.node[v][s]
  BY DEF First, Side
<1>2. PICK s \in Side : First(t, v) = t.node[v][s]
  BY <1>1
<1>3. /\ t.node[v][s] \in N \union {Sentinel}
      /\ t.node[v][s] # Sentinel => t.node[t.node[v][s]].parent = v
  BY DEF Shape, Links
<1>4. t.node[v][s] # Sentinel => t.node[v][s] \in under[v]
  <2>1. under[v] = {v} \union under[t.node[v][s]] \union under[t.node[v][Other(s)]]
    BY Children
  <2>2. \A y \in N : y \in under[y]
    BY Children
  <2>. QED  BY <1>3, <2>1, <2>2
<1>5. First(t, v) = Sentinel <=> t.node[v].left = Sentinel /\ t.node[v].right = Sentinel
  BY DEF First
<1>. QED  BY <1>1, <1>2, <1>3, <1>4, <1>5

LEMMA ForemostBelow ==
    ASSUME NEW t, NEW N, NEW under, Shape(t, N, under), NEW y \in N, Foremost(t, N, under, y),
           First(t, y) # Sentinel
    PROVE  Foremost(t, N, under, First(t, y))
<1>. DEFINE c == First(t, y)
<1>1. c \in N /\ t.node[c].parent = y
  BY FirstChild
<1>2. c \in under[c]
  BY <1>1, Children DEF Side
<1>. HIDE DEF c
<1>3. ASSUME NEW v \in N, c \in under[v], c # v PROVE c \in under[First(t, v)]
  <2>1. CASE v = y
    BY <1>2, <2>1 DEF c
  <2>2. CASE v # y
    <3>1. y \in under[v]
      BY <1>1, <1>3, UpClosed
    <3>2. y \in under[First(t, v)]
      BY <2>2, <3>1 DEF Foremost
    <3>3. First(t, v) \in N
      <4>1. under[Sentinel] = {}
        BY DEF Shape, Unders
      <4>. QED  BY <3>2, <4>1, FirstChild
    <3>4. under[y] \subseteq under[First(t, v)]
      BY <3>2, <3>3, UpClosed
    <3>5. c \in under[y]
      BY FirstChild DEF c
    <3>. QED  BY <3>4, <3>5
  <2>. QED  BY <2>1, <2>2
<1>. QED  BY <1>3 DEF Foremost, c

LEMMA LeafNode ==
    ASSUME NEW t, NEW N, NEW under, Shape(t, N, under), NEW x \in N, Foremost(t, N, under, x)
    PROVE  LET m == Leaf(t, x)
           IN  /\ m \in N /\ t.node[m].left = Sentinel /\ t.node[m].right = Sentinel
               /\ Foremost(t, N, under, m)
<1>. DEFINE X == N
            Turn(y) == IF t.node[y].left # Sentinel THEN t.node[y].left
                       ELSE IF t.node[y].right # Sentinel THEN t.node[y].right ELSE y
            Good(y, k) ==
                /\ Foremost(t, N, under, y)
                /\ First(t, y) = Sentinel \/ Cardinality(under[y]) <= Memory - k
            T == [k \in 0 .. Memory |-> {y \in X : Good(y, k)}]
            start == x
            step == [y \in X |-> Turn(y)]
            after == CHOOSE f : f = [k \in 0 .. Memory |-> IF k = 0 THEN start ELSE Turn(f[k - 1])]
<1>1. Memory \in Nat
  BY TreeAssumption
<1>2. \A y \in N : Cardinality(under[y]) \in 1 .. Memory
  BY Measure
<1>3. start \in T[0]
  <2>1. Good(x, 0)
    BY <1>1, <1>2
  <2>. HIDE DEF Good
  <2>. QED  BY <1>1, <2>1
<1>4. ASSUME NEW k \in 1 .. Memory, NEW s \in T[k - 1]
      PROVE  s \in X /\ Turn(s) \in T[k]
  <2>1. s \in X /\ Good(s, k - 1) /\ k \in 0 .. Memory
    BY <1>1
  <2>. DEFINE c == First(t, s)
  <2>2. Turn(s) = IF c = Sentinel THEN s ELSE c
    BY DEF First
  <2>. HIDE DEF Turn
  <2>3. CASE c = Sentinel
    <3>1. Turn(s) = s /\ Good(s, k)
      BY <2>1, <2>2, <2>3
    <3>. HIDE DEF Good
    <3>. QED  BY <2>1, <3>1
  <2>4. CASE c # Sentinel
    <3>1. c \in N /\ Turn(s) = c /\ Foremost(t, N, under, c)
      BY <2>1, <2>2, <2>4, FirstChild, ForemostBelow
    <3>2. Cardinality(under[c]) < Cardinality(under[s]) /\ Cardinality(under[c]) \in 0 .. Memory
      <4>1. \E r \in Side : c = t.node[s][r]
        BY <2>1, FirstChild
      <4>. QED  BY <2>1, <4>1, Measure
    <3>3. Cardinality(under[c]) <= Memory - k
      BY <1>1, <1>2, <2>1, <2>4, <3>2
    <3>4. Good(c, k)
      BY <3>1, <3>3
    <3>. HIDE DEF Good, c
    <3>. QED  BY <2>1, <3>1, <3>4
  <2>. QED  BY <2>3, <2>4
<1>5. \A k \in 0 .. Memory : T[k] \subseteq X
  OBVIOUS
<1>. HIDE DEF X, Good, T, start, Turn
<1>6. \A k \in 1 .. Memory : \A s \in T[k - 1] : step[s] \in T[k] /\ step[s] = Turn(s)
  BY <1>4
<1>. HIDE DEF step
<1>7. PICK f \in [0 .. Memory -> X] :
         f[0] = start /\ \A k \in 1 .. Memory : f[k - 1] \in T[k - 1] /\ f[k] = step[f[k - 1]]
  <2>1. \A k \in 1 .. Memory : \A s \in T[k - 1] : step[s] \in T[k]
    BY <1>6
  <2>2. Looped(Memory, X, T, start, step)
    BY TreeAssumption, <1>3, <1>5, <2>1, LoopExists
  <2>. QED  BY <2>2 DEF Looped
<1>8. f = [k \in 0 .. Memory |-> IF k = 0 THEN start ELSE Turn(f[k - 1])]
  <2>1. \A k \in 0 .. Memory : f[k] = IF k = 0 THEN start ELSE Turn(f[k - 1])
    BY TreeAssumption, <1>6, <1>7
  <2>. QED  BY <1>7, <2>1
<1>9. after = [k \in 0 .. Memory |-> IF k = 0 THEN start ELSE Turn(after[k - 1])]
  BY <1>8
<1>10. Leaf(t, x) = after[Memory]
  BY DEF Leaf, Repeated, start, Turn
<1>. HIDE DEF after
<1>11. after[Memory] \in T[Memory]
  <2>1. after[0] = start /\ \A k \in 1 .. Memory : after[k] = Turn(after[k - 1])
    <3>. HIDE DEF start, Turn
    <3>. QED  BY TreeAssumption, <1>9
  <2>2. \A k \in 1 .. Memory : after[k - 1] \in T[k - 1] => after[k] \in T[k]
    BY <1>4, <2>1
  <2>. QED  BY TreeAssumption, <1>3, <2>1, <2>2, LoopStays
<1>. DEFINE m == after[Memory]
<1>12. m \in N /\ Good(m, Memory) /\ Leaf(t, x) = m
  <2>1. m \in X /\ Good(m, Memory)
    BY <1>1, <1>11 DEF T
  <2>. QED  BY <1>10, <2>1 DEF X
<1>. HIDE DEF m
<1>13. First(t, m) = Sentinel
  BY <1>1, <1>2, <1>12 DEF Good
<1>. QED  BY <1>12, <1>13, FirstChild DEF Good

FreedChild(t, p, side, z) == [t EXCEPT !.used = @ \ {z}, !.node[p][side] = Sentinel]

LEMMA ChildFreed ==
    ASSUME NEW t \in Trees, NEW p \in Spot, NEW side \in Side, NEW z
    PROVE  LET w == FreedChild(t, p, side, z)
           IN  /\ w \in Trees /\ w.root = t.root /\ w.used = t.used \ {z}
               /\ \A q \in Spot, s \in Side :
                    w.node[q][s] = IF q = p /\ s = side THEN Sentinel ELSE t.node[q][s]
               /\ Same(t, w, {"parent", "red", "key", "value"})
<1>. DEFINE u == [t EXCEPT !.used = @ \ {z}]
            w == [u EXCEPT !.node[p][side] = Sentinel]
<1>1. u \in Trees /\ u.root = t.root /\ u.used = t.used \ {z} /\ u.node = t.node
  BY DEF Trees
<1>2. FreedChild(t, p, side, z) = w
  BY DEF FreedChild
<1>. HIDE DEF u
<1>3. Sentinel \in Spot
  BY DEF Spot
<1>4. /\ w \in Trees /\ w.root = u.root /\ w.used = u.used
      /\ \A q \in Spot, s \in Side : w.node[q][s] = IF q = p /\ s = side THEN Sentinel ELSE u.node[q][s]
      /\ Same(u, w, {"parent", "red", "key", "value"})
  BY <1>1, <1>3, ChildSet
<1>. HIDE DEF w
<1>. QED  BY <1>1, <1>2, <1>4 DEF Same

(* The side on which a node with a child of its own is freed from it.      *)
FirstSide(t, p) == IF t.node[p].left # Sentinel THEN "left" ELSE "right"

Freed(t, p) == FreedChild(t, p, FirstSide(t, p), t.node[p][FirstSide(t, p)])

LEMMA LeafGone ==
    ASSUME NEW t, NEW N, N = t.used, NEW under, Shape(t, N, under), NEW z \in N, z # t.root,
           t.node[z].left = Sentinel, t.node[z].right = Sentinel, Foremost(t, N, under, z)
    PROVE  LET p == t.node[z].parent
               w == Freed(t, p)
           IN  /\ w.used = N \ {z} /\ p \in N \ {z}
               /\ Shape(w, N \ {z}, Less(under, z)) /\ Foremost(w, N \ {z}, Less(under, z), p)
<1>. DEFINE p == t.node[z].parent
            w == Freed(t, p)
            side == FirstSide(t, p)
            M == N \ {z}
<1>1. /\ p \in N /\ \E s \in Side : t.node[p][s] = z
      /\ N \subseteq Spot /\ t \in Trees /\ ~t.node[Sentinel].red /\ Sentinel \in Spot /\ Sentinel \notin N
      /\ t.root # Sentinel => t.root \in N
      /\ \A q \in N, s \in Side : t.node[q][s] # Sentinel => t.node[t.node[q][s]].parent = q
  <2>1. /\ p \in N /\ \E s \in Side : t.node[p][s] = z
        /\ N \subseteq Place /\ t \in Trees /\ ~t.node[Sentinel].red /\ (t.root # Sentinel => t.root \in N)
        /\ \A q \in N, s \in Side : t.node[q][s] # Sentinel => t.node[t.node[q][s]].parent = q
    BY DEF Shape, Links
  <2>. QED  BY <2>1 DEF Spot, Sentinel, Place
<1>2. \A y \in N : y \in under[y]
  BY Children DEF Side
<1>3. p \in N
  BY <1>1
<1>4. \A s \in Side : under[t.node[p][s]] \intersect under[t.node[p][Other(s)]] = {}
  <2>. HIDE DEF p
  <2>. QED  BY <1>3, Children
<1>5. side \in Side /\ t.node[p][side] = First(t, p)
  BY DEF FirstSide, First, Side
<1>6. z # p /\ z \in under[p]
  <2>1. PICK s \in Side : t.node[p][s] = z
    BY <1>1
  <2>2. under[p] = {p} \union under[t.node[p][s]] \union under[t.node[p][Other(s)]] /\ p \notin under[t.node[p][s]]
    BY <1>1, Children
  <2>. QED  BY <1>2, <2>1, <2>2
<1>7. First(t, p) = z
  <2>1. z \in under[First(t, p)]
    BY <1>1, <1>6 DEF Foremost
  <2>2. PICK s \in Side : t.node[p][s] = z
    BY <1>1
  <2>3. side # s => side = Other(s)
    BY <1>5 DEF Side, Other
  <2>4. under[t.node[p][s]] \intersect under[t.node[p][Other(s)]] = {}
    BY <1>4
  <2>. QED  BY <1>2, <1>5, <2>1, <2>2, <2>3, <2>4
<1>8. /\ w \in Trees /\ w.root = t.root /\ w.used = M
      /\ \A q \in Spot, s \in Side : w.node[q][s] = IF q = p /\ s = side THEN Sentinel ELSE t.node[q][s]
      /\ Same(t, w, {"parent", "red", "key", "value"})
  <2>1. w = FreedChild(t, p, side, z)
    BY <1>5, <1>7 DEF Freed
  <2>2. p \in Spot
    BY <1>1
  <2>. HIDE DEF w, side
  <2>. QED  BY <1>1, <1>5, <2>1, <2>2, ChildFreed
<1>. HIDE DEF w, side
<1>9. ASSUME NEW q \in N, NEW s \in Side
      PROVE  /\ q = p /\ s = side <=> t.node[q][s] = z
             /\ w.node[q][s] = IF t.node[q][s] = z THEN Sentinel ELSE t.node[q][s]
  <2>1. t.node[q][s] = z => q = p
    BY <1>1
  <2>2. s # side => s = Other(side)
    BY <1>5 DEF Side, Other
  <2>3. t.node[p][Other(side)] # z
    <3>1. under[t.node[p][side]] \intersect under[t.node[p][Other(side)]] = {}
      BY <1>5, <1>4
    <3>. QED  BY <1>2, <1>5, <1>7, <3>1
  <2>. QED  BY <1>1, <1>5, <1>7, <1>8, <2>1, <2>2, <2>3
<1>10. Without(t, w, N, z, Sentinel)
  <2>1. ~w.node[Sentinel].red /\ \A q \in N : w.node[q].parent = t.node[q].parent /\ w.node[q].key = t.node[q].key
    BY <1>1, <1>8 DEF Same
  <2>. QED  BY <1>1, <1>8, <1>9, <2>1 DEF Without
<1>11. Shape(w, M, Less(under, z))
  <2>1. "left" \in Side /\ Other("left") = "right"
    BY DEF Side, Other
  <2>2. Without(t, w, N, z, t.node[z][Other("left")]) /\ t.node[z]["left"] = Sentinel
    BY <1>10, <2>1
  <2>. QED  BY <2>1, <2>2, Spliced
<1>12. p \in M
  BY <1>1, <1>6
<1>13. Foremost(w, M, Less(under, z), p)
  <2>1. SUFFICES ASSUME NEW v \in M, p \in Less(under, z)[v], p # v
                 PROVE  p \in Less(under, z)[First(w, v)]
    BY DEF Foremost
  <2>2. v \in N /\ v # z /\ p \in under[v]
    BY <1>1, <2>1 DEF Less
  <2>3. z \in under[v] /\ under[p] \subseteq under[v]
    BY <1>6, <2>2, UpClosed
  <2>4. z \in under[First(t, v)]
    BY <2>2, <2>3 DEF Foremost
  <2>5. First(t, v) \in N /\ First(t, v) # z
    <3>1. under[Sentinel] = {} /\ First(t, v) \in N \union {Sentinel}
      BY <2>2, FirstChild, SMTT(60) DEF Shape, Unders
    <3>2. First(t, v) # Sentinel => t.node[First(t, v)].parent = v
      BY <2>2, FirstChild
    <3>. QED  BY <2>1, <2>4, <3>1, <3>2
  <2>6. p \in under[First(t, v)]
    BY <2>4, <2>5, UpClosed
  <2>7. First(w, v) = First(t, v)
    <3>1. w.node[v]["left"] = t.node[v]["left"] /\ w.node[v]["right"] = t.node[v]["right"]
      BY <1>9, <2>1, <2>2, <1>8, <1>1 DEF Side
    <3>. QED  BY <3>1 DEF First
  <2>. QED  BY <1>1, <1>6, <2>5, <2>6, <2>7 DEF Less
<1>. HIDE DEF p
<1>14. /\ w.used = N \ {z} /\ p \in N \ {z}
       /\ Shape(w, N \ {z}, Less(under, z)) /\ Foremost(w, N \ {z}, Less(under, z), p)
  BY <1>8, <1>11, <1>12, <1>13
<1>. QED  BY <1>14 DEF w, p

(* What is left to free, when at is the next place to look for a leaf.     *)
StillThere(loop, N, k) ==
    /\ N = loop.tree.used /\ loop.at \in N /\ Cardinality(N) <= Memory - k
    /\ \E under : Shape(loop.tree, N, under) /\ Foremost(loop.tree, N, under, loop.at)

AllFreed(loop) == loop.at = Sentinel /\ loop.tree.used = {}

LEMMA DeleteTurns ==
    ASSUME NEW loop, loop.tree \in Trees, loop.at \in Spot, NEW k \in 1 .. Memory,
           NEW N, StillThere(loop, N, k - 1)
    PROVE  LET next == DeleteTurn(loop)
           IN  /\ next = [tree |-> next.tree, at |-> next.at]
               /\ next.tree \in Trees /\ next.at \in Spot
               /\ AllFreed(next) \/ StillThere(next, next.tree.used, k)
<1>. DEFINE t == loop.tree
            z == Leaf(t, loop.at)
            p == t.node[z].parent
<1>1. PICK under : Shape(t, N, under) /\ Foremost(t, N, under, loop.at)
  BY DEF StillThere
<1>2. N = t.used /\ loop.at \in N /\ Cardinality(N) <= Memory - (k - 1)
  BY DEF StillThere
<1>. DEFINE at == loop.at
<1>3. at \in N /\ Foremost(t, N, under, at)
  BY <1>1, <1>2
<1>. HIDE DEF t, at
<1>4. /\ z \in N /\ t.node[z].left = Sentinel /\ t.node[z].right = Sentinel
      /\ Foremost(t, N, under, z)
  <2>1. z = Leaf(t, at)
    BY DEF at
  <2>. QED  BY <1>1, <1>3, <2>1, LeafNode
<1>5. /\ N \subseteq Place /\ Memory \in Nat /\ t \in Trees /\ loop.at # Sentinel
      /\ t.root \in N \union {Sentinel} /\ (t.root # Sentinel => t.node[t.root].parent = Null)
      /\ under[Sentinel] = {} /\ under[t.root] = N /\ Sentinel \in Spot /\ N \subseteq Spot
  <2>1. /\ N \subseteq Place /\ Memory \in Nat /\ t \in Trees
        /\ t.root \in N \union {Sentinel} /\ (t.root # Sentinel => t.node[t.root].parent = Null)
    BY <1>1, TreeAssumption DEF Shape, Links
  <2>2. under[Sentinel] = {} /\ under[t.root] = N
    BY <1>1 DEF Shape, Unders
  <2>3. Sentinel \notin Place
    BY DEF Sentinel, Place
  <2>. QED  BY <1>2, <2>1, <2>2, <2>3 DEF Spot
<1>6. DeleteTurn(loop) =
        IF p = Null THEN [tree |-> [t EXCEPT !.used = @ \ {z}], at |-> Sentinel]
        ELSE [tree |-> Freed(t, p), at |-> p]
  BY <1>5 DEF DeleteTurn, Freed, FreedChild, FirstSide, t
<1>7. CASE z = t.root
  <2>1. p = Null
    BY <1>4, <1>5, <1>7, Children DEF Sentinel, Place
  <2>2. under[z] = {z}
    <3>1. "left" \in Side /\ Other("left") = "right"
      BY DEF Side, Other
    <3>2. under[z] = {z} \union under[t.node[z]["left"]] \union under[t.node[z]["right"]]
      BY <1>1, <1>4, <3>1, Children
    <3>. QED  BY <1>4, <1>5, <3>2
  <2>. DEFINE w == [t EXCEPT !.used = @ \ {z}]
  <2>3. w \in Trees /\ w.used = {}
    BY <1>2, <1>5, <1>7, <2>2 DEF Trees, t
  <2>4. DeleteTurn(loop) = [tree |-> w, at |-> Sentinel]
    BY <1>6, <2>1
  <2>. HIDE DEF w
  <2>. QED  BY <1>5, <2>3, <2>4 DEF AllFreed
<1>8. CASE z # t.root
  <2>. DEFINE w == Freed(t, p)
              M == N \ {z}
  <2>1. p \in N /\ p # Null
    <3>1. p \in N
      BY <1>1, <1>4, <1>8 DEF Shape, Links
    <3>. QED  BY <1>5, <3>1 DEF Null, Place
  <2>2. w.used = M /\ p \in M /\ Shape(w, M, Less(under, z)) /\ Foremost(w, M, Less(under, z), p)
    BY <1>1, <1>2, <1>4, <1>8, LeafGone
  <2>3. DeleteTurn(loop) = [tree |-> w, at |-> p]
    BY <1>6, <2>1
  <2>. HIDE DEF w, p, z
  <2>4. Cardinality(M) <= Memory - k
    <3>1. Cardinality(M) < Cardinality(N)
      <4>1. M \in SUBSET N /\ N \in SUBSET N /\ M \subseteq N /\ M # N
        BY <1>4
      <4>. HIDE DEF M
      <4>. QED  BY <1>1, <4>1, Sizes
    <3>2. Cardinality(M) \in 0 .. Cardinality(N) /\ Cardinality(N) \in 0 .. Memory
      BY <1>1, Sizes
    <3>. QED  BY <1>2, <1>5, <3>1, <3>2
  <2>5. w \in Trees /\ p \in Spot
    BY <1>5, <2>1, <2>2 DEF Shape
  <2>. HIDE DEF M
  <2>6. StillThere([tree |-> w, at |-> p], M, k)
    BY <2>2, <2>4 DEF StillThere
  <2>. QED  BY <2>2, <2>3, <2>5, <2>6
<1>. QED  BY <1>7, <1>8

LEMMA DeletedAll ==
    ASSUME NEW t, NEW N, N = t.used, NEW under, Shape(t, N, under)
    PROVE  Deleted(t).used = {}
<1>. DEFINE X == [tree : Trees, at : Spot]
            Good(loop, k) == AllFreed(loop) \/ StillThere(loop, loop.tree.used, k)
            T == [k \in 0 .. Memory |-> {loop \in X : Good(loop, k)}]
            start == [tree |-> t, at |-> t.root]
            step == [loop \in X |-> DeleteTurn(loop)]
            after == CHOOSE f : f = [k \in 0 .. Memory |-> IF k = 0 THEN start ELSE DeleteTurn(f[k - 1])]
<1>1. /\ Memory \in Nat /\ N \subseteq Spot /\ t \in Trees /\ t.root \in N \union {Sentinel} /\ Sentinel \in Spot
      /\ under[Sentinel] = {} /\ under[t.root] = N
  BY TreeAssumption DEF Shape, Links, Spot, Unders
<1>2. Cardinality(N) \in 0 .. Memory
  BY Sizes
<1>3. start \in T[0]
  <2>1. start \in X /\ start.tree = t /\ start.at = t.root
    BY <1>1
  <2>. HIDE DEF start
  <2>2. CASE t.root = Sentinel
    BY <1>1, <2>1, <2>2 DEF AllFreed
  <2>3. CASE t.root \in N
    <3>1. Foremost(t, N, under, t.root)
      <4>1. ASSUME NEW v \in N, t.root \in under[v], t.root # v PROVE FALSE
        <5>1. under[t.root] \subseteq under[v] /\ v \in N
          BY <4>1, UpClosed
        <5>2. t.node[t.root].parent \in under[v]
          BY <4>1, UpClosed
        <5>3. t.node[t.root].parent = Null /\ Null \notin Place /\ N \subseteq Place
          BY <2>3, Children DEF Shape, Links, Null, Place, Side
        <5>4. under[v] \subseteq N
          BY <1>1, <4>1 DEF Shape, Unders
        <5>. QED  BY <5>2, <5>3, <5>4
      <4>. QED  BY <4>1 DEF Foremost
    <3>2. StillThere(start, N, 0)
      BY <1>1, <1>2, <2>1, <2>3, <3>1 DEF StillThere
    <3>. HIDE DEF X
    <3>. QED  BY <1>1, <2>1, <3>2
  <2>. QED  BY <1>1, <2>2, <2>3
<1>4. ASSUME NEW k \in 1 .. Memory, NEW s \in T[k - 1]
      PROVE  s \in X /\ DeleteTurn(s) \in T[k]
  <2>1. s \in X /\ Good(s, k - 1) /\ k \in 0 .. Memory
    BY <1>1
  <2>. DEFINE next == DeleteTurn(s)
  <2>2. CASE AllFreed(s)
    <3>1. next = s
      BY <2>2 DEF DeleteTurn, AllFreed
    <3>. HIDE DEF next, X
    <3>2. Good(next, k)
      BY <2>2, <3>1
    <3>. HIDE DEF Good
    <3>. QED  BY <2>1, <3>1, <3>2 DEF next
  <2>3. CASE StillThere(s, s.tree.used, k - 1)
    <3>1. s.tree \in Trees /\ s.at \in Spot
      BY <2>1
    <3>2. /\ next = [tree |-> next.tree, at |-> next.at]
          /\ next.tree \in Trees /\ next.at \in Spot
          /\ AllFreed(next) \/ StillThere(next, next.tree.used, k)
      BY <2>3, <3>1, DeleteTurns
    <3>. HIDE DEF next
    <3>3. next \in X
      BY <3>2
    <3>. HIDE DEF X
    <3>. QED  BY <2>1, <3>2, <3>3 DEF next
  <2>. QED  BY <2>1, <2>2, <2>3
<1>5. \A k \in 0 .. Memory : T[k] \subseteq X
  OBVIOUS
<1>. HIDE DEF X, Good, T, start
<1>6. \A k \in 1 .. Memory : \A s \in T[k - 1] : step[s] \in T[k] /\ step[s] = DeleteTurn(s)
  BY <1>4
<1>. HIDE DEF step
<1>7. PICK f \in [0 .. Memory -> X] :
         f[0] = start /\ \A k \in 1 .. Memory : f[k - 1] \in T[k - 1] /\ f[k] = step[f[k - 1]]
  <2>1. \A k \in 1 .. Memory : \A s \in T[k - 1] : step[s] \in T[k]
    BY <1>6
  <2>2. Looped(Memory, X, T, start, step)
    BY TreeAssumption, <1>3, <1>5, <2>1, LoopExists
  <2>. QED  BY <2>2 DEF Looped
<1>8. f = [k \in 0 .. Memory |-> IF k = 0 THEN start ELSE DeleteTurn(f[k - 1])]
  <2>1. \A k \in 0 .. Memory : f[k] = IF k = 0 THEN start ELSE DeleteTurn(f[k - 1])
    BY TreeAssumption, <1>6, <1>7
  <2>. QED  BY <1>7, <2>1
<1>9. after = [k \in 0 .. Memory |-> IF k = 0 THEN start ELSE DeleteTurn(after[k - 1])]
  BY <1>8
<1>10. Repeated(DeleteTurn, start) = after[Memory]
  BY DEF Repeated, start
<1>. HIDE DEF after
<1>11. after[Memory] \in T[Memory]
  <2>1. after[0] = start /\ \A k \in 1 .. Memory : after[k] = DeleteTurn(after[k - 1])
    BY TreeAssumption, <1>9
  <2>2. \A k \in 1 .. Memory : after[k - 1] \in T[k - 1] => after[k] \in T[k]
    BY <1>4, <2>1
  <2>. QED  BY TreeAssumption, <1>3, <2>1, <2>2, LoopStays
<1>. DEFINE last == after[Memory]
<1>12. Good(last, Memory) /\ Deleted(t) = last.tree
  <2>1. Good(last, Memory)
    BY <1>1, <1>11 DEF T
  <2>. QED  BY <1>10, <2>1 DEF Deleted, start
<1>. HIDE DEF last
<1>13. ~StillThere(last, last.tree.used, Memory)
  <2>. DEFINE M == last.tree.used
  <2>1. SUFFICES ASSUME StillThere(last, M, Memory) PROVE FALSE
    OBVIOUS
  <2>2. PICK above : Shape(last.tree, M, above)
    BY <2>1 DEF StillThere
  <2>3. last.at \in M /\ Cardinality(M) <= Memory - Memory
    BY <2>1 DEF StillThere
  <2>. HIDE DEF M
  <2>4. Cardinality(M) \in 0 .. Memory /\ Cardinality({}) \in 0 .. Cardinality(M) /\ Cardinality({}) < Cardinality(M)
    <3>1. {} \in SUBSET M /\ M \in SUBSET M /\ {} \subseteq M /\ {} # M
      BY <2>3
    <3>. QED  BY <2>2, <3>1, Sizes
  <2>. QED  BY <1>1, <2>3, <2>4
<1>. QED  BY <1>12, <1>13 DEF Good, AllFreed

-----------------------------------------------------------------------------
(* The map: a red-black tree of the nodes in memory, and what is in them.  *)

SomeRedBlack(t) == \E under, black : RedBlack(t, t.used, under, black)

Matches(t, c) ==
    /\ \A x \in t.used : t.node[x].key \in DOMAIN c /\ c[t.node[x].key] = t.node[x].value
    /\ \A k \in DOMAIN c : \E x \in t.used : t.node[x].key = k

TreeInv == SomeRedBlack(tree) /\ Matches(tree, contents)

LEMMA NewTreeRedBlack == SomeRedBlack(NewTree) /\ NewTree.used = {}
<1>. DEFINE under == [q \in Spot |-> {}]
            black == [q \in Spot |-> 1]
<1>1. Sentinel \in Spot /\ Blank \in NodeType
  <2>1. Null \in Int /\ Sentinel \in Spot
    BY DEF Null, Spot
  <2>2. Null \in Value
    BY DEF Value
  <2>. HIDE DEF Value
  <2>. QED  BY <2>1, <2>2 DEF Blank, NodeType
<1>2. /\ NewTree \in Trees /\ NewTree.root = Sentinel /\ NewTree.used = {}
      /\ NewTree.node[Sentinel] = Blank
  BY <1>1 DEF NewTree, Trees, Spot
<1>3. ~Blank.red
  BY DEF Blank
<1>. DEFINE t == NewTree
            N == t.used
<1>. HIDE DEF t
<1>4. /\ t \in Trees /\ t.root = Sentinel /\ N = {} /\ ~t.node[Sentinel].red
  BY <1>2, <1>3 DEF t
<1>. HIDE DEF N
<1>5. Links(t, N)
  BY <1>4 DEF Links
<1>6. Unders(t, N, under)
  BY <1>1, <1>4 DEF Unders
<1>7. Ordered(t, N, under) /\ Reds(t, N, {}, {})
  BY <1>4 DEF Ordered, Reds
<1>8. Balanced(t, N, black, Null)
  BY <1>1, <1>4 DEF Balanced
<1>9. RedBlack(t, N, under, black)
  BY <1>4, <1>5, <1>6, <1>7, <1>8 DEF RedBlack, Shape
<1>. QED  BY <1>2, <1>9 DEF SomeRedBlack, t, N

LEMMA InitMatches == TreeInit => TreeInv
  BY NewTreeRedBlack DEF TreeInit, TreeInv, Matches

LEMMA RenewMatches ==
    ASSUME TreeInv, Renew
    PROVE  TreeInv'
<1>1. PICK under, black : RedBlack(tree, tree.used, under, black)
  BY DEF TreeInv, SomeRedBlack
<1>2. Deleted(tree).used = {}
  BY <1>1, DeletedAll DEF RedBlack
<1>3. tree' = NewTree
  BY <1>2 DEF Renew, NewTree
<1>4. contents' = [k \in {} |-> Null]
  BY DEF Renew
<1>. QED  BY <1>3, <1>4, NewTreeRedBlack DEF TreeInv, SomeRedBlack, Matches

LEMMA InsertMatches ==
    ASSUME TreeInv, NEW k \in Key, NEW v \in ValueOf[k], InsertKey(k, v)
    PROVE  TreeInv'
<1>. DEFINE t == tree
            N == t.used
            w == Inserted(t, k, v)
<1>1. PICK under, black : RedBlack(t, N, under, black)
  BY DEF TreeInv, SomeRedBlack
<1>2. /\ Matches(t, contents) /\ N # Place /\ tree' = w
      /\ contents' = IF k \in DOMAIN contents THEN contents
                     ELSE [j \in DOMAIN contents \union {k} |-> IF j = k THEN v ELSE contents[j]]
  BY DEF TreeInv, InsertKey
<1>3. Shape(t, N, under) /\ k \in Int /\ under[Sentinel] = {}
  BY <1>1, TreeAssumption DEF RedBlack, Shape, Unders
<1>4. /\ OnWay(t, N, under, k, WayTo(t, k).at, WayTo(t, k).above)
      /\ WayTo(t, k).at = Sentinel \/ t.node[WayTo(t, k).at].key = k
  BY <1>3, WayEnds
<1>5. CASE WayTo(t, k).at # Sentinel
  <2>1. w = t
    BY <1>5 DEF Inserted
  <2>2. k \in DOMAIN contents
    BY <1>2, <1>4, <1>5 DEF OnWay, Matches
  <2>. QED  BY <1>2, <2>1, <2>2 DEF TreeInv
<1>6. CASE WayTo(t, k).at = Sentinel
  <2>1. OneMore(t, w, k, v)
    BY <1>1, <1>2, <1>6, InsertedLeaf
  <2>2. PICK x \in Place \ N :
           /\ w.used = N \union {x} /\ \E more, count : RedBlack(w, w.used, more, count)
           /\ w.node[x].key = k /\ w.node[x].value = v
           /\ Kept(t, w, N)
    BY <2>1 DEF OneMore
  <2>. HIDE DEF w, N, t
  <2>3. \A q \in N : t.node[q].key # k
    BY <1>3, <1>4, <1>6 DEF OnWay
  <2>4. k \notin DOMAIN contents
    BY <1>2, <2>3 DEF Matches, N
  <2>5. /\ DOMAIN contents' = DOMAIN contents \union {k} /\ contents'[k] = v
        /\ \A j \in DOMAIN contents : contents'[j] = contents[j]
    BY <1>2, <2>4
  <2>6. \A q \in N : w.node[q].key = t.node[q].key /\ w.node[q].value = t.node[q].value
    BY <2>2 DEF Kept
  <2>7. Matches(w, contents')
    BY <1>2, <2>2, <2>5, <2>6 DEF Matches, N
  <2>. QED  BY <1>2, <2>2, <2>7 DEF TreeInv, SomeRedBlack
<1>. QED  BY <1>5, <1>6

LEMMA RemoveMatches ==
    ASSUME TreeInv, NEW k \in Key, RemoveKey(k)
    PROVE  TreeInv'
<1>. DEFINE t == tree
            N == t.used
            z == Find(t, k)
            w == Removed(t, z)
            y == Goes(t, z)
<1>1. PICK under, black : RedBlack(t, N, under, black)
  BY DEF TreeInv, SomeRedBlack
<1>2. /\ Matches(t, contents) /\ tree' = IF z = Sentinel THEN t ELSE w
      /\ contents' = [j \in DOMAIN contents \ {k} |-> contents[j]]
  BY DEF TreeInv, RemoveKey
<1>3. Shape(t, N, under) /\ k \in Int
  BY <1>1, TreeAssumption DEF RedBlack
<1>4. /\ z # Sentinel => z \in N /\ t.node[z].key = k
      /\ z = Sentinel => \A v \in N : t.node[v].key # k
  BY <1>3, FindNode
<1>5. CASE z = Sentinel
  <2>1. k \notin DOMAIN contents
    BY <1>2, <1>4, <1>5 DEF Matches
  <2>2. DOMAIN contents' = DOMAIN contents /\ \A j \in DOMAIN contents : contents'[j] = contents[j]
    BY <1>2, <2>1
  <2>3. Matches(t, contents')
    BY <1>2, <2>2 DEF Matches
  <2>4. tree' = t
    BY <1>2, <1>5
  <2>. QED  BY <2>3, <2>4 DEF TreeInv
<1>6. CASE z # Sentinel
  <2>. HIDE DEF z
  <2>1. /\ y \in N /\ w.used = N \ {y}
        /\ \E above, count : RedBlack(w, w.used, above, count)
        /\ \A q \in w.used : /\ w.node[q].key = t.node[IF q = z THEN y ELSE q].key
                             /\ w.node[q].value = t.node[IF q = z THEN y ELSE q].value
    BY <1>1, <1>4, <1>6, RemovedTree
  <2>2. \A x \in N : t.node[x].key = k => x = z
    BY <1>3, <1>4, <1>6, KeysDiffer
  <2>. HIDE DEF w, y, t
  <2>3. /\ DOMAIN contents' = DOMAIN contents \ {k}
        /\ \A j \in DOMAIN contents \ {k} : contents'[j] = contents[j]
    BY <1>2
  <2>4. ASSUME NEW q \in w.used
        PROVE  w.node[q].key \in DOMAIN contents' /\ contents'[w.node[q].key] = w.node[q].value
    <3>. DEFINE x == IF q = z THEN y ELSE q
    <3>1. x \in N /\ x # z /\ w.node[q].key = t.node[x].key /\ w.node[q].value = t.node[x].value
      BY <2>1
    <3>. HIDE DEF x
    <3>2. t.node[x].key \in DOMAIN contents /\ contents[t.node[x].key] = t.node[x].value
      BY <1>2, <3>1 DEF Matches
    <3>. QED  BY <2>2, <2>3, <3>1, <3>2
  <2>5. ASSUME NEW j \in DOMAIN contents'
        PROVE  \E q \in w.used : w.node[q].key = j
    <3>1. PICK x \in N : t.node[x].key = j
      BY <1>2, <2>3 DEF Matches
    <3>2. x # z
      BY <1>4, <1>6, <2>3, <3>1
    <3>3. CASE x = y
      BY <1>4, <1>6, <2>1, <3>1, <3>2, <3>3
    <3>4. CASE x # y
      BY <2>1, <3>1, <3>2, <3>4
    <3>. QED  BY <3>3, <3>4
  <2>6. Matches(w, contents')
    BY <2>4, <2>5 DEF Matches
  <2>7. tree' = w
    BY <1>2, <1>6
  <2>. QED  BY <2>1, <2>6, <2>7 DEF TreeInv, SomeRedBlack
<1>. QED  BY <1>5, <1>6

LEMMA ValueSet ==
    ASSUME NEW t \in Trees, NEW z \in Spot, NEW v \in Value
    PROVE  LET w == [t EXCEPT !.node[z].value = v]
           IN  /\ w \in Trees /\ w.root = t.root /\ w.used = t.used
               /\ Same(t, w, {"left", "right", "parent", "red", "key"})
               /\ \A q \in Spot : w.node[q].value = IF q = z THEN v ELSE t.node[q].value
<1>. DEFINE w == [t EXCEPT !.node[z].value = v]
            n == [t.node[z] EXCEPT !.value = v]
<1>1. t.node \in [Spot -> NodeType] /\ t.node[z] \in NodeType
  BY DEF Trees
<1>2. /\ n \in NodeType /\ n.value = v
      /\ \A f \in {"left", "right", "parent", "red", "key"} : n[f] = t.node[z][f]
  <2>. HIDE DEF Value
  <2>. QED  BY <1>1 DEF NodeType
<1>3. /\ w = [root |-> w.root, used |-> w.used, node |-> w.node]
      /\ w.root = t.root /\ w.used = t.used /\ w.node = [t.node EXCEPT ![z] = n]
  BY DEF Trees
<1>. HIDE DEF w, n
<1>4. w \in Trees /\ \A q \in Spot : w.node[q] = IF q = z THEN n ELSE t.node[q]
  <2>1. w.node \in [Spot -> NodeType] /\ \A q \in Spot : w.node[q] = IF q = z THEN n ELSE t.node[q]
    BY <1>1, <1>2, <1>3
  <2>. QED  BY <1>3, <2>1 DEF Trees
<1>5. Same(t, w, {"left", "right", "parent", "red", "key"})
  BY <1>2, <1>4 DEF Same
<1>6. \A q \in Spot : w.node[q].value = IF q = z THEN v ELSE t.node[q].value
  BY <1>2, <1>4
<1>. QED  BY <1>3, <1>4, <1>5, <1>6 DEF w

LEMMA ReplaceMatches ==
    ASSUME TreeInv, NEW k \in Key, NEW v \in ValueOf[k], ReplaceValue(k, v)
    PROVE  TreeInv'
<1>. DEFINE t == tree
            N == t.used
            z == Find(t, k)
            w == [t EXCEPT !.node[z].value = v]
<1>1. PICK under, black : RedBlack(t, N, under, black)
  BY DEF TreeInv, SomeRedBlack
<1>2. /\ Matches(t, contents) /\ tree' = w /\ z # Sentinel
      /\ contents' = [contents EXCEPT ![k] = v]
  BY DEF TreeInv, ReplaceValue
<1>3. Shape(t, N, under) /\ k \in Int /\ t \in Trees /\ N \subseteq Spot /\ Sentinel \in Spot
  BY <1>1, TreeAssumption DEF RedBlack, Shape, Links, Spot
<1>4. z \in N /\ t.node[z].key = k
  BY <1>2, <1>3, FindNode
<1>5. v \in Value
  BY DEF Value
<1>. HIDE DEF z
<1>6. /\ w \in Trees /\ w.root = t.root /\ w.used = N
      /\ Same(t, w, {"left", "right", "parent", "red", "key"})
      /\ \A q \in Spot : w.node[q].value = IF q = z THEN v ELSE t.node[q].value
  BY <1>3, <1>4, <1>5, ValueSet
<1>. HIDE DEF w
<1>7. Alike(t, w, N)
  BY <1>3, <1>6 DEF Alike, Same, Side
<1>8. Ordered(w, N, under)
  <2>1. /\ \A q \in N, s \in Side : \A y \in under[t.node[q][s]] :
              y \in N /\ Before(s, t.node[y].key, t.node[q].key)
    BY <1>3, Keys
  <2>2. \A q \in N : w.node[q].key = t.node[q].key /\ \A s \in Side : w.node[q][s] = t.node[q][s]
    BY <1>3, <1>6, <1>7 DEF Same, Alike
  <2>. QED  BY <2>1, <2>2 DEF Ordered
<1>9. RedBlack(w, N, under, black)
  BY <1>1, <1>7, <1>8, AlikeRedBlack
<1>10. \A x, y \in N : t.node[x].key = t.node[y].key => x = y
  BY <1>3, KeysDiffer
<1>11. \A q \in N : w.node[q].key = t.node[q].key /\ w.node[q].value = IF q = z THEN v ELSE t.node[q].value
  BY <1>3, <1>6 DEF Same
<1>12. k \in DOMAIN contents /\ DOMAIN contents' = DOMAIN contents /\ contents'[k] = v
       /\ \A j \in DOMAIN contents : j # k => contents'[j] = contents[j]
  <2>1. k \in DOMAIN contents
    BY <1>2, <1>4 DEF Matches
  <2>. QED  BY <1>2, <2>1
<1>. HIDE DEF t
<1>13. Matches(w, contents')
  <2>1. ASSUME NEW q \in w.used
        PROVE  w.node[q].key \in DOMAIN contents' /\ contents'[w.node[q].key] = w.node[q].value
    <3>1. q \in N /\ t.node[q].key \in DOMAIN contents /\ contents[t.node[q].key] = t.node[q].value
      BY <1>2, <1>6 DEF Matches
    <3>. QED  BY <1>4, <1>10, <1>11, <1>12, <3>1
  <2>2. ASSUME NEW j \in DOMAIN contents'
        PROVE  \E q \in w.used : w.node[q].key = j
    BY <1>2, <1>6, <1>11, <1>12 DEF Matches
  <2>. QED  BY <2>1, <2>2 DEF Matches
<1>. QED  BY <1>2, <1>6, <1>9, <1>13 DEF TreeInv, SomeRedBlack

LEMMA VerifiedTree ==
    ASSUME NEW under, NEW black, RedBlack(tree, tree.used, under, black)
    PROVE  Verified
<1>. DEFINE t == tree
            N == t.used
<1>1. /\ ~t.node[t.root].red /\ ~t.node[Sentinel].red
      /\ \A y \in N, s \in Side : ~(t.node[y].red /\ t.node[t.node[y][s]].red)
      /\ \A x \in N : x # t.root => t.node[x].parent \in N /\ \E s \in Side : t.node[t.node[x].parent][s] = x
  BY DEF RedBlack, Reds, Shape, Links
<1>2. ASSUME NEW x \in N, t.node[x].red
      PROVE  ~t.node[t.node[x].left].red /\ ~t.node[t.node[x].right].red /\ ~t.node[t.node[x].parent].red
  <2>1. x # t.root
    BY <1>1, <1>2
  <2>2. ~t.node[t.node[x]["left"]].red /\ ~t.node[t.node[x]["right"]].red
    BY <1>1, <1>2 DEF Side
  <2>. QED  BY <1>1, <1>2, <2>1, <2>2
<1>3. Blacks(t)[t.root] # Null
  BY BlacksCounted
<1>. QED  BY <1>1, <1>2, <1>3 DEF Verified

LEMMA KeysCounted ==
    ASSUME NEW t, NEW N, N = t.used, NEW under, Shape(t, N, under), NEW c, Matches(t, c)
    PROVE  Cardinality(N) = Cardinality(DOMAIN c)
<1>. DEFINE D == DOMAIN c
            f == [x \in N |-> t.node[x].key]
<1>1. IsFiniteSet(N)
  BY Sizes
<1>2. \A x, y \in N : t.node[x].key = t.node[y].key => x = y
  BY KeysDiffer
<1>3. f \in [N -> D] /\ \A j \in D : \E x \in N : f[x] = j
  BY DEF Matches
<1>4. \A x, y \in N : f[x] = f[y] => x = y
  BY <1>2
<1>. HIDE DEF f, D
<1>5. f \in Bijection(N, D)
  BY <1>3, <1>4 DEF Bijection, Injection, Surjection, IsInjective
<1>6. ExistsBijection(N, D)
  BY <1>5 DEF ExistsBijection
<1>. QED  BY <1>1, <1>6, FS_Bijection DEF D

LEMMA InvIsMap == TreeInv => TreeIsMap
<1>. SUFFICES ASSUME TreeInv PROVE TreeIsMap
  OBVIOUS
<1>. DEFINE N == tree.used
            keys == Iterated(tree)
<1>1. PICK under, black : RedBlack(tree, N, under, black)
  BY DEF TreeInv, SomeRedBlack
<1>2. Shape(tree, N, under) /\ Matches(tree, contents)
  BY <1>1 DEF RedBlack, TreeInv
<1>3. Verified
  BY <1>1, VerifiedTree
<1>4. ASSUME NEW k \in Key
      PROVE  LET z == Find(tree, k) IN
             IF k \in DOMAIN contents THEN z \in tree.used /\ tree.node[z].value = contents[k]
             ELSE z = Sentinel
  <2>. DEFINE z == Find(tree, k)
  <2>1. k \in Int
    BY TreeAssumption
  <2>2. /\ z # Sentinel => z \in N /\ tree.node[z].key = k
        /\ z = Sentinel => \A v \in N : tree.node[v].key # k
    BY <1>2, <2>1, FindNode
  <2>. HIDE DEF z
  <2>3. IF k \in DOMAIN contents THEN z \in N /\ tree.node[z].value = contents[k] ELSE z = Sentinel
    BY <1>2, <2>2 DEF Matches
  <2>. QED  BY <2>3 DEF z
<1>5. DOMAIN contents # {} =>
        /\ Range(keys) = DOMAIN contents
        /\ \A i, j \in DOMAIN keys : i < j => keys[i] < keys[j]
  <2>1. {tree.node[v].key : v \in N} = DOMAIN contents
    BY <1>2 DEF Matches
  <2>2. DOMAIN contents # {} => N # {}
    BY <2>1
  <2>3. N # {} => /\ Range(keys) = {tree.node[v].key : v \in N}
                  /\ \A i, j \in DOMAIN keys : i < j => keys[i] < keys[j]
    BY <1>2, IteratedKeys
  <2>. HIDE DEF keys
  <2>. QED  BY <2>1, <2>2, <2>3
<1>6. Cardinality(tree.used) = Cardinality(DOMAIN contents)
  BY <1>2, KeysCounted
<1>. QED  BY <1>3, <1>4, <1>5, <1>6 DEF TreeIsMap

(* For any keys, any values and any memory: after any insertions, removals *)
(* and replacements and any deletion of the whole map, c_map.c holds what  *)
(* was put into it, and c_rb.c is a red-black tree.                        *)
THEOREM MapHolds == TreeSpec => []TreeIsMap
<1>1. TreeInit => TreeInv
  BY InitMatches
<1>2. TreeInv /\ [TreeNext]_treeVars => TreeInv'
  <2>1. SUFFICES ASSUME TreeInv, [TreeNext]_treeVars PROVE TreeInv'
    OBVIOUS
  <2>2. CASE UNCHANGED treeVars
    BY <2>1, <2>2 DEF treeVars, TreeInv
  <2>3. ASSUME NEW k \in Key, NEW v \in ValueOf[k], InsertKey(k, v) PROVE TreeInv'
    BY <2>1, <2>3, InsertMatches
  <2>4. ASSUME NEW k \in Key, NEW v \in ValueOf[k], ReplaceValue(k, v) PROVE TreeInv'
    BY <2>1, <2>4, ReplaceMatches
  <2>5. ASSUME NEW k \in Key, RemoveKey(k) PROVE TreeInv'
    BY <2>1, <2>5, RemoveMatches
  <2>6. CASE Renew
    BY <2>1, <2>6, RenewMatches
  <2>. QED  BY <2>1, <2>2, <2>3, <2>4, <2>5, <2>6 DEF TreeNext
<1>. QED  BY <1>1, <1>2, InvIsMap, PTL DEF TreeSpec
====
