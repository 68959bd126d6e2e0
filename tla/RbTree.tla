------------------------------- MODULE RbTree -------------------------------
(***************************************************************************)
(* The red-black tree of the C containers, c_rb.c, and the map made of it, *)
(* c_map.c.  The rates, the catalogue and the carts of the Online Boutique *)
(* are such maps.  The two mirror images in which the code has each case   *)
(* are one here, with the side as a parameter.                             *)
(***************************************************************************)
EXTENDS Integers, Sequences, FiniteSets, Functions

CONSTANTS
    Key,        \* Integers: compare_fn is their order.
    ValueOf,    \* The values each key may get.
    Memory      \* Bound: how many nodes malloc can give at a time.

ASSUME TreeAssumption == Key \subseteq Int /\ Memory \in Nat

VARIABLES
    tree,       \* The struct clib_rb of a map, and the nodes malloc has given.
    contents    \* History: what was inserted and not removed.

treeVars == <<tree, contents>>

Null == -1
Sentinel == 0
Place == 1 .. Memory

(* A loop of the code, in which a turn that finds the condition false      *)
(* changes nothing.  No loop here takes more turns than there are nodes.   *)
Repeated(Turn(_), start) ==
    LET after[n \in 0 .. Memory] == IF n = 0 THEN start ELSE Turn(after[n - 1])
    IN after[Memory]

Blank == [left |-> Sentinel, right |-> Sentinel, parent |-> Null, red |-> FALSE,
          key |-> Null, value |-> Null]

\* new_c_rb.
NewTree == [root |-> Sentinel, used |-> {}, node |-> [x \in {Sentinel} \union Place |-> Blank]]

Other(side) == IF side = "left" THEN "right" ELSE "left"

Coloured(t, black, red) ==
    [t EXCEPT !.node = [x \in DOMAIN t.node |->
        [t.node[x] EXCEPT !.red = (x \in red \/ (@ /\ x \notin black))]]]

(* new takes the place of old under parent; the link back is not set. *)
Hang(t, parent, old, new) ==
    IF parent = Null THEN [t EXCEPT !.root = new]
    ELSE IF t.node[parent].left = old THEN [t EXCEPT !.node[parent].left = new]
    ELSE [t EXCEPT !.node[parent].right = new]

\* The sentinel is a child of many: rotations leave its parent alone.
WithParent(t, x, parent) ==
    IF x = Sentinel THEN t ELSE [t EXCEPT !.node[x].parent = parent]

(* __left_rotate and __right_rotate: x goes down on the side. *)
Rotate(t, x, side) ==
    LET far == Other(side)
        y == t.node[x][far]
        inner == t.node[y][side]
        hung == Hang(WithParent(t, inner, x), t.node[x].parent, x, y)
        below == [hung EXCEPT !.node[x][far] = inner, !.node[y][side] = x]
    IN WithParent(WithParent(below, y, t.node[x].parent), x, y)

SideOf(t, x, parent) == IF x = t.node[parent].left THEN "left" ELSE "right"

\* A turn of __rb_insert_fixup, whose x is red: is its parent red too?
InsertTurn(loop) ==
    LET t == loop.tree
        x == loop.at
        p == t.node[x].parent
        g == t.node[p].parent
        side == SideOf(t, p, g)
        far == Other(side)
        uncle == t.node[g][far]
        isInner == x = t.node[p][far]
        top == IF isInner THEN x ELSE p
        straight == IF isInner THEN Rotate(t, p, side) ELSE t
    IN  IF x = t.root \/ ~t.node[p].red THEN loop
        ELSE IF t.node[uncle].red THEN [tree |-> Coloured(t, {p, uncle}, {g}), at |-> g]
        ELSE [tree |-> Rotate(Coloured(straight, {top}, {g}), g, far),
              at   |-> IF isInner THEN p ELSE x]

InsertFixup(t, x) ==
    LET last == Repeated(InsertTurn, [tree |-> t, at |-> x]).tree
    IN Coloured(last, {last.root}, {})

\* A red sibling of the child on the side goes up: the next one is black.
SiblingBlack(t, p, side) ==
    LET w == t.node[p][Other(side)]
    IN IF t.node[w].red THEN Rotate(Coloured(t, {w}, {p}), p, side) ELSE t

\* A red nephew on the near side goes up: the far one is red.
NephewFar(t, p, side) ==
    LET far == Other(side)
        w == t.node[p][far]
    IN IF t.node[t.node[w][far]].red THEN t
       ELSE Rotate(Coloured(t, {t.node[w][side]}, {w}), w, far)

\* The sibling takes the place and the colour of p, which goes down.
SiblingUp(t, p, side) ==
    LET far == Other(side)
        w == t.node[p][far]
        taken == [t EXCEPT !.node[w].red = t.node[p].red]
    IN Rotate(Coloured(taken, {p, t.node[w][far]}, {}), p, side)

\* A turn of __rb_remove_fixup: one black is missing on the ways through x.
RemoveTurn(loop) ==
    LET x == loop.at
        p == loop.tree.node[x].parent
        side == SideOf(loop.tree, x, p)
        t == SiblingBlack(loop.tree, p, side)
        w == t.node[p][Other(side)]
        up == SiblingUp(NephewFar(t, p, side), p, side)
    IN  IF x = loop.tree.root \/ loop.tree.node[x].red THEN loop
        ELSE IF ~t.node[t.node[w].left].red /\ ~t.node[t.node[w].right].red
             THEN [tree |-> Coloured(t, {}, {w}), at |-> p]
        ELSE [tree |-> up, at |-> up.root]

RemoveFixup(t, x) ==
    LET last == Repeated(RemoveTurn, [tree |-> t, at |-> x])
    IN Coloured(last.tree, {last.at}, {})

-----------------------------------------------------------------------------
\* minimum_c_rb and maximum_c_rb, of the nodes from x down.
Outermost(t, x, side) ==
    LET Turn(y) == IF t.node[y][side] = Sentinel THEN y ELSE t.node[y][side]
    IN Repeated(Turn, x)

\* The way down to a key: its node or the sentinel, and the node before.
WayTo(t, key) ==
    LET Turn(way) ==
            IF way.at = Sentinel \/ t.node[way.at].key = key THEN way
            ELSE [at    |-> t.node[way.at][IF key < t.node[way.at].key THEN "left" ELSE "right"],
                  above |-> way.at]
    IN Repeated(Turn, [at |-> t.root, above |-> Null])

\* find_c_rb.
Find(t, key) == WayTo(t, key).at

\* tree_successor.
Successor(t, x) ==
    LET Turn(way) ==
            IF way.above # Sentinel /\ way.at = t.node[way.above].right
            THEN [at |-> way.above, above |-> t.node[way.above].parent]
            ELSE way
    IN  IF t.node[x].right # Sentinel THEN Outermost(t, t.node[x].right, "left")
        ELSE IF x = Outermost(t, t.root, "right") THEN Null
        ELSE Repeated(Turn, [at |-> x, above |-> t.node[x].parent]).above

(* The iterator of a map, get_next_c_map until it has no more.  Of an      *)
(* empty map it returns the sentinel, with a value that was never set.     *)
Iterated(t) ==
    LET Turn(way) ==
            IF way.at = Null THEN way
            ELSE [at |-> Successor(t, way.at), keys |-> Append(way.keys, t.node[way.at].key)]
    IN Repeated(Turn, [at |-> Outermost(t, t.root, "left"), keys |-> <<>>]).keys

(* insert_c_rb: a key that is there stays as it is, and its new node is    *)
(* forgotten (it is not freed; Memory counts the nodes of the tree).       *)
Inserted(t, key, value) ==
    LET way == WayTo(t, key)
        x == CHOOSE y \in Place : y \notin t.used
        new == [Blank EXCEPT !.parent = way.above, !.red = TRUE, !.key = key, !.value = value]
        s == [t EXCEPT !.used = @ \union {x}, !.node[x] = new]
        side == IF key < t.node[way.above].key THEN "left" ELSE "right"
    IN  IF way.at # Sentinel THEN t
        ELSE IF way.above = Null THEN InsertFixup([s EXCEPT !.root = x], x)
        ELSE InsertFixup([s EXCEPT !.node[way.above][side] = x], x)

\* Mutant of Taking: the value stays where it is.
TakingKey(t, z, y) == [t EXCEPT !.node[z].key = t.node[y].key]

Taking(t, z, y) ==
    [t EXCEPT !.node[z].key = t.node[y].key, !.node[z].value = t.node[y].value]

(* __remove_c_rb and the free of remove_c_map: a node with two children    *)
(* gets the key and the value of its successor, whose node goes.  The      *)
(* parent of the sentinel is what the next removal sets before it is used. *)
Removed(t, z) ==
    LET y == IF Sentinel \in {t.node[z].left, t.node[z].right} THEN z
             ELSE Outermost(t, t.node[z].right, "left")
        x == IF t.node[y].left # Sentinel THEN t.node[y].left ELSE t.node[y].right
        p == t.node[y].parent
        out == Hang([t EXCEPT !.node[x].parent = p], p, y, x)
        moved == Taking(out, z, y)
        fixed == IF t.node[y].red THEN moved ELSE RemoveFixup(moved, x)
    IN  [fixed EXCEPT !.used = @ \ {y}, !.node[y] = Blank, !.node[Sentinel].parent = Null]

\* The first leaf that delete_c_rb comes to from z.
Leaf(t, z) ==
    LET Turn(y) == IF t.node[y].left # Sentinel THEN t.node[y].left
                   ELSE IF t.node[y].right # Sentinel THEN t.node[y].right ELSE y
    IN Repeated(Turn, z)

(* delete_c_rb: leaf after leaf, each freed by the step back to its parent.*)
DeleteTurn(loop) ==
    LET t == loop.tree
        z == Leaf(t, loop.at)
        p == t.node[z].parent
        side == IF t.node[p].left # Sentinel THEN "left" ELSE "right"
    IN  IF loop.at = Sentinel THEN loop
        ELSE IF p = Null THEN [tree |-> [t EXCEPT !.used = @ \ {z}], at |-> Sentinel]
        ELSE [tree |-> [t EXCEPT !.used = @ \ {t.node[p][side]}, !.node[p][side] = Sentinel],
              at   |-> p]

Deleted(t) == Repeated(DeleteTurn, [tree |-> t, at |-> t.root]).tree

-----------------------------------------------------------------------------
TreeInit == tree = NewTree /\ contents = [k \in {} |-> Null]

\* insert_c_map; without memory it returns an error.
InsertKey(k, v) ==
    /\ tree.used # Place
    /\ tree' = Inserted(tree, k, v)
    /\ contents' = IF k \in DOMAIN contents THEN contents
                   ELSE [j \in DOMAIN contents \union {k} |-> IF j = k THEN v ELSE contents[j]]

\* remove_c_map, of a key that is not there too.
RemoveKey(k) ==
    LET z == Find(tree, k) IN
    /\ tree' = IF z = Sentinel THEN tree ELSE Removed(tree, z)
    /\ contents' = [j \in DOMAIN contents \ {k} |-> contents[j]]

\* replace_value_c_map, by an iterator that is at the key.
ReplaceValue(k, v) ==
    LET z == Find(tree, k) IN
    /\ z # Sentinel
    /\ tree' = [tree EXCEPT !.node[z].value = v]
    /\ contents' = [contents EXCEPT ![k] = v]

\* delete_c_map, and new_c_map.
Renew ==
    /\ tree' = [NewTree EXCEPT !.used = Deleted(tree).used]
    /\ contents' = [k \in {} |-> Null]

TreeNext ==
    \/ \E k \in Key : \E v \in ValueOf[k] : InsertKey(k, v) \/ ReplaceValue(k, v)
    \/ \E k \in Key : RemoveKey(k)
    \/ Renew

TreeSpec == TreeInit /\ [][TreeNext]_treeVars

-----------------------------------------------------------------------------
(* The black nodes on each way down from a node, or Null where they differ:*)
(* after n turns, of every node that has no more than n levels below it.   *)
Blacks(t) ==
    LET Turn(count) ==
            [x \in DOMAIN t.node |->
                IF x = Sentinel THEN 1
                ELSE LET left == count[t.node[x].left]
                         right == count[t.node[x].right]
                     IN IF left = Null \/ left # right THEN Null
                        ELSE left + (IF t.node[x].red THEN 0 ELSE 1)]
    IN Repeated(Turn, [x \in DOMAIN t.node |-> 1])

(* What debug_verify_properties asserts after every insertion and removal. *)
Verified ==
    /\ ~tree.node[tree.root].red
    /\ \A x \in tree.used :
        tree.node[x].red =>
            \A y \in {tree.node[x].left, tree.node[x].right, tree.node[x].parent} :
                ~tree.node[y].red
    /\ Blacks(tree)[tree.root] # Null

(* The map holds what was put into it: every key that was inserted and not *)
(* removed since is found, with its value, and no other; the iterator goes *)
(* through them in order, which needs the link of each node to its parent; *)
(* and the nodes in memory are those of the keys, none freed too early and *)
(* none forgotten by a removal or by delete_c_map.  All along the tree is  *)
(* a red-black tree, so that no assertion of it ends the program.          *)
TreeIsMap ==
    /\ Verified
    /\ \A k \in Key :
        LET z == Find(tree, k) IN
        IF k \in DOMAIN contents THEN z \in tree.used /\ tree.node[z].value = contents[k]
        ELSE z = Sentinel
    /\ DOMAIN contents # {} =>
        /\ Range(Iterated(tree)) = DOMAIN contents
        /\ \A i, j \in DOMAIN Iterated(tree) : i < j => Iterated(tree)[i] < Iterated(tree)[j]
    /\ Cardinality(tree.used) = Cardinality(DOMAIN contents)
=============================================================================
