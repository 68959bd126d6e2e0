----------------------------- MODULE MCLibrary -----------------------------
(***************************************************************************)
(* What the programs are built on, one part in each behaviour: the map of  *)
(* the C containers, the configuration in shared memory, and the functions *)
(* that compute something, each checked on every input of a small set.     *)
(***************************************************************************)
EXTENDS RbTree, Config, Computed

CONSTANTS h1, h2

VARIABLE part

-----------------------------------------------------------------------------
(* The map: six keys, so that every case of both fixups is met.            *)
MCValueOf == [k \in Key |-> IF k = 3 THEN {3, 13} ELSE {k}]

-----------------------------------------------------------------------------
(* The files: a chain, a shop, and what may be wrong with them.            *)
Nf(i, name) ==
    [id |-> i, name |-> name, n_threads |-> 1, memory_mb |-> i, sleep_ns |-> 0, compute |-> 0]
OnNode(nf, i) == [f \in DOMAIN nf \union {"node"} |-> IF f = "node" THEN i ELSE nf[f]]
RouteOf(i, name, hops) == [id |-> i, name |-> name, hops |-> hops]
NodeOf(i, host) == [id |-> i, hostname |-> host, ip_address |-> host, port |-> 8080]
Without(r, f) == [g \in DOMAIN r \ {f} |-> r[g]]

ChainFile ==
    [name    |-> "chain",
     nfs     |-> <<Nf(1, "a"), OnNode(Nf(2, "b"), 1)>>,
     routes  |-> <<RouteOf(1, "r", <<1, 2, 1>>), RouteOf(2, "s", <<2>>)>>,
     nodes   |-> <<NodeOf(0, h2), NodeOf(1, h1)>>,
     tenants |-> <<[id |-> 0, weight |-> 4], [id |-> 1, weight |-> 1]>>]

ShopFile ==
    [name    |-> "shop",
     nfs     |-> <<Nf(2, "c")>>,
     routes  |-> <<RouteOf(2, "t", <<2, 1>>), RouteOf(2, "u", <<1>>)>>,
     nodes   |-> <<NodeOf(1, h1)>>,
     tenants |-> <<[id |-> 1, weight |-> 7]>>]

MCFiles ==
    {ChainFile, ShopFile, Without(ShopFile, "nodes"), Without(ChainFile, "routes"),
     [ChainFile EXCEPT !.nfs[2] = Without(@, "compute")],
     [ShopFile EXCEPT !.routes[2].id = 0],
     [ShopFile EXCEPT !.routes[2] = Without(@, "hops")],
     [ShopFile EXCEPT !.nodes[1] = Without(@, "port")],
     [ChainFile EXCEPT !.tenants[2] = Without(@, "weight")],
     [Without(ShopFile, "name") EXCEPT !.nfs = <<>>]}

-----------------------------------------------------------------------------
(* The inputs of the functions.                                            *)
Amounts == {[Units |-> u, Nanos |-> n] : u \in {0, 1, 18}, n \in {0, 1, 49, 50, 99}}

\* Euros, dollars, yen and Canadian dollars, as a fraction each.
Rates == {[by |-> 1, of |-> 1], [by |-> 113, of |-> 100], [by |-> 126, of |-> 1],
          [by |-> 151, of |-> 100]}

\* Numbers of 13 to 16 digits of every kind of card, their ends drawn.
Starts == {<<4, 4, 3, 2, 8, 0, 1, 5, 6, 1, 5>>, <<3, 7, 8, 2, 8, 2, 2, 4, 6, 3, 1, 0, 0>>,
           <<5, 5, 5, 4, 0, 9, 0, 9, 0, 9, 0, 9, 4, 4>>, <<2, 7, 0, 9, 0, 1, 2, 3, 4, 5, 6, 7, 8, 9>>,
           <<4, 4, 3, 2, 8, 0, 1, 5, 6, 1, 5, 2, 0, 4>>, <<6, 0, 1, 1, 0, 0, 0, 9, 9, 0, 1, 3, 9, 4>>}

Inputs ==
    [what : {"total"}, of : UNION {[1 .. n -> Amounts] : n \in 0 .. 3}]
    \union [what : {"product"}, of : Amounts, n : 0 .. 5]
    \union [what : {"convert"}, of : Amounts, from : Rates, to : Rates]
    \union [what : {"card"}, of : {s \o <<d, e>> : s \in Starts, d \in Digit, e \in Digit}]
    \union [what : {"search"}, of : UNION {Products[i].words : i \in DOMAIN Products} \union {"tea"}]
    \union [what : {"events"}, of : UNION {[1 .. n -> 0 .. 3] : n \in 1 .. 5}]
    \union [what : {"latencies"}, of : UNION {[1 .. n -> 0 .. 3] : n \in 0 .. 5}]

Idle == [what |-> "nothing"]

ASSUME InputsAreAsked == \A question \in Inputs \union {Idle} : Asked(question)

-----------------------------------------------------------------------------
Init ==
    /\ TreeInit /\ ConfigInit
    /\ \/ part \in {"map", "configuration"} /\ input = Idle
       \/ part = "functions" /\ input \in Inputs

Next ==
    \/ part = "map" /\ TreeNext /\ UNCHANGED <<configVars, part, input>>
    \/ part = "configuration" /\ ConfigNext /\ UNCHANGED <<treeVars, part, input>>

Spec == Init /\ [][Next]_<<treeVars, configVars, part, input>>
=============================================================================
