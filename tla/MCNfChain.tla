------------------------------ MODULE MCNfChain ------------------------------
(***************************************************************************)
(* Small instances of NfChain for TLC.  Without failures: two functions,   *)
(* the first with two workers in one run, and three routes, through both,  *)
(* through both with the gateway in between, and route 0, which is empty.  *)
(* With failures: a third function and a fourth, whose pid collides with   *)
(* that of the first.                                                      *)
(***************************************************************************)
EXTENDS NfChain, TLC

CONSTANTS o2, o3, o4, r1, r2, r3

MCRoute == [i \in 0 .. 2 |->
    CASE i = 0 -> <<>> [] i = 1 -> <<1, 2>> [] i = 2 -> <<1, 0, 2>>]

MCRouteOf == [r \in Request |-> CASE r = r1 -> 1 [] r = r2 -> 2 [] OTHER -> 0]

\* The same shapes without function 1, and a route from 1, where pids collide.
MCFaultyRoute == [i \in 0 .. 3 |->
    CASE i = 0 -> <<>> [] i = 1 -> <<2, 3>> [] i = 2 -> <<3, 0, 2>> [] i = 3 -> <<1, 2>>]

MCFaultyRouteOf == [r \in Request |-> CASE r = r1 -> 1 [] r = r2 -> 2 [] OTHER -> 3]

MCOneThread == [f \in Fn |-> 1]
MCTwoThreads == [f \in Fn |-> IF f = 1 THEN 2 ELSE 1]

\* gateway_nf.c and nf.c: everybody is known to everybody.
MCAllKnown == [p \in Proc |-> Proc]

\* The pid of function 4 has the slot of 1's pid in the tables of the functions,
\* which fill them by id, and 1's has it in the gateway's, which is filled as
\* they report.  The gateway itself is not in its own (gateway.c).
MCCollided == [p \in Proc |-> IF p = 0 THEN {1, 2, 3} ELSE {0, 2, 3, 4}]

MCSymmetry == Permutations({o2, o3, o4})
=============================================================================
