------------------------------ MODULE MCStartup ------------------------------
(***************************************************************************)
(* The start of a node with three functions, as a chain and as a shop.     *)
(* With a hash table of five entries the pids of two functions may collide *)
(* with each other's, and one may be killed and start again with its other *)
(* pid.                                                                    *)
(***************************************************************************)
EXTENDS Startup

MCPidsOf == [p \in Proc |->
    CASE p = 0 -> {6} [] p = 1 -> {7} [] p = 2 -> {8} [] p = 3 -> {9, 12}]
=============================================================================
