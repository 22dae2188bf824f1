---------------------------- MODULE MCFlushState ----------------------------
(***************************************************************************)
(* FlushState on a small tree: 0 - 1 - 2 with a fork 1 - 3, 0 the genesis  *)
(* block.                                                                  *)
(***************************************************************************)
EXTENDS FlushState

MCPrev == [b \in Blocks |-> CASE b = 0 -> NoBlock [] b = 1 -> 0 [] b > 1 -> 1]
MCHeight == [b \in Blocks |-> CASE b < 2 -> b [] b > 1 -> 2]
MCAnc == [b \in Blocks |-> {b} \cup {a \in {0, 1} : a < b}]
=============================================================================
