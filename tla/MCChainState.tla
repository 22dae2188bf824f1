---------------------------- MODULE MCChainState ----------------------------
(***************************************************************************)
(* Instances of ChainState on subtrees of                                  *)
(*                                                                         *)
(*        0 -- 1 -- 2 -- 3 -- 4                                            *)
(*              \                                                          *)
(*               5 -- 6 -- 7                                               *)
(*                                                                         *)
(* where 0 is the genesis block and every block has the same proof.        *)
(***************************************************************************)
EXTENDS ChainState

MCPrev == [b \in Blocks \ {0} |-> IF b = 5 THEN 1 ELSE b - 1]
MCHeight == [b \in Blocks |-> IF b > 4 THEN b - 3 ELSE b]
MCAnc == [b \in Blocks |-> IF b > 4 THEN {0, 1} \cup 5 .. b ELSE 0 .. b]
=============================================================================
