---------------------------- MODULE MCBlockCoins ----------------------------
(***************************************************************************)
(* BlockCoins on a small tree of blocks.                                   *)
(*                                                                         *)
(*   0 - 1 - 2 - 3         t is created and spent in 2, where a is spent   *)
(*       |   |             completely, one output after the other          *)
(*       |   +-- 4         tries to create t again                         *)
(*       +-- 5 - 6         a branch with a proof-of-stake block 5, which   *)
(*       |   |             spends a in part; 6 spends all of its stake s   *)
(*       |   +-- 10        tries to create s again, which is not spent     *)
(*       +-- 7             spends an output that is not there              *)
(*       +-- 8             pays too much, refused at the end               *)
(*       +-- 9             one transaction spends both outputs of a, and   *)
(*                         one of the block's own coinbase                 *)
(*                                                                         *)
(* The coinbases are a, c and d at heights 1, 2 and 3.                     *)
(* Block 1 has the premine: the subsidy is 9 at height 1 and 3 above.      *)
(***************************************************************************)
EXTENDS BlockCoins

MCPrev == [b \in Block |-> CASE b = 0 -> NoBlock [] b \in {1, 2, 3, 6} -> b - 1
                             [] b \in {5, 7, 8, 9} -> 1 [] b = 4 -> 2 [] b = 10 -> 5]
MCChain[b \in Block] == IF b = 0 THEN {0} ELSE MCChain[MCPrev[b]] \cup {b}
MCHeight == [b \in Block |-> CASE b < 2 -> b [] b \in {3, 4, 6, 10} -> 3 [] OTHER -> 2]
MCvtx == [b \in Block |->
  CASE b = 0 -> <<>>
    [] b = 1 -> <<"a">>
    [] b = 2 -> <<"c", "t", "u">>
    [] b = 3 -> <<"d", "w">>
    [] b = 4 -> <<"d", "t">>
    [] b = 5 -> <<"c", "s">>
    [] b = 6 -> <<"d", "x">>
    [] b = 7 -> <<"c", "u">>
    [] b = 8 -> <<"c", "t">>
    [] b = 9 -> <<"c", "v">>
    [] b = 10 -> <<"d", "s">>]
MCvin == [t \in Tx |->
  CASE t = "t" -> << <<"a", 0>> >>
    [] t = "u" -> << <<"t", 0>>, <<"a", 1>> >>
    [] t = "s" -> << <<"a", 1>> >>
    [] t = "v" -> << <<"a", 1>>, <<"c", 0>>, <<"a", 0>> >>
    [] t = "w" -> << <<"u", 0>> >>
    [] t = "x" -> << <<"s", 1>> >>
    [] OTHER -> <<>>]
MCvout == [t \in Tx |-> CASE t = "a" -> {0, 1} [] t \in {"c", "t", "u"} -> {0} [] t = "s" -> {1}
                          [] OTHER -> {}]
MCReward == [b \in Block |-> CASE b = 0 -> 0 [] b = 1 -> 9 [] b = 8 -> 4 [] OTHER -> 3]
MCSubsidy == [h \in 1..5 |-> IF h = 1 THEN 9 ELSE 3]
=============================================================================
