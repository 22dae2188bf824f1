----------------------------- MODULE MCMempool -----------------------------
(***************************************************************************)
(* Mempool on a tree of blocks with two branches.                          *)
(*                                                                         *)
(*   0 - 1 - 2 - 3      1 holds the coinbase c and a, 2 the coinstake s,   *)
(*    \                 b, and d, which depends on a and b, 3 holds e      *)
(*     4 - 5            4 holds x, which spends the same output as a       *)
(*                                                                         *)
(* m spends c, which matures at 3, k spends s and e spends d; d is final   *)
(* from height 2 on, and y spends x.  Coinbases that are not spent are     *)
(* left out.                                                               *)
(***************************************************************************)
EXTENDS Mempool

MCPrev == [b \in Block \ {0} |-> IF b = 4 THEN 0 ELSE b - 1]
MCHeight == [b \in Block |-> IF b > 3 THEN b - 3 ELSE b]
MCvtx == [b \in Block |->
  CASE b = 0 -> <<"g">>
    [] b = 1 -> <<"c", "a">>
    [] b = 2 -> <<"s", "b", "d">>
    [] b = 3 -> <<"e">>
    [] b = 4 -> <<"x">>
    [] b = 5 -> <<>>]
MCvin == [t \in Tx |->
  CASE t \in {"a", "x"} -> {<<"g", 0>>}
    [] t = "b" -> {<<"a", 0>>}
    [] t = "d" -> {<<"a", 1>>, <<"b", 0>>}
    [] t = "e" -> {<<"d", 0>>}
    [] t = "m" -> {<<"c", 0>>}
    [] t = "s" -> {<<"g", 1>>}
    [] t = "k" -> {<<"s", 0>>}
    [] t = "y" -> {<<"x", 0>>}
    [] OTHER -> {}]
MCvout == [t \in Tx |-> CASE t \in {"g", "a"} -> {0, 1} [] t \in {"m", "e", "k", "y"} -> {}
                          [] OTHER -> {0}]
MCLockTime == [t \in Tx |-> IF t = "d" THEN 1 ELSE 0]
=============================================================================
