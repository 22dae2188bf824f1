------------------------------ MODULE CoinsMap ------------------------------
(***************************************************************************)
(* What a stack of coin caches promises: three maps from transactions to   *)
(* coins, NoCoins for a transaction with nothing left.  db survives a      *)
(* crash, tip is the state at the tip of the active chain, view is the     *)
(* state being built on top of it.  Caching is not visible: a view starts  *)
(* as a copy of the tip, Commit makes it the tip, Persist makes the tip    *)
(* durable, and nothing else changes a map.                                *)
(***************************************************************************)
EXTENDS Coins

VARIABLES db, tip, view, open,
          op    \* the operation last called, with its arguments
vars == <<db, tip, view, open, op>>

Empty == [t \in Tx |-> NoCoins]

Init ==
  /\ db = Empty /\ tip = Empty /\ view = Empty
  /\ open = FALSE /\ op = <<"Start">>

Open ==
  /\ op' = <<"Open">>
  /\ ~open /\ open' = TRUE /\ view' = tip /\ UNCHANGED <<db, tip>>

Write(t, coins) ==
  /\ open
  /\ view' = [view EXCEPT ![t] = Meaning(coins)]
  /\ UNCHANGED <<db, tip, open>>

Old(t) == IF view[t] = NoCoins THEN Cleared ELSE view[t]

Spend(t, n) ==
  /\ op' = <<"Spend", t, n>>
  /\ n \in Old(t).vout
  /\ Write(t, Spent(Old(t), n))

Create(t, coins) == op' = <<"Create", t, coins>> /\ Write(t, coins)

Remove(t) == op' = <<"Remove", t>> /\ Write(t, Cleared)

Restore(t, n, nHeight) ==
  /\ op' = <<"Restore", t, n, nHeight>>
  /\ CleanUndo(Old(t), n, nHeight)
  /\ Write(t, Restored(Old(t), n, nHeight))

Commit ==
  /\ op' = <<"Commit">>
  /\ open /\ open' = FALSE /\ tip' = view /\ UNCHANGED <<db, view>>

Discard ==
  /\ op' = <<"Discard">>
  /\ open /\ open' = FALSE /\ view' = tip /\ UNCHANGED <<db, tip>>

Persist ==
  /\ op' = <<"Persist">>
  /\ ~open /\ db' = tip /\ UNCHANGED <<tip, view, open>>

Crash ==
  /\ op' = <<"Start">>
  /\ open' = FALSE /\ tip' = db /\ view' = db /\ UNCHANGED db

Next ==
  \/ Open \/ Commit \/ Discard \/ Persist \/ Crash
  \/ \E t \in Tx :
       \/ Remove(t)
       \/ \E n \in Outputs : Spend(t, n)
       \/ \E coins \in NewCoins : Create(t, coins)
       \/ \E n \in Outputs, h \in Heights \cup {0} : Restore(t, n, h)

Spec == Init /\ [][Next]_vars
=============================================================================
