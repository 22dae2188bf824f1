--------------------------- MODULE MCChainIndexer ---------------------------
(***************************************************************************)
(* A chain of two blocks: a is created in block 0 and spent in block 1, b  *)
(* is created in block 1 and not spent.                                    *)
(***************************************************************************)
EXTENDS ChainIndexer

CONSTANTS a, b

MCCreated == [o \in Output |-> IF o = a THEN 0 ELSE 1]
MCSpentAt == [o \in Output |-> IF o = a THEN 1 ELSE 3]
=============================================================================
