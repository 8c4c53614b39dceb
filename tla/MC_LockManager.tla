--------------------------- MODULE MC_LockManager ---------------------------
(* Three transactions over two tables: enough for two shared holders while *)
(* a third is refused, for an upgrade racing another's unlock loop, and    *)
(* for a transaction holding one table while requesting the other.         *)
EXTENDS LockManager, TLC

MC_Symmetry == Permutations(Txns) \cup Permutations(Tables)
=============================================================================
