----------------------------- MODULE MC_Catalog -----------------------------
EXTENDS Catalog

(* One database, two tables, one single-column index.                      *)
MC_Idx == {"a"}
====
