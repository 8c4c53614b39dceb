------------------------------ MODULE MC_RmFile ------------------------------
(* Model-checking instance of the record heap: two slots per page and up  *)
(* to three data pages, so that pages fill, leave and re-enter the free   *)
(* list in every order, and the chain can hold several pages at once.     *)
EXTENDS RmFile

MC_PerPage  == 2
MC_MaxPages == 3
=============================================================================
