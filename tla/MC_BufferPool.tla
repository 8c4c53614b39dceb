--------------------------- MODULE MC_BufferPool ---------------------------
(* Two sessions, two frames and three pages: more pages than frames, so    *)
(* fetches evict, and two sessions can pin the same page or fill the pool. *)
EXTENDS BufferPool

MC_Frames == {0, 1}
MC_MaxPage == 3
MC_MaxLsn == 3
=============================================================================
