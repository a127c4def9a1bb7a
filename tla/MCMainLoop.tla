----------------------------- MODULE MCMainLoop -----------------------------
(* Two timers of lwIP, one just longer than a turn of the loop. *)
EXTENDS MainLoop

Intervals == <<4, 6>>
=============================================================================
