--------------------------- MODULE MC_DisplaySwap ---------------------------
(* A caller paced by the vertical blank, one buffer_swap a frame; four     *)
(* frames take every buffer round the rotation more than once.            *)
EXTENDS DisplaySwap

MCOneSwapPerFrame == 1
MCMaxFrame == 4

=============================================================================
