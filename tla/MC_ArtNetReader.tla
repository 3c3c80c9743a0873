------------------------- MODULE MC_ArtNetReader -------------------------
(***************************************************************************)
(* A 2-bit counter, so that nUpdates wraps within a few seconds of          *)
(* timecode, and up to three packets a second (one below a whole period).  *)
(***************************************************************************)
EXTENDS ArtNetReader

MCWidth == 2
MCMaxPerTick == 3

=============================================================================
