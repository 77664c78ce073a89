--------------------------- MODULE MCReplayScreen ---------------------------
(* The demo window opens early; one cutoff lies outside it.                *)
EXTENDS ReplayScreen

CONSTANTS early, late, outside
=============================================================================
