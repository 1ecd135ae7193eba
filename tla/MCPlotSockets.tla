--------------------------- MODULE MCPlotSockets ---------------------------
(* Instances of PlotSockets for TLC: model values for its constants. *)
EXTENDS PlotSockets

CONSTANTS s1, s2, t1, t2, t3, c1, c2
=============================================================================
