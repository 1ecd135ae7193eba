----------------------------- MODULE MCBStream -----------------------------
(* Instances of BStream for TLC; the constants are numbers. *)
EXTENDS BStream
=============================================================================
