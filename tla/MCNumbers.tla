----------------------------- MODULE MCNumbers -----------------------------
(* The conversion of every float of a small format.                        *)
EXTENDS Conversions
=============================================================================
