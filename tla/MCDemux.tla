------------------------------- MODULE MCDemux -------------------------------
(* A reader with two small streams.                                        *)
EXTENDS Demux
=============================================================================
