--------------------------- MODULE MCCommandLine ---------------------------
(* The tool with every command line.                                       *)
EXTENDS CommandLine

AllVerbs == OneShots \cup Helps \cup {"watch", "none", "unknown"}
=============================================================================
