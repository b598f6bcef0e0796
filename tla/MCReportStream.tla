--------------------------- MODULE MCReportStream ---------------------------
(* The report stream with a ring of three slots and enough reports to wrap *)
(* it twice and drop in between.                                           *)
EXTENDS ReportStream
=============================================================================
