--------------------------- MODULE MCReportQueue ---------------------------
(* Small instances of ReportQueue: a value, entity 1, and an event, entity 2. *)
EXTENDS ReportQueue
=============================================================================
