--------------------------- MODULE MCReportWorkflow ---------------------------
(* Small instances of ReportWorkflow for TLC.                              *)
EXTENDS ReportWorkflow
=============================================================================
