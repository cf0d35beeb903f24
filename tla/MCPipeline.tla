----------------------------- MODULE MCPipeline -----------------------------
(* Every line but the second yields a report. *)
EXTENDS Pipeline

MCReports == (1 .. MaxLines) \ {2}
============================================================================
