-------------------------- MODULE MCSharedClients --------------------------
(* Values of the constants of SharedClients for TLC.                         *)
EXTENDS SharedClients

Every == {"phoenix", "arize", "langfuse", "braintrust", "helicone", "otel"}
SomeRows == {{"id"}, {"trace_id", "request_id"}, {"span_id"}}
AllFaults == {"search", "build", "open"}
=============================================================================
