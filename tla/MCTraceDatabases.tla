-------------------------- MODULE MCTraceDatabases --------------------------
(* Small instances of TraceDatabases for TLC. *)
EXTENDS TraceDatabases

CONSTANTS run, retry, a, b, x, c

\* Two coroutines of the run and one of a retry beside it.
ThreeWriters == {a, b, x}
TwoProcs == {run, retry}
RunAndRetry == [w \in ThreeWriters |-> IF w = x THEN retry ELSE run]
SomeOps == {"save_trace", "save_trace_idempotent"}
=============================================================================
