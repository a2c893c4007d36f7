----------------------------- MODULE MCBackfill -----------------------------
(* Small instances of Backfill: two jobs over one store.                     *)
EXTENDS Backfill, TLC

\* The OTLP export of f2 names the call of f1, not the one of its path.
MCPathId == ("f1" :> "a") @@ ("f2" :> "b")
MCContentId == [f \in {"f1", "f2"} |-> "a"]

\* The recordings of both calls, then the trace of one.
TwoJobs == <<<<"f1", "f2">>, <<"f2">>>>
TwoSources == <<"audio", "otlp">>

\* The artifacts of both calls, as a manifest maps them.
OneJob == <<<<"f1", "f2">>>>
OneSource == <<"manifest">>
=============================================================================
