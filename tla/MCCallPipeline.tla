-------------------------- MODULE MCCallPipeline --------------------------
(* Small instances of CallPipeline.  Each scenario is a set of records: two  *)
(* calls at most, told apart by trace ("T", "U") and, where the producer     *)
(* writes one, call id ("H", "J").                                           *)
EXTENDS CallPipeline, TLC

\* Every batch of the call names it; the root comes second.
HintedRecord == {"r1", "r2"}
HintedTraceOf == [r \in HintedRecord |-> "T"]
HintedHintOf == [r \in HintedRecord |-> "H"]
HintedLog == [p \in {"p1"} |-> <<"r1", "r2">>]

\* Only the root batch names the call and all batches share a partition; a
\* second trace whose producer names no call at all uses another partition.
MixedRecord == {"r1", "r2", "r3", "r4"}
MixedTraceOf == [r \in MixedRecord |-> IF r = "r4" THEN "U" ELSE "T"]
MixedHintOf == ("r2" :> "H") @@ [r \in MixedRecord |-> None]
MixedLog == ("p1" :> <<"r1", "r2", "r3">>) @@ ("p2" :> <<"r4">>)

\* The same call, its root batch keyed by the call id and the others by trace.
SplitRecord == {"r1", "r2", "r3"}
SplitTraceOf == [r \in SplitRecord |-> "T"]
SplitHintOf == ("r2" :> "H") @@ [r \in SplitRecord |-> None]
SplitLog == ("p1" :> <<"r1", "r3">>) @@ ("p2" :> <<"r2">>)

\* Two calls in one partition, the batches of each name it; in the other, a
\* batch without trace and without call id, and one that cannot be read.
TwoRecord == {"r1", "r2", "r3", "r4", "r5"}
TwoTraceOf == ("r3" :> "U") @@ ("r4" :> None) @@ [r \in TwoRecord |-> "T"]
TwoHintOf == ("r3" :> "J") @@ ("r4" :> None) @@ [r \in TwoRecord |-> "H"]
TwoLog == ("p1" :> <<"r1", "r2", "r3">>) @@ ("p2" :> <<"r4", "r5">>)

\* One recording, registered under the producer's id.
OneArtifact == {"audio"}
ArtifactOfH == [a \in {"audio"} |-> "H"]

Sym == Permutations(Consumer)
=============================================================================
