------------------------------ MODULE Streams ------------------------------
(***************************************************************************)
(* The two streams of the API: the boards of an organisation and the       *)
(* progress of a backfill job.                                             *)
(***************************************************************************)
EXTENDS Boards, JobStream

(* api/boards.py _stream and build_snapshot, api/backfill.py _stream: what  *)
(* they have sent is what there is.  See BoardIsLatest and NothingUntold.   *)
LatestIsShown == BoardIsLatest /\ NothingUntold
=============================================================================
