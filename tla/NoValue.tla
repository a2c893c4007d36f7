------------------------------ MODULE NoValue ------------------------------
(* What Python writes None and SQL NULL: no row, no cookie, no version.  The *)
(* modules of the services that are checked together share it.              *)
CONSTANT None
=============================================================================
