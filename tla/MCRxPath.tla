------------------------------ MODULE MCRxPath ------------------------------
(* Small instances of RxPath for TLC. *)
EXTENDS RxPath
=============================================================================
