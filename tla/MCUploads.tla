------------------------------ MODULE MCUploads ------------------------------
(***************************************************************************)
(* Constants for the runs of Uploads.                                      *)
(***************************************************************************)
EXTENDS Uploads

\* Every upload carries the same content, so that each may find another's.
MCSame == [u \in Chunked \cup Small |-> "x"]
=============================================================================
