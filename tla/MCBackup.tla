------------------------------ MODULE MCBackup ------------------------------
(***************************************************************************)
(* Constants for the run of Backup: files written by hand, which have the  *)
(* document "b" where they have any.                                       *)
(***************************************************************************)
EXTENDS Backup

MCFiles == [Names -> {{"absent"}, {"malformed"}, {}, {"b"}}]
=============================================================================
