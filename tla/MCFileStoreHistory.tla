------------------------- MODULE MCFileStoreHistory -------------------------
(***************************************************************************)
(* The run that needs the history variable.                                *)
(***************************************************************************)
EXTENDS FileStoreHistory, MCFileStore
=============================================================================
