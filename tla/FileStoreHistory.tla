-------------------------- MODULE FileStoreHistory --------------------------
(***************************************************************************)
(* FileStore with a history variable: what the store was when it was last  *)
(* idle.  It is what a client that waits for its answers sees, and the     *)
(* refinement mapping to Library.                                          *)
(***************************************************************************)
EXTENDS FileStore

VARIABLE settled   \* the store when no request was at work

hvars == <<vars, settled>>

Store == [files |-> files, used |-> used, messages |-> messages, issued |-> 1 .. (nextId - 1),
          uploads |-> uploads]

HInit == Init /\ settled = Store

HNext ==
    /\ Next
    /\ settled' = IF Idle' THEN Store' ELSE settled

HistorySpec == HInit /\ [][HNext]_hvars
FairHistorySpec == HistorySpec /\ Fairness

\* One request at a time, a request is one step of the library, whatever
\* calls it was made of: the recursions over a folder, the sharing of
\* messages and the counter updates add up to the effect Library states.
Abstract == INSTANCE Library WITH
    lib <- settled.files, spent <- settled.used,
    messages <- settled.messages, issued <- settled.issued,
    uploads <- settled.uploads

ImplementsLibrary == Abstract!Spec
=============================================================================
