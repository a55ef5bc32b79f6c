----------------------------- MODULE MCFileStore -----------------------------
(***************************************************************************)
(* Constants for the runs of FileStore.                                    *)
(***************************************************************************)
EXTENDS FileStore

MCSize == [c \in Contents |-> IF c = "x" THEN 1 ELSE 2]

\* All documents over the ids below n: folders, files with the message of
\* their content, and files whose upload failed.
MsgOf(c) == IF c = "x" THEN 1 ELSE 2
DocsBelow(n) ==
    {NewDoc("folder", NoMessage, to) : to \in 0 .. n - 1}
    \cup {NewDoc(c, m, to) : c \in Contents, m \in {0, 1, 2}, to \in 0 .. n - 1}

\* All libraries of n documents, up to the names of the ids: a folder has a
\* smaller id than what it holds, or is gone.
LibrariesOf(n) ==
    {lib \in [1 .. n -> {[d EXCEPT !.trash = t] : d \in DocsBelow(FirstId), t \in {"live", "trashed"}}] :
        \A i \in 1 .. n :
            /\ lib[i].parent \in 0 .. (i - 1) \cup (n + 1) .. (FirstId - 1)
            /\ lib[i].kind # "folder" => lib[i].msg \in {0, MsgOf(lib[i].kind)}}

MCLibraries == UNION {LibrariesOf(n) : n \in 0 .. 3}

\* The libraries in which two requests can meet inside one subtree: at most
\* two documents, or a document below two folders.
MCSmallLibraries == UNION {LibrariesOf(n) : n \in 0 .. 2}
MCNestedLibraries ==
    {lib \in LibrariesOf(3) :
        /\ lib[1].kind = "folder" /\ lib[2].kind = "folder" /\ lib[2].parent = 1
        /\ lib[3].kind # "folder" => lib[3].msg # NoMessage}

MCSweepLibraries == MCSmallLibraries \cup {lib \in MCNestedLibraries : lib[3].parent = 2}

\* Chunked uploads are under way for one place: the root, where it makes no
\* difference, a folder that exists or one that is gone by now.
MCNoSessions == {{}}
MCSessions == {{to} : to \in 0 .. FirstId - 1}
MCTwoSessions == {{0}, {2}}

\* One client, which issues every kind of request.
MCAll == {[c \in Clients |-> Kinds]}

\* One client moves documents in and out of the trash, and the other either
\* adds some, or does the same and purges while the first also moves.
MCSweeps ==
    LET sweep == {"trash", "restore", "delete"}
    IN  {[c \in Clients |-> IF c = "c1" THEN sweep ELSE Adding \ {"init"}],
         [c \in Clients |-> sweep \cup {IF c = "c1" THEN "move" ELSE "purge"}]}

\* Both clients move, or both restore.
MCMoves == {[c \in Clients |-> {"move"}]}
MCRestores == {[c \in Clients |-> {"restore"}]}
=============================================================================
