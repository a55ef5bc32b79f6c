------------------------------ MODULE FileTree ------------------------------
(***************************************************************************)
(* The documents of the `files' collection and the tree they form.  A      *)
(* library is a function from document ids to documents; the collection    *)
(* holds exactly the ids of its domain.  Ids are natural numbers handed    *)
(* out once (uuid4 in the code); 0 is the root, the code's parent_id None. *)
(***************************************************************************)
EXTENDS Integers, FiniteSets, FiniteSetsExt

CONSTANTS Contents,   \* what a file can hold: one value per file_hash
          Size        \* Size[c]: the length in bytes of content c

ASSUME ContentsAssumption == "folder" \notin Contents
ASSUME SizeAssumption == Size \in [Contents -> Nat]

Root == 0
NoMessage == 0

\* A document: its folder, what it is, where it is in the life of the trash
\* ("expired": deleted_expires_at has passed), and its Telegram message.
Doc == [parent : Nat,
        kind   : Contents \cup {"folder"},
        trash  : {"live", "trashed", "expired"},
        msg    : Nat]

IsFolder(d) == d.kind = "folder"

IsLive(d) == d.trash = "live"

\* size_bytes: folders are stored with 0.
Bytes(d) == IF IsFolder(d) THEN 0 ELSE Size[d.kind]

NewDoc(kind, msg, parent) ==
    [parent |-> parent, kind |-> kind, trash |-> "live", msg |-> msg]

Live(lib) == {i \in DOMAIN lib : IsLive(lib[i])}

Children(lib, i) == {c \in DOMAIN lib : lib[c].parent = i}

LiveChildren(lib, i) == {c \in Children(lib, i) : IsLive(lib[c])}

\* The ids of S and of everything below them.
Below(lib, S) ==
    LET reach[n \in 0 .. Cardinality(DOMAIN lib)] ==
            IF n = 0 THEN S
            ELSE reach[n - 1] \cup {c \in DOMAIN lib : lib[c].parent \in reach[n - 1]}
    IN  reach[Cardinality(DOMAIN lib)]

\* What the owner's storage_used_bytes is meant to be.
LiveBytes(lib) == MapThenSumSet(LAMBDA i : Bytes(lib[i]), Live(lib))

(***************************************************************************)
(* What makes a library a tree.                                            *)
(***************************************************************************)
\* No document is its own ancestor: every set of documents has a member
\* whose folder lies outside the set.
Acyclic(lib) ==
    \A S \in SUBSET DOMAIN lib : S # {} => \E i \in S : lib[i].parent \notin S

\* The documents that must lie where they can be found: the folders, and the
\* files but for those of the places P, which files may come into unseen.
Firm(lib, P) == {i \in DOMAIN lib : IsFolder(lib[i]) \/ lib[i].parent \notin P}

\* They lie in the root or in a folder that exists.
Rooted(lib, P) ==
    \A i \in Firm(lib, P) :
        lib[i].parent # Root => /\ lib[i].parent \in DOMAIN lib
                                /\ IsFolder(lib[lib[i].parent])

\* The live ones are reachable: their folder is not in the trash.
Reachable(lib, P) ==
    \A i \in Firm(lib, P) \cap Live(lib) : lib[i].parent # Root => lib[i].parent \in Live(lib)

\* The purge of a folder takes its content with it, so content expires first.
ExpiresInward(lib) ==
    \A i \in DOMAIN lib :
        lib[i].trash = "expired" => \A c \in Children(lib, i) : lib[c].trash = "expired"

TreeClosed(lib, P) == Acyclic(lib) /\ Rooted(lib, P) /\ Reachable(lib, P)
=============================================================================
