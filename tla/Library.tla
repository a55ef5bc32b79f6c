------------------------------ MODULE Library ------------------------------
(***************************************************************************)
(* What the file API promises of a library: every request takes effect in  *)
(* one step, on whole subtrees, and the storage counter always equals the  *)
(* bytes of the live files.  Only the files of chunked uploads come later  *)
(* than they were asked for, and then in the place that was asked for,     *)
(* whatever has become of it.  FileStore, running one request at a time,   *)
(* is shown to implement this specification.                               *)
(***************************************************************************)
EXTENDS FileTree, Functions

CONSTANTS Quota, Libraries, Sessions

VARIABLES lib,       \* the documents
          spent,     \* the bytes charged to the owner
          messages,  \* the messages in the Telegram channel
          issued,    \* every document id ever handed out
          uploads    \* the places that chunked uploads were begun for

vars == <<lib, spent, messages, issued, uploads>>

Referenced(l) == {l[i].msg : i \in DOMAIN l} \ {NoMessage}

Account == spent' = LiveBytes(lib')

SetTrash(S, state) ==
    lib' = [i \in DOMAIN lib |-> IF i \in S THEN [lib[i] EXCEPT !.trash = state] ELSE lib[i]]

\* What a walk finds that starts at i and goes on through live documents only.
LiveBelow(i) == Below(Restrict(lib, Live(lib)), {i})

IsPlace(to) == to = Root \/ (to \in Live(lib) /\ IsFolder(lib[to]))

\* Charging n bytes; nothing is compared for an empty file or folder.
WithinQuota(n) == n = 0 \/ spent + n <= Quota

Init ==
    /\ lib \in Libraries
    /\ uploads \in Sessions
    /\ TreeClosed(lib, uploads)
    /\ spent = LiveBytes(lib)
    /\ messages = Referenced(lib)
    /\ DOMAIN lib \subseteq issued

\* Everything live below i goes to the trash with it.
Trash(i) ==
    /\ i \in Live(lib)
    /\ SetTrash(LiveBelow(i), "trashed")
    /\ Account
    /\ UNCHANGED <<messages, issued, uploads>>

\* Everything below i, and below the trashed folders above i, comes back.
Restore(i) ==
    LET above == {a \in DOMAIN lib \ Live(lib) : i \in Below(lib, {a})}
    IN  /\ i \in DOMAIN lib \ Live(lib)
        /\ SetTrash(Below(lib, above), "live")
        /\ Account
        /\ UNCHANGED <<messages, issued, uploads>>

\* S goes, with all below it and the messages nothing else refers to.
Erase(S) ==
    /\ lib' = Restrict(lib, DOMAIN lib \ Below(lib, S))
    /\ messages' = messages \ (Referenced(lib) \ Referenced(lib'))
    /\ Account
    /\ UNCHANGED <<issued, uploads>>

Delete(i) == i \in DOMAIN lib /\ Erase({i})

Purge == Erase({i \in DOMAIN lib : lib[i].trash = "expired"})

Move(i, to) ==
    /\ i \in Live(lib)
    /\ IsPlace(to) /\ to \notin Below(lib, {i})
    /\ lib' = [lib EXCEPT ![i].parent = to]
    /\ Account
    /\ UNCHANGED <<messages, issued, uploads>>

\* The live part of i's subtree again, under new ids, sharing the messages.
Copy(i, to) ==
    LET S == LiveBelow(i)
        new == DOMAIN lib' \ DOMAIN lib
    IN  /\ i \in Live(lib)
        /\ IsPlace(to) /\ (IsFolder(lib[i]) => to \notin S)
        /\ WithinQuota(LiveBytes(Restrict(lib, S)))
        /\ new \cap issued = {}
        /\ \E f \in Bijection(S, new) :
             lib' = [j \in DOMAIN lib \cup new |->
                       IF j \notin new THEN lib[j]
                       ELSE LET s == CHOOSE s \in S : f[s] = j
                            IN  [lib[s] EXCEPT !.parent = IF s = i THEN to ELSE f[@]]]
        /\ issued' = issued \cup new
        /\ Account
        /\ UNCHANGED <<messages, uploads>>

\* A new document; a file takes over the message of some equal file.
Add(kind, to) ==
    LET same == {e \in DOMAIN lib : lib[e].kind = kind}
        msgs == IF kind = "folder" \/ same = {} THEN {NoMessage} ELSE {lib[e].msg : e \in same}
    IN  /\ \E i \in DOMAIN lib' \ issued :
             /\ \E m \in msgs :
                  lib' = [j \in DOMAIN lib \cup {i} |-> IF j = i THEN NewDoc(kind, m, to) ELSE lib[j]]
             /\ issued' = issued \cup {i}
        /\ Account
        /\ UNCHANGED <<messages, uploads>>

Create(kind, to) ==
    /\ IsPlace(to)
    /\ kind # "folder" => WithinQuota(Size[kind])
    /\ Add(kind, to)

\* A chunked upload is asked for: the place is good and something is free.
BeginUpload(to) ==
    /\ IsPlace(to)
    /\ spent < Quota
    /\ uploads' = uploads \cup {to}
    /\ UNCHANGED <<lib, spent, messages, issued>>

\* Its file comes, be the place gone by now and the quota used up.
CompleteUpload(kind, to) == to \in uploads /\ Add(kind, to)

\* The content of a document arrives in Telegram; the document may be gone.
Deliver ==
    \E m \in messages' \ messages :
        /\ messages' = messages \cup {m}
        /\ \/ UNCHANGED lib
           \/ \E i \in DOMAIN lib : lib' = [lib EXCEPT ![i].msg = m]
        /\ Account
        /\ UNCHANGED <<issued, uploads>>

\* Thirty days have passed for a trashed document.
Expire(i) ==
    /\ lib[i].trash = "trashed"
    /\ SetTrash({i}, "expired")
    /\ UNCHANGED <<spent, messages, issued, uploads>>

Next ==
    \/ \E i \in DOMAIN lib :
         \/ Trash(i) \/ Restore(i) \/ Delete(i) \/ Expire(i)
         \/ \E to \in {Root} \cup DOMAIN lib : Move(i, to) \/ Copy(i, to)
    \/ \E kind \in Contents \cup {"folder"} : \E to \in {Root} \cup DOMAIN lib : Create(kind, to)
    \/ \E to \in {Root} \cup DOMAIN lib : BeginUpload(to)
    \/ \E kind \in Contents : \E to \in uploads : CompleteUpload(kind, to)
    \/ Purge
    \/ Deliver

Spec == Init /\ [][Next]_vars
=============================================================================
