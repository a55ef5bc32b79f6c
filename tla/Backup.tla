------------------------------- MODULE Backup -------------------------------
(***************************************************************************)
(* backup.py: the export of the database and the import of a backup, which *)
(* replaces collections one by one without a transaction, while other      *)
(* requests go on writing.                                                 *)
(***************************************************************************)
EXTENDS Integers, FiniteSets

CONSTANTS Names,        \* names of collections, in the database or in a file
          Allowed,      \* ALLOWED_COLLECTIONS
          Docs,         \* documents
          Files,        \* the backup files an administrator may have
          ExportLimit,  \* to_list(length=100000)
          MaxWrites,    \* bound: writes of other requests
          MaxErrors     \* bound: calls to MongoDB that fail

\* What a file has under a name: nothing (or no list), a list of documents,
\* or a list with an entry that is no document.
Entry == (SUBSET Docs) \cup {{"absent"}, {"malformed"}}

ASSUME AllowedAssumption == Allowed \subseteq Names /\ Allowed # {}
ASSUME DocsAssumption == {"absent", "malformed"} \cap Docs = {}
ASSUME FilesAssumption == Files \subseteq [Names -> Entry]
ASSUME ExportLimitAssumption == ExportLimit \in Nat

VARIABLES db,        \* the documents of each collection
          file,      \* the backup file
          phase,     \* what the request does, or how it ended
          left,      \* the collections this pass has still to treat
          current,   \* the collection it deleted and has now to fill
          restore,   \* to_restore: the names
          snapshot,  \* snapshots
          completed, \* completed
          failed,    \* what _revert could not put back
          before,    \* the database when the request began
          source,    \* the database when the last export began
          exact,     \* whether nothing was written during that export
          written,   \* the collections other requests wrote to since
          writes,    \* number of those writes
          errors     \* number of calls that failed

vars == <<db, file, phase, left, current, restore, snapshot, completed, failed,
          before, source, exact, written, writes, errors>>
progress == <<left, current, restore, snapshot, completed, failed>>
ghosts == <<before, source, exact, written, writes, errors>>

Phases == {"idle", "export", "snapshot", "delete", "insert", "revertDelete", "revertInsert",
           "exported", "restored", "refused", "nothing", "reverted"}

Over == {"idle", "exported", "restored", "refused", "nothing", "reverted"}

Start == before' = db /\ written' = {} /\ UNCHANGED <<writes, errors>>

Fault == errors < MaxErrors /\ errors' = errors + 1 /\ UNCHANGED <<before, source, exact, written, writes>>

\* insert_many of documents S that are there already raises: _id is unique.
Duplicate(n, S) == db[n] \cap S # {} /\ UNCHANGED ghosts

(***************************************************************************)
(* export_database                                                         *)
(***************************************************************************)
BeginExport ==
    /\ phase \in Over
    /\ phase' = "export"
    /\ left' = Names
    /\ file' = [n \in Names |-> {"absent"}]
    /\ source' = db
    /\ exact' = TRUE
    /\ Start
    /\ UNCHANGED <<db, current, restore, snapshot, completed, failed>>

\* Mutant of Listed: to_list stops one document early.
ListedBelow(n) ==
    {S \in SUBSET db[n] : Cardinality(S) = ExportLimit - 1 \/ (S = db[n] /\ Cardinality(S) < ExportLimit)}

\* to_list(length=ExportLimit): all documents, or as many.
Listed(n) ==
    {S \in SUBSET db[n] : Cardinality(S) = ExportLimit \/ (S = db[n] /\ Cardinality(S) < ExportLimit)}

ExportCollection(n) ==
    /\ phase = "export" /\ n \in left
    /\ \E S \in Listed(n) : file' = [file EXCEPT ![n] = S]
    /\ left' = left \ {n}
    /\ phase' = IF left = {n} THEN "exported" ELSE "export"
    /\ UNCHANGED <<db, current, restore, snapshot, completed, failed, ghosts>>

(***************************************************************************)
(* import_database                                                         *)
(***************************************************************************)
\* Mutant of Malformed: what is malformed is noticed later, if at all.
NothingMalformed(f) == {}

\* The collections pass 1 refuses the file for.
Malformed(f) == {n \in Allowed : f[n] = {"malformed"}}

\* Mutant of Restorable: ALLOWED_COLLECTIONS is not consulted.
RestorableByName(f) == {n \in Names : f[n] \notin {{}, {"absent"}, {"malformed"}}}

\* The collections the file has documents for.
Restorable(f) == {n \in Allowed : f[n] \notin {{}, {"absent"}}}

\* Pass 1 validates the whole file before anything is deleted.
BeginImport ==
    /\ phase \in Over
    /\ phase' = IF Malformed(file) # {} THEN "refused"
                ELSE IF Restorable(file) = {} THEN "nothing" ELSE "snapshot"
    /\ restore' = Restorable(file)
    /\ left' = Restorable(file)
    /\ snapshot' = [n \in Names |-> {}]
    /\ completed' = {}
    /\ failed' = {}
    /\ Start
    /\ UNCHANGED <<db, file, current, source, exact>>

\* Pass 2.
Snapshot(n) ==
    /\ phase = "snapshot" /\ n \in left
    /\ snapshot' = [snapshot EXCEPT ![n] = db[n]]
    /\ IF left = {n} THEN left' = restore /\ phase' = "delete"
                     ELSE left' = left \ {n} /\ UNCHANGED phase
    /\ UNCHANGED <<db, file, current, restore, completed, failed, ghosts>>

\* Pass 3: delete_many({}), then insert_many, of each collection in turn.
DeleteCollection(n) ==
    /\ phase = "delete" /\ n \in left
    /\ db' = [db EXCEPT ![n] = {}]
    /\ current' = n
    /\ phase' = "insert"
    /\ UNCHANGED <<file, left, restore, snapshot, completed, failed, ghosts>>

InsertCollection ==
    /\ phase = "insert"
    /\ db[current] \cap file[current] = {}
    /\ db' = [db EXCEPT ![current] = @ \cup file[current]]
    /\ completed' = completed \cup {current}
    /\ left' = left \ {current}
    /\ phase' = IF left = {current} THEN "restored" ELSE "delete"
    /\ UNCHANGED <<file, current, restore, snapshot, failed, ghosts>>

\* Mutant of ToRevert: the collection that failed is left as it is.
CompletedOnly(n) == completed

\* What _revert is called with when collection n fails.
ToRevert(n) == completed \cup {n}

StartRevert(n) == left' = ToRevert(n) /\ phase' = IF ToRevert(n) = {} THEN "reverted" ELSE "revertDelete"

\* A call that raises may have done part of its work, on collection n.
PartlyDeleted(n) == \E S \in SUBSET db[n] : db' = [db EXCEPT ![n] = S]
PartlyInserted(n, T) == \E S \in SUBSET T : db' = [db EXCEPT ![n] = @ \cup S]

DeleteFails(n) ==
    /\ phase = "delete" /\ n \in left
    /\ PartlyDeleted(n)
    /\ StartRevert(n)
    /\ Fault
    /\ UNCHANGED <<file, current, restore, snapshot, completed, failed>>

InsertFails ==
    /\ phase = "insert"
    /\ PartlyInserted(current, file[current])
    /\ StartRevert(current)
    /\ Duplicate(current, file[current]) \/ Fault
    /\ UNCHANGED <<file, current, restore, snapshot, completed, failed>>

(***************************************************************************)
(* _revert                                                                 *)
(***************************************************************************)
\* The revert of collection n is over.
Reverted(n) ==
    /\ left' = left \ {n}
    /\ phase' = IF left = {n} THEN "reverted" ELSE "revertDelete"

\* A collection that was empty is not inserted into.
RevertDelete(n) ==
    /\ phase = "revertDelete" /\ n \in left
    /\ db' = [db EXCEPT ![n] = {}]
    /\ IF snapshot[n] = {} THEN Reverted(n) /\ UNCHANGED current
                           ELSE current' = n /\ phase' = "revertInsert" /\ UNCHANGED left
    /\ UNCHANGED <<file, restore, snapshot, completed, failed, ghosts>>

RevertInsert ==
    /\ phase = "revertInsert"
    /\ db[current] \cap snapshot[current] = {}
    /\ db' = [db EXCEPT ![current] = @ \cup snapshot[current]]
    /\ Reverted(current)
    /\ UNCHANGED <<file, current, restore, snapshot, completed, failed, ghosts>>

RevertFails(n) ==
    /\ \/ phase = "revertDelete" /\ n \in left /\ PartlyDeleted(n) /\ Fault
       \/ /\ phase = "revertInsert" /\ n = current
          /\ PartlyInserted(n, snapshot[n])
          /\ Duplicate(n, snapshot[n]) \/ Fault
    /\ failed' = failed \cup {n}
    /\ Reverted(n)
    /\ UNCHANGED <<file, current, restore, snapshot, completed>>

(***************************************************************************)
(* Another request inserts or deletes a document, as create_folder and     *)
(* permanent_delete do.                                                    *)
(***************************************************************************)
Write(n) ==
    /\ writes < MaxWrites
    /\ writes' = writes + 1
    /\ \E d \in Docs : \E S \in {db[n] \cup {d}, db[n] \ {d}} : S # db[n] /\ db' = [db EXCEPT ![n] = S]
    /\ written' = written \cup {n}
    /\ exact' = (exact /\ phase # "export")
    /\ UNCHANGED <<file, phase, progress, before, source, errors>>

Init ==
    /\ db \in [Names -> SUBSET Docs]
    /\ file \in Files
    /\ phase = "idle"
    /\ left = {}
    /\ current = CHOOSE n \in Names : TRUE
    /\ restore = {}
    /\ snapshot = [n \in Names |-> {}]
    /\ completed = {}
    /\ failed = {}
    /\ before = db
    /\ source = db
    /\ exact = FALSE
    /\ written = {}
    /\ writes = 0
    /\ errors = 0

Next ==
    \/ BeginExport \/ BeginImport
    \/ \E n \in Names : \/ ExportCollection(n) \/ Snapshot(n) \/ DeleteCollection(n) \/ DeleteFails(n)
                        \/ RevertDelete(n) \/ RevertFails(n) \/ Write(n)
    \/ InsertCollection \/ InsertFails \/ RevertInsert

Spec == Init /\ [][Next]_vars

(***************************************************************************)
(* Properties.                                                             *)
(***************************************************************************)
\* The database only ever holds documents, and every variable has its type.
TypeOK ==
    /\ db \in [Names -> SUBSET Docs]
    /\ file \in [Names -> Entry]
    /\ phase \in Phases
    /\ left \subseteq Names /\ restore \subseteq Allowed /\ completed \subseteq restore
    /\ failed \subseteq restore /\ written \subseteq Names
    /\ current \in Names
    /\ snapshot \in [Names -> SUBSET Docs]
    /\ before \in [Names -> SUBSET Docs] /\ source \in [Names -> SUBSET Docs]
    /\ exact \in BOOLEAN /\ writes \in Nat /\ errors \in Nat

\* An import is all or nothing, as far as no one else writes: a failed one
\* leaves every collection as it was, save those it reports it could not
\* revert; one that succeeds leaves exactly what the file has.
AllOrNothing ==
    /\ phase = "reverted" => \A n \in Names \ (failed \cup written) : db[n] = before[n]
    /\ phase = "restored" => \A n \in restore \ written : db[n] = file[n]

\* At every moment, a collection outside ALLOWED_COLLECTIONS, or without
\* documents in the file, is only changed by other requests.
OthersUntouched ==
    \A n \in Names \ written : n \notin Allowed \/ n \notin restore => db[n] = before[n]

\* Importing what was exported, when nobody wrote during either, brings back
\* every collection that had documents.
RoundTrip ==
    phase = "restored" /\ exact =>
        \A n \in Allowed \ written : source[n] # {} => db[n] = source[n]
=============================================================================
