---------------------------- MODULE BackupProofs ----------------------------
(***************************************************************************)
(* That an import is all or nothing, touches nothing else, and brings back *)
(* what was exported: for any collections, documents and backup files, any *)
(* number of calls that fail and of requests that write meanwhile.         *)
(***************************************************************************)
EXTENDS Backup, FiniteSetTheorems, TLAPS

Passes == {"snapshot", "delete", "insert", "revertDelete", "revertInsert"}
Imported == Passes \cup {"restored", "reverted"}

\* Where the request is: what it has done and what it has left to do make up
\* what it restores.
Places ==
    /\ phase \in Imported => restore = Restorable(file) /\ Malformed(file) = {}
    /\ phase \in Passes => left \subseteq restore
    /\ phase \in {"insert", "revertInsert"} => current \in left
    /\ phase = "snapshot" => completed = {}
    /\ phase \in {"delete", "insert"} => left = restore \ completed
    /\ phase = "restored" => completed = restore
    /\ phase = "reverted" => left = {}

\* What is in the collection n that no one else writes to: a snapshot, once
\* taken, is what n held at first, and until the request comes to n, and once
\* it has reverted it, n holds that.
Holds(n) ==
    /\ n \notin restore => db[n] = before[n]
    /\ phase = "snapshot" => db[n] = before[n]
    /\ phase = "snapshot" /\ n \in restore \ left => snapshot[n] = before[n]
    /\ phase \in Passes \ {"snapshot"} /\ n \in restore => snapshot[n] = before[n]
    /\ phase = "delete" /\ n \in left => db[n] = before[n]
    /\ phase = "insert" /\ n \in left \ {current} => db[n] = before[n]
    /\ phase \in {"insert", "revertInsert"} /\ n = current => db[n] = {}
    /\ phase \in {"delete", "insert", "restored"} /\ n \in completed => db[n] = file[n]
    /\ phase \in {"revertDelete", "revertInsert", "reverted"} /\ n \in restore \ (left \cup failed) =>
           db[n] = before[n]

IInv == TypeOK /\ Places /\ \A n \in Names \ written : Holds(n)

\* What can be restored is a set of documents.
LEMMA RestorableType ==
    ASSUME TypeOK, Malformed(file) = {}
    PROVE  \A n \in Restorable(file) : n \in Allowed /\ n \in Names /\ file[n] \in SUBSET Docs
BY AllowedAssumption DEF TypeOK, Malformed, Restorable, Entry

LEMMA InitHolds == Init => IInv
<1> SUFFICES ASSUME Init
             PROVE  IInv
  OBVIOUS
<1>1. current \in Names
  BY AllowedAssumption DEF Init
<1>2. TypeOK
  BY <1>1, FilesAssumption, AllowedAssumption DEF Init, TypeOK, Phases
<1>3. QED
  BY <1>2 DEF Init, IInv, Places, Holds, Passes, Imported

\* Between two requests nothing of an import goes on; the next one begins
\* with the database as it is.
LEMMA BeginKeeps == IInv /\ (BeginExport \/ BeginImport) => IInv'
<1> SUFFICES ASSUME IInv, BeginExport \/ BeginImport
             PROVE  IInv'
  OBVIOUS
<1> USE DEF IInv, Passes, Imported
<1>1. CASE BeginExport
  <2>1. TypeOK'
    BY <1>1 DEF BeginExport, TypeOK, Start, Entry, Phases
  <2>2. Places' /\ \A n \in Names : Holds(n)'
    BY <1>1 DEF BeginExport, Places, Holds, Start
  <2>3. QED
    BY <2>1, <2>2
<1>2. CASE BeginImport
  <2>1. Restorable(file) \subseteq Allowed
    BY DEF Restorable
  <2>2. TypeOK'
    BY <1>2, <2>1, AllowedAssumption DEF BeginImport, TypeOK, Start, Phases
  <2>3. phase' \in {"refused", "nothing", "snapshot"}
    BY <1>2 DEF BeginImport
  <2>4. Places'
    BY <1>2, <2>3 DEF BeginImport, Places, Restorable, Malformed
  <2>5. \A n \in Names : Holds(n)'
    BY <1>2, <2>3 DEF BeginImport, Holds, Start
  <2>6. QED
    BY <2>2, <2>4, <2>5
<1>3. QED
  BY <1>1, <1>2

LEMMA ReadKeeps == \A n \in Names : IInv /\ (ExportCollection(n) \/ Snapshot(n)) => IInv'
<1> SUFFICES ASSUME NEW n \in Names, IInv, ExportCollection(n) \/ Snapshot(n)
             PROVE  IInv'
  OBVIOUS
<1> USE DEF IInv, Passes, Imported
<1>1. CASE ExportCollection(n)
  <2>1. PICK S \in SUBSET Docs : file' = [file EXCEPT ![n] = S]
    BY <1>1 DEF ExportCollection, Listed, TypeOK
  <2>2. TypeOK'
    BY <1>1, <2>1 DEF ExportCollection, TypeOK, Entry, Phases, ghosts
  <2>3. Places' /\ \A m \in Names \ written : Holds(m)'
    BY <1>1 DEF ExportCollection, Places, Holds, ghosts
  <2>4. QED
    BY <1>1, <2>2, <2>3 DEF ExportCollection, ghosts
<1>2. CASE Snapshot(n)
  <2>1. TypeOK'
    BY <1>2, AllowedAssumption DEF Snapshot, TypeOK, Phases, ghosts
  <2>2. Places'
    BY <1>2 DEF Snapshot, Places, Restorable, Malformed
  <2>3. \A m \in Names \ written : Holds(m)'
    BY <1>2 DEF Snapshot, Places, Holds, TypeOK, ghosts
  <2>4. QED
    BY <1>2, <2>1, <2>2, <2>3 DEF Snapshot, ghosts
<1>3. QED
  BY <1>1, <1>2

\* The two calls of pass 3; where insert_many succeeds, what it finds is what
\* delete_many left.
LEMMA ReplaceKeeps == \A n \in Names : IInv /\ (DeleteCollection(n) \/ InsertCollection) => IInv'
<1> SUFFICES ASSUME NEW n \in Names, IInv, DeleteCollection(n) \/ InsertCollection
             PROVE  IInv'
  OBVIOUS
<1> USE DEF IInv, Passes, Imported
<1>1. CASE DeleteCollection(n)
  <2>1. TypeOK'
    BY <1>1 DEF DeleteCollection, TypeOK, Phases, ghosts
  <2>2. Places'
    BY <1>1 DEF DeleteCollection, Places, Restorable, Malformed
  <2>3. \A m \in Names \ written : Holds(m)'
    BY <1>1 DEF DeleteCollection, Places, Holds, TypeOK, ghosts
  <2>4. QED
    BY <1>1, <2>1, <2>2, <2>3 DEF DeleteCollection, ghosts
<1>2. CASE InsertCollection
  <2>1. phase = "insert" /\ current \in left /\ current \in restore /\ file[current] \in SUBSET Docs
    BY <1>2, RestorableType DEF InsertCollection, Places
  <2>2. TypeOK'
    BY <1>2, <2>1 DEF InsertCollection, TypeOK, Phases, ghosts
  <2>3. Places'
    BY <1>2, <2>1 DEF InsertCollection, Places, TypeOK, Restorable, Malformed
  <2>4. \A m \in Names \ written : Holds(m)'
    BY <1>2, <2>1, <2>3 DEF InsertCollection, Places, Holds, TypeOK, ghosts
  <2>5. QED
    BY <1>2, <2>2, <2>3, <2>4 DEF InsertCollection, ghosts
<1>3. QED
  BY <1>1, <1>2

\* A call that fails changes its own collection only, and that one is among
\* those to revert.
LEMMA FailureKeeps == \A n \in Names : IInv /\ (DeleteFails(n) \/ InsertFails) => IInv'
<1> SUFFICES ASSUME NEW i \in Names, IInv, DeleteFails(i) \/ InsertFails
             PROVE  IInv'
  OBVIOUS
<1> USE DEF IInv, Passes, Imported
<1>1. PICK n \in Names :
        /\ n \in left /\ n \in restore
        /\ phase = "delete" \/ (phase = "insert" /\ n = current)
        /\ StartRevert(n)
        /\ \E S \in SUBSET Docs : db' = [db EXCEPT ![n] = S]
        /\ UNCHANGED <<file, current, restore, snapshot, completed, failed>>
        /\ UNCHANGED <<before, source, exact, written, writes>>
        /\ errors' \in Nat
  <2>1. CASE DeleteFails(i)
    <3>1. i \in left /\ i \in restore /\ phase = "delete"
      BY <2>1 DEF DeleteFails, Places
    <3>2. PICK S \in SUBSET Docs : db' = [db EXCEPT ![i] = S]
      BY <2>1 DEF DeleteFails, PartlyDeleted, TypeOK
    <3>3. errors' \in Nat /\ UNCHANGED <<before, source, exact, written, writes>>
      BY <2>1 DEF DeleteFails, Fault, TypeOK
    <3>4. QED
      BY <2>1, <3>1, <3>2, <3>3 DEF DeleteFails
  <2>2. CASE InsertFails
    <3>1. current \in left /\ current \in restore /\ file[current] \in SUBSET Docs
      BY <2>2, RestorableType DEF InsertFails, Places
    <3>2. PICK S \in SUBSET file[current] : db' = [db EXCEPT ![current] = @ \cup S]
      BY <2>2 DEF InsertFails, PartlyInserted
    <3>3. current \in Names /\ db[current] \cup S \in SUBSET Docs
      BY <3>1, <3>2 DEF TypeOK
    <3>4. db' = [db EXCEPT ![current] = db[current] \cup S]
      BY <3>2
    <3>5. errors' \in Nat /\ UNCHANGED <<before, source, exact, written, writes>>
      BY <2>2 DEF InsertFails, Duplicate, Fault, ghosts, TypeOK
    <3>6. QED
      BY <2>2, <3>1, <3>3, <3>4, <3>5 DEF InsertFails
  <2>3. QED
    BY <2>1, <2>2
<1>2. left' = completed \cup {n} /\ phase' = "revertDelete"
  BY <1>1 DEF StartRevert, ToRevert
<1>3. TypeOK'
  BY <1>1, <1>2, AllowedAssumption DEF TypeOK, Phases
<1>4. Places'
  BY <1>1, <1>2 DEF Places, TypeOK, Restorable, Malformed
<1>5. \A m \in Names \ written : Holds(m)'
  BY <1>1, <1>2 DEF Places, Holds, TypeOK
<1>6. QED
  BY <1>1, <1>3, <1>4, <1>5

\* A collection that was reverted is as it was, or is reported as failed.
LEMMA RevertKeeps == \A n \in Names : IInv /\ (RevertDelete(n) \/ RevertInsert \/ RevertFails(n)) => IInv'
<1> SUFFICES ASSUME NEW n \in Names, IInv, RevertDelete(n) \/ RevertInsert \/ RevertFails(n)
             PROVE  IInv'
  OBVIOUS
<1> USE DEF IInv, Passes, Imported
<1>1. CASE RevertDelete(n)
  <2>1. n \in left /\ n \in restore /\ phase = "revertDelete"
    BY <1>1 DEF RevertDelete, Places
  <2>2. TypeOK'
    BY <1>1 DEF RevertDelete, Reverted, TypeOK, Phases, ghosts
  <2>3. Places'
    BY <1>1, <2>1 DEF RevertDelete, Reverted, Places, Restorable, Malformed
  <2>4. \A m \in Names \ written : Holds(m)'
    BY <1>1, <2>1 DEF RevertDelete, Reverted, Places, Holds, TypeOK, ghosts
  <2>5. QED
    BY <1>1, <2>2, <2>3, <2>4 DEF RevertDelete, ghosts
<1>2. CASE RevertInsert
  <2>1. current \in left /\ current \in restore /\ phase = "revertInsert"
    BY <1>2 DEF RevertInsert, Places
  <2>2. TypeOK'
    BY <1>2, <2>1 DEF RevertInsert, Reverted, TypeOK, Phases, ghosts
  <2>3. Places'
    BY <1>2, <2>1 DEF RevertInsert, Reverted, Places, Restorable, Malformed
  <2>4. \A m \in Names \ written : Holds(m)'
    BY <1>2, <2>1 DEF RevertInsert, Reverted, Places, Holds, TypeOK, ghosts
  <2>5. QED
    BY <1>2, <2>2, <2>3, <2>4 DEF RevertInsert, ghosts
<1>3. CASE RevertFails(n)
  <2>1. n \in left /\ n \in restore /\ phase \in {"revertDelete", "revertInsert"}
    BY <1>3 DEF RevertFails, Places
  <2>2. PICK S \in SUBSET Docs : db' = [db EXCEPT ![n] = S]
    <3>1. CASE PartlyDeleted(n)
      BY <3>1 DEF PartlyDeleted, TypeOK
    <3>2. CASE PartlyInserted(n, snapshot[n])
      <4>1. PICK T \in SUBSET snapshot[n] : db' = [db EXCEPT ![n] = db[n] \cup T]
        BY <3>2 DEF PartlyInserted
      <4>2. QED
        BY <4>1 DEF TypeOK
    <3>3. QED
      BY <1>3, <3>1, <3>2 DEF RevertFails
  <2>3. UNCHANGED <<before, source, exact, written, writes>> /\ errors' \in Nat
    BY <1>3 DEF RevertFails, Duplicate, Fault, ghosts, TypeOK
  <2>4. /\ left' = left \ {n} /\ failed' = failed \cup {n}
        /\ phase' = IF left = {n} THEN "reverted" ELSE "revertDelete"
        /\ UNCHANGED <<file, current, restore, snapshot, completed>>
    BY <1>3 DEF RevertFails, Reverted
  <2>5. TypeOK'
    BY <2>1, <2>2, <2>3, <2>4 DEF TypeOK, Phases
  <2>6. Places'
    BY <2>1, <2>4 DEF Places, Restorable, Malformed
  <2>7. \A m \in Names \ written : Holds(m)'
    BY <2>1, <2>2, <2>3, <2>4 DEF Places, Holds, TypeOK
  <2>8. QED
    BY <2>3, <2>5, <2>6, <2>7
<1>4. QED
  BY <1>1, <1>2, <1>3

\* What others write is in collections about which nothing is said any more.
LEMMA WriteKeeps == \A n \in Names : IInv /\ Write(n) => IInv'
<1> SUFFICES ASSUME NEW n \in Names, IInv, Write(n)
             PROVE  IInv'
  OBVIOUS
<1> USE DEF IInv, Passes, Imported
<1>1. PICK S \in SUBSET Docs : db' = [db EXCEPT ![n] = S]
  BY DEF Write, TypeOK
<1>2. TypeOK'
  BY <1>1 DEF Write, TypeOK, progress
<1>3. Places'
  BY DEF Write, Places, Restorable, Malformed, progress
<1>4. \A m \in Names \ written' : Holds(m)'
  BY <1>1 DEF Write, Holds, TypeOK, progress
<1>5. QED
  BY <1>2, <1>3, <1>4

LEMMA NextKeeps == IInv /\ [Next]_vars => IInv'
<1> SUFFICES ASSUME IInv, [Next]_vars
             PROVE  IInv'
  OBVIOUS
<1>1. CASE Next
  <2>1. CASE InsertCollection \/ InsertFails \/ RevertInsert
    <3>1. PICK n \in Names : TRUE
      BY AllowedAssumption
    <3>2. QED
      BY <2>1, <3>1, ReplaceKeeps, FailureKeeps, RevertKeeps
  <2>2. QED
    BY <1>1, <2>1, BeginKeeps, ReadKeeps, ReplaceKeeps, FailureKeeps, RevertKeeps, WriteKeeps DEF Next
<1>2. CASE UNCHANGED vars
  BY <1>2 DEF IInv, TypeOK, Places, Holds, Restorable, Malformed, vars
<1>3. QED
  BY <1>1, <1>2

LEMMA Invariance == Spec => []IInv
BY InitHolds, NextKeeps, PTL DEF Spec

\* Every variable has its type, and a collection only ever holds documents:
\* what pass 1 lets through is a list of documents.
THEOREM TypeCorrect == Spec => []TypeOK
<1>1. IInv => TypeOK
  BY DEF IInv
<1>2. QED
  BY <1>1, Invariance, PTL

\* An import that fails leaves every collection as it was, unless its revert
\* failed too, and one that succeeds leaves what the file has.
THEOREM ImportIsAtomic == Spec => []AllOrNothing
<1>1. IInv => AllOrNothing
  BY AllowedAssumption DEF IInv, TypeOK, Places, Holds, AllOrNothing, Imported, Passes
<1>2. QED
  BY <1>1, Invariance, PTL

\* At no moment does an import change a collection that is not allowed, or
\* that the file has nothing for.
THEOREM OthersStay == Spec => []OthersUntouched
<1>1. IInv => OthersUntouched
  BY DEF IInv, TypeOK, Holds, OthersUntouched
<1>2. QED
  BY <1>1, Invariance, PTL

(***************************************************************************)
(* What was exported can be imported.                                      *)
(***************************************************************************)
\* What an export that nobody disturbed has read so far.
CopyInv ==
    exact => /\ phase = "export" => db = source
             /\ \A n \in Names : phase = "export" => n \in left \/ file[n] = source[n]
             /\ \A n \in Names : phase # "export" => file[n] = source[n]

\* A collection within the limit is listed completely.
LEMMA WholeList ==
    ASSUME IsFiniteSet(Docs), Cardinality(Docs) <= ExportLimit, TypeOK, NEW n \in Names, NEW S \in Listed(n)
    PROVE  S = db[n]
<1>1. S \in SUBSET Docs /\ S \subseteq db[n] /\ db[n] \in SUBSET Docs
  BY DEF Listed, TypeOK
<1>2. CASE Cardinality(S) = ExportLimit
  <2>1. Cardinality(S) <= Cardinality(Docs) /\ (Cardinality(S) = Cardinality(Docs) => S = Docs)
    BY <1>1, FS_Subset
  <2>2. Cardinality(Docs) \in Nat
    BY FS_CardinalityType
  <2>3. S = Docs
    BY <1>2, <2>1, <2>2, ExportLimitAssumption
  <2>4. QED
    BY <1>1, <2>3
<1>3. QED
  BY <1>2 DEF Listed

LEMMA CopyNext ==
    ASSUME IsFiniteSet(Docs), Cardinality(Docs) <= ExportLimit
    PROVE  IInv /\ CopyInv /\ [Next]_vars => CopyInv'
<1> SUFFICES ASSUME IInv, CopyInv, [Next]_vars
             PROVE  CopyInv'
  OBVIOUS
<1>1. CASE BeginExport
  BY <1>1 DEF BeginExport, CopyInv
<1>2. ASSUME NEW n \in Names, ExportCollection(n)
      PROVE  CopyInv'
  <2>1. PICK S \in Listed(n) : file' = [file EXCEPT ![n] = S]
    BY <1>2 DEF ExportCollection
  <2>2. S = db[n]
    BY <2>1, WholeList DEF IInv
  <2>3. file' = [file EXCEPT ![n] = db[n]] /\ file \in [Names -> Entry]
    BY <2>1, <2>2 DEF IInv, TypeOK
  <2>4. /\ phase = "export" /\ left' = left \ {n}
        /\ phase' = IF left = {n} THEN "exported" ELSE "export"
        /\ UNCHANGED <<db, source, exact>>
    BY <1>2 DEF ExportCollection, ghosts
  <2>5. QED
    BY <2>3, <2>4 DEF CopyInv
<1>3. ASSUME NEW n \in Names, Write(n)
      PROVE  CopyInv'
  BY <1>3 DEF Write, CopyInv, IInv, TypeOK
<1>4. CASE \/ BeginImport \/ InsertCollection \/ InsertFails \/ RevertInsert
           \/ \E n \in Names : \/ Snapshot(n) \/ DeleteCollection(n) \/ DeleteFails(n)
                               \/ RevertDelete(n) \/ RevertFails(n)
  <2>1. UNCHANGED <<file, source, exact>>
    BY <1>4 DEF BeginImport, InsertCollection, InsertFails, RevertInsert, Snapshot, DeleteCollection,
                DeleteFails, RevertDelete, RevertFails, Duplicate, Fault, ghosts
  <2>2. phase # "export" /\ phase' # "export"
    BY <1>4 DEF BeginImport, InsertCollection, InsertFails, RevertInsert, Snapshot, DeleteCollection,
                DeleteFails, RevertDelete, RevertFails, Reverted, StartRevert, Over
  <2>3. QED
    BY <2>1, <2>2 DEF CopyInv
<1>5. CASE UNCHANGED vars
  BY <1>5 DEF CopyInv, vars
<1>6. QED
  BY <1>1, <1>2, <1>3, <1>4, <1>5 DEF Next

\* Where no collection can outgrow the limit of an export, importing what was
\* exported brings back every collection that had documents.
THEOREM ExportsComeBack ==
    ASSUME IsFiniteSet(Docs), Cardinality(Docs) <= ExportLimit
    PROVE  Spec => []RoundTrip
<1>1. Init => CopyInv
  BY DEF Init, CopyInv
<1>2. IInv /\ CopyInv => RoundTrip
  <2> SUFFICES ASSUME IInv, CopyInv, phase = "restored", exact,
                      NEW n \in Allowed \ written, source[n] # {}
               PROVE  db[n] = source[n]
    BY DEF RoundTrip
  <2>1. n \in Names /\ file[n] = source[n] /\ source[n] \in SUBSET Docs
    BY AllowedAssumption DEF IInv, TypeOK, CopyInv
  <2>2. "absent" \notin Docs
    BY DocsAssumption
  <2>3. file[n] \notin {{}, {"absent"}}
    BY <2>1, <2>2
  <2>4. n \in restore /\ restore = completed
    BY <2>3 DEF IInv, Places, Imported, Restorable
  <2>5. QED
    BY <2>1, <2>4 DEF IInv, Holds
<1>3. IInv /\ CopyInv /\ [Next]_vars => CopyInv'
  BY CopyNext
<1>4. QED
  BY <1>1, <1>2, <1>3, Invariance, PTL DEF Spec
=============================================================================
