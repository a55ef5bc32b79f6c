----------------------------- MODULE FileStore -----------------------------
(***************************************************************************)
(* file_service.py, with the parts of upload_service.py and of the         *)
(* Telegram upload worker that create documents and messages, for the      *)
(* library of one owner.                                                   *)
(*                                                                         *)
(* A request is a coroutine: it runs without interruption between two      *)
(* awaits, and every await is one call to MongoDB or Telegram.  todo[p]    *)
(* is what process p still has to do, a sequence of frames, each of which  *)
(* is one such call; frames whose name ends in Each are loops over a list  *)
(* the code fetched earlier.  An action performs the first call of todo[p] *)
(* and replaces its frame by the calls the code makes next, so an action   *)
(* is an await and everything up to the following one.  Dropping the rest  *)
(* of todo[p] is an exception that leaves the request.                     *)
(***************************************************************************)
EXTENDS FileTree, Sequences

CONSTANTS Clients,      \* request handlers, and the hourly purge loop
          Workers,      \* coroutines of TelegramService._upload_worker
          Roles,        \* the ways to say which kinds of request each client issues
          Quota,        \* storage_quota_bytes
          Libraries,    \* the libraries a behaviour may start with
          Sessions,     \* and the places for which chunked uploads were begun before
          FirstId,      \* the first unused document id
          FirstMsg,     \* the first unused message id
          MaxActive,    \* bound: processes at work at the same time
          MaxRequests,  \* bound: requests issued in a behaviour
          MayRefuse,    \* whether Telegram may fail to delete a message
          MaxFaults     \* bound: aborted coroutines and restarts

Kinds == {"trash", "restore", "delete", "move", "copy", "mkdir", "upload", "purge", "init", "complete"}

ASSUME RolesAssumption == Roles \subseteq [Clients -> SUBSET Kinds]
ASSUME QuotaAssumption == Quota \in Nat
ASSUME MayRefuseAssumption == MayRefuse \in BOOLEAN
ASSUME ProcsAssumption == Clients \cap Workers = {}
ASSUME LibrariesAssumption ==
    /\ FirstId \in Nat \ {0}
    /\ FirstMsg \in Nat \ {0}
    /\ \A lib \in Libraries :
         /\ lib = [i \in DOMAIN lib |-> lib[i]]
         /\ DOMAIN lib \subseteq 1 .. (FirstId - 1)
         /\ \A i \in DOMAIN lib :
              /\ lib[i] \in Doc /\ lib[i].msg < FirstMsg
              /\ IsFolder(lib[i]) => lib[i].msg = NoMessage

VARIABLES files,     \* the files collection: a function from ids to Doc
          used,      \* storage_used_bytes
          messages,  \* the messages that exist in the Telegram channel
          nextId,    \* the next unused document id
          nextMsg,   \* the next unused message id
          queue,     \* TelegramService.upload_queue: the documents to send
          uploads,   \* the folders that chunked uploads were begun for, the root included
          todo,      \* per process: the calls it still has to make
          total,     \* per client: copy_file's total_bytes
          may,       \* may[c]: the kinds of request client c issues, fixed at the start
          begun,     \* number of requests issued
          faults     \* number of faults that happened

data == <<files, used, messages, nextId, nextMsg, queue, uploads>>
bounds == <<may, begun, faults>>
vars == <<data, todo, total, bounds>>

Procs == Clients \cup Workers

(***************************************************************************)
(* Frames.                                                                 *)
(***************************************************************************)
AtOps == {"parent", "trash", "trashChildren", "mark", "restore", "unmark",
          "restoreChildren", "delete", "deleteChildren", "remove", "purge",
          "enqueue", "send", "initQuota"}
DocOps == {"restoreParent", "restoreCheck", "size"}
PlaceOps == {"move", "copy", "walk", "setParent", "copyChildren"}
EachOps == {"trashEach", "restoreEach", "deleteEach", "purgeEach", "sizeEach", "copyEach"}

\* A document as a find() returned it: the list a loop iterates over keeps
\* the fields as they were then.
Kid == [id : Nat, doc : Doc]

Frame == [op : AtOps, id : Nat]
    \cup [op : DocOps, id : Nat, doc : Doc]
    \cup [op : PlaceOps, id : Nat, to : Nat]
    \cup [op : EachOps, kids : SUBSET Kid, to : Nat]
    \cup [op : {"copyQuota", "copyDoc"}, id : Nat, doc : Doc, to : Nat]
    \cup [op : {"quota", "dedup"}, content : Contents, to : Nat]
    \cup [op : {"insert"}, doc : Doc, send : BOOLEAN]
    \cup [op : {"countRefs", "record"}, id : Nat, msg : Nat]
    \cup [op : {"deleteMsg"}, msg : Nat]
    \cup [op : {"openUpload"}, to : Nat]
    \cup [op : {"add"}, bytes : Int]

At(op, i) == [op |-> op, id |-> i]
Of(op, i, d) == [op |-> op, id |-> i, doc |-> d]
Into(op, i, to) == [op |-> op, id |-> i, to |-> to]
Copy(op, i, d, to) == [op |-> op, id |-> i, doc |-> d, to |-> to]
About(op, i, m) == [op |-> op, id |-> i, msg |-> m]
New(op, content, to) == [op |-> op, content |-> content, to |-> to]
Insert(d, send) == [op |-> "insert", doc |-> d, send |-> send]
Open(to) == [op |-> "openUpload", to |-> to]

\* {"$inc": {"storage_used_bytes": n}}
Add(n) == [op |-> "add", bytes |-> n]

\* The documents of ids S as a find() returns them now.
Fetch(S) == {[id |-> i, doc |-> files[i]] : i \in S}

\* A loop over kids; `to' is the folder copies go into (Root elsewhere).
Each(op, kids, to) ==
    IF kids = {} THEN <<>> ELSE <<[op |-> op, kids |-> kids, to |-> to]>>

\* The optional validation of a destination folder.
ParentCheck(to) == IF to = Root THEN <<>> ELSE <<At("parent", to)>>

\* Permanent deletion of one file document, from the document d read earlier.
DeleteFile(i, d) ==
       (IF IsLive(d) THEN <<Add(-Bytes(d))>> ELSE <<>>)
    \o (IF d.msg # NoMessage THEN <<About("countRefs", i, d.msg)>> ELSE <<>>)
    \o <<At("remove", i)>>

\* One iteration of each loop, for the document k.
Iteration(op, k, to) ==
    LET i == k.id
        d == k.doc
    IN  [trashEach   |-> <<IF IsFolder(d) THEN At("trashChildren", i) ELSE Add(-Bytes(d)), At("mark", i)>>,
         restoreEach |-> <<IF IsFolder(d) THEN At("restoreChildren", i) ELSE Add(Bytes(d)), At("unmark", i)>>,
         deleteEach  |-> IF IsFolder(d) THEN <<At("deleteChildren", i)>> ELSE DeleteFile(i, d),
         purgeEach   |-> <<At("delete", i)>>,
         sizeEach    |-> <<Of("size", i, d)>>,
         copyEach    |-> <<Copy("copyDoc", i, d, to)>>][op]

\* A loop frame takes its next document, in any order, when it is reached.
Ready(s) ==
    IF s = <<>> THEN {}
    ELSE IF Head(s).op \in EachOps
         THEN LET l == Head(s)
              IN  {Iteration(l.op, k, l.to) \o Each(l.op, l.kids \ {k}, l.to) \o Tail(s) : k \in l.kids}
         ELSE {s}

\* The ways process p can stand before a call op: its frame and what follows.
Calls(p, op) == {s \in Ready(todo[p]) : Head(s).op = op}

Goto(p, s) == todo' = [todo EXCEPT ![p] = s]

\* raise HTTPException: the request is over.
Abort(p) == Goto(p, <<>>)

\* update_one({"_id": i}, {"$set": ...}): nothing happens if i is gone.
SetDoc(i, d) == files' = [j \in DOMAIN files |-> IF j = i THEN d ELSE files[j]]

\* Process p goes on with s after a call that only reads.
Reads(p, s) == Goto(p, s) /\ UNCHANGED <<data, total, bounds>>

\* Process p sets document i to d, and goes on with s.
Sets(p, i, d, s) ==
    /\ SetDoc(i, d)
    /\ Goto(p, s)
    /\ UNCHANGED <<used, messages, nextId, nextMsg, queue, uploads, total, bounds>>

Busy == {p \in Procs : todo[p] # <<>>}
Idle == Busy = {}

(***************************************************************************)
(* Requests.                                                               *)
(***************************************************************************)
\* The first calls of every request a client can issue, by kind; a client
\* may still know the id of a document that is gone.  A chunked upload is two
\* requests: "init" checks the quota and the folder, and "complete", whenever
\* the client has sent the chunks, is the background task that makes the
\* record, in the folder of the session and without a check.
Requests ==
    LET ids == 1 .. (nextId - 1)
        places == {Root} \cup DOMAIN files
    IN  [trash   |-> {<<At("trash", i)>> : i \in ids},
         restore |-> {<<At("restore", i)>> : i \in ids},
         delete  |-> {<<At("delete", i)>> : i \in ids},
         move    |-> {<<Into("move", i, to)>> : i \in ids, to \in places},
         copy    |-> {<<Into("copy", i, to)>> : i \in ids, to \in places},
         mkdir   |-> {ParentCheck(to) \o <<Insert(NewDoc("folder", NoMessage, to), FALSE)>> : to \in places},
         upload  |-> {ParentCheck(to) \o <<New("quota", c, to)>> : c \in Contents, to \in places},
         purge   |-> {<<At("purge", Root)>>},
         init    |-> {<<At("initQuota", to)>> : to \in places},
         complete |-> {<<New("dedup", c, to)>> : c \in Contents, to \in uploads}]

Begin(c) ==
    /\ todo[c] = <<>>
    /\ begun < MaxRequests
    /\ Cardinality(Busy) < MaxActive
    /\ \E kind \in may[c] : \E s \in Requests[kind] : Goto(c, s)
    /\ begun' = begun + 1
    /\ total' = [total EXCEPT ![c] = 0]
    /\ UNCHANGED <<data, may, faults>>

\* Mutant of Accepts: a folder in the trash is accepted.
AcceptsTrashed(to) == to \in DOMAIN files /\ IsFolder(files[to])

\* Mutant of Accepts: is_folder is not looked at.
AcceptsAnyKind(to) == to \in Live(files)

\* _get_file_doc with deleted_at None, and the destination folder's checks.
Accepts(to) == to \in Live(files) /\ IsFolder(files[to])

CheckParent(p) ==
    \E s \in Calls(p, "parent") : Reads(p, IF Accepts(Head(s).id) THEN Tail(s) ELSE <<>>)

AddUsed(p) ==
    \E s \in Calls(p, "add") :
        /\ used' = used + Head(s).bytes
        /\ Goto(p, Tail(s))
        /\ UNCHANGED <<files, messages, nextId, nextMsg, queue, uploads, total, bounds>>

(***************************************************************************)
(* move_file.                                                              *)
(***************************************************************************)
\* The checks of a destination, for a document that is a folder or not.
PlaceChecks(i, to) ==
    ParentCheck(to) \o IF to # Root /\ IsFolder(files[i]) THEN <<Into("walk", i, to)>> ELSE <<>>

Move(p) ==
    \E s \in Calls(p, "move") :
        LET i == Head(s).id
            to == Head(s).to
        IN  Reads(p, IF i \in Live(files) THEN PlaceChecks(i, to) \o <<Into("setParent", i, to)>> ELSE <<>>)

\* Mutant of WalkUp: only the destination itself is compared.
WalkNoFurther(i, cur) == <<>>

\* Mutant of WalkUp: the loop does not go up.
WalkAgain(i, cur) == <<Into("walk", i, cur)>>

\* The next turn of the loop over the ancestors of the destination.
WalkUp(i, cur) ==
    LET up == IF cur \in DOMAIN files THEN files[cur].parent ELSE Root
    IN  IF up = Root THEN <<>> ELSE <<Into("walk", i, up)>>

Walk(p) ==
    \E s \in Calls(p, "walk") :
        LET f == Head(s)
        IN  Reads(p, IF f.to = f.id THEN <<>> ELSE WalkUp(f.id, f.to) \o Tail(s))

SetParent(p) ==
    \E s \in Calls(p, "setParent") :
        LET i == Head(s).id
        IN  Sets(p, i, [files[i] EXCEPT !.parent = Head(s).to], Tail(s))

(***************************************************************************)
(* copy_file, _subtree_size, _copy_subtree.                                *)
(***************************************************************************)
CopyFile(p) ==
    \E s \in Calls(p, "copy") :
        LET i == Head(s).id
            to == Head(s).to
            d == files[i]
            copy == <<Of("size", i, d), Copy("copyQuota", i, d, to)>>
        IN  Reads(p, IF i \in Live(files) THEN PlaceChecks(i, to) \o copy ELSE <<>>)

SubtreeSize(p) ==
    \E s \in Calls(p, "size") :
        LET i == Head(s).id
            d == Head(s).doc
        IN  /\ Goto(p, (IF IsFolder(d) THEN Each("sizeEach", Fetch(LiveChildren(files, i)), Root) ELSE <<>>)
                       \o Tail(s))
            /\ total' = [total EXCEPT ![p] = @ + Bytes(d)]
            /\ UNCHANGED <<data, bounds>>

\* Nothing to charge is never compared with the quota.
Fits(n) == n = 0 \/ used + n <= Quota

\* Mutant of CopyThenCharge: the counter is raised before the copy is made.
ChargeThenCopy(copy, charge) == charge \o copy

\* The counter is raised once the copy is complete.
CopyThenCharge(copy, charge) == copy \o charge

CopyQuota(p) ==
    \E s \in Calls(p, "copyQuota") :
        LET f == Head(s)
            copy == <<Copy("copyDoc", f.id, f.doc, f.to)>>
            charge == IF total[p] = 0 THEN <<>> ELSE <<Add(total[p])>>
        IN  Reads(p, IF Fits(total[p]) THEN CopyThenCharge(copy, charge) ELSE <<>>)

\* Mutant of InsertDoc: the id can be given out again.
InsertDocSameId(d) ==
    /\ files' = [j \in DOMAIN files \cup {nextId} |-> IF j = nextId THEN d ELSE files[j]]
    /\ UNCHANGED nextId

\* insert_one of a document under a fresh id.
InsertDoc(d) ==
    /\ files' = [j \in DOMAIN files \cup {nextId} |-> IF j = nextId THEN d ELSE files[j]]
    /\ nextId' = nextId + 1

CopyDoc(p) ==
    \E s \in Calls(p, "copyDoc") :
        LET f == Head(s)
        IN  /\ InsertDoc([f.doc EXCEPT !.parent = f.to, !.trash = "live"])
            /\ Goto(p, (IF IsFolder(f.doc) THEN <<Into("copyChildren", f.id, nextId)>> ELSE <<>>)
                       \o Tail(s))
            /\ UNCHANGED <<used, messages, nextMsg, queue, uploads, total, bounds>>

\* Mutant of ToCopy: a copied folder stays empty.
NothingToCopy(i) == {}

\* What _copy_subtree iterates over.
ToCopy(i) == LiveChildren(files, i)

CopyChildren(p) ==
    \E s \in Calls(p, "copyChildren") :
        Reads(p, Each("copyEach", Fetch(ToCopy(Head(s).id)), Head(s).to) \o Tail(s))

(***************************************************************************)
(* create_folder, and the records an upload creates.                       *)
(***************************************************************************)
\* The quota is read before the body is; an empty body is never compared.
UploadQuota(p) ==
    \E s \in Calls(p, "quota") :
        LET f == Head(s)
        IN  Reads(p, IF Fits(Size[f.content]) THEN <<New("dedup", f.content, f.to)>> \o Tail(s) ELSE <<>>)

\* The file_size of the request is 1 at least, and is not compared with what
\* is sent later.  The folder is validated, then the session stored.
InitQuota(p) ==
    \E s \in Calls(p, "initQuota") :
        LET to == Head(s).id
        IN  Reads(p, IF used < Quota THEN ParentCheck(to) \o <<Open(to)>> ELSE <<>>)

OpenUpload(p) ==
    \E s \in Calls(p, "openUpload") :
        /\ uploads' = uploads \cup {Head(s).to}
        /\ Goto(p, Tail(s))
        /\ UNCHANGED <<files, used, messages, nextId, nextMsg, queue, total, bounds>>

\* find_one by file_hash: any document of the owner with this content, in
\* whatever state, lends its message id.
Dedup(p) ==
    \E s \in Calls(p, "dedup") :
        LET f == Head(s)
            same == {files[e].msg : e \in {e \in DOMAIN files : files[e].kind = f.content}}
            record(m, send) == <<Insert(NewDoc(f.content, m, f.to), send)>> \o Tail(s)
        IN  \/ same = {} /\ Reads(p, record(NoMessage, TRUE))
            \/ \E m \in same : Reads(p, record(m, FALSE))

InsertNew(p) ==
    \E s \in Calls(p, "insert") :
        LET f == Head(s)
        IN  /\ InsertDoc(f.doc)
            /\ Goto(p, (IF IsFolder(f.doc) THEN <<>> ELSE <<Add(Bytes(f.doc))>>)
                       \o (IF f.send THEN <<At("enqueue", nextId)>> ELSE <<>>)
                       \o Tail(s))
            /\ UNCHANGED <<used, messages, nextMsg, queue, uploads, total, bounds>>

Enqueue(p) ==
    \E s \in Calls(p, "enqueue") :
        /\ queue' = Append(queue, Head(s).id)
        /\ Goto(p, Tail(s))
        /\ UNCHANGED <<files, used, messages, nextId, nextMsg, uploads, total, bounds>>

(***************************************************************************)
(* move_to_trash, _recursive_trash.                                        *)
(***************************************************************************)
Trash(p) ==
    \E s \in Calls(p, "trash") :
        LET i == Head(s).id
        IN  Reads(p, IF i \notin Live(files) THEN <<>>
                     ELSE IF IsFolder(files[i]) THEN <<At("trashChildren", i), At("mark", i)>>
                     ELSE <<At("mark", i), Add(-Bytes(files[i]))>>)

\* Mutant of ToTrash: the query lacks deleted_at: None.
AllToTrash(i) == Children(files, i)

\* What _recursive_trash iterates over.
ToTrash(i) == LiveChildren(files, i)

TrashChildren(p) ==
    \E s \in Calls(p, "trashChildren") :
        Reads(p, Each("trashEach", Fetch(ToTrash(Head(s).id)), Root) \o Tail(s))

Mark(p) ==
    \E s \in Calls(p, "mark") :
        LET i == Head(s).id
        IN  Sets(p, i, [files[i] EXCEPT !.trash = "trashed"], Tail(s))

(***************************************************************************)
(* restore_from_trash, _recursive_restore.                                 *)
(***************************************************************************)
Restore(p) ==
    \E s \in Calls(p, "restore") :
        LET i == Head(s).id
            d == files[i]
            parent == IF d.parent # Root THEN <<Of("restoreParent", i, d)>> ELSE <<>>
        IN  Reads(p, IF i \in DOMAIN files \ Live(files)
                     THEN parent \o <<Of("restoreCheck", i, d)>> \o Tail(s) ELSE <<>>)

RestoreParent(p) ==
    \E s \in Calls(p, "restoreParent") :
        LET up == Head(s).doc.parent
            inTrash == up \in DOMAIN files /\ ~IsLive(files[up])
        IN  Reads(p, (IF inTrash THEN <<At("restore", up)>> ELSE <<>>) \o Tail(s))

\* Mutant of Restored: the document is not read again.
NeverRestored(i) == FALSE

\* The re-read of the document: live by now means an ancestor's restore
\* brought it back.
Restored(i) == i \in Live(files)

RestoreCheck(p) ==
    \E s \in Calls(p, "restoreCheck") :
        LET i == Head(s).id
            d == Head(s).doc
            rest == IF IsFolder(d) THEN At("restoreChildren", i) ELSE Add(Bytes(d))
        IN  Reads(p, (IF Restored(i) THEN <<>> ELSE <<At("unmark", i), rest>>) \o Tail(s))

Unmark(p) ==
    \E s \in Calls(p, "unmark") :
        LET i == Head(s).id
        IN  Sets(p, i, [files[i] EXCEPT !.trash = "live"], Tail(s))

RestoreChildren(p) ==
    \E s \in Calls(p, "restoreChildren") :
        LET kids == Children(files, Head(s).id) \ Live(files)
        IN  Reads(p, Each("restoreEach", Fetch(kids), Root) \o Tail(s))

(***************************************************************************)
(* permanent_delete, _recursive_permanent_delete, purge_expired_trash.     *)
(***************************************************************************)
\* A missing document ends the request, or this iteration of the purge.
Delete(p) ==
    \E s \in Calls(p, "delete") :
        LET i == Head(s).id
        IN  Reads(p, (IF i \notin DOMAIN files THEN <<>>
                      ELSE IF IsFolder(files[i]) THEN <<At("deleteChildren", i), At("remove", i)>>
                      ELSE DeleteFile(i, files[i])) \o Tail(s))

\* Mutant of DeleteTree: the folder goes before what it holds.
DeleteFolderFirst(i) == <<At("remove", i)>> \o Each("deleteEach", Fetch(Children(files, i)), Root)

\* A folder's children, then the folder itself.
DeleteTree(i) == Each("deleteEach", Fetch(Children(files, i)), Root) \o <<At("remove", i)>>

DeleteChildren(p) ==
    \E s \in Calls(p, "deleteChildren") : Reads(p, DeleteTree(Head(s).id) \o Tail(s))

\* Mutant of Sharing: documents in the trash are not counted.
SharingLive(i, m) == {j \in Live(files) \ {i} : files[j].msg = m}

\* Mutant of Sharing: the document itself is counted.
SharingOrOwn(i, m) == {j \in DOMAIN files : files[j].msg = m}

\* count_documents of the other documents with this message.
Sharing(i, m) == {j \in DOMAIN files \ {i} : files[j].msg = m}

CountRefs(p) ==
    \E s \in Calls(p, "countRefs") :
        LET f == Head(s)
            unshared == IF Sharing(f.id, f.msg) = {} THEN <<[op |-> "deleteMsg", msg |-> f.msg]>> ELSE <<>>
        IN  Reads(p, unshared \o Tail(s))

\* delete_messages; an error is swallowed and the message stays.
DeleteMsg(p) ==
    \E s \in Calls(p, "deleteMsg") :
        /\ \/ messages' = messages \ {Head(s).msg}
           \/ MayRefuse /\ UNCHANGED messages
        /\ Goto(p, Tail(s))
        /\ UNCHANGED <<files, used, nextId, nextMsg, queue, uploads, total, bounds>>

Remove(p) ==
    \E s \in Calls(p, "remove") :
        /\ files' = [j \in DOMAIN files \ {Head(s).id} |-> files[j]]
        /\ Goto(p, Tail(s))
        /\ UNCHANGED <<used, messages, nextId, nextMsg, queue, uploads, total, bounds>>

Purge(p) ==
    \E s \in Calls(p, "purge") :
        LET expired == {i \in DOMAIN files : files[i].trash = "expired"}
        IN  Reads(p, Each("purgeEach", Fetch(expired), Root) \o Tail(s))

(***************************************************************************)
(* The upload worker, as far as documents and messages are concerned.      *)
(***************************************************************************)
Take(w) ==
    /\ todo[w] = <<>>
    /\ queue # <<>>
    /\ Cardinality(Busy) < MaxActive
    /\ Goto(w, <<At("send", Head(queue))>>)
    /\ queue' = Tail(queue)
    /\ UNCHANGED <<files, used, messages, nextId, nextMsg, uploads, total, bounds>>

\* send_file creates a message, or fails after its retries.
Send(w) ==
    \E s \in Calls(w, "send") :
        /\ \/ /\ messages' = messages \cup {nextMsg}
              /\ nextMsg' = nextMsg + 1
              /\ Goto(w, <<About("record", Head(s).id, nextMsg)>> \o Tail(s))
           \/ /\ Goto(w, Tail(s))
              /\ UNCHANGED <<messages, nextMsg>>
        /\ UNCHANGED <<files, used, nextId, queue, uploads, total, bounds>>

Record(w) ==
    \E s \in Calls(w, "record") :
        LET i == Head(s).id
        IN  Sets(w, i, [files[i] EXCEPT !.msg = Head(s).msg], Tail(s))

(***************************************************************************)
(* The environment: time, and faults.                                      *)
(***************************************************************************)
\* Thirty days pass since i was trashed; what lies in i was trashed before it,
\* but for a file that came into it later.
\* Between requests: no request but a purge that begins later reads the date.
Expire(i) ==
    /\ Idle
    /\ files[i].trash = "trashed"
    /\ \A c \in Children(files, i) : files[c].trash # "trashed" \/ c \notin Firm(files, uploads)
    /\ SetDoc(i, [files[i] EXCEPT !.trash = "expired"])
    /\ UNCHANGED <<used, messages, nextId, nextMsg, queue, uploads, todo, total, bounds>>

\* The coroutine ends at an await: a database error, or its process stops.
Fail(p) ==
    /\ todo[p] # <<>>
    /\ faults < MaxFaults
    /\ faults' = faults + 1
    /\ Abort(p)
    /\ UNCHANGED <<data, total, may, begun>>

\* The process restarts: every coroutine and the in-memory queue are lost.
Restart ==
    /\ faults < MaxFaults
    /\ ~Idle \/ queue # <<>>
    /\ faults' = faults + 1
    /\ todo' = [p \in Procs |-> <<>>]
    /\ queue' = <<>>
    /\ UNCHANGED <<files, used, messages, nextId, nextMsg, uploads, total, may, begun>>

\* The bounded behaviour is over.
Finished ==
    /\ Idle
    /\ queue = <<>>
    /\ begun = MaxRequests
    /\ UNCHANGED vars

(***************************************************************************)
(* The specification.                                                      *)
(***************************************************************************)
Step(p) ==
    \/ CheckParent(p) \/ AddUsed(p)
    \/ Move(p) \/ Walk(p) \/ SetParent(p)
    \/ CopyFile(p) \/ SubtreeSize(p) \/ CopyQuota(p) \/ CopyDoc(p) \/ CopyChildren(p)
    \/ InitQuota(p) \/ OpenUpload(p)
    \/ UploadQuota(p) \/ Dedup(p) \/ InsertNew(p) \/ Enqueue(p)
    \/ Trash(p) \/ TrashChildren(p) \/ Mark(p)
    \/ Restore(p) \/ RestoreParent(p) \/ RestoreCheck(p) \/ Unmark(p) \/ RestoreChildren(p)
    \/ Delete(p) \/ DeleteChildren(p) \/ CountRefs(p) \/ DeleteMsg(p) \/ Remove(p) \/ Purge(p)

WorkerStep(w) == Send(w) \/ Record(w)

\* At every moment, also after a crash, a document's folder exists: a folder
\* is removed after what it holds.  A file in a folder that a chunked upload
\* was begun for is excepted: the folder may have gone before the completion.
NothingLost == Rooted(files, uploads)

\* A quiet server over a library that is a tree, with the counter right and
\* no message that no document refers to.
Init ==
    /\ files \in Libraries
    /\ uploads \in Sessions
    /\ \A to \in uploads : to \in 0 .. (FirstId - 1) /\ (to \in DOMAIN files => IsFolder(files[to]))
    /\ \A i \in DOMAIN files : files[i].parent \in DOMAIN files => IsFolder(files[files[i].parent])
    /\ TreeClosed(files, uploads) /\ ExpiresInward(files)
    /\ used = LiveBytes(files) /\ used \in Int
    /\ messages = {files[i].msg : i \in DOMAIN files} \ {NoMessage}
    /\ nextId = FirstId
    /\ nextMsg = FirstMsg
    /\ queue = <<>>
    /\ todo = [p \in Procs |-> <<>>]
    /\ total = [p \in Procs |-> 0]
    /\ may \in Roles
    /\ begun = 0
    /\ faults = 0

Next ==
    \/ \E c \in Clients : Begin(c) \/ Step(c)
    \/ \E w \in Workers : Take(w) \/ WorkerStep(w)
    \/ \E i \in DOMAIN files : Expire(i)
    \/ \E p \in Procs : Fail(p)
    \/ Restart
    \/ Finished

\* The event loop runs every coroutine that can run, and every call to
\* MongoDB or Telegram returns or raises.
Fairness ==
    /\ \A c \in Clients : WF_vars(Step(c))
    /\ \A w \in Workers : WF_vars(Take(w) \/ WorkerStep(w))

Spec == Init /\ [][Next]_vars
FairSpec == Spec /\ Fairness

(***************************************************************************)
(* Properties.                                                             *)
(***************************************************************************)
\* Every document, frame and counter has its type, and every document and
\* message has an id that was handed out.
TypeOK ==
    /\ DOMAIN files \subseteq 1 .. (nextId - 1)
    /\ \A i \in DOMAIN files : files[i] \in Doc
    /\ used \in Int
    /\ messages \subseteq 1 .. (nextMsg - 1)
    /\ nextId \in Nat \ {0} /\ nextMsg \in Nat \ {0}
    /\ queue \in Seq(Nat)
    /\ uploads \subseteq 0 .. (nextId - 1)
    /\ todo \in [Procs -> Seq(Frame)]
    /\ total \in [Procs -> Nat]
    /\ may \in Roles

\* When no request is at work, storage_used_bytes is the number of bytes of
\* the live files: every trash, restore, deletion, copy and upload has moved
\* the counter by exactly what it moved in the library.
Accounting == Idle => used = LiveBytes(files)

\* The kinds of request that only add documents.
Adding == {"upload", "mkdir", "init", "complete"}

\* The same while one client trashes, restores and deletes and the others
\* only add documents: one tree walk does not disturb an upload's accounting.
SweepExactly ==
    (\E c \in Clients : \A d \in Clients \ {c} : may[d] \subseteq Adding) => Accounting

\* A request that dies half-way, or a restart, leaves storage_used_bytes wrong
\* for good, but at most one file too high, and too low by no more than the
\* tree of an uncharged copy, which the quota bounds.
DriftBounded ==
    Idle /\ faults <= 1 =>
        LET drift == used - LiveBytes(files)
        IN  -Quota <= drift /\ \E c \in Contents : drift <= Size[c]

\* When no request is at work, the library is a tree: no folder is inside
\* itself, nothing lies in a missing folder, and a live document is not hidden
\* in a trashed folder - but for a file in a folder that a chunked upload was
\* begun for: its completion does not look at the folder again.
Consistent == Idle => TreeClosed(files, uploads)

\* At every moment, no folder is its own ancestor (the walk of move_file and
\* copy_file and the recursions over a folder end).
NoCycle == Acyclic(files)

\* A document's folder, as long as it exists, is a folder.
ParentIsFolder ==
    \A i \in DOMAIN files :
        files[i].parent \in DOMAIN files => IsFolder(files[files[i].parent])

\* Process p is about to remove document i.
Removing(p, i) == todo[p] # <<>> /\ Head(todo[p]) = At("remove", i)

\* At every moment, the message a document points to exists: permanent_delete
\* removes a message only when no other document shares it and its own
\* document goes next.
NoDanglingReference ==
    \A i \in DOMAIN files :
        files[i].msg \in messages \cup {NoMessage} \/ \E p \in Procs : Removing(p, i)

\* The same for clients that trash, restore, delete, purge and move at the
\* same time; a request that shares a message may come between the count of
\* its documents and its deletion.
SweptReferences == (\A c \in Clients : may[c] \cap {"upload", "copy", "complete"} = {}) => NoDanglingReference

\* When no request is at work, every message the library had at the start and
\* that still exists has a document: a deletion takes the message along with
\* the last document that shares it, even if a request died half-way.
NoOrphanMessage ==
    Idle => \A m \in messages : m < FirstMsg => \E i \in DOMAIN files : files[i].msg = m

\* Every request comes to an end.
Termination == \A p \in Procs : todo[p] # <<>> ~> todo[p] = <<>>
=============================================================================
