------------------------------ MODULE Uploads ------------------------------
(***************************************************************************)
(* upload_service.py and the Telegram upload worker: the session documents *)
(* of the uploads collection, the per-upload directories on disk, the      *)
(* in-memory queue and the file records uploads leave behind.  FileStore   *)
(* has what an upload does to the tree and to the storage counter; here    *)
(* are the chunks, the finalisation, the hourly sweep of the directories   *)
(* and the expiry of the sessions.                                         *)
(*                                                                         *)
(* A request is a coroutine; job[p].op names the call process p makes      *)
(* next, and one action is that call and the code up to the following one. *)
(* The background task of a completed upload goes on in the process of the *)
(* request that spawned it.                                                *)
(***************************************************************************)
EXTENDS Integers, FiniteSets, Sequences

CONSTANTS Clients,       \* request handlers, with the background tasks they spawn
          Workers,       \* coroutines of TelegramService._upload_worker
          Chunked,       \* the chunked uploads
          Small,         \* the uploads that come in one request
          Contents,      \* what clients send: one value per file_hash
          Content,       \* Content[u]: what upload u carries
          NumChunks,     \* total_chunks
          Resend,        \* whether a client sends a chunk again
          MayFail,       \* whether sending to Telegram may fail
          MaxCompletes,  \* bound: requests to complete the same upload
          MaxFaults      \* bound: restarts

ASSUME ProcsAssumption == Clients \cap Workers = {}
ASSUME UploadsAssumption == Chunked \cap Small = {} /\ Chunked \cup Small # {}
ASSUME ContentAssumption ==
    /\ Content \in [Chunked \cup Small -> Contents]
    /\ {"none", "part"} \cap Contents = {}
ASSUME NumChunksAssumption == NumChunks \in Nat \ {0}
ASSUME FlagsAssumption == Resend \in BOOLEAN /\ MayFail \in BOOLEAN

VARIABLES session,    \* the uploads collection
          begun,      \* the uploads that were begun (ids are used once)
          dirs,       \* the uploads whose directory exists
          recent,     \* the directories touched in the last 24 hours
          disk,       \* disk[u][c]: the file chunk_c, or the assembled file
          files,      \* the file records made by uploads, in order
          queue,      \* TelegramService.upload_queue
          job,        \* per process: what it is about to do
          completes,  \* per upload: number of requests to complete it
          faults      \* number of restarts

vars == <<session, begun, dirs, recent, disk, files, queue, job, completes, faults>>
stored == <<session, begun, files, queue, completes, faults>>
onDisk == <<dirs, recent, disk>>

Procs == Clients \cup Workers
Uploads == Chunked \cup Small
Chunks == 1 .. NumChunks
Final == 0

\* A file on disk: missing, incomplete, or holding all it should.
Part == {"none", "part", "full"}

\* What a hash or a message stands for: a whole content, or some part of one.
Held == Contents \cup {"part"}

Statuses == {"none", "uploading", "paused", "processing", "completed", "failed"}

Session == [status : Statuses, received : SUBSET Chunks, file : Nat, dup : BOOLEAN, active : BOOLEAN]

\* No document with this id; active: last_activity_at is within 24 hours.
NoSession == [status |-> "none", received |-> {}, file |-> 0, dup |-> FALSE, active |-> FALSE]

FileDoc == [content : Held, msg : Held \cup {"none"}, status : {"uploading", "completed", "failed"}]

Ops == {"idle", "open", "write", "receive", "resume", "accept", "final", "read", "drop", "lookup",
        "record", "rmtree", "enqueue", "session", "fail", "send", "store", "notify", "sendFailed"}

\* c: a chunk; good: the open file is the one of that name, and no one else
\* truncated it; short: some chunk was read incomplete; f: a file record;
\* msg, dup: what the record will say.
Job == [op : Ops, u : Uploads, c : 0 .. NumChunks, good : BOOLEAN, short : BOOLEAN,
        f : Nat, msg : Held \cup {"none"}, dup : BOOLEAN]

NewJob(op, u) == [op |-> op, u |-> u, c |-> 0, good |-> TRUE, short |-> FALSE,
                  f |-> 0, msg |-> "none", dup |-> FALSE]

NoJob == NewJob("idle", CHOOSE u \in Uploads : TRUE)

Idle(p) == job[p].op = "idle"
At(p, op) == job[p].op = op
Stop(p) == job' = [job EXCEPT ![p] = NoJob]
To(p, op) == job' = [job EXCEPT ![p].op = op]
Start(p, j) == job' = [job EXCEPT ![p] = j]

\* A call that only reads, and a call that only changes file records.
Reads == UNCHANGED <<stored, onDisk>>
Saves(fs) == files' = fs /\ UNCHANGED <<onDisk, session, begun, queue, completes, faults>>

Exists(u) == session[u].status # "none"

\* A call that only changes sessions.
SetSessions(ss) == session' = ss /\ UNCHANGED <<onDisk, begun, files, queue, completes, faults>>

\* update_one({"_id": u}, {"$set": ...}), with last_activity_at set to now.
SetSession(u, s) ==
    SetSessions(IF Exists(u) THEN [session EXCEPT ![u] = [s EXCEPT !.active = TRUE]] ELSE session)

SetStatus(u, status) == SetSession(u, [session[u] EXCEPT !.status = status])

\* Process p does not hold file c of upload u open any more: it was removed,
\* or someone else truncated it.
Holds(j, u, c) ==
    /\ j.u = u
    /\ \/ j.op = "write" /\ j.c = c
       \/ j.op \in {"read", "drop"} /\ c = Final

Cut(jobs, u, cs) ==
    [p \in Procs |-> IF \E c \in cs : Holds(jobs[p], u, c) THEN [jobs[p] EXCEPT !.good = FALSE] ELSE jobs[p]]

\* A directory's mtime advances when an entry appears in it or goes.
Touch(u) == recent' = recent \cup {u}
TouchIf(u, change) == recent' = IF change THEN recent \cup {u} ELSE recent

\* open(..., "wb") of file c by process p, which goes on with op.
Open(p, c, op) ==
    LET u == job[p].u
    IN  /\ u \in dirs
        /\ disk' = [disk EXCEPT ![u][c] = "part"]
        /\ TouchIf(u, disk[u][c] = "none")
        /\ job' = [Cut(job, u, {c}) EXCEPT ![p].op = op, ![p].c = IF c = Final THEN 1 ELSE c]
        /\ UNCHANGED <<stored, dirs>>

\* shutil.rmtree of the directories of U.
RemoveDirs(U, jobs) ==
    /\ dirs' = dirs \ U
    /\ recent' = recent \ U
    /\ disk' = [u \in Uploads |-> IF u \in U THEN [c \in 0 .. NumChunks |-> "none"] ELSE disk[u]]
    /\ job' = [p \in Procs |->
                 IF jobs[p].op \in {"write", "read", "drop"} /\ jobs[p].u \in U
                 THEN [jobs[p] EXCEPT !.good = FALSE] ELSE jobs[p]]

(***************************************************************************)
(* init_chunked_upload, upload_chunk, pause_upload, resume_upload.         *)
(***************************************************************************)
Begin(u) ==
    /\ u \in Chunked \ begun
    /\ session' = [session EXCEPT ![u] = [NoSession EXCEPT !.status = "uploading", !.active = TRUE]]
    /\ begun' = begun \cup {u}
    /\ dirs' = dirs \cup {u}
    /\ Touch(u)
    /\ UNCHANGED <<disk, files, queue, job, completes, faults>>

\* A client that does not resend sends each chunk once, and again only when
\* its request ended without success.
MaySend(u, c) ==
    Resend \/ ( /\ c \notin session[u].received
                /\ \A q \in Clients : ~(job[q].u = u /\ job[q].c = c /\ job[q].op \in {"open", "write", "receive"}) )

UploadChunk(p, u, c) ==
    /\ Idle(p)
    /\ Exists(u) /\ session[u].status # "paused"
    /\ MaySend(u, c)
    /\ Start(p, [NewJob("open", u) EXCEPT !.c = c])
    /\ Reads

\* The directory is not made again: without it open raises.
OpenChunk(p) ==
    /\ At(p, "open")
    /\ \/ job[p].u \notin dirs /\ Stop(p) /\ Reads
       \/ Open(p, job[p].c, "write")

\* Mutant of Written: the handler goes on before all is written.
WrittenSome == "part"

\* What is in a file once the body is written.
Written == "full"

\* The body is written.  A chunk that is too long is removed again.
WriteChunk(p) ==
    LET u == job[p].u
        c == job[p].c
    IN  /\ At(p, "write")
        /\ \/ /\ disk' = IF job[p].good THEN [disk EXCEPT ![u][c] = Written] ELSE disk
              /\ To(p, "receive")
              /\ UNCHANGED recent
           \/ /\ disk' = [disk EXCEPT ![u][c] = "none"]
              /\ TouchIf(u, disk[u][c] # "none")
              /\ job' = [Cut(job, u, {c}) EXCEPT ![p] = NoJob]
        /\ UNCHANGED <<stored, dirs>>

\* $addToSet: {received_chunks: c}
ReceiveChunk(p) ==
    LET u == job[p].u
    IN  /\ At(p, "receive")
        /\ SetSession(u, [session[u] EXCEPT !.received = @ \cup {job[p].c}])
        /\ Stop(p)

PauseUpload(u) ==
    /\ session[u].status = "uploading"
    /\ SetStatus(u, "paused")
    /\ UNCHANGED job

ResumeUpload(p, u) ==
    /\ Idle(p)
    /\ session[u].status = "paused"
    /\ Start(p, NewJob("resume", u))
    /\ Reads

Resumed(p) == At(p, "resume") /\ SetStatus(job[p].u, "uploading") /\ Stop(p)

(***************************************************************************)
(* complete_chunked_upload and _process_chunked_upload.                    *)
(***************************************************************************)
\* Only the number of chunks received is compared, not the status.
CompleteUpload(p, u) ==
    /\ Idle(p)
    /\ Exists(u) /\ session[u].received = Chunks
    /\ completes[u] < MaxCompletes
    /\ completes' = [completes EXCEPT ![u] = @ + 1]
    /\ Start(p, NewJob("accept", u))
    /\ UNCHANGED <<onDisk, session, begun, files, queue, faults>>

Accept(p) == At(p, "accept") /\ SetStatus(job[p].u, "processing") /\ To(p, "final")

OpenFinal(p) ==
    /\ At(p, "final")
    /\ \/ job[p].u \notin dirs /\ To(p, "fail") /\ Reads
       \/ Open(p, Final, "read")

ReadChunk(p) ==
    LET found == disk[job[p].u][job[p].c]
    IN  /\ At(p, "read")
        /\ IF found = "none" THEN To(p, "fail")
           ELSE job' = [job EXCEPT ![p].op = "drop", ![p].short = @ \/ found = "part"]
        /\ Reads

\* os.remove(chunk_path); after the last chunk the assembled file is closed.
DropChunk(p) ==
    LET u == job[p].u
        c == job[p].c
        last == c = NumChunks
        whole == last /\ job[p].good /\ ~job[p].short
        cut == Cut(job, u, {c})
    IN  /\ At(p, "drop")
        /\ disk' = [disk EXCEPT ![u][c] = "none", ![u][Final] = IF whole THEN "full" ELSE @]
        /\ TouchIf(u, disk[u][c] # "none")
        /\ job' = IF last THEN [cut EXCEPT ![p].op = "lookup"]
                  ELSE [cut EXCEPT ![p].op = "read", ![p].c = c + 1]
        /\ UNCHANGED <<stored, dirs>>

\* The content a record describes.
Hashed(j) == IF j.short THEN "part" ELSE Content[j.u]

\* find_one by file_hash.  Two incomplete contents may or may not be equal.
Lookup(p) ==
    LET same == {f \in DOMAIN files : files[f].content = Hashed(job[p])}
        found(msg, dup) == job' = [job EXCEPT ![p].op = "record", ![p].msg = msg, ![p].dup = dup]
    IN  /\ At(p, "lookup")
        /\ \/ (same = {} \/ job[p].short) /\ found("none", FALSE)
           \/ \E f \in same : found(files[f].msg, TRUE)
        /\ Reads

\* Mutant of Inserted: the record is never inserted.
NotInserted(doc) == files

\* insert_one
Inserted(doc) == Append(files, doc)

\* _create_file_record
RecordFile(p) ==
    LET j == job[p]
    IN  /\ At(p, "record")
        /\ Saves(Inserted([content |-> Hashed(j), msg |-> j.msg,
                           status |-> IF j.msg = "none" THEN "uploading" ELSE "completed"]))
        /\ job' = [job EXCEPT ![p].op = IF j.dup THEN "rmtree" ELSE "enqueue", ![p].f = Len(files) + 1]

\* The directory of a duplicate, and of an upload a worker is done with.
RemoveUploadDir(p) ==
    LET j == job[p]
        next == IF p \in Clients /\ j.u \in Chunked THEN [j EXCEPT !.op = "session"] ELSE NoJob
    IN  /\ At(p, "rmtree")
        /\ RemoveDirs({j.u}, [job EXCEPT ![p] = next])
        /\ UNCHANGED stored

Enqueue(p) ==
    /\ At(p, "enqueue")
    /\ queue' = Append(queue, [u |-> job[p].u, f |-> job[p].f])
    /\ To(p, "session")
    /\ UNCHANGED <<onDisk, session, begun, files, completes, faults>>

\* The session is told of the file: an update_one of a chunked upload, an
\* insert_one of a small one.
UpdateSession(p) ==
    LET j == job[p]
        u == j.u
    IN  /\ At(p, "session")
        /\ IF u \in Small
             THEN SetSessions([session EXCEPT ![u] = [NoSession EXCEPT !.status = "processing",
                                                                       !.file = j.f, !.active = TRUE]])
             ELSE SetSession(u, [session[u] EXCEPT !.status = IF j.dup THEN "completed" ELSE "processing",
                                                   !.file = j.f, !.dup = @ \/ j.dup])
        /\ Stop(p)

\* except Exception
FailUpload(p) == At(p, "fail") /\ SetStatus(job[p].u, "failed") /\ Stop(p)

(***************************************************************************)
(* handle_small_upload, up to its lookup; it goes on as a chunked one.     *)
(***************************************************************************)
\* A body beyond the limits ends the request and leaves the directory.
SmallUpload(p, u) ==
    /\ Idle(p)
    /\ u \in Small \ begun
    /\ begun' = begun \cup {u}
    /\ dirs' = dirs \cup {u}
    /\ Touch(u)
    /\ \/ disk' = [disk EXCEPT ![u][Final] = "full"] /\ Start(p, NewJob("lookup", u))
       \/ disk' = [disk EXCEPT ![u][Final] = "part"] /\ UNCHANGED job
    /\ UNCHANGED <<session, files, queue, completes, faults>>

(***************************************************************************)
(* The upload worker.                                                      *)
(***************************************************************************)
Take(w) ==
    /\ Idle(w)
    /\ queue # <<>>
    /\ Start(w, [NewJob("send", Head(queue).u) EXCEPT !.f = Head(queue).f])
    /\ queue' = Tail(queue)
    /\ UNCHANGED <<onDisk, session, begun, files, completes, faults>>

\* send_file sends what final_path holds by now, or fails.
Send(w) ==
    LET u == job[w].u
        found == disk[u][Final]
    IN  /\ At(w, "send")
        /\ \/ /\ found # "none"
              /\ job' = [job EXCEPT ![w].op = "store",
                                    ![w].msg = IF found = "full" THEN Content[u] ELSE "part"]
           \/ /\ found = "none" \/ MayFail
              /\ To(w, "sendFailed")
        /\ Reads

\* Mutant of Stored: the worker tells the session and not the file.
StoredNowhere(f, msg) == files

\* The record of file f once its message is known.
Stored(f, msg) == [files EXCEPT ![f].msg = msg, ![f].status = "completed"]

Store(w) == At(w, "store") /\ Saves(Stored(job[w].f, job[w].msg)) /\ To(w, "notify")

\* update_many({"file_id": f}); last_activity_at is left as it was.
Notify(w) ==
    /\ At(w, "notify")
    /\ SetSessions([u \in Uploads |->
                      IF Exists(u) /\ session[u].file = job[w].f
                      THEN [session[u] EXCEPT !.status = "completed"] ELSE session[u]])
    /\ To(w, "rmtree")

SendFailed(w) ==
    At(w, "sendFailed") /\ Saves([files EXCEPT ![job[w].f].status = "failed"]) /\ To(w, "rmtree")

(***************************************************************************)
(* Time, the hourly sweep, the TTL index of uploads, and restarts.         *)
(***************************************************************************)
\* A day in which nothing happens; no coroutine but a worker waiting for
\* Telegram lasts that long.
DayPasses ==
    /\ \A p \in Procs : job[p].op \in {"idle", "send"}
    /\ recent # {} \/ \E u \in Uploads : session[u].active
    /\ recent' = {}
    /\ session' = [u \in Uploads |-> [session[u] EXCEPT !.active = FALSE]]
    /\ UNCHANGED <<begun, dirs, disk, files, queue, job, completes, faults>>

\* Mutant of Stale: only directories without a session are removed.
StaleOrphans == {u \in dirs \ recent : ~Exists(u)}

\* The directories whose mtime is a day old.
Stale == dirs \ recent

\* _cleanup_stale_dirs
Sweep ==
    /\ Stale # {}
    /\ RemoveDirs(Stale, job)
    /\ UNCHANGED stored

\* MongoDB's TTL monitor removes a session without activity for 24 hours.
SessionExpires(u) ==
    /\ Exists(u) /\ ~session[u].active
    /\ SetSessions([session EXCEPT ![u] = NoSession])
    /\ UNCHANGED job

\* The process restarts: the coroutines and the in-memory queue are lost.
Restart ==
    /\ faults < MaxFaults
    /\ faults' = faults + 1
    /\ job' = [p \in Procs |-> NoJob]
    /\ queue' = <<>>
    /\ UNCHANGED <<onDisk, session, begun, files, completes>>

(***************************************************************************)
(* The specification.                                                      *)
(***************************************************************************)
Request(p) ==
    \/ \E u \in Chunked : ResumeUpload(p, u) \/ CompleteUpload(p, u)
    \/ \E u \in Chunked, c \in Chunks : UploadChunk(p, u, c)
    \/ \E u \in Small : SmallUpload(p, u)

Step(p) ==
    \/ OpenChunk(p) \/ WriteChunk(p) \/ ReceiveChunk(p) \/ Resumed(p)
    \/ Accept(p) \/ OpenFinal(p) \/ ReadChunk(p) \/ DropChunk(p)
    \/ Lookup(p) \/ RecordFile(p) \/ RemoveUploadDir(p) \/ Enqueue(p)
    \/ UpdateSession(p) \/ FailUpload(p)

WorkerStep(w) ==
    Take(w) \/ Send(w) \/ Store(w) \/ Notify(w) \/ SendFailed(w) \/ RemoveUploadDir(w)

Init ==
    /\ session = [u \in Uploads |-> NoSession]
    /\ begun = {}
    /\ dirs = {}
    /\ recent = {}
    /\ disk = [u \in Uploads |-> [c \in 0 .. NumChunks |-> "none"]]
    /\ files = <<>>
    /\ queue = <<>>
    /\ job = [p \in Procs |-> NoJob]
    /\ completes = [u \in Uploads |-> 0]
    /\ faults = 0

Next ==
    \/ \E u \in Uploads : Begin(u) \/ PauseUpload(u) \/ SessionExpires(u)
    \/ \E p \in Clients : Request(p) \/ Step(p)
    \/ \E w \in Workers : WorkerStep(w)
    \/ DayPasses
    \/ Sweep
    \/ Restart

\* Coroutines that can run do; the sweep runs every hour; days go by.
Fairness ==
    /\ \A p \in Clients : WF_vars(Step(p))
    /\ \A w \in Workers : WF_vars(WorkerStep(w))
    /\ WF_vars(Sweep)
    /\ WF_vars(DayPasses)

Spec == Init /\ [][Next]_vars
FairSpec == Spec /\ Fairness

(***************************************************************************)
(* Properties.                                                             *)
(***************************************************************************)
\* Every document, file, task and job has its type.
TypeOK ==
    /\ session \in [Uploads -> Session]
    /\ begun \subseteq Uploads /\ dirs \subseteq begun /\ recent \subseteq dirs
    /\ disk \in [Uploads -> [0 .. NumChunks -> Part]]
    /\ files \in Seq(FileDoc)
    /\ queue \in Seq([u : Uploads, f : DOMAIN files])
    /\ job \in [Procs -> Job]
    /\ completes \in [Uploads -> Nat]

\* A session that says "completed", unless for a duplicate, names a file
\* whose content is in Telegram: the worker tells the file first, and no
\* interleaving of requests, sweeps and restarts lets a session go ahead.
CompletedMeansStored ==
    \A u \in Uploads :
        session[u].status = "completed" /\ ~session[u].dup =>
            session[u].file \in DOMAIN files /\ files[session[u].file].msg # "none"

\* As long as clients send a chunk once and complete an upload once, every
\* file record describes the whole of what was sent, and its message holds
\* exactly that.
WholeContent ==
    (\A u \in Uploads : completes[u] <= 1) =>
        \A f \in DOMAIN files :
            files[f].content \in Contents /\ files[f].msg \in {"none", files[f].content}

\* Once the clients have nothing more to ask, every per-upload directory is
\* removed some day, whatever became of the upload: by its worker, as a
\* duplicate, or by the sweep.
DirsReclaimed ==
    <>[](\A p \in Clients : Idle(p)) => \A u \in Uploads : u \in dirs ~> u \notin dirs

\* Once nothing is at work, no session is still "processing" whose file has
\* its message: the comment of _process_chunked_upload says the status stays
\* until the worker finishes.
ProcessingUntilStored ==
    (\A p \in Procs : Idle(p)) /\ queue = <<>> =>
        \A u \in Uploads :
            session[u].status = "processing" /\ session[u].file # 0 => files[session[u].file].msg = "none"

\* A session in use has the chunks it says it received: the sweep only
\* removes directories that are abandoned.
ReceivedOnDisk ==
    \A u \in Chunked :
        session[u].status = "uploading" /\ session[u].active =>
            \A c \in session[u].received : disk[u][c] # "none"
=============================================================================
