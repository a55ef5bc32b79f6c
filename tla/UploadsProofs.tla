---------------------------- MODULE UploadsProofs ----------------------------
(***************************************************************************)
(* That a session claims nothing that is not stored, and that what is      *)
(* recorded and sent is the whole of what was uploaded: for any uploads,   *)
(* chunks, requests and workers, any interleaving of them with sweeps and  *)
(* expiring sessions, and restarts at any moment.                          *)
(***************************************************************************)
EXTENDS Uploads, SequenceTheorems, TLAPS

(***************************************************************************)
(* The invariant, first of what is stored.                                 *)
(***************************************************************************)
Assembly == {"accept", "final", "read", "drop"}
ChunkOps == {"open", "write", "receive"}
Sending == {"send", "store", "notify", "sendFailed"}

\* Only what lies in a directory is on disk, or open and not cut.
DirsOK ==
    /\ \A u \in Uploads, c \in 0 .. NumChunks : disk[u][c] # "none" => u \in dirs
    /\ \A p \in Procs : job[p].op \in {"write", "read", "drop"} /\ job[p].good => job[p].u \in dirs

\* Who makes which call, and about what.
Carries(p) ==
    LET j == job[p]
    IN  /\ j.op \in ChunkOps \cup Assembly \cup {"resume", "fail"} => p \in Clients /\ j.u \in Chunked
        /\ j.op \in {"lookup", "record", "enqueue", "session"} => p \in Clients
        /\ j.op \in Sending => p \in Workers
        /\ j.op \in ChunkOps \cup {"read", "drop"} => j.c \in Chunks
        /\ j.op \in {"enqueue", "session"} \cup Sending => j.f \in DOMAIN files
        /\ j.op = "rmtree" /\ p \in Clients => j.f \in DOMAIN files
        /\ j.op = "store" => j.msg # "none"
        /\ j.op = "notify" => files[j.f].msg # "none"

StoredInv == TypeOK /\ DirsOK /\ (\A p \in Procs : Carries(p)) /\ CompletedMeansStored

\* Whatever is about an upload is about one that was begun.
BegunInv ==
    /\ \A u \in Uploads : Exists(u) => u \in begun
    /\ \A p \in Procs : job[p].op # "idle" => job[p].u \in begun
    /\ \A i \in DOMAIN queue : queue[i].u \in begun

(***************************************************************************)
(* Chunks that are sent once at a time.                                    *)
(***************************************************************************)
\* A chunk that is being received has one writer and was not received yet;
\* when its request is done with it, it is whole or gone.
Receiving(p) ==
    LET j == job[p]
    IN  j.op \in ChunkOps =>
          /\ j.c \notin session[j.u].received
          /\ j.op = "open" => j.good
          /\ \A q \in Procs : job[q].op \in ChunkOps /\ job[q].u = j.u /\ job[q].c = j.c => q = p
          /\ j.op = "receive" \/ (j.op = "write" /\ ~j.good) => disk[j.u][j.c] # "part"

\* All chunks were received when the assembly began.
Complete(u) == session[u].received = Chunks \/ ~Exists(u)

ChunksInv ==
    /\ \A u \in Chunked : \A c \in session[u].received : disk[u][c] # "part"
    /\ \A p \in Procs : Receiving(p)
    /\ \A p \in Procs : job[p].op \in Assembly =>
         /\ Complete(job[p].u)
         /\ \A q \in Procs : job[q].op \in ChunkOps => job[q].u # job[p].u
         /\ \A c \in Chunks : disk[job[p].u][c] # "part"

(***************************************************************************)
(* Uploads that are completed once.                                        *)
(***************************************************************************)
\* The file of u was assembled, and waits to be recorded, queued or sent.
PendingOps == {"lookup", "record", "enqueue", "send"}

Pending(u) ==
    \/ \E p \in Procs : job[p].u = u /\ job[p].op \in PendingOps
    \/ \E i \in DOMAIN queue : queue[i].u = u

\* The file of a task has the content of its upload.
Describes(p) ==
    LET j == job[p]
    IN  /\ j.op \in Assembly \cup {"lookup", "record"} => ~j.short
        /\ j.op = "record" => j.msg \in {"none", Content[j.u]}
        /\ j.op \in {"enqueue", "send"} => files[j.f].content = Content[j.u]
        /\ j.op = "store" => j.msg = files[j.f].content

\* One process at a time assembles the file of u, before it is pending.
Assembles(p) ==
    LET u == job[p].u
    IN  job[p].op \in Assembly =>
          /\ completes[u] # 0 /\ ~Pending(u)
          /\ \A q \in Procs : job[q].op \in Assembly /\ job[q].u = u => q = p
          /\ job[p].op \in {"accept", "final"} => job[p].good
          /\ job[p].op \in {"read", "drop"} => job[p].good \/ disk[u][Final] # "part"

\* What waits is not cut short on disk.
Placed ==
    /\ \A u \in Uploads : Pending(u) => disk[u][Final] # "part" /\ (u \in Chunked => completes[u] # 0)
    /\ \A p \in Procs : Assembles(p)

\* What is recorded, or about to be, is the whole of some content.
WholeFiles == \A f \in DOMAIN files : files[f].content \in Contents /\ files[f].msg \in {"none", files[f].content}

Described ==
    /\ \A p \in Procs : Describes(p)
    /\ \A i \in DOMAIN queue : files[queue[i].f].content = Content[queue[i].u]
    /\ WholeFiles

WholeInv == (\A u \in Uploads : completes[u] <= 1) => Placed /\ Described

(***************************************************************************)
(* What steps have in common.                                              *)
(***************************************************************************)
\* A process that others' steps may have cut off from its file.
Same(j, k) ==
    /\ k.op = j.op /\ k.u = j.u /\ k.c = j.c /\ k.short = j.short
    /\ k.f = j.f /\ k.msg = j.msg /\ k.dup = j.dup
    /\ k.good => j.good

Others(p) == job' \in [Procs -> Job] /\ \A q \in Procs \ {p} : Same(job[q], job'[q])

\* p goes on with its upload, or is done.
Follows(p) == Others(p) /\ (job'[p].op # "idle" => job[p].op # "idle" /\ job'[p].u = job[p].u)

\* No file record is lost or loses its message.
FilesKept ==
    /\ DOMAIN files \subseteq DOMAIN files'
    /\ \A f \in DOMAIN files : files[f].msg # "none" => files'[f].msg # "none"

\* No session becomes completed, but for a duplicate.
NoneCompleted ==
    \A u \in Uploads :
        session'[u].status = "completed" /\ ~session'[u].dup =>
            session[u].status = "completed" /\ ~session[u].dup /\ session'[u].file = session[u].file

\* What comes to be on disk or is open lies in a directory.
DiskGrows(p) ==
    /\ dirs \subseteq dirs'
    /\ \A u \in Uploads, c \in 0 .. NumChunks : disk'[u][c] # "none" => disk[u][c] # "none" \/ u \in dirs'
    /\ job'[p].op \in {"write", "read", "drop"} /\ job'[p].good => job'[p].u \in dirs'

LEMMA NoJobType == NoJob \in Job /\ NoJob.op = "idle"
<1>1. (CHOOSE u \in Uploads : TRUE) \in Uploads
  BY UploadsAssumption DEF Uploads
<1>2. QED
  BY <1>1, NumChunksAssumption DEF NoJob, NewJob, Job, Ops

LEMMA NewJobType ==
    ASSUME NEW op \in Ops, NEW u \in Uploads
    PROVE  /\ NewJob(op, u) \in Job
           /\ NewJob(op, u).op = op /\ NewJob(op, u).u = u /\ NewJob(op, u).f = 0 /\ ~NewJob(op, u).short
BY NumChunksAssumption DEF NewJob, Job

LEMMA FilesTyped ==
    ASSUME TypeOK, NEW f \in DOMAIN files
    PROVE  files[f] \in FileDoc /\ f \in Nat \ {0}
BY DEF TypeOK

LEMMA CutType ==
    ASSUME NEW jobs \in [Procs -> Job], NEW u, NEW cs
    PROVE  /\ Cut(jobs, u, cs) \in [Procs -> Job]
           /\ \A q \in Procs : Same(jobs[q], Cut(jobs, u, cs)[q])
           /\ \A q \in Procs : Cut(jobs, u, cs)[q].good \/ ~jobs[q].good \/ \E c \in cs : Holds(jobs[q], u, c)
<1>1. ASSUME NEW q \in Procs
      PROVE  [jobs[q] EXCEPT !.good = FALSE] \in Job /\ Same(jobs[q], [jobs[q] EXCEPT !.good = FALSE])
  BY DEF Job, Same
<1>2. \A q \in Procs : Same(jobs[q], jobs[q])
  BY DEF Same
<1>3. \A q \in Procs : Cut(jobs, u, cs)[q] = IF \E c \in cs : Holds(jobs[q], u, c)
                                             THEN [jobs[q] EXCEPT !.good = FALSE] ELSE jobs[q]
  BY DEF Cut
<1>4. QED
  BY <1>1, <1>2, <1>3 DEF Cut

LEMMA OthersKept ==
    ASSUME StoredInv, TypeOK', DirsOK', NEW p \in Procs, Others(p), Carries(p)', FilesKept, NoneCompleted
    PROVE  StoredInv'
<1>1. ASSUME NEW q \in Procs \ {p}
      PROVE  Carries(q)'
  <2>1. Carries(q) /\ Same(job[q], job'[q])
    BY DEF StoredInv, Others
  <2>2. QED
    BY <2>1 DEF Carries, Same, FilesKept, Sending
<1>2. CompletedMeansStored'
  BY DEF StoredInv, CompletedMeansStored, FilesKept, NoneCompleted
<1>3. QED
  BY <1>1, <1>2 DEF StoredInv

LEMMA Keeps ==
    ASSUME StoredInv, TypeOK', NEW p \in Procs, Others(p), Carries(p)', FilesKept, NoneCompleted, DiskGrows(p)
    PROVE  StoredInv'
<1>1. DirsOK'
  BY DEF StoredInv, DirsOK, DiskGrows, Others, Same
<1>2. QED
  BY <1>1, OthersKept

\* The same of a step that is no process's.
LEMMA AllKept ==
    ASSUME StoredInv, TypeOK', \A q \in Procs : Same(job[q], job'[q]), FilesKept, NoneCompleted, DirsOK'
    PROVE  StoredInv'
<1>1. ASSUME NEW q \in Procs
      PROVE  Carries(q)'
  <2>1. Carries(q) /\ Same(job[q], job'[q])
    BY DEF StoredInv
  <2>2. QED
    BY <2>1 DEF Carries, Same, FilesKept, Sending
<1>2. CompletedMeansStored'
  BY DEF StoredInv, CompletedMeansStored, FilesKept, NoneCompleted
<1>3. QED
  BY <1>1, <1>2 DEF StoredInv

\* update_one of a session: one that is gone stays gone.
LEMMA SetSessionType ==
    ASSUME TypeOK, NEW u \in Uploads, NEW s \in Session, SetSession(u, s)
    PROVE  /\ session' \in [Uploads -> Session]
           /\ \A v \in Uploads \ {u} : session'[v] = session[v]
           /\ Exists(u) => /\ session'[u].status = s.status /\ session'[u].received = s.received
                           /\ session'[u].file = s.file /\ session'[u].dup = s.dup
           /\ ~Exists(u) => session'[u] = session[u]
           /\ UNCHANGED <<onDisk, begun, files, queue, completes, faults>>
<1>1. [s EXCEPT !.active = TRUE] \in Session
  BY DEF Session
<1>2. session \in [Uploads -> Session]
  BY DEF TypeOK
<1>3. CASE Exists(u)
  BY <1>1, <1>2, <1>3 DEF SetSession, SetSessions, Session
<1>4. CASE ~Exists(u)
  BY <1>2, <1>4 DEF SetSession, SetSessions
<1>5. QED
  BY <1>3, <1>4

\* A step of p that changes its job, and of sessions what SetSession does.
LEMMA SessionStep ==
    ASSUME StoredInv, NEW p \in Procs, NEW u \in Uploads, NEW s \in Session, SetSession(u, s),
           Others(p), Carries(p)', job'[p].op \notin {"write", "read", "drop"},
           s.status = "completed" => s.dup \/ (~s.dup /\ session[u].status = "completed" /\ ~session[u].dup
                                                      /\ s.file = session[u].file)
    PROVE  StoredInv'
<1>1. TypeOK
  BY DEF StoredInv
<1>2. TypeOK'
  BY <1>1, SetSessionType DEF TypeOK, Others, onDisk
<1>3. FilesKept /\ DiskGrows(p)
  BY <1>1, SetSessionType DEF FilesKept, DiskGrows, onDisk
<1>4. NoneCompleted
  BY <1>1, SetSessionType DEF NoneCompleted, Exists
<1>5. QED
  BY <1>2, <1>3, <1>4, Keeps

\* A step of p that only changes its job.
LEMMA JobStep ==
    ASSUME StoredInv, NEW p \in Procs, Others(p), Carries(p)', UNCHANGED <<onDisk, session, begun, files, queue>>,
           completes' \in [Uploads -> Nat],
           job'[p].op \in {"write", "read", "drop"} /\ job'[p].good => job'[p].u \in dirs
    PROVE  StoredInv'
<1>1. TypeOK'
  BY DEF StoredInv, TypeOK, Others, onDisk
<1>2. FilesKept /\ DiskGrows(p) /\ NoneCompleted
  BY DEF FilesKept, DiskGrows, NoneCompleted, onDisk
<1>3. QED
  BY <1>1, <1>2, Keeps

\* The job of p becomes k.
LEMMA BecomesType ==
    ASSUME TypeOK, NEW p \in Procs, NEW k \in Job, job' = [job EXCEPT ![p] = k]
    PROVE  Others(p) /\ job'[p] = k /\ \A q \in Procs \ {p} : job'[q] = job[q]
BY DEF TypeOK, Others, Same

LEMMA StopStored ==
    ASSUME TypeOK, NEW p \in Procs, Stop(p)
    PROVE  /\ Others(p) /\ Carries(p)' /\ job'[p] = NoJob /\ job'[p].op = "idle"
           /\ \A q \in Procs \ {p} : job'[q] = job[q]
BY NoJobType, BecomesType DEF Stop, Carries, ChunkOps, Assembly, Sending

LEMMA ToType ==
    ASSUME TypeOK, NEW p \in Procs, NEW op \in Ops, To(p, op)
    PROVE  /\ Others(p) /\ job'[p].op = op /\ job'[p].u = job[p].u /\ job'[p].c = job[p].c
           /\ job'[p].f = job[p].f /\ job'[p].msg = job[p].msg /\ job'[p].dup = job[p].dup
           /\ job'[p].good = job[p].good /\ job'[p].short = job[p].short
           /\ \A q \in Procs \ {p} : job'[q] = job[q]
<1> DEFINE k == [job[p] EXCEPT !.op = op]
<1>1. /\ k \in Job /\ k.op = op /\ k.u = job[p].u /\ k.c = job[p].c /\ k.f = job[p].f /\ k.msg = job[p].msg
      /\ k.dup = job[p].dup /\ k.good = job[p].good /\ k.short = job[p].short
  BY DEF TypeOK, Job
<1>2. job' = [job EXCEPT ![p] = k]
  BY DEF To
<1> HIDE DEF k
<1>3. Others(p) /\ job'[p] = k /\ \A q \in Procs \ {p} : job'[q] = job[q]
  BY <1>1, <1>2, BecomesType
<1>4. QED
  BY <1>1, <1>3

(***************************************************************************)
(* What is stored, call by call.                                           *)
(***************************************************************************)
LEMMA UploadChunkStored ==
    ASSUME StoredInv, NEW p \in Clients, NEW u \in Chunked, NEW c \in Chunks, UploadChunk(p, u, c)
    PROVE  StoredInv'
<1> DEFINE k == [NewJob("open", u) EXCEPT !.c = c]
<1>1. k \in Job /\ k.op = "open" /\ k.u = u /\ k.c = c
  <2>1. /\ NewJob("open", u) \in Job /\ NewJob("open", u).op = "open" /\ NewJob("open", u).u = u
        /\ c \in 0 .. NumChunks
    BY NewJobType, NumChunksAssumption DEF Ops, Uploads, Chunks
  <2>2. QED
    BY <2>1 DEF Job
<1>2. job' = [job EXCEPT ![p] = k] /\ TypeOK /\ p \in Procs
  BY DEF UploadChunk, Start, StoredInv, Procs
<1> HIDE DEF k
<1>3. Others(p) /\ job'[p] = k
  BY <1>1, <1>2, BecomesType
<1>4. Carries(p)'
  BY <1>1, <1>3 DEF Carries, Assembly, ChunkOps, Sending
<1>5. QED
  BY <1>1, <1>2, <1>3, <1>4, JobStep DEF UploadChunk, Reads, stored, TypeOK

LEMMA StartStored ==
    ASSUME StoredInv, NEW p \in Clients, NEW u \in Chunked, NEW op \in {"resume", "accept"},
           Start(p, NewJob(op, u)), UNCHANGED <<onDisk, session, begun, files, queue>>,
           completes' \in [Uploads -> Nat]
    PROVE  StoredInv'
<1>1. NewJob(op, u) \in Job /\ NewJob(op, u).op = op /\ NewJob(op, u).u = u
  BY NewJobType DEF Ops, Uploads
<1>2. TypeOK /\ p \in Procs
  BY DEF StoredInv, Procs
<1>3. Others(p) /\ job'[p] = NewJob(op, u)
  BY <1>1, <1>2, BecomesType DEF Start
<1>4. Carries(p)'
  BY <1>1, <1>3 DEF Carries, Assembly, ChunkOps, Sending
<1>5. QED
  BY <1>1, <1>2, <1>3, <1>4, JobStep

LEMMA ResumeStored ==
    ASSUME StoredInv, NEW p \in Clients, NEW u \in Chunked, ResumeUpload(p, u) \/ CompleteUpload(p, u)
    PROVE  StoredInv'
<1>1. CASE ResumeUpload(p, u)
  BY <1>1, StartStored DEF ResumeUpload, Reads, stored, StoredInv, TypeOK
<1>2. CASE CompleteUpload(p, u)
  <2>1. completes' \in [Uploads -> Nat]
    BY <1>2 DEF CompleteUpload, StoredInv, TypeOK, Uploads
  <2>2. QED
    BY <1>2, <2>1, StartStored DEF CompleteUpload
<1>3. QED
  BY <1>1, <1>2

LEMMA SessionsStored ==
    ASSUME StoredInv, NEW p \in Clients, ReceiveChunk(p) \/ Resumed(p) \/ Accept(p) \/ FailUpload(p)
    PROVE  StoredInv' /\ Follows(p)
<1> DEFINE u == job[p].u
<1>1. TypeOK /\ p \in Procs /\ job[p] \in Job /\ u \in Uploads /\ session[u] \in Session /\ Carries(p)
  BY DEF StoredInv, TypeOK, Procs, Job
<1>2. CASE ReceiveChunk(p)
  <2> DEFINE s == [session[u] EXCEPT !.received = @ \cup {job[p].c}]
  <2>1. s \in Session /\ s.status = session[u].status /\ s.dup = session[u].dup /\ s.file = session[u].file
    BY <1>1, <1>2 DEF Session, ReceiveChunk, At, Carries, ChunkOps
  <2>2. SetSession(u, s) /\ Stop(p)
    BY <1>2 DEF ReceiveChunk
  <2> HIDE DEF s
  <2>3. QED
    BY <1>1, <2>1, <2>2, StopStored, SessionStep DEF Session, Follows
<1>3. ASSUME NEW status \in Statuses \ {"completed"}, SetStatus(u, status), Others(p), Carries(p)',
             job'[p].op \notin {"write", "read", "drop"}
      PROVE  StoredInv'
  <2> DEFINE s == [session[u] EXCEPT !.status = status]
  <2>1. s \in Session /\ s.status = status
    BY <1>1 DEF Session
  <2>2. SetSession(u, s)
    BY <1>3 DEF SetStatus
  <2> HIDE DEF s
  <2>3. QED
    BY <1>1, <1>3, <2>1, <2>2, SessionStep
<1>4. CASE Resumed(p)
  BY <1>1, <1>3, <1>4, StopStored DEF Resumed, Statuses, Follows
<1>5. CASE Accept(p)
  <2>1. Others(p) /\ job'[p].op = "final" /\ job'[p].u = job[p].u
    BY <1>1, <1>5, ToType DEF Accept, Ops
  <2>2. Carries(p)'
    BY <1>1, <1>5, <2>1 DEF Carries, Accept, At, ChunkOps, Assembly, Sending
  <2>3. QED
    BY <1>3, <1>5, <2>1, <2>2 DEF Accept, At, Statuses, Follows
<1>6. CASE FailUpload(p)
  BY <1>1, <1>3, <1>6, StopStored DEF FailUpload, Statuses, Follows
<1>7. QED
  BY <1>2, <1>4, <1>5, <1>6

LEMMA PauseStored ==
    ASSUME StoredInv, NEW u \in Uploads, PauseUpload(u)
    PROVE  StoredInv'
<1> DEFINE s == [session[u] EXCEPT !.status = "paused"]
<1>1. TypeOK /\ s \in Session /\ s.status = "paused" /\ job \in [Procs -> Job]
  BY DEF StoredInv, TypeOK, Session, Statuses
<1>2. SetSession(u, s) /\ job' = job
  BY DEF PauseUpload, SetStatus
<1> HIDE DEF s
<1>3. /\ session' \in [Uploads -> Session] /\ NoneCompleted
      /\ UNCHANGED <<onDisk, begun, files, queue, completes, faults>>
  BY <1>1, <1>2, SetSessionType DEF NoneCompleted, Exists
<1>4. TypeOK' /\ FilesKept /\ DirsOK'
  BY <1>2, <1>3 DEF TypeOK, StoredInv, FilesKept, DirsOK, onDisk
<1>5. \A q \in Procs : Same(job[q], job'[q])
  BY <1>2 DEF Same
<1>6. QED
  BY <1>3, <1>4, <1>5, AllKept

LEMMA UpdateSessionStored ==
    ASSUME StoredInv, NEW p \in Clients, UpdateSession(p)
    PROVE  StoredInv' /\ Follows(p)
<1> DEFINE u == job[p].u
<1>1. /\ TypeOK /\ p \in Procs /\ job[p] \in Job /\ u \in Uploads /\ session[u] \in Session /\ Carries(p)
      /\ job[p].f \in Nat /\ job[p].dup \in BOOLEAN
  BY DEF StoredInv, TypeOK, Procs, Job
<1>2. Others(p) /\ Carries(p)' /\ job'[p].op = "idle"
  BY <1>1, StopStored DEF UpdateSession
<1>3. CASE u \in Small
  <2> DEFINE s == [NoSession EXCEPT !.status = "processing", !.file = job[p].f, !.active = TRUE]
  <2>1. s \in Session /\ s.status = "processing"
    BY <1>1 DEF NoSession, Session, Statuses
  <2>2. SetSessions([session EXCEPT ![u] = s])
    BY <1>3 DEF UpdateSession
  <2> HIDE DEF s
  <2>3. /\ session' \in [Uploads -> Session] /\ NoneCompleted
        /\ UNCHANGED <<onDisk, begun, files, queue, completes, faults>>
    BY <1>1, <2>1, <2>2 DEF SetSessions, TypeOK, NoneCompleted
  <2>4. TypeOK' /\ FilesKept /\ DiskGrows(p)
    BY <1>1, <1>2, <2>3 DEF TypeOK, FilesKept, DiskGrows, Others, onDisk
  <2>5. QED
    BY <1>1, <1>2, <2>3, <2>4, Keeps DEF Follows
<1>4. CASE u \notin Small
  <2> DEFINE s == [session[u] EXCEPT !.status = IF job[p].dup THEN "completed" ELSE "processing",
                                     !.file = job[p].f, !.dup = @ \/ job[p].dup]
  <2>1. s \in Session /\ (s.status = "completed" => s.dup)
    BY <1>1 DEF Session, Statuses
  <2>2. SetSession(u, s)
    BY <1>4 DEF UpdateSession
  <2> HIDE DEF s
  <2>3. QED
    BY <1>1, <1>2, <2>1, <2>2, SessionStep DEF Follows
<1>5. QED
  BY <1>3, <1>4

LEMMA ReadChunkStored ==
    ASSUME StoredInv, NEW p \in Clients, ReadChunk(p)
    PROVE  StoredInv' /\ Follows(p)
<1>1. /\ TypeOK /\ p \in Procs /\ job[p] \in Job /\ Carries(p)
      /\ job[p].good => job[p].u \in dirs
  BY DEF StoredInv, TypeOK, Procs, DirsOK, ReadChunk, At
<1>2. completes' \in [Uploads -> Nat] /\ UNCHANGED <<onDisk, session, begun, files, queue>>
  BY <1>1 DEF ReadChunk, Reads, stored, TypeOK
<1>3. CASE To(p, "fail")
  <2>1. Others(p) /\ job'[p].op = "fail" /\ job'[p].u = job[p].u
    BY <1>1, <1>3, ToType DEF Ops
  <2>2. Carries(p)'
    BY <1>1, <2>1 DEF Carries, ReadChunk, At, ChunkOps, Assembly, Sending
  <2>3. QED
    BY <1>1, <1>2, <2>1, <2>2, JobStep DEF Follows, ReadChunk, At
<1>4. CASE ~To(p, "fail")
  <2> DEFINE k == [job[p] EXCEPT !.op = "drop", !.short = @ \/ disk[job[p].u][job[p].c] = "part"]
  <2>1. /\ k \in Job /\ k.op = "drop" /\ k.u = job[p].u /\ k.c = job[p].c /\ k.f = job[p].f
        /\ k.good = job[p].good
    BY <1>1 DEF Job, Ops
  <2>2. job' = [job EXCEPT ![p] = k]
    BY <1>4 DEF ReadChunk
  <2> HIDE DEF k
  <2>3. Others(p) /\ job'[p] = k
    BY <1>1, <2>1, <2>2, BecomesType
  <2>4. Carries(p)'
    BY <1>1, <2>1, <2>3 DEF Carries, ReadChunk, At, ChunkOps, Assembly, Sending
  <2>5. QED
    BY <1>1, <1>2, <2>1, <2>3, <2>4, JobStep DEF Follows, ReadChunk, At
<1>5. QED
  BY <1>3, <1>4

LEMMA LookupStored ==
    ASSUME StoredInv, NEW p \in Clients, Lookup(p)
    PROVE  StoredInv' /\ Follows(p)
<1>1. TypeOK /\ p \in Procs /\ job[p] \in Job /\ Carries(p)
  BY DEF StoredInv, TypeOK, Procs
<1>2. completes' \in [Uploads -> Nat] /\ UNCHANGED <<onDisk, session, begun, files, queue>>
  BY <1>1 DEF Lookup, Reads, stored, TypeOK
<1>3. PICK msg \in Held \cup {"none"}, dup \in BOOLEAN :
           job' = [job EXCEPT ![p].op = "record", ![p].msg = msg, ![p].dup = dup]
  <2>1. \A f \in DOMAIN files : files[f].msg \in Held \cup {"none"}
    BY <1>1, FilesTyped DEF FileDoc
  <2>2. QED
    BY <2>1 DEF Lookup
<1> DEFINE k == [job[p] EXCEPT !.op = "record", !.msg = msg, !.dup = dup]
<1>4. k \in Job /\ k.op = "record" /\ k.u = job[p].u
  BY <1>1 DEF Job, Ops
<1>5. job' = [job EXCEPT ![p] = k]
  BY <1>3
<1> HIDE DEF k
<1>6. Others(p) /\ job'[p] = k
  BY <1>1, <1>4, <1>5, BecomesType
<1>7. Carries(p)'
  BY <1>4, <1>6 DEF Carries, ChunkOps, Assembly, Sending
<1>8. QED
  BY <1>1, <1>2, <1>4, <1>6, <1>7, JobStep DEF Follows, Lookup, At

LEMMA SendStored ==
    ASSUME StoredInv, NEW p \in Workers, Send(p)
    PROVE  StoredInv' /\ Follows(p)
<1>1. TypeOK /\ p \in Procs /\ job[p] \in Job /\ Carries(p)
  BY DEF StoredInv, TypeOK, Procs
<1>2. completes' \in [Uploads -> Nat] /\ UNCHANGED <<onDisk, session, begun, files, queue>>
  BY <1>1 DEF Send, Reads, stored, TypeOK
<1>3. CASE To(p, "sendFailed")
  <2>1. Others(p) /\ job'[p].op = "sendFailed" /\ job'[p].f = job[p].f /\ job'[p].u = job[p].u
    BY <1>1, <1>3, ToType DEF Ops
  <2>2. Carries(p)'
    BY <1>1, <1>2, <2>1 DEF Carries, Send, At, ChunkOps, Assembly, Sending
  <2>3. QED
    BY <1>1, <1>2, <2>1, <2>2, JobStep DEF Follows, Send, At
<1>4. CASE ~To(p, "sendFailed")
  <2> DEFINE u == job[p].u
             msg == IF disk[u][Final] = "full" THEN Content[u] ELSE "part"
             k == [job[p] EXCEPT !.op = "store", !.msg = msg]
  <2>1. msg \in Held /\ msg # "none"
    BY <1>1, ContentAssumption DEF Held, Uploads, Job
  <2> HIDE DEF msg
  <2>2. k \in Job /\ k.op = "store" /\ k.u = u /\ k.f = job[p].f /\ k.msg = msg
    BY <1>1, <2>1 DEF Job, Ops
  <2>3. job' = [job EXCEPT ![p] = k]
    BY <1>4 DEF Send, msg
  <2> HIDE DEF k
  <2>4. Others(p) /\ job'[p] = k
    BY <1>1, <2>2, <2>3, BecomesType
  <2>5. Carries(p)'
    BY <1>1, <1>2, <2>1, <2>2, <2>4 DEF Carries, Send, At, ChunkOps, Assembly, Sending
  <2>6. QED
    BY <1>1, <1>2, <2>2, <2>4, <2>5, JobStep DEF Follows, Send, At
<1>5. QED
  BY <1>3, <1>4

\* open(..., "wb") of a file of the directory.
LEMMA OpenStored ==
    ASSUME StoredInv, NEW p \in Clients, NEW c \in 0 .. NumChunks, NEW op \in {"write", "read"}, Open(p, c, op),
           job[p].u \in Chunked
    PROVE  /\ StoredInv' /\ Others(p)
           /\ job'[p].op = op /\ job'[p].u = job[p].u /\ job'[p].c = (IF c = Final THEN 1 ELSE c)
<1> DEFINE u == job[p].u
           cut == Cut(job, u, {c})
           d == IF c = Final THEN 1 ELSE c
           k == [cut[p] EXCEPT !.op = op, !.c = d]
<1>1. TypeOK /\ p \in Procs /\ job \in [Procs -> Job] /\ u \in Uploads /\ u \in dirs
  BY DEF StoredInv, TypeOK, Procs, Job, Open
<1>2. cut \in [Procs -> Job] /\ \A q \in Procs : Same(job[q], cut[q])
  BY <1>1, CutType
<1>3. d \in Chunks /\ d \in 0 .. NumChunks
  BY NumChunksAssumption DEF Chunks, Final
<1>4. job' = [cut EXCEPT ![p] = k]
  BY DEF Open
<1> HIDE DEF cut, d
<1>5. k \in Job /\ k.op = op /\ k.u = u /\ k.c = d
  <2>1. cut[p] \in Job /\ cut[p].u = u /\ op \in Ops
    BY <1>1, <1>2 DEF Same, Ops
  <2>2. QED
    BY <1>3, <2>1 DEF Job
<1> HIDE DEF k
<1>6. Others(p) /\ job'[p] = k
  BY <1>1, <1>2, <1>4, <1>5 DEF Others
<1>7. Carries(p)'
  BY <1>3, <1>5, <1>6 DEF Carries, ChunkOps, Assembly, Sending
<1>8. /\ disk' \in [Uploads -> [0 .. NumChunks -> Part]] /\ dirs' = dirs
      /\ recent' \subseteq recent \cup {u} /\ UNCHANGED stored
      /\ \A v \in Uploads, b \in 0 .. NumChunks : disk'[v][b] # "none" => disk[v][b] # "none" \/ v = u
  BY <1>1 DEF Open, TouchIf, TypeOK, Part
<1>9. TypeOK'
  BY <1>1, <1>6, <1>8 DEF TypeOK, Others, stored
<1>10. FilesKept /\ NoneCompleted /\ DiskGrows(p)
  BY <1>1, <1>5, <1>6, <1>8 DEF FilesKept, NoneCompleted, DiskGrows, stored
<1>11. QED
  BY <1>1, <1>5, <1>6, <1>7, <1>9, <1>10, Keeps DEF d

LEMMA OpeningStored ==
    ASSUME StoredInv, NEW p \in Clients, OpenChunk(p) \/ OpenFinal(p)
    PROVE  StoredInv' /\ Follows(p)
<1>1. TypeOK /\ p \in Procs /\ job[p] \in Job /\ Carries(p)
  BY DEF StoredInv, TypeOK, Procs
<1>2. job[p].u \in Chunked /\ job[p].c \in 0 .. NumChunks /\ Final \in 0 .. NumChunks
  BY <1>1, NumChunksAssumption DEF Carries, OpenChunk, OpenFinal, At, ChunkOps, Assembly, Job, Final
<1>3. CASE Open(p, job[p].c, "write") \/ Open(p, Final, "read")
  BY <1>2, <1>3, OpenStored DEF Follows, OpenChunk, OpenFinal, At
<1>4. CASE Stop(p) /\ Reads
  BY <1>1, <1>4, StopStored, JobStep DEF Reads, stored, TypeOK, Follows
<1>5. CASE To(p, "fail") /\ Reads
  <2>1. Others(p) /\ job'[p].op = "fail" /\ job'[p].u = job[p].u
    BY <1>1, <1>5, ToType DEF Ops
  <2>2. Carries(p)'
    BY <1>1, <1>2, <2>1 DEF Carries, ChunkOps, Assembly, Sending
  <2>3. QED
    BY <1>1, <1>5, <2>1, <2>2, JobStep DEF Reads, stored, TypeOK, Follows, OpenChunk, OpenFinal, At
<1>6. QED
  BY <1>3, <1>4, <1>5 DEF OpenChunk, OpenFinal

LEMMA WriteChunkStored ==
    ASSUME StoredInv, NEW p \in Clients, WriteChunk(p)
    PROVE  StoredInv' /\ Follows(p)
<1> DEFINE u == job[p].u
           c == job[p].c
<1>1. /\ TypeOK /\ p \in Procs /\ job \in [Procs -> Job] /\ u \in Uploads /\ Carries(p) /\ DirsOK
      /\ c \in 0 .. NumChunks
  BY DEF StoredInv, TypeOK, Procs, Job
<1>2. job[p].good => u \in dirs
  BY <1>1 DEF DirsOK, WriteChunk, At
<1>3. ASSUME Others(p), Carries(p)', job'[p].op = "idle" \/ (job'[p].op = "receive" /\ job'[p].u = u),
             disk' \in [Uploads -> [0 .. NumChunks -> Part]],
             \A v \in Uploads, b \in 0 .. NumChunks : disk'[v][b] # "none" => disk[v][b] # "none" \/ v \in dirs,
             recent' = recent \/ (u \in dirs /\ recent' = recent \cup {u})
      PROVE  StoredInv' /\ Follows(p)
  <2>1. TypeOK'
    BY <1>1, <1>3 DEF WriteChunk, stored, TypeOK, Others
  <2>2. FilesKept /\ NoneCompleted /\ DiskGrows(p)
    BY <1>3 DEF WriteChunk, stored, FilesKept, NoneCompleted, DiskGrows
  <2>3. QED
    BY <1>1, <1>3, <2>1, <2>2, Keeps DEF Follows, WriteChunk, At
<1>4. CASE /\ disk' = IF job[p].good THEN [disk EXCEPT ![u][c] = Written] ELSE disk
           /\ To(p, "receive") /\ UNCHANGED recent
  <2>1. /\ Others(p) /\ job'[p].op = "receive" /\ job'[p].u = job[p].u /\ job'[p].c = job[p].c
    BY <1>1, <1>4, ToType DEF Ops
  <2>2. Carries(p)'
    BY <1>1, <2>1 DEF Carries, WriteChunk, At, ChunkOps, Assembly, Sending
  <2>3. /\ disk' \in [Uploads -> [0 .. NumChunks -> Part]]
        /\ \A v \in Uploads, b \in 0 .. NumChunks : disk'[v][b] # "none" => disk[v][b] # "none" \/ v \in dirs
    BY <1>1, <1>2, <1>4 DEF TypeOK, Part, Written
  <2>4. QED
    BY <1>3, <1>4, <2>1, <2>2, <2>3
<1>5. CASE /\ disk' = [disk EXCEPT ![u][c] = "none"] /\ TouchIf(u, disk[u][c] # "none")
           /\ job' = [Cut(job, u, {c}) EXCEPT ![p] = NoJob]
  <2>1. Others(p) /\ job'[p] = NoJob
    BY <1>1, <1>5, CutType, NoJobType DEF Others
  <2>2. Carries(p)' /\ job'[p].op = "idle"
    BY <2>1, NoJobType DEF Carries, ChunkOps, Assembly, Sending
  <2>3. /\ disk' \in [Uploads -> [0 .. NumChunks -> Part]]
        /\ \A v \in Uploads, b \in 0 .. NumChunks : disk'[v][b] # "none" => disk[v][b] # "none"
    BY <1>1, <1>5 DEF TypeOK, Part
  <2>4. recent' = recent \/ (u \in dirs /\ recent' = recent \cup {u})
    BY <1>1, <1>5 DEF TouchIf, DirsOK
  <2>5. QED
    BY <1>3, <2>1, <2>2, <2>3, <2>4
<1>6. QED
  BY <1>4, <1>5 DEF WriteChunk

LEMMA DropChunkStored ==
    ASSUME StoredInv, NEW p \in Clients, DropChunk(p)
    PROVE  StoredInv' /\ Follows(p)
<1> DEFINE u == job[p].u
           c == job[p].c
           cut == Cut(job, u, {c})
<1>1. /\ TypeOK /\ p \in Procs /\ job \in [Procs -> Job] /\ u \in Uploads /\ Carries(p) /\ DirsOK
      /\ c \in Chunks /\ c \in 0 .. NumChunks /\ u \in Chunked
  BY DEF StoredInv, TypeOK, Procs, Job, DropChunk, At, Carries, Assembly
<1>2. /\ cut \in [Procs -> Job] /\ \A q \in Procs : Same(job[q], cut[q])
  BY <1>1, CutType
<1>3. job[p].good => u \in dirs
  BY <1>1 DEF DirsOK, DropChunk, At
<1>4. /\ job'[p] \in Job /\ job'[p].op \in {"lookup", "read"} /\ job'[p].u = u
      /\ (job'[p].good => job[p].good)
      /\ (job'[p].op = "read" => job'[p].c \in Chunks)
      /\ \A q \in Procs \ {p} : job'[q] = cut[q]
      /\ job' \in [Procs -> Job]
  <2>1. cut[p] \in Job /\ cut[p].u = u /\ (cut[p].good => job[p].good)
    BY <1>1, <1>2 DEF Same
  <2>2. CASE c = NumChunks
    <3> DEFINE k == [cut[p] EXCEPT !.op = "lookup"]
    <3>1. k \in Job /\ k.op = "lookup" /\ k.u = u /\ k.good = cut[p].good
      BY <2>1 DEF Job, Ops
    <3>2. job' = [cut EXCEPT ![p] = k]
      BY <2>2 DEF DropChunk
    <3> HIDE DEF k, cut
    <3>3. QED
      BY <1>1, <1>2, <2>1, <3>1, <3>2
  <2>3. CASE c # NumChunks
    <3> DEFINE k == [cut[p] EXCEPT !.op = "read", !.c = c + 1]
    <3>1. c + 1 \in Chunks /\ c + 1 \in 0 .. NumChunks
      BY <1>1, <2>3, NumChunksAssumption DEF Chunks
    <3>2. job' = [cut EXCEPT ![p] = k]
      BY <2>3 DEF DropChunk
    <3> HIDE DEF cut
    <3>3. k \in Job /\ k.op = "read" /\ k.u = u /\ k.good = cut[p].good /\ k.c = c + 1
      BY <2>1, <3>1 DEF Job, Ops
    <3> HIDE DEF k
    <3>4. QED
      BY <1>1, <1>2, <2>1, <3>1, <3>2, <3>3
  <2>4. QED
    BY <2>2, <2>3
<1>5. Others(p)
  BY <1>2, <1>4 DEF Others
<1>6. Carries(p)'
  BY <1>1, <1>4, ProcsAssumption DEF Carries, ChunkOps, Assembly, Sending
<1>7. /\ disk' \in [Uploads -> [0 .. NumChunks -> Part]]
      /\ \A v \in Uploads, b \in 0 .. NumChunks : disk'[v][b] # "none" => disk[v][b] # "none" \/ v \in dirs
      /\ recent' = recent \/ (u \in dirs /\ recent' = recent \cup {u})
      /\ UNCHANGED <<stored, dirs>>
  <2>1. Final \in 0 .. NumChunks /\ Final # c
    BY <1>1, NumChunksAssumption DEF Final, Chunks
  <2>2. UNCHANGED <<stored, dirs>> /\ TouchIf(u, disk[u][c] # "none")
    BY DEF DropChunk
  <2>3. recent' = recent \/ (u \in dirs /\ recent' = recent \cup {u})
    BY <1>1, <2>2 DEF TouchIf, DirsOK
  <2>4. PICK whole \in BOOLEAN : /\ whole => job[p].good
           /\ disk' = [disk EXCEPT ![u][c] = "none", ![u][Final] = IF whole THEN "full" ELSE @]
    BY <1>1 DEF DropChunk, Job
  <2>5. /\ disk' \in [Uploads -> [0 .. NumChunks -> Part]]
        /\ \A v \in Uploads, b \in 0 .. NumChunks : disk'[v][b] # "none" => disk[v][b] # "none" \/ v \in dirs
    BY <1>1, <1>3, <2>1, <2>4 DEF TypeOK, Part
  <2>6. QED
    BY <2>2, <2>3, <2>5
<1>8. TypeOK'
  BY <1>1, <1>5, <1>7 DEF TypeOK, Others, stored
<1>9. FilesKept /\ NoneCompleted /\ DiskGrows(p)
  BY <1>1, <1>3, <1>4, <1>7 DEF FilesKept, NoneCompleted, DiskGrows, stored
<1>10. QED
  BY <1>1, <1>4, <1>5, <1>6, <1>8, <1>9, Keeps DEF Follows, DropChunk, At

LEMMA BeginStored ==
    ASSUME StoredInv, NEW u \in Chunked, Begin(u)
    PROVE  StoredInv'
<1> DEFINE s == [NoSession EXCEPT !.status = "uploading", !.active = TRUE]
<1>1. TypeOK /\ u \in Uploads /\ s \in Session /\ s.status = "uploading" /\ job \in [Procs -> Job]
  BY DEF StoredInv, TypeOK, NoSession, Session, Statuses, Uploads
<1>2. session' = [session EXCEPT ![u] = s]
  BY DEF Begin
<1> HIDE DEF s
<1>3. TypeOK'
  BY <1>1, <1>2 DEF Begin, TypeOK, Touch
<1>4. FilesKept /\ NoneCompleted /\ DirsOK'
  BY <1>1, <1>2 DEF Begin, FilesKept, NoneCompleted, StoredInv, DirsOK, TypeOK
<1>5. \A q \in Procs : Same(job[q], job'[q])
  BY DEF Begin, Same
<1>6. QED
  BY <1>3, <1>4, <1>5, AllKept

LEMMA SmallUploadStored ==
    ASSUME StoredInv, NEW p \in Clients, NEW u \in Small, SmallUpload(p, u)
    PROVE  StoredInv'
<1>1. TypeOK /\ u \in Uploads /\ job \in [Procs -> Job] /\ p \in Procs /\ DirsOK /\ Final \in 0 .. NumChunks
  BY NumChunksAssumption DEF StoredInv, TypeOK, Uploads, Procs, Final
<1>2. NewJob("lookup", u) \in Job /\ NewJob("lookup", u).op = "lookup"
  BY <1>1, NewJobType DEF Ops
<1>3. Others(p) /\ Carries(p)' /\ job'[p].op \notin {"write", "read", "drop"}
  <2>1. CASE Start(p, NewJob("lookup", u))
    <3>1. Others(p) /\ job'[p] = NewJob("lookup", u)
      BY <1>1, <1>2, <2>1, BecomesType DEF Start
    <3>2. QED
      BY <1>2, <3>1 DEF Carries, ChunkOps, Assembly, Sending
  <2>2. CASE UNCHANGED job
    <3>1. job[p].op = "idle"
      BY DEF SmallUpload, Idle
    <3>2. QED
      BY <1>1, <2>2, <3>1 DEF Others, Same, Carries, ChunkOps, Assembly, Sending
  <2>3. QED
    BY <2>1, <2>2 DEF SmallUpload
<1>4. PICK d \in {"full", "part"} : disk' = [disk EXCEPT ![u][Final] = d]
  BY DEF SmallUpload
<1>5. TypeOK'
  BY <1>1, <1>3, <1>4 DEF SmallUpload, TypeOK, Others, Touch, Part
<1>6. FilesKept /\ NoneCompleted /\ DiskGrows(p)
  BY <1>1, <1>3, <1>4 DEF SmallUpload, FilesKept, NoneCompleted, DiskGrows, TypeOK
<1>7. QED
  BY <1>1, <1>3, <1>5, <1>6, Keeps

\* rmtree leaves nothing on disk of U, and no one with a file of it open.
LEMMA RemoveDirsType ==
    ASSUME TypeOK, DirsOK, NEW U, NEW jobs \in [Procs -> Job], RemoveDirs(U, jobs), UNCHANGED stored,
           \A q \in Procs : Same(job[q], jobs[q]) \/ jobs[q].op \notin {"write", "read", "drop"}
    PROVE  TypeOK' /\ DirsOK' /\ FilesKept /\ NoneCompleted /\ \A q \in Procs : Same(jobs[q], job'[q])
<1>1. ASSUME NEW q \in Procs
      PROVE  /\ job'[q] \in Job /\ Same(jobs[q], job'[q])
             /\ jobs[q].op \in {"write", "read", "drop"} /\ jobs[q].u \in U => ~job'[q].good
  <2>1. jobs[q] \in Job /\ Same(jobs[q], jobs[q])
    BY DEF Same
  <2>2. /\ [jobs[q] EXCEPT !.good = FALSE] \in Job /\ Same(jobs[q], [jobs[q] EXCEPT !.good = FALSE])
        /\ ~[jobs[q] EXCEPT !.good = FALSE].good
    BY <2>1 DEF Job, Same
  <2>3. job'[q] = IF jobs[q].op \in {"write", "read", "drop"} /\ jobs[q].u \in U
                  THEN [jobs[q] EXCEPT !.good = FALSE] ELSE jobs[q]
    BY DEF RemoveDirs
  <2>4. QED
    BY <2>1, <2>2, <2>3
<1>2. job' \in [Procs -> Job]
  BY <1>1 DEF RemoveDirs
<1>3. /\ disk' \in [Uploads -> [0 .. NumChunks -> Part]]
      /\ \A v \in Uploads, b \in 0 .. NumChunks : disk'[v][b] # "none" => disk[v][b] # "none" /\ v \notin U
  <2>1. \A v \in Uploads : disk'[v] = IF v \in U THEN [c \in 0 .. NumChunks |-> "none"] ELSE disk[v]
    BY DEF RemoveDirs
  <2>2. disk' = [v \in Uploads |-> disk'[v]]
    BY DEF RemoveDirs
  <2>3. QED
    BY <2>1, <2>2 DEF TypeOK, Part
<1>4. TypeOK'
  BY <1>2, <1>3 DEF RemoveDirs, TypeOK, stored
<1>5. DirsOK'
  <2>1. dirs' = dirs \ U
    BY DEF RemoveDirs
  <2>2. \A v \in Uploads, b \in 0 .. NumChunks : disk'[v][b] # "none" => v \in dirs'
    BY <1>3, <2>1 DEF DirsOK
  <2>3. ASSUME NEW q \in Procs, job'[q].op \in {"write", "read", "drop"}, job'[q].good
        PROVE  job'[q].u \in dirs'
    BY <1>1, <2>1, <2>3 DEF DirsOK, Same
  <2>4. QED
    BY <2>2, <2>3 DEF DirsOK
<1>6. FilesKept /\ NoneCompleted
  BY DEF stored, FilesKept, NoneCompleted
<1>7. QED
  BY <1>1, <1>4, <1>5, <1>6

LEMMA SweepStored == ASSUME StoredInv, Sweep PROVE StoredInv'
<1>1. TypeOK /\ DirsOK /\ job \in [Procs -> Job] /\ RemoveDirs(Stale, job) /\ UNCHANGED stored
  BY DEF StoredInv, TypeOK, Sweep
<1>2. \A q \in Procs : Same(job[q], job[q])
  BY DEF Same
<1>3. QED
  BY <1>1, <1>2, RemoveDirsType, AllKept

LEMMA RemoveUploadDirStored ==
    ASSUME StoredInv, NEW p \in Procs, RemoveUploadDir(p)
    PROVE  StoredInv' /\ Follows(p)
<1> DEFINE j == job[p]
           next == IF p \in Clients /\ j.u \in Chunked THEN [j EXCEPT !.op = "session"] ELSE NoJob
           jobs == [job EXCEPT ![p] = next]
<1>1. TypeOK /\ DirsOK /\ job \in [Procs -> Job] /\ j \in Job /\ Carries(p) /\ j.op = "rmtree"
  BY DEF StoredInv, TypeOK, RemoveUploadDir, At
<1>2. next \in Job /\ (next.op = "idle" \/ (next.op = "session" /\ p \in Clients /\ next.f = j.f /\ next.u = j.u))
  <2>1. /\ [j EXCEPT !.op = "session"] \in Job /\ [j EXCEPT !.op = "session"].op = "session"
        /\ [j EXCEPT !.op = "session"].f = j.f /\ [j EXCEPT !.op = "session"].u = j.u
    BY <1>1 DEF Job, Ops
  <2>2. QED
    BY <2>1, NoJobType
<1>3. RemoveDirs({j.u}, jobs) /\ UNCHANGED stored
  BY DEF RemoveUploadDir
<1> HIDE DEF next
<1>4. /\ jobs \in [Procs -> Job] /\ jobs[p] = next
      /\ \A q \in Procs \ {p} : Same(job[q], jobs[q])
  BY <1>1, <1>2 DEF Same
<1> HIDE DEF jobs
<1>5. TypeOK' /\ DirsOK' /\ FilesKept /\ NoneCompleted /\ \A q \in Procs : Same(jobs[q], job'[q])
  BY <1>1, <1>2, <1>3, <1>4, RemoveDirsType
<1>6. Others(p)
  BY <1>4, <1>5 DEF Others, Same, TypeOK
<1>7. Carries(p)'
  <2>1. job'[p].op = next.op /\ job'[p].f = next.f /\ files' = files
    BY <1>3, <1>4, <1>5 DEF Same, stored
  <2>2. QED
    BY <1>1, <1>2, <2>1 DEF Carries, ChunkOps, Assembly, Sending
<1>8. QED
  <2>1. job'[p].op = next.op /\ job'[p].u = next.u
    BY <1>4, <1>5 DEF Same
  <2>2. QED
    BY <1>1, <1>2, <1>5, <1>6, <1>7, <2>1, OthersKept DEF Follows

\* Tasks in the queue are about files that are there.
LEMMA TaskType ==
    ASSUME TypeOK
    PROVE  \A i \in DOMAIN queue : queue[i].u \in Uploads /\ queue[i].f \in DOMAIN files
<1> DEFINE T == [u : Uploads, f : DOMAIN files]
<1>1. queue \in Seq(T) /\ \A t \in T : t.u \in Uploads /\ t.f \in DOMAIN files
  BY DEF TypeOK
<1> HIDE DEF T
<1>2. \A i \in DOMAIN queue : queue[i] \in T
  BY <1>1, LenProperties
<1>3. QED
  BY <1>1, <1>2

LEMMA QueueType ==
    ASSUME TypeOK, FilesKept
    PROVE  queue \in Seq([u : Uploads, f : DOMAIN files'])
<1>1. queue \in Seq([u : Uploads, f : DOMAIN files])
  BY DEF TypeOK
<1>2. [u : Uploads, f : DOMAIN files] \subseteq [u : Uploads, f : DOMAIN files']
  BY DEF FilesKept
<1>3. QED
  BY <1>1, <1>2, SeqMonotonic

LEMMA RecordFileStored ==
    ASSUME StoredInv, NEW p \in Clients, RecordFile(p)
    PROVE  StoredInv' /\ Follows(p)
<1> DEFINE j == job[p]
           doc == [content |-> Hashed(j), msg |-> j.msg, status |-> IF j.msg = "none" THEN "uploading" ELSE "completed"]
           k == [j EXCEPT !.op = IF j.dup THEN "rmtree" ELSE "enqueue", !.f = Len(files) + 1]
<1>1. TypeOK /\ p \in Procs /\ j \in Job /\ j.u \in Uploads /\ files \in Seq(FileDoc)
  BY DEF StoredInv, TypeOK, Procs, Job
<1>2. doc \in FileDoc
  <2>1. Hashed(j) \in Held
    BY <1>1, ContentAssumption DEF Hashed, Held, Uploads
  <2>2. QED
    BY <1>1, <2>1 DEF FileDoc, Job
<1>3. files' = Append(files, doc) /\ UNCHANGED <<onDisk, session, begun, queue, completes, faults>>
  BY DEF RecordFile, Saves, Inserted
<1> HIDE DEF doc
<1>4. /\ files' \in Seq(FileDoc) /\ Len(files') = Len(files) + 1 /\ Len(files) \in Nat
      /\ \A i \in 1 .. Len(files) : files'[i] = files[i]
  BY <1>1, <1>2, <1>3, AppendProperties
<1>5. FilesKept /\ Len(files) + 1 \in DOMAIN files'
  BY <1>1, <1>4 DEF FilesKept
<1>6. k \in Job /\ k.op \in {"rmtree", "enqueue"} /\ k.f = Len(files) + 1 /\ k.u = j.u
  <2> DEFINE op == IF j.dup THEN "rmtree" ELSE "enqueue"
  <2>1. op \in {"rmtree", "enqueue"} /\ op \in Ops /\ Len(files) + 1 \in Nat
    BY <1>4 DEF Ops
  <2> HIDE DEF op
  <2>2. [j EXCEPT !.op = op, !.f = Len(files) + 1] \in Job
    BY <1>1, <2>1 DEF Job
  <2>3. /\ [j EXCEPT !.op = op, !.f = Len(files) + 1].op = op
        /\ [j EXCEPT !.op = op, !.f = Len(files) + 1].f = Len(files) + 1
        /\ [j EXCEPT !.op = op, !.f = Len(files) + 1].u = j.u
    BY <1>1 DEF Job
  <2>4. QED
    BY <2>1, <2>2, <2>3 DEF op
<1>7. job' = [job EXCEPT ![p] = k]
  BY DEF RecordFile
<1> HIDE DEF k
<1>8. Others(p) /\ job'[p] = k
  BY <1>1, <1>6, <1>7, BecomesType
<1>9. Carries(p)'
  BY <1>5, <1>6, <1>8 DEF Carries, ChunkOps, Assembly, Sending
<1>10. TypeOK'
  BY <1>1, <1>3, <1>4, <1>5, <1>8, QueueType DEF TypeOK, Others, onDisk
<1>11. NoneCompleted /\ DiskGrows(p)
  BY <1>3, <1>6, <1>8 DEF NoneCompleted, DiskGrows, onDisk
<1>12. QED
  BY <1>1, <1>5, <1>8, <1>9, <1>10, <1>6, <1>11, Keeps DEF Follows, RecordFile, At

LEMMA EnqueueStored ==
    ASSUME StoredInv, NEW p \in Clients, Enqueue(p)
    PROVE  StoredInv' /\ Follows(p)
<1>1. TypeOK /\ p \in Procs /\ job[p] \in Job /\ job[p].u \in Uploads /\ job[p].f \in DOMAIN files
  BY DEF StoredInv, TypeOK, Procs, Job, Carries, Enqueue, At
<1>2. Others(p) /\ job'[p].op = "session" /\ job'[p].f = job[p].f /\ job'[p].u = job[p].u
  BY <1>1, ToType DEF Enqueue, Ops
<1>3. FilesKept /\ NoneCompleted /\ DiskGrows(p)
  BY <1>2 DEF Enqueue, FilesKept, NoneCompleted, DiskGrows, onDisk
<1>4. Carries(p)'
  BY <1>1, <1>2 DEF Enqueue, Carries, ChunkOps, Assembly, Sending
<1>5. queue' \in Seq([u : Uploads, f : DOMAIN files])
  <2>1. [u |-> job[p].u, f |-> job[p].f] \in [u : Uploads, f : DOMAIN files]
    BY <1>1
  <2>2. queue \in Seq([u : Uploads, f : DOMAIN files])
    BY <1>1 DEF TypeOK
  <2>3. QED
    BY <2>1, <2>2, AppendProperties DEF Enqueue
<1>6. TypeOK'
  BY <1>1, <1>2, <1>5 DEF Enqueue, TypeOK, Others, onDisk
<1>7. QED
  BY <1>1, <1>2, <1>3, <1>4, <1>6, Keeps DEF Follows, Enqueue, At

LEMMA TakeStored ==
    ASSUME StoredInv, NEW p \in Workers, Take(p)
    PROVE  StoredInv'
<1> DEFINE task == Head(queue)
           k == [NewJob("send", task.u) EXCEPT !.f = task.f]
<1>1. TypeOK /\ p \in Procs /\ queue \in Seq([u : Uploads, f : DOMAIN files]) /\ queue # <<>>
  BY DEF StoredInv, TypeOK, Procs, Take
<1>2. task.u \in Uploads /\ task.f \in DOMAIN files /\ task.f \in Nat
  <2>1. task \in [u : Uploads, f : DOMAIN files]
    BY <1>1, HeadTailProperties
  <2>2. QED
    BY <1>1, <2>1, FilesTyped
<1>3. queue' \in Seq([u : Uploads, f : DOMAIN files]) /\ UNCHANGED <<onDisk, session, begun, files, completes, faults>>
  BY <1>1, HeadTailProperties DEF Take
<1>4. job' = [job EXCEPT ![p] = k]
  BY DEF Take, Start
<1> HIDE DEF task
<1>5. k \in Job /\ k.op = "send" /\ k.u = task.u /\ k.f = task.f
  <2>1. /\ NewJob("send", task.u) \in Job /\ NewJob("send", task.u).op = "send"
        /\ NewJob("send", task.u).u = task.u
    BY <1>2, NewJobType DEF Ops
  <2>2. QED
    BY <1>2, <2>1 DEF Job
<1> HIDE DEF k
<1>6. Others(p) /\ job'[p] = k
  BY <1>1, <1>4, <1>5, BecomesType
<1>7. Carries(p)'
  BY <1>2, <1>3, <1>5, <1>6 DEF Carries, ChunkOps, Assembly, Sending
<1>8. TypeOK' /\ FilesKept /\ NoneCompleted /\ DiskGrows(p)
  BY <1>1, <1>3, <1>5, <1>6 DEF TypeOK, Others, FilesKept, NoneCompleted, DiskGrows, onDisk
<1>9. QED
  BY <1>1, <1>6, <1>7, <1>8, Keeps

\* The worker writes to a file record that is there.
LEMMA SaveStored ==
    ASSUME StoredInv, NEW p \in Workers, Store(p) \/ SendFailed(p)
    PROVE  StoredInv' /\ Follows(p)
<1> DEFINE f == job[p].f
<1>1. /\ TypeOK /\ p \in Procs /\ job[p] \in Job /\ f \in DOMAIN files /\ files \in Seq(FileDoc)
      /\ files[f] \in FileDoc /\ (Store(p) => job[p].msg # "none")
  BY FilesTyped DEF StoredInv, TypeOK, Procs, Carries, Store, SendFailed, At, Sending
<1>2. PICK doc \in FileDoc : /\ files' = [files EXCEPT ![f] = doc]
                             /\ Store(p) => doc.msg # "none"
                             /\ SendFailed(p) => doc.msg = files[f].msg
  <2>1. CASE Store(p)
    <3> DEFINE doc == [files[f] EXCEPT !.msg = job[p].msg, !.status = "completed"]
    <3>1. doc \in FileDoc /\ doc.msg = job[p].msg
      BY <1>1 DEF FileDoc, Job
    <3>2. files' = [files EXCEPT ![f] = doc]
      BY <2>1 DEF Store, Saves, Stored
    <3>3. ~SendFailed(p)
      BY <2>1 DEF Store, SendFailed, At
    <3> HIDE DEF doc
    <3>4. QED
      BY <1>1, <2>1, <3>1, <3>2, <3>3
  <2>2. CASE SendFailed(p)
    <3> DEFINE doc == [files[f] EXCEPT !.status = "failed"]
    <3>1. doc \in FileDoc /\ doc.msg = files[f].msg
      BY <1>1 DEF FileDoc
    <3>2. files' = [files EXCEPT ![f] = doc]
      BY <2>2 DEF SendFailed, Saves
    <3>3. ~Store(p)
      BY <2>2 DEF Store, SendFailed, At
    <3> HIDE DEF doc
    <3>4. QED
      BY <2>2, <3>1, <3>2, <3>3
  <2>3. QED
    BY <2>1, <2>2
<1>3. /\ files' \in Seq(FileDoc) /\ DOMAIN files' = DOMAIN files /\ files'[f] = doc
      /\ \A g \in DOMAIN files : g # f => files'[g] = files[g]
  BY <1>1, <1>2, ExceptSeq
<1>4. FilesKept /\ (Store(p) => files'[f].msg # "none")
  BY <1>2, <1>3 DEF FilesKept
<1>5. UNCHANGED <<onDisk, session, begun, queue, completes, faults>>
  BY DEF Store, SendFailed, Saves
<1>6. /\ Others(p) /\ job'[p].op = (IF Store(p) THEN "notify" ELSE "rmtree") /\ job'[p].f = f
      /\ job'[p].u = job[p].u
  BY <1>1, ToType DEF Store, SendFailed, Ops
<1>7. Carries(p)'
  BY <1>1, <1>3, <1>4, <1>6, ProcsAssumption DEF Carries, ChunkOps, Assembly, Sending
<1>8. TypeOK' /\ NoneCompleted /\ DiskGrows(p)
  BY <1>1, <1>3, <1>5, <1>6 DEF TypeOK, Others, NoneCompleted, DiskGrows, onDisk
<1>9. QED
  BY <1>1, <1>4, <1>6, <1>7, <1>8, Keeps DEF Follows, Store, SendFailed, At

\* The worker tells the sessions of its file, which has its message by now.
LEMMA NotifyStored ==
    ASSUME StoredInv, NEW p \in Workers, Notify(p)
    PROVE  StoredInv' /\ Follows(p)
<1>1. /\ TypeOK /\ p \in Procs /\ job[p] \in Job /\ session \in [Uploads -> Session]
      /\ job[p].f \in DOMAIN files /\ files[job[p].f].msg # "none"
  BY DEF StoredInv, TypeOK, Procs, Carries, Notify, At, Sending
<1>2. Others(p) /\ job'[p].op = "rmtree" /\ job'[p].u = job[p].u
  BY <1>1, ToType DEF Notify, Ops
<1>3. /\ session' \in [Uploads -> Session]
      /\ \A u \in Uploads : session'[u] = session[u]
                           \/ (session'[u].file = job[p].f /\ session'[u].dup = session[u].dup)
  <2>1. \A s \in Session : /\ [s EXCEPT !.status = "completed"] \in Session
                          /\ [s EXCEPT !.status = "completed"].file = s.file
                          /\ [s EXCEPT !.status = "completed"].dup = s.dup
    BY DEF Session, Statuses
  <2>2. session' = [u \in Uploads |-> IF Exists(u) /\ session[u].file = job[p].f
                                     THEN [session[u] EXCEPT !.status = "completed"] ELSE session[u]]
    BY DEF Notify, SetSessions
  <2>3. QED
    BY <1>1, <2>1, <2>2
<1>4. UNCHANGED <<onDisk, begun, files, queue, completes, faults>>
  BY DEF Notify, SetSessions
<1>5. Carries(p)'
  BY <1>1, <1>2, ProcsAssumption DEF Carries, ChunkOps, Assembly, Sending
<1>6. TypeOK' /\ DirsOK'
  BY <1>1, <1>2, <1>3, <1>4 DEF StoredInv, TypeOK, DirsOK, Others, Same, onDisk
<1>7. CompletedMeansStored'
  <2>1. ASSUME NEW u \in Uploads, session'[u].status = "completed", ~session'[u].dup
        PROVE  session'[u].file \in DOMAIN files /\ files[session'[u].file].msg # "none"
    BY <1>1, <1>3, <2>1 DEF StoredInv, CompletedMeansStored
  <2>2. QED
    BY <1>4, <2>1 DEF CompletedMeansStored
<1>8. \A q \in Procs \ {p} : Carries(q)'
  <2>1. ASSUME NEW q \in Procs \ {p}
        PROVE  Carries(q)'
    <3>1. Carries(q) /\ Same(job[q], job'[q])
      BY <1>2 DEF StoredInv, Others
    <3>2. QED
      BY <1>4, <3>1 DEF Carries, Same
  <2>2. QED
    BY <2>1
<1>9. QED
  BY <1>2, <1>5, <1>6, <1>7, <1>8 DEF StoredInv, Follows, Notify, At

LEMMA TimeStored ==
    ASSUME StoredInv, DayPasses \/ (\E u \in Uploads : SessionExpires(u)) \/ Restart
    PROVE  StoredInv'
<1>1. TypeOK /\ DirsOK /\ job \in [Procs -> Job] /\ session \in [Uploads -> Session]
  BY DEF StoredInv, TypeOK
<1>2. CASE DayPasses
  <2>1. \A s \in Session : /\ [s EXCEPT !.active = FALSE] \in Session
                          /\ [s EXCEPT !.active = FALSE].status = s.status
                          /\ [s EXCEPT !.active = FALSE].file = s.file
                          /\ [s EXCEPT !.active = FALSE].dup = s.dup
    BY DEF Session
  <2>2. session' \in [Uploads -> Session] /\ NoneCompleted
    BY <1>1, <1>2, <2>1 DEF DayPasses, NoneCompleted
  <2>3. TypeOK' /\ FilesKept /\ DirsOK' /\ \A q \in Procs : Same(job[q], job'[q])
    BY <1>1, <1>2, <2>2 DEF DayPasses, TypeOK, FilesKept, DirsOK, Same
  <2>4. QED
    BY <2>2, <2>3, AllKept
<1>3. CASE \E u \in Uploads : SessionExpires(u)
  <2>1. PICK u \in Uploads : SessionExpires(u)
    BY <1>3
  <2>2. NoSession \in Session /\ NoSession.status = "none"
    BY DEF NoSession, Session, Statuses
  <2>3. session' \in [Uploads -> Session] /\ NoneCompleted
    BY <1>1, <2>1, <2>2 DEF SessionExpires, SetSessions, NoneCompleted
  <2>4. TypeOK' /\ FilesKept /\ DirsOK' /\ \A q \in Procs : Same(job[q], job'[q])
    BY <1>1, <2>1, <2>3 DEF SessionExpires, SetSessions, TypeOK, FilesKept, DirsOK, Same, onDisk
  <2>5. QED
    BY <2>3, <2>4, AllKept
<1>4. CASE Restart
  <2>1. job' \in [Procs -> Job] /\ \A q \in Procs : job'[q].op = "idle"
    BY <1>4, NoJobType DEF Restart
  <2>2. UNCHANGED <<onDisk, session, begun, files, completes>> /\ queue' = <<>>
    BY <1>4 DEF Restart
  <2>3. TypeOK'
    BY <1>1, <2>1, <2>2 DEF TypeOK, onDisk
  <2>4. \A q \in Procs : Carries(q)'
    BY <2>1 DEF Carries, ChunkOps, Assembly, Sending
  <2>5. DirsOK' /\ CompletedMeansStored'
    BY <2>1, <2>2 DEF StoredInv, DirsOK, CompletedMeansStored, onDisk
  <2>6. QED
    BY <2>3, <2>4, <2>5 DEF StoredInv
<1>5. QED
  BY <1>2, <1>3, <1>4

LEMMA StoredInit == Init => StoredInv
<1> SUFFICES ASSUME Init
             PROVE  StoredInv
  OBVIOUS
<1>1. NoSession \in Session /\ NoSession.status = "none"
  BY DEF NoSession, Session, Statuses
<1>2. TypeOK
  BY <1>1, NoJobType DEF Init, TypeOK, Part
<1>3. DirsOK
  BY NoJobType DEF Init, DirsOK
<1>4. \A p \in Procs : Carries(p)
  BY NoJobType DEF Init, Carries, ChunkOps, Assembly, Sending
<1>5. CompletedMeansStored
  BY <1>1 DEF Init, CompletedMeansStored
<1>6. QED
  BY <1>2, <1>3, <1>4, <1>5 DEF StoredInv

LEMMA StoredNext == StoredInv /\ [Next]_vars => StoredInv'
<1> SUFFICES ASSUME StoredInv, [Next]_vars
             PROVE  StoredInv'
  OBVIOUS
<1>1. ASSUME NEW p \in Clients, Request(p)
      PROVE  StoredInv'
  BY <1>1, UploadChunkStored, ResumeStored, SmallUploadStored DEF Request
<1>2. ASSUME NEW p \in Clients, Step(p)
      PROVE  StoredInv'
  <2>1. p \in Procs
    BY DEF Procs
  <2>2. QED
    BY <1>2, <2>1, OpeningStored, WriteChunkStored, SessionsStored, ReadChunkStored, DropChunkStored, LookupStored,
       RecordFileStored, RemoveUploadDirStored, EnqueueStored, UpdateSessionStored DEF Step
<1>3. ASSUME NEW w \in Workers, WorkerStep(w)
      PROVE  StoredInv'
  <2>1. w \in Procs
    BY DEF Procs
  <2>2. QED
    BY <1>3, <2>1, TakeStored, SendStored, SaveStored, NotifyStored, RemoveUploadDirStored DEF WorkerStep
<1>4. CASE UNCHANGED vars
  <2>1. \A q \in Procs : Same(job[q], job'[q])
    BY <1>4 DEF Same, vars
  <2>2. TypeOK' /\ FilesKept /\ NoneCompleted /\ DirsOK'
    BY <1>4 DEF StoredInv, TypeOK, FilesKept, NoneCompleted, DirsOK, vars
  <2>3. QED
    BY <2>1, <2>2, AllKept
<1>5. ASSUME NEW u \in Uploads, Begin(u) \/ PauseUpload(u)
      PROVE  StoredInv'
  <2>1. CASE Begin(u)
    BY <2>1, BeginStored DEF Begin
  <2>2. QED
    BY <1>5, <2>1, PauseStored
<1>6. QED
  BY <1>1, <1>2, <1>3, <1>4, <1>5, SweepStored, TimeStored DEF Next

\* Sessions, directories, files, queue and requests keep their types.
THEOREM TypeCorrect == Spec => []TypeOK
<1>1. StoredInv => TypeOK
  BY DEF StoredInv
<1>2. QED
  BY <1>1, StoredInit, StoredNext, PTL DEF Spec

\* A session says "completed" only of a file whose message is known: whoever
\* tells it has written the message first, and no one takes one away.
THEOREM CompletedIsStored == Spec => []CompletedMeansStored
<1>1. StoredInv => CompletedMeansStored
  BY DEF StoredInv
<1>2. QED
  BY <1>1, StoredInit, StoredNext, PTL DEF Spec

(***************************************************************************)
(* Uploads that were begun.                                                *)
(***************************************************************************)
\* A session that is updated was there.
LEMMA SessionsThere ==
    ASSUME StoredInv, NEW p \in Clients, Step(p), NEW u \in Uploads, Exists(u)'
    PROVE  Exists(u) \/ (u = job[p].u /\ job[p].op = "session")
<1>1. session \in [Uploads -> Session]
  BY DEF StoredInv, TypeOK
<1>2. ASSUME NEW v, NEW s, SetSession(v, s)
      PROVE  Exists(u)
  BY <1>1, <1>2 DEF SetSession, SetSessions, Exists
<1>3. CASE UpdateSession(p)
  BY <1>1, <1>2, <1>3 DEF UpdateSession, SetSessions, Exists, At
<1>4. CASE ReceiveChunk(p) \/ Resumed(p) \/ Accept(p) \/ FailUpload(p)
  BY <1>2, <1>4 DEF ReceiveChunk, Resumed, Accept, FailUpload, SetStatus
<1>5. CASE session' = session
  BY <1>5 DEF Exists
<1>6. QED
  BY <1>3, <1>4, <1>5 DEF Step, OpenChunk, WriteChunk, OpenFinal, ReadChunk, DropChunk, Lookup, RecordFile,
     RemoveUploadDir, Enqueue, Open, Reads, Saves, stored

LEMMA StepFollows ==
    ASSUME StoredInv, NEW p \in Procs,
           (p \in Clients /\ Step(p)) \/ (p \in Workers /\ WorkerStep(p) /\ ~Take(p))
    PROVE  Follows(p)
BY OpeningStored, WriteChunkStored, SessionsStored, ReadChunkStored, DropChunkStored, LookupStored, RecordFileStored,
   RemoveUploadDirStored, EnqueueStored, UpdateSessionStored, SendStored, SaveStored, NotifyStored DEF Step, WorkerStep

LEMMA BegunInit == Init => BegunInv
BY NoJobType DEF Init, BegunInv, Exists, NoSession

LEMMA BegunNext == StoredInv /\ BegunInv /\ [Next]_vars => BegunInv'
<1> SUFFICES ASSUME StoredInv, BegunInv, [Next]_vars
             PROVE  BegunInv'
  OBVIOUS
<1>1. TypeOK /\ job \in [Procs -> Job] /\ session \in [Uploads -> Session]
      /\ queue \in Seq([u : Uploads, f : DOMAIN files])
  BY DEF StoredInv, TypeOK
<1>2. ASSUME NEW p \in Procs, NEW k, k.u \in begun', job' = [job EXCEPT ![p] = k], begun \subseteq begun'
      PROVE  \A q \in Procs : job'[q].op # "idle" => job'[q].u \in begun'
  <2>1. job'[p] = k /\ \A q \in Procs \ {p} : job'[q] = job[q]
    BY <1>1, <1>2
  <2>2. QED
    BY <1>2, <2>1 DEF BegunInv
<1>3. ASSUME NEW p \in Clients, Request(p)
      PROVE  BegunInv'
  <2>1. p \in Procs /\ NumChunks \in Nat
    BY NumChunksAssumption DEF Procs
  <2>2. CASE \E u \in Small : SmallUpload(p, u)
    <3>1. PICK u \in Small : SmallUpload(p, u)
      BY <2>2
    <3>2. begun' = begun \cup {u} /\ session' = session /\ queue' = queue /\ u \in Uploads
      BY <3>1 DEF SmallUpload, Uploads
    <3>3. \A q \in Procs : job'[q].op # "idle" => job'[q].u \in begun'
      <4>1. CASE Start(p, NewJob("lookup", u))
        <5>1. NewJob("lookup", u).u \in begun'
          BY <3>2 DEF NewJob
        <5>2. QED
          BY <1>2, <2>1, <3>2, <4>1, <5>1 DEF Start
      <4>2. CASE job' = job
        BY <3>2, <4>2 DEF BegunInv
      <4>3. QED
        BY <3>1, <4>1, <4>2 DEF SmallUpload
    <3>4. QED
      BY <3>2, <3>3 DEF BegunInv, Exists
  <2>3. CASE \E u \in Chunked : ResumeUpload(p, u) \/ CompleteUpload(p, u) \/ \E c \in Chunks : UploadChunk(p, u, c)
    <3>1. PICK u \in Chunked : ResumeUpload(p, u) \/ CompleteUpload(p, u) \/ \E c \in Chunks : UploadChunk(p, u, c)
      BY <2>3
    <3>2. begun' = begun /\ session' = session /\ queue' = queue
      BY <3>1 DEF ResumeUpload, CompleteUpload, UploadChunk, Reads, stored
    <3>3. u \in begun /\ u \in Uploads
      BY <3>1 DEF ResumeUpload, CompleteUpload, UploadChunk, Exists, BegunInv, Uploads
    <3>4. PICK k : k.u = u /\ job' = [job EXCEPT ![p] = k]
      <4>1. NewJob("resume", u).u = u /\ NewJob("accept", u).u = u
        BY DEF NewJob
      <4>2. \A c : [NewJob("open", u) EXCEPT !.c = c].u = u
        BY DEF NewJob
      <4>3. QED
        BY <3>1, <4>1, <4>2 DEF ResumeUpload, CompleteUpload, UploadChunk, Start
    <3>5. \A q \in Procs : job'[q].op # "idle" => job'[q].u \in begun'
      BY <1>2, <2>1, <3>2, <3>3, <3>4
    <3>6. QED
      BY <3>2, <3>5 DEF BegunInv, Exists
  <2>4. QED
    BY <1>3, <2>2, <2>3 DEF Request
<1>4. ASSUME NEW p \in Procs, Follows(p), begun' = begun
      PROVE  \A q \in Procs : job'[q].op # "idle" => job'[q].u \in begun'
  BY <1>4 DEF BegunInv, Follows, Others, Same
<1>5. ASSUME NEW p \in Clients, Step(p)
      PROVE  BegunInv'
  <2>1. p \in Procs /\ Follows(p)
    <3>1. p \in Procs
      BY DEF Procs
    <3>2. Follows(p)
      BY <1>5, <3>1, StepFollows
    <3>3. QED
      BY <3>1, <3>2
  <2>2. begun' = begun
    BY <1>5 DEF Step, OpenChunk, WriteChunk, OpenFinal, ReadChunk, DropChunk, Lookup, RecordFile, RemoveUploadDir,
       Enqueue, Open, Reads, Saves, stored, ReceiveChunk, Resumed, Accept, FailUpload, UpdateSession, SetStatus,
       SetSession, SetSessions
  <2>3. \A u \in Uploads : Exists(u)' => u \in begun
    <3>1. job[p].op = "session" => job[p].u \in begun
      BY <2>1 DEF BegunInv
    <3>2. QED
      BY <1>5, <3>1, SessionsThere DEF BegunInv
  <2>4. \A i \in DOMAIN queue' : queue'[i].u \in begun
    <3>1. CASE queue' = queue
      BY <3>1 DEF BegunInv
    <3>2. CASE Enqueue(p)
      <4>1. job[p].u \in begun
        BY <2>1, <3>2 DEF Enqueue, At, BegunInv
      <4>2. /\ DOMAIN queue' = 1 .. Len(queue) + 1 /\ Len(queue) \in Nat /\ DOMAIN queue = 1 .. Len(queue)
            /\ queue'[Len(queue) + 1].u = job[p].u
            /\ \A i \in 1 .. Len(queue) : queue'[i] = queue[i]
        BY <1>1, <3>2 DEF Enqueue
      <4>3. QED
        BY <4>1, <4>2 DEF BegunInv
    <3>3. QED
      BY <1>5, <3>1, <3>2 DEF Step, OpenChunk, WriteChunk, OpenFinal, ReadChunk, DropChunk, Lookup, RecordFile,
         RemoveUploadDir, Open, Reads, Saves, stored, ReceiveChunk, Resumed, Accept, FailUpload, UpdateSession,
         SetStatus, SetSession, SetSessions
  <2>5. QED
    BY <1>4, <2>1, <2>2, <2>3, <2>4 DEF BegunInv
<1>6. ASSUME NEW w \in Workers, WorkerStep(w)
      PROVE  BegunInv'
  <2>1. w \in Procs /\ begun' = begun
    BY <1>6 DEF WorkerStep, Take, Send, Store, Notify, SendFailed, RemoveUploadDir, Reads, Saves, SetSessions, stored, Procs
  <2>2. \A u \in Uploads : Exists(u)' => Exists(u)
    BY <1>1, <1>6 DEF WorkerStep, Take, Send, Store, Notify, SendFailed, RemoveUploadDir, Reads, Saves, SetSessions,
       stored, Exists
  <2>3. CASE ~Take(w)
    <3>1. queue' = queue
      BY <1>6, <2>3 DEF WorkerStep, Send, Store, Notify, SendFailed, RemoveUploadDir, Reads, Saves, SetSessions, stored
    <3>2. Follows(w)
      BY <1>6, <2>1, <2>3, StepFollows
    <3>3. QED
      BY <1>4, <2>1, <2>2, <3>1, <3>2 DEF BegunInv
  <2>4. CASE Take(w)
    <3>1. /\ DOMAIN queue' = 1 .. Len(queue) - 1 /\ Len(queue) \in Nat \ {0} /\ DOMAIN queue = 1 .. Len(queue)
          /\ \A i \in 1 .. Len(queue) - 1 : queue'[i] = queue[i + 1]
          /\ Head(queue) = queue[1] /\ 1 \in DOMAIN queue
      BY <1>1, <2>4 DEF Take
    <3>2. Head(queue).u \in begun /\ Head(queue).u \in Uploads /\ Head(queue).f \in Nat
      <4>1. queue[1].u \in Uploads /\ queue[1].f \in DOMAIN files
        BY <1>1, <3>1, TaskType
      <4>2. QED
        BY <1>1, <3>1, <4>1, FilesTyped DEF BegunInv
    <3>3. \A q \in Procs : job'[q].op # "idle" => job'[q].u \in begun'
      <4> DEFINE k == [NewJob("send", Head(queue).u) EXCEPT !.f = Head(queue).f]
      <4>1. k.u = Head(queue).u
        BY DEF NewJob
      <4>2. job' = [job EXCEPT ![w] = k]
        BY <2>4 DEF Take, Start
      <4>3. k.u \in begun'
        BY <2>1, <3>2, <4>1
      <4> HIDE DEF k
      <4>4. QED
        BY <1>2, <2>1, <4>2, <4>3
    <3>4. \A i \in DOMAIN queue' : queue'[i].u \in begun
      BY <3>1 DEF BegunInv
    <3>5. QED
      BY <2>1, <2>2, <3>3, <3>4 DEF BegunInv
  <2>5. QED
    BY <2>3, <2>4
<1>7. CASE Sweep
  <2>1. \A q \in Procs : Same(job[q], job'[q])
    BY <1>1, <1>7, RemoveDirsType DEF Sweep, StoredInv, Same
  <2>2. QED
    BY <1>7, <2>1 DEF Sweep, stored, BegunInv, Same, Exists
<1>8. CASE DayPasses
  BY <1>1, <1>8 DEF DayPasses, BegunInv, Exists, Session
<1>9. CASE Restart
  BY <1>9, NoJobType DEF Restart, BegunInv, Exists
<1>10. CASE \E u \in Uploads : Begin(u) \/ PauseUpload(u) \/ SessionExpires(u)
  <2>1. PICK u \in Uploads : Begin(u) \/ PauseUpload(u) \/ SessionExpires(u)
    BY <1>10
  <2>2. CASE Begin(u)
    BY <1>1, <2>2 DEF Begin, BegunInv, Exists
  <2>3. CASE PauseUpload(u)
    BY <1>1, <2>3 DEF PauseUpload, SetStatus, SetSession, SetSessions, BegunInv, Exists
  <2>4. CASE SessionExpires(u)
    BY <1>1, <2>4 DEF SessionExpires, SetSessions, BegunInv, Exists, NoSession
  <2>5. QED
    BY <2>1, <2>2, <2>3, <2>4
<1>11. CASE UNCHANGED vars
  BY <1>11 DEF vars, BegunInv, Exists
<1>12. QED
  BY <1>3, <1>5, <1>6, <1>7, <1>8, <1>9, <1>10, <1>11 DEF Next

(***************************************************************************)
(* Chunks: what a step of at most one process leaves alone.                *)
(***************************************************************************)
\* Another process goes on; if it lost its chunk, the chunk is gone.
Unharmed(q) ==
    /\ Same(job[q], job'[q])
    /\ job[q].good /\ ~job'[q].good => job[q].op \in {"write", "read", "drop"}
    /\ job[q].good /\ ~job'[q].good /\ job[q].op = "write" => disk'[job[q].u][job[q].c] # "part"

\* p goes on with its chunk, or with its assembly, or with neither.
GoesOn(p) ==
    /\ job'[p].op \in ChunkOps =>
         /\ job[p].op \in ChunkOps /\ job'[p].u = job[p].u /\ job'[p].c = job[p].c
         /\ job'[p].op # "open"
         /\ job'[p].op = "receive" \/ (job'[p].op = "write" /\ ~job'[p].good) =>
              disk'[job[p].u][job[p].c] # "part"
    /\ job'[p].op \in Assembly => job[p].op \in Assembly /\ job'[p].u = job[p].u

\* p opens chunk c of u; p was received.
Opens(p, u, c) == job[p].op = "open" /\ job'[p].op = "write" /\ job[p].u = u /\ job[p].c = c
Receives(p, u, c) == job[p].op = "receive" /\ job'[p].op = "idle" /\ job[p].u = u /\ job[p].c = c

\* Those of P are at work, on disk and sessions.
Progress(P) ==
    /\ P \subseteq Procs /\ \A p, q \in P : p = q
    /\ \A q \in Procs \ P : Unharmed(q)
    /\ \A p \in P : GoesOn(p)
    /\ \A u \in Uploads, c \in Chunks :
         disk'[u][c] = "part" => disk[u][c] = "part" \/ \E p \in P : Opens(p, u, c)
    /\ \A u \in Chunked \cap begun : Complete(u) => Complete(u)'
    /\ \A u \in Chunked : \A c \in session'[u].received :
         c \in session[u].received \/ \E p \in P : Receives(p, u, c)

LEMMA ChunksKept ==
    ASSUME StoredInv, BegunInv, ChunksInv, NEW P, Progress(P)
    PROVE  ChunksInv'
<1>1. \A u \in Chunked : u \in Uploads /\ session[u].received \subseteq Chunks
  BY DEF StoredInv, TypeOK, Session, Uploads
<1>2. \A q \in Procs : /\ job[q].op \in ChunkOps => job[q].u \in Chunked /\ job[q].c \in Chunks /\ Receiving(q)
                       /\ job[q].op \in Assembly => job[q].u \in Chunked
  BY DEF StoredInv, Carries, ChunksInv
<1>3. \A q \in Procs : job'[q].op \in ChunkOps =>
           job[q].op \in ChunkOps /\ job'[q].u = job[q].u /\ job'[q].c = job[q].c
  BY DEF Progress, Unharmed, Same, GoesOn
<1>4. \A q \in Procs : job'[q].op \in Assembly => job[q].op \in Assembly /\ job'[q].u = job[q].u
  BY DEF Progress, Unharmed, Same, GoesOn
<1>5. \A q \in Procs : job[q].op \in Assembly => job[q].u \in begun
  BY DEF BegunInv, Assembly
<1>6. ASSUME NEW u \in Chunked, NEW c \in session'[u].received
      PROVE  disk'[u][c] # "part" /\ \A q \in Procs : job'[q].op \in ChunkOps /\ job'[q].u = u => job'[q].c # c
  <2>1. CASE c \in session[u].received
    <3>1. c \in Chunks /\ disk[u][c] # "part" /\ \A q \in Procs : job[q].op \in ChunkOps /\ job[q].u = u => job[q].c # c
      BY <1>1, <1>2, <2>1 DEF ChunksInv, Receiving
    <3>2. \A p \in P : ~Opens(p, u, c)
      BY <3>1 DEF Opens, ChunkOps, Progress
    <3>3. QED
      BY <1>1, <1>3, <3>1, <3>2 DEF Progress
  <2>2. CASE c \notin session[u].received
    <3>1. PICK p \in P : Receives(p, u, c)
      BY <2>2 DEF Progress
    <3>2. p \in Procs /\ c \in Chunks /\ disk[u][c] # "part" /\ \A q \in P : q = p
      BY <1>2, <3>1 DEF Receives, Receiving, ChunkOps, Progress
    <3>3. \A q \in P : ~Opens(q, u, c)
      BY <3>1, <3>2 DEF Opens, Receives
    <3>4. disk'[u][c] # "part"
      BY <1>1, <3>2, <3>3 DEF Progress
    <3>5. \A q \in Procs : job'[q].op \in ChunkOps /\ job'[q].u = u /\ job'[q].c = c => q = p
      BY <1>2, <1>3, <3>1, <3>2 DEF Receives, Receiving, ChunkOps
    <3>6. job'[p].op \notin ChunkOps
      BY <3>1 DEF Receives, ChunkOps
    <3>7. QED
      BY <3>4, <3>5, <3>6
  <2>3. QED
    BY <2>1, <2>2
<1>7. ASSUME NEW q \in Procs, job'[q].op \in ChunkOps
      PROVE  Receiving(q)'
  <2> DEFINE u == job[q].u
             c == job[q].c
  <2>1. /\ job[q].op \in ChunkOps /\ job'[q].u = u /\ job'[q].c = c /\ u \in Chunked /\ c \in Chunks
        /\ \A r \in Procs : job[r].op \in ChunkOps /\ job[r].u = u /\ job[r].c = c => r = q
    BY <1>2, <1>3, <1>7 DEF Receiving, Progress
  <2>2. c \notin session'[u].received
    BY <1>6, <1>7, <2>1
  <2>3. \A r \in Procs : job'[r].op \in ChunkOps /\ job'[r].u = u /\ job'[r].c = c => r = q
    BY <1>3, <2>1
  <2>4. job'[q].op = "receive" \/ (job'[q].op = "write" /\ ~job'[q].good) => disk'[u][c] # "part"
    <3>1. CASE q \in P
      BY <1>7, <3>1 DEF Progress, GoesOn
    <3>2. CASE q \notin P
      <4>1. Unharmed(q) /\ \A p \in P : ~Opens(p, u, c)
        BY <2>1, <3>2 DEF Progress, Opens, ChunkOps
      <4>2. disk'[u][c] = "part" => disk[u][c] = "part"
        BY <1>1, <2>1, <4>1 DEF Progress
      <4>3. job[q].op = "receive" \/ (job[q].op = "write" /\ ~job[q].good) => disk[u][c] # "part"
        BY <1>2, <2>1 DEF Receiving
      <4>4. QED
        BY <4>1, <4>2, <4>3 DEF Unharmed, Same
    <3>3. QED
      BY <3>1, <3>2
  <2>5. job'[q].op = "open" => job'[q].good
    <3>1. CASE q \in P
      BY <1>7, <3>1 DEF Progress, GoesOn
    <3>2. CASE q \notin P
      BY <1>2, <2>1, <3>2 DEF Progress, Unharmed, Same, Receiving
    <3>3. QED
      BY <3>1, <3>2
  <2>6. QED
    BY <2>1, <2>2, <2>3, <2>4, <2>5 DEF Receiving
<1>8. ASSUME NEW q \in Procs, job'[q].op \in Assembly
      PROVE  /\ Complete(job[q].u)' /\ job'[q].u = job[q].u
             /\ \A r \in Procs : job'[r].op \in ChunkOps => job'[r].u # job[q].u
             /\ \A c \in Chunks : disk'[job[q].u][c] # "part"
  <2> DEFINE u == job[q].u
  <2>1. /\ u \in Chunked /\ job'[q].u = u /\ Complete(u)
        /\ \A r \in Procs : job[r].op \in ChunkOps => job[r].u # u
        /\ \A c \in Chunks : disk[u][c] # "part"
    BY <1>2, <1>4, <1>8 DEF ChunksInv
  <2>4. Complete(u)'
    BY <1>5, <1>4, <1>8, <2>1 DEF Progress
  <2>2. \A c \in Chunks, p \in P : ~Opens(p, u, c)
    BY <2>1 DEF Opens, ChunkOps, Progress
  <2>3. QED
    BY <1>1, <1>3, <2>1, <2>2, <2>4 DEF Progress
<1>9. \A q \in Procs : Receiving(q)'
  BY <1>7 DEF Receiving
<1>10. QED
  BY <1>6, <1>8, <1>9 DEF ChunksInv

LEMMA QuietStep ==
    ASSUME StoredInv, NEW p \in Procs, \A q \in Procs \ {p} : job'[q] = job[q], GoesOn(p), disk' = disk,
           \A u \in Chunked : session'[u].received = session[u].received /\ (Exists(u)' => Exists(u))
    PROVE  Progress({p})
<1>1. \A q \in Procs \ {p} : Unharmed(q)
  BY DEF Unharmed, Same
<1>2. \A u \in Chunked \cap begun : Complete(u) => Complete(u)'
  BY DEF Complete
<1>3. QED
  BY <1>1, <1>2 DEF Progress

\* Only the writer of a chunk has it open.
LEMMA OneWriter ==
    ASSUME StoredInv, ChunksInv, NEW p \in Procs, job[p].op \in ChunkOps, NEW q \in Procs \ {p}
    PROVE  ~Holds(job[q], job[p].u, job[p].c)
<1>1. Receiving(p) /\ job[p].c \in Chunks /\ Final \notin Chunks
  BY DEF ChunksInv, StoredInv, Carries, Final, Chunks
<1>2. QED
  BY <1>1 DEF Receiving, Holds, ChunkOps

LEMMA OpenProgress ==
    ASSUME StoredInv, BegunInv, ChunksInv, NEW p \in Clients, OpenChunk(p) \/ OpenFinal(p)
    PROVE  Progress({p})
<1>1. /\ TypeOK /\ p \in Procs /\ job \in [Procs -> Job] /\ Carries(p) /\ job[p].u \in Chunked
      /\ job[p].u \in Uploads /\ Final \in 0 .. NumChunks /\ job[p].c \in 0 .. NumChunks /\ Final \notin Chunks
  BY NumChunksAssumption
  DEF StoredInv, TypeOK, Procs, Carries, OpenChunk, OpenFinal, At, ChunkOps, Assembly, Job, Final, Chunks
<1>2. CASE Stop(p) /\ Reads
  BY <1>1, <1>2, StopStored, QuietStep DEF GoesOn, ChunkOps, Assembly, Reads, onDisk, stored, Exists
<1>3. CASE OpenFinal(p) /\ To(p, "fail") /\ Reads
  BY <1>1, <1>3, ToType, QuietStep DEF GoesOn, ChunkOps, Assembly, Reads, onDisk, stored, Exists, Ops
<1>4. CASE OpenChunk(p) /\ Open(p, job[p].c, "write")
  <2> DEFINE u == job[p].u
             c == job[p].c
  <2>1. c \in Chunks /\ c # Final /\ job[p].op = "open" /\ job[p].good
    BY <1>1, <1>4 DEF Carries, ChunkOps, OpenChunk, At, ChunksInv, Receiving
  <2>2. Others(p) /\ job'[p].op = "write" /\ job'[p].u = u /\ job'[p].c = c
    BY <1>1, <1>4, <2>1, OpenStored
  <2>3. \A q \in Procs \ {p} : job[q].good => job'[q].good
    <3>1. \A q \in Procs \ {p} : ~Holds(job[q], u, c)
      BY <1>1, <2>1, OneWriter DEF ChunkOps
    <3>2. \A q \in Procs \ {p} : job'[q] = Cut(job, u, {c})[q]
      BY <1>1, <1>4 DEF Open, Cut
    <3>3. QED
      BY <1>1, <3>1, <3>2, CutType
  <2>4. job'[p].good
    <3>1. Cut(job, u, {c})[p] = job[p]
      BY <1>1, <2>1 DEF Cut, Holds
    <3>2. job'[p].good = Cut(job, u, {c})[p].good
      BY <1>1, <1>4, CutType DEF Open, Job
    <3>3. QED
      BY <2>1, <3>1, <3>2
  <2>5. GoesOn(p)
    BY <2>1, <2>2, <2>4 DEF GoesOn, ChunkOps, Assembly
  <2>6. \A q \in Procs \ {p} : Unharmed(q)
    BY <2>2, <2>3 DEF Others, Unharmed
  <2>7. \A v \in Uploads, b \in Chunks : disk'[v][b] = "part" => disk[v][b] = "part" \/ Opens(p, v, b)
    <3>1. disk' = [disk EXCEPT ![u][c] = "part"]
      BY <1>4 DEF Open
    <3>2. QED
      BY <1>1, <2>1, <2>2, <3>1 DEF Opens, TypeOK
  <2>8. session' = session
    BY <1>4 DEF Open, stored
  <2>9. QED
    BY <1>1, <2>5, <2>6, <2>7, <2>8 DEF Progress, Complete, Exists
<1>5. CASE OpenFinal(p) /\ Open(p, Final, "read")
  <2> DEFINE u == job[p].u
  <2>1. Others(p) /\ job'[p].op = "read" /\ job'[p].u = u /\ job[p].op = "final"
    BY <1>1, <1>5, OpenStored DEF OpenFinal, At
  <2>2. \A q \in Procs \ {p} : job[q].good => job'[q].good \/ job[q].op \in {"read", "drop"}
    <3>1. \A q \in Procs \ {p} : job'[q] = Cut(job, u, {Final})[q]
      BY <1>1, <1>5 DEF Open, Cut
    <3>2. \A q \in Procs : Holds(job[q], u, Final) => job[q].op \in {"read", "drop"}
      <4>1. ASSUME NEW q \in Procs
            PROVE  job[q].op = "write" => job[q].c # Final
        BY <1>1 DEF StoredInv, Carries, ChunkOps
      <4>2. QED
        BY <4>1 DEF Holds
    <3>3. QED
      BY <1>1, <3>1, <3>2, CutType
  <2>3. GoesOn(p)
    BY <2>1 DEF GoesOn, ChunkOps, Assembly
  <2>4. \A q \in Procs \ {p} : Unharmed(q)
    BY <2>1, <2>2 DEF Others, Unharmed
  <2>5. \A v \in Uploads, b \in Chunks : disk'[v][b] = "part" => disk[v][b] = "part"
    <3>1. disk' = [disk EXCEPT ![u][Final] = "part"]
      BY <1>5 DEF Open
    <3>2. Chunks \subseteq 0 .. NumChunks
      BY DEF Chunks
    <3>3. QED
      BY <1>1, <3>1, <3>2 DEF TypeOK
  <2>6. session' = session
    BY <1>5 DEF Open, stored
  <2>7. QED
    BY <1>1, <2>3, <2>4, <2>5, <2>6 DEF Progress, Complete, Exists
<1>6. QED
  BY <1>2, <1>3, <1>4, <1>5 DEF OpenChunk, OpenFinal

LEMMA WriteProgress ==
    ASSUME StoredInv, ChunksInv, NEW p \in Clients, WriteChunk(p)
    PROVE  Progress({p})
<1> DEFINE u == job[p].u
           c == job[p].c
<1>1. /\ TypeOK /\ p \in Procs /\ job \in [Procs -> Job] /\ Carries(p) /\ u \in Uploads /\ job[p].op = "write"
      /\ c \in Chunks /\ c \in 0 .. NumChunks /\ Receiving(p) /\ session' = session
  BY DEF StoredInv, TypeOK, Procs, Carries, WriteChunk, At, ChunkOps, Job, ChunksInv, stored
<1>2. Chunks \subseteq 0 .. NumChunks
  BY DEF Chunks
<1>3. CASE /\ disk' = IF job[p].good THEN [disk EXCEPT ![u][c] = Written] ELSE disk
           /\ To(p, "receive")
  <2>1. /\ job'[p].op = "receive" /\ job'[p].u = u /\ job'[p].c = c
        /\ \A q \in Procs \ {p} : job'[q] = job[q]
    BY <1>1, <1>3, ToType DEF Ops
  <2>2. disk'[u][c] # "part" /\ \A v \in Uploads, b \in Chunks : disk'[v][b] = "part" => disk[v][b] = "part"
    BY <1>1, <1>2, <1>3 DEF TypeOK, Written, Receiving, ChunkOps
  <2>3. GoesOn(p)
    BY <1>1, <2>1, <2>2 DEF GoesOn, ChunkOps, Assembly
  <2>4. \A q \in Procs \ {p} : Unharmed(q)
    BY <2>1 DEF Unharmed, Same
  <2>5. QED
    BY <1>1, <2>2, <2>3, <2>4 DEF Progress, Complete, Exists
<1>4. CASE /\ disk' = [disk EXCEPT ![u][c] = "none"]
           /\ job' = [Cut(job, u, {c}) EXCEPT ![p] = NoJob]
  <2>1. job'[p].op = "idle"
    BY <1>1, <1>4, CutType, NoJobType
  <2>2. \A q \in Procs \ {p} : Unharmed(q)
    <3>1. \A q \in Procs \ {p} : job'[q] = Cut(job, u, {c})[q] /\ ~Holds(job[q], u, c)
      BY <1>1, <1>4, OneWriter DEF Cut, ChunkOps
    <3>2. \A q \in Procs \ {p} : Same(job[q], job'[q]) /\ (job[q].good => job'[q].good)
      BY <1>1, <3>1, CutType
    <3>3. QED
      BY <3>2 DEF Unharmed
  <2>3. \A v \in Uploads, b \in Chunks : disk'[v][b] = "part" => disk[v][b] = "part"
    BY <1>1, <1>2, <1>4 DEF TypeOK
  <2>4. GoesOn(p)
    BY <2>1 DEF GoesOn, ChunkOps, Assembly
  <2>5. QED
    BY <1>1, <2>2, <2>3, <2>4 DEF Progress, Complete, Exists
<1>5. QED
  BY <1>3, <1>4 DEF WriteChunk

LEMMA DropProgress ==
    ASSUME StoredInv, ChunksInv, NEW p \in Clients, DropChunk(p)
    PROVE  Progress({p})
<1> DEFINE u == job[p].u
           c == job[p].c
<1>1. /\ TypeOK /\ p \in Procs /\ job \in [Procs -> Job] /\ Carries(p) /\ u \in Uploads /\ job[p].op = "drop"
      /\ c \in Chunks /\ session' = session /\ Follows(p)
  BY DropChunkStored DEF StoredInv, TypeOK, Procs, Carries, DropChunk, At, Job, stored
<1>2. Chunks \subseteq 0 .. NumChunks /\ Final \in 0 .. NumChunks /\ Final \notin Chunks
  BY NumChunksAssumption DEF Chunks, Final
<1>3. /\ \A v \in Uploads, b \in Chunks : disk'[v][b] = "part" => disk[v][b] = "part"
      /\ disk'[u][c] = "none"
  <2>1. PICK d : disk' = [disk EXCEPT ![u][c] = "none", ![u][Final] = d]
    <3>1. PICK whole : disk' = [disk EXCEPT ![u][c] = "none", ![u][Final] = IF whole THEN "full" ELSE @]
      BY DEF DropChunk
    <3>2. disk' = [disk EXCEPT ![u][c] = "none", ![u][Final] = IF whole THEN "full" ELSE disk[u][Final]]
      BY <1>1, <1>2, <3>1 DEF TypeOK
    <3>3. QED
      BY <3>2
  <2>2. QED
    BY <1>1, <1>2, <2>1 DEF TypeOK
<1>4. \A q \in Procs \ {p} : job'[q] = Cut(job, u, {c})[q]
  BY <1>1 DEF DropChunk, Cut
<1>5. job'[p].op \in {"lookup", "read"}
  BY <1>1, CutType DEF DropChunk, Job
<1>6. GoesOn(p)
  BY <1>1, <1>5 DEF GoesOn, Follows, ChunkOps, Assembly
<1>7. \A q \in Procs \ {p} : Unharmed(q)
  <2>1. ASSUME NEW q \in Procs \ {p}
        PROVE  Unharmed(q)
    <3>1. /\ Same(job[q], job'[q])
          /\ job[q].good /\ ~job'[q].good => Holds(job[q], u, c)
      BY <1>1, <1>4, CutType
    <3>2. QED
      BY <1>3, <3>1 DEF Unharmed, Holds
  <2>2. QED
    BY <2>1
<1>8. QED
  BY <1>1, <1>3, <1>6, <1>7 DEF Progress, Complete, Exists

\* Whose directory is removed loses its file, and that is gone.
LEMMA RemovedUnharmed ==
    ASSUME StoredInv, NEW U, NEW jobs \in [Procs -> Job], RemoveDirs(U, jobs), NEW q \in Procs, jobs[q] = job[q]
    PROVE  Unharmed(q)
<1>1. /\ job[q] \in Job /\ job[q].u \in Uploads /\ job[q].c \in 0 .. NumChunks
  BY DEF StoredInv, TypeOK, Job
<1>2. job'[q] = IF job[q].op \in {"write", "read", "drop"} /\ job[q].u \in U
                THEN [job[q] EXCEPT !.good = FALSE] ELSE job[q]
  BY DEF RemoveDirs
<1>3. job[q].u \in U => disk'[job[q].u][job[q].c] = "none"
  BY <1>1 DEF RemoveDirs
<1>4. QED
  BY <1>1, <1>2, <1>3 DEF Unharmed, Same, Job

LEMMA RemovedDisk ==
    ASSUME StoredInv, NEW U, NEW jobs, RemoveDirs(U, jobs)
    PROVE  \A v \in Uploads, b \in 0 .. NumChunks : disk'[v][b] \in {disk[v][b], "none"}
BY DEF StoredInv, TypeOK, RemoveDirs

LEMMA RemoveProgress ==
    ASSUME StoredInv, BegunInv, NEW p \in Procs, RemoveUploadDir(p)
    PROVE  Progress({p})
<1> DEFINE next == IF p \in Clients /\ job[p].u \in Chunked THEN [job[p] EXCEPT !.op = "session"] ELSE NoJob
           jobs == [job EXCEPT ![p] = next]
<1>1. /\ TypeOK /\ job \in [Procs -> Job] /\ job[p] \in Job /\ session' = session
      /\ RemoveDirs({job[p].u}, jobs)
  BY DEF StoredInv, TypeOK, RemoveUploadDir, stored
<1>2. next \in Job /\ next.op \in {"idle", "session"}
  BY <1>1, NoJobType DEF Job, Ops
<1> HIDE DEF next
<1>3. jobs \in [Procs -> Job] /\ jobs[p] = next /\ \A q \in Procs \ {p} : jobs[q] = job[q]
  BY <1>1, <1>2
<1> HIDE DEF jobs
<1>4. \A q \in Procs \ {p} : Unharmed(q)
  BY <1>1, <1>3, RemovedUnharmed
<1>5. GoesOn(p)
  <2>1. job'[p] = next
    BY <1>1, <1>2, <1>3 DEF RemoveDirs
  <2>2. QED
    BY <1>2, <2>1 DEF GoesOn, ChunkOps, Assembly
<1>6. \A v \in Uploads, b \in Chunks : disk'[v][b] = "part" => disk[v][b] = "part"
  <2>1. Chunks \subseteq 0 .. NumChunks
    BY DEF Chunks
  <2>2. QED
    BY <1>1, <2>1, RemovedDisk
<1>7. QED
  BY <1>1, <1>4, <1>5, <1>6 DEF Progress, Complete, Exists

LEMMA SweepProgress == ASSUME StoredInv, Sweep PROVE Progress({})
<1>1. TypeOK /\ job \in [Procs -> Job] /\ session' = session /\ RemoveDirs(Stale, job)
  BY DEF StoredInv, TypeOK, Sweep, stored
<1>2. \A q \in Procs : Unharmed(q)
  BY <1>1, RemovedUnharmed
<1>3. \A v \in Uploads, b \in Chunks : disk'[v][b] = "part" => disk[v][b] = "part"
  <2>1. Chunks \subseteq 0 .. NumChunks
    BY DEF Chunks
  <2>2. QED
    BY <1>1, <2>1, RemovedDisk
<1>4. QED
  BY <1>1, <1>2, <1>3 DEF Progress, Complete, Exists

LEMMA SessionProgress ==
    ASSUME StoredInv, NEW p \in Clients,
           ReceiveChunk(p) \/ Resumed(p) \/ Accept(p) \/ FailUpload(p) \/ UpdateSession(p)
    PROVE  Progress({p})
<1> DEFINE u == job[p].u
<1>1. /\ TypeOK /\ p \in Procs /\ job[p] \in Job /\ u \in Uploads /\ session[u] \in Session /\ Carries(p)
      /\ session \in [Uploads -> Session] /\ \A v \in Chunked : v \in Uploads /\ v \notin Small
  BY UploadsAssumption DEF StoredInv, TypeOK, Procs, Job, Uploads
<1>2. /\ GoesOn(p) /\ \A q \in Procs \ {p} : job'[q] = job[q] /\ Unharmed(q)
  <2>1. CASE Accept(p)
    <3>1. /\ job'[p].op = "final" /\ job'[p].u = u /\ \A q \in Procs \ {p} : job'[q] = job[q]
      BY <1>1, <2>1, ToType DEF Accept, Ops
    <3>2. QED
      BY <2>1, <3>1 DEF Accept, At, GoesOn, ChunkOps, Assembly, Unharmed, Same
  <2>2. CASE ~Accept(p)
    <3>1. /\ job'[p].op = "idle" /\ \A q \in Procs \ {p} : job'[q] = job[q]
      BY <1>1, <2>2, StopStored DEF ReceiveChunk, Resumed, FailUpload, UpdateSession
    <3>2. QED
      BY <3>1 DEF GoesOn, ChunkOps, Assembly, Unharmed, Same
  <2>3. QED
    BY <2>1, <2>2
<1>3. disk' = disk
  BY DEF ReceiveChunk, Resumed, Accept, FailUpload, UpdateSession, SetStatus, SetSession, SetSessions, onDisk
<1>4. CASE ReceiveChunk(p)
  <2> DEFINE s == [session[u] EXCEPT !.received = @ \cup {job[p].c}]
  <2>1. /\ s \in Session /\ s.received = session[u].received \cup {job[p].c} /\ s.status = session[u].status
        /\ job[p].c \in Chunks /\ job[p].op = "receive"
    BY <1>1, <1>4 DEF Session, ReceiveChunk, At, Carries, ChunkOps
  <2>2. SetSession(u, s) /\ job'[p].op = "idle"
    BY <1>1, <1>4, StopStored DEF ReceiveChunk
  <2> HIDE DEF s
  <2>3. \A v \in Chunked : \A c \in session'[v].received : c \in session[v].received \/ Receives(p, v, c)
    BY <1>1, <2>1, <2>2, SetSessionType DEF Receives
  <2>4. \A v \in Chunked : Complete(v) => Complete(v)'
    <3>1. \A v \in Uploads : /\ v # u \/ ~Exists(u) => session'[v] = session[v]
                             /\ v = u /\ Exists(u) => session'[v].received = session[v].received \cup {job[p].c}
      BY <1>1, <2>1, <2>2, SetSessionType
    <3>2. \A v \in Uploads : session[v].received \subseteq Chunks
      BY <1>1 DEF Session
    <3>3. QED
      BY <1>1, <2>1, <3>1, <3>2 DEF Complete, Exists
  <2>5. QED
    BY <1>1, <1>2, <1>3, <2>3, <2>4 DEF Progress
<1>5. ASSUME NEW s \in Session, SetSession(u, s), s.received = session[u].received
      PROVE  Progress({p})
  <2>1. \A v \in Chunked : session'[v].received = session[v].received /\ (Exists(v)' => Exists(v))
    BY <1>1, <1>5, SetSessionType DEF Exists
  <2>2. QED
    BY <1>1, <1>2, <1>3, <2>1, QuietStep
<1>6. ASSUME NEW status \in Statuses, SetStatus(u, status)
      PROVE  Progress({p})
  <2> DEFINE s == [session[u] EXCEPT !.status = status]
  <2>1. s \in Session /\ s.received = session[u].received
    BY <1>1 DEF Session
  <2>2. SetSession(u, s)
    BY <1>6 DEF SetStatus
  <2> HIDE DEF s
  <2>3. QED
    BY <1>5, <2>1, <2>2
<1>7. CASE Resumed(p) \/ Accept(p) \/ FailUpload(p)
  BY <1>6, <1>7 DEF Resumed, Accept, FailUpload, Statuses
<1>8. CASE UpdateSession(p)
  <2>1. CASE u \in Small
    <3>1. \A v \in Chunked : session'[v] = session[v]
      BY <1>1, <1>8, <2>1 DEF UpdateSession, SetSessions
    <3>2. QED
      BY <1>1, <1>2, <1>3, <3>1, QuietStep DEF Exists
  <2>2. CASE u \notin Small
    <3> DEFINE s == [session[u] EXCEPT !.status = IF job[p].dup THEN "completed" ELSE "processing",
                                       !.file = job[p].f, !.dup = @ \/ job[p].dup]
    <3>1. s \in Session /\ s.received = session[u].received
      BY <1>1 DEF Session, Statuses, Job
    <3>2. SetSession(u, s)
      BY <1>8, <2>2 DEF UpdateSession
    <3> HIDE DEF s
    <3>3. QED
      BY <1>5, <3>1, <3>2
  <2>3. QED
    BY <2>1, <2>2
<1>9. QED
  BY <1>4, <1>7, <1>8

\* What a lookup finds is the message of a record with the same content.
LEMMA LookupBecomes ==
    ASSUME StoredInv, NEW p \in Clients, Lookup(p)
    PROVE  /\ job'[p].op = "record" /\ job'[p].u = job[p].u /\ job'[p].short = job[p].short
           /\ \A q \in Procs \ {p} : job'[q] = job[q]
           /\ \/ job'[p].msg = "none"
              \/ \E f \in DOMAIN files : files[f].content = Hashed(job[p]) /\ job'[p].msg = files[f].msg
<1>1. TypeOK /\ p \in Procs /\ job[p] \in Job
  BY DEF StoredInv, TypeOK, Procs
<1>2. PICK msg \in Held \cup {"none"}, dup \in BOOLEAN :
        /\ job' = [job EXCEPT ![p].op = "record", ![p].msg = msg, ![p].dup = dup]
        /\ msg = "none" \/ \E f \in DOMAIN files : files[f].content = Hashed(job[p]) /\ msg = files[f].msg
  <2>1. \A f \in DOMAIN files : files[f].msg \in Held \cup {"none"}
    BY <1>1, FilesTyped DEF FileDoc
  <2>2. QED
    BY <2>1 DEF Lookup
<1> DEFINE k == [job[p] EXCEPT !.op = "record", !.msg = msg, !.dup = dup]
<1>3. k \in Job /\ k.op = "record" /\ k.u = job[p].u /\ k.short = job[p].short /\ k.msg = msg
  BY <1>1 DEF Job, Ops
<1>4. job' = [job EXCEPT ![p] = k]
  BY <1>2
<1> HIDE DEF k
<1>5. job'[p] = k /\ \A q \in Procs \ {p} : job'[q] = job[q]
  BY <1>1, <1>3, <1>4, BecomesType
<1>6. QED
  BY <1>2, <1>3, <1>5

\* What is sent is what lies at the final path by then.
LEMMA SendBecomes ==
    ASSUME StoredInv, NEW p \in Workers, Send(p)
    PROVE  /\ job[p].op = "send" /\ job'[p].u = job[p].u /\ job'[p].f = job[p].f
           /\ \A q \in Procs \ {p} : job'[q] = job[q]
           /\ \/ job'[p].op = "sendFailed"
              \/ /\ job'[p].op = "store"
                 /\ job'[p].msg = (IF disk[job[p].u][Final] = "full" THEN Content[job[p].u] ELSE "part")
                 /\ disk[job[p].u][Final] # "none"
<1>1. TypeOK /\ p \in Procs /\ job[p] \in Job
  BY DEF StoredInv, TypeOK, Procs
<1>2. CASE To(p, "sendFailed")
  BY <1>1, <1>2, ToType DEF Ops, Send, At
<1>3. CASE ~To(p, "sendFailed")
  <2> DEFINE u == job[p].u
             msg == IF disk[u][Final] = "full" THEN Content[u] ELSE "part"
             k == [job[p] EXCEPT !.op = "store", !.msg = msg]
  <2>1. msg \in Held \cup {"none"}
    BY <1>1, ContentAssumption DEF Held, Uploads, Job
  <2>2. job' = [job EXCEPT ![p] = k] /\ disk[u][Final] # "none"
    BY <1>3 DEF Send
  <2> HIDE DEF msg
  <2>3. k \in Job /\ k.op = "store" /\ k.u = u /\ k.f = job[p].f /\ k.msg = msg
    BY <1>1, <2>1 DEF Job, Ops
  <2> HIDE DEF k
  <2>4. job'[p] = k /\ \A q \in Procs \ {p} : job'[q] = job[q]
    BY <1>1, <2>2, <2>3, BecomesType
  <2>5. QED
    BY <2>2, <2>3, <2>4 DEF Send, At, msg
<1>4. QED
  BY <1>2, <1>3

LEMMA RecordBecomes ==
    ASSUME StoredInv, NEW p \in Clients, RecordFile(p)
    PROVE  /\ job'[p].op \in {"rmtree", "enqueue"} /\ job'[p].u = job[p].u /\ job'[p].f = Len(files) + 1
           /\ \A q \in Procs \ {p} : job'[q] = job[q]
<1> DEFINE op == IF job[p].dup THEN "rmtree" ELSE "enqueue"
           k == [job[p] EXCEPT !.op = op, !.f = Len(files) + 1]
<1>1. TypeOK /\ p \in Procs /\ job[p] \in Job /\ Len(files) + 1 \in Nat
  BY DEF StoredInv, TypeOK, Procs
<1>2. op \in {"rmtree", "enqueue"} /\ op \in Ops
  BY DEF Ops
<1>3. job' = [job EXCEPT ![p] = k]
  BY DEF RecordFile
<1> HIDE DEF op
<1>4. k \in Job /\ k.op = op /\ k.f = Len(files) + 1 /\ k.u = job[p].u
  BY <1>1, <1>2 DEF Job
<1> HIDE DEF k
<1>5. job'[p] = k /\ \A q \in Procs \ {p} : job'[q] = job[q]
  BY <1>1, <1>3, <1>4, BecomesType
<1>6. QED
  BY <1>2, <1>4, <1>5

LEMMA OtherProgress ==
    ASSUME StoredInv, NEW p \in Procs,
           \/ p \in Clients /\ (ReadChunk(p) \/ Lookup(p) \/ RecordFile(p) \/ Enqueue(p))
           \/ p \in Workers /\ (Take(p) \/ Send(p) \/ Store(p) \/ Notify(p) \/ SendFailed(p))
    PROVE  Progress({p})
<1>1. TypeOK /\ job \in [Procs -> Job] /\ job[p] \in Job /\ session \in [Uploads -> Session] /\ Chunked \subseteq Uploads
  BY DEF StoredInv, TypeOK, Uploads
<1>2. \A q \in Procs \ {p} : job'[q] = job[q]
  BY <1>1 DEF ReadChunk, Lookup, RecordFile, Enqueue, Take, Send, Store, Notify, SendFailed, To, Start
<1>3. disk' = disk
  BY DEF ReadChunk, Lookup, RecordFile, Enqueue, Take, Send, Store, Notify, SendFailed, Reads, Saves, SetSessions, onDisk
<1>4. \A u \in Chunked : session'[u].received = session[u].received /\ (Exists(u)' => Exists(u))
  <2>1. CASE Notify(p)
    BY <1>1, <2>1 DEF Notify, SetSessions, Exists, Session
  <2>2. CASE session' = session
    BY <2>2 DEF Exists
  <2>3. QED
    BY <2>1, <2>2 DEF ReadChunk, Lookup, RecordFile, Enqueue, Take, Send, Store, SendFailed, Reads, Saves, stored
<1>5. GoesOn(p)
  <2>1. CASE ReadChunk(p)
    BY <1>1, <2>1 DEF ReadChunk, To, At, GoesOn, ChunkOps, Assembly, Job
  <2>2. CASE ~ReadChunk(p)
    <3>1. job'[p].op \in {"record", "rmtree", "enqueue", "session", "send", "store", "sendFailed", "notify"}
      <4>1. CASE Enqueue(p) \/ Store(p) \/ Notify(p) \/ SendFailed(p)
        BY <1>1, <4>1, ToType DEF Enqueue, Store, Notify, SendFailed, Ops
      <4>2. CASE p \in Clients /\ Lookup(p)
        BY <4>2, LookupBecomes
      <4>3. CASE RecordFile(p)
        BY <1>1, <4>3 DEF RecordFile
      <4>4. CASE p \in Workers /\ Send(p)
        BY <4>4, SendBecomes
      <4>5. CASE Take(p)
        <5>1. [NewJob("send", Head(queue).u) EXCEPT !.f = Head(queue).f].op = "send"
          BY DEF NewJob
        <5>2. QED
          BY <1>1, <4>5, <5>1 DEF Take, Start
      <4>6. QED
        BY <2>2, <4>1, <4>2, <4>3, <4>4, <4>5
    <3>2. QED
      BY <3>1 DEF GoesOn, ChunkOps, Assembly
  <2>3. QED
    BY <2>1, <2>2
<1>6. QED
  BY <1>2, <1>3, <1>4, <1>5, QuietStep

LEMMA SmallProgress ==
    ASSUME StoredInv, NEW p \in Clients, NEW u \in Small, SmallUpload(p, u)
    PROVE  Progress({p})
<1>1. TypeOK /\ p \in Procs /\ job \in [Procs -> Job] /\ session' = session /\ \A v \in Chunked : v # u
  BY UploadsAssumption DEF StoredInv, TypeOK, Procs, SmallUpload
<1>2. \A q \in Procs \ {p} : Unharmed(q)
  BY <1>1 DEF SmallUpload, Start, Unharmed, Same
<1>3. GoesOn(p)
  <2>1. job'[p].op \in {"idle", "lookup"}
    BY <1>1 DEF SmallUpload, Start, NewJob, Idle
  <2>2. QED
    BY <2>1 DEF GoesOn, ChunkOps, Assembly
<1>4. \A v \in Uploads, b \in Chunks : disk'[v][b] = "part" => disk[v][b] = "part"
  <2>1. Final \notin Chunks /\ Chunks \subseteq 0 .. NumChunks
    BY DEF Final, Chunks
  <2>2. \E d \in Part : disk' = [disk EXCEPT ![u][Final] = d]
    BY DEF SmallUpload, Part
  <2>3. u \in Uploads /\ disk \in [Uploads -> [0 .. NumChunks -> Part]]
    BY <1>1 DEF TypeOK, Uploads
  <2>4. QED
    BY <2>1, <2>2, <2>3
<1>5. QED
  BY <1>1, <1>2, <1>3, <1>4 DEF Progress, Complete, Exists

LEMMA TimeProgress ==
    ASSUME StoredInv, \/ DayPasses
                      \/ \E u \in Uploads : Begin(u) \/ PauseUpload(u) \/ SessionExpires(u)
                      \/ UNCHANGED vars
    PROVE  Progress({})
<1>1. session \in [Uploads -> Session] /\ Chunked \subseteq Uploads
  BY DEF StoredInv, TypeOK, Uploads
<1>2. job' = job /\ disk' = disk
  BY DEF DayPasses, Begin, PauseUpload, SessionExpires, SetStatus, SetSession, SetSessions, onDisk, vars
<1>3. \A q \in Procs : Unharmed(q)
  BY <1>2 DEF Unharmed, Same
<1>4. /\ \A v \in Chunked : session'[v].received \subseteq session[v].received
      /\ \A v \in Chunked \cap begun : Complete(v) => Complete(v)'
  <2>1. CASE DayPasses
    BY <1>1, <2>1 DEF DayPasses, Session, Complete, Exists
  <2>2. CASE \E u \in Uploads : Begin(u)
    BY <1>1, <2>2 DEF Begin, NoSession, Complete, Exists
  <2>3. CASE \E u \in Uploads : PauseUpload(u)
    <3>1. PICK u \in Uploads : SetStatus(u, "paused")
      BY <2>3 DEF PauseUpload
    <3> DEFINE s == [session[u] EXCEPT !.status = "paused"]
    <3>2. s \in Session /\ s.received = session[u].received /\ s.status = "paused"
      BY <1>1 DEF Session, Statuses
    <3>3. SetSession(u, s) /\ TypeOK
      BY <3>1 DEF SetStatus, StoredInv
    <3> HIDE DEF s
    <3>4. \A v \in Uploads : session'[v].received = session[v].received /\ (Exists(v)' => Exists(v))
      BY <3>2, <3>3, SetSessionType DEF Exists
    <3>5. QED
      BY <1>1, <3>4 DEF Complete
  <2>4. CASE \E u \in Uploads : SessionExpires(u)
    BY <1>1, <2>4 DEF SessionExpires, SetSessions, NoSession, Complete, Exists
  <2>5. CASE UNCHANGED vars
    BY <2>5 DEF vars, Complete, Exists
  <2>6. QED
    BY <2>1, <2>2, <2>3, <2>4, <2>5
<1>5. QED
  BY <1>1, <1>2, <1>3, <1>4 DEF Progress

(***************************************************************************)
(* Chunks: requests that begin, and restarts.                              *)
(***************************************************************************)
\* A chunk is sent that was not received, and that no one sends.
LEMMA ChunkSent ==
    ASSUME ~Resend, StoredInv, ChunksInv, NEW p \in Clients, NEW u \in Chunked, NEW c \in Chunks,
           UploadChunk(p, u, c)
    PROVE  ChunksInv'
<1> DEFINE k == [NewJob("open", u) EXCEPT !.c = c]
<1>1. TypeOK /\ p \in Procs /\ u \in Uploads /\ c \in 0 .. NumChunks
  BY DEF StoredInv, TypeOK, Procs, Uploads, Chunks
<1>2. /\ k \in Job /\ k.op = "open" /\ k.u = u /\ k.c = c /\ k.good
      /\ job' = [job EXCEPT ![p] = k]
  <2>1. NewJob("open", u) \in Job
    BY <1>1, NewJobType DEF Ops
  <2>2. QED
    BY <1>1, <2>1 DEF UploadChunk, Start, NewJob, Job
<1> HIDE DEF k
<1>3. job'[p] = k /\ \A q \in Procs \ {p} : job'[q] = job[q]
  BY <1>1, <1>2, BecomesType
<1>4. session' = session /\ disk' = disk /\ Exists(u)
  BY DEF UploadChunk, Reads, stored, onDisk
<1>5. c \notin session[u].received /\ \A q \in Procs : job[q].op \in ChunkOps => job[q].u # u \/ job[q].c # c
  <2>1. \A q \in Procs : job[q].op \in ChunkOps => q \in Clients
    BY DEF StoredInv, Carries
  <2>2. QED
    BY <2>1 DEF UploadChunk, MaySend, ChunkOps
<1>6. \A q \in Procs : job[q].op \in Assembly => job[q].u # u
  BY <1>4, <1>5 DEF ChunksInv, Complete
<1>7. Receiving(p)'
  BY <1>2, <1>3, <1>4, <1>5 DEF Receiving
<1>8. \A q \in Procs \ {p} : Receiving(q)'
  BY <1>2, <1>3, <1>4, <1>5 DEF Receiving, ChunksInv
<1>9. \A q \in Procs : job'[q].op \in Assembly => q # p /\ job'[q] = job[q]
  BY <1>2, <1>3 DEF Assembly
<1>10. QED
  BY <1>2, <1>3, <1>4, <1>6, <1>7, <1>8, <1>9 DEF ChunksInv, Complete, Exists

\* A request that begins with a job of its own.
LEMMA Started ==
    ASSUME StoredInv, NEW p \in Clients, NEW u \in Uploads, NEW op \in Ops, Start(p, NewJob(op, u))
    PROVE  job'[p] = NewJob(op, u) /\ job'[p].op = op /\ job'[p].u = u /\ \A q \in Procs \ {p} : job'[q] = job[q]
<1> DEFINE k == NewJob(op, u)
<1>1. TypeOK /\ p \in Procs /\ k \in Job /\ k.op = op /\ k.u = u
  BY NewJobType DEF StoredInv, Procs
<1>2. job' = [job EXCEPT ![p] = k]
  BY DEF Start
<1> HIDE DEF k
<1>3. job'[p] = k /\ \A q \in Procs \ {p} : job'[q] = job[q]
  BY <1>1, <1>2, BecomesType
<1>4. QED
  BY <1>1, <1>3 DEF k

\* An assembly begins when every chunk was received.
LEMMA AssemblyBegins ==
    ASSUME StoredInv, ChunksInv, NEW p \in Clients, NEW u \in Chunked, CompleteUpload(p, u)
    PROVE  ChunksInv'
<1>1. TypeOK /\ p \in Procs /\ u \in Uploads
  BY DEF StoredInv, TypeOK, Procs, Uploads
<1>2. /\ job'[p].op = "accept" /\ job'[p].u = u /\ \A q \in Procs \ {p} : job'[q] = job[q]
  BY <1>1, Started DEF CompleteUpload, Ops
<1>3. session' = session /\ disk' = disk /\ session[u].received = Chunks
  BY DEF CompleteUpload, onDisk
<1>4. \A q \in Procs : job[q].op \in ChunkOps => job[q].u # u
  BY <1>3 DEF StoredInv, Carries, ChunksInv, Receiving
<1>5. \A q \in Procs : job'[q].op \in ChunkOps => q # p /\ job'[q] = job[q] /\ job[q].u # u
  BY <1>2, <1>4 DEF ChunkOps
<1>6. \A q \in Procs : Receiving(q)'
  BY <1>3, <1>5 DEF ChunksInv, Receiving
<1>7. QED
  BY <1>2, <1>3, <1>5, <1>6 DEF ChunksInv, Complete, Exists

LEMMA ChunksInit == Init => ChunksInv
<1> SUFFICES ASSUME Init
             PROVE  ChunksInv
  OBVIOUS
<1>1. \A p \in Procs : job[p].op = "idle"
  BY NoJobType DEF Init
<1>2. \A u \in Uploads : session[u].received = {}
  BY DEF Init, NoSession
<1>3. QED
  BY <1>1, <1>2 DEF ChunksInv, Receiving, ChunkOps, Assembly, Uploads

LEMMA ChunksNext == ~Resend /\ StoredInv /\ BegunInv /\ ChunksInv /\ [Next]_vars => ChunksInv'
<1> SUFFICES ASSUME ~Resend, StoredInv, BegunInv, ChunksInv, [Next]_vars
             PROVE  ChunksInv'
  OBVIOUS
<1>1. ASSUME NEW p \in Clients, Request(p)
      PROVE  ChunksInv'
  <2>1. ASSUME NEW u \in Chunked, ResumeUpload(p, u)
        PROVE  Progress({p})
    <3>1. TypeOK /\ p \in Procs /\ u \in Uploads
      BY DEF StoredInv, Procs, Uploads
    <3>2. job'[p].op = "resume" /\ \A q \in Procs \ {p} : job'[q] = job[q]
      BY <2>1, <3>1, Started DEF ResumeUpload, Ops
    <3>3. session' = session /\ disk' = disk
      BY <2>1 DEF ResumeUpload, Reads, stored, onDisk
    <3>4. QED
      BY <3>1, <3>2, <3>3, QuietStep DEF GoesOn, ChunkOps, Assembly, Exists
  <2>2. QED
    BY <1>1, <2>1, ChunkSent, AssemblyBegins, SmallProgress, ChunksKept DEF Request
<1>2. ASSUME NEW p \in Clients, Step(p)
      PROVE  ChunksInv'
  <2>1. p \in Procs
    BY DEF Procs
  <2>2. Progress({p})
    BY <1>2, <2>1, OpenProgress, WriteProgress, DropProgress, RemoveProgress, SessionProgress, OtherProgress DEF Step
  <2>3. QED
    BY <2>2, ChunksKept
<1>3. ASSUME NEW w \in Workers, WorkerStep(w)
      PROVE  ChunksInv'
  <2>1. w \in Procs
    BY DEF Procs
  <2>2. Progress({w})
    BY <1>3, <2>1, RemoveProgress, OtherProgress DEF WorkerStep
  <2>3. QED
    BY <2>2, ChunksKept
<1>4. CASE Restart
  <2>1. \A p \in Procs : job'[p].op = "idle"
    BY <1>4, NoJobType DEF Restart
  <2>2. QED
    BY <1>4, <2>1 DEF Restart, ChunksInv, Receiving, ChunkOps, Assembly, onDisk
<1>5. QED
  BY <1>1, <1>2, <1>3, <1>4, SweepProgress, TimeProgress, ChunksKept DEF Next

(***************************************************************************)
(* Assembled files: what a step of at most one process leaves alone.       *)
(***************************************************************************)
\* Another process goes on; if it lost the assembled file, it is not cut.
FinalKept(q) ==
    /\ Same(job[q], job'[q])
    /\ job[q].good /\ ~job'[q].good => job[q].op \in {"write", "read", "drop"}
    /\ job[q].good /\ ~job'[q].good /\ job[q].op # "write" => disk'[job[q].u][Final] # "part"

\* p goes on with its assembly, or with none.
Handles(p) ==
    job'[p].op \in Assembly =>
      /\ job[p].op \in Assembly /\ job'[p].u = job[p].u
      /\ job'[p].op \in {"accept", "final"} => job'[p].good
      /\ job'[p].op \in {"read", "drop"} => job'[p].good \/ disk'[job[p].u][Final] # "part"

\* p opens the file of u; p closes it.
Truncates(p, u) == job[p].op = "final" /\ job[p].u = u
Closes(p, u) == job[p].op = "drop" /\ job'[p].op = "lookup" /\ job[p].u = u /\ disk'[u][Final] # "part"

\* Those of P are at work, on files and jobs.
Carried(P) ==
    /\ P \subseteq Procs /\ \A p, q \in P : p = q
    /\ \A q \in Procs \ P : FinalKept(q)
    /\ \A p \in P : Handles(p)
    /\ \A u \in Uploads : Pending(u)' => Pending(u) \/ \E p \in P : Closes(p, u)
    /\ \A u \in Uploads : disk'[u][Final] = "part" => disk[u][Final] = "part" \/ \E p \in P : Truncates(p, u)
    /\ completes' = completes

LEMMA PlacedKept ==
    ASSUME StoredInv, Placed, NEW P, Carried(P)
    PROVE  Placed'
<1>1. ASSUME NEW q \in Procs, job'[q].op \in Assembly
      PROVE  job[q].op \in Assembly /\ job'[q].u = job[q].u /\ job[q].u \in Uploads
  <2>1. job[q].u \in Uploads
    BY DEF StoredInv, TypeOK, Job
  <2>2. QED
    BY <1>1, <2>1 DEF Carried, Handles, FinalKept, Same
<1>2. \A q \in Procs : Assembles(q)
  BY DEF Placed
<1>3. \A p \in P, u \in Uploads : Closes(p, u) \/ Truncates(p, u) => p \in Procs /\ job[p].op \in Assembly /\ job[p].u = u
  BY DEF Carried, Closes, Truncates, Assembly
<1>4. ASSUME NEW u \in Uploads, Pending(u)'
      PROVE  disk'[u][Final] # "part" /\ (u \in Chunked => completes'[u] # 0)
  <2>1. CASE Pending(u)
    <3>1. disk[u][Final] # "part" /\ (u \in Chunked => completes[u] # 0)
      BY <2>1 DEF Placed
    <3>2. \A p \in P : ~Truncates(p, u)
      BY <1>2, <1>3, <2>1 DEF Assembles
    <3>3. QED
      BY <3>1, <3>2 DEF Carried
  <2>2. CASE \E p \in P : Closes(p, u)
    <3>1. PICK p \in P : Closes(p, u)
      BY <2>2
    <3>2. completes[u] # 0
      BY <1>2, <1>3, <3>1 DEF Assembles
    <3>3. QED
      BY <3>1, <3>2 DEF Carried, Closes
  <2>3. QED
    BY <1>4, <2>1, <2>2 DEF Carried
<1>5. ASSUME NEW q \in Procs, job'[q].op \in Assembly
      PROVE  Assembles(q)'
  <2> DEFINE u == job[q].u
  <2>1. job[q].op \in Assembly /\ job'[q].u = u /\ u \in Uploads
    BY <1>1, <1>5
  <2>2. /\ completes[u] # 0 /\ ~Pending(u)
        /\ \A r \in Procs : job[r].op \in Assembly /\ job[r].u = u => r = q
        /\ job[q].op \in {"accept", "final"} => job[q].good
        /\ job[q].op \in {"read", "drop"} => job[q].good \/ disk[u][Final] # "part"
    BY <1>2, <2>1 DEF Assembles
  <2>3. \A r \in Procs : job'[r].op \in Assembly /\ job'[r].u = u => r = q
    BY <1>1, <2>2
  <2>4. ~Pending(u)'
    <3>1. \A p \in P : ~Closes(p, u)
      BY <1>3, <1>5, <2>1, <2>2 DEF Closes, Assembly
    <3>2. QED
      BY <2>1, <2>2, <3>1 DEF Carried
  <2>5. /\ job'[q].op \in {"accept", "final"} => job'[q].good
        /\ job'[q].op \in {"read", "drop"} => job'[q].good \/ disk'[u][Final] # "part"
    <3>1. CASE q \in P
      BY <1>5, <3>1 DEF Carried, Handles
    <3>2. CASE q \notin P
      <4>1. FinalKept(q) /\ job'[q].op = job[q].op
        BY <3>2 DEF Carried, FinalKept, Same
      <4>2. job[q].op \in {"accept", "final"} => job'[q].good
        BY <2>2, <4>1 DEF FinalKept
      <4>3. job[q].op \in {"read", "drop"} /\ ~job'[q].good => disk'[u][Final] # "part"
        <5>1. \A p \in P : ~Truncates(p, u)
          BY <1>3, <2>1, <2>2, <3>2
        <5>2. disk'[u][Final] = "part" => disk[u][Final] = "part"
          BY <2>1, <5>1 DEF Carried
        <5>3. QED
          BY <2>2, <4>1, <5>2 DEF FinalKept
      <4>4. QED
        BY <4>1, <4>2, <4>3
    <3>3. QED
      BY <3>1, <3>2
  <2>6. completes'[u] # 0
    BY <2>2 DEF Carried
  <2>7. QED
    BY <2>1, <2>3, <2>4, <2>5, <2>6 DEF Assembles
<1>6. \A q \in Procs : Assembles(q)'
  BY <1>5 DEF Assembles
<1>7. QED
  BY <1>4, <1>6 DEF Placed

\* No upload comes to be pending but the one whose file is closed.
LEMMA PendingKept ==
    ASSUME NEW P, P \subseteq Procs, \A q \in Procs \ P : Same(job[q], job'[q]),
           \A p \in P : job'[p].op \in PendingOps =>
              \/ job[p].op \in PendingOps /\ job'[p].u = job[p].u
              \/ \E i \in DOMAIN queue : queue[i].u = job'[p].u
              \/ Closes(p, job'[p].u),
           \A i \in DOMAIN queue' :
              \/ \E k \in DOMAIN queue : queue'[i].u = queue[k].u
              \/ \E p \in P : job[p].op \in PendingOps /\ job[p].u = queue'[i].u
    PROVE  \A u \in Uploads : Pending(u)' => Pending(u) \/ \E p \in P : Closes(p, u)
<1> SUFFICES ASSUME NEW u \in Uploads, Pending(u)'
             PROVE  Pending(u) \/ \E p \in P : Closes(p, u)
  OBVIOUS
<1>1. CASE \E i \in DOMAIN queue' : queue'[i].u = u
  BY <1>1 DEF Pending
<1>2. CASE \E p \in Procs : job'[p].u = u /\ job'[p].op \in PendingOps
  <2>1. PICK p \in Procs : job'[p].u = u /\ job'[p].op \in PendingOps
    BY <1>2
  <2>2. CASE p \in P
    BY <2>1, <2>2 DEF Pending
  <2>3. CASE p \notin P
    BY <2>1, <2>3 DEF Pending, Same
  <2>4. QED
    BY <2>2, <2>3
<1>3. QED
  BY <1>1, <1>2 DEF Pending

\* No record changes its content, and all describe the whole of one.
FilesGoOn ==
    /\ DOMAIN files \subseteq DOMAIN files'
    /\ \A f \in DOMAIN files : files'[f].content = files[f].content
    /\ WholeFiles'

LEMMA DescribedKept ==
    ASSUME StoredInv, Described, NEW P, P \subseteq Procs, \A q \in Procs \ P : Same(job[q], job'[q]),
           \A p \in P : Describes(p)', FilesGoOn,
           \A i \in DOMAIN queue' :
              \/ \E k \in DOMAIN queue : queue'[i] = queue[k]
              \/ files'[queue'[i].f].content = Content[queue'[i].u]
    PROVE  Described'
<1>1. ASSUME NEW q \in Procs \ P
      PROVE  Describes(q)'
  <2>1. Describes(q) /\ Carries(q) /\ Same(job[q], job'[q])
    BY DEF Described, StoredInv
  <2>2. job[q].op \in {"enqueue", "send", "store"} => files'[job[q].f].content = files[job[q].f].content
    BY <2>1 DEF Carries, Sending, FilesGoOn
  <2>3. QED
    BY <2>1, <2>2 DEF Describes, Same
<1>2. ASSUME NEW i \in DOMAIN queue'
      PROVE  files'[queue'[i].f].content = Content[queue'[i].u]
  <2>1. ASSUME NEW k \in DOMAIN queue
        PROVE  files'[queue[k].f].content = Content[queue[k].u]
    BY TaskType DEF StoredInv, Described, FilesGoOn
  <2>2. QED
    BY <2>1
<1>3. QED
  BY <1>1, <1>2 DEF Described, FilesGoOn

\* A step whose process assembles nothing, and has no file that is pending.
LEMMA QuietWhole ==
    ASSUME StoredInv, Placed, Described, NEW P, P \subseteq Procs, \A p, q \in P : p = q,
           \A q \in Procs \ P : FinalKept(q),
           \A p \in P : job'[p].op \notin Assembly \cup PendingOps \cup {"store"},
           \A u \in Uploads : disk'[u][Final] = "part" => disk[u][Final] = "part",
           FilesGoOn, queue' = queue, completes' = completes
    PROVE  Placed' /\ Described'
<1>1. \A q \in Procs \ P : Same(job[q], job'[q])
  BY DEF FinalKept
<1>2. \A u \in Uploads : Pending(u)' => Pending(u) \/ \E p \in P : Closes(p, u)
  BY <1>1, PendingKept
<1>3. \A p \in P : Handles(p) /\ Describes(p)'
  BY DEF Handles, Describes, PendingOps
<1>4. Placed'
  BY <1>2, <1>3, PlacedKept DEF Carried
<1>5. Described'
  BY <1>1, <1>3, DescribedKept
<1>6. QED
  BY <1>4, <1>5

LEMMA QuietOne ==
    ASSUME StoredInv, Placed, Described, NEW p \in Procs, \A q \in Procs \ {p} : FinalKept(q),
           job'[p].op \notin Assembly \cup PendingOps \cup {"store"},
           \A u \in Uploads : disk'[u][Final] = "part" => disk[u][Final] = "part",
           FilesGoOn, queue' = queue, completes' = completes
    PROVE  Placed' /\ Described'
<1> DEFINE P == {p}
<1>1. /\ P \subseteq Procs /\ \A r, q \in P : r = q
      /\ \A q \in Procs \ P : FinalKept(q)
      /\ \A q \in P : job'[q].op \notin Assembly \cup PendingOps \cup {"store"}
  OBVIOUS
<1> HIDE DEF P
<1>2. QED
  BY <1>1, QuietWhole

LEMMA FilesUnchanged == Described /\ files' = files => FilesGoOn
BY DEF Described, WholeFiles, FilesGoOn

\* Only a chunk is opened or removed: no one loses the assembled file.
LEMMA CutChunk ==
    ASSUME StoredInv, NEW u, NEW c \in Chunks, NEW q \in Procs, job'[q] = Cut(job, u, {c})[q]
    PROVE  FinalKept(q)
<1>1. job \in [Procs -> Job] /\ c # Final
  BY DEF StoredInv, TypeOK, Chunks, Final
<1>2. Same(job[q], job'[q]) /\ (job[q].good /\ ~job'[q].good => Holds(job[q], u, c))
  BY <1>1, CutType
<1>3. QED
  BY <1>1, <1>2 DEF FinalKept, Holds

LEMMA RemovedFinal ==
    ASSUME StoredInv, NEW U, NEW jobs \in [Procs -> Job], RemoveDirs(U, jobs), NEW q \in Procs, jobs[q] = job[q]
    PROVE  FinalKept(q)
<1>1. job[q] \in Job /\ job[q].u \in Uploads /\ Final \in 0 .. NumChunks
  BY NumChunksAssumption DEF StoredInv, TypeOK, Job, Final
<1>2. job'[q] = IF job[q].op \in {"write", "read", "drop"} /\ job[q].u \in U
                THEN [job[q] EXCEPT !.good = FALSE] ELSE job[q]
  BY DEF RemoveDirs
<1>3. job[q].u \in U => disk'[job[q].u][Final] = "none"
  BY <1>1 DEF RemoveDirs
<1>4. QED
  BY <1>1, <1>2, <1>3 DEF FinalKept, Same, Job

\* The chunks of an upload.
LEMMA ChunkWhole ==
    ASSUME StoredInv, Placed, Described, NEW p \in Clients, OpenChunk(p) \/ WriteChunk(p)
    PROVE  Placed' /\ Described'
<1> DEFINE u == job[p].u
           c == job[p].c
<1>1. /\ TypeOK /\ p \in Procs /\ job \in [Procs -> Job] /\ u \in Uploads /\ c \in Chunks
      /\ Chunks \subseteq 0 .. NumChunks /\ Final \in 0 .. NumChunks /\ c # Final
  BY NumChunksAssumption
  DEF StoredInv, TypeOK, Procs, Carries, OpenChunk, WriteChunk, At, ChunkOps, Job, Chunks, Final
<1>2. files' = files /\ queue' = queue /\ completes' = completes
  BY DEF OpenChunk, WriteChunk, Open, Reads, stored
<1>3. disk' = disk \/ \E d \in Part : disk' = [disk EXCEPT ![u][c] = d]
  BY DEF OpenChunk, WriteChunk, Open, Reads, onDisk, Part, Written
<1>4. \A v \in Uploads : disk'[v][Final] = disk[v][Final]
  <2>1. ASSUME NEW d \in Part, disk' = [disk EXCEPT ![u][c] = d]
        PROVE  \A v \in Uploads : disk'[v][Final] = disk[v][Final]
    BY <1>1, <2>1 DEF TypeOK
  <2>2. QED
    BY <1>3, <2>1
<1>5. \A q \in Procs \ {p} : job'[q] = job[q] \/ job'[q] = Cut(job, u, {c})[q]
  BY <1>1 DEF OpenChunk, WriteChunk, Open, Stop, To, Cut
<1>6. \A q \in Procs \ {p} : FinalKept(q)
  <2>1. \A q \in Procs : job'[q] = job[q] => FinalKept(q)
    BY DEF FinalKept, Same
  <2>2. QED
    BY <1>1, <1>5, <2>1, CutChunk
<1>7. job'[p].op \in {"idle", "write", "receive"}
  <2>1. CASE Stop(p)
    BY <1>1, <2>1, StopStored
  <2>2. CASE Open(p, c, "write")
    BY <1>1, <2>2, CutType DEF Open, Job
  <2>3. CASE To(p, "receive")
    BY <1>1, <2>3, ToType DEF Ops
  <2>4. CASE job' = [Cut(job, u, {c}) EXCEPT ![p] = NoJob]
    BY <1>1, <2>4, CutType, NoJobType
  <2>5. QED
    BY <2>1, <2>2, <2>3, <2>4 DEF OpenChunk, WriteChunk
<1>8. QED
  BY <1>1, <1>2, <1>4, <1>6, <1>7, FilesUnchanged, QuietOne DEF Assembly, PendingOps

\* A request that starts or stops, or a worker that is done.
LEMMA PauseWhole ==
    ASSUME StoredInv, Placed, Described, NEW p \in Procs, \A q \in Procs \ {p} : job'[q] = job[q],
           job'[p].op \notin Assembly \cup PendingOps \cup {"store"},
           disk' = disk, files' = files, queue' = queue, completes' = completes
    PROVE  Placed' /\ Described'
<1>1. \A q \in Procs \ {p} : FinalKept(q)
  BY DEF FinalKept, Same
<1>2. QED
  BY <1>1, FilesUnchanged, QuietOne

LEMMA OwnWhole ==
    ASSUME StoredInv, Placed, Described, NEW p \in Clients,
           \/ ReceiveChunk(p) \/ Resumed(p) \/ FailUpload(p) \/ UpdateSession(p)
           \/ \E u \in Chunked : ResumeUpload(p, u) \/ \E c \in Chunks : UploadChunk(p, u, c)
    PROVE  Placed' /\ Described'
<1>1. TypeOK /\ p \in Procs /\ Chunked \subseteq Uploads
  BY DEF StoredInv, Procs, Uploads
<1>2. CASE ReceiveChunk(p) \/ Resumed(p) \/ FailUpload(p) \/ UpdateSession(p)
  <2>1. job'[p].op = "idle" /\ \A q \in Procs \ {p} : job'[q] = job[q]
    BY <1>1, <1>2, StopStored DEF ReceiveChunk, Resumed, FailUpload, UpdateSession
  <2>2. disk' = disk /\ files' = files /\ queue' = queue /\ completes' = completes
    BY <1>2 DEF ReceiveChunk, Resumed, FailUpload, UpdateSession, SetStatus, SetSession, SetSessions, onDisk
  <2>3. QED
    BY <1>1, <2>1, <2>2, PauseWhole DEF Assembly, PendingOps
<1>3. ASSUME NEW u \in Chunked, ResumeUpload(p, u)
      PROVE  Placed' /\ Described'
  <2>1. job'[p].op = "resume" /\ \A q \in Procs \ {p} : job'[q] = job[q]
    BY <1>1, <1>3, Started DEF ResumeUpload, Ops
  <2>2. disk' = disk /\ files' = files /\ queue' = queue /\ completes' = completes
    BY <1>3 DEF ResumeUpload, Reads, onDisk, stored
  <2>3. QED
    BY <1>1, <2>1, <2>2, PauseWhole DEF Assembly, PendingOps
<1>4. ASSUME NEW u \in Chunked, NEW c \in Chunks, UploadChunk(p, u, c)
      PROVE  Placed' /\ Described'
  <2> DEFINE k == [NewJob("open", u) EXCEPT !.c = c]
  <2>1. k.op = "open" /\ job' = [job EXCEPT ![p] = k]
    BY <1>4 DEF UploadChunk, Start, NewJob
  <2> HIDE DEF k
  <2>2. job'[p].op = "open" /\ \A q \in Procs \ {p} : job'[q] = job[q]
    BY <1>1, <2>1 DEF TypeOK
  <2>3. disk' = disk /\ files' = files /\ queue' = queue /\ completes' = completes
    BY <1>4 DEF UploadChunk, Reads, onDisk, stored
  <2>4. QED
    BY <1>1, <2>2, <2>3, PauseWhole DEF Assembly, PendingOps
<1>5. QED
  BY <1>2, <1>3, <1>4

\* A directory is removed, with the file that someone may be assembling.
LEMMA RemoveWhole ==
    ASSUME StoredInv, Placed, Described, Sweep \/ \E p \in Procs : RemoveUploadDir(p)
    PROVE  Placed' /\ Described'
<1>1. TypeOK /\ job \in [Procs -> Job] /\ files' = files /\ queue' = queue /\ completes' = completes
  BY DEF StoredInv, TypeOK, Sweep, RemoveUploadDir, stored
<1>2. Final \in 0 .. NumChunks
  BY NumChunksAssumption DEF Final
<1>3. CASE Sweep
  <2>1. RemoveDirs(Stale, job)
    BY <1>3 DEF Sweep
  <2>2. \A q \in Procs : FinalKept(q)
    BY <1>1, <2>1, RemovedFinal
  <2>3. \A u \in Uploads : disk'[u][Final] = "part" => disk[u][Final] = "part"
    BY <1>2, <2>1, RemovedDisk
  <2> DEFINE P == {}
  <2>4. /\ P \subseteq Procs /\ (\A p, q \in P : p = q) /\ (\A q \in Procs \ P : FinalKept(q))
        /\ \A p \in P : job'[p].op \notin Assembly \cup PendingOps \cup {"store"}
    BY <2>2
  <2>5. FilesGoOn
    BY <1>1, FilesUnchanged
  <2> HIDE DEF P
  <2>6. QED
    BY <1>1, <2>3, <2>4, <2>5, QuietWhole
<1>4. ASSUME NEW p \in Procs, RemoveUploadDir(p)
      PROVE  Placed' /\ Described'
  <2> DEFINE next == IF p \in Clients /\ job[p].u \in Chunked THEN [job[p] EXCEPT !.op = "session"] ELSE NoJob
             jobs == [job EXCEPT ![p] = next]
  <2>1. job[p] \in Job /\ RemoveDirs({job[p].u}, jobs)
    BY <1>1, <1>4 DEF RemoveUploadDir
  <2>2. next \in Job /\ next.op \in {"idle", "session"}
    BY <2>1, NoJobType DEF Job, Ops
  <2> HIDE DEF next
  <2>3. jobs \in [Procs -> Job] /\ jobs[p] = next /\ \A q \in Procs \ {p} : jobs[q] = job[q]
    BY <1>1, <2>2
  <2> HIDE DEF jobs
  <2>4. \A q \in Procs \ {p} : FinalKept(q)
    BY <1>1, <2>1, <2>3, RemovedFinal
  <2>5. job'[p] = next
    BY <2>1, <2>2, <2>3 DEF RemoveDirs
  <2>6. \A u \in Uploads : disk'[u][Final] = "part" => disk[u][Final] = "part"
    BY <1>2, <2>1, RemovedDisk
  <2>7. QED
    BY <1>1, <2>2, <2>4, <2>5, <2>6, FilesUnchanged, QuietOne DEF Assembly, PendingOps
<1>5. QED
  BY <1>3, <1>4

\* A step of p, whatever it does with its own upload.
LEMMA OneWhole ==
    ASSUME StoredInv, Placed, Described, NEW p \in Procs, \A q \in Procs \ {p} : FinalKept(q),
           Handles(p), Describes(p)', FilesGoOn, completes' = completes,
           job'[p].op \in PendingOps =>
              \/ job[p].op \in PendingOps /\ job'[p].u = job[p].u
              \/ \E i \in DOMAIN queue : queue[i].u = job'[p].u
              \/ Closes(p, job'[p].u),
           \A i \in DOMAIN queue' :
              \/ \E k \in DOMAIN queue : queue'[i] = queue[k]
              \/ /\ job[p].op \in PendingOps /\ job[p].u = queue'[i].u
                 /\ files'[queue'[i].f].content = Content[queue'[i].u],
           \A u \in Uploads : disk'[u][Final] = "part" => disk[u][Final] = "part" \/ Truncates(p, u)
    PROVE  Placed' /\ Described'
<1> DEFINE P == {p}
<1>1. P \subseteq Procs /\ (\A r, q \in P : r = q) /\ (\A q \in P : Handles(q) /\ Describes(q)') /\ p \in P
  OBVIOUS
<1>2. \A q \in Procs \ P : FinalKept(q) /\ Same(job[q], job'[q])
  BY DEF FinalKept
<1>3. \A q \in P : job'[q].op \in PendingOps =>
         \/ job[q].op \in PendingOps /\ job'[q].u = job[q].u
         \/ \E i \in DOMAIN queue : queue[i].u = job'[q].u
         \/ Closes(q, job'[q].u)
  OBVIOUS
<1> HIDE DEF P
<1>4. \A i \in DOMAIN queue' :
         \/ \E k \in DOMAIN queue : queue'[i].u = queue[k].u
         \/ \E q \in P : job[q].op \in PendingOps /\ job[q].u = queue'[i].u
  BY <1>1
<1>5. \A u \in Uploads : Pending(u)' => Pending(u) \/ \E q \in P : Closes(q, u)
  BY <1>1, <1>2, <1>3, <1>4, PendingKept
<1>6. Placed'
  BY <1>1, <1>2, <1>5, PlacedKept DEF Carried
<1>7. Described'
  BY <1>1, <1>2, DescribedKept
<1>8. QED
  BY <1>6, <1>7

\* The assembly is accepted, and its file opened.
LEMMA AcceptWhole ==
    ASSUME StoredInv, Placed, Described, NEW p \in Clients, Accept(p)
    PROVE  Placed' /\ Described'
<1>1. TypeOK /\ p \in Procs
  BY DEF StoredInv, Procs
<1>2. /\ job[p].op = "accept" /\ job'[p].op = "final" /\ job'[p].u = job[p].u /\ job'[p].good = job[p].good
      /\ job'[p].short = job[p].short /\ \A q \in Procs \ {p} : job'[q] = job[q]
  BY <1>1, ToType DEF Accept, At, Ops
<1>3. disk' = disk /\ files' = files /\ queue' = queue /\ completes' = completes
  BY DEF Accept, SetStatus, SetSession, SetSessions, onDisk
<1>4. Assembles(p) /\ Describes(p)
  BY <1>1 DEF Placed, Described
<1>5. \A q \in Procs \ {p} : FinalKept(q)
  BY <1>2 DEF FinalKept, Same
<1>6. Handles(p) /\ Describes(p)'
  BY <1>2, <1>4 DEF Handles, Assembles, Describes, Assembly
<1>7. QED
  BY <1>1, <1>2, <1>3, <1>5, <1>6, FilesUnchanged, OneWhole DEF PendingOps

LEMMA OpenFinalWhole ==
    ASSUME StoredInv, Placed, Described, NEW p \in Clients, OpenFinal(p)
    PROVE  Placed' /\ Described'
<1> DEFINE u == job[p].u
<1>1. /\ TypeOK /\ p \in Procs /\ job \in [Procs -> Job] /\ job[p].op = "final" /\ u \in Uploads
      /\ Assembles(p) /\ Describes(p) /\ Final \in 0 .. NumChunks /\ u \in Chunked
  BY NumChunksAssumption DEF StoredInv, TypeOK, Procs, Job, OpenFinal, At, Placed, Described, Final, Carries, Assembly
<1>2. files' = files /\ queue' = queue /\ completes' = completes
  BY DEF OpenFinal, Open, Reads, stored
<1>3. CASE To(p, "fail") /\ Reads
  <2>1. job'[p].op = "fail" /\ \A q \in Procs \ {p} : job'[q] = job[q]
    BY <1>1, <1>3, ToType DEF Ops
  <2>2. disk' = disk
    BY <1>3 DEF Reads, onDisk
  <2>3. QED
    BY <1>1, <1>2, <2>1, <2>2, PauseWhole DEF Assembly, PendingOps
<1>4. CASE Open(p, Final, "read")
  <2>1. job'[p].op = "read" /\ job'[p].u = u
    BY <1>1, <1>4, OpenStored
  <2>2. \A q \in Procs : ~Holds(job[q], u, Final)
    <3>1. \A q \in Procs : job[q].op = "write" => job[q].c # Final
      BY DEF StoredInv, Carries, ChunkOps, Chunks, Final
    <3>2. \A q \in Procs : job[q].op \in {"read", "drop"} => job[q].u # u
      BY <1>1 DEF Assembles, Assembly
    <3>3. QED
      BY <3>1, <3>2 DEF Holds
  <2>3. Cut(job, u, {Final}) = job
    BY <1>1, <2>2 DEF Cut
  <2>4. /\ job' = [job EXCEPT ![p].op = "read", ![p].c = 1]
        /\ disk' = [disk EXCEPT ![u][Final] = "part"]
    BY <1>4, <2>3 DEF Open
  <2>5. job'[p].good = job[p].good /\ job'[p].short = job[p].short /\ \A q \in Procs \ {p} : job'[q] = job[q]
    BY <1>1, <2>4 DEF Job
  <2>6. \A v \in Uploads : disk'[v][Final] = "part" => disk[v][Final] = "part" \/ Truncates(p, v)
    BY <1>1, <2>4 DEF TypeOK, Truncates
  <2>7. Handles(p) /\ Describes(p)'
    BY <1>1, <2>1, <2>5 DEF Handles, Assembles, Describes, Assembly
  <2>8. \A q \in Procs \ {p} : FinalKept(q)
    BY <2>5 DEF FinalKept, Same
  <2>9. QED
    BY <1>1, <1>2, <2>1, <2>6, <2>7, <2>8, FilesUnchanged, OneWhole DEF PendingOps
<1>5. QED
  BY <1>3, <1>4 DEF OpenFinal

\* No chunk is read short, and the file is whole when it is closed.
LEMMA ReadWhole ==
    ASSUME StoredInv, ChunksInv, Placed, Described, NEW p \in Clients, ReadChunk(p)
    PROVE  Placed' /\ Described'
<1>1. /\ TypeOK /\ p \in Procs /\ job \in [Procs -> Job] /\ job[p] \in Job /\ job[p].op = "read"
      /\ job[p].c \in Chunks /\ Assembles(p) /\ Describes(p)
  BY DEF StoredInv, TypeOK, Procs, ReadChunk, At, Placed, Described, Carries
<1>2. disk' = disk /\ files' = files /\ queue' = queue /\ completes' = completes
  BY DEF ReadChunk, Reads, onDisk, stored
<1>3. CASE To(p, "fail")
  <2>1. job'[p].op = "fail" /\ \A q \in Procs \ {p} : job'[q] = job[q]
    BY <1>1, <1>3, ToType DEF Ops
  <2>2. QED
    BY <1>1, <1>2, <2>1, PauseWhole DEF Assembly, PendingOps
<1>4. CASE ~To(p, "fail")
  <2> DEFINE k == [job[p] EXCEPT !.op = "drop", !.short = @ \/ disk[job[p].u][job[p].c] = "part"]
  <2>1. disk[job[p].u][job[p].c] # "part" /\ ~job[p].short
    BY <1>1 DEF ChunksInv, Describes, Assembly
  <2>2. k \in Job /\ k.op = "drop" /\ k.u = job[p].u /\ k.good = job[p].good /\ ~k.short
    BY <1>1, <2>1 DEF Job, Ops
  <2>3. job' = [job EXCEPT ![p] = k]
    BY <1>4 DEF ReadChunk
  <2> HIDE DEF k
  <2>4. job'[p] = k /\ \A q \in Procs \ {p} : job'[q] = job[q]
    BY <1>1, <2>2, <2>3, BecomesType
  <2>5. Handles(p) /\ Describes(p)'
    BY <1>1, <1>2, <2>2, <2>4 DEF Handles, Assembles, Describes, Assembly
  <2>6. \A q \in Procs \ {p} : FinalKept(q)
    BY <2>4 DEF FinalKept, Same
  <2>7. QED
    BY <1>1, <1>2, <2>2, <2>4, <2>5, <2>6, FilesUnchanged, OneWhole DEF PendingOps
<1>5. QED
  BY <1>3, <1>4

LEMMA DropWhole ==
    ASSUME StoredInv, Placed, Described, NEW p \in Clients, DropChunk(p)
    PROVE  Placed' /\ Described'
<1> DEFINE u == job[p].u
           c == job[p].c
           cut == Cut(job, u, {c})
           d == IF c = NumChunks /\ job[p].good /\ ~job[p].short THEN "full" ELSE disk[u][Final]
<1>1. /\ TypeOK /\ p \in Procs /\ job \in [Procs -> Job] /\ job[p] \in Job /\ job[p].op = "drop" /\ u \in Uploads
      /\ c \in Chunks /\ Assembles(p) /\ Describes(p)
  BY DEF StoredInv, TypeOK, Procs, DropChunk, At, Placed, Described, Carries, Job
<1>2. files' = files /\ queue' = queue /\ completes' = completes
  BY DEF DropChunk, stored
<1>3. /\ Chunks \subseteq 0 .. NumChunks /\ Final \in 0 .. NumChunks /\ c # Final
  BY <1>1, NumChunksAssumption DEF Chunks, Final
<1>4. disk' = [disk EXCEPT ![u][c] = "none", ![u][Final] = d]
  BY <1>1, <1>3 DEF DropChunk, TypeOK
<1>5. \A v \in Uploads : disk'[v][Final] = IF v = u THEN d ELSE disk[v][Final]
  BY <1>1, <1>3, <1>4 DEF TypeOK
<1>6. cut[p] = job[p]
  BY <1>1, <1>3 DEF Cut, Holds
<1>7. \A q \in Procs \ {p} : job'[q] = cut[q]
  BY <1>1 DEF DropChunk, Cut
<1>8. \A q \in Procs \ {p} : FinalKept(q)
  BY <1>1, <1>7, CutChunk
<1>9. /\ job'[p].op \in {"lookup", "read"} /\ job'[p].u = u /\ job'[p].good = job[p].good
      /\ job'[p].short = job[p].short /\ (job'[p].op = "lookup" => c = NumChunks)
  BY <1>1, <1>6, CutType DEF DropChunk, Job
<1>10. (job[p].good \/ disk[u][Final] # "part") /\ ~job[p].short
  BY <1>1 DEF Assembles, Describes, Assembly
<1>11. job'[p].op = "lookup" => Closes(p, u)
  BY <1>1, <1>5, <1>9, <1>10 DEF Closes
<1>12. disk'[u][Final] = "part" => disk[u][Final] = "part"
  BY <1>1, <1>5
<1>13. Handles(p) /\ Describes(p)'
  BY <1>1, <1>9, <1>10, <1>12, <1>5 DEF Handles, Describes, Assembly
<1>14. QED
  BY <1>1, <1>2, <1>5, <1>8, <1>9, <1>11, <1>12, <1>13, FilesUnchanged, OneWhole DEF PendingOps

(***************************************************************************)
(* The record of an assembled file, its task, and its message.             *)
(***************************************************************************)
LEMMA LookupWhole ==
    ASSUME StoredInv, Placed, Described, NEW p \in Clients, Lookup(p)
    PROVE  Placed' /\ Described'
<1>1. p \in Procs /\ Describes(p) /\ job[p].op = "lookup"
  BY DEF Procs, Described, Lookup, At
<1>2. disk' = disk /\ files' = files /\ queue' = queue /\ completes' = completes
  BY DEF Lookup, Reads, onDisk, stored
<1>3. job'[p].op = "record" /\ job'[p].u = job[p].u /\ ~job'[p].short /\ \A q \in Procs \ {p} : job'[q] = job[q]
  BY <1>1, LookupBecomes DEF Describes
<1>4. job'[p].msg \in {"none", Content[job[p].u]}
  BY <1>1, LookupBecomes DEF Describes, Described, WholeFiles, Hashed
<1>5. Describes(p)' /\ Handles(p)
  BY <1>3, <1>4 DEF Describes, Handles, Assembly
<1>6. \A q \in Procs \ {p} : FinalKept(q)
  BY <1>3 DEF FinalKept, Same
<1>7. QED
  BY <1>1, <1>2, <1>3, <1>5, <1>6, FilesUnchanged, OneWhole DEF PendingOps

LEMMA RecordWhole ==
    ASSUME StoredInv, Placed, Described, NEW p \in Clients, RecordFile(p)
    PROVE  Placed' /\ Described'
<1> DEFINE j == job[p]
           doc == [content |-> Hashed(j), msg |-> j.msg, status |-> IF j.msg = "none" THEN "uploading" ELSE "completed"]
<1>1. /\ TypeOK /\ p \in Procs /\ j \in Job /\ j.u \in Uploads /\ files \in Seq(FileDoc) /\ j.op = "record"
      /\ Describes(p)
  BY DEF StoredInv, TypeOK, Procs, Job, RecordFile, At, Described
<1>2. doc.content = Content[j.u] /\ doc.content \in Contents /\ doc.msg \in {"none", doc.content}
  BY <1>1, ContentAssumption DEF Describes, Hashed, Uploads
<1>3. doc \in FileDoc
  BY <1>1, <1>2 DEF FileDoc, Held, Job
<1>4. files' = Append(files, doc) /\ disk' = disk /\ queue' = queue /\ completes' = completes
  BY DEF RecordFile, Saves, Inserted, onDisk
<1> HIDE DEF doc
<1>5. /\ DOMAIN files = 1 .. Len(files) /\ Len(files) \in Nat /\ DOMAIN files' = 1 .. Len(files) + 1
      /\ \A i \in 1 .. Len(files) : files'[i] = files[i]
      /\ files'[Len(files) + 1] = doc
  BY <1>1, <1>3, <1>4
<1>6. FilesGoOn
  BY <1>2, <1>5 DEF FilesGoOn, WholeFiles, Described
<1>7. /\ job'[p].op \in {"rmtree", "enqueue"} /\ job'[p].u = j.u /\ job'[p].f = Len(files) + 1
      /\ \A q \in Procs \ {p} : job'[q] = job[q]
  BY <1>1, RecordBecomes
<1>8. Describes(p)' /\ Handles(p)
  BY <1>2, <1>5, <1>7 DEF Describes, Handles, Assembly
<1>9. \A q \in Procs \ {p} : FinalKept(q)
  BY <1>7 DEF FinalKept, Same
<1>10. QED
  BY <1>1, <1>4, <1>6, <1>7, <1>8, <1>9, OneWhole DEF PendingOps

LEMMA EnqueueWhole ==
    ASSUME StoredInv, Placed, Described, NEW p \in Clients, Enqueue(p)
    PROVE  Placed' /\ Described'
<1> DEFINE task == [u |-> job[p].u, f |-> job[p].f]
<1>1. /\ TypeOK /\ p \in Procs /\ queue \in Seq([u : Uploads, f : DOMAIN files]) /\ job[p] \in Job
      /\ job[p].op = "enqueue" /\ Describes(p) /\ job[p].f \in DOMAIN files
  BY DEF StoredInv, TypeOK, Procs, Enqueue, At, Described, Carries
<1>2. disk' = disk /\ files' = files /\ queue' = Append(queue, task) /\ completes' = completes
  BY DEF Enqueue, onDisk
<1>3. job'[p].op = "session" /\ \A q \in Procs \ {p} : job'[q] = job[q]
  BY <1>1, ToType DEF Enqueue, Ops
<1>4. task.u = job[p].u /\ task.f = job[p].f /\ task \in [u : Uploads, f : DOMAIN files]
  BY <1>1 DEF Job
<1> HIDE DEF task
<1>5. /\ DOMAIN queue = 1 .. Len(queue) /\ Len(queue) \in Nat /\ DOMAIN queue' = 1 .. Len(queue) + 1
      /\ \A i \in 1 .. Len(queue) : queue'[i] = queue[i]
      /\ queue'[Len(queue) + 1] = task
  BY <1>1, <1>2, <1>4
<1>6. files[job[p].f].content = Content[job[p].u]
  BY <1>1 DEF Describes
<1>7. \A i \in DOMAIN queue' :
         \/ \E k \in DOMAIN queue : queue'[i] = queue[k]
         \/ queue'[i] = task
  BY <1>5
<1>8. Describes(p)' /\ Handles(p)
  BY <1>3 DEF Describes, Handles, Assembly
<1>9. \A q \in Procs \ {p} : FinalKept(q)
  BY <1>3 DEF FinalKept, Same
<1>10. QED
  BY <1>1, <1>2, <1>3, <1>4, <1>6, <1>7, <1>8, <1>9, FilesUnchanged, OneWhole DEF PendingOps

LEMMA TakeWhole ==
    ASSUME StoredInv, Placed, Described, NEW p \in Workers, Take(p)
    PROVE  Placed' /\ Described'
<1> DEFINE k == [NewJob("send", Head(queue).u) EXCEPT !.f = Head(queue).f]
<1>1. TypeOK /\ p \in Procs /\ queue \in Seq([u : Uploads, f : DOMAIN files])
  BY DEF StoredInv, TypeOK, Procs
<1>2. /\ DOMAIN queue' = 1 .. Len(queue) - 1 /\ Len(queue) \in Nat \ {0} /\ DOMAIN queue = 1 .. Len(queue)
      /\ \A i \in 1 .. Len(queue) - 1 : queue'[i] = queue[i + 1]
      /\ Head(queue) = queue[1] /\ 1 \in DOMAIN queue
  BY <1>1 DEF Take
<1>3. disk' = disk /\ files' = files /\ completes' = completes
  BY DEF Take, onDisk
<1>4. k.op = "send" /\ k.u = Head(queue).u /\ k.f = Head(queue).f /\ job' = [job EXCEPT ![p] = k]
  BY DEF Take, Start, NewJob
<1> HIDE DEF k
<1>5. job'[p] = k /\ \A q \in Procs \ {p} : job'[q] = job[q]
  BY <1>1, <1>4 DEF TypeOK
<1>6. files[k.f].content = Content[k.u] /\ \E i \in DOMAIN queue : queue[i].u = k.u
  BY <1>2, <1>4 DEF Described
<1>7. \A i \in DOMAIN queue' : \E h \in DOMAIN queue : queue'[i] = queue[h]
  <2>1. \A i \in DOMAIN queue' : i + 1 \in DOMAIN queue
    BY <1>2
  <2>2. QED
    BY <1>2, <2>1
<1>8. Describes(p)' /\ Handles(p)
  BY <1>3, <1>4, <1>5, <1>6 DEF Describes, Handles, Assembly
<1>9. \A q \in Procs \ {p} : FinalKept(q)
  BY <1>5 DEF FinalKept, Same
<1>10. QED
  BY <1>1, <1>3, <1>4, <1>5, <1>6, <1>7, <1>8, <1>9, FilesUnchanged, OneWhole DEF PendingOps

\* What is pending is whole, and that is what is sent.
LEMMA SendWhole ==
    ASSUME StoredInv, Placed, Described, NEW p \in Workers, Send(p)
    PROVE  Placed' /\ Described'
<1>1. p \in Procs /\ Describes(p) /\ job[p].op = "send" /\ job[p].u \in Uploads /\ job[p].f \in DOMAIN files
  BY DEF StoredInv, TypeOK, Procs, Described, Send, At, Carries, Sending, Job
<1>2. disk' = disk /\ files' = files /\ queue' = queue /\ completes' = completes
  BY DEF Send, Reads, onDisk, stored
<1>3. disk[job[p].u][Final] \in {"none", "full"}
  <2>1. disk[job[p].u][Final] \in Part
    BY <1>1, NumChunksAssumption DEF StoredInv, TypeOK, Final
  <2>2. Pending(job[p].u)
    BY <1>1 DEF Pending, PendingOps
  <2>3. QED
    BY <1>1, <2>1, <2>2 DEF Placed, Part
<1>4. /\ job'[p].u = job[p].u /\ job'[p].f = job[p].f /\ job'[p].op \in {"store", "sendFailed"}
      /\ job'[p].op = "store" => job'[p].msg = Content[job[p].u]
      /\ \A q \in Procs \ {p} : job'[q] = job[q]
  BY <1>3, SendBecomes
<1>5. Describes(p)' /\ Handles(p)
  BY <1>1, <1>2, <1>4 DEF Describes, Handles, Assembly
<1>6. \A q \in Procs \ {p} : FinalKept(q)
  BY <1>4 DEF FinalKept, Same
<1>7. QED
  BY <1>1, <1>2, <1>4, <1>5, <1>6, FilesUnchanged, OneWhole DEF PendingOps

\* The message of a record is the content it describes.
LEMMA SaveWhole ==
    ASSUME StoredInv, Placed, Described, NEW p \in Workers, Store(p) \/ SendFailed(p) \/ Notify(p)
    PROVE  Placed' /\ Described'
<1> DEFINE f == job[p].f
<1>1. /\ TypeOK /\ p \in Procs /\ Describes(p) /\ f \in DOMAIN files /\ files \in Seq(FileDoc)
      /\ \A i \in DOMAIN files : files[i] \in FileDoc
  BY FilesTyped DEF StoredInv, TypeOK, Procs, Described, Store, SendFailed, Notify, At, Carries, Sending
<1>2. disk' = disk /\ queue' = queue /\ completes' = completes
  BY DEF Store, SendFailed, Notify, Saves, SetSessions, onDisk
<1>3. job'[p].op \in {"notify", "rmtree"} /\ \A q \in Procs \ {p} : job'[q] = job[q]
  BY <1>1, ToType DEF Store, SendFailed, Notify, Ops
<1>4. FilesGoOn
  <2>1. CASE Notify(p)
    BY <2>1, FilesUnchanged DEF Notify, SetSessions
  <2>2. CASE Store(p)
    <3>1. job[p].msg = files[f].content /\ files' = Stored(f, job[p].msg)
      BY <1>1, <2>2 DEF Describes, Store, Saves, At
    <3>2. /\ DOMAIN files' = DOMAIN files /\ \A i \in DOMAIN files : files'[i].content = files[i].content
          /\ files'[f].msg = files[f].content
          /\ \A i \in DOMAIN files \ {f} : files'[i] = files[i]
      BY <1>1, <3>1 DEF Stored, FileDoc
    <3>3. QED
      BY <1>1, <3>2 DEF FilesGoOn, WholeFiles, Described
  <2>3. CASE SendFailed(p)
    <3>1. files' = [files EXCEPT ![f].status = "failed"]
      BY <2>3 DEF SendFailed, Saves
    <3>2. /\ DOMAIN files' = DOMAIN files
          /\ \A i \in DOMAIN files : files'[i].content = files[i].content /\ files'[i].msg = files[i].msg
      BY <1>1, <3>1 DEF FileDoc
    <3>3. QED
      BY <3>2 DEF FilesGoOn, WholeFiles, Described
  <2>4. QED
    BY <2>1, <2>2, <2>3
<1>5. \A q \in Procs \ {p} : FinalKept(q)
  BY <1>3 DEF FinalKept, Same
<1>6. QED
  BY <1>1, <1>2, <1>3, <1>4, <1>5, QuietOne DEF Assembly, PendingOps

(***************************************************************************)
(* The requests that begin, restarts and time.                             *)
(***************************************************************************)
\* The first request to complete an upload finds no other assembling it.
LEMMA CompleteWhole ==
    ASSUME StoredInv, Placed, Described, NEW p \in Clients, NEW u \in Chunked, CompleteUpload(p, u),
           completes'[u] <= 1
    PROVE  Placed' /\ Described'
<1>1. TypeOK /\ p \in Procs /\ u \in Uploads /\ completes \in [Uploads -> Nat]
  BY DEF StoredInv, TypeOK, Procs, Uploads
<1>2. /\ job'[p].op = "accept" /\ job'[p].u = u /\ ~job'[p].short /\ job'[p].good
      /\ \A q \in Procs \ {p} : job'[q] = job[q]
  <2>1. Start(p, NewJob("accept", u))
    BY DEF CompleteUpload
  <2>2. NewJob("accept", u).good /\ ~NewJob("accept", u).short
    BY DEF NewJob
  <2>3. "accept" \in Ops
    BY DEF Ops
  <2>4. QED
    BY <1>1, <2>1, <2>2, <2>3, Started
<1>3. disk' = disk /\ files' = files /\ queue' = queue
  BY DEF CompleteUpload, onDisk
<1>4. completes[u] = 0 /\ completes'[u] = 1 /\ \A v \in Uploads \ {u} : completes'[v] = completes[v]
  BY <1>1 DEF CompleteUpload
<1>5. ~Pending(u) /\ \A q \in Procs : job[q].op \in Assembly => job[q].u # u
  BY <1>1, <1>4 DEF Placed, Assembles
<1>6. \A v \in Uploads : Pending(v)' => Pending(v)
  BY <1>2, <1>3 DEF Pending, PendingOps
<1>7. \A q \in Procs : job'[q].op \in Assembly => (q = p /\ job'[q].u = u) \/ (q # p /\ job'[q] = job[q] /\ job[q].u # u)
  BY <1>2, <1>5
<1>8. ASSUME NEW q \in Procs
      PROVE  Assembles(q)'
  <2>1. CASE q = p
    BY <1>1, <1>2, <1>4, <1>5, <1>6, <1>7, <2>1 DEF Assembles
  <2>2. CASE q # p /\ job'[q].op \in Assembly
    <3>1. /\ job'[q] = job[q] /\ job[q].u # u /\ job[q].u \in Uploads /\ Assembles(q)
      BY <1>1, <1>7, <2>2 DEF Placed, TypeOK, Job
    <3>2. \A r \in Procs : job'[r].op \in Assembly /\ job'[r].u = job[q].u => job'[r] = job[r]
      BY <1>7, <3>1
    <3>3. QED
      BY <1>3, <1>4, <1>6, <2>2, <3>1, <3>2 DEF Assembles
  <2>3. QED
    BY <2>1, <2>2 DEF Assembles
<1>9. Placed'
  BY <1>1, <1>3, <1>4, <1>6, <1>8 DEF Placed
<1>10. Described'
  BY <1>2, <1>3 DEF Described, Describes, WholeFiles
<1>11. QED
  BY <1>9, <1>10

\* A small upload is new, and its file is whole when it is looked up.
LEMMA SmallWhole ==
    ASSUME StoredInv, BegunInv, Placed, Described, NEW p \in Clients, NEW u \in Small, SmallUpload(p, u)
    PROVE  Placed' /\ Described'
<1>1. /\ TypeOK /\ p \in Procs /\ u \in Uploads /\ u \notin Chunked /\ job \in [Procs -> Job]
      /\ disk \in [Uploads -> [0 .. NumChunks -> Part]] /\ Final \in 0 .. NumChunks
  BY UploadsAssumption, NumChunksAssumption DEF StoredInv, TypeOK, Procs, Uploads, Final
<1>2. files' = files /\ queue' = queue /\ completes' = completes
  BY DEF SmallUpload
<1>3. \A q \in Procs : job[q].op \in Assembly => job[q].u # u
  BY <1>1 DEF StoredInv, Carries
<1>4. ~Pending(u)
  BY DEF BegunInv, Pending, PendingOps, SmallUpload
<1>5. \A v \in Uploads \ {u} : disk'[v] = disk[v]
  BY <1>1 DEF SmallUpload
<1>6. /\ \A q \in Procs \ {p} : job'[q] = job[q]
      /\ \/ job'[p] = job[p]
         \/ job'[p].op = "lookup" /\ job'[p].u = u /\ ~job'[p].short /\ disk'[u][Final] = "full"
  <2>1. CASE job' = job
    BY <2>1
  <2>2. CASE disk' = [disk EXCEPT ![u][Final] = "full"] /\ Start(p, NewJob("lookup", u))
    <3>1. job'[p] = NewJob("lookup", u) /\ \A q \in Procs \ {p} : job'[q] = job[q]
      BY <1>1, <2>2, Started DEF Ops
    <3>2. NewJob("lookup", u).op = "lookup" /\ NewJob("lookup", u).u = u /\ ~NewJob("lookup", u).short
      BY DEF NewJob
    <3>3. disk'[u][Final] = "full"
      BY <1>1, <2>2
    <3>4. QED
      BY <3>1, <3>2, <3>3
  <2>3. QED
    BY <2>1, <2>2 DEF SmallUpload
<1>7. \A v \in Uploads : Pending(v)' => Pending(v) \/ (v = u /\ disk'[u][Final] = "full")
  BY <1>2, <1>6 DEF Pending, PendingOps
<1>8. \A q \in Procs : job'[q].op \in Assembly => job'[q] = job[q]
  BY <1>6 DEF Assembly
<1>9. ASSUME NEW q \in Procs, job'[q].op \in Assembly
      PROVE  Assembles(q)'
  <2>1. job'[q] = job[q] /\ job[q].u # u /\ job[q].u \in Uploads /\ Assembles(q)
    BY <1>1, <1>3, <1>8, <1>9 DEF Placed, Job
  <2>2. ~Pending(job[q].u)'
    BY <1>7, <1>9, <2>1 DEF Assembles
  <2>3. QED
    BY <1>2, <1>5, <1>8, <1>9, <2>1, <2>2 DEF Assembles
<1>10. Placed'
  <2>1. \A q \in Procs : Assembles(q)'
    BY <1>9 DEF Assembles
  <2>2. \A v \in Uploads : Pending(v)' => disk'[v][Final] # "part" /\ (v \in Chunked => completes'[v] # 0)
    <3>1. \A v \in Uploads : Pending(v) => v # u
      BY <1>4
    <3>2. QED
      BY <1>1, <1>2, <1>5, <1>7, <3>1 DEF Placed
  <2>3. QED
    BY <2>1, <2>2 DEF Placed
<1>11. Described'
  <2>1. Describes(p)'
    BY <1>1, <1>2, <1>6 DEF Described, Describes, Assembly
  <2>2. \A q \in Procs \ {p} : Describes(q)'
    BY <1>2, <1>6 DEF Described, Describes
  <2>3. QED
    BY <1>2, <2>1, <2>2 DEF Described, WholeFiles
<1>12. QED
  BY <1>10, <1>11

LEMMA RestartWhole == Described /\ Restart => Placed' /\ Described'
<1> SUFFICES ASSUME Described, Restart
             PROVE  Placed' /\ Described'
  OBVIOUS
<1>1. \A p \in Procs : job'[p].op = "idle"
  BY NoJobType DEF Restart
<1>2. queue' = <<>> /\ files' = files
  BY DEF Restart
<1>3. \A u \in Uploads : ~Pending(u)'
  BY <1>1, <1>2 DEF Pending, PendingOps
<1>4. Placed'
  BY <1>1, <1>3 DEF Placed, Assembles, Assembly
<1>5. Described'
  BY <1>1, <1>2 DEF Described, Describes, WholeFiles, Assembly
<1>6. QED
  BY <1>4, <1>5

LEMMA TimeWhole ==
    ASSUME StoredInv, Placed, Described,
           \/ DayPasses
           \/ \E u \in Uploads : Begin(u) \/ PauseUpload(u) \/ SessionExpires(u)
           \/ UNCHANGED vars
    PROVE  Placed' /\ Described'
<1>1. job' = job /\ disk' = disk /\ files' = files /\ queue' = queue /\ completes' = completes
  BY DEF DayPasses, Begin, PauseUpload, SessionExpires, SetStatus, SetSession, SetSessions, onDisk, vars
<1>2. QED
  BY <1>1 DEF Placed, Described, Describes, Assembles, Pending, WholeFiles

LEMMA WholeInit == Init => Placed /\ Described
<1> SUFFICES ASSUME Init
             PROVE  Placed /\ Described
  OBVIOUS
<1>1. (\A p \in Procs : job[p].op = "idle") /\ queue = <<>> /\ files = <<>>
  BY NoJobType DEF Init
<1>2. \A u \in Uploads : ~Pending(u)
  BY <1>1 DEF Pending, PendingOps
<1>3. QED
  BY <1>1, <1>2 DEF Placed, Assembles, Described, Describes, WholeFiles, Assembly

LEMMA StepWhole ==
    ASSUME StoredInv, ChunksInv, Placed, Described, NEW p \in Procs,
           (p \in Clients /\ Step(p)) \/ (p \in Workers /\ WorkerStep(p))
    PROVE  Placed' /\ Described'
BY ChunkWhole, OwnWhole, RemoveWhole, AcceptWhole, OpenFinalWhole, ReadWhole, DropWhole, LookupWhole, RecordWhole,
   EnqueueWhole, TakeWhole, SendWhole, SaveWhole DEF Step, WorkerStep

\* The requests to complete an upload are counted and never forgotten.
LEMMA CompletesCounted == TypeOK /\ [Next]_vars => \A u \in Uploads : completes[u] <= completes'[u]
<1> SUFFICES ASSUME TypeOK, [Next]_vars
             PROVE  \A u \in Uploads : completes[u] <= completes'[u]
  OBVIOUS
<1>1. \A u \in Uploads : completes[u] \in Nat
  BY DEF TypeOK
<1>2. ASSUME NEW p \in Clients, NEW u \in Chunked, CompleteUpload(p, u)
      PROVE  \A v \in Uploads : completes[v] <= completes'[v]
  BY <1>1, <1>2 DEF CompleteUpload, TypeOK
<1>3. CASE completes' = completes
  BY <1>1, <1>3
<1>4. ASSUME NEW p \in Clients, Step(p)
      PROVE  completes' = completes
  BY <1>4 DEF Step, OpenChunk, WriteChunk, OpenFinal, ReadChunk, DropChunk, Lookup, RecordFile, RemoveUploadDir,
     Enqueue, Open, Reads, Saves, stored, ReceiveChunk, Resumed, Accept, FailUpload, UpdateSession, SetStatus,
     SetSession, SetSessions
<1>5. ASSUME NEW w \in Workers, WorkerStep(w)
      PROVE  completes' = completes
  BY <1>5 DEF WorkerStep, Take, Send, Store, Notify, SendFailed, RemoveUploadDir, Reads, Saves, SetSessions, stored
<1>6. ASSUME NEW p \in Clients, Request(p)
      PROVE  completes' = completes \/ \E u \in Chunked : CompleteUpload(p, u)
  BY <1>6 DEF Request, ResumeUpload, UploadChunk, SmallUpload, Reads, stored
<1>7. QED
  BY <1>2, <1>3, <1>4, <1>5, <1>6 DEF Next, Begin, PauseUpload, SessionExpires, SetStatus, SetSession, SetSessions,
     DayPasses, Sweep, Restart, stored, vars

LEMMA WholeNext == StoredInv /\ BegunInv /\ ChunksInv /\ WholeInv /\ [Next]_vars => WholeInv'
<1> SUFFICES ASSUME StoredInv, BegunInv, ChunksInv, WholeInv, [Next]_vars, \A u \in Uploads : completes'[u] <= 1
             PROVE  Placed' /\ Described'
  BY DEF WholeInv
<1>1. Placed /\ Described
  <2>1. \A u \in Uploads : completes[u] <= completes'[u] /\ completes[u] \in Nat /\ completes'[u] \in Nat
    BY CompletesCounted, StoredNext DEF StoredInv, TypeOK
  <2>2. QED
    BY <2>1 DEF WholeInv
<1>2. ASSUME NEW p \in Clients, Request(p)
      PROVE  Placed' /\ Described'
  BY <1>1, <1>2, OwnWhole, CompleteWhole, SmallWhole DEF Request, Uploads
<1>3. ASSUME NEW p \in Procs, (p \in Clients /\ Step(p)) \/ (p \in Workers /\ WorkerStep(p))
      PROVE  Placed' /\ Described'
  BY <1>1, <1>3, StepWhole
<1>4. QED
  BY <1>1, <1>2, <1>3, TimeWhole, RemoveWhole, RestartWhole DEF Next, Procs

\* Clients that send a chunk once and complete an upload once leave only file
\* records that describe the whole of what was sent, with messages that hold
\* exactly that: for any number of uploads and chunks, and whatever is removed
\* or lost while chunks are received, assembled and sent.
THEOREM RecordsAreWhole == ASSUME ~Resend PROVE Spec => []WholeContent
<1>1. Init => StoredInv /\ BegunInv /\ ChunksInv /\ WholeInv
  BY StoredInit, BegunInit, ChunksInit, WholeInit DEF WholeInv
<1>2. StoredInv /\ BegunInv /\ ChunksInv /\ WholeInv /\ [Next]_vars
        => (StoredInv /\ BegunInv /\ ChunksInv /\ WholeInv)'
  BY StoredNext, BegunNext, ChunksNext, WholeNext
<1>3. WholeInv => WholeContent
  BY DEF WholeInv, Described, WholeFiles, WholeContent
<1>4. QED
  BY <1>1, <1>2, <1>3, PTL DEF Spec
=============================================================================
