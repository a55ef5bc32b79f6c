----------------------------- MODULE Downloads -----------------------------
(***************************************************************************)
(* Share links and downloads: shares.py, the stream endpoint of files.py,  *)
(* and the streaming of a Telegram message.  One file, its owner, one      *)
(* share link for it, and the requests of those who hold the link.         *)
(*                                                                         *)
(* A request is a coroutine; job[p].op names the call process p makes      *)
(* next, and an action is that call and the code up to the following one.  *)
(***************************************************************************)
EXTENDS ByteRange

CONSTANTS Procs,      \* request handlers
          FileSize,   \* size_bytes of the file, and the length of its message
          Headers,    \* the Range headers clients send
          Limits,     \* the max_downloads a link may be created with
          MaxEvents,  \* bound: changes made to the file by its owner
          MaxClaims   \* bound: no request comes after that many downloads

NoLimit == 0   \* max_downloads is None; the schema only admits others > 0

\* Telegram does not take an empty file, so no empty file is ever ready.
ASSUME FileSizeAssumption == FileSize \in Nat \ {0}
ASSUME HeadersAssumption == Headers \subseteq Header
ASSUME LimitsAssumption == Limits \subseteq Nat

VARIABLES file,     \* the file: its document, its status, its message
          link,     \* the document of the share link
          expired,  \* whether expires_at of the link has passed
          claims,   \* how many downloads through the link were let through
          job,      \* per process: what it is about to do
          events    \* number of changes to the file

vars == <<file, link, expired, claims, job, events>>

File == [place : {"live", "trashed", "gone"}, ready : BOOLEAN, message : BOOLEAN]

Link == [status : {"none", "active", "inactive", "removed"}, expires : BOOLEAN, limit : Nat, count : Nat]

Ops == {"idle", "create", "deactivate", "file", "claim", "message", "chunk", "done", "broken", "refused"}

\* limit: max_downloads as this request read it; header: its Range; range:
\* the answer of ParseRange; pos: the next byte to send.
Job == [op : Ops, download : BOOLEAN, limit : Nat, header : Header,
        range : [first : Nat, last : Int], pos : Nat]

NoLink == [status |-> "none", expires |-> FALSE, limit |-> NoLimit, count |-> 0]

NoJob == [op |-> "idle", download |-> FALSE, limit |-> NoLimit,
          header |-> [form |-> "whole", a |-> 0, b |-> 0], range |-> NoRange, pos |-> 0]

At(p, op) == job[p].op = op
Idle(p) == job[p].op \in {"idle", "done", "broken", "refused"}
To(p, op) == job' = [job EXCEPT ![p].op = op]
Stop(p) == job' = [job EXCEPT ![p] = NoJob]

\* A call that only reads.
Reads == UNCHANGED <<file, link, expired, claims, events>>

Exhausted(l) == l.limit # NoLimit /\ l.count >= l.limit

\* The answer to a Range header h, once all checks have passed: 416, or job j
\* goes on with its next call.
Serve(p, j, h, next) ==
    LET range == ParseRange(h, FileSize)
    IN  job' = [job EXCEPT ![p] =
            IF range = NoRange THEN [NoJob EXCEPT !.op = "refused", !.header = h]
            ELSE [j EXCEPT !.op = next, !.header = h, !.range = range, !.pos = range.first]]

(***************************************************************************)
(* create_share, revoke_share.                                             *)
(***************************************************************************)
CreateShare(p) ==
    /\ Idle(p)
    /\ link.status = "none"
    /\ file.place = "live"
    /\ job' = [job EXCEPT ![p] = [NoJob EXCEPT !.op = "create"]]
    /\ Reads

\* One link is enough: a second one has a document of its own.
InsertShare(p) ==
    /\ At(p, "create")
    /\ \/ /\ link.status = "none"
          /\ \E limit \in Limits, expires \in BOOLEAN :
               link' = [status |-> "active", expires |-> expires, limit |-> limit, count |-> 0]
       \/ /\ link.status # "none"
          /\ UNCHANGED link
    /\ Stop(p)
    /\ UNCHANGED <<file, expired, claims, events>>

RevokeShare ==
    /\ link.status = "active"
    /\ link' = [link EXCEPT !.status = "inactive"]
    /\ UNCHANGED <<file, expired, claims, job, events>>

(***************************************************************************)
(* access_share, download_shared_file.                                     *)
(***************************************************************************)
\* find_one of the link, and the checks on the document it returned.  A
\* request with a wrong password ends here.
FindShare(p, download, h) ==
    /\ Idle(p)
    /\ claims < MaxClaims
    /\ link.status = "active"
    /\ LET j == [NoJob EXCEPT !.download = download, !.limit = link.limit, !.header = h]
       IN  \/ /\ link.expires /\ expired
              /\ job' = [job EXCEPT ![p] = [j EXCEPT !.op = "deactivate"]]
           \/ /\ ~(link.expires /\ expired)
              /\ ~Exhausted(link)
              /\ job' = [job EXCEPT ![p] = [j EXCEPT !.op = "file"]]
    /\ Reads

Deactivate(p) ==
    /\ At(p, "deactivate")
    /\ link' = IF link.status = "active" THEN [link EXCEPT !.status = "inactive"] ELSE link
    /\ Stop(p)
    /\ UNCHANGED <<file, expired, claims, events>>

\* A preview ends with the file; a download must be able to send it.
FindSharedFile(p) ==
    /\ At(p, "file")
    /\ IF job[p].download /\ file.place = "live" /\ file.ready
         THEN Serve(p, job[p], job[p].header, "claim")
         ELSE Stop(p)
    /\ Reads

\* Mutant of SlotLeft: the limit was checked when the link was read.
SlotUnchecked(limit) == link.status = "active"

\* The filter of the claim, with the limit as the request read it.
SlotLeft(limit) == link.status = "active" /\ (limit # NoLimit => link.count < limit)

\* _claim_download_slot: one find_one_and_update.
ClaimDownloadSlot(p) ==
    /\ At(p, "claim")
    /\ IF SlotLeft(job[p].limit)
         THEN /\ link' = [link EXCEPT !.count = @ + 1]
              /\ claims' = claims + 1
              /\ job' = [job EXCEPT ![p].op = "message", ![p].limit = NoLimit]
         ELSE /\ Stop(p)
              /\ UNCHANGED <<link, claims>>
    /\ UNCHANGED <<file, expired, events>>

(***************************************************************************)
(* stream_file, and the generator both endpoints stream from.              *)
(***************************************************************************)
StreamFile(p, h) ==
    /\ Idle(p)
    /\ file.place = "live" /\ file.ready
    /\ Serve(p, NoJob, h, "message")
    /\ Reads

\* get_messages; None, or an error after the retries, ends the stream.
GetMessage(p) ==
    /\ At(p, "message")
    /\ \/ file.message /\ To(p, "chunk")
       \/ To(p, "broken")
    /\ Reads

\* Mutant of Yielded: the chunk that goes beyond the range is not cut.
YieldedWhole(pos, last) == pos

\* What was sent once a chunk that ends before pos is cut to the range.
Yielded(pos, last) == IF pos > last THEN last + 1 ELSE pos

\* iter_download yields n more bytes; what lies beyond the range is cut off,
\* and the generator returns when the range is complete.
StreamChunk(p) ==
    LET last == job[p].range.last
    IN  /\ At(p, "chunk")
        /\ \E n \in 1 .. FileSize - job[p].pos :
             LET pos == job[p].pos + n
             IN  job' = [job EXCEPT ![p].pos = Yielded(pos, last), ![p].op = IF pos > last THEN "done" ELSE @]
        /\ Reads

\* An error of Telegram leaves the generator, whatever was sent so far.
StreamFails(p) ==
    /\ At(p, "chunk")
    /\ To(p, "broken")
    /\ Reads

(***************************************************************************)
(* The file's other life, time, and the TTL index on expires_at.           *)
(***************************************************************************)
\* move_to_trash, restore_from_trash and permanent_delete of the owner, and
\* the upload worker: what FileStore models in detail.
FileEvent ==
    /\ events < MaxEvents
    /\ events' = events + 1
    /\ \/ /\ file.place = "live" /\ ~file.ready
          /\ file' = [file EXCEPT !.ready = TRUE, !.message = TRUE]
       \/ /\ file.place = "live"
          /\ file' = [file EXCEPT !.place = "trashed"]
       \/ /\ file.place = "trashed"
          /\ file' = [file EXCEPT !.place = "live"]
       \/ /\ file.place # "gone" /\ file.message
          /\ file' = [file EXCEPT !.message = FALSE]
       \/ /\ file.place # "gone" /\ ~file.message
          /\ file' = [file EXCEPT !.place = "gone"]
    /\ UNCHANGED <<link, expired, claims, job>>

LinkExpires ==
    /\ link.expires /\ ~expired
    /\ expired' = TRUE
    /\ UNCHANGED <<file, link, claims, job, events>>

RemoveExpired ==
    /\ link.expires /\ expired /\ link.status # "removed"
    /\ link' = [link EXCEPT !.status = "removed"]
    /\ UNCHANGED <<file, expired, claims, job, events>>

(***************************************************************************)
(* The specification.                                                      *)
(***************************************************************************)
Request(p) ==
    \/ CreateShare(p)
    \/ FindShare(p, FALSE, NoJob.header)
    \/ \E h \in Headers : FindShare(p, TRUE, h) \/ StreamFile(p, h)

Step(p) ==
    \/ InsertShare(p) \/ Deactivate(p) \/ FindSharedFile(p) \/ ClaimDownloadSlot(p)
    \/ GetMessage(p) \/ StreamChunk(p) \/ StreamFails(p)

Init ==
    /\ file = [place |-> "live", ready |-> FALSE, message |-> FALSE]
    /\ link = NoLink
    /\ expired = FALSE
    /\ claims = 0
    /\ job = [p \in Procs |-> NoJob]
    /\ events = 0

Next ==
    \/ \E p \in Procs : Request(p) \/ Step(p)
    \/ RevokeShare
    \/ FileEvent
    \/ LinkExpires
    \/ RemoveExpired

Spec == Init /\ [][Next]_vars

(***************************************************************************)
(* Properties.                                                             *)
(***************************************************************************)
\* Every document and job has its type.
TypeOK ==
    /\ file \in File
    /\ link \in Link
    /\ expired \in BOOLEAN
    /\ claims \in Nat
    /\ job \in [Procs -> Job]
    /\ events \in Nat

\* However requests interleave, a link never lets more downloads through
\* than max_downloads, and a preview spends none: download_count is the
\* number of downloads that were let through.
LimitKept ==
    /\ claims = link.count
    /\ link.limit # NoLimit => claims <= link.limit

\* A stream that ends as it should has sent exactly the bytes the Range
\* header asked for, and as many as Content-Length announced; and 416 is
\* answered only to a header that asks for none.
StreamExact ==
    \A p \in Procs :
        LET r == job[p].range
            asked == Requested(job[p].header, FileSize)
        IN  /\ At(p, "done") => /\ asked = r.first .. job[p].pos - 1
                                /\ job[p].pos - r.first = r.last - r.first + 1
            /\ At(p, "refused") => asked = {}
=============================================================================
