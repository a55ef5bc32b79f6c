-------------------------- MODULE DownloadsProofs --------------------------
(***************************************************************************)
(* That a share link keeps its limit and that a stream sends what was      *)
(* asked for: for any number of requests, any file size, any limits, any   *)
(* Range headers and any interleaving with revocation and expiry.          *)
(***************************************************************************)
EXTENDS Downloads, TLAPS

\* What a request read of the link stays true: no link is inserted twice,
\* and its limit never changes.
LinkOK ==
    /\ link.status = "none" => link.count = 0 /\ ~link.expires
    /\ \A p \in Procs : job[p].op \in {"file", "claim"} => /\ link.status # "none"
                                                           /\ job[p].limit = link.limit

\* The range of a job is what its header asks for, and what is sent so far
\* lies in it.
StreamOK(j) ==
    /\ j.op \in {"claim", "message", "chunk", "done"} =>
         /\ j.range = ParseRange(j.header, FileSize)
         /\ j.range # NoRange
    /\ j.op \in {"claim", "message", "chunk"} => j.pos \in j.range.first .. j.range.last
    /\ j.op = "done" => j.pos = j.range.last + 1
    /\ j.op = "refused" => ParseRange(j.header, FileSize) = NoRange

IInv ==
    /\ TypeOK
    /\ LimitKept
    /\ LinkOK
    /\ \A p \in Procs : StreamOK(job[p])

(***************************************************************************)
(* Ranges.                                                                 *)
(***************************************************************************)
\* parse_range_header answers 416 or an interval of the file's bytes.
LEMMA RangeInside ==
    ASSUME NEW h \in Header, NEW size \in Nat \ {0}, ParseRange(h, size) # NoRange
    PROVE  /\ ParseRange(h, size) \in [first : Nat, last : Int]
           /\ ParseRange(h, size).first <= ParseRange(h, size).last
           /\ ParseRange(h, size).last < size
<1>1. CASE h.form = "whole"
  BY <1>1 DEF ParseRange, Range, Larger
<1>2. CASE h.form = "suffix"
  BY <1>2 DEF ParseRange, Range, Larger, Header
<1>3. CASE h.form \in {"span", "from", "open"}
  BY <1>3 DEF ParseRange, Range, Smaller, Header
<1>4. QED
  BY <1>1, <1>2, <1>3 DEF Header

\* parse_range_header implements RFC 7233: for every header and every file
\* that is not empty, it answers 416 exactly when the header asks for no byte
\* of the file, and otherwise the interval of the bytes it asks for.
THEOREM RangeIsWhatWasAsked ==
    ASSUME NEW h \in Header, NEW size \in Nat \ {0}
    PROVE  LET range == ParseRange(h, size)
           IN  /\ Requested(h, size) = range.first .. range.last
               /\ range = NoRange <=> Requested(h, size) = {}
<1> DEFINE range == ParseRange(h, size)
<1>1. Requested(h, size) = range.first .. range.last
  <2>1. CASE h.form = "whole"
    BY <2>1 DEF ParseRange, Range, NoRange, Larger, Requested
  <2>2. CASE h.form = "suffix"
    BY <2>2 DEF ParseRange, Range, NoRange, Larger, Requested, Header
  <2>3. CASE h.form = "span"
    BY <2>3 DEF ParseRange, Range, NoRange, Smaller, Requested, Header
  <2>4. CASE h.form = "from"
    BY <2>4 DEF ParseRange, Range, NoRange, Smaller, Requested, Header
  <2>5. CASE h.form = "open"
    BY <2>5 DEF ParseRange, Range, NoRange, Smaller, Requested, Header
  <2>6. QED
    BY <2>1, <2>2, <2>3, <2>4, <2>5 DEF Header
<1>2. CASE range = NoRange
  <2>1. Requested(h, size) = {}
    BY <1>1, <1>2 DEF NoRange
  <2>2. QED
    BY <1>1, <1>2, <2>1
<1>3. CASE range # NoRange
  <2>1. range \in [first : Nat, last : Int] /\ range.first <= range.last
    BY <1>3, RangeInside
  <2> HIDE DEF range
  <2>2. range.first \in range.first .. range.last
    BY <2>1
  <2>3. QED
    BY <1>1, <1>3, <2>2 DEF range
<1>4. QED
  BY <1>2, <1>3

(***************************************************************************)
(* The initial states and the steps.                                       *)
(***************************************************************************)
LEMMA NoJobType == NoJob \in Job /\ StreamOK(NoJob)
BY DEF NoJob, Job, Header, Ops, NoRange, NoLimit, StreamOK

LEMMA InitIInv == Init => IInv
<1> SUFFICES ASSUME Init PROVE IInv
  OBVIOUS
<1>1. \A p \in Procs : job[p] = NoJob
  BY DEF Init
<1>2. TypeOK
  BY NoJobType DEF Init, TypeOK, File, Link, NoLink, NoLimit
<1>3. LimitKept
  BY DEF Init, LimitKept, NoLink, NoLimit
<1>4. LinkOK
  BY <1>1 DEF Init, LinkOK, NoLink, NoJob
<1>5. QED
  BY <1>1, <1>2, <1>3, <1>4, NoJobType DEF IInv

\* What a step leaves of the link: once inserted it stays known, with its
\* limit, and its count stays the number of downloads let through.
LinkKept ==
    /\ link' \in Link
    /\ link.status # "none" => link'.status # "none" /\ link'.limit = link.limit
    /\ link'.status = "none" => link'.count = 0 /\ ~link'.expires
    /\ LimitKept'

LEMMA LinkUnchanged ==
    ASSUME IInv, UNCHANGED <<link, claims>>
    PROVE  LinkKept
BY DEF IInv, TypeOK, LinkOK, LimitKept, LinkKept

\* A step that gives job j to process p.
LEMMA OneJobAndLink ==
    ASSUME IInv, LinkKept, NEW p \in Procs, NEW j \in Job, StreamOK(j),
           j.op \in {"file", "claim"} => link'.status # "none" /\ j.limit = link'.limit,
           job' = [job EXCEPT ![p] = j],
           expired' \in BOOLEAN, claims' \in Nat, file' \in File, events' \in Nat
    PROVE  IInv'
<1>1. job' \in [Procs -> Job] /\ job'[p] = j /\ \A q \in Procs \ {p} : job'[q] = job[q]
  BY DEF IInv, TypeOK
<1>2. TypeOK'
  BY <1>1 DEF LinkKept, TypeOK
<1>3. LinkOK'
  BY <1>1 DEF IInv, LinkOK, LinkKept
<1>4. (\A q \in Procs : StreamOK(job[q]))'
  BY <1>1 DEF IInv, StreamOK
<1>5. QED
  BY <1>2, <1>3, <1>4 DEF IInv, LinkKept

LEMMA OneJob ==
    ASSUME IInv, NEW p \in Procs, NEW j \in Job, StreamOK(j),
           j.op \in {"file", "claim"} => link.status # "none" /\ j.limit = link.limit,
           job' = [job EXCEPT ![p] = j],
           UNCHANGED <<link, expired, claims>>, file' \in File, events' \in Nat
    PROVE  IInv'
<1>1. LinkKept /\ expired' \in BOOLEAN /\ claims' \in Nat
  BY LinkUnchanged DEF IInv, TypeOK
<1>2. QED
  BY <1>1, OneJobAndLink

\* A step that leaves the jobs and the count of the link alone.
LEMMA NoJobMoves ==
    ASSUME IInv, LinkKept, UNCHANGED <<job, claims>>,
           link.status = "none" => link'.status = "none",
           file' \in File, expired' \in BOOLEAN, events' \in Nat
    PROVE  IInv'
<1>1. TypeOK'
  BY DEF IInv, TypeOK, LinkKept
<1>2. LinkOK'
  BY DEF IInv, LinkOK, LinkKept
<1>3. (\A q \in Procs : StreamOK(job[q]))'
  BY DEF IInv, StreamOK
<1>4. QED
  BY <1>1, <1>2, <1>3 DEF IInv, LinkKept

\* The request of process p is over.
LEMMA Stops ==
    ASSUME IInv, LinkKept, NEW p \in Procs, Stop(p), UNCHANGED <<expired, claims, file, events>>
    PROVE  IInv'
<1>1. NoJob.op \notin {"file", "claim"}
  BY DEF NoJob
<1>2. expired' \in BOOLEAN /\ claims' \in Nat /\ file' \in File /\ events' \in Nat
  BY DEF IInv, TypeOK
<1>3. job' = [job EXCEPT ![p] = NoJob]
  BY DEF Stop
<1>4. QED
  BY <1>1, <1>2, <1>3, NoJobType, OneJobAndLink

\* Process p goes on with call op, with all else of its job as it was.
LEMMA GoesOn ==
    ASSUME IInv, NEW p \in Procs, NEW op \in {"chunk", "broken"}, To(p, op),
           op = "chunk" => job[p].op = "message",
           UNCHANGED <<link, expired, claims, file, events>>
    PROVE  IInv'
<1> DEFINE j == [job[p] EXCEPT !.op = op]
<1>1. file' \in File /\ events' \in Nat /\ job[p] \in Job /\ StreamOK(job[p])
  BY DEF IInv, TypeOK
<1>2. job' = [job EXCEPT ![p] = j]
  BY <1>1 DEF To
<1>3. j \in Job /\ j.op = op /\ j.range = job[p].range /\ j.header = job[p].header /\ j.pos = job[p].pos
  BY <1>1 DEF Job, Ops
<1>4. StreamOK(j)
  BY <1>1, <1>3 DEF StreamOK
<1> HIDE DEF j
<1>5. QED
  BY <1>1, <1>2, <1>3, <1>4, OneJob

\* The answer to a Range header.
LEMMA Serves ==
    ASSUME IInv, NEW p \in Procs, NEW old \in Job, NEW h \in Header, NEW next \in {"claim", "message"},
           next = "claim" => link.status # "none" /\ old.limit = link.limit,
           Serve(p, old, h, next), UNCHANGED <<link, expired, claims, file, events>>
    PROVE  IInv'
<1> DEFINE range == ParseRange(h, FileSize)
           j == [old EXCEPT !.op = next, !.header = h, !.range = range, !.pos = range.first]
           no == [NoJob EXCEPT !.op = "refused", !.header = h]
<1>1. file' \in File /\ events' \in Nat
  BY DEF IInv, TypeOK
<1>2. CASE range = NoRange
  <2>1. job' = [job EXCEPT ![p] = no]
    BY <1>2 DEF Serve
  <2>2. no \in Job /\ no.op = "refused" /\ no.header = h
    <3> HIDE DEF NoJob
    <3> QED
      BY NoJobType DEF Job, Ops
  <2>3. StreamOK(no)
    <3> HIDE DEF no
    <3> QED
      BY <1>2, <2>2 DEF StreamOK
  <2> HIDE DEF no
  <2>4. QED
    BY <1>1, <2>1, <2>2, <2>3, OneJob
<1>3. CASE range # NoRange
  <2>1. job' = [job EXCEPT ![p] = j]
    BY <1>3 DEF Serve
  <2>2. range = ParseRange(h, FileSize) /\ range \in [first : Nat, last : Int] /\ range.first <= range.last
    BY <1>3, RangeInside, FileSizeAssumption
  <2> HIDE DEF range
  <2>3. /\ j \in Job /\ j.op = next /\ j.limit = old.limit
        /\ j.header = h /\ j.range = range /\ j.pos = range.first
    BY <2>2 DEF Job, Ops
  <2> HIDE DEF j
  <2>4. j.pos \in j.range.first .. j.range.last
    BY <2>2, <2>3
  <2>5. StreamOK(j)
    BY <1>3, <2>2, <2>3, <2>4 DEF StreamOK
  <2>6. QED
    BY <1>1, <2>1, <2>3, <2>5, OneJob
<1>4. QED
  BY <1>2, <1>3

LEMMA RequestIInv ==
    ASSUME IInv, NEW p \in Procs, Request(p)
    PROVE  IInv'
<1>1. file' \in File /\ events' \in Nat /\ file' = file
  BY DEF Request, CreateShare, FindShare, StreamFile, IInv, TypeOK, Reads
<1>2. CASE CreateShare(p)
  <2> DEFINE j == [NoJob EXCEPT !.op = "create"]
  <2>1. j \in Job /\ StreamOK(j) /\ j.op = "create"
    BY NoJobType DEF Job, Ops, NoJob, StreamOK
  <2>2. job' = [job EXCEPT ![p] = j] /\ UNCHANGED <<link, expired, claims>>
    BY <1>2 DEF CreateShare, Reads
  <2> HIDE DEF j
  <2>3. QED
    BY <1>1, <2>1, <2>2, OneJob
<1>3. ASSUME NEW download \in BOOLEAN, NEW h \in Header, FindShare(p, download, h)
      PROVE  IInv'
  <2> DEFINE old == [NoJob EXCEPT !.download = download, !.limit = link.limit, !.header = h]
  <2>1. /\ old \in Job /\ old.limit = link.limit
        /\ \A op \in {"deactivate", "file"} :
             LET j == [old EXCEPT !.op = op]
             IN  j \in Job /\ StreamOK(j) /\ j.limit = link.limit /\ j.op = op
    <3>1. link.limit \in Nat
      BY DEF IInv, TypeOK, Link
    <3>2. QED
      BY <3>1, NoJobType DEF Job, Ops, NoJob, StreamOK
  <2>2. \E op \in {"deactivate", "file"} : job' = [job EXCEPT ![p] = [old EXCEPT !.op = op]]
    BY <1>3 DEF FindShare, Reads
  <2>3. link.status # "none" /\ UNCHANGED <<link, expired, claims>>
    BY <1>3 DEF FindShare, Reads
  <2> HIDE DEF old
  <2>4. PICK op \in {"deactivate", "file"} : job' = [job EXCEPT ![p] = [old EXCEPT !.op = op]]
    BY <2>2
  <2>5. QED
    BY <1>1, <2>1, <2>3, <2>4, OneJob
<1>4. ASSUME NEW h \in Header, StreamFile(p, h)
      PROVE  IInv'
  <2>1. Serve(p, NoJob, h, "message") /\ UNCHANGED <<link, expired, claims, file, events>>
    BY <1>4 DEF StreamFile, Reads
  <2>2. QED
    BY <2>1, Serves, NoJobType
<1>5. NoJob.header \in Header
  BY DEF NoJob, Header
<1>6. QED
  BY <1>2, <1>3, <1>4, <1>5, HeadersAssumption DEF Request

LEMMA StepIInv ==
    ASSUME IInv, NEW p \in Procs, Step(p)
    PROVE  IInv'
<1> DEFINE j == job[p]
<1>1. /\ j \in Job /\ StreamOK(j) /\ link \in Link /\ claims \in Nat
      /\ expired \in BOOLEAN /\ file \in File /\ events \in Nat
  BY DEF IInv, TypeOK
<1>2. CASE InsertShare(p)
  <2>1. LinkKept
    <3>1. CASE link.status = "none"
      BY <1>1, <1>2, <3>1, LimitsAssumption DEF InsertShare, LinkKept, IInv, LinkOK, LimitKept, Link
    <3>2. CASE link.status # "none"
      BY <1>2, <3>2, LinkUnchanged DEF InsertShare
    <3>3. QED
      BY <3>1, <3>2
  <2>2. QED
    BY <1>2, <2>1, Stops DEF InsertShare
<1>3. CASE Deactivate(p)
  <2>1. LinkKept
    BY <1>1, <1>3 DEF Deactivate, LinkKept, IInv, LinkOK, LimitKept, Link
  <2>2. QED
    BY <1>3, <2>1, Stops DEF Deactivate
<1>4. CASE FindSharedFile(p)
  <2>1. CASE j.download /\ file.place = "live" /\ file.ready
    <3>1. Serve(p, j, j.header, "claim") /\ UNCHANGED <<link, expired, claims, file, events>>
      BY <1>4, <2>1 DEF FindSharedFile, Reads
    <3>2. j.header \in Header /\ link.status # "none" /\ j.limit = link.limit
      BY <1>1, <1>4 DEF FindSharedFile, At, Job, IInv, LinkOK
    <3>3. QED
      BY <1>1, <3>1, <3>2, Serves
  <2>2. CASE ~(j.download /\ file.place = "live" /\ file.ready)
    BY <1>4, <2>2, Stops, LinkUnchanged DEF FindSharedFile, Reads
  <2>3. QED
    BY <2>1, <2>2
<1>5. CASE ClaimDownloadSlot(p)
  <2>1. CASE link.status = "active" /\ (j.limit # NoLimit => link.count < j.limit)
    <3> DEFINE k == [j EXCEPT !.op = "message", !.limit = NoLimit]
    <3>1. /\ k \in Job /\ k.op = "message" /\ k.pos = j.pos /\ k.range = j.range /\ k.header = j.header
          /\ j.op = "claim" /\ j.limit = link.limit
      BY <1>1, <1>5 DEF ClaimDownloadSlot, At, Job, Ops, NoLimit, IInv, LinkOK, SlotLeft
    <3>2. StreamOK(k)
      BY <1>1, <3>1 DEF StreamOK
    <3>3. job' = [job EXCEPT ![p] = k]
      BY <1>1, <1>5, <2>1 DEF ClaimDownloadSlot, SlotLeft
    <3>4. /\ link' = [link EXCEPT !.count = @ + 1] /\ claims' = claims + 1
          /\ UNCHANGED <<file, expired, events>>
      BY <1>5, <2>1 DEF ClaimDownloadSlot, SlotLeft
    <3>5. LinkKept
      BY <1>1, <2>1, <3>1, <3>4 DEF LinkKept, LimitKept, IInv, Link, NoLimit
    <3>6. expired' \in BOOLEAN /\ claims' \in Nat /\ file' \in File /\ events' \in Nat
      BY <1>1, <3>4
    <3> HIDE DEF k
    <3>7. QED
      BY <3>1, <3>2, <3>3, <3>5, <3>6, OneJobAndLink
  <2>2. CASE ~(link.status = "active" /\ (j.limit # NoLimit => link.count < j.limit))
    BY <1>5, <2>2, Stops, LinkUnchanged DEF ClaimDownloadSlot, SlotLeft
  <2>3. QED
    BY <2>1, <2>2
<1>6. CASE GetMessage(p)
  BY <1>6, GoesOn DEF GetMessage, At, Reads
<1>7. CASE StreamChunk(p)
  <2> DEFINE last == j.range.last
  <2>1. PICK n \in 1 .. FileSize - j.pos :
          job' = IF j.pos + n > last THEN [job EXCEPT ![p] = [j EXCEPT !.pos = last + 1, !.op = "done"]]
                                     ELSE [job EXCEPT ![p] = [j EXCEPT !.pos = j.pos + n]]
    BY <1>1, <1>7 DEF StreamChunk, Yielded, Reads
  <2>2. /\ j.op = "chunk" /\ j.pos \in Nat /\ last \in Int /\ j.range.first \in Nat
        /\ j.range.first <= j.pos /\ j.pos <= last
    BY <1>1, <1>7 DEF StreamChunk, At, StreamOK, Job, Yielded, Reads
  <2>3. UNCHANGED <<file, link, expired, claims, events>>
    BY <1>7 DEF StreamChunk, Yielded, Reads
  <2>4. CASE j.pos + n > last
    <3> DEFINE k == [j EXCEPT !.pos = last + 1, !.op = "done"]
    <3>1. k \in Job /\ k.op = "done" /\ k.pos = last + 1 /\ k.range = j.range /\ k.header = j.header
      <4>1. last + 1 \in Nat
        BY <2>2
      <4> HIDE DEF last
      <4>2. QED
        BY <1>1, <4>1 DEF Job, Ops
    <3>2. StreamOK(k)
      BY <1>1, <2>2, <3>1 DEF StreamOK
    <3>3. job' = [job EXCEPT ![p] = k]
      BY <2>1, <2>4
    <3> HIDE DEF k
    <3>4. QED
      BY <1>1, <2>3, <3>1, <3>2, <3>3, OneJob
  <2>5. CASE ~(j.pos + n > last)
    <3> DEFINE k == [j EXCEPT !.pos = j.pos + n]
    <3>1. k \in Job /\ k.op = "chunk" /\ k.pos = j.pos + n /\ k.range = j.range /\ k.header = j.header
      BY <1>1, <2>2 DEF Job, Ops
    <3>2. StreamOK(k)
      BY <1>1, <2>2, <2>5, <3>1 DEF StreamOK
    <3>3. job' = [job EXCEPT ![p] = k]
      BY <2>1, <2>5
    <3> HIDE DEF k
    <3>4. QED
      BY <1>1, <2>3, <3>1, <3>2, <3>3, OneJob
  <2>6. QED
    BY <2>4, <2>5
<1>8. CASE StreamFails(p)
  BY <1>8, GoesOn DEF StreamFails, Reads
<1>9. QED
  BY <1>2, <1>3, <1>4, <1>5, <1>6, <1>7, <1>8 DEF Step

\* The owner, the clock and the TTL index.
LEMMA OthersIInv ==
    ASSUME IInv, RevokeShare \/ FileEvent \/ LinkExpires \/ RemoveExpired
    PROVE  IInv'
<1>1. /\ link \in Link /\ claims \in Nat /\ expired \in BOOLEAN /\ file \in File /\ events \in Nat
      /\ link.status = "none" => link.count = 0 /\ ~link.expires
  BY DEF IInv, TypeOK, LinkOK
<1>2. CASE RevokeShare
  <2>1. LinkKept /\ link.status # "none"
    BY <1>1, <1>2 DEF RevokeShare, LinkKept, IInv, LimitKept, Link
  <2>2. QED
    BY <1>1, <1>2, <2>1, NoJobMoves DEF RevokeShare
<1>3. CASE FileEvent
  <2>1. file' \in File
    BY <1>1, <1>3 DEF FileEvent, File
  <2>2. events' \in Nat /\ UNCHANGED <<link, expired, claims, job>>
    BY <1>1, <1>3 DEF FileEvent
  <2>3. QED
    BY <1>1, <2>1, <2>2, NoJobMoves, LinkUnchanged
<1>4. CASE LinkExpires
  BY <1>1, <1>4, NoJobMoves, LinkUnchanged DEF LinkExpires
<1>5. CASE RemoveExpired
  <2>1. LinkKept /\ (link.status = "none" => link'.status = "none")
    BY <1>1, <1>5 DEF RemoveExpired, LinkKept, IInv, LimitKept, Link
  <2>2. QED
    BY <1>1, <1>5, <2>1, NoJobMoves DEF RemoveExpired
<1>6. QED
  BY <1>2, <1>3, <1>4, <1>5

(***************************************************************************)
(* The theorems.                                                           *)
(***************************************************************************)
\* IInv is inductive, and so an invariant of shares.py and stream_file.
THEOREM Invariance == Spec => []IInv
<1>1. Init => IInv
  BY InitIInv
<1>2. IInv /\ [Next]_vars => IInv'
  <2> SUFFICES ASSUME IInv, [Next]_vars PROVE IInv'
    OBVIOUS
  <2>1. CASE UNCHANGED vars
    BY <2>1 DEF vars, IInv, TypeOK, LimitKept, LinkOK, StreamOK
  <2>2. CASE Next
    BY <2>2, RequestIInv, StepIInv, OthersIInv DEF Next
  <2>3. QED
    BY <2>1, <2>2
<1>3. QED
  BY <1>1, <1>2, PTL DEF Spec

\* Every document and job of shares.py and stream_file keeps its type.
THEOREM TypeCorrect == Spec => []TypeOK
<1>1. IInv => TypeOK
  BY DEF IInv
<1>2. QED
  BY <1>1, Invariance, PTL

\* A link never lets more downloads through than max_downloads: for any
\* number of concurrent requests, however they interleave.
THEOREM LimitIsKept == Spec => []LimitKept
<1>1. IInv => LimitKept
  BY DEF IInv
<1>2. QED
  BY <1>1, Invariance, PTL

\* A stream that ends as it should has sent what was asked for, and 416 is
\* answered only where nothing was: for any header, any file that is not empty
\* and any way its message is cut up.
THEOREM StreamsAreExact == Spec => []StreamExact
<1>1. IInv => StreamExact
  <2> SUFFICES ASSUME IInv, NEW p \in Procs
               PROVE  LET r == job[p].range
                          asked == Requested(job[p].header, FileSize)
                      IN  /\ job[p].op = "done" => /\ asked = r.first .. job[p].pos - 1
                                                   /\ job[p].pos - r.first = r.last - r.first + 1
                          /\ job[p].op = "refused" => asked = {}
    BY DEF StreamExact, At
  <2>1. job[p].header \in Header /\ job[p].range \in [first : Nat, last : Int]
    BY DEF IInv, TypeOK, Job
  <2>2. CASE job[p].op = "done"
    <3>1. job[p].range = ParseRange(job[p].header, FileSize) /\ job[p].pos = job[p].range.last + 1
      BY <2>2 DEF IInv, StreamOK
    <3>2. Requested(job[p].header, FileSize) = job[p].range.first .. job[p].range.last
      BY <2>1, <3>1, RangeIsWhatWasAsked, FileSizeAssumption
    <3>3. QED
      BY <2>1, <2>2, <3>1, <3>2
  <2>3. CASE job[p].op = "refused"
    <3>1. ParseRange(job[p].header, FileSize) = NoRange
      BY <2>3 DEF IInv, StreamOK
    <3>2. QED
      BY <2>1, <2>3, <3>1, RangeIsWhatWasAsked, FileSizeAssumption
  <2>4. QED
    BY <2>2, <2>3
<1>2. QED
  BY <1>1, Invariance, PTL
=============================================================================
