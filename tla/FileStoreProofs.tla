-------------------------- MODULE FileStoreProofs --------------------------
(***************************************************************************)
(* Type correctness of FileStore, and that the parent of every document    *)
(* that still has one is a folder, for any number of clients and workers   *)
(* issuing any requests, with any crashes and restarts; what every step of *)
(* a process does, said once for all its actions; and, for                 *)
(* AccountingProofs, what sums over sets and sequences are, what lies      *)
(* below a document, and what each call owes to storage_used_bytes.        *)
(***************************************************************************)
EXTENDS FileStore, SequenceTheorems, FiniteSetTheorems, FunctionTheorems, TLAPS

(***************************************************************************)
(* The folder a frame is going to put a document into (Root if none).      *)
(***************************************************************************)
PlaceOf(f) ==
    IF f.op \in EachOps \cup {"setParent", "copyChildren", "copyQuota", "copyDoc", "quota", "dedup", "openUpload"}
    THEN f.to
    ELSE IF f.op = "insert" THEN f.doc.parent ELSE Root

FramesAt(P) == {f \in Frame : PlaceOf(f) \in P}

\* The ids that are not, and will never be, the id of a file.
Safe == {i \in 0 .. (nextId - 1) : i \in DOMAIN files => IsFolder(files[i])}

\* The destination a sequence of calls starts by validating.
Pending(s) == IF s # <<>> /\ Head(s).op = "parent" THEN {Head(s).id} ELSE {}

TodoOK(s) == s \in Seq(FramesAt(Safe \cup Pending(s)))

\* The inductive invariant: ParentIsFolder alone says nothing about the
\* destinations requests have validated and not used yet.
IInv ==
    /\ TypeOK
    /\ \A i \in DOMAIN files : files[i].parent \in Safe
    /\ uploads \subseteq Safe
    /\ \A p \in Procs : TodoOK(todo[p])

(***************************************************************************)
(* Frames.                                                                 *)
(***************************************************************************)
LEMMA AtFrame ==
    ASSUME NEW P, Root \in P, NEW op \in AtOps, NEW i \in Nat
    PROVE  At(op, i) \in FramesAt(P)
BY DEF At, AtOps, FramesAt, PlaceOf, Frame, EachOps, Root

LEMMA OfFrame ==
    ASSUME NEW P, Root \in P, NEW op \in DocOps, NEW i \in Nat, NEW d \in Doc
    PROVE  Of(op, i, d) \in FramesAt(P)
BY DEF Of, DocOps, FramesAt, PlaceOf, Frame, EachOps, Root

LEMMA IntoFrame ==
    ASSUME NEW P, Root \in P, NEW op \in PlaceOps, NEW i \in Nat, NEW to \in Nat,
           op \in {"setParent", "copyChildren"} => to \in P
    PROVE  Into(op, i, to) \in FramesAt(P)
BY DEF Into, PlaceOps, FramesAt, PlaceOf, Frame, EachOps, Root

LEMMA CopyFrame ==
    ASSUME NEW P, NEW op \in {"copyQuota", "copyDoc"}, NEW i \in Nat, NEW d \in Doc,
           NEW to \in Nat, to \in P
    PROVE  Copy(op, i, d, to) \in FramesAt(P)
BY DEF Copy, FramesAt, PlaceOf, Frame, EachOps, Root

LEMMA AboutFrame ==
    ASSUME NEW P, Root \in P, NEW op \in {"countRefs", "record"}, NEW i \in Nat, NEW m \in Nat
    PROVE  About(op, i, m) \in FramesAt(P)
BY DEF About, FramesAt, PlaceOf, Frame, EachOps, Root

LEMMA NewFrame ==
    ASSUME NEW P, NEW op \in {"quota", "dedup"}, NEW c \in Contents, NEW to \in Nat, to \in P
    PROVE  New(op, c, to) \in FramesAt(P)
BY DEF New, FramesAt, PlaceOf, Frame, EachOps, Root

LEMMA InsertFrame ==
    ASSUME NEW P, NEW d \in Doc, NEW send \in BOOLEAN, d.parent \in P
    PROVE  Insert(d, send) \in FramesAt(P)
BY DEF Insert, FramesAt, PlaceOf, Frame, EachOps, Root

LEMMA OpenFrame ==
    ASSUME NEW P, NEW to \in Nat, to \in P
    PROVE  Open(to) \in FramesAt(P)
BY DEF Open, FramesAt, PlaceOf, Frame, EachOps, Root

LEMMA AddFrame ==
    ASSUME NEW P, Root \in P, NEW n \in Int
    PROVE  Add(n) \in FramesAt(P)
BY DEF Add, FramesAt, PlaceOf, Frame, EachOps, Root

LEMMA DeleteMsgFrame ==
    ASSUME NEW P, Root \in P, NEW m \in Nat
    PROVE  [op |-> "deleteMsg", msg |-> m] \in FramesAt(P)
BY DEF FramesAt, PlaceOf, Frame, EachOps, Root

LEMMA EachSeq ==
    ASSUME NEW P, NEW op \in EachOps, NEW kids \in SUBSET Kid, NEW to \in Nat, to \in P
    PROVE  Each(op, kids, to) \in Seq(FramesAt(P))
<1>1. [op |-> op, kids |-> kids, to |-> to] \in FramesAt(P)
  BY DEF FramesAt, PlaceOf, Frame, EachOps
<1> QED
  BY <1>1 DEF Each

\* What a frame holds.
LEMMA FrameFields ==
    ASSUME NEW f \in Frame
    PROVE  /\ f.op \in AtOps \cup DocOps \cup PlaceOps \cup {"copyQuota", "copyDoc", "countRefs", "record"}
                => f.id \in Nat
           /\ f.op \in DocOps \cup {"copyQuota", "copyDoc", "insert"} => f.doc \in Doc
           /\ f.op \in PlaceOps \cup EachOps \cup {"copyQuota", "copyDoc", "quota", "dedup", "openUpload"}
                => f.to \in Nat
           /\ f.op \in EachOps => f.kids \in SUBSET Kid
           /\ f.op \in {"quota", "dedup"} => f.content \in Contents
           /\ f.op = "insert" => f.send \in BOOLEAN
           /\ f.op \in {"countRefs", "record", "deleteMsg"} => f.msg \in Nat
           /\ f.op = "add" => f.bytes \in Int
BY DEF Frame, AtOps, DocOps, PlaceOps, EachOps

LEMMA BytesNat ==
    ASSUME NEW d \in Doc
    PROVE  Bytes(d) \in Nat
BY SizeAssumption DEF Bytes, IsFolder, Doc

(***************************************************************************)
(* Sequences of frames.                                                    *)
(***************************************************************************)
LEMMA FramesMonotone ==
    ASSUME NEW P, NEW Q, P \subseteq Q
    PROVE  Seq(FramesAt(P)) \subseteq Seq(FramesAt(Q))
<1>1. FramesAt(P) \subseteq FramesAt(Q)
  BY DEF FramesAt
<1> QED
  BY <1>1

LEMMA Concat ==
    ASSUME NEW F, NEW a \in Seq(F), NEW b \in Seq(F)
    PROVE  /\ a \o b \in Seq(F)
           /\ a # <<>> \/ b # <<>> => a \o b # <<>>
OBVIOUS

LEMMA Single ==
    ASSUME NEW F, NEW x \in F
    PROVE  /\ <<x>> \in Seq(F)
           /\ <<x>> # <<>>
OBVIOUS

LEMMA Pair ==
    ASSUME NEW F, NEW x \in F, NEW y \in F
    PROVE  <<x, y>> \in Seq(F)
OBVIOUS

LEMMA Optional ==
    ASSUME NEW F, NEW b, NEW x, b => x \in F
    PROVE  /\ (IF b THEN <<x>> ELSE <<>>) \in Seq(F)
           /\ (IF ~b THEN <<>> ELSE <<x>>) \in Seq(F)
OBVIOUS

LEMMA Concat3 ==
    ASSUME NEW F, NEW a \in Seq(F), NEW b \in Seq(F), NEW c \in Seq(F)
    PROVE  /\ a \o b \o c \in Seq(F)
           /\ a \o b \o c = a \o (b \o c)
           /\ a = <<>> => a \o b = b
OBVIOUS

LEMMA DeleteFileSeq ==
    ASSUME NEW P, Root \in P, NEW i \in Nat, NEW d \in Doc
    PROVE  /\ DeleteFile(i, d) \in Seq(FramesAt(P))
           /\ DeleteFile(i, d) # <<>>
<1> DEFINE F == FramesAt(P)
           a == IF IsLive(d) THEN <<Add(-Bytes(d))>> ELSE <<>>
           b == IF d.msg # NoMessage THEN <<About("countRefs", i, d.msg)>> ELSE <<>>
<1>1. a \in Seq(F)
  BY AddFrame, BytesNat
<1>2. d.msg \in Nat
  BY DEF Doc
<1>3. b \in Seq(F)
  BY <1>2, AboutFrame
<1>4. At("remove", i) \in F
  BY AtFrame DEF AtOps
<1>5. <<At("remove", i)>> \in Seq(F) /\ <<At("remove", i)>> # <<>>
  BY <1>4
<1>6. DeleteFile(i, d) = a \o b \o <<At("remove", i)>>
  BY DEF DeleteFile
<1> HIDE DEF F, a, b
<1>7. a \o b \in Seq(F)
  BY <1>1, <1>3
<1> QED
  BY <1>5, <1>6, <1>7 DEF F

LEMMA IterationSeq ==
    ASSUME NEW P, Root \in P, NEW op \in EachOps, NEW k \in Kid, NEW to \in Nat, to \in P
    PROVE  /\ Iteration(op, k, to) \in Seq(FramesAt(P))
           /\ Iteration(op, k, to) # <<>>
<1>0. k.id \in Nat /\ k.doc \in Doc /\ Bytes(k.doc) \in Nat
  BY BytesNat DEF Kid
<1>1. CASE op = "trashEach"
  <2>1. Iteration(op, k, to) =
           <<IF IsFolder(k.doc) THEN At("trashChildren", k.id) ELSE Add(-Bytes(k.doc)), At("mark", k.id)>>
    BY <1>1 DEF Iteration
  <2>2. /\ At("trashChildren", k.id) \in FramesAt(P)
        /\ At("mark", k.id) \in FramesAt(P)
        /\ Add(-Bytes(k.doc)) \in FramesAt(P)
    BY <1>0, AtFrame, AddFrame DEF AtOps
  <2> QED
    BY <2>1, <2>2
<1>2. CASE op = "restoreEach"
  <2>1. Iteration(op, k, to) =
           <<IF IsFolder(k.doc) THEN At("restoreChildren", k.id) ELSE Add(Bytes(k.doc)), At("unmark", k.id)>>
    BY <1>2 DEF Iteration
  <2>2. /\ At("restoreChildren", k.id) \in FramesAt(P)
        /\ At("unmark", k.id) \in FramesAt(P)
        /\ Add(Bytes(k.doc)) \in FramesAt(P)
    BY <1>0, AtFrame, AddFrame DEF AtOps
  <2> QED
    BY <2>1, <2>2
<1>3. CASE op = "deleteEach"
  <2>1. Iteration(op, k, to) =
           IF IsFolder(k.doc) THEN <<At("deleteChildren", k.id)>> ELSE DeleteFile(k.id, k.doc)
    BY <1>3 DEF Iteration
  <2>2. At("deleteChildren", k.id) \in FramesAt(P)
    BY <1>0, AtFrame DEF AtOps
  <2> QED
    BY <1>0, <2>1, <2>2, DeleteFileSeq
<1>4. CASE op = "purgeEach"
  <2>1. At("delete", k.id) \in FramesAt(P)
    BY <1>0, AtFrame DEF AtOps
  <2> QED
    BY <1>4, <2>1 DEF Iteration
<1>5. CASE op = "sizeEach"
  <2>1. Of("size", k.id, k.doc) \in FramesAt(P)
    BY <1>0, OfFrame DEF DocOps
  <2> QED
    BY <1>5, <2>1 DEF Iteration
<1>6. CASE op = "copyEach"
  <2>1. Copy("copyDoc", k.id, k.doc, to) \in FramesAt(P)
    BY <1>0, CopyFrame
  <2> QED
    BY <1>6, <2>1 DEF Iteration
<1> QED
  BY <1>1, <1>2, <1>3, <1>4, <1>5, <1>6 DEF EachOps

LEMMA ReadySeq ==
    ASSUME NEW P, Root \in P, NEW s \in Seq(FramesAt(P)), NEW t \in Ready(s)
    PROVE  /\ t \in Seq(FramesAt(P))
           /\ t # <<>>
           /\ s # <<>>
           /\ Head(s).op = "parent" => t = s
<1>1. s # <<>>
  BY DEF Ready
<1>2. CASE Head(s).op \notin EachOps
  BY <1>1, <1>2 DEF Ready
<1>3. CASE Head(s).op \in EachOps
  <2> DEFINE l == Head(s)
  <2>1. l \in FramesAt(P) /\ Tail(s) \in Seq(FramesAt(P))
    BY <1>1
  <2>2. l \in Frame /\ l.to \in P
    BY <2>1, <1>3 DEF FramesAt, PlaceOf
  <2>3. l.kids \in SUBSET Kid /\ l.to \in Nat
    BY <2>2, <1>3, FrameFields
  <2>4. PICK k \in l.kids :
          t = Iteration(l.op, k, l.to) \o Each(l.op, l.kids \ {k}, l.to) \o Tail(s)
    BY <1>1, <1>3 DEF Ready
  <2>5. /\ Iteration(l.op, k, l.to) \in Seq(FramesAt(P))
        /\ Iteration(l.op, k, l.to) # <<>>
    BY <1>3, <2>2, <2>3, IterationSeq
  <2>6. Each(l.op, l.kids \ {k}, l.to) \in Seq(FramesAt(P))
    <3>1. l.kids \ {k} \in SUBSET Kid
      BY <2>3
    <3> QED
      BY <3>1, <1>3, <2>2, <2>3, EachSeq
  <2>7. Iteration(l.op, k, l.to) \o Each(l.op, l.kids \ {k}, l.to) \in Seq(FramesAt(P))
    BY <2>5, <2>6
  <2>8. Iteration(l.op, k, l.to) \o Each(l.op, l.kids \ {k}, l.to) # <<>>
    BY <2>5, <2>6
  <2>9. t \in Seq(FramesAt(P)) /\ t # <<>>
    <3> HIDE DEF l
    <3> QED
      BY <2>1, <2>4, <2>7, <2>8, Concat
  <2>10. l.op # "parent"
    BY <1>3 DEF EachOps
  <2> QED
    BY <1>1, <2>9, <2>10
<1> QED
  BY <1>2, <1>3

(***************************************************************************)
(* What a call finds, and what is left when a process goes on.             *)
(***************************************************************************)
LEMMA SafeFacts ==
    ASSUME IInv
    PROVE  /\ Safe \subseteq Nat
           /\ Root \in Safe
           /\ \A i \in DOMAIN files : i \in Nat /\ (IsFolder(files[i]) => i \in Safe)
<1>1. nextId \in Nat /\ nextId # 0 /\ DOMAIN files \subseteq 1 .. (nextId - 1)
  BY DEF IInv, TypeOK
<1> QED
  BY <1>1 DEF Safe, Root

LEMMA CallFacts ==
    ASSUME IInv, NEW p \in Procs, NEW op, op # "parent", NEW s \in Calls(p, op)
    PROVE  /\ Head(s) \in Frame /\ Head(s).op = op /\ PlaceOf(Head(s)) \in Safe
           /\ Tail(s) \in Seq(FramesAt(Safe))
           /\ s \in Seq(FramesAt(Safe))
<1> DEFINE P == Safe \cup Pending(todo[p])
<1>1. s \in Ready(todo[p]) /\ Head(s).op = op
  BY DEF Calls
<1>2. todo[p] \in Seq(FramesAt(P)) /\ Root \in P
  BY SafeFacts DEF IInv, TodoOK
<1>3. /\ s \in Seq(FramesAt(P)) /\ s # <<>> /\ todo[p] # <<>>
      /\ Head(todo[p]).op = "parent" => s = todo[p]
  <2> HIDE DEF P
  <2> QED
    BY <1>1, <1>2, ReadySeq
<1>4. P = Safe
  BY <1>1, <1>3 DEF Pending
<1>5. s \in Seq(FramesAt(Safe)) /\ s # <<>>
  BY <1>3, <1>4
<1>6. Head(s) \in FramesAt(Safe) /\ Tail(s) \in Seq(FramesAt(Safe))
  BY <1>5
<1> QED
  BY <1>1, <1>5, <1>6 DEF FramesAt

\* A process goes on with frames whose places are safe, no id becomes unsafe.
LEMMA GotoKeeps ==
    ASSUME IInv, NEW p \in Procs, NEW t, Goto(p, t), Safe \subseteq Safe',
           t \in Seq(FramesAt(Safe' \cup Pending(t)))
    PROVE  /\ todo' \in [Procs -> Seq(Frame)]
           /\ \A q \in Procs : TodoOK(todo[q])'
<1>1. todo \in [Procs -> Seq(Frame)] /\ todo' = [todo EXCEPT ![p] = t]
  BY DEF IInv, TypeOK, Goto
<1>2. \A Q : Seq(FramesAt(Q)) \subseteq Seq(Frame)
  <2>1. \A Q : FramesAt(Q) \subseteq Frame
    BY DEF FramesAt
  <2> QED
    BY <2>1
<1>3. t \in Seq(Frame)
  BY <1>2
<1>4. todo' \in [Procs -> Seq(Frame)]
  BY <1>1, <1>3
<1>5. ASSUME NEW q \in Procs PROVE todo'[q] \in Seq(FramesAt(Safe' \cup Pending(todo'[q])))
  <2>1. CASE q = p
    BY <1>1, <2>1
  <2>2. CASE q # p
    <3>1. todo'[q] = todo[q]
      BY <1>1, <2>2
    <3>2. todo[q] \in Seq(FramesAt(Safe \cup Pending(todo[q])))
      BY DEF IInv, TodoOK
    <3>3. Safe \cup Pending(todo[q]) \subseteq Safe' \cup Pending(todo[q])
      OBVIOUS
    <3>4. todo[q] \in Seq(FramesAt(Safe' \cup Pending(todo[q])))
      BY <3>2, <3>3, FramesMonotone
    <3> QED
      BY <3>1, <3>4
  <2> QED
    BY <2>1, <2>2
<1> QED
  BY <1>4, <1>5 DEF TodoOK, Pending

\* A step that leaves the collections alone.
LEMMA QuietStep ==
    ASSUME IInv, NEW p \in Procs, NEW t, Goto(p, t), UNCHANGED <<data, may>>,
           total' \in [Procs -> Nat], t \in Seq(FramesAt(Safe \cup Pending(t)))
    PROVE  IInv'
<1>1. UNCHANGED <<files, used, messages, nextId, nextMsg, queue, uploads, may>>
  BY DEF data
<1>2. Safe' = Safe
  BY <1>1 DEF Safe
<1>3. /\ todo' \in [Procs -> Seq(Frame)]
      /\ \A q \in Procs : TodoOK(todo[q])'
  BY <1>2, GotoKeeps
<1>4. TypeOK'
  BY <1>1, <1>3 DEF IInv, TypeOK, bounds
<1>5. uploads' \subseteq Safe' /\ \A i \in DOMAIN files' : files'[i].parent \in Safe'
  BY <1>1, <1>2 DEF IInv
<1> QED
  BY <1>3, <1>4, <1>5 DEF IInv

\* The usual quiet step: every place of the frames left is safe.
LEMMA QuietSafeStep ==
    ASSUME IInv, NEW p \in Procs, NEW t \in Seq(FramesAt(Safe)), Goto(p, t),
           UNCHANGED <<data, total, bounds>>
    PROVE  IInv'
<1>1. t \in Seq(FramesAt(Safe \cup Pending(t)))
  <2>1. Safe \subseteq Safe \cup Pending(t)
    OBVIOUS
  <2> QED
    BY <2>1, FramesMonotone
<1>2. total' \in [Procs -> Nat]
  BY DEF IInv, TypeOK
<1> QED
  BY <1>1, <1>2, QuietStep DEF bounds

LEMMA AbortStep ==
    ASSUME IInv, NEW p \in Procs, Abort(p), UNCHANGED <<data, total, bounds>>
    PROVE  IInv'
<1>1. <<>> \in Seq(FramesAt(Safe))
  OBVIOUS
<1> QED
  BY <1>1, QuietSafeStep DEF Abort

\* A document changes but stays what it is and in a safe place.
LEMMA SetDocStep ==
    ASSUME IInv, NEW p \in Procs, NEW t \in Seq(FramesAt(Safe)), Goto(p, t),
           NEW i, NEW d, SetDoc(i, d),
           i \in DOMAIN files => d \in Doc /\ d.kind = files[i].kind /\ d.parent \in Safe,
           UNCHANGED <<used, messages, nextId, nextMsg, queue, uploads, total, bounds>>
    PROVE  IInv'
<1>1. files' = [j \in DOMAIN files |-> IF j = i THEN d ELSE files[j]]
  BY DEF SetDoc
<1>2. Safe \subseteq Safe'
  BY <1>1 DEF Safe, IsFolder
<1>3. t \in Seq(FramesAt(Safe' \cup Pending(t)))
  <2>1. Safe \subseteq Safe' \cup Pending(t)
    BY <1>2
  <2> QED
    BY <2>1, FramesMonotone
<1>4. /\ todo' \in [Procs -> Seq(Frame)]
      /\ \A q \in Procs : TodoOK(todo[q])'
  BY <1>2, <1>3, GotoKeeps
<1>5. DOMAIN files' = DOMAIN files /\ \A j \in DOMAIN files' : files'[j] \in Doc
  BY <1>1 DEF IInv, TypeOK
<1>6. TypeOK'
  BY <1>4, <1>5 DEF IInv, TypeOK, bounds
<1>7. uploads' \subseteq Safe' /\ \A j \in DOMAIN files' : files'[j].parent \in Safe'
  BY <1>1, <1>2 DEF IInv
<1> QED
  BY <1>4, <1>6, <1>7 DEF IInv

\* A document appears in a safe place; its id is safe if it is a folder.
LEMMA InsertStep ==
    ASSUME IInv, NEW p \in Procs, NEW t, Goto(p, t), NEW d \in Doc, InsertDoc(d), d.parent \in Safe,
           t \in Seq(FramesAt(Safe \cup (IF IsFolder(d) THEN {nextId} ELSE {}))),
           UNCHANGED <<used, messages, nextMsg, queue, uploads, total, bounds>>
    PROVE  IInv'
<1> DEFINE N == IF IsFolder(d) THEN {nextId} ELSE {}
<1>1. /\ files' = [j \in DOMAIN files \cup {nextId} |-> IF j = nextId THEN d ELSE files[j]]
      /\ nextId' = nextId + 1
      /\ nextId \in Nat /\ nextId # 0
      /\ DOMAIN files \subseteq 1 .. (nextId - 1)
  <2>1. nextId # 0
    BY SafeFacts DEF Safe, Root, IInv, TypeOK
  <2> QED
    BY <2>1 DEF InsertDoc, IInv, TypeOK
<1>2. Safe \cup N \subseteq Safe'
  BY <1>1 DEF Safe
<1>3. t \in Seq(FramesAt(Safe' \cup Pending(t)))
  <2>1. Safe \cup N \subseteq Safe' \cup Pending(t)
    BY <1>2
  <2> HIDE DEF N
  <2> QED
    BY <2>1, FramesMonotone DEF N
<1>4. /\ todo' \in [Procs -> Seq(Frame)]
      /\ \A q \in Procs : TodoOK(todo[q])'
  BY <1>2, <1>3, GotoKeeps
<1>5. DOMAIN files' \subseteq 1 .. (nextId' - 1) /\ \A j \in DOMAIN files' : files'[j] \in Doc
  BY <1>1 DEF IInv, TypeOK
<1>6. TypeOK'
  BY <1>1, <1>4, <1>5 DEF IInv, TypeOK, bounds
<1>7. uploads' \subseteq Safe' /\ \A j \in DOMAIN files' : files'[j].parent \in Safe'
  BY <1>1, <1>2 DEF IInv
<1> QED
  BY <1>4, <1>6, <1>7 DEF IInv

(***************************************************************************)
(* One lemma per action.                                                   *)
(***************************************************************************)
LEMMA CheckParentKeeps ==
    ASSUME IInv, NEW p \in Procs, CheckParent(p)
    PROVE  IInv'
<1>1. PICK s \in Calls(p, "parent") :
        /\ IF Head(s).id \in Live(files) /\ IsFolder(files[Head(s).id])
             THEN Goto(p, Tail(s)) ELSE Abort(p)
        /\ UNCHANGED <<data, total, bounds>>
  BY DEF CheckParent, Reads, Abort, Accepts
<1>2. CASE Goto(p, Tail(s)) /\ Head(s).id \in Live(files) /\ IsFolder(files[Head(s).id])
  <2> DEFINE P == Safe \cup Pending(todo[p])
  <2>1. todo[p] \in Seq(FramesAt(P)) /\ Root \in P
    BY SafeFacts DEF IInv, TodoOK
  <2>2. s \in Ready(todo[p]) /\ Head(s).op = "parent"
    BY DEF Calls
  <2>3. /\ s \in Seq(FramesAt(P)) /\ s # <<>>
        /\ Head(todo[p]).op = "parent" => s = todo[p]
    <3> HIDE DEF P
    <3> QED
      BY <2>1, <2>2, ReadySeq
  <2>4. Head(s).id \in Safe
    BY <1>2, SafeFacts DEF Live
  <2>5. P = Safe
    BY <2>3, <2>4 DEF Pending
  <2>6. Tail(s) \in Seq(FramesAt(Safe))
    <3>1. s \in Seq(FramesAt(Safe)) /\ s # <<>>
      BY <2>1, <2>2, <2>3, <2>5, ReadySeq
    <3> QED
      BY <3>1
  <2> QED
    BY <1>1, <1>2, <2>6, QuietSafeStep
<1>3. CASE Abort(p)
  BY <1>1, <1>3, AbortStep
<1> QED
  BY <1>1, <1>2, <1>3

LEMMA ParentCheckSeq ==
    ASSUME NEW P, Root \in P, NEW to \in Nat, NEW s \in Seq(FramesAt(P \cup {to})),
           to = Root => s # <<>> /\ Head(s).op # "parent"
    PROVE  ParentCheck(to) \o s \in Seq(FramesAt(P \cup Pending(ParentCheck(to) \o s)))
<1>1. CASE to = Root
  <2>1. ParentCheck(to) \o s = s
    BY <1>1 DEF ParentCheck
  <2>2. P \cup {to} \subseteq P \cup Pending(s)
    BY <1>1
  <2> QED
    BY <2>1, <2>2, FramesMonotone
<1>2. CASE to # Root
  <2>1. At("parent", to) \in FramesAt(P \cup {to})
    BY AtFrame DEF AtOps
  <2>2. ParentCheck(to) = <<At("parent", to)>>
    BY <1>2 DEF ParentCheck
  <2>3. ParentCheck(to) \in Seq(FramesAt(P \cup {to}))
    BY <2>1, <2>2
  <2>4. ParentCheck(to) \o s \in Seq(FramesAt(P \cup {to}))
    BY <2>3, Concat
  <2>5. ParentCheck(to) \o s # <<>> /\ Head(ParentCheck(to) \o s) = At("parent", to)
    <3>1. Len(ParentCheck(to)) = 1 /\ ParentCheck(to)[1] = At("parent", to)
      BY <2>2
    <3>2. s \in Seq(FramesAt(P \cup {to}))
      OBVIOUS
    <3> HIDE DEF ParentCheck
    <3> QED
      BY <2>3, <3>1, <3>2
  <2>6. Pending(ParentCheck(to) \o s) = {to}
    BY <2>5 DEF Pending, At
  <2> QED
    BY <2>4, <2>6
<1> QED
  BY <1>1, <1>2

\* A request that validates a destination before it uses it.
LEMMA ParentCheckGoto ==
    ASSUME IInv, NEW p \in Procs, NEW to \in Nat,
           NEW a \in Seq(FramesAt(Safe \cup {to})), NEW b \in Seq(FramesAt(Safe \cup {to})),
           to = Root => a = <<>>,
           b # <<>> /\ Head(b).op # "parent",
           Goto(p, ParentCheck(to) \o a \o b), UNCHANGED <<data, total, bounds>>
    PROVE  IInv'
<1> DEFINE F == FramesAt(Safe \cup {to})
<1>1. Root \in Safe
  BY SafeFacts
<1>2. ParentCheck(to) \in Seq(F)
  <2>1. At("parent", to) \in F
    BY <1>1, AtFrame DEF AtOps
  <2> QED
    BY <2>1, Optional DEF ParentCheck
<1>3. /\ ParentCheck(to) \o a \o b = ParentCheck(to) \o (a \o b)
      /\ a \o b \in Seq(F)
      /\ to = Root => a \o b = b
  <2> HIDE DEF F
  <2>1. a \in Seq(F) /\ b \in Seq(F)
    BY DEF F
  <2> QED
    BY <1>2, <2>1, Concat, Concat3
<1>4. ParentCheck(to) \o (a \o b)
        \in Seq(FramesAt(Safe \cup Pending(ParentCheck(to) \o (a \o b))))
  <2> DEFINE u == a \o b
  <2>1. u \in Seq(F) /\ (to = Root => u # <<>> /\ Head(u).op # "parent")
    BY <1>3
  <2> HIDE DEF u
  <2>2. ParentCheck(to) \o u \in Seq(FramesAt(Safe \cup Pending(ParentCheck(to) \o u)))
    BY <1>1, <2>1, ParentCheckSeq
  <2> QED
    BY <2>2 DEF u
<1>5. UNCHANGED data /\ total' \in [Procs -> Nat]
  BY DEF IInv, TypeOK
<1> DEFINE t == ParentCheck(to) \o (a \o b)
<1>6. Goto(p, t) /\ t \in Seq(FramesAt(Safe \cup Pending(t)))
  BY <1>3, <1>4
<1> HIDE DEF t
<1> QED
  BY <1>5, <1>6, QuietStep DEF bounds

LEMMA MoveKeeps ==
    ASSUME IInv, NEW p \in Procs, Move(p)
    PROVE  IInv'
<1>1. PICK s \in Calls(p, "move") :
        LET i == Head(s).id
            to == Head(s).to
            walk == IF to # Root /\ IsFolder(files[i]) THEN <<Into("walk", i, to)>> ELSE <<>>
        IN  /\ IF i \in Live(files)
                 THEN Goto(p, ParentCheck(to) \o walk \o <<Into("setParent", i, to)>>)
                 ELSE Abort(p)
            /\ UNCHANGED <<data, total, bounds>>
  BY DEF Move, Reads, Abort, PlaceChecks
<1> DEFINE h == Head(s)
<1>2. h \in Frame /\ h.op = "move" /\ PlaceOf(h) \in Safe /\ Tail(s) \in Seq(FramesAt(Safe))
  BY CallFacts
<1>3. Safe \subseteq Nat /\ Root \in Safe
  BY SafeFacts
<1> DEFINE i == h.id
           to == h.to
           walk == IF to # Root /\ IsFolder(files[i]) THEN <<Into("walk", i, to)>> ELSE <<>>
<1>4. i \in Nat /\ to \in Nat
  BY <1>2, FrameFields DEF PlaceOps
<1>5. CASE Abort(p)
  BY <1>1, <1>5, AbortStep
<1>6. CASE Goto(p, ParentCheck(to) \o walk \o <<Into("setParent", i, to)>>)
  <2> DEFINE F == FramesAt(Safe \cup {to})
             b == <<Into("setParent", i, to)>>
  <2>1. Into("walk", i, to) \in F /\ Into("setParent", i, to) \in F
    BY <1>3, <1>4, IntoFrame DEF PlaceOps
  <2>2. walk \in Seq(F) /\ (to = Root => walk = <<>>)
    BY <2>1, Optional
  <2>3. b \in Seq(F) /\ b # <<>> /\ Head(b).op # "parent"
    BY <2>1, Single DEF Into
  <2>4. UNCHANGED <<data, total, bounds>>
    BY <1>1
  <2> HIDE DEF walk, b, to
  <2> QED
    BY <1>4, <1>6, <2>2, <2>3, <2>4, ParentCheckGoto DEF b
<1> QED
  BY <1>1, <1>5, <1>6

\* The list a find() returns, as a loop over it.
LEMMA LoopSeq ==
    ASSUME IInv, NEW op \in EachOps, NEW S \in SUBSET DOMAIN files, NEW to \in Safe,
           NEW rest \in Seq(FramesAt(Safe))
    PROVE  /\ Each(op, Fetch(S), to) \in Seq(FramesAt(Safe))
           /\ Each(op, Fetch(S), to) \o rest \in Seq(FramesAt(Safe))
<1>1. Fetch(S) \in SUBSET Kid
  BY SafeFacts DEF Fetch, Kid, IInv, TypeOK
<1>2. to \in Nat
  BY SafeFacts
<1>3. Each(op, Fetch(S), to) \in Seq(FramesAt(Safe))
  BY <1>1, <1>2, EachSeq
<1> QED
  BY <1>3, Concat

LEMMA WalkKeeps ==
    ASSUME IInv, NEW p \in Procs, Walk(p)
    PROVE  IInv'
<1>1. PICK s \in Calls(p, "walk") :
        LET i == Head(s).id
            cur == Head(s).to
            up == IF cur \in DOMAIN files THEN files[cur].parent ELSE Root
        IN  /\ IF cur = i THEN Abort(p)
               ELSE Goto(p, (IF up = Root THEN <<>> ELSE <<Into("walk", i, up)>>) \o Tail(s))
            /\ UNCHANGED <<data, total, bounds>>
  BY DEF Walk, Reads, Abort, WalkUp
<1> DEFINE h == Head(s)
<1>2. h \in Frame /\ h.op = "walk" /\ PlaceOf(h) \in Safe /\ Tail(s) \in Seq(FramesAt(Safe))
  BY CallFacts
<1>3. Safe \subseteq Nat /\ Root \in Safe
  BY SafeFacts
<1> DEFINE i == h.id
           up == IF h.to \in DOMAIN files THEN files[h.to].parent ELSE Root
           again == IF up = Root THEN <<>> ELSE <<Into("walk", i, up)>>
<1>4. i \in Nat /\ up \in Nat
  BY <1>2, <1>3, FrameFields DEF PlaceOps, IInv
<1>5. again \in Seq(FramesAt(Safe))
  <2>1. Into("walk", i, up) \in FramesAt(Safe)
    BY <1>3, <1>4, IntoFrame DEF PlaceOps
  <2> QED
    BY <2>1, Optional
<1>6. again \o Tail(s) \in Seq(FramesAt(Safe))
  BY <1>2, <1>5, Concat
<1>7. Abort(p) \/ Goto(p, again \o Tail(s))
  BY <1>1
<1> HIDE DEF again
<1> QED
  BY <1>1, <1>6, <1>7, AbortStep, QuietSafeStep

LEMMA SetParentKeeps ==
    ASSUME IInv, NEW p \in Procs, SetParent(p)
    PROVE  IInv'
<1>1. PICK s \in Calls(p, "setParent") :
        /\ SetDoc(Head(s).id, [files[Head(s).id] EXCEPT !.parent = Head(s).to])
        /\ Goto(p, Tail(s))
        /\ UNCHANGED <<used, messages, nextId, nextMsg, queue, uploads, total, bounds>>
  BY DEF SetParent, Sets
<1> DEFINE h == Head(s)
<1>2. h \in Frame /\ h.op = "setParent" /\ PlaceOf(h) \in Safe /\ Tail(s) \in Seq(FramesAt(Safe))
  BY CallFacts
<1>3. Safe \subseteq Nat /\ Root \in Safe
  BY SafeFacts
<1>4. h.to \in Safe /\ h.to \in Nat
  BY <1>2, <1>3 DEF PlaceOf, EachOps
<1> DEFINE d == [files[h.id] EXCEPT !.parent = h.to]
<1>5. h.id \in DOMAIN files => d \in Doc /\ d.kind = files[h.id].kind /\ d.parent \in Safe
  BY <1>4 DEF Doc, IInv, TypeOK
<1>6. SetDoc(h.id, d) /\ Goto(p, Tail(s)) /\ UNCHANGED <<used, messages, nextId, nextMsg, queue, uploads, total, bounds>>
  BY <1>1
<1> HIDE DEF h, d
<1> QED
  BY <1>2, <1>5, <1>6, SetDocStep

LEMMA MarkKeeps ==
    ASSUME IInv, NEW p \in Procs, Mark(p)
    PROVE  IInv'
<1>1. PICK s \in Calls(p, "mark") :
        /\ SetDoc(Head(s).id, [files[Head(s).id] EXCEPT !.trash = "trashed"])
        /\ Goto(p, Tail(s))
        /\ UNCHANGED <<used, messages, nextId, nextMsg, queue, uploads, total, bounds>>
  BY DEF Mark, Sets
<1> DEFINE h == Head(s)
<1>2. h \in Frame /\ h.op = "mark" /\ PlaceOf(h) \in Safe /\ Tail(s) \in Seq(FramesAt(Safe))
  BY CallFacts
<1>3. Safe \subseteq Nat /\ Root \in Safe
  BY SafeFacts
<1> DEFINE d == [files[h.id] EXCEPT !.trash = "trashed"]
<1>4. h.id \in DOMAIN files => d \in Doc /\ d.kind = files[h.id].kind /\ d.parent \in Safe
  BY DEF Doc, IInv, TypeOK
<1>5. SetDoc(h.id, d) /\ Goto(p, Tail(s)) /\ UNCHANGED <<used, messages, nextId, nextMsg, queue, uploads, total, bounds>>
  BY <1>1
<1> HIDE DEF h, d
<1> QED
  BY <1>2, <1>4, <1>5, SetDocStep

LEMMA UnmarkKeeps ==
    ASSUME IInv, NEW p \in Procs, Unmark(p)
    PROVE  IInv'
<1>1. PICK s \in Calls(p, "unmark") :
        /\ SetDoc(Head(s).id, [files[Head(s).id] EXCEPT !.trash = "live"])
        /\ Goto(p, Tail(s))
        /\ UNCHANGED <<used, messages, nextId, nextMsg, queue, uploads, total, bounds>>
  BY DEF Unmark, Sets
<1> DEFINE h == Head(s)
<1>2. h \in Frame /\ h.op = "unmark" /\ PlaceOf(h) \in Safe /\ Tail(s) \in Seq(FramesAt(Safe))
  BY CallFacts
<1>3. Safe \subseteq Nat /\ Root \in Safe
  BY SafeFacts
<1> DEFINE d == [files[h.id] EXCEPT !.trash = "live"]
<1>4. h.id \in DOMAIN files => d \in Doc /\ d.kind = files[h.id].kind /\ d.parent \in Safe
  BY DEF Doc, IInv, TypeOK
<1>5. SetDoc(h.id, d) /\ Goto(p, Tail(s)) /\ UNCHANGED <<used, messages, nextId, nextMsg, queue, uploads, total, bounds>>
  BY <1>1
<1> HIDE DEF h, d
<1> QED
  BY <1>2, <1>4, <1>5, SetDocStep

LEMMA CopyFileKeeps ==
    ASSUME IInv, NEW p \in Procs, CopyFile(p)
    PROVE  IInv'
<1>1. PICK s \in Calls(p, "copy") :
        LET i == Head(s).id
            to == Head(s).to
            d == files[i]
            walk == IF to # Root /\ IsFolder(d) THEN <<Into("walk", i, to)>> ELSE <<>>
        IN  /\ IF i \in Live(files)
                 THEN Goto(p, ParentCheck(to) \o walk \o <<Of("size", i, d), Copy("copyQuota", i, d, to)>>)
                 ELSE Abort(p)
            /\ UNCHANGED <<data, total, bounds>>
  BY DEF CopyFile, Reads, Abort, PlaceChecks
<1> DEFINE h == Head(s)
<1>2. h \in Frame /\ h.op = "copy" /\ PlaceOf(h) \in Safe /\ Tail(s) \in Seq(FramesAt(Safe))
  BY CallFacts
<1>3. Safe \subseteq Nat /\ Root \in Safe
  BY SafeFacts
<1> DEFINE i == h.id
           to == h.to
           d == files[i]
           walk == IF to # Root /\ IsFolder(d) THEN <<Into("walk", i, to)>> ELSE <<>>
           b == <<Of("size", i, d), Copy("copyQuota", i, d, to)>>
<1>4. i \in Nat /\ to \in Nat
  BY <1>2, FrameFields DEF PlaceOps
<1>5. CASE Abort(p)
  BY <1>1, <1>5, AbortStep
<1>6. CASE i \in Live(files) /\ Goto(p, ParentCheck(to) \o walk \o b)
  <2> DEFINE F == FramesAt(Safe \cup {to})
  <2>1. d \in Doc
    BY <1>6 DEF Live, IInv, TypeOK
  <2>2. Into("walk", i, to) \in F /\ Of("size", i, d) \in F /\ Copy("copyQuota", i, d, to) \in F
    BY <1>3, <1>4, <2>1, IntoFrame, OfFrame, CopyFrame DEF PlaceOps, DocOps
  <2>3. walk \in Seq(F) /\ (to = Root => walk = <<>>)
    BY <2>2, Optional
  <2>4. b \in Seq(F) /\ b # <<>> /\ Head(b).op # "parent"
    <3>1. b # <<>> /\ Head(b) = Of("size", i, d)
      OBVIOUS
    <3>2. b \in Seq(F)
      BY <2>2, Pair
    <3> QED
      BY <3>1, <3>2 DEF Of
  <2>5. UNCHANGED <<data, total, bounds>>
    BY <1>1
  <2> HIDE DEF walk, b, to
  <2> QED
    BY <1>4, <1>6, <2>3, <2>4, <2>5, ParentCheckGoto
<1> QED
  BY <1>1, <1>5, <1>6

LEMMA SubtreeSizeKeeps ==
    ASSUME IInv, NEW p \in Procs, SubtreeSize(p)
    PROVE  IInv'
<1>1. PICK s \in Calls(p, "size") :
        LET i == Head(s).id
            d == Head(s).doc
        IN  /\ Goto(p, (IF IsFolder(d) THEN Each("sizeEach", Fetch(LiveChildren(files, i)), Root) ELSE <<>>)
                       \o Tail(s))
            /\ total' = [total EXCEPT ![p] = @ + Bytes(d)]
            /\ UNCHANGED <<data, bounds>>
  BY DEF SubtreeSize
<1> DEFINE h == Head(s)
<1>2. h \in Frame /\ h.op = "size" /\ PlaceOf(h) \in Safe /\ Tail(s) \in Seq(FramesAt(Safe))
  BY CallFacts
<1>3. Safe \subseteq Nat /\ Root \in Safe
  BY SafeFacts
<1> DEFINE a == IF IsFolder(h.doc) THEN Each("sizeEach", Fetch(LiveChildren(files, h.id)), Root) ELSE <<>>
           t == a \o Tail(s)
<1>4. h.doc \in Doc
  BY <1>2, FrameFields DEF DocOps
<1>5. total' \in [Procs -> Nat]
  BY <1>1, <1>4, BytesNat DEF IInv, TypeOK
<1>6. a \in Seq(FramesAt(Safe))
  <2> DEFINE S == LiveChildren(files, h.id)
  <2>1. S \in SUBSET DOMAIN files
    BY DEF LiveChildren, Children
  <2> HIDE DEF S
  <2>2. Each("sizeEach", Fetch(S), Root) \in Seq(FramesAt(Safe))
    BY <1>2, <1>3, <2>1, LoopSeq DEF EachOps
  <2> QED
    BY <2>2 DEF S
<1>7. t \in Seq(FramesAt(Safe))
  BY <1>2, <1>6, Concat
<1>8. Goto(p, t) /\ UNCHANGED <<data, may>>
  BY <1>1 DEF bounds
<1> HIDE DEF t
<1>9. t \in Seq(FramesAt(Safe \cup Pending(t)))
  <2>1. Safe \subseteq Safe \cup Pending(t)
    OBVIOUS
  <2> QED
    BY <1>7, <2>1, FramesMonotone
<1> QED
  BY <1>5, <1>8, <1>9, QuietStep DEF bounds

LEMMA CopyQuotaKeeps ==
    ASSUME IInv, NEW p \in Procs, CopyQuota(p)
    PROVE  IInv'
<1>1. PICK s \in Calls(p, "copyQuota") :
        LET f == Head(s)
            copy == <<Copy("copyDoc", f.id, f.doc, f.to)>>
            charge == IF total[p] = 0 THEN <<>> ELSE <<Add(total[p])>>
        IN  Reads(p, IF Fits(total[p]) THEN copy \o charge ELSE <<>>)
  BY DEF CopyQuota, CopyThenCharge
<1> DEFINE h == Head(s)
<1>2. h \in Frame /\ h.op = "copyQuota" /\ PlaceOf(h) \in Safe /\ Tail(s) \in Seq(FramesAt(Safe))
  BY CallFacts
<1>3. Safe \subseteq Nat /\ Root \in Safe
  BY SafeFacts
<1> DEFINE c == Copy("copyDoc", h.id, h.doc, h.to)
           charge == IF total[p] = 0 THEN <<>> ELSE <<Add(total[p])>>
<1>4. h.id \in Nat /\ h.doc \in Doc /\ h.to \in Nat /\ h.to \in Safe /\ total[p] \in Int
  <2>1. h.to \in Safe
    BY <1>2 DEF PlaceOf
  <2> QED
    BY <1>2, <2>1, FrameFields DEF IInv, TypeOK
<1>5. c \in FramesAt(Safe) /\ Add(total[p]) \in FramesAt(Safe)
  BY <1>3, <1>4, CopyFrame, AddFrame
<1>6. <<c>> \o charge \in Seq(FramesAt(Safe))
  BY <1>5, Single, Optional, Concat
<1>7. (Abort(p) \/ Goto(p, <<c>> \o charge)) /\ UNCHANGED <<data, total, bounds>>
  BY <1>1 DEF Reads, Abort
<1> HIDE DEF c, charge
<1> QED
  BY <1>6, <1>7, AbortStep, QuietSafeStep

LEMMA CopyDocKeeps ==
    ASSUME IInv, NEW p \in Procs, CopyDoc(p)
    PROVE  IInv'
<1>1. PICK s \in Calls(p, "copyDoc") :
        LET f == Head(s)
        IN  /\ InsertDoc([f.doc EXCEPT !.parent = f.to, !.trash = "live"])
            /\ Goto(p, (IF IsFolder(f.doc) THEN <<Into("copyChildren", f.id, nextId)>> ELSE <<>>)
                       \o Tail(s))
            /\ UNCHANGED <<used, messages, nextMsg, queue, uploads, total, bounds>>
  BY DEF CopyDoc
<1> DEFINE h == Head(s)
<1>2. h \in Frame /\ h.op = "copyDoc" /\ PlaceOf(h) \in Safe /\ Tail(s) \in Seq(FramesAt(Safe))
  BY CallFacts
<1>3. Safe \subseteq Nat /\ Root \in Safe
  BY SafeFacts
<1> DEFINE d == [h.doc EXCEPT !.parent = h.to, !.trash = "live"]
           P == Safe \cup (IF IsFolder(d) THEN {nextId} ELSE {})
           a == IF IsFolder(h.doc) THEN <<Into("copyChildren", h.id, nextId)>> ELSE <<>>
<1>4. h.id \in Nat /\ h.doc \in Doc /\ h.to \in Nat /\ h.to \in Safe
  <2>1. h.to \in Safe
    BY <1>2 DEF PlaceOf
  <2> QED
    BY <1>2, <2>1, FrameFields
<1>5. d \in Doc /\ d.parent \in Safe /\ (IsFolder(d) <=> IsFolder(h.doc))
  BY <1>4 DEF Doc, IsFolder
<1>6. a \in Seq(FramesAt(P))
  <2>1. IsFolder(h.doc) => Into("copyChildren", h.id, nextId) \in FramesAt(P)
    BY <1>3, <1>4, <1>5, IntoFrame DEF PlaceOps, IInv, TypeOK
  <2> HIDE DEF P
  <2> QED
    BY <2>1, Optional
<1>7. Tail(s) \in Seq(FramesAt(P))
  <2>1. Safe \subseteq P
    OBVIOUS
  <2> HIDE DEF P
  <2> QED
    BY <1>2, <2>1, FramesMonotone
<1>8. a \o Tail(s) \in Seq(FramesAt(P))
  BY <1>6, <1>7, Concat
<1>9. InsertDoc(d) /\ Goto(p, a \o Tail(s)) /\ UNCHANGED <<used, messages, nextMsg, queue, uploads, total, bounds>>
  BY <1>1
<1> HIDE DEF a, d
<1> QED
  BY <1>5, <1>8, <1>9, InsertStep

LEMMA CopyChildrenKeeps ==
    ASSUME IInv, NEW p \in Procs, CopyChildren(p)
    PROVE  IInv'
<1>1. PICK s \in Calls(p, "copyChildren") :
        /\ Goto(p, Each("copyEach", Fetch(LiveChildren(files, Head(s).id)), Head(s).to) \o Tail(s))
        /\ UNCHANGED <<data, total, bounds>>
  BY DEF CopyChildren, Reads, ToCopy
<1> DEFINE h == Head(s)
<1>2. h \in Frame /\ h.op = "copyChildren" /\ PlaceOf(h) \in Safe /\ Tail(s) \in Seq(FramesAt(Safe))
  BY CallFacts
<1>3. Safe \subseteq Nat /\ Root \in Safe
  BY SafeFacts
<1>4. h.to \in Safe
  BY <1>2 DEF PlaceOf, EachOps
<1>5. LiveChildren(files, h.id) \in SUBSET DOMAIN files
  BY DEF LiveChildren, Children
<1> DEFINE t == Each("copyEach", Fetch(LiveChildren(files, h.id)), h.to) \o Tail(s)
<1>6. t \in Seq(FramesAt(Safe))
  BY <1>2, <1>4, <1>5, LoopSeq DEF EachOps
<1>7. Goto(p, t) /\ UNCHANGED <<data, total, bounds>>
  BY <1>1
<1> HIDE DEF t
<1> QED
  BY <1>6, <1>7, QuietSafeStep

LEMMA TrashChildrenKeeps ==
    ASSUME IInv, NEW p \in Procs, TrashChildren(p)
    PROVE  IInv'
<1>1. PICK s \in Calls(p, "trashChildren") :
        /\ Goto(p, Each("trashEach", Fetch(LiveChildren(files, Head(s).id)), Root) \o Tail(s))
        /\ UNCHANGED <<data, total, bounds>>
  BY DEF TrashChildren, Reads, ToTrash
<1> DEFINE h == Head(s)
<1>2. h \in Frame /\ h.op = "trashChildren" /\ PlaceOf(h) \in Safe /\ Tail(s) \in Seq(FramesAt(Safe))
  BY CallFacts
<1>3. Safe \subseteq Nat /\ Root \in Safe
  BY SafeFacts
<1> DEFINE S == LiveChildren(files, Head(s).id)
           t == Each("trashEach", Fetch(S), Root) \o Tail(s)
<1>4. S \in SUBSET DOMAIN files
  BY DEF LiveChildren, Children
<1>5. t \in Seq(FramesAt(Safe))
  <2> HIDE DEF S
  <2> QED
    BY <1>2, <1>3, <1>4, LoopSeq DEF EachOps
<1>6. Goto(p, t) /\ UNCHANGED <<data, total, bounds>>
  BY <1>1
<1> HIDE DEF t
<1> QED
  BY <1>5, <1>6, QuietSafeStep

LEMMA RestoreChildrenKeeps ==
    ASSUME IInv, NEW p \in Procs, RestoreChildren(p)
    PROVE  IInv'
<1>1. PICK s \in Calls(p, "restoreChildren") :
        /\ Goto(p, Each("restoreEach", Fetch(Children(files, Head(s).id) \ Live(files)), Root) \o Tail(s))
        /\ UNCHANGED <<data, total, bounds>>
  BY DEF RestoreChildren, Reads
<1> DEFINE h == Head(s)
<1>2. h \in Frame /\ h.op = "restoreChildren" /\ PlaceOf(h) \in Safe /\ Tail(s) \in Seq(FramesAt(Safe))
  BY CallFacts
<1>3. Safe \subseteq Nat /\ Root \in Safe
  BY SafeFacts
<1> DEFINE S == Children(files, Head(s).id) \ Live(files)
           t == Each("restoreEach", Fetch(S), Root) \o Tail(s)
<1>4. S \in SUBSET DOMAIN files
  BY DEF LiveChildren, Children
<1>5. t \in Seq(FramesAt(Safe))
  <2> HIDE DEF S
  <2> QED
    BY <1>2, <1>3, <1>4, LoopSeq DEF EachOps
<1>6. Goto(p, t) /\ UNCHANGED <<data, total, bounds>>
  BY <1>1
<1> HIDE DEF t
<1> QED
  BY <1>5, <1>6, QuietSafeStep

LEMMA PurgeKeeps ==
    ASSUME IInv, NEW p \in Procs, Purge(p)
    PROVE  IInv'
<1>1. PICK s \in Calls(p, "purge") :
        /\ Goto(p, Each("purgeEach", Fetch({i \in DOMAIN files : files[i].trash = "expired"}), Root) \o Tail(s))
        /\ UNCHANGED <<data, total, bounds>>
  BY DEF Purge, Reads
<1> DEFINE h == Head(s)
<1>2. h \in Frame /\ h.op = "purge" /\ PlaceOf(h) \in Safe /\ Tail(s) \in Seq(FramesAt(Safe))
  BY CallFacts
<1>3. Safe \subseteq Nat /\ Root \in Safe
  BY SafeFacts
<1> DEFINE S == {i \in DOMAIN files : files[i].trash = "expired"}
           t == Each("purgeEach", Fetch(S), Root) \o Tail(s)
<1>4. S \in SUBSET DOMAIN files
  BY DEF LiveChildren, Children
<1>5. t \in Seq(FramesAt(Safe))
  <2> HIDE DEF S
  <2> QED
    BY <1>2, <1>3, <1>4, LoopSeq DEF EachOps
<1>6. Goto(p, t) /\ UNCHANGED <<data, total, bounds>>
  BY <1>1
<1> HIDE DEF t
<1> QED
  BY <1>5, <1>6, QuietSafeStep

LEMMA UploadQuotaKeeps ==
    ASSUME IInv, NEW p \in Procs, UploadQuota(p)
    PROVE  IInv'
<1>1. PICK s \in Calls(p, "quota") :
        LET f == Head(s)
        IN  Reads(p, IF Fits(Size[f.content]) THEN <<New("dedup", f.content, f.to)>> \o Tail(s) ELSE <<>>)
  BY DEF UploadQuota
<1> DEFINE h == Head(s)
<1>2. h \in Frame /\ h.op = "quota" /\ PlaceOf(h) \in Safe /\ Tail(s) \in Seq(FramesAt(Safe))
  BY CallFacts
<1>3. Safe \subseteq Nat /\ Root \in Safe
  BY SafeFacts
<1> DEFINE n == New("dedup", h.content, h.to)
<1>4. h.content \in Contents /\ h.to \in Nat /\ h.to \in Safe
  <2>1. h.to \in Safe
    BY <1>2 DEF PlaceOf
  <2> QED
    BY <1>2, <2>1, FrameFields
<1>5. <<n>> \in Seq(FramesAt(Safe))
  BY <1>4, NewFrame, Single
<1>6. <<n>> \o Tail(s) \in Seq(FramesAt(Safe))
  BY <1>2, <1>5, Concat
<1>7. (Abort(p) \/ Goto(p, <<n>> \o Tail(s))) /\ UNCHANGED <<data, total, bounds>>
  BY <1>1 DEF Reads, Abort
<1> HIDE DEF n
<1> QED
  BY <1>6, <1>7, AbortStep, QuietSafeStep

LEMMA InitQuotaKeeps ==
    ASSUME IInv, NEW p \in Procs, InitQuota(p)
    PROVE  IInv'
<1>1. PICK s \in Calls(p, "initQuota") :
        Reads(p, IF used < Quota THEN ParentCheck(Head(s).id) \o <<Open(Head(s).id)>> ELSE <<>>)
  BY DEF InitQuota
<1> DEFINE to == Head(s).id
           b == <<Open(to)>>
           P == Safe \cup {to}
<1>2. Head(s) \in Frame /\ Head(s).op = "initQuota"
  BY CallFacts
<1>3. to \in Nat
  BY <1>2, FrameFields DEF AtOps
<1>4. Open(to) \in FramesAt(P) /\ Open(to).op # "parent"
  BY <1>3, OpenFrame DEF Open
<1>5. <<>> \in Seq(FramesAt(P)) /\ b \in Seq(FramesAt(P)) /\ b # <<>> /\ Head(b).op # "parent"
  BY <1>4
<1>6. CASE Reads(p, <<>>)
  BY <1>6, AbortStep DEF Reads, Abort
<1>7. CASE Reads(p, ParentCheck(to) \o b)
  <2>1. Goto(p, ParentCheck(to) \o b) /\ UNCHANGED <<data, total, bounds>>
    BY <1>7 DEF Reads
  <2> HIDE DEF to, b
  <2>2. ParentCheck(to) \o <<>> \o b = ParentCheck(to) \o b
    <3>1. ParentCheck(to) \in Seq({At("parent", to)})
      BY Optional DEF ParentCheck
    <3> QED
      BY <3>1
  <2> QED
    BY <1>3, <1>5, <2>1, <2>2, ParentCheckGoto
<1> QED
  BY <1>1, <1>6, <1>7

LEMMA OpenUploadKeeps ==
    ASSUME IInv, NEW p \in Procs, OpenUpload(p)
    PROVE  IInv'
<1>1. PICK s \in Calls(p, "openUpload") :
        /\ uploads' = uploads \cup {Head(s).to}
        /\ Goto(p, Tail(s))
        /\ UNCHANGED <<files, used, messages, nextId, nextMsg, queue, total, bounds>>
  BY DEF OpenUpload
<1> DEFINE h == Head(s)
<1>2. h \in Frame /\ h.op = "openUpload" /\ PlaceOf(h) \in Safe /\ Tail(s) \in Seq(FramesAt(Safe))
  BY CallFacts
<1>3. h.to \in Safe
  BY <1>2 DEF PlaceOf
<1>4. Safe' = Safe
  BY <1>1 DEF Safe
<1>5. Tail(s) \in Seq(FramesAt(Safe' \cup Pending(Tail(s))))
  <2>1. Safe \subseteq Safe' \cup Pending(Tail(s))
    BY <1>4
  <2> QED
    BY <1>2, <2>1, FramesMonotone
<1>6. /\ todo' \in [Procs -> Seq(Frame)]
      /\ \A q \in Procs : TodoOK(todo[q])'
  BY <1>1, <1>4, <1>5, GotoKeeps
<1>7. uploads' \subseteq Safe' /\ uploads' \subseteq 0 .. (nextId' - 1)
  BY <1>1, <1>3, <1>4 DEF IInv, Safe
<1>8. TypeOK'
  BY <1>1, <1>6, <1>7 DEF IInv, TypeOK, bounds
<1>9. \A j \in DOMAIN files' : files'[j].parent \in Safe'
  BY <1>1, <1>4 DEF IInv
<1> QED
  BY <1>6, <1>7, <1>8, <1>9 DEF IInv

LEMMA DedupKeeps ==
    ASSUME IInv, NEW p \in Procs, Dedup(p)
    PROVE  IInv'
<1>1. PICK s \in Calls(p, "dedup") :
        LET f == Head(s)
            same == {e \in DOMAIN files : files[e].kind = f.content}
        IN  /\ \/ /\ same = {}
                  /\ Goto(p, <<Insert(NewDoc(f.content, NoMessage, f.to), TRUE)>> \o Tail(s))
               \/ \E e \in same :
                    Goto(p, <<Insert(NewDoc(f.content, files[e].msg, f.to), FALSE)>> \o Tail(s))
            /\ UNCHANGED <<data, total, bounds>>
  BY DEF Dedup, Reads
<1> DEFINE h == Head(s)
<1>2. h \in Frame /\ h.op = "dedup" /\ PlaceOf(h) \in Safe /\ Tail(s) \in Seq(FramesAt(Safe))
  BY CallFacts
<1>3. Safe \subseteq Nat /\ Root \in Safe
  BY SafeFacts
<1>4. h.content \in Contents /\ h.to \in Nat /\ h.to \in Safe
  <2>1. h.to \in Safe
    BY <1>2 DEF PlaceOf
  <2> QED
    BY <1>2, <2>1, FrameFields
<1>5. ASSUME NEW m \in Nat, NEW send \in BOOLEAN,
             Goto(p, <<Insert(NewDoc(h.content, m, h.to), send)>> \o Tail(s))
      PROVE  IInv'
  <2> DEFINE d == NewDoc(h.content, m, h.to)
             n == Insert(d, send)
  <2>1. d \in Doc /\ d.parent \in Safe
    BY <1>4 DEF NewDoc, Doc
  <2>2. n \in FramesAt(Safe)
    <3> HIDE DEF d
    <3> QED
      BY <2>1, InsertFrame
  <2>3. <<n>> \in Seq(FramesAt(Safe))
    BY <2>2, Single
  <2>4. <<n>> \o Tail(s) \in Seq(FramesAt(Safe))
    BY <1>2, <2>3, Concat
  <2>5. Goto(p, <<n>> \o Tail(s))
    BY <1>5
  <2> HIDE DEF n
  <2> QED
    BY <1>1, <2>4, <2>5, QuietSafeStep
<1>6. NoMessage \in Nat /\ \A e \in DOMAIN files : files[e].msg \in Nat
  BY DEF NoMessage, IInv, TypeOK, Doc
<1>7. \E m \in Nat, send \in BOOLEAN : Goto(p, <<Insert(NewDoc(h.content, m, h.to), send)>> \o Tail(s))
  BY <1>1, <1>6
<1> QED
  BY <1>5, <1>7

LEMMA InsertNewKeeps ==
    ASSUME IInv, NEW p \in Procs, InsertNew(p)
    PROVE  IInv'
<1>1. PICK s \in Calls(p, "insert") :
        LET f == Head(s)
        IN  /\ InsertDoc(f.doc)
            /\ Goto(p, (IF IsFolder(f.doc) THEN <<>> ELSE <<Add(Bytes(f.doc))>>)
                       \o (IF f.send THEN <<At("enqueue", nextId)>> ELSE <<>>)
                       \o Tail(s))
            /\ UNCHANGED <<used, messages, nextMsg, queue, uploads, total, bounds>>
  BY DEF InsertNew
<1> DEFINE h == Head(s)
<1>2. h \in Frame /\ h.op = "insert" /\ PlaceOf(h) \in Safe /\ Tail(s) \in Seq(FramesAt(Safe))
  BY CallFacts
<1>3. Safe \subseteq Nat /\ Root \in Safe
  BY SafeFacts
<1> DEFINE d == h.doc
           P == Safe \cup (IF IsFolder(d) THEN {nextId} ELSE {})
           a == IF IsFolder(d) THEN <<>> ELSE <<Add(Bytes(d))>>
           b == IF h.send THEN <<At("enqueue", nextId)>> ELSE <<>>
<1>4. d \in Doc /\ d.parent \in Safe
  <2>1. d.parent \in Safe
    BY <1>2 DEF PlaceOf, EachOps
  <2> QED
    BY <1>2, <2>1, FrameFields
<1>5. Root \in P /\ Safe \subseteq P
  BY <1>3
<1>6. a \in Seq(FramesAt(P)) /\ b \in Seq(FramesAt(P)) /\ Tail(s) \in Seq(FramesAt(P))
  <2>1. Bytes(d) \in Int /\ nextId \in Nat
    BY <1>4, BytesNat DEF IInv, TypeOK
  <2> HIDE DEF P, d
  <2>2. Add(Bytes(d)) \in FramesAt(P) /\ At("enqueue", nextId) \in FramesAt(P)
    BY <1>5, <2>1, AddFrame, AtFrame DEF AtOps
  <2> QED
    BY <1>2, <1>5, <2>2, Optional, FramesMonotone
<1>7. a \o b \o Tail(s) \in Seq(FramesAt(P))
  <2> HIDE DEF P, a, b
  <2> QED
    BY <1>6, Concat3
<1>8. InsertDoc(d) /\ Goto(p, a \o b \o Tail(s)) /\ UNCHANGED <<used, messages, nextMsg, queue, uploads, total, bounds>>
  BY <1>1
<1> HIDE DEF a, b, d
<1> QED
  BY <1>4, <1>7, <1>8, InsertStep

LEMMA TrashKeeps ==
    ASSUME IInv, NEW p \in Procs, Trash(p)
    PROVE  IInv'
<1>1. PICK s \in Calls(p, "trash") :
        LET i == Head(s).id
        IN  /\ IF i \notin Live(files) THEN Abort(p)
               ELSE IF IsFolder(files[i]) THEN Goto(p, <<At("trashChildren", i), At("mark", i)>>)
               ELSE Goto(p, <<At("mark", i), Add(-Bytes(files[i]))>>)
            /\ UNCHANGED <<data, total, bounds>>
  BY DEF Trash, Reads, Abort
<1> DEFINE h == Head(s)
<1>2. h \in Frame /\ h.op = "trash" /\ PlaceOf(h) \in Safe /\ Tail(s) \in Seq(FramesAt(Safe))
  BY CallFacts
<1>3. Safe \subseteq Nat /\ Root \in Safe
  BY SafeFacts
<1> DEFINE a == <<At("trashChildren", h.id), At("mark", h.id)>>
           b == <<At("mark", h.id), Add(-Bytes(files[h.id]))>>
<1>4. h.id \in Nat
  BY <1>2, FrameFields DEF AtOps
<1>5. At("trashChildren", h.id) \in FramesAt(Safe) /\ At("mark", h.id) \in FramesAt(Safe)
  BY <1>3, <1>4, AtFrame DEF AtOps
<1>6. h.id \in Live(files) => Add(-Bytes(files[h.id])) \in FramesAt(Safe)
  <2>1. h.id \in Live(files) => Bytes(files[h.id]) \in Nat
    BY BytesNat DEF Live, IInv, TypeOK
  <2> QED
    BY <1>3, <2>1, AddFrame
<1>7. a \in Seq(FramesAt(Safe)) /\ (h.id \in Live(files) => b \in Seq(FramesAt(Safe)))
  BY <1>5, <1>6, Pair
<1>8. Abort(p) \/ Goto(p, a) \/ (h.id \in Live(files) /\ Goto(p, b))
  BY <1>1
<1> HIDE DEF a, b
<1> QED
  BY <1>1, <1>7, <1>8, AbortStep, QuietSafeStep

LEMMA RestoreKeeps ==
    ASSUME IInv, NEW p \in Procs, Restore(p)
    PROVE  IInv'
<1>1. PICK s \in Calls(p, "restore") :
        LET i == Head(s).id
            d == files[i]
        IN  /\ IF i \notin DOMAIN files \/ i \in Live(files) THEN Abort(p)
               ELSE Goto(p, (IF d.parent # Root THEN <<Of("restoreParent", i, d)>> ELSE <<>>)
                            \o <<Of("restoreCheck", i, d)>> \o Tail(s))
            /\ UNCHANGED <<data, total, bounds>>
  BY DEF Restore, Reads, Abort
<1> DEFINE h == Head(s)
<1>2. h \in Frame /\ h.op = "restore" /\ PlaceOf(h) \in Safe /\ Tail(s) \in Seq(FramesAt(Safe))
  BY CallFacts
<1>3. Safe \subseteq Nat /\ Root \in Safe
  BY SafeFacts
<1> DEFINE d == files[h.id]
           a == IF d.parent # Root THEN <<Of("restoreParent", h.id, d)>> ELSE <<>>
           b == <<Of("restoreCheck", h.id, d)>>
<1>4. CASE Abort(p)
  BY <1>1, <1>4, AbortStep
<1>5. CASE h.id \in DOMAIN files /\ Goto(p, a \o b \o Tail(s))
  <2>1. h.id \in Nat /\ d \in Doc
    BY <1>5, SafeFacts DEF IInv, TypeOK
  <2>2. Of("restoreParent", h.id, d) \in FramesAt(Safe) /\ Of("restoreCheck", h.id, d) \in FramesAt(Safe)
    BY <1>3, <2>1, OfFrame DEF DocOps
  <2>3. a \in Seq(FramesAt(Safe)) /\ b \in Seq(FramesAt(Safe))
    BY <2>2, Optional, Single
  <2> HIDE DEF a, b
  <2>4. a \o b \o Tail(s) \in Seq(FramesAt(Safe))
    BY <1>2, <2>3, Concat3
  <2> QED
    BY <1>1, <1>5, <2>4, QuietSafeStep
<1> QED
  BY <1>1, <1>4, <1>5

LEMMA RestoreParentKeeps ==
    ASSUME IInv, NEW p \in Procs, RestoreParent(p)
    PROVE  IInv'
<1>1. PICK s \in Calls(p, "restoreParent") :
        LET up == Head(s).doc.parent
            inTrash == up \in DOMAIN files /\ ~IsLive(files[up])
        IN  /\ Goto(p, (IF inTrash THEN <<At("restore", up)>> ELSE <<>>) \o Tail(s))
            /\ UNCHANGED <<data, total, bounds>>
  BY DEF RestoreParent, Reads
<1> DEFINE h == Head(s)
<1>2. h \in Frame /\ h.op = "restoreParent" /\ PlaceOf(h) \in Safe /\ Tail(s) \in Seq(FramesAt(Safe))
  BY CallFacts
<1>3. Safe \subseteq Nat /\ Root \in Safe
  BY SafeFacts
<1> DEFINE up == h.doc.parent
           inTrash == up \in DOMAIN files /\ ~IsLive(files[up])
           a == IF inTrash THEN <<At("restore", up)>> ELSE <<>>
<1>4. up \in Nat
  BY <1>2, FrameFields DEF DocOps, Doc
<1>5. a \in Seq(FramesAt(Safe))
  <2>1. At("restore", up) \in FramesAt(Safe)
    BY <1>3, <1>4, AtFrame DEF AtOps
  <2> HIDE DEF inTrash
  <2> QED
    BY <2>1, Optional
<1>6. a \o Tail(s) \in Seq(FramesAt(Safe))
  BY <1>2, <1>5, Concat
<1>7. Goto(p, a \o Tail(s)) /\ UNCHANGED <<data, total, bounds>>
  BY <1>1
<1> HIDE DEF a
<1> QED
  BY <1>6, <1>7, QuietSafeStep

LEMMA RestoreCheckKeeps ==
    ASSUME IInv, NEW p \in Procs, RestoreCheck(p)
    PROVE  IInv'
<1>1. PICK s \in Calls(p, "restoreCheck") :
        LET i == Head(s).id
            d == Head(s).doc
            rest == IF IsFolder(d) THEN At("restoreChildren", i) ELSE Add(Bytes(d))
        IN  /\ Goto(p, (IF i \in Live(files) THEN <<>> ELSE <<At("unmark", i), rest>>) \o Tail(s))
            /\ UNCHANGED <<data, total, bounds>>
  BY DEF RestoreCheck, Reads, Restored
<1> DEFINE h == Head(s)
<1>2. h \in Frame /\ h.op = "restoreCheck" /\ PlaceOf(h) \in Safe /\ Tail(s) \in Seq(FramesAt(Safe))
  BY CallFacts
<1>3. Safe \subseteq Nat /\ Root \in Safe
  BY SafeFacts
<1> DEFINE rest == IF IsFolder(h.doc) THEN At("restoreChildren", h.id) ELSE Add(Bytes(h.doc))
           a == IF h.id \in Live(files) THEN <<>> ELSE <<At("unmark", h.id), rest>>
<1>4. h.id \in Nat /\ Bytes(h.doc) \in Int
  BY <1>2, FrameFields, BytesNat DEF DocOps
<1>5. At("unmark", h.id) \in FramesAt(Safe) /\ rest \in FramesAt(Safe)
  BY <1>3, <1>4, AtFrame, AddFrame DEF AtOps
<1>6. a \in Seq(FramesAt(Safe))
  <2> HIDE DEF rest
  <2>1. <<At("unmark", h.id), rest>> \in Seq(FramesAt(Safe))
    BY <1>5, Pair
  <2> QED
    BY <2>1
<1>7. a \o Tail(s) \in Seq(FramesAt(Safe))
  BY <1>2, <1>6, Concat
<1>8. Goto(p, a \o Tail(s)) /\ UNCHANGED <<data, total, bounds>>
  BY <1>1
<1> HIDE DEF a
<1> QED
  BY <1>7, <1>8, QuietSafeStep

LEMMA DeleteKeeps ==
    ASSUME IInv, NEW p \in Procs, Delete(p)
    PROVE  IInv'
<1>1. PICK s \in Calls(p, "delete") :
        LET i == Head(s).id
        IN  Reads(p, (IF i \notin DOMAIN files THEN <<>>
                      ELSE IF IsFolder(files[i]) THEN <<At("deleteChildren", i), At("remove", i)>>
                      ELSE DeleteFile(i, files[i])) \o Tail(s))
  BY DEF Delete
<1> DEFINE h == Head(s)
<1>2. h \in Frame /\ h.op = "delete" /\ PlaceOf(h) \in Safe /\ Tail(s) \in Seq(FramesAt(Safe))
  BY CallFacts
<1>3. Safe \subseteq Nat /\ Root \in Safe
  BY SafeFacts
<1> DEFINE a == <<At("deleteChildren", h.id), At("remove", h.id)>>
           b == DeleteFile(h.id, files[h.id])
<1>4. h.id \in Nat
  BY <1>2, FrameFields DEF AtOps
<1>5. At("deleteChildren", h.id) \in FramesAt(Safe) /\ At("remove", h.id) \in FramesAt(Safe)
  BY <1>3, <1>4, AtFrame DEF AtOps
<1>6. a \in Seq(FramesAt(Safe))
  BY <1>5, Pair
<1>7. h.id \in DOMAIN files => b \in Seq(FramesAt(Safe))
  BY <1>3, <1>4, DeleteFileSeq DEF IInv, TypeOK
<1> DEFINE c == IF h.id \notin DOMAIN files THEN <<>> ELSE IF IsFolder(files[h.id]) THEN a ELSE b
<1>8. Goto(p, c \o Tail(s)) /\ UNCHANGED <<data, total, bounds>>
  BY <1>1 DEF Reads
<1> HIDE DEF a, b
<1>9. c \in Seq(FramesAt(Safe))
  BY <1>6, <1>7
<1> HIDE DEF c
<1>10. c \o Tail(s) \in Seq(FramesAt(Safe))
  BY <1>2, <1>9, Concat
<1> QED
  BY <1>8, <1>10, QuietSafeStep

LEMMA DeleteChildrenKeeps ==
    ASSUME IInv, NEW p \in Procs, DeleteChildren(p)
    PROVE  IInv'
<1>1. PICK s \in Calls(p, "deleteChildren") :
        LET i == Head(s).id
        IN  /\ Goto(p, Each("deleteEach", Fetch(Children(files, i)), Root) \o <<At("remove", i)>> \o Tail(s))
            /\ UNCHANGED <<data, total, bounds>>
  BY DEF DeleteChildren, Reads, DeleteTree
<1> DEFINE h == Head(s)
<1>2. h \in Frame /\ h.op = "deleteChildren" /\ PlaceOf(h) \in Safe /\ Tail(s) \in Seq(FramesAt(Safe))
  BY CallFacts
<1>3. Safe \subseteq Nat /\ Root \in Safe
  BY SafeFacts
<1> DEFINE a == Each("deleteEach", Fetch(Children(files, h.id)), Root)
           b == <<At("remove", h.id)>>
<1>4. h.id \in Nat
  BY <1>2, FrameFields DEF AtOps
<1>5. b \in Seq(FramesAt(Safe))
  BY <1>3, <1>4, AtFrame, Single DEF AtOps
<1>6. a \in Seq(FramesAt(Safe))
  <2>1. Children(files, h.id) \in SUBSET DOMAIN files
    BY DEF Children
  <2> QED
    BY <1>2, <1>3, <2>1, LoopSeq DEF EachOps
<1>7. Goto(p, a \o b \o Tail(s)) /\ UNCHANGED <<data, total, bounds>>
  BY <1>1
<1> HIDE DEF a, b
<1>8. a \o b \o Tail(s) \in Seq(FramesAt(Safe))
  BY <1>2, <1>5, <1>6, Concat3
<1> QED
  BY <1>7, <1>8, QuietSafeStep

LEMMA CountRefsKeeps ==
    ASSUME IInv, NEW p \in Procs, CountRefs(p)
    PROVE  IInv'
<1>1. PICK s \in Calls(p, "countRefs") :
        LET m == Head(s).msg
            others == {j \in DOMAIN files \ {Head(s).id} : files[j].msg = m}
        IN  /\ Goto(p, (IF others = {} THEN <<[op |-> "deleteMsg", msg |-> m]>> ELSE <<>>) \o Tail(s))
            /\ UNCHANGED <<data, total, bounds>>
  BY DEF CountRefs, Reads, Sharing
<1> DEFINE h == Head(s)
<1>2. h \in Frame /\ h.op = "countRefs" /\ PlaceOf(h) \in Safe /\ Tail(s) \in Seq(FramesAt(Safe))
  BY CallFacts
<1>3. Safe \subseteq Nat /\ Root \in Safe
  BY SafeFacts
<1> DEFINE others == {j \in DOMAIN files \ {h.id} : files[j].msg = h.msg}
           a == IF others = {} THEN <<[op |-> "deleteMsg", msg |-> h.msg]>> ELSE <<>>
<1>4. h.msg \in Nat
  BY <1>2, FrameFields
<1>5. a \in Seq(FramesAt(Safe))
  <2>1. [op |-> "deleteMsg", msg |-> h.msg] \in FramesAt(Safe)
    BY <1>3, <1>4, DeleteMsgFrame
  <2> HIDE DEF others
  <2> QED
    BY <2>1, Optional
<1>6. a \o Tail(s) \in Seq(FramesAt(Safe))
  BY <1>2, <1>5, Concat
<1>7. Goto(p, a \o Tail(s)) /\ UNCHANGED <<data, total, bounds>>
  BY <1>1
<1> HIDE DEF a
<1> QED
  BY <1>6, <1>7, QuietSafeStep

\* A step that touches the counter, the messages or the queue.
LEMMA PlainStep ==
    ASSUME IInv, NEW p \in Procs, NEW t \in Seq(FramesAt(Safe)), Goto(p, t),
           UNCHANGED <<files, nextId, uploads, total, may>>,
           used' \in Int, nextMsg' \in Nat \ {0}, messages' \subseteq 1 .. (nextMsg' - 1),
           queue' \in Seq(Nat)
    PROVE  IInv'
<1>1. Safe' = Safe
  BY DEF Safe
<1>2. t \in Seq(FramesAt(Safe' \cup Pending(t)))
  <2>1. Safe \subseteq Safe' \cup Pending(t)
    BY <1>1
  <2> QED
    BY <2>1, FramesMonotone
<1>3. /\ todo' \in [Procs -> Seq(Frame)]
      /\ \A q \in Procs : TodoOK(todo[q])'
  BY <1>1, <1>2, GotoKeeps
<1>4. TypeOK'
  BY <1>3 DEF IInv, TypeOK, bounds
<1>5. uploads' \subseteq Safe' /\ \A i \in DOMAIN files' : files'[i].parent \in Safe'
  BY <1>1 DEF IInv
<1> QED
  BY <1>3, <1>4, <1>5 DEF IInv

LEMMA AddUsedKeeps ==
    ASSUME IInv, NEW p \in Procs, AddUsed(p)
    PROVE  IInv'
<1>1. PICK s \in Calls(p, "add") :
        /\ used' = used + Head(s).bytes
        /\ Goto(p, Tail(s))
        /\ UNCHANGED <<files, messages, nextId, nextMsg, queue, uploads, total, bounds>>
  BY DEF AddUsed
<1> DEFINE h == Head(s)
<1>2. h \in Frame /\ h.op = "add" /\ PlaceOf(h) \in Safe /\ Tail(s) \in Seq(FramesAt(Safe))
  BY CallFacts
<1>3. Safe \subseteq Nat /\ Root \in Safe
  BY SafeFacts
<1>4. used' \in Int
  BY <1>1, <1>2, FrameFields DEF IInv, TypeOK
<1>5. /\ UNCHANGED <<files, nextId, uploads, total, may>> /\ Goto(p, Tail(s))
      /\ nextMsg' \in Nat \ {0} /\ messages' \subseteq 1 .. (nextMsg' - 1) /\ queue' \in Seq(Nat)
  BY <1>1 DEF IInv, TypeOK, bounds
<1> QED
  BY <1>2, <1>4, <1>5, PlainStep

LEMMA EnqueueKeeps ==
    ASSUME IInv, NEW p \in Procs, Enqueue(p)
    PROVE  IInv'
<1>1. PICK s \in Calls(p, "enqueue") :
        /\ queue' = Append(queue, Head(s).id)
        /\ Goto(p, Tail(s))
        /\ UNCHANGED <<files, used, messages, nextId, nextMsg, uploads, total, bounds>>
  BY DEF Enqueue
<1> DEFINE h == Head(s)
<1>2. h \in Frame /\ h.op = "enqueue" /\ PlaceOf(h) \in Safe /\ Tail(s) \in Seq(FramesAt(Safe))
  BY CallFacts
<1>3. Safe \subseteq Nat /\ Root \in Safe
  BY SafeFacts
<1>4. h.id \in Nat
  BY <1>2, FrameFields DEF AtOps
<1>5. queue' \in Seq(Nat)
  <2>1. queue \in Seq(Nat) /\ queue' = Append(queue, h.id)
    BY <1>1 DEF IInv, TypeOK
  <2> HIDE DEF h
  <2> QED
    BY <1>4, <2>1
<1>6. /\ UNCHANGED <<files, nextId, uploads, total, may>> /\ Goto(p, Tail(s))
      /\ nextMsg' \in Nat \ {0} /\ messages' \subseteq 1 .. (nextMsg' - 1) /\ used' \in Int
  BY <1>1 DEF IInv, TypeOK, bounds
<1> QED
  BY <1>2, <1>5, <1>6, PlainStep

LEMMA DeleteMsgKeeps ==
    ASSUME IInv, NEW p \in Procs, DeleteMsg(p)
    PROVE  IInv'
<1>1. PICK s \in Calls(p, "deleteMsg") :
        /\ \/ messages' = messages \ {Head(s).msg}
           \/ MayRefuse /\ UNCHANGED messages
        /\ Goto(p, Tail(s))
        /\ UNCHANGED <<files, used, nextId, nextMsg, queue, uploads, total, bounds>>
  BY DEF DeleteMsg
<1> DEFINE h == Head(s)
<1>2. h \in Frame /\ h.op = "deleteMsg" /\ PlaceOf(h) \in Safe /\ Tail(s) \in Seq(FramesAt(Safe))
  BY CallFacts
<1>3. Safe \subseteq Nat /\ Root \in Safe
  BY SafeFacts
<1>4. /\ UNCHANGED <<files, nextId, uploads, total, may>> /\ Goto(p, Tail(s))
      /\ nextMsg' \in Nat \ {0} /\ messages' \subseteq 1 .. (nextMsg' - 1)
      /\ used' \in Int /\ queue' \in Seq(Nat)
  BY <1>1 DEF IInv, TypeOK, bounds
<1> QED
  BY <1>2, <1>4, PlainStep

LEMMA RemoveKeeps ==
    ASSUME IInv, NEW p \in Procs, Remove(p)
    PROVE  IInv'
<1>1. PICK s \in Calls(p, "remove") :
        /\ files' = [j \in DOMAIN files \ {Head(s).id} |-> files[j]]
        /\ Goto(p, Tail(s))
        /\ UNCHANGED <<used, messages, nextId, nextMsg, queue, uploads, total, bounds>>
  BY DEF Remove
<1> DEFINE h == Head(s)
<1>2. h \in Frame /\ h.op = "remove" /\ PlaceOf(h) \in Safe /\ Tail(s) \in Seq(FramesAt(Safe))
  BY CallFacts
<1>3. Safe \subseteq Nat /\ Root \in Safe
  BY SafeFacts
<1>4. Safe \subseteq Safe'
  BY <1>1 DEF Safe
<1>5. Tail(s) \in Seq(FramesAt(Safe' \cup Pending(Tail(s))))
  <2>1. Safe \subseteq Safe' \cup Pending(Tail(s))
    BY <1>4
  <2> QED
    BY <1>2, <2>1, FramesMonotone
<1>6. /\ todo' \in [Procs -> Seq(Frame)]
      /\ \A q \in Procs : TodoOK(todo[q])'
  BY <1>1, <1>4, <1>5, GotoKeeps
<1>7. DOMAIN files' \subseteq DOMAIN files /\ \A j \in DOMAIN files' : files'[j] = files[j]
  BY <1>1
<1>8. TypeOK'
  BY <1>1, <1>6, <1>7 DEF IInv, TypeOK, bounds
<1>9. uploads' \subseteq Safe' /\ \A j \in DOMAIN files' : files'[j].parent \in Safe'
  BY <1>1, <1>4, <1>7 DEF IInv
<1> QED
  BY <1>6, <1>8, <1>9 DEF IInv

LEMMA SendKeeps ==
    ASSUME IInv, NEW p \in Procs, Send(p)
    PROVE  IInv'
<1>1. PICK s \in Calls(p, "send") :
        /\ \/ /\ messages' = messages \cup {nextMsg}
              /\ nextMsg' = nextMsg + 1
              /\ Goto(p, <<About("record", Head(s).id, nextMsg)>> \o Tail(s))
           \/ /\ Goto(p, Tail(s))
              /\ UNCHANGED <<messages, nextMsg>>
        /\ UNCHANGED <<files, used, nextId, queue, uploads, total, bounds>>
  BY DEF Send
<1> DEFINE h == Head(s)
<1>2. h \in Frame /\ h.op = "send" /\ PlaceOf(h) \in Safe /\ Tail(s) \in Seq(FramesAt(Safe))
  BY CallFacts
<1>3. Safe \subseteq Nat /\ Root \in Safe
  BY SafeFacts
<1> DEFINE a == <<About("record", h.id, nextMsg)>>
<1>4. h.id \in Nat /\ nextMsg \in Nat
  BY <1>2, FrameFields DEF AtOps, IInv, TypeOK
<1>5. a \in Seq(FramesAt(Safe))
  BY <1>3, <1>4, AboutFrame, Single
<1>6. Goto(p, a \o Tail(s)) \/ Goto(p, Tail(s))
  BY <1>1
<1>7. UNCHANGED <<files, nextId, uploads, total, may>> /\ used' \in Int /\ queue' \in Seq(Nat)
  BY <1>1 DEF IInv, TypeOK, bounds
<1>8. nextMsg' \in Nat \ {0} /\ messages' \subseteq 1 .. (nextMsg' - 1)
  <2>1. nextMsg \in Nat \ {0} /\ messages \subseteq 1 .. (nextMsg - 1)
    BY DEF IInv, TypeOK
  <2>2. CASE messages' = messages \cup {nextMsg} /\ nextMsg' = nextMsg + 1
    BY <2>1, <2>2
  <2>3. CASE UNCHANGED <<messages, nextMsg>>
    BY <2>1, <2>3
  <2> QED
    BY <1>1, <2>2, <2>3
<1> HIDE DEF a
<1>9. a \o Tail(s) \in Seq(FramesAt(Safe))
  BY <1>2, <1>5, Concat
<1> QED
  BY <1>2, <1>6, <1>7, <1>9, <1>8, PlainStep

LEMMA RecordKeeps ==
    ASSUME IInv, NEW p \in Procs, Record(p)
    PROVE  IInv'
<1>1. PICK s \in Calls(p, "record") :
        /\ SetDoc(Head(s).id, [files[Head(s).id] EXCEPT !.msg = Head(s).msg])
        /\ Goto(p, Tail(s))
        /\ UNCHANGED <<used, messages, nextId, nextMsg, queue, uploads, total, bounds>>
  BY DEF Record, Sets
<1> DEFINE h == Head(s)
<1>2. h \in Frame /\ h.op = "record" /\ PlaceOf(h) \in Safe /\ Tail(s) \in Seq(FramesAt(Safe))
  BY CallFacts
<1>3. Safe \subseteq Nat /\ Root \in Safe
  BY SafeFacts
<1> DEFINE d == [files[h.id] EXCEPT !.msg = h.msg]
<1>4. h.msg \in Nat
  BY <1>2, FrameFields
<1>5. h.id \in DOMAIN files => d \in Doc /\ d.kind = files[h.id].kind /\ d.parent \in Safe
  BY <1>4 DEF Doc, IInv, TypeOK
<1>6. SetDoc(h.id, d) /\ Goto(p, Tail(s)) /\ UNCHANGED <<used, messages, nextId, nextMsg, queue, uploads, total, bounds>>
  BY <1>1
<1> HIDE DEF h, d
<1> QED
  BY <1>2, <1>5, <1>6, SetDocStep

LEMMA TakeKeeps ==
    ASSUME IInv, NEW p \in Procs, Take(p)
    PROVE  IInv'
<1>1. queue \in Seq(Nat) /\ queue # <<>>
  BY DEF Take, IInv, TypeOK
<1>2. Head(queue) \in Nat /\ Tail(queue) \in Seq(Nat)
  BY <1>1
<1>3. <<At("send", Head(queue))>> \in Seq(FramesAt(Safe))
  BY <1>2, SafeFacts, AtFrame, Single DEF AtOps
<1>4. /\ UNCHANGED <<files, nextId, uploads, total, may>> /\ used' \in Int /\ queue' \in Seq(Nat)
      /\ nextMsg' \in Nat \ {0} /\ messages' \subseteq 1 .. (nextMsg' - 1)
      /\ Goto(p, <<At("send", Head(queue))>>)
  BY <1>2 DEF Take, IInv, TypeOK, bounds
<1> QED
  BY <1>3, <1>4, PlainStep

LEMMA BeginKeeps ==
    ASSUME IInv, NEW p \in Clients, Begin(p)
    PROVE  IInv'
<1>0. p \in Procs /\ may[p] \subseteq Kinds
  BY RolesAssumption DEF Procs, IInv, TypeOK
<1>1. PICK kind \in Kinds : \E s \in Requests[kind] : Goto(p, s)
  BY <1>0 DEF Begin
<1>2. PICK s \in Requests[kind] : Goto(p, s)
  BY <1>1
<1>3. /\ Safe \subseteq Nat /\ Root \in Safe
      /\ DOMAIN files \subseteq Nat
      /\ nextId \in Nat
      /\ UNCHANGED <<data, may>>
      /\ total' \in [Procs -> Nat]
  BY SafeFacts DEF Begin, IInv, TypeOK
<1> DEFINE ids == 1 .. (nextId - 1)
           places == {Root} \cup DOMAIN files
<1>4. ASSUME NEW t \in Seq(FramesAt(Safe)), Goto(p, t) PROVE IInv'
  <2>1. Safe \subseteq Safe \cup Pending(t)
    OBVIOUS
  <2>2. t \in Seq(FramesAt(Safe \cup Pending(t)))
    BY <2>1, FramesMonotone
  <2> QED
    BY <1>0, <1>3, <1>4, <2>2, QuietStep DEF bounds
<1>5. ASSUME NEW op \in {"trash", "restore", "delete"}, NEW i \in ids, s = <<At(op, i)>> PROVE IInv'
  <2>1. i \in Nat
    BY <1>3
  <2>2. s \in Seq(FramesAt(Safe))
    BY <1>3, <1>5, <2>1, AtFrame, Single DEF AtOps
  <2> QED
    BY <1>2, <1>4, <2>2
<1>6. ASSUME NEW op \in {"move", "copy"}, NEW i \in ids, NEW to \in places, s = <<Into(op, i, to)>>
      PROVE  IInv'
  <2>1. i \in Nat /\ to \in Nat
    BY <1>3 DEF Root
  <2>2. s \in Seq(FramesAt(Safe))
    BY <1>3, <1>6, <2>1, IntoFrame, Single DEF PlaceOps
  <2> QED
    BY <1>2, <1>4, <2>2
<1>7. ASSUME NEW to \in places, NEW f \in FramesAt(Safe \cup {to}), f.op # "parent",
             s = ParentCheck(to) \o <<f>>
      PROVE  IInv'
  <2>1. to \in Nat
    BY <1>3 DEF Root
  <2>2. <<f>> \in Seq(FramesAt(Safe \cup {to})) /\ <<f>> # <<>> /\ Head(<<f>>).op # "parent"
    BY <1>7, Single
  <2> DEFINE u == <<f>>
  <2> HIDE DEF u
  <2>3. ParentCheck(to) \o u \in Seq(FramesAt(Safe \cup Pending(ParentCheck(to) \o u)))
    BY <1>3, <2>1, <2>2, ParentCheckSeq DEF u
  <2>4. s \in Seq(FramesAt(Safe \cup Pending(s)))
    BY <1>7, <2>3 DEF u
  <2> QED
    BY <1>0, <1>2, <1>3, <2>4, QuietStep DEF bounds
<1>8. CASE kind = "trash"
  <2>1. \E i \in ids : s = <<At("trash", i)>>
    BY <1>2, <1>8 DEF Requests
  <2> QED
    BY <1>5, <2>1
<1>9. CASE kind = "restore"
  <2>1. \E i \in ids : s = <<At("restore", i)>>
    BY <1>2, <1>9 DEF Requests
  <2> QED
    BY <1>5, <2>1
<1>10. CASE kind = "delete"
  <2>1. \E i \in ids : s = <<At("delete", i)>>
    BY <1>2, <1>10 DEF Requests
  <2> QED
    BY <1>5, <2>1
<1>11. CASE kind = "move"
  <2>1. \E i \in ids, to \in places : s = <<Into("move", i, to)>>
    BY <1>2, <1>11 DEF Requests
  <2> QED
    BY <1>6, <2>1
<1>12. CASE kind = "copy"
  <2>1. \E i \in ids, to \in places : s = <<Into("copy", i, to)>>
    BY <1>2, <1>12 DEF Requests
  <2> QED
    BY <1>6, <2>1
<1>13. CASE kind = "mkdir"
  <2> DEFINE G(to) == ParentCheck(to) \o <<Insert(NewDoc("folder", NoMessage, to), FALSE)>>
  <2>0. Requests["mkdir"] = {G(to) : to \in places}
    <3> HIDE DEF places
    <3> QED
      BY DEF Requests, places
  <2> HIDE DEF G
  <2>1. PICK to \in places : s = G(to)
    BY <1>2, <1>13, <2>0
  <2> USE DEF G
  <2> DEFINE d == NewDoc("folder", NoMessage, to)
  <2>2. d \in Doc /\ d.parent = to
    BY <1>3 DEF NewDoc, Doc, NoMessage, Root
  <2>3. Insert(d, FALSE) \in FramesAt(Safe \cup {to})
    <3> HIDE DEF d
    <3> QED
      BY <2>2, InsertFrame
  <2>4. Insert(d, FALSE).op # "parent"
    BY DEF Insert
  <2> QED
    BY <1>7, <2>1, <2>3, <2>4
<1>14. CASE kind = "upload"
  <2>1. PICK c \in Contents, to \in places : s = ParentCheck(to) \o <<New("quota", c, to)>>
    BY <1>2, <1>14 DEF Requests
  <2>2. New("quota", c, to) \in FramesAt(Safe \cup {to})
    BY <1>3, NewFrame DEF Root
  <2>3. New("quota", c, to).op # "parent"
    BY DEF New
  <2> QED
    BY <1>7, <2>1, <2>2, <2>3
<1>15. CASE kind = "purge"
  <2>1. s = <<At("purge", Root)>>
    BY <1>2, <1>15 DEF Requests
  <2>2. s \in Seq(FramesAt(Safe))
    BY <1>3, <2>1, AtFrame, Single DEF AtOps, Root
  <2> QED
    BY <1>2, <1>4, <2>2
<1>16. CASE kind = "init"
  <2>1. PICK to \in places : s = <<At("initQuota", to)>>
    BY <1>2, <1>16 DEF Requests
  <2>2. s \in Seq(FramesAt(Safe))
    BY <1>3, <2>1, AtFrame, Single DEF AtOps, Root
  <2> QED
    BY <1>2, <1>4, <2>2
<1>17. CASE kind = "complete"
  <2>1. PICK c \in Contents, to \in uploads : s = <<New("dedup", c, to)>>
    BY <1>2, <1>17 DEF Requests
  <2>2. to \in Safe /\ to \in Nat
    BY <1>3 DEF IInv
  <2>3. s \in Seq(FramesAt(Safe))
    BY <2>1, <2>2, NewFrame, Single
  <2> QED
    BY <1>2, <1>4, <2>3
<1> QED
  BY <1>8, <1>9, <1>10, <1>11, <1>12, <1>13, <1>14, <1>15, <1>16, <1>17 DEF Kinds

LEMMA ExpireKeeps ==
    ASSUME IInv, NEW i \in DOMAIN files, Expire(i)
    PROVE  IInv'
<1> DEFINE d == [files[i] EXCEPT !.trash = "expired"]
<1>1. files' = [j \in DOMAIN files |-> IF j = i THEN d ELSE files[j]]
  BY DEF Expire, SetDoc
<1>2. d \in Doc /\ d.kind = files[i].kind /\ d.parent \in Safe
  BY DEF IInv, TypeOK, Doc
<1>3. Safe' = Safe
  BY <1>1, <1>2 DEF Expire, Safe, IsFolder
<1>4. TypeOK'
  BY <1>1, <1>2 DEF Expire, IInv, TypeOK, bounds
<1>5. \A p \in Procs : TodoOK(todo[p])'
  BY <1>3 DEF Expire, IInv, TodoOK, Pending
<1>6. uploads' \subseteq Safe' /\ \A j \in DOMAIN files' : files'[j].parent \in Safe'
  BY <1>1, <1>2, <1>3 DEF Expire, IInv
<1> QED
  BY <1>4, <1>5, <1>6 DEF IInv

LEMMA FailKeeps ==
    ASSUME IInv, NEW p \in Procs, Fail(p)
    PROVE  IInv'
<1>1. <<>> \in Seq(FramesAt(Safe \cup Pending(<<>>)))
  OBVIOUS
<1>2. Goto(p, <<>>) /\ UNCHANGED <<data, may>> /\ total' \in [Procs -> Nat]
  BY DEF Fail, Abort, IInv, TypeOK
<1> QED
  BY <1>1, <1>2, QuietStep DEF bounds

LEMMA RestartKeeps ==
    ASSUME IInv, Restart
    PROVE  IInv'
<1>1. Safe' = Safe
  BY DEF Restart, Safe
<1>2. \A P : <<>> \in Seq(P)
  OBVIOUS
<1>3. TypeOK'
  BY <1>2 DEF Restart, IInv, TypeOK, bounds
<1>4. \A p \in Procs : TodoOK(todo[p])'
  BY <1>2 DEF Restart, TodoOK
<1>5. uploads' \subseteq Safe' /\ \A j \in DOMAIN files' : files'[j].parent \in Safe'
  BY <1>1 DEF Restart, IInv
<1> QED
  BY <1>3, <1>4, <1>5 DEF IInv

(***************************************************************************)
(* The theorems.                                                           *)
(***************************************************************************)
LEMMA InitHolds == Init => IInv
<1> SUFFICES ASSUME Init PROVE IInv
  OBVIOUS
<1>1. /\ FirstId \in Nat \ {0} /\ FirstMsg \in Nat \ {0}
      /\ DOMAIN files \subseteq 1 .. (FirstId - 1)
      /\ \A i \in DOMAIN files : files[i] \in Doc /\ files[i].msg < FirstMsg
      /\ nextId = FirstId
  BY LibrariesAssumption DEF Init
<1>2. messages \subseteq 1 .. (FirstMsg - 1)
  BY <1>1 DEF Init, Doc, NoMessage
<1>3. \A P : <<>> \in Seq(P)
  OBVIOUS
<1>4. TypeOK
  BY <1>1, <1>2, <1>3 DEF Init, TypeOK
<1>5. uploads \subseteq Safe
  BY <1>1 DEF Init, Safe
<1>6. \A i \in DOMAIN files : files[i].parent \in Safe
  <2> SUFFICES ASSUME NEW i \in DOMAIN files PROVE files[i].parent \in Safe
    OBVIOUS
  <2>1. nextId \in Nat /\ nextId # 0 /\ DOMAIN files \subseteq 1 .. (nextId - 1)
    BY <1>1 DEF Init
  <2>2. CASE files[i].parent = Root
    BY <2>1, <2>2 DEF Root, Safe
  <2>3. CASE files[i].parent # Root
    <3>1. CASE i \in Firm(files, uploads)
      <4>1. files[i].parent \in DOMAIN files /\ IsFolder(files[files[i].parent])
        BY <2>3, <3>1 DEF Init, TreeClosed, Rooted
      <4> QED
        BY <2>1, <4>1 DEF Safe
    <3>2. CASE i \notin Firm(files, uploads)
      BY <1>5, <3>2 DEF Firm
    <3> QED
      BY <3>1, <3>2
  <2> QED
    BY <2>2, <2>3
<1>7. \A p \in Procs : TodoOK(todo[p])
  BY <1>3 DEF Init, TodoOK
<1> QED
  BY <1>4, <1>5, <1>6, <1>7 DEF IInv

LEMMA StepKeeps ==
    ASSUME IInv, NEW p \in Procs, Step(p)
    PROVE  IInv'
BY CheckParentKeeps, AddUsedKeeps, MoveKeeps, WalkKeeps, SetParentKeeps, CopyFileKeeps,
   SubtreeSizeKeeps, CopyQuotaKeeps, CopyDocKeeps, CopyChildrenKeeps, UploadQuotaKeeps,
   InitQuotaKeeps, OpenUploadKeeps, DedupKeeps, InsertNewKeeps, EnqueueKeeps, TrashKeeps, TrashChildrenKeeps, MarkKeeps,
   RestoreKeeps, RestoreParentKeeps, RestoreCheckKeeps, UnmarkKeeps, RestoreChildrenKeeps,
   DeleteKeeps, DeleteChildrenKeeps, CountRefsKeeps, DeleteMsgKeeps, RemoveKeeps, PurgeKeeps
DEF Step

LEMMA NextHolds == IInv /\ [Next]_vars => IInv'
<1> SUFFICES ASSUME IInv, [Next]_vars PROVE IInv'
  OBVIOUS
<1>1. CASE UNCHANGED vars
  BY <1>1 DEF vars, data, bounds, IInv, TypeOK, Safe, TodoOK, Pending
<1>2. ASSUME NEW c \in Clients, Begin(c) PROVE IInv'
  BY <1>2, BeginKeeps
<1>3. ASSUME NEW c \in Clients, Step(c) PROVE IInv'
  BY <1>3, StepKeeps DEF Procs
<1>4. ASSUME NEW w \in Workers, Take(w) PROVE IInv'
  BY <1>4, TakeKeeps DEF Procs
<1>5. ASSUME NEW w \in Workers, WorkerStep(w) PROVE IInv'
  BY <1>5, SendKeeps, RecordKeeps DEF WorkerStep, Procs
<1>6. ASSUME NEW i \in DOMAIN files, Expire(i) PROVE IInv'
  BY <1>6, ExpireKeeps
<1>7. ASSUME NEW p \in Procs, Fail(p) PROVE IInv'
  BY <1>7, FailKeeps
<1>8. CASE Restart
  BY <1>8, RestartKeeps
<1>9. CASE Finished
  BY <1>1, <1>9 DEF Finished
<1> QED
  BY <1>1, <1>2, <1>3, <1>4, <1>5, <1>6, <1>7, <1>8, <1>9 DEF Next

\* The inductive invariant holds in every behaviour.
THEOREM Invariance == Spec => []IInv
<1>1. Init => IInv
  BY InitHolds
<1>2. IInv /\ [Next]_vars => IInv'
  BY NextHolds
<1> QED
  BY <1>1, <1>2, PTL DEF Spec

\* Type correctness: whatever the clients ask for, in whatever interleaving
\* and with whatever crashes, every document, frame and counter keeps its
\* type, and ids are handed out once (file_service.py).
THEOREM TypeCorrect == Spec => []TypeOK
<1>1. IInv => TypeOK
  BY DEF IInv
<1> QED
  BY <1>1, Invariance, PTL

\* The folder of a document, as long as it exists, is a folder: the checks of
\* move_file, copy_file, create_folder and uploads on their destination
\* (file_service.py:83-85) are enough although every other request may run
\* between the check and the write.
THEOREM ParentsAreFolders == Spec => []ParentIsFolder
<1>1. IInv => ParentIsFolder
  BY DEF IInv, ParentIsFolder, Safe
<1> QED
  BY <1>1, Invariance, PTL

(***************************************************************************)
(* Every step of a process replaces the first call of what it has to do.   *)
(* Follows(p, h, new) says which calls new the code makes after the call h *)
(* and under which condition, Effect(h) what h does to the collections,    *)
(* Made(p, h) which frames new is made of.  What TreeProofs and            *)
(* AccountingProofs show is about frames and their order, so the proofs    *)
(* split on h, not on the action.                                          *)
(***************************************************************************)
Loop(op, kids, to) == [op |-> op, kids |-> kids, to |-> to]

\* The calls that are followed by nothing new.
Plain == {"openUpload", "add", "setParent", "enqueue", "mark", "unmark", "deleteMsg", "remove", "record"}

\* The calls after which a request may be over, although it had more to do.
Quits == {"parent", "move", "walk", "copy", "copyQuota", "quota", "initQuota", "trash", "restore"}

\* The calls that are followed by new calls only.
First == {"move", "copy", "copyQuota", "initQuota", "trash"}

Expired == {i \in DOMAIN files : files[i].trash = "expired"}

FollowsPlace(p, h, new) ==
    \/ h.op \in Plain /\ new = <<>>
    \/ h.op = "parent" /\ Accepts(h.id) /\ new = <<>>
    \/ /\ h.op = "move" /\ h.id \in Live(files)
       /\ new = PlaceChecks(h.id, h.to) \o <<Into("setParent", h.id, h.to)>>
    \/ h.op = "walk" /\ h.to # h.id /\ new = WalkUp(h.id, h.to)
    \/ /\ h.op = "copy" /\ h.id \in Live(files)
       /\ new = PlaceChecks(h.id, h.to)
                  \o <<Of("size", h.id, files[h.id]), Copy("copyQuota", h.id, files[h.id], h.to)>>
    \/ h.op = "size" /\ \/ ~IsFolder(h.doc) /\ new = <<>>
                        \/ /\ IsFolder(h.doc)
                           /\ new = Each("sizeEach", Fetch(LiveChildren(files, h.id)), Root)
    \/ /\ h.op = "copyQuota" /\ Fits(total[p])
       /\ \/ total[p] = 0 /\ new = <<Copy("copyDoc", h.id, h.doc, h.to)>>
          \/ total[p] # 0 /\ new = <<Copy("copyDoc", h.id, h.doc, h.to), Add(total[p])>>
    \/ h.op = "copyDoc" /\ \/ ~IsFolder(h.doc) /\ new = <<>>
                           \/ IsFolder(h.doc) /\ new = <<Into("copyChildren", h.id, nextId)>>
    \/ h.op = "copyChildren" /\ new = Each("copyEach", Fetch(LiveChildren(files, h.id)), h.to)
    \/ h.op = "quota" /\ new = <<New("dedup", h.content, h.to)>>
    \/ h.op = "initQuota" /\ new = ParentCheck(h.id) \o <<Open(h.id)>>
    \/ h.op = "dedup" /\ \/ new = <<Insert(NewDoc(h.content, NoMessage, h.to), TRUE)>>
                         \/ \E e \in DOMAIN files :
                              new = <<Insert(NewDoc(h.content, files[e].msg, h.to), FALSE)>>
    \/ /\ h.op = "insert"
       /\ new = (IF IsFolder(h.doc) THEN <<>> ELSE <<Add(Bytes(h.doc))>>)
                  \o (IF h.send THEN <<At("enqueue", nextId)>> ELSE <<>>)

FollowsTrash(h, new) ==
    \/ /\ h.op = "trash" /\ h.id \in Live(files)
       /\ \/ IsFolder(files[h.id]) /\ new = <<At("trashChildren", h.id), At("mark", h.id)>>
          \/ ~IsFolder(files[h.id]) /\ new = <<At("mark", h.id), Add(-Bytes(files[h.id]))>>
    \/ h.op = "trashChildren" /\ new = Each("trashEach", Fetch(LiveChildren(files, h.id)), Root)
    \/ /\ h.op = "restore" /\ h.id \in DOMAIN files \ Live(files)
       /\ \/ files[h.id].parent = Root /\ new = <<Of("restoreCheck", h.id, files[h.id])>>
          \/ new = <<Of("restoreParent", h.id, files[h.id]), Of("restoreCheck", h.id, files[h.id])>>
    \/ h.op = "restoreParent" /\ \/ h.doc.parent \notin DOMAIN files \ Live(files) /\ new = <<>>
                                 \/ /\ h.doc.parent \in DOMAIN files
                                    /\ new = <<At("restore", h.doc.parent)>>
    \/ /\ h.op = "restoreCheck"
       /\ \/ h.id \in Live(files) /\ new = <<>>
          \/ /\ h.id \notin Live(files) /\ IsFolder(h.doc)
             /\ new = <<At("unmark", h.id), At("restoreChildren", h.id)>>
          \/ /\ h.id \notin Live(files) /\ ~IsFolder(h.doc)
             /\ new = <<At("unmark", h.id), Add(Bytes(h.doc))>>
    \/ /\ h.op = "restoreChildren"
       /\ new = Each("restoreEach", Fetch(Children(files, h.id) \ Live(files)), Root)

FollowsDelete(h, new) ==
    \/ /\ h.op = "delete"
       /\ \/ h.id \notin DOMAIN files /\ new = <<>>
          \/ /\ h.id \in DOMAIN files /\ IsFolder(files[h.id])
             /\ new = <<At("deleteChildren", h.id), At("remove", h.id)>>
          \/ /\ h.id \in DOMAIN files /\ ~IsFolder(files[h.id])
             /\ new = DeleteFile(h.id, files[h.id])
    \/ h.op = "deleteChildren" /\ new = DeleteTree(h.id)
    \/ h.op = "countRefs" /\ \/ Sharing(h.id, h.msg) # {} /\ new = <<>>
                             \/ /\ Sharing(h.id, h.msg) = {}
                                /\ new = <<[op |-> "deleteMsg", msg |-> h.msg]>>
    \/ h.op = "purge" /\ new = Each("purgeEach", Fetch(Expired), Root)
    \/ /\ h.op = "send"
       /\ \/ new = <<>> /\ UNCHANGED <<messages, nextMsg>>
          \/ /\ new = <<About("record", h.id, nextMsg)>>
             /\ messages' = messages \cup {nextMsg} /\ nextMsg' = nextMsg + 1

Follows(p, h, new) == FollowsPlace(p, h, new) \/ FollowsTrash(h, new) \/ FollowsDelete(h, new)

\* What the call h does to the documents.
FilesEffect(h) ==
    \/ /\ h.op \notin {"setParent", "mark", "unmark", "record", "remove", "insert", "copyDoc"}
       /\ UNCHANGED <<files, nextId>>
    \/ h.op = "setParent" /\ SetDoc(h.id, [files[h.id] EXCEPT !.parent = h.to]) /\ UNCHANGED nextId
    \/ h.op = "mark" /\ SetDoc(h.id, [files[h.id] EXCEPT !.trash = "trashed"]) /\ UNCHANGED nextId
    \/ h.op = "unmark" /\ SetDoc(h.id, [files[h.id] EXCEPT !.trash = "live"]) /\ UNCHANGED nextId
    \/ h.op = "record" /\ SetDoc(h.id, [files[h.id] EXCEPT !.msg = h.msg]) /\ UNCHANGED nextId
    \/ h.op = "remove" /\ files' = [j \in DOMAIN files \ {h.id} |-> files[j]] /\ UNCHANGED nextId
    \/ h.op = "insert" /\ InsertDoc(h.doc)
    \/ h.op = "copyDoc" /\ InsertDoc([h.doc EXCEPT !.parent = h.to, !.trash = "live"])

\* What it does to the messages, to the queue and to the chunked uploads.
MessagesEffect(h) ==
    \/ h.op \notin {"deleteMsg", "send"} /\ UNCHANGED <<messages, nextMsg>>
    \/ /\ h.op = "deleteMsg" /\ UNCHANGED nextMsg
       /\ messages' = messages \ {h.msg} \/ (MayRefuse /\ UNCHANGED messages)
    \/ h.op = "send"

QueueEffect(h) ==
    /\ \/ h.op # "enqueue" /\ UNCHANGED queue
       \/ h.op = "enqueue" /\ queue' = Append(queue, h.id)
    /\ uploads' = IF h.op = "openUpload" THEN uploads \cup {h.to} ELSE uploads

\* And to the counters.
UsedEffect(h) == used' = IF h.op = "add" THEN used + h.bytes ELSE used

TotalEffect(p, h) == total' = IF h.op = "size" THEN [total EXCEPT ![p] = @ + Bytes(h.doc)] ELSE total

Effect(h) == FilesEffect(h) /\ MessagesEffect(h) /\ QueueEffect(h) /\ UsedEffect(h) /\ UNCHANGED <<may, faults>>

\* The frames of a file's deletion.
FileFrames(i, d) ==
    {Add(-Bytes(d)), At("remove", i)}
    \cup (IF d.msg # NoMessage THEN {About("countRefs", i, d.msg)} ELSE {})

Made(p, h) ==
    CASE h.op = "move" -> {At("parent", h.to), Into("walk", h.id, h.to), Into("setParent", h.id, h.to)}
      [] h.op = "walk" -> {Into("walk", h.id, files[j].parent) : j \in DOMAIN files}
      [] h.op = "copy" -> {At("parent", h.to), Into("walk", h.id, h.to), Of("size", h.id, files[h.id]),
                           Copy("copyQuota", h.id, files[h.id], h.to)}
      [] h.op = "size" -> {Loop("sizeEach", Fetch(LiveChildren(files, h.id)), Root)}
      [] h.op = "copyQuota" -> {Copy("copyDoc", h.id, h.doc, h.to), Add(total[p])}
      [] h.op = "copyDoc" -> IF IsFolder(h.doc) THEN {Into("copyChildren", h.id, nextId)} ELSE {}
      [] h.op = "copyChildren" -> {Loop("copyEach", Fetch(LiveChildren(files, h.id)), h.to)}
      [] h.op = "quota" -> {New("dedup", h.content, h.to)}
      [] h.op = "initQuota" -> {At("parent", h.id), Open(h.id)}
      [] h.op = "dedup" -> {Insert(NewDoc(h.content, NoMessage, h.to), TRUE)}
                             \cup {Insert(NewDoc(h.content, files[e].msg, h.to), FALSE) : e \in DOMAIN files}
      [] h.op = "insert" -> {Add(Bytes(h.doc))} \cup (IF h.send THEN {At("enqueue", nextId)} ELSE {})
      [] h.op = "trash" -> {At("trashChildren", h.id), At("mark", h.id), Add(-Bytes(files[h.id]))}
      [] h.op = "trashChildren" -> {Loop("trashEach", Fetch(LiveChildren(files, h.id)), Root)}
      [] h.op = "restore" -> {Of("restoreParent", h.id, files[h.id]), Of("restoreCheck", h.id, files[h.id])}
      [] h.op = "restoreParent" -> IF h.doc.parent \in DOMAIN files THEN {At("restore", h.doc.parent)} ELSE {}
      [] h.op = "restoreCheck" -> {At("unmark", h.id), At("restoreChildren", h.id), Add(Bytes(h.doc))}
      [] h.op = "restoreChildren" ->
           {Loop("restoreEach", Fetch(Children(files, h.id) \ Live(files)), Root)}
      [] h.op = "delete" ->
           IF h.id \notin DOMAIN files THEN {}
           ELSE IF IsFolder(files[h.id]) THEN {At("deleteChildren", h.id), At("remove", h.id)}
           ELSE FileFrames(h.id, files[h.id])
      [] h.op = "deleteChildren" ->
           {Loop("deleteEach", Fetch(Children(files, h.id)), Root), At("remove", h.id)}
      [] h.op = "countRefs" -> {[op |-> "deleteMsg", msg |-> h.msg]}
      [] h.op = "purge" -> {Loop("purgeEach", Fetch(Expired), Root)}
      [] h.op = "send" -> {About("record", h.id, nextMsg)}
      [] OTHER -> {}

\* The frames of one iteration of a loop, for the document k.
IterationMade(op, k, to) ==
    CASE op = "trashEach" -> {At("trashChildren", k.id), Add(-Bytes(k.doc)), At("mark", k.id)}
      [] op = "restoreEach" -> {At("restoreChildren", k.id), Add(Bytes(k.doc)), At("unmark", k.id)}
      [] op = "deleteEach" -> IF IsFolder(k.doc) THEN {At("deleteChildren", k.id)}
                              ELSE FileFrames(k.id, k.doc)
      [] op = "purgeEach" -> {At("delete", k.id)}
      [] op = "sizeEach" -> {Of("size", k.id, k.doc)}
      [] op = "copyEach" -> {Copy("copyDoc", k.id, k.doc, to)}

(***************************************************************************)
(* Every step has this shape.                                              *)
(***************************************************************************)
\* Process p, before the calls s, goes on with new and then rest.
GoesOn(p, s, new, rest) ==
    /\ Goto(p, new \o rest)
    /\ new \in Seq(Made(p, Head(s)))
    /\ \/ /\ Head(s).op \in Quits /\ new = <<>> /\ rest = <<>>
          /\ UNCHANGED <<data, total, bounds>>
       \/ /\ Follows(p, Head(s), new) /\ Effect(Head(s)) /\ TotalEffect(p, Head(s))
          /\ rest = IF Head(s).op \in First THEN <<>> ELSE Tail(s)

LEMMA EmptyCalls ==
    ASSUME NEW M, NEW b \in Seq(M)
    PROVE  /\ <<>> \o b = b /\ b \o <<>> = b
           /\ \A N : <<>> \in Seq(N)
OBVIOUS

LEMMA EmptyConcat == <<>> \o <<>> = <<>>
OBVIOUS

LEMMA CallTail ==
    ASSUME IInv, NEW p \in Procs, NEW op, NEW s \in Calls(p, op)
    PROVE  /\ s \in Ready(todo[p]) /\ Head(s).op = op /\ Head(s) \in Frame
           /\ s \in Seq(Frame) /\ s # <<>> /\ Tail(s) \in Seq(Frame)
<1>1. s \in Ready(todo[p]) /\ Head(s).op = op
  BY DEF Calls
<1>2. todo[p] \in Seq(FramesAt(Safe \cup Pending(todo[p]))) /\ Root \in Safe
  BY SafeFacts DEF IInv, TodoOK
<1> DEFINE P == Safe \cup Pending(todo[p])
<1>3. Root \in P /\ todo[p] \in Seq(FramesAt(P)) /\ FramesAt(P) \subseteq Frame
  BY <1>2 DEF FramesAt
<1> HIDE DEF P
<1>4. s \in Seq(FramesAt(P)) /\ s # <<>>
  BY <1>1, <1>3, ReadySeq
<1>5. s \in Seq(Frame)
  BY <1>3, <1>4
<1> QED
  BY <1>1, <1>4, <1>5

LEMMA PairConcat ==
    ASSUME NEW x, NEW y
    PROVE  <<x>> \o <<y>> = <<x, y>>
<1> DEFINE a == <<x>>
           b == <<y>>
           c == <<x, y>>
<1>1. a \in Seq({x, y}) /\ Len(a) = 1 /\ a[1] = x
  OBVIOUS
<1>2. b \in Seq({x, y}) /\ Len(b) = 1 /\ b[1] = y
  OBVIOUS
<1>3. c \in Seq({x, y}) /\ Len(c) = 2 /\ c[1] = x /\ c[2] = y
  OBVIOUS
<1> HIDE DEF a, b, c
<1>4. a \o b \in Seq({x, y}) /\ Len(a \o b) = 2 /\ (a \o b)[1] = x /\ (a \o b)[2] = y
  <2>1. /\ a \o b \in Seq({x, y}) /\ Len(a \o b) = Len(a) + Len(b)
        /\ \A i \in 1 .. Len(a) + Len(b) : (a \o b)[i] = IF i <= Len(a) THEN a[i] ELSE b[i - Len(a)]
    BY <1>1, <1>2, ConcatProperties
  <2>2. \A i \in 1 .. 2 : (a \o b)[i] = IF i <= 1 THEN a[i] ELSE b[i - 1]
    BY <1>1, <1>2, <2>1
  <2> QED
    BY <1>1, <1>2, <2>1, <2>2
<1>5. a \o b = c
  BY <1>3, <1>4, SeqEqual
<1> QED
  BY <1>5 DEF a, b, c

\* The request is over.
LEMMA OverShape ==
    ASSUME IInv, NEW p \in Procs, NEW s \in Ready(todo[p]), Head(s).op \in Quits, Reads(p, <<>>)
    PROVE  \E u \in Ready(todo[p]) : \E new : \E rest : GoesOn(p, u, new, rest)
<1>1. GoesOn(p, s, <<>>, <<>>)
  BY EmptyConcat, EmptyCalls DEF GoesOn, Reads, bounds, TotalEffect
<1> QED
  BY <1>1

\* A call that only reads.
LEMMA ReadShape ==
    ASSUME IInv, NEW p \in Procs, NEW op, NEW s \in Calls(p, op),
           op \notin Plain \cup {"insert", "copyDoc", "send"},
           NEW new \in Seq(Made(p, Head(s))), Follows(p, Head(s), new),
           Goto(p, new \o (IF op \in First THEN <<>> ELSE Tail(s))), UNCHANGED <<data, bounds>>,
           TotalEffect(p, Head(s))
    PROVE  \E u \in Ready(todo[p]) : \E more : \E rest : GoesOn(p, u, more, rest)
<1>1. s \in Ready(todo[p]) /\ Head(s).op = op
  BY DEF Calls
<1>2. Effect(Head(s))
  BY <1>1 DEF Effect, FilesEffect, MessagesEffect, QueueEffect, UsedEffect, Plain, data, bounds
<1>3. GoesOn(p, s, new, IF op \in First THEN <<>> ELSE Tail(s))
  BY <1>1, <1>2 DEF GoesOn
<1> QED
  BY <1>1, <1>3

\* A call that is followed by what was to follow.
LEMMA PlainShape ==
    ASSUME IInv, NEW p \in Procs, NEW op, NEW s \in Calls(p, op), op \notin First \cup {"size"},
           Follows(p, Head(s), <<>>), Effect(Head(s)), Goto(p, Tail(s)), UNCHANGED total
    PROVE  \E u \in Ready(todo[p]) : \E new : \E rest : GoesOn(p, u, new, rest)
<1>1. s \in Ready(todo[p]) /\ Head(s).op = op /\ Tail(s) \in Seq(Frame)
  BY CallTail
<1>2. GoesOn(p, s, <<>>, Tail(s))
  BY <1>1, EmptyCalls DEF GoesOn, TotalEffect
<1> QED
  BY <1>1, <1>2

\* The loop frame over the documents S.
LEMMA EachMade ==
    ASSUME NEW op, NEW kids, NEW to, NEW M, Loop(op, kids, to) \in M
    PROVE  Each(op, kids, to) \in Seq(M)
BY DEF Each, Loop

LEMMA CheckParentShape ==
    ASSUME IInv, NEW p \in Procs, CheckParent(p)
    PROVE  \E s \in Ready(todo[p]) : \E new : \E rest : GoesOn(p, s, new, rest)
<1>1. PICK s \in Calls(p, "parent") : Reads(p, IF Accepts(Head(s).id) THEN Tail(s) ELSE <<>>)
  BY DEF CheckParent
<1>2. s \in Ready(todo[p]) /\ Head(s).op = "parent"
  BY CallTail
<1>3. CASE ~Accepts(Head(s).id)
  BY <1>1, <1>2, <1>3, OverShape DEF Quits
<1>4. CASE Accepts(Head(s).id)
  <2>1. Follows(p, Head(s), <<>>) /\ "parent" \notin First
    BY <1>2, <1>4 DEF Follows, FollowsPlace, First
  <2>2. Effect(Head(s)) /\ Goto(p, Tail(s)) /\ UNCHANGED total
    BY <1>1, <1>2, <1>4 DEF Effect, FilesEffect, MessagesEffect, QueueEffect, UsedEffect, Reads, data, bounds
  <2> QED
    BY <2>1, <2>2, PlainShape
<1> QED
  BY <1>3, <1>4

LEMMA AddUsedShape ==
    ASSUME IInv, NEW p \in Procs, AddUsed(p)
    PROVE  \E s \in Ready(todo[p]) : \E new : \E rest : GoesOn(p, s, new, rest)
<1>1. PICK s \in Calls(p, "add") : Effect(Head(s)) /\ Goto(p, Tail(s)) /\ UNCHANGED total
  BY DEF AddUsed, Sets, Calls, Effect, FilesEffect, MessagesEffect, QueueEffect, UsedEffect, bounds
<1>2. Follows(p, Head(s), <<>>) /\ "add" \notin First
  BY DEF Calls, Follows, FollowsPlace, Plain, First
<1> QED
  BY <1>1, <1>2, PlainShape

LEMMA SetParentShape ==
    ASSUME IInv, NEW p \in Procs, SetParent(p)
    PROVE  \E s \in Ready(todo[p]) : \E new : \E rest : GoesOn(p, s, new, rest)
<1>1. PICK s \in Calls(p, "setParent") : Effect(Head(s)) /\ Goto(p, Tail(s)) /\ UNCHANGED total
  BY DEF SetParent, Sets, Calls, Effect, FilesEffect, MessagesEffect, QueueEffect, UsedEffect, bounds
<1>2. Follows(p, Head(s), <<>>) /\ "setParent" \notin First
  BY DEF Calls, Follows, FollowsPlace, Plain, First
<1> QED
  BY <1>1, <1>2, PlainShape

LEMMA EnqueueShape ==
    ASSUME IInv, NEW p \in Procs, Enqueue(p)
    PROVE  \E s \in Ready(todo[p]) : \E new : \E rest : GoesOn(p, s, new, rest)
<1>1. PICK s \in Calls(p, "enqueue") : Effect(Head(s)) /\ Goto(p, Tail(s)) /\ UNCHANGED total
  BY DEF Enqueue, Sets, Calls, Effect, FilesEffect, MessagesEffect, QueueEffect, UsedEffect, bounds
<1>2. Follows(p, Head(s), <<>>) /\ "enqueue" \notin First
  BY DEF Calls, Follows, FollowsPlace, Plain, First
<1> QED
  BY <1>1, <1>2, PlainShape

LEMMA OpenUploadShape ==
    ASSUME IInv, NEW p \in Procs, OpenUpload(p)
    PROVE  \E s \in Ready(todo[p]) : \E new : \E rest : GoesOn(p, s, new, rest)
<1>1. PICK s \in Calls(p, "openUpload") : Effect(Head(s)) /\ Goto(p, Tail(s)) /\ UNCHANGED total
  BY DEF OpenUpload, Sets, Calls, Effect, FilesEffect, MessagesEffect, QueueEffect, UsedEffect, bounds
<1>2. Follows(p, Head(s), <<>>) /\ "openUpload" \notin First
  BY DEF Calls, Follows, FollowsPlace, Plain, First
<1> QED
  BY <1>1, <1>2, PlainShape

LEMMA MarkShape ==
    ASSUME IInv, NEW p \in Procs, Mark(p)
    PROVE  \E s \in Ready(todo[p]) : \E new : \E rest : GoesOn(p, s, new, rest)
<1>1. PICK s \in Calls(p, "mark") : Effect(Head(s)) /\ Goto(p, Tail(s)) /\ UNCHANGED total
  BY DEF Mark, Sets, Calls, Effect, FilesEffect, MessagesEffect, QueueEffect, UsedEffect, bounds
<1>2. Follows(p, Head(s), <<>>) /\ "mark" \notin First
  BY DEF Calls, Follows, FollowsPlace, Plain, First
<1> QED
  BY <1>1, <1>2, PlainShape

LEMMA UnmarkShape ==
    ASSUME IInv, NEW p \in Procs, Unmark(p)
    PROVE  \E s \in Ready(todo[p]) : \E new : \E rest : GoesOn(p, s, new, rest)
<1>1. PICK s \in Calls(p, "unmark") : Effect(Head(s)) /\ Goto(p, Tail(s)) /\ UNCHANGED total
  BY DEF Unmark, Sets, Calls, Effect, FilesEffect, MessagesEffect, QueueEffect, UsedEffect, bounds
<1>2. Follows(p, Head(s), <<>>) /\ "unmark" \notin First
  BY DEF Calls, Follows, FollowsPlace, Plain, First
<1> QED
  BY <1>1, <1>2, PlainShape

LEMMA DeleteMsgShape ==
    ASSUME IInv, NEW p \in Procs, DeleteMsg(p)
    PROVE  \E s \in Ready(todo[p]) : \E new : \E rest : GoesOn(p, s, new, rest)
<1>1. PICK s \in Calls(p, "deleteMsg") :
        /\ messages' = messages \ {Head(s).msg} \/ (MayRefuse /\ UNCHANGED messages)
        /\ Goto(p, Tail(s))
        /\ UNCHANGED <<files, used, nextId, nextMsg, queue, uploads, total, bounds>>
  BY DEF DeleteMsg
<1>2. Head(s).op = "deleteMsg"
  BY DEF Calls
<1>3. Effect(Head(s))
  <2>1. FilesEffect(Head(s)) /\ QueueEffect(Head(s)) /\ UsedEffect(Head(s)) /\ UNCHANGED <<may, faults>>
    BY <1>1, <1>2 DEF FilesEffect, QueueEffect, UsedEffect, bounds
  <2>2. MessagesEffect(Head(s))
    BY <1>1, <1>2 DEF MessagesEffect
  <2> QED
    BY <2>1, <2>2 DEF Effect
<1>4. Follows(p, Head(s), <<>>) /\ "deleteMsg" \notin First
  BY <1>2 DEF Follows, FollowsPlace, Plain, First
<1> QED
  BY <1>1, <1>3, <1>4, PlainShape

LEMMA RemoveShape ==
    ASSUME IInv, NEW p \in Procs, Remove(p)
    PROVE  \E s \in Ready(todo[p]) : \E new : \E rest : GoesOn(p, s, new, rest)
<1>1. PICK s \in Calls(p, "remove") : Effect(Head(s)) /\ Goto(p, Tail(s)) /\ UNCHANGED total
  BY DEF Remove, Sets, Calls, Effect, FilesEffect, MessagesEffect, QueueEffect, UsedEffect, bounds
<1>2. Follows(p, Head(s), <<>>) /\ "remove" \notin First
  BY DEF Calls, Follows, FollowsPlace, Plain, First
<1> QED
  BY <1>1, <1>2, PlainShape

LEMMA RecordShape ==
    ASSUME IInv, NEW p \in Procs, Record(p)
    PROVE  \E s \in Ready(todo[p]) : \E new : \E rest : GoesOn(p, s, new, rest)
<1>1. PICK s \in Calls(p, "record") : Effect(Head(s)) /\ Goto(p, Tail(s)) /\ UNCHANGED total
  BY DEF Record, Sets, Calls, Effect, FilesEffect, MessagesEffect, QueueEffect, UsedEffect, bounds
<1>2. Follows(p, Head(s), <<>>) /\ "record" \notin First
  BY DEF Calls, Follows, FollowsPlace, Plain, First
<1> QED
  BY <1>1, <1>2, PlainShape

LEMMA PlaceChecksSeq ==
    ASSUME NEW i, NEW to, NEW M, At("parent", to) \in M, Into("walk", i, to) \in M, NEW b \in Seq(M)
    PROVE  PlaceChecks(i, to) \o b \in Seq(M)
<1>1. ParentCheck(to) \in Seq(M)
  BY DEF ParentCheck
<1> DEFINE w == IF to # Root /\ IsFolder(files[i]) THEN <<Into("walk", i, to)>> ELSE <<>>
<1>2. w \in Seq(M)
  OBVIOUS
<1> HIDE DEF w
<1>3. ParentCheck(to) \o w \in Seq(M)
  BY <1>1, <1>2
<1>4. PlaceChecks(i, to) = ParentCheck(to) \o w
  BY DEF PlaceChecks, w
<1> QED
  BY <1>3, <1>4

LEMMA MoveShape ==
    ASSUME IInv, NEW p \in Procs, Move(p)
    PROVE  \E s \in Ready(todo[p]) : \E new : \E rest : GoesOn(p, s, new, rest)
<1>1. PICK s \in Calls(p, "move") :
        Reads(p, IF Head(s).id \in Live(files)
                 THEN PlaceChecks(Head(s).id, Head(s).to) \o <<Into("setParent", Head(s).id, Head(s).to)>>
                 ELSE <<>>)
  BY DEF Move
<1> DEFINE h == Head(s)
           new == PlaceChecks(h.id, h.to) \o <<Into("setParent", h.id, h.to)>>
<1>2. s \in Ready(todo[p]) /\ h.op = "move"
  BY CallTail
<1>3. CASE h.id \notin Live(files)
  BY <1>1, <1>2, <1>3, OverShape DEF Quits
<1>4. CASE h.id \in Live(files)
  <2>1. new \in Seq(Made(p, h))
    <3>1. /\ At("parent", h.to) \in Made(p, h) /\ Into("walk", h.id, h.to) \in Made(p, h)
          /\ Into("setParent", h.id, h.to) \in Made(p, h)
      BY <1>2 DEF Made
    <3>2. <<Into("setParent", h.id, h.to)>> \in Seq(Made(p, h))
      BY <3>1
    <3> QED
      BY <3>1, <3>2, PlaceChecksSeq
  <2>2. Follows(p, h, new)
    BY <1>2, <1>4 DEF Follows, FollowsPlace
  <2>3. Reads(p, new)
    BY <1>1, <1>4
  <2> HIDE DEF new
  <2>4. Goto(p, new \o <<>>) /\ UNCHANGED <<data, total, bounds>>
    BY <2>1, <2>3, EmptyCalls DEF Reads
  <2> QED
    BY <1>2, <2>1, <2>2, <2>4, ReadShape DEF Plain, First, TotalEffect
<1> QED
  BY <1>3, <1>4

LEMMA WalkShape ==
    ASSUME IInv, NEW p \in Procs, Walk(p)
    PROVE  \E s \in Ready(todo[p]) : \E new : \E rest : GoesOn(p, s, new, rest)
<1>1. PICK s \in Calls(p, "walk") :
        Reads(p, IF Head(s).to = Head(s).id THEN <<>> ELSE WalkUp(Head(s).id, Head(s).to) \o Tail(s))
  BY DEF Walk
<1> DEFINE h == Head(s)
           new == WalkUp(h.id, h.to)
<1>2. s \in Ready(todo[p]) /\ h.op = "walk"
  BY CallTail
<1>3. CASE h.to = h.id
  BY <1>1, <1>2, <1>3, OverShape DEF Quits
<1>4. CASE h.to # h.id
  <2>1. new \in Seq(Made(p, h))
    <3>1. Made(p, h) = {Into("walk", h.id, files[j].parent) : j \in DOMAIN files}
      BY <1>2 DEF Made
    <3>2. CASE h.to \in DOMAIN files
      <4>1. Into("walk", h.id, files[h.to].parent) \in Made(p, h)
        BY <3>1, <3>2
      <4> QED
        BY <3>2, <4>1 DEF WalkUp
    <3>3. CASE h.to \notin DOMAIN files
      BY <3>3 DEF WalkUp
    <3> QED
      BY <3>2, <3>3
  <2>2. Follows(p, h, new)
    BY <1>2, <1>4 DEF Follows, FollowsPlace
  <2>3. Reads(p, new \o Tail(s))
    BY <1>1, <1>4
  <2> HIDE DEF new
  <2> QED
    BY <1>2, <2>1, <2>2, <2>3, ReadShape DEF Plain, First, TotalEffect, Reads
<1> QED
  BY <1>3, <1>4

LEMMA CopyFileShape ==
    ASSUME IInv, NEW p \in Procs, CopyFile(p)
    PROVE  \E s \in Ready(todo[p]) : \E new : \E rest : GoesOn(p, s, new, rest)
<1>1. PICK s \in Calls(p, "copy") :
        LET i == Head(s).id
            to == Head(s).to
            d == files[i]
            copy == <<Of("size", i, d), Copy("copyQuota", i, d, to)>>
        IN  Reads(p, IF i \in Live(files) THEN PlaceChecks(i, to) \o copy ELSE <<>>)
  BY DEF CopyFile
<1> DEFINE h == Head(s)
           copy == <<Of("size", h.id, files[h.id]), Copy("copyQuota", h.id, files[h.id], h.to)>>
           new == PlaceChecks(h.id, h.to) \o copy
<1>2. s \in Ready(todo[p]) /\ h.op = "copy"
  BY CallTail
<1>3. CASE h.id \notin Live(files)
  BY <1>1, <1>2, <1>3, OverShape DEF Quits
<1>4. CASE h.id \in Live(files)
  <2>1. new \in Seq(Made(p, h))
    <3>1. /\ At("parent", h.to) \in Made(p, h) /\ Into("walk", h.id, h.to) \in Made(p, h)
          /\ Of("size", h.id, files[h.id]) \in Made(p, h)
          /\ Copy("copyQuota", h.id, files[h.id], h.to) \in Made(p, h)
      BY <1>2 DEF Made
    <3>2. copy \in Seq(Made(p, h))
      BY <3>1
    <3> HIDE DEF copy
    <3> QED
      BY <3>1, <3>2, PlaceChecksSeq
  <2>2. Follows(p, h, new)
    BY <1>2, <1>4 DEF Follows, FollowsPlace
  <2>3. Reads(p, new)
    BY <1>1, <1>4
  <2> HIDE DEF new
  <2>4. Goto(p, new \o <<>>) /\ UNCHANGED <<data, total, bounds>>
    BY <2>1, <2>3, EmptyCalls DEF Reads
  <2> QED
    BY <1>2, <2>1, <2>2, <2>4, ReadShape DEF Plain, First, TotalEffect
<1> QED
  BY <1>3, <1>4

LEMMA CopyQuotaShape ==
    ASSUME IInv, NEW p \in Procs, CopyQuota(p)
    PROVE  \E s \in Ready(todo[p]) : \E new : \E rest : GoesOn(p, s, new, rest)
<1>1. PICK s \in Calls(p, "copyQuota") : 
        Reads(p, IF Fits(total[p])
                 THEN CopyThenCharge(<<Copy("copyDoc", Head(s).id, Head(s).doc, Head(s).to)>>,
                                     IF total[p] = 0 THEN <<>> ELSE <<Add(total[p])>>)
                 ELSE <<>>)
  BY DEF CopyQuota
<1> DEFINE h == Head(s)
<1>2. s \in Ready(todo[p]) /\ h.op = "copyQuota" /\ Tail(s) \in Seq(Frame)
  BY CallTail
<1>3. CASE ~Fits(total[p])
  BY <1>1, <1>2, <1>3, OverShape DEF Quits
<1>4. CASE Fits(total[p]) /\ total[p] = 0
  <2> DEFINE new == <<Copy("copyDoc", h.id, h.doc, h.to)>>
  <2>1. new \in Seq(Made(p, h))
    <3>1. Copy("copyDoc", h.id, h.doc, h.to) \in Made(p, h)
      BY <1>2, <1>4 DEF Made
    <3> QED
      BY <3>1
  <2>2. Follows(p, h, new)
    BY <1>2, <1>4 DEF Follows, FollowsPlace
  <2>3. Goto(p, new \o <<>>) /\ UNCHANGED <<data, total, bounds>>
    BY <1>1, <1>2, <1>4, EmptyCalls, EmptyConcat DEF Reads, CopyThenCharge
  <2> HIDE DEF new
  <2> QED
    BY <1>2, <2>1, <2>2, <2>3, ReadShape DEF Plain, First, TotalEffect
<1>5. CASE Fits(total[p]) /\ total[p] # 0
  <2> DEFINE new == <<Copy("copyDoc", h.id, h.doc, h.to), Add(total[p])>>
  <2>1. new \in Seq(Made(p, h))
    <3>1. Copy("copyDoc", h.id, h.doc, h.to) \in Made(p, h) /\ Add(total[p]) \in Made(p, h)
      BY <1>2, <1>5 DEF Made
    <3> QED
      BY <3>1
  <2>2. Follows(p, h, new)
    BY <1>2, <1>5 DEF Follows, FollowsPlace
  <2>3. Goto(p, new \o <<>>) /\ UNCHANGED <<data, total, bounds>>
    <3>1. Reads(p, <<Copy("copyDoc", h.id, h.doc, h.to)>> \o <<Add(total[p])>>)
      BY <1>1, <1>5 DEF CopyThenCharge
    <3>2. <<Copy("copyDoc", h.id, h.doc, h.to)>> \o <<Add(total[p])>> = new
      BY PairConcat
    <3>3. new \o <<>> = new
      OBVIOUS
    <3> QED
      BY <3>1, <3>2, <3>3 DEF Reads
  <2> HIDE DEF new
  <2> QED
    BY <1>2, <2>1, <2>2, <2>3, ReadShape DEF Plain, First, TotalEffect
<1> QED
  BY <1>1, <1>3, <1>4, <1>5

LEMMA CopyChildrenShape ==
    ASSUME IInv, NEW p \in Procs, CopyChildren(p)
    PROVE  \E s \in Ready(todo[p]) : \E new : \E rest : GoesOn(p, s, new, rest)
<1>1. PICK s \in Calls(p, "copyChildren") : 
        Reads(p, Each("copyEach", Fetch(LiveChildren(files, Head(s).id)), Head(s).to) \o Tail(s))
  BY DEF CopyChildren, ToCopy
<1> DEFINE h == Head(s)
<1>2. s \in Ready(todo[p]) /\ h.op = "copyChildren" /\ Tail(s) \in Seq(Frame)
  BY CallTail
<1>3. CASE TRUE
  <2> DEFINE new == Each("copyEach", Fetch(LiveChildren(files, h.id)), h.to)
  <2>1. new \in Seq(Made(p, h))
    <3>1. Loop("copyEach", Fetch(LiveChildren(files, h.id)), h.to) \in Made(p, h)
      BY <1>2 DEF Made
    <3> QED
      BY <3>1, EachMade
  <2>2. Follows(p, h, new)
    BY <1>2, <1>3 DEF Follows, FollowsPlace
  <2>3. Goto(p, new \o Tail(s)) /\ UNCHANGED <<data, total, bounds>>
    BY <1>1, <1>2, <1>3, EmptyCalls, EmptyConcat DEF Reads
  <2> HIDE DEF new
  <2> QED
    BY <1>2, <2>1, <2>2, <2>3, ReadShape DEF Plain, First, TotalEffect
<1> QED
  BY <1>3

LEMMA UploadQuotaShape ==
    ASSUME IInv, NEW p \in Procs, UploadQuota(p)
    PROVE  \E s \in Ready(todo[p]) : \E new : \E rest : GoesOn(p, s, new, rest)
<1>1. PICK s \in Calls(p, "quota") : 
        Reads(p, IF Fits(Size[Head(s).content])
                 THEN <<New("dedup", Head(s).content, Head(s).to)>> \o Tail(s) ELSE <<>>)
  BY DEF UploadQuota
<1> DEFINE h == Head(s)
<1>2. s \in Ready(todo[p]) /\ h.op = "quota" /\ Tail(s) \in Seq(Frame)
  BY CallTail
<1>3. CASE ~Fits(Size[h.content])
  BY <1>1, <1>2, <1>3, OverShape DEF Quits
<1>4. CASE Fits(Size[h.content])
  <2> DEFINE new == <<New("dedup", h.content, h.to)>>
  <2>1. new \in Seq(Made(p, h))
    <3>1. New("dedup", h.content, h.to) \in Made(p, h)
      BY <1>2, <1>4 DEF Made
    <3> QED
      BY <3>1
  <2>2. Follows(p, h, new)
    BY <1>2, <1>4 DEF Follows, FollowsPlace
  <2>3. Goto(p, new \o Tail(s)) /\ UNCHANGED <<data, total, bounds>>
    BY <1>1, <1>2, <1>4, EmptyCalls, EmptyConcat DEF Reads
  <2> HIDE DEF new
  <2> QED
    BY <1>2, <2>1, <2>2, <2>3, ReadShape DEF Plain, First, TotalEffect
<1> QED
  BY <1>1, <1>3, <1>4

LEMMA InitQuotaShape ==
    ASSUME IInv, NEW p \in Procs, InitQuota(p)
    PROVE  \E s \in Ready(todo[p]) : \E new : \E rest : GoesOn(p, s, new, rest)
<1>1. PICK s \in Calls(p, "initQuota") :
        Reads(p, IF used < Quota THEN ParentCheck(Head(s).id) \o <<Open(Head(s).id)>> ELSE <<>>)
  BY DEF InitQuota
<1> DEFINE h == Head(s)
<1>2. s \in Ready(todo[p]) /\ h.op = "initQuota" /\ Tail(s) \in Seq(Frame)
  BY CallTail
<1>3. CASE ~(used < Quota)
  BY <1>1, <1>2, <1>3, OverShape DEF Quits
<1>4. CASE used < Quota
  <2> DEFINE a == ParentCheck(h.id)
             b == <<Open(h.id)>>
             new == a \o b
  <2>1. new \in Seq(Made(p, h))
    <3>1. At("parent", h.id) \in Made(p, h) /\ Open(h.id) \in Made(p, h)
      BY <1>2 DEF Made
    <3>2. a \in Seq(Made(p, h)) /\ b \in Seq(Made(p, h))
      BY <3>1, Single, EmptyCalls DEF ParentCheck
    <3> HIDE DEF a, b
    <3> QED
      BY <3>2, Concat
  <2>2. Follows(p, h, new)
    BY <1>2, <1>4 DEF Follows, FollowsPlace
  <2>3. Goto(p, new) /\ UNCHANGED <<data, total, bounds>>
    BY <1>1, <1>4 DEF Reads
  <2> HIDE DEF new
  <2>4. new \o <<>> = new
    BY <2>1, EmptyCalls
  <2> QED
    BY <1>2, <2>1, <2>2, <2>3, <2>4, ReadShape DEF Plain, First, TotalEffect
<1> QED
  BY <1>1, <1>3, <1>4

LEMMA TrashShape ==
    ASSUME IInv, NEW p \in Procs, Trash(p)
    PROVE  \E s \in Ready(todo[p]) : \E new : \E rest : GoesOn(p, s, new, rest)
<1>1. PICK s \in Calls(p, "trash") : 
        Reads(p, IF Head(s).id \notin Live(files) THEN <<>>
                 ELSE IF IsFolder(files[Head(s).id]) THEN <<At("trashChildren", Head(s).id), At("mark", Head(s).id)>>
                 ELSE <<At("mark", Head(s).id), Add(-Bytes(files[Head(s).id]))>>)
  BY DEF Trash
<1> DEFINE h == Head(s)
<1>2. s \in Ready(todo[p]) /\ h.op = "trash" /\ Tail(s) \in Seq(Frame)
  BY CallTail
<1>3. CASE h.id \notin Live(files)
  BY <1>1, <1>2, <1>3, OverShape DEF Quits
<1>4. CASE h.id \in Live(files) /\ IsFolder(files[h.id])
  <2> DEFINE new == <<At("trashChildren", h.id), At("mark", h.id)>>
  <2>1. new \in Seq(Made(p, h))
    <3>1. At("trashChildren", h.id) \in Made(p, h) /\ At("mark", h.id) \in Made(p, h)
      BY <1>2, <1>4 DEF Made
    <3> QED
      BY <3>1
  <2>2. Follows(p, h, new)
    BY <1>2, <1>4 DEF Follows, FollowsTrash
  <2>3. Goto(p, new \o <<>>) /\ UNCHANGED <<data, total, bounds>>
    BY <1>1, <1>2, <1>4, EmptyCalls, EmptyConcat DEF Reads
  <2> HIDE DEF new
  <2> QED
    BY <1>2, <2>1, <2>2, <2>3, ReadShape DEF Plain, First, TotalEffect
<1>5. CASE h.id \in Live(files) /\ ~IsFolder(files[h.id])
  <2> DEFINE new == <<At("mark", h.id), Add(-Bytes(files[h.id]))>>
  <2>1. new \in Seq(Made(p, h))
    <3>1. At("mark", h.id) \in Made(p, h) /\ Add(-Bytes(files[h.id])) \in Made(p, h)
      BY <1>2, <1>5 DEF Made
    <3> QED
      BY <3>1
  <2>2. Follows(p, h, new)
    BY <1>2, <1>5 DEF Follows, FollowsTrash
  <2>3. Goto(p, new \o <<>>) /\ UNCHANGED <<data, total, bounds>>
    BY <1>1, <1>2, <1>5, EmptyCalls, EmptyConcat DEF Reads
  <2> HIDE DEF new
  <2> QED
    BY <1>2, <2>1, <2>2, <2>3, ReadShape DEF Plain, First, TotalEffect
<1> QED
  BY <1>1, <1>3, <1>4, <1>5

LEMMA TrashChildrenShape ==
    ASSUME IInv, NEW p \in Procs, TrashChildren(p)
    PROVE  \E s \in Ready(todo[p]) : \E new : \E rest : GoesOn(p, s, new, rest)
<1>1. PICK s \in Calls(p, "trashChildren") : 
        Reads(p, Each("trashEach", Fetch(LiveChildren(files, Head(s).id)), Root) \o Tail(s))
  BY DEF TrashChildren, ToTrash
<1> DEFINE h == Head(s)
<1>2. s \in Ready(todo[p]) /\ h.op = "trashChildren" /\ Tail(s) \in Seq(Frame)
  BY CallTail
<1>3. CASE TRUE
  <2> DEFINE new == Each("trashEach", Fetch(LiveChildren(files, h.id)), Root)
  <2>1. new \in Seq(Made(p, h))
    <3>1. Loop("trashEach", Fetch(LiveChildren(files, h.id)), Root) \in Made(p, h)
      BY <1>2 DEF Made
    <3> QED
      BY <3>1, EachMade
  <2>2. Follows(p, h, new)
    BY <1>2, <1>3 DEF Follows, FollowsTrash
  <2>3. Goto(p, new \o Tail(s)) /\ UNCHANGED <<data, total, bounds>>
    BY <1>1, <1>2, <1>3, EmptyCalls, EmptyConcat DEF Reads
  <2> HIDE DEF new
  <2> QED
    BY <1>2, <2>1, <2>2, <2>3, ReadShape DEF Plain, First, TotalEffect
<1> QED
  BY <1>3

LEMMA RestoreChildrenShape ==
    ASSUME IInv, NEW p \in Procs, RestoreChildren(p)
    PROVE  \E s \in Ready(todo[p]) : \E new : \E rest : GoesOn(p, s, new, rest)
<1>1. PICK s \in Calls(p, "restoreChildren") : 
        Reads(p, Each("restoreEach", Fetch(Children(files, Head(s).id) \ Live(files)), Root) \o Tail(s))
  BY DEF RestoreChildren
<1> DEFINE h == Head(s)
<1>2. s \in Ready(todo[p]) /\ h.op = "restoreChildren" /\ Tail(s) \in Seq(Frame)
  BY CallTail
<1>3. CASE TRUE
  <2> DEFINE new == Each("restoreEach", Fetch(Children(files, h.id) \ Live(files)), Root)
  <2>1. new \in Seq(Made(p, h))
    <3>1. Loop("restoreEach", Fetch(Children(files, h.id) \ Live(files)), Root) \in Made(p, h)
      BY <1>2 DEF Made
    <3> QED
      BY <3>1, EachMade
  <2>2. Follows(p, h, new)
    BY <1>2, <1>3 DEF Follows, FollowsTrash
  <2>3. Goto(p, new \o Tail(s)) /\ UNCHANGED <<data, total, bounds>>
    BY <1>1, <1>2, <1>3, EmptyCalls, EmptyConcat DEF Reads
  <2> HIDE DEF new
  <2> QED
    BY <1>2, <2>1, <2>2, <2>3, ReadShape DEF Plain, First, TotalEffect
<1> QED
  BY <1>3

LEMMA PurgeShape ==
    ASSUME IInv, NEW p \in Procs, Purge(p)
    PROVE  \E s \in Ready(todo[p]) : \E new : \E rest : GoesOn(p, s, new, rest)
<1>1. PICK s \in Calls(p, "purge") : 
        Reads(p, Each("purgeEach", Fetch(Expired), Root) \o Tail(s))
  BY DEF Purge, Expired
<1> DEFINE h == Head(s)
<1>2. s \in Ready(todo[p]) /\ h.op = "purge" /\ Tail(s) \in Seq(Frame)
  BY CallTail
<1>3. CASE TRUE
  <2> DEFINE new == Each("purgeEach", Fetch(Expired), Root)
  <2>1. new \in Seq(Made(p, h))
    <3>1. Loop("purgeEach", Fetch(Expired), Root) \in Made(p, h)
      BY <1>2 DEF Made
    <3> QED
      BY <3>1, EachMade
  <2>2. Follows(p, h, new)
    BY <1>2, <1>3 DEF Follows, FollowsDelete
  <2>3. Goto(p, new \o Tail(s)) /\ UNCHANGED <<data, total, bounds>>
    BY <1>1, <1>2, <1>3, EmptyCalls, EmptyConcat DEF Reads
  <2> HIDE DEF new
  <2> QED
    BY <1>2, <2>1, <2>2, <2>3, ReadShape DEF Plain, First, TotalEffect
<1> QED
  BY <1>3

LEMMA RestoreShape ==
    ASSUME IInv, NEW p \in Procs, Restore(p)
    PROVE  \E s \in Ready(todo[p]) : \E new : \E rest : GoesOn(p, s, new, rest)
<1>1. PICK s \in Calls(p, "restore") : 
        Reads(p, IF Head(s).id \in DOMAIN files \ Live(files)
                 THEN (IF files[Head(s).id].parent # Root
                       THEN <<Of("restoreParent", Head(s).id, files[Head(s).id])>> ELSE <<>>)
                      \o <<Of("restoreCheck", Head(s).id, files[Head(s).id])>> \o Tail(s) ELSE <<>>)
  BY DEF Restore
<1> DEFINE h == Head(s)
<1>2. s \in Ready(todo[p]) /\ h.op = "restore" /\ Tail(s) \in Seq(Frame)
  BY CallTail
<1>3. CASE h.id \notin DOMAIN files \ Live(files)
  BY <1>1, <1>2, <1>3, OverShape DEF Quits
<1>4. CASE h.id \in DOMAIN files \ Live(files) /\ files[h.id].parent # Root
  <2> DEFINE new == <<Of("restoreParent", h.id, files[h.id]), Of("restoreCheck", h.id, files[h.id])>>
  <2>1. new \in Seq(Made(p, h))
    <3>1. Of("restoreParent", h.id, files[h.id]) \in Made(p, h) /\ Of("restoreCheck", h.id, files[h.id]) \in Made(p, h)
      BY <1>2, <1>4 DEF Made
    <3> QED
      BY <3>1
  <2>2. Follows(p, h, new)
    BY <1>2, <1>4 DEF Follows, FollowsTrash
  <2>3. Goto(p, new \o Tail(s)) /\ UNCHANGED <<data, total, bounds>>
    <3>1. Reads(p, <<Of("restoreParent", h.id, files[h.id])>> \o <<Of("restoreCheck", h.id, files[h.id])>>
                     \o Tail(s))
      BY <1>1, <1>4
    <3>2. <<Of("restoreParent", h.id, files[h.id])>> \o <<Of("restoreCheck", h.id, files[h.id])>> = new
      BY PairConcat
    <3> QED
      BY <3>1, <3>2 DEF Reads
  <2> HIDE DEF new
  <2> QED
    BY <1>2, <2>1, <2>2, <2>3, ReadShape DEF Plain, First, TotalEffect
<1>5. CASE h.id \in DOMAIN files \ Live(files) /\ files[h.id].parent = Root
  <2> DEFINE new == <<Of("restoreCheck", h.id, files[h.id])>>
  <2>1. new \in Seq(Made(p, h))
    <3>1. Of("restoreCheck", h.id, files[h.id]) \in Made(p, h)
      BY <1>2, <1>5 DEF Made
    <3> QED
      BY <3>1
  <2>2. Follows(p, h, new)
    BY <1>2, <1>5 DEF Follows, FollowsTrash
  <2>3. Goto(p, new \o Tail(s)) /\ UNCHANGED <<data, total, bounds>>
    BY <1>1, <1>2, <1>5, EmptyCalls, EmptyConcat DEF Reads
  <2> HIDE DEF new
  <2> QED
    BY <1>2, <2>1, <2>2, <2>3, ReadShape DEF Plain, First, TotalEffect
<1> QED
  BY <1>1, <1>3, <1>4, <1>5

LEMMA RestoreParentShape ==
    ASSUME IInv, NEW p \in Procs, RestoreParent(p)
    PROVE  \E s \in Ready(todo[p]) : \E new : \E rest : GoesOn(p, s, new, rest)
<1>1. PICK s \in Calls(p, "restoreParent") : 
        Reads(p, (IF Head(s).doc.parent \in DOMAIN files /\ ~IsLive(files[Head(s).doc.parent])
                  THEN <<At("restore", Head(s).doc.parent)>> ELSE <<>>) \o Tail(s))
  BY DEF RestoreParent
<1> DEFINE h == Head(s)
<1>2. s \in Ready(todo[p]) /\ h.op = "restoreParent" /\ Tail(s) \in Seq(Frame)
  BY CallTail
<1>3. CASE ~(h.doc.parent \in DOMAIN files /\ ~IsLive(files[h.doc.parent]))
  <2> DEFINE new == <<>>
  <2>1. new \in Seq(Made(p, h))
    BY EmptyCalls
  <2>2. Follows(p, h, new)
    BY <1>2, <1>3 DEF Follows, FollowsTrash, Live
  <2>3. Goto(p, new \o Tail(s)) /\ UNCHANGED <<data, total, bounds>>
    BY <1>1, <1>2, <1>3, EmptyCalls, EmptyConcat DEF Reads
  <2> HIDE DEF new
  <2> QED
    BY <1>2, <2>1, <2>2, <2>3, ReadShape DEF Plain, First, TotalEffect
<1>4. CASE h.doc.parent \in DOMAIN files /\ ~IsLive(files[h.doc.parent])
  <2> DEFINE new == <<At("restore", h.doc.parent)>>
  <2>1. new \in Seq(Made(p, h))
    <3>1. At("restore", h.doc.parent) \in Made(p, h)
      BY <1>2, <1>4 DEF Made
    <3> QED
      BY <3>1
  <2>2. Follows(p, h, new)
    BY <1>2, <1>4 DEF Follows, FollowsTrash
  <2>3. Goto(p, new \o Tail(s)) /\ UNCHANGED <<data, total, bounds>>
    BY <1>1, <1>2, <1>4, EmptyCalls, EmptyConcat DEF Reads
  <2> HIDE DEF new
  <2> QED
    BY <1>2, <2>1, <2>2, <2>3, ReadShape DEF Plain, First, TotalEffect
<1> QED
  BY <1>1, <1>3, <1>4

LEMMA RestoreCheckShape ==
    ASSUME IInv, NEW p \in Procs, RestoreCheck(p)
    PROVE  \E s \in Ready(todo[p]) : \E new : \E rest : GoesOn(p, s, new, rest)
<1>1. PICK s \in Calls(p, "restoreCheck") : 
        Reads(p, (IF Restored(Head(s).id) THEN <<>>
                  ELSE <<At("unmark", Head(s).id),
                         IF IsFolder(Head(s).doc) THEN At("restoreChildren", Head(s).id)
                         ELSE Add(Bytes(Head(s).doc))>>) \o Tail(s))
  BY DEF RestoreCheck
<1> DEFINE h == Head(s)
<1>2. s \in Ready(todo[p]) /\ h.op = "restoreCheck" /\ Tail(s) \in Seq(Frame)
  BY CallTail
<1>3. CASE Restored(h.id)
  <2> DEFINE new == <<>>
  <2>1. new \in Seq(Made(p, h))
    BY EmptyCalls
  <2>2. Follows(p, h, new)
    BY <1>2, <1>3 DEF Follows, FollowsTrash, Restored
  <2>3. Goto(p, new \o Tail(s)) /\ UNCHANGED <<data, total, bounds>>
    BY <1>1, <1>2, <1>3, EmptyCalls, EmptyConcat DEF Reads
  <2> HIDE DEF new
  <2> QED
    BY <1>2, <2>1, <2>2, <2>3, ReadShape DEF Plain, First, TotalEffect
<1>4. CASE ~Restored(h.id) /\ IsFolder(h.doc)
  <2> DEFINE new == <<At("unmark", h.id), At("restoreChildren", h.id)>>
  <2>1. new \in Seq(Made(p, h))
    <3>1. At("unmark", h.id) \in Made(p, h) /\ At("restoreChildren", h.id) \in Made(p, h)
      BY <1>2, <1>4 DEF Made
    <3> QED
      BY <3>1
  <2>2. Follows(p, h, new)
    BY <1>2, <1>4 DEF Follows, FollowsTrash, Restored
  <2>3. Goto(p, new \o Tail(s)) /\ UNCHANGED <<data, total, bounds>>
    BY <1>1, <1>2, <1>4, EmptyCalls, EmptyConcat DEF Reads
  <2> HIDE DEF new
  <2> QED
    BY <1>2, <2>1, <2>2, <2>3, ReadShape DEF Plain, First, TotalEffect
<1>5. CASE ~Restored(h.id) /\ ~IsFolder(h.doc)
  <2> DEFINE new == <<At("unmark", h.id), Add(Bytes(h.doc))>>
  <2>1. new \in Seq(Made(p, h))
    <3>1. At("unmark", h.id) \in Made(p, h) /\ Add(Bytes(h.doc)) \in Made(p, h)
      BY <1>2, <1>5 DEF Made
    <3> QED
      BY <3>1
  <2>2. Follows(p, h, new)
    BY <1>2, <1>5 DEF Follows, FollowsTrash, Restored
  <2>3. Goto(p, new \o Tail(s)) /\ UNCHANGED <<data, total, bounds>>
    BY <1>1, <1>2, <1>5, EmptyCalls, EmptyConcat DEF Reads
  <2> HIDE DEF new
  <2> QED
    BY <1>2, <2>1, <2>2, <2>3, ReadShape DEF Plain, First, TotalEffect
<1> QED
  BY <1>1, <1>3, <1>4, <1>5

LEMMA CountRefsShape ==
    ASSUME IInv, NEW p \in Procs, CountRefs(p)
    PROVE  \E s \in Ready(todo[p]) : \E new : \E rest : GoesOn(p, s, new, rest)
<1>1. PICK s \in Calls(p, "countRefs") : 
        Reads(p, (IF Sharing(Head(s).id, Head(s).msg) = {}
                  THEN <<[op |-> "deleteMsg", msg |-> Head(s).msg]>> ELSE <<>>) \o Tail(s))
  BY DEF CountRefs
<1> DEFINE h == Head(s)
<1>2. s \in Ready(todo[p]) /\ h.op = "countRefs" /\ Tail(s) \in Seq(Frame)
  BY CallTail
<1>3. CASE Sharing(h.id, h.msg) # {}
  <2> DEFINE new == <<>>
  <2>1. new \in Seq(Made(p, h))
    BY EmptyCalls
  <2>2. Follows(p, h, new)
    BY <1>2, <1>3 DEF Follows, FollowsDelete
  <2>3. Goto(p, new \o Tail(s)) /\ UNCHANGED <<data, total, bounds>>
    BY <1>1, <1>2, <1>3, EmptyCalls, EmptyConcat DEF Reads
  <2> HIDE DEF new
  <2> QED
    BY <1>2, <2>1, <2>2, <2>3, ReadShape DEF Plain, First, TotalEffect
<1>4. CASE Sharing(h.id, h.msg) = {}
  <2> DEFINE new == <<[op |-> "deleteMsg", msg |-> h.msg]>>
  <2>1. new \in Seq(Made(p, h))
    <3>1. [op |-> "deleteMsg", msg |-> h.msg] \in Made(p, h)
      BY <1>2, <1>4 DEF Made
    <3> QED
      BY <3>1
  <2>2. Follows(p, h, new)
    BY <1>2, <1>4 DEF Follows, FollowsDelete
  <2>3. Goto(p, new \o Tail(s)) /\ UNCHANGED <<data, total, bounds>>
    BY <1>1, <1>2, <1>4, EmptyCalls, EmptyConcat DEF Reads
  <2> HIDE DEF new
  <2> QED
    BY <1>2, <2>1, <2>2, <2>3, ReadShape DEF Plain, First, TotalEffect
<1> QED
  BY <1>1, <1>3, <1>4

LEMMA DeleteFileMade ==
    ASSUME NEW i, NEW d
    PROVE  DeleteFile(i, d) \in Seq(FileFrames(i, d))
<1> DEFINE F == FileFrames(i, d)
           a == IF IsLive(d) THEN <<Add(-Bytes(d))>> ELSE <<>>
           b == IF d.msg # NoMessage THEN <<About("countRefs", i, d.msg)>> ELSE <<>>
           r == <<At("remove", i)>>
<1>1. /\ Add(-Bytes(d)) \in F /\ At("remove", i) \in F
      /\ d.msg # NoMessage => About("countRefs", i, d.msg) \in F
  BY DEF FileFrames
<1> HIDE DEF F
<1>2. a \in Seq(F) /\ b \in Seq(F) /\ r \in Seq(F)
  BY <1>1
<1>3. DeleteFile(i, d) = a \o b \o r
  BY DEF DeleteFile
<1> HIDE DEF a, b, r
<1>4. a \o b \o r \in Seq(F)
  BY <1>2
<1> QED
  BY <1>3, <1>4 DEF F

LEMMA DeleteTreeMade ==
    ASSUME NEW i, NEW M, At("remove", i) \in M, Loop("deleteEach", Fetch(Children(files, i)), Root) \in M
    PROVE  DeleteTree(i) \in Seq(M)
<1> DEFINE e == Each("deleteEach", Fetch(Children(files, i)), Root)
<1>1. e \in Seq(M)
  BY EachMade
<1>2. <<At("remove", i)>> \in Seq(M)
  OBVIOUS
<1> HIDE DEF e
<1>3. e \o <<At("remove", i)>> \in Seq(M)
  BY <1>1, <1>2
<1> QED
  BY <1>3 DEF DeleteTree, e

LEMMA DeleteShape ==
    ASSUME IInv, NEW p \in Procs, Delete(p)
    PROVE  \E s \in Ready(todo[p]) : \E new : \E rest : GoesOn(p, s, new, rest)
<1>1. PICK s \in Calls(p, "delete") :
        Reads(p, (IF Head(s).id \notin DOMAIN files THEN <<>>
                  ELSE IF IsFolder(files[Head(s).id])
                       THEN <<At("deleteChildren", Head(s).id), At("remove", Head(s).id)>>
                  ELSE DeleteFile(Head(s).id, files[Head(s).id])) \o Tail(s))
  BY DEF Delete
<1> DEFINE h == Head(s)
           new == IF h.id \notin DOMAIN files THEN <<>>
                  ELSE IF IsFolder(files[h.id]) THEN <<At("deleteChildren", h.id), At("remove", h.id)>>
                  ELSE DeleteFile(h.id, files[h.id])
<1>2. s \in Ready(todo[p]) /\ h.op = "delete" /\ Tail(s) \in Seq(Frame)
  BY CallTail
<1>3. new \in Seq(Made(p, h))
  <2>1. CASE h.id \notin DOMAIN files
    BY <2>1, EmptyCalls
  <2>2. CASE h.id \in DOMAIN files /\ IsFolder(files[h.id])
    <3>1. At("deleteChildren", h.id) \in Made(p, h) /\ At("remove", h.id) \in Made(p, h)
      BY <1>2, <2>2 DEF Made
    <3> QED
      BY <2>2, <3>1
  <2>3. CASE h.id \in DOMAIN files /\ ~IsFolder(files[h.id])
    <3>1. Made(p, h) = FileFrames(h.id, files[h.id])
      BY <1>2, <2>3 DEF Made
    <3> QED
      BY <2>3, <3>1, DeleteFileMade
  <2> QED
    BY <2>1, <2>2, <2>3
<1>4. Follows(p, h, new)
  BY <1>2 DEF Follows, FollowsDelete
<1>5. Goto(p, new \o Tail(s)) /\ UNCHANGED <<data, total, bounds>>
  BY <1>1 DEF Reads
<1> HIDE DEF new
<1> QED
  BY <1>2, <1>3, <1>4, <1>5, ReadShape DEF Plain, First, TotalEffect

LEMMA DeleteChildrenShape ==
    ASSUME IInv, NEW p \in Procs, DeleteChildren(p)
    PROVE  \E s \in Ready(todo[p]) : \E new : \E rest : GoesOn(p, s, new, rest)
<1>1. PICK s \in Calls(p, "deleteChildren") : Reads(p, DeleteTree(Head(s).id) \o Tail(s))
  BY DEF DeleteChildren
<1> DEFINE h == Head(s)
           new == DeleteTree(h.id)
<1>2. s \in Ready(todo[p]) /\ h.op = "deleteChildren" /\ Tail(s) \in Seq(Frame)
  BY CallTail
<1>3. new \in Seq(Made(p, h))
  <2>1. /\ Loop("deleteEach", Fetch(Children(files, h.id)), Root) \in Made(p, h)
        /\ At("remove", h.id) \in Made(p, h)
    BY <1>2 DEF Made
  <2> QED
    BY <2>1, DeleteTreeMade
<1>4. Follows(p, h, new)
  BY <1>2 DEF Follows, FollowsDelete
<1>5. Goto(p, new \o Tail(s)) /\ UNCHANGED <<data, total, bounds>>
  BY <1>1 DEF Reads
<1> HIDE DEF new
<1> QED
  BY <1>2, <1>3, <1>4, <1>5, ReadShape DEF Plain, First, TotalEffect

LEMMA SubtreeSizeShape ==
    ASSUME IInv, NEW p \in Procs, SubtreeSize(p)
    PROVE  \E s \in Ready(todo[p]) : \E new : \E rest : GoesOn(p, s, new, rest)
<1>1. PICK s \in Calls(p, "size") :
        /\ Goto(p, (IF IsFolder(Head(s).doc) THEN Each("sizeEach", Fetch(LiveChildren(files, Head(s).id)), Root)
                    ELSE <<>>) \o Tail(s))
        /\ TotalEffect(p, Head(s)) /\ UNCHANGED <<data, bounds>>
  BY DEF SubtreeSize, TotalEffect, Calls
<1> DEFINE h == Head(s)
           new == IF IsFolder(h.doc) THEN Each("sizeEach", Fetch(LiveChildren(files, h.id)), Root) ELSE <<>>
<1>2. s \in Ready(todo[p]) /\ h.op = "size" /\ Tail(s) \in Seq(Frame)
  BY CallTail
<1>3. new \in Seq(Made(p, h))
  <2>1. Loop("sizeEach", Fetch(LiveChildren(files, h.id)), Root) \in Made(p, h)
    BY <1>2 DEF Made
  <2> QED
    BY <2>1, EachMade, EmptyCalls
<1>4. Follows(p, h, new)
  BY <1>2 DEF Follows, FollowsPlace
<1>5. Goto(p, new \o Tail(s)) /\ UNCHANGED <<data, bounds>> /\ TotalEffect(p, h)
  BY <1>1
<1> HIDE DEF new
<1> QED
  BY <1>2, <1>3, <1>4, <1>5, ReadShape DEF Plain, First

\* The steps that write a document and go on.
LEMMA WriteShape ==
    ASSUME IInv, NEW p \in Procs, NEW op, NEW s \in Calls(p, op), op \notin First \cup {"size"},
           NEW new \in Seq(Made(p, Head(s))), Follows(p, Head(s), new), Effect(Head(s)),
           Goto(p, new \o Tail(s)), UNCHANGED total
    PROVE  \E u \in Ready(todo[p]) : \E more : \E rest : GoesOn(p, u, more, rest)
<1>1. s \in Ready(todo[p]) /\ Head(s).op = op
  BY DEF Calls
<1>2. GoesOn(p, s, new, Tail(s))
  BY <1>1 DEF GoesOn, TotalEffect
<1> QED
  BY <1>1, <1>2

LEMMA CopyDocShape ==
    ASSUME IInv, NEW p \in Procs, CopyDoc(p)
    PROVE  \E s \in Ready(todo[p]) : \E new : \E rest : GoesOn(p, s, new, rest)
<1>1. PICK s \in Calls(p, "copyDoc") :
        /\ InsertDoc([Head(s).doc EXCEPT !.parent = Head(s).to, !.trash = "live"])
        /\ Goto(p, (IF IsFolder(Head(s).doc) THEN <<Into("copyChildren", Head(s).id, nextId)>> ELSE <<>>)
                   \o Tail(s))
        /\ UNCHANGED <<used, messages, nextMsg, queue, uploads, total, bounds>>
  BY DEF CopyDoc
<1> DEFINE h == Head(s)
           new == IF IsFolder(h.doc) THEN <<Into("copyChildren", h.id, nextId)>> ELSE <<>>
<1>2. h.op = "copyDoc" /\ "copyDoc" \notin First
  BY CallTail DEF First
<1>3. new \in Seq(Made(p, h))
  <2>1. IsFolder(h.doc) => Into("copyChildren", h.id, nextId) \in Made(p, h)
    BY <1>2 DEF Made
  <2> QED
    BY <2>1, EmptyCalls
<1>4. Follows(p, h, new)
  BY <1>2 DEF Follows, FollowsPlace
<1>5. Effect(h)
  BY <1>1, <1>2 DEF Effect, FilesEffect, MessagesEffect, QueueEffect, UsedEffect, bounds
<1>6. Goto(p, new \o Tail(s))
  BY <1>1
<1> HIDE DEF new
<1> QED
  BY <1>1, <1>2, <1>3, <1>4, <1>5, <1>6, WriteShape

LEMMA InsertNewShape ==
    ASSUME IInv, NEW p \in Procs, InsertNew(p)
    PROVE  \E s \in Ready(todo[p]) : \E new : \E rest : GoesOn(p, s, new, rest)
<1>1. PICK s \in Calls(p, "insert") :
        /\ InsertDoc(Head(s).doc)
        /\ Goto(p, (IF IsFolder(Head(s).doc) THEN <<>> ELSE <<Add(Bytes(Head(s).doc))>>)
                   \o (IF Head(s).send THEN <<At("enqueue", nextId)>> ELSE <<>>)
                   \o Tail(s))
        /\ UNCHANGED <<used, messages, nextMsg, queue, uploads, total, bounds>>
  BY DEF InsertNew
<1> DEFINE h == Head(s)
           a == IF IsFolder(h.doc) THEN <<>> ELSE <<Add(Bytes(h.doc))>>
           b == IF h.send THEN <<At("enqueue", nextId)>> ELSE <<>>
           new == a \o b
<1>2. h.op = "insert" /\ "insert" \notin First
  BY CallTail DEF First
<1>3. new \in Seq(Made(p, h))
  <2>1. Add(Bytes(h.doc)) \in Made(p, h) /\ (h.send => At("enqueue", nextId) \in Made(p, h))
    BY <1>2 DEF Made
  <2>2. a \in Seq(Made(p, h)) /\ b \in Seq(Made(p, h))
    BY <2>1, EmptyCalls
  <2> HIDE DEF a, b
  <2> QED
    BY <2>2
<1>4. Follows(p, h, new)
  BY <1>2 DEF Follows, FollowsPlace
<1>5. Effect(h)
  BY <1>1, <1>2 DEF Effect, FilesEffect, MessagesEffect, QueueEffect, UsedEffect, bounds
<1>6. Goto(p, new \o Tail(s))
  BY <1>1
<1> HIDE DEF new
<1> QED
  BY <1>1, <1>2, <1>3, <1>4, <1>5, <1>6, WriteShape

LEMMA DedupShape ==
    ASSUME IInv, NEW p \in Procs, Dedup(p)
    PROVE  \E s \in Ready(todo[p]) : \E new : \E rest : GoesOn(p, s, new, rest)
<1>1. PICK s \in Calls(p, "dedup") :
        \/ Reads(p, <<Insert(NewDoc(Head(s).content, NoMessage, Head(s).to), TRUE)>> \o Tail(s))
        \/ \E e \in DOMAIN files :
             Reads(p, <<Insert(NewDoc(Head(s).content, files[e].msg, Head(s).to), FALSE)>> \o Tail(s))
  BY DEF Dedup
<1> DEFINE h == Head(s)
<1>2. h.op = "dedup"
  BY CallTail
<1>3. PICK new :
        /\ \/ new = <<Insert(NewDoc(h.content, NoMessage, h.to), TRUE)>>
           \/ \E e \in DOMAIN files : new = <<Insert(NewDoc(h.content, files[e].msg, h.to), FALSE)>>
        /\ Reads(p, new \o Tail(s))
  BY <1>1
<1>4. new \in Seq(Made(p, h))
  <2>1. Made(p, h) = {Insert(NewDoc(h.content, NoMessage, h.to), TRUE)}
          \cup {Insert(NewDoc(h.content, files[e].msg, h.to), FALSE) : e \in DOMAIN files}
    BY <1>2 DEF Made
  <2>2. PICK f \in Made(p, h) : new = <<f>>
    BY <1>3, <2>1
  <2> QED
    BY <2>2
<1>5. Follows(p, h, new)
  BY <1>2, <1>3 DEF Follows, FollowsPlace
<1> QED
  BY <1>2, <1>3, <1>4, <1>5, ReadShape DEF Plain, First, TotalEffect, Reads

LEMMA SendShape ==
    ASSUME IInv, NEW p \in Procs, Send(p)
    PROVE  \E s \in Ready(todo[p]) : \E new : \E rest : GoesOn(p, s, new, rest)
<1>1. PICK s \in Calls(p, "send") :
        /\ \/ /\ messages' = messages \cup {nextMsg}
              /\ nextMsg' = nextMsg + 1
              /\ Goto(p, <<About("record", Head(s).id, nextMsg)>> \o Tail(s))
           \/ /\ Goto(p, Tail(s))
              /\ UNCHANGED <<messages, nextMsg>>
        /\ UNCHANGED <<files, used, nextId, queue, uploads, total, bounds>>
  BY DEF Send
<1> DEFINE h == Head(s)
<1>2. h.op = "send" /\ "send" \notin First /\ Tail(s) \in Seq(Frame)
  BY CallTail DEF First
<1>3. <<>> \o Tail(s) = Tail(s)
  BY <1>2
<1>4. Effect(h)
  BY <1>1, <1>2 DEF Effect, FilesEffect, MessagesEffect, QueueEffect, UsedEffect, bounds
<1>5. CASE UNCHANGED <<messages, nextMsg>> /\ Goto(p, Tail(s))
  <2>1. Follows(p, h, <<>>)
    BY <1>2, <1>5 DEF Follows, FollowsDelete
  <2> QED
    BY <1>1, <1>2, <1>4, <1>5, <2>1, PlainShape
<1>6. CASE /\ messages' = messages \cup {nextMsg} /\ nextMsg' = nextMsg + 1
           /\ Goto(p, <<About("record", h.id, nextMsg)>> \o Tail(s))
  <2> DEFINE new == <<About("record", h.id, nextMsg)>>
  <2>1. Follows(p, h, new)
    BY <1>2, <1>6 DEF Follows, FollowsDelete
  <2>2. new \in Seq(Made(p, h))
    <3>1. About("record", h.id, nextMsg) \in Made(p, h)
      BY <1>2 DEF Made
    <3> QED
      BY <3>1
  <2>3. Goto(p, new \o Tail(s))
    BY <1>6
  <2> HIDE DEF new
  <2> QED
    BY <1>1, <1>2, <1>4, <2>1, <2>2, <2>3, WriteShape
<1> QED
  BY <1>1, <1>5, <1>6

LEMMA StepShape ==
    ASSUME IInv, NEW p \in Procs, Step(p) \/ WorkerStep(p)
    PROVE  \E s \in Ready(todo[p]) : \E new : \E rest : GoesOn(p, s, new, rest)
BY CheckParentShape, AddUsedShape, MoveShape, WalkShape, SetParentShape, CopyFileShape,
   SubtreeSizeShape, CopyQuotaShape, CopyDocShape, CopyChildrenShape, UploadQuotaShape,
   InitQuotaShape, OpenUploadShape,
   DedupShape, InsertNewShape, EnqueueShape, TrashShape, TrashChildrenShape, MarkShape,
   RestoreShape, RestoreParentShape, RestoreCheckShape, UnmarkShape, RestoreChildrenShape,
   DeleteShape, DeleteChildrenShape, CountRefsShape, DeleteMsgShape, RemoveShape, PurgeShape,
   SendShape, RecordShape
DEF Step, WorkerStep

\* Taking the next document of a loop.
Takes(l, k, rest, s) ==
    /\ l.op \in EachOps /\ k \in l.kids
    /\ s = Iteration(l.op, k, l.to) \o Each(l.op, l.kids \ {k}, l.to) \o rest

LEMMA IterationIn ==
    ASSUME NEW op \in EachOps, NEW k, NEW to
    PROVE  Iteration(op, k, to) \in Seq(IterationMade(op, k, to))
<1> DEFINE M == IterationMade(op, k, to)
<1>1. CASE op = "trashEach"
  <2>1. At("trashChildren", k.id) \in M /\ Add(-Bytes(k.doc)) \in M /\ At("mark", k.id) \in M
    BY <1>1 DEF IterationMade
  <2>2. Iteration(op, k, to) =
           <<IF IsFolder(k.doc) THEN At("trashChildren", k.id) ELSE Add(-Bytes(k.doc)), At("mark", k.id)>>
    BY <1>1 DEF Iteration
  <2> HIDE DEF M
  <2> QED
    BY <2>1, <2>2 DEF M
<1>2. CASE op = "restoreEach"
  <2>1. At("restoreChildren", k.id) \in M /\ Add(Bytes(k.doc)) \in M /\ At("unmark", k.id) \in M
    BY <1>2 DEF IterationMade
  <2>2. Iteration(op, k, to) =
           <<IF IsFolder(k.doc) THEN At("restoreChildren", k.id) ELSE Add(Bytes(k.doc)), At("unmark", k.id)>>
    BY <1>2 DEF Iteration
  <2> HIDE DEF M
  <2> QED
    BY <2>1, <2>2 DEF M
<1>3. CASE op = "deleteEach"
  <2>1. M = IF IsFolder(k.doc) THEN {At("deleteChildren", k.id)} ELSE FileFrames(k.id, k.doc)
    BY <1>3 DEF IterationMade
  <2>2. Iteration(op, k, to) =
          IF IsFolder(k.doc) THEN <<At("deleteChildren", k.id)>> ELSE DeleteFile(k.id, k.doc)
    BY <1>3 DEF Iteration
  <2>3. CASE IsFolder(k.doc)
    <3>1. At("deleteChildren", k.id) \in M
      BY <2>1, <2>3
    <3> HIDE DEF M
    <3> QED
      BY <2>2, <2>3, <3>1 DEF M
  <2>4. CASE ~IsFolder(k.doc)
    BY <2>1, <2>2, <2>4, DeleteFileMade
  <2> QED
    BY <2>3, <2>4
<1>4. CASE op = "purgeEach"
  BY <1>4 DEF Iteration, IterationMade
<1>5. CASE op = "sizeEach"
  BY <1>5 DEF Iteration, IterationMade
<1>6. CASE op = "copyEach"
  BY <1>6 DEF Iteration, IterationMade
<1> QED
  BY <1>1, <1>2, <1>3, <1>4, <1>5, <1>6 DEF EachOps

\* How a process stands before its next call: the loops at the head of what
\* it has to do have taken their next document.
LEMMA ReadyShape ==
    ASSUME NEW s, NEW t \in Ready(s)
    PROVE  /\ s # <<>>
           /\ \/ t = s /\ Head(s).op \notin EachOps
              \/ \E k : Takes(Head(s), k, Tail(s), t)
BY DEF Ready, Takes

\* What a loop leaves for later.
LEMMA LaterIn ==
    ASSUME NEW op, NEW kids, NEW to
    PROVE  Each(op, kids, to) \in Seq({Loop(op, kids, to)})
BY EachMade

LEMMA Both ==
    ASSUME NEW A, NEW B, NEW s \in Seq(A), s \in Seq(B)
    PROVE  s \in Seq(A \cap B)
OBVIOUS

\* Whatever is true of the frames a process may come to stand before, is true
\* of all it has to do.
LEMMA ReadyIn ==
    ASSUME NEW X, NEW s \in Seq(X), NEW t \in Ready(s), t \in Seq(Frame), X \subseteq Frame,
           ASSUME NEW l \in X, l.op \in EachOps, NEW k \in l.kids,
                  NEW f \in Frame,
                  f \in IterationMade(l.op, k, l.to) \/ f = Loop(l.op, l.kids \ {k}, l.to)
           PROVE  f \in X
    PROVE  t \in Seq(X)
<1>1. s # <<>> /\ (t = s \/ \E k : Takes(Head(s), k, Tail(s), t))
  BY ReadyShape
<1>2. Head(s) \in X /\ Tail(s) \in Seq(X)
  BY <1>1
<1>3. ASSUME NEW k, Takes(Head(s), k, Tail(s), t) PROVE t \in Seq(X)
  <2> DEFINE l == Head(s)
             a == Iteration(l.op, k, l.to)
             b == Each(l.op, l.kids \ {k}, l.to)
             M == IterationMade(l.op, k, l.to)
             N == {Loop(l.op, l.kids \ {k}, l.to)}
             Y == X \cup M \cup N
  <2>1. l \in X /\ k \in l.kids /\ l.op \in EachOps
    BY <1>2, <1>3 DEF Takes
  <2>2. t = a \o b \o Tail(s)
    BY <1>3 DEF Takes
  <2>3. Y \cap Frame \subseteq X
    BY <2>1
  <2>4. a \in Seq(M) /\ b \in Seq(N)
    BY <2>1, IterationIn, LaterIn
  <2> HIDE DEF a, b, M, N
  <2>5. a \in Seq(Y) /\ b \in Seq(Y) /\ Tail(s) \in Seq(Y)
    BY <1>2, <2>4
  <2> HIDE DEF Y
  <2>6. t \in Seq(Y)
    BY <2>2, <2>5
  <2>7. t \in Seq(Y \cap Frame)
    BY <2>6, Both
  <2> QED
    BY <2>3, <2>7
<1> QED
  BY <1>1, <1>3

\* And of all it has to do after its next call.
LEMMA GoesOnIn ==
    ASSUME NEW p, NEW X, NEW s \in Seq(X), s # <<>>, NEW new, NEW rest,
           GoesOn(p, s, new, rest), new \o rest \in Seq(Frame), X \subseteq Frame,
           NEW Z, X \subseteq Z,
           ASSUME Follows(p, Head(s), new), Effect(Head(s)), NEW f \in Frame, f \in Made(p, Head(s))
           PROVE  f \in Z
    PROVE  new \o rest \in Seq(Z)
<1>1. new \in Seq(Made(p, Head(s))) /\ (rest = <<>> \/ rest = Tail(s))
  BY DEF GoesOn
<1>2. Tail(s) \in Seq(X)
  OBVIOUS
<1>3. rest \in Seq(X)
  BY <1>1, <1>2, EmptyCalls
<1>4. CASE Follows(p, Head(s), new) /\ Effect(Head(s))
  <2> DEFINE M == Made(p, Head(s))
             Y == X \cup M
  <2>1. new \in Seq(M) /\ Y \cap Frame \subseteq Z
    BY <1>1, <1>4
  <2> HIDE DEF M
  <2>2. new \in Seq(Y) /\ rest \in Seq(Y)
    BY <1>3, <2>1
  <2> HIDE DEF Y
  <2>3. new \o rest \in Seq(Y)
    BY <2>2
  <2>4. new \o rest \in Seq(Y \cap Frame)
    BY <2>3, Both
  <2> DEFINE t == new \o rest
  <2> HIDE DEF t
  <2> QED
    BY <2>1, <2>4 DEF t
<1>5. CASE new = <<>> /\ rest = <<>>
  BY <1>5, EmptyConcat, EmptyCalls
<1> QED
  BY <1>4, <1>5 DEF GoesOn

(***************************************************************************)
(* A process at work does one request: which calls each kind makes.        *)
(***************************************************************************)
OpsOf ==
    [trash   |-> {"trash", "trashChildren", "trashEach", "mark", "add"},
     restore |-> {"restore", "restoreParent", "restoreCheck", "restoreChildren", "restoreEach", "unmark", "add"},
     delete  |-> {"delete", "deleteEach", "deleteChildren", "countRefs", "deleteMsg", "remove", "add"},
     purge   |-> {"purge", "purgeEach", "delete", "deleteEach", "deleteChildren", "countRefs", "deleteMsg",
                  "remove", "add"},
     move    |-> {"move", "parent", "walk", "setParent"},
     copy    |-> {"copy", "parent", "walk", "size", "sizeEach", "copyQuota", "copyDoc", "copyChildren",
                  "copyEach", "add"},
     mkdir   |-> {"parent", "insert", "add", "enqueue"},
     upload  |-> {"parent", "quota", "dedup", "insert", "add", "enqueue"},
     init    |-> {"initQuota", "parent", "openUpload"},
     complete |-> {"dedup", "insert", "add", "enqueue"}]

WorkerOps == {"send", "record"}

FramesOf(O) == {f \in Frame : f.op \in O}

\* Every client does a request of a kind it may issue, and workers send.
OneRequest ==
    /\ \A c \in Clients : todo[c] # <<>> => \E kind \in may[c] : todo[c] \in Seq(FramesOf(OpsOf[kind]))
    /\ \A w \in Workers : todo[w] \in Seq(FramesOf(WorkerOps))

\* The calls that follow a call, or an iteration of a loop.
MoreOps(op) ==
    CASE op = "move" -> {"parent", "walk", "setParent"}
      [] op = "walk" -> {"walk"}
      [] op = "copy" -> {"parent", "walk", "size", "copyQuota"}
      [] op = "size" -> {"sizeEach"}
      [] op = "sizeEach" -> {"size", "sizeEach"}
      [] op = "copyQuota" -> {"copyDoc", "add"}
      [] op = "copyDoc" -> {"copyChildren"}
      [] op = "copyChildren" -> {"copyEach"}
      [] op = "copyEach" -> {"copyDoc", "copyEach"}
      [] op = "quota" -> {"dedup"}
      [] op = "initQuota" -> {"parent", "openUpload"}
      [] op = "dedup" -> {"insert"}
      [] op = "insert" -> {"add", "enqueue"}
      [] op = "trash" -> {"trashChildren", "mark", "add"}
      [] op = "trashChildren" -> {"trashEach"}
      [] op = "trashEach" -> {"trashChildren", "mark", "add", "trashEach"}
      [] op = "restore" -> {"restoreParent", "restoreCheck"}
      [] op = "restoreParent" -> {"restore"}
      [] op = "restoreCheck" -> {"unmark", "restoreChildren", "add"}
      [] op = "restoreChildren" -> {"restoreEach"}
      [] op = "restoreEach" -> {"restoreChildren", "unmark", "add", "restoreEach"}
      [] op = "delete" -> {"deleteChildren", "remove", "add", "countRefs"}
      [] op = "deleteChildren" -> {"deleteEach", "remove"}
      [] op = "deleteEach" -> {"deleteChildren", "remove", "add", "countRefs", "deleteEach"}
      [] op = "countRefs" -> {"deleteMsg"}
      [] op = "purge" -> {"purgeEach"}
      [] op = "purgeEach" -> {"delete", "purgeEach"}
      [] op = "send" -> {"record"}
      [] OTHER -> {}

AllOps == AtOps \cup DocOps \cup PlaceOps \cup EachOps
          \cup {"copyQuota", "copyDoc", "quota", "dedup", "insert", "countRefs", "record", "deleteMsg", "add",
                "openUpload"}

LEMMA FrameOps == \A f \in Frame : f.op \in AllOps
BY DEF Frame, AllOps

LEMMA MadeOps ==
    ASSUME NEW p, NEW h \in Frame, NEW f \in Made(p, h)
    PROVE  f.op \in MoreOps(h.op)
<1>1. h.op \in AllOps
  BY FrameOps
<1>2. CASE h.op = "move"
  BY <1>2 DEF Made, MoreOps, At, Into
<1>3. CASE h.op = "walk"
  BY <1>3 DEF Made, MoreOps, Into
<1>4. CASE h.op = "copy"
  BY <1>4 DEF Made, MoreOps, At, Into, Of, Copy
<1>5. CASE h.op = "size"
  BY <1>5 DEF Made, MoreOps, Loop
<1>6. CASE h.op = "copyQuota"
  BY <1>6 DEF Made, MoreOps, Copy, Add
<1>7. CASE h.op = "copyDoc"
  BY <1>7 DEF Made, MoreOps, Into
<1>8. CASE h.op = "copyChildren"
  BY <1>8 DEF Made, MoreOps, Loop
<1>9. CASE h.op = "quota"
  BY <1>9 DEF Made, MoreOps, New
<1>10. CASE h.op = "dedup"
  BY <1>10 DEF Made, MoreOps, Insert
<1>11. CASE h.op = "insert"
  BY <1>11 DEF Made, MoreOps, Add, At
<1>12. CASE h.op = "trash"
  BY <1>12 DEF Made, MoreOps, At, Add
<1>13. CASE h.op = "trashChildren"
  BY <1>13 DEF Made, MoreOps, Loop
<1>14. CASE h.op = "restore"
  BY <1>14 DEF Made, MoreOps, Of
<1>15. CASE h.op = "restoreParent"
  BY <1>15 DEF Made, MoreOps, At
<1>16. CASE h.op = "restoreCheck"
  BY <1>16 DEF Made, MoreOps, At, Add
<1>17. CASE h.op = "restoreChildren"
  BY <1>17 DEF Made, MoreOps, Loop
<1>18. CASE h.op = "delete"
  BY <1>18 DEF Made, MoreOps, At, Add, About, FileFrames
<1>19. CASE h.op = "deleteChildren"
  BY <1>19 DEF Made, MoreOps, At, Loop
<1>20. CASE h.op = "countRefs"
  BY <1>20 DEF Made, MoreOps
<1>21. CASE h.op = "purge"
  BY <1>21 DEF Made, MoreOps, Loop
<1>22. CASE h.op = "send"
  BY <1>22 DEF Made, MoreOps, About
<1>23. CASE h.op \in EachOps \cup {"parent", "mark", "unmark", "remove", "enqueue", "setParent", "record",
                                   "deleteMsg", "add", "openUpload"}
  BY <1>23 DEF Made, EachOps
<1>24. CASE h.op = "initQuota"
  BY <1>24 DEF Made, MoreOps, At, Open
<1> QED
  BY <1>1, <1>2, <1>3, <1>4, <1>5, <1>6, <1>7, <1>8, <1>9, <1>10, <1>11, <1>12, <1>13, <1>14, <1>15, <1>16, <1>17, <1>18, <1>19, <1>20, <1>21, <1>22, <1>23, <1>24
  DEF AllOps, AtOps, DocOps, PlaceOps

LEMMA IterationOps ==
    ASSUME NEW op \in EachOps, NEW k, NEW to, NEW kids, NEW f,
           f \in IterationMade(op, k, to) \/ f = Loop(op, kids, to)
    PROVE  f.op \in MoreOps(op)
<1>1. CASE f = Loop(op, kids, to)
  BY <1>1 DEF EachOps, Loop, MoreOps
<1>2. CASE f \in IterationMade(op, k, to)
  BY <1>2 DEF EachOps, IterationMade, FileFrames, MoreOps, At, Of, Copy, Add, About
<1> QED
  BY <1>1, <1>2

LEMMA OpsClosed ==
    ASSUME NEW kind \in Kinds
    PROVE  \A op \in OpsOf[kind] : MoreOps(op) \subseteq OpsOf[kind]
<1>1. CASE kind = "trash"
  BY <1>1 DEF OpsOf, MoreOps
<1>2. CASE kind = "restore"
  BY <1>2 DEF OpsOf, MoreOps
<1>3. CASE kind = "delete"
  BY <1>3 DEF OpsOf, MoreOps
<1>4. CASE kind = "purge"
  BY <1>4 DEF OpsOf, MoreOps
<1>5. CASE kind = "move"
  BY <1>5 DEF OpsOf, MoreOps
<1>6. CASE kind = "copy"
  BY <1>6 DEF OpsOf, MoreOps
<1>7. CASE kind = "mkdir"
  BY <1>7 DEF OpsOf, MoreOps
<1>8. CASE kind = "upload"
  BY <1>8 DEF OpsOf, MoreOps
<1>9. CASE kind = "init"
  BY <1>9 DEF OpsOf, MoreOps
<1>10. CASE kind = "complete"
  BY <1>10 DEF OpsOf, MoreOps
<1> QED
  BY <1>1, <1>2, <1>3, <1>4, <1>5, <1>6, <1>7, <1>8, <1>9, <1>10 DEF Kinds

LEMMA WorkerOpsClosed == \A op \in WorkerOps : MoreOps(op) \subseteq WorkerOps
BY DEF WorkerOps, MoreOps

\* A set of calls that is closed, at a loop and at a step.
LEMMA OpsReady ==
    ASSUME IInv, NEW p \in Procs, NEW s \in Ready(todo[p]),
           NEW O, \A op \in O : MoreOps(op) \subseteq O, todo[p] \in Seq(FramesOf(O))
    PROVE  s \in Seq(FramesOf(O))
<1> DEFINE X == FramesOf(O)
<1>1. X \subseteq Frame /\ todo[p] \in Seq(X)
  BY DEF FramesOf
<1>2. s \in Seq(Frame)
  BY CallTail DEF Calls
<1>3. ASSUME NEW l \in X, l.op \in EachOps, NEW k \in l.kids, NEW f \in Frame,
             f \in IterationMade(l.op, k, l.to) \/ f = Loop(l.op, l.kids \ {k}, l.to)
      PROVE  f \in X
  <2>1. f.op \in MoreOps(l.op)
    BY <1>3, IterationOps
  <2> QED
    BY <2>1 DEF FramesOf
<1> HIDE DEF X
<1>4. s \in Seq(X)
  BY <1>1, <1>2, <1>3, ReadyIn
<1> QED
  BY <1>4 DEF X

LEMMA OpsStep ==
    ASSUME IInv, IInv', NEW p \in Procs, Step(p) \/ WorkerStep(p),
           NEW O, \A op \in O : MoreOps(op) \subseteq O, todo[p] \in Seq(FramesOf(O))
    PROVE  todo'[p] \in Seq(FramesOf(O))
<1> DEFINE X == FramesOf(O)
<1>1. PICK s \in Ready(todo[p]) : \E new : \E rest : GoesOn(p, s, new, rest)
  BY StepShape
<1>2. PICK new, rest : GoesOn(p, s, new, rest)
  BY <1>1
<1>3. X \subseteq Frame /\ todo[p] \in Seq(X)
  BY DEF FramesOf
<1>4. s \in Seq(Frame) /\ s # <<>>
  BY CallTail DEF Calls
<1>5. todo'[p] = new \o rest /\ new \o rest \in Seq(Frame)
  BY <1>2 DEF GoesOn, Goto, IInv, TypeOK
<1>6. s \in Seq(X)
  BY OpsReady
<1>7. ASSUME NEW f \in Frame, f \in Made(p, Head(s)) PROVE f \in X
  <2>1. Head(s) \in X
    BY <1>4, <1>6
  <2>2. f.op \in MoreOps(Head(s).op)
    BY <1>7, <2>1, MadeOps DEF FramesOf
  <2> QED
    BY <2>1, <2>2 DEF FramesOf
<1> HIDE DEF X
<1>8. new \o rest \in Seq(X)
  BY <1>2, <1>3, <1>4, <1>5, <1>6, <1>7, GoesOnIn
<1> QED
  BY <1>5, <1>8 DEF X

\* The first calls of a request.
FirstMade(kind) ==
    CASE kind = "trash" -> {At("trash", i) : i \in 1 .. (nextId - 1)}
      [] kind = "restore" -> {At("restore", i) : i \in 1 .. (nextId - 1)}
      [] kind = "delete" -> {At("delete", i) : i \in 1 .. (nextId - 1)}
      [] kind = "purge" -> {At("purge", Root)}
      [] kind = "move" -> {Into("move", i, to) : i \in 1 .. (nextId - 1), to \in {Root} \cup DOMAIN files}
      [] kind = "copy" -> {Into("copy", i, to) : i \in 1 .. (nextId - 1), to \in {Root} \cup DOMAIN files}
      [] kind = "mkdir" -> {At("parent", to) : to \in DOMAIN files}
                           \cup {Insert(NewDoc("folder", NoMessage, to), FALSE) : to \in {Root} \cup DOMAIN files}
      [] kind = "upload" -> {At("parent", to) : to \in DOMAIN files}
                            \cup {New("quota", c, to) : c \in Contents, to \in {Root} \cup DOMAIN files}
      [] kind = "init" -> {At("initQuota", to) : to \in {Root} \cup DOMAIN files}
      [] kind = "complete" -> {New("dedup", c, to) : c \in Contents, to \in uploads}

LEMMA RequestMade ==
    ASSUME NEW kind \in Kinds, NEW s \in Requests[kind]
    PROVE  s \in Seq(FirstMade(kind)) /\ s # <<>>
<1> DEFINE ids == 1 .. (nextId - 1)
           places == {Root} \cup DOMAIN files
           M == FirstMade(kind)
<1>1. CASE kind = "trash"
  <2>1. PICK i \in ids : s = <<At("trash", i)>>
    BY <1>1 DEF Requests
  <2>2. At("trash", i) \in M
    BY <1>1 DEF FirstMade
  <2> HIDE DEF M
  <2> QED
    BY <2>1, <2>2, Single DEF M
<1>2. CASE kind = "restore"
  <2>1. PICK i \in ids : s = <<At("restore", i)>>
    BY <1>2 DEF Requests
  <2>2. At("restore", i) \in M
    BY <1>2 DEF FirstMade
  <2> HIDE DEF M
  <2> QED
    BY <2>1, <2>2, Single DEF M
<1>3. CASE kind = "delete"
  <2>1. PICK i \in ids : s = <<At("delete", i)>>
    BY <1>3 DEF Requests
  <2>2. At("delete", i) \in M
    BY <1>3 DEF FirstMade
  <2> HIDE DEF M
  <2> QED
    BY <2>1, <2>2, Single DEF M
<1>4. CASE kind = "purge"
  <2>1. s = <<At("purge", Root)>>
    BY <1>4 DEF Requests
  <2>2. At("purge", Root) \in M
    BY <1>4 DEF FirstMade
  <2> HIDE DEF M
  <2> QED
    BY <2>1, <2>2, Single DEF M
<1>5. CASE kind = "move"
  <2>1. PICK i \in ids, to \in places : s = <<Into("move", i, to)>>
    BY <1>5 DEF Requests
  <2>2. Into("move", i, to) \in M
    BY <1>5 DEF FirstMade
  <2> HIDE DEF M
  <2> QED
    BY <2>1, <2>2, Single DEF M
<1>6. CASE kind = "copy"
  <2>1. PICK i \in ids, to \in places : s = <<Into("copy", i, to)>>
    BY <1>6 DEF Requests
  <2>2. Into("copy", i, to) \in M
    BY <1>6 DEF FirstMade
  <2> HIDE DEF M
  <2> QED
    BY <2>1, <2>2, Single DEF M
<1>7. CASE kind = "mkdir"
  <2>0. Requests[kind] = {ParentCheck(to) \o <<Insert(NewDoc("folder", NoMessage, to), FALSE)>> : to \in places}
    BY <1>7 DEF Requests
  <2>1. PICK to \in places : s = ParentCheck(to) \o <<Insert(NewDoc("folder", NoMessage, to), FALSE)>>
    BY <2>0
  <2> DEFINE b == <<Insert(NewDoc("folder", NoMessage, to), FALSE)>>
  <2>2. M = {At("parent", i) : i \in DOMAIN files}
            \cup {Insert(NewDoc("folder", NoMessage, i), FALSE) : i \in places}
    BY <1>7 DEF FirstMade
  <2>3. (to # Root => At("parent", to) \in M) /\ Insert(NewDoc("folder", NoMessage, to), FALSE) \in M
    BY <2>2
  <2> HIDE DEF M
  <2>4. ParentCheck(to) \in Seq(M) /\ b \in Seq(M) /\ b # <<>>
    <3>1. ParentCheck(to) \in Seq(M)
      BY <2>3, Optional DEF ParentCheck
    <3> QED
      BY <2>3, <3>1, Single
  <2> HIDE DEF b
  <2> QED
    BY <2>1, <2>4, Concat DEF M, b
<1>8. CASE kind = "upload"
  <2>1. PICK c \in Contents, to \in places : s = ParentCheck(to) \o <<New("quota", c, to)>>
    BY <1>8 DEF Requests
  <2> DEFINE b == <<New("quota", c, to)>>
  <2>2. M = {At("parent", i) : i \in DOMAIN files} \cup {New("quota", d, i) : d \in Contents, i \in places}
    BY <1>8 DEF FirstMade
  <2>3. (to # Root => At("parent", to) \in M) /\ New("quota", c, to) \in M
    BY <2>2
  <2> HIDE DEF M
  <2>4. ParentCheck(to) \in Seq(M) /\ b \in Seq(M) /\ b # <<>>
    <3>1. ParentCheck(to) \in Seq(M)
      BY <2>3, Optional DEF ParentCheck
    <3> QED
      BY <2>3, <3>1, Single
  <2> HIDE DEF b
  <2> QED
    BY <2>1, <2>4, Concat DEF M, b
<1>9. CASE kind = "init"
  <2>1. PICK to \in places : s = <<At("initQuota", to)>>
    BY <1>9 DEF Requests
  <2>2. At("initQuota", to) \in M
    BY <1>9 DEF FirstMade
  <2> HIDE DEF M
  <2> QED
    BY <2>1, <2>2, Single DEF M
<1>10. CASE kind = "complete"
  <2>1. PICK c \in Contents, to \in uploads : s = <<New("dedup", c, to)>>
    BY <1>10 DEF Requests
  <2>2. New("dedup", c, to) \in M
    BY <1>10 DEF FirstMade
  <2> HIDE DEF M
  <2> QED
    BY <2>1, <2>2, Single DEF M
<1> QED
  BY <1>1, <1>2, <1>3, <1>4, <1>5, <1>6, <1>7, <1>8, <1>9, <1>10 DEF Kinds

LEMMA FirstOps ==
    ASSUME NEW kind \in Kinds, NEW f \in FirstMade(kind)
    PROVE  f.op \in OpsOf[kind]
<1>1. CASE kind = "trash"
  BY <1>1 DEF FirstMade, OpsOf, At
<1>2. CASE kind = "restore"
  BY <1>2 DEF FirstMade, OpsOf, At
<1>3. CASE kind = "delete"
  BY <1>3 DEF FirstMade, OpsOf, At
<1>4. CASE kind = "purge"
  BY <1>4 DEF FirstMade, OpsOf, At
<1>5. CASE kind = "move"
  BY <1>5 DEF FirstMade, OpsOf, Into
<1>6. CASE kind = "copy"
  BY <1>6 DEF FirstMade, OpsOf, Into
<1>7. CASE kind = "mkdir"
  BY <1>7 DEF FirstMade, OpsOf, At, Insert
<1>8. CASE kind = "upload"
  BY <1>8 DEF FirstMade, OpsOf, At, New
<1>9. CASE kind = "init"
  BY <1>9 DEF FirstMade, OpsOf, At
<1>10. CASE kind = "complete"
  BY <1>10 DEF FirstMade, OpsOf, New
<1> QED
  BY <1>1, <1>2, <1>3, <1>4, <1>5, <1>6, <1>7, <1>8, <1>9, <1>10 DEF Kinds

\* A request starts with good frames if all those it may start with are.
LEMMA BeginIn ==
    ASSUME IInv', NEW c \in Clients, NEW kind \in Kinds, NEW s \in Requests[kind], NEW Z,
           todo \in [Procs -> Seq(Frame)], Goto(c, s),
           ASSUME NEW f \in Frame, f \in FirstMade(kind) PROVE f \in Z
    PROVE  todo'[c] \in Seq(Z)
<1> DEFINE M == FirstMade(kind)
<1>1. todo'[c] = s /\ s \in Seq(Frame)
  BY DEF Goto, IInv, TypeOK, Procs
<1>2. s \in Seq(M) /\ M \cap Frame \subseteq Z
  BY RequestMade
<1> HIDE DEF M
<1>3. s \in Seq(M \cap Frame)
  BY <1>1, <1>2, Both
<1> QED
  BY <1>1, <1>2, <1>3

LEMMA MayKinds ==
    ASSUME IInv, NEW c \in Clients
    PROVE  may[c] \subseteq Kinds
BY RolesAssumption DEF IInv, TypeOK

LEMMA NoFrames == \A X : <<>> \in Seq(X)
OBVIOUS

LEMMA OneRequestInit == Init => OneRequest
BY NoFrames DEF Init, OneRequest, Procs

\* A step of p is a step of no other process.
LEMMA StepOfOne ==
    ASSUME IInv, NEW p \in Procs, Step(p) \/ WorkerStep(p)
    PROVE  /\ \A q \in Procs \ {p} : todo'[q] = todo[q]
           /\ may' = may
           /\ todo[p] # <<>>
<1>1. PICK s \in Ready(todo[p]) : \E new : \E rest : GoesOn(p, s, new, rest)
  BY StepShape
<1>2. PICK new, rest : GoesOn(p, s, new, rest)
  BY <1>1
<1>3. may' = may /\ todo[p] # <<>>
  BY <1>2, ReadyShape DEF GoesOn, Effect, bounds
<1>4. todo' = [todo EXCEPT ![p] = new \o rest]
  BY <1>2 DEF GoesOn, Goto
<1> QED
  BY <1>3, <1>4 DEF IInv, TypeOK

LEMMA OneRequestStep ==
    ASSUME IInv, IInv', OneRequest, NEW p \in Procs, Step(p) \/ WorkerStep(p)
    PROVE  OneRequest'
<1>1. /\ \A q \in Procs \ {p} : todo'[q] = todo[q]
      /\ may' = may
      /\ todo[p] # <<>>
  BY StepOfOne
<1>2. ASSUME NEW c \in Clients, todo'[c] # <<>>
      PROVE  \E kind \in may'[c] : todo'[c] \in Seq(FramesOf(OpsOf[kind]))
  <2>1. CASE c = p
    <3>1. PICK kind \in may[c] : todo[c] \in Seq(FramesOf(OpsOf[kind]))
      BY <1>1, <2>1 DEF OneRequest
    <3>2. kind \in Kinds
      BY MayKinds
    <3>3. todo'[c] \in Seq(FramesOf(OpsOf[kind]))
      BY <2>1, <3>1, <3>2, OpsClosed, OpsStep
    <3> QED
      BY <1>1, <3>1, <3>3
  <2>2. CASE c # p
    BY <1>1, <1>2, <2>2 DEF OneRequest, Procs
  <2> QED
    BY <2>1, <2>2
<1>3. ASSUME NEW w \in Workers PROVE todo'[w] \in Seq(FramesOf(WorkerOps))
  <2>1. CASE w = p
    BY <2>1, WorkerOpsClosed, OpsStep DEF OneRequest
  <2>2. CASE w # p
    BY <1>1, <2>2 DEF OneRequest, Procs
  <2> QED
    BY <2>1, <2>2
<1> QED
  BY <1>2, <1>3 DEF OneRequest, FramesOf, Frame, Kid, Doc

LEMMA OneRequestNext ==
    ASSUME IInv, IInv', OneRequest, [Next]_vars
    PROVE  OneRequest'
<1>1. ASSUME NEW c \in Clients, Begin(c) PROVE OneRequest'
  <2>1. PICK kind \in may[c] : \E s \in Requests[kind] : Goto(c, s)
    BY <1>1 DEF Begin
  <2>2. PICK s \in Requests[kind] : Goto(c, s)
    BY <2>1
  <2>3. kind \in Kinds
    BY MayKinds
  <2>4. todo'[c] \in Seq(FramesOf(OpsOf[kind]))
    <3>1. ASSUME NEW f \in Frame, f \in FirstMade(kind) PROVE f \in FramesOf(OpsOf[kind])
      BY <2>3, <3>1, FirstOps DEF FramesOf
    <3>2. todo \in [Procs -> Seq(Frame)]
      BY DEF IInv, TypeOK
    <3> QED
      BY <2>2, <2>3, <3>1, <3>2, BeginIn
  <2>5. \A q \in Procs \ {c} : todo'[q] = todo[q]
    BY <2>2 DEF Goto, IInv, TypeOK, Procs
  <2>6. may' = may /\ c \notin Workers
    BY <1>1, ProcsAssumption DEF Begin
  <2> QED
    BY <2>4, <2>5, <2>6 DEF OneRequest, Procs
<1>2. ASSUME NEW c \in Clients, Step(c) PROVE OneRequest'
  <2>1. c \in Procs /\ c \notin Workers
    BY ProcsAssumption DEF Procs
  <2> QED
    BY <1>2, <2>1, OneRequestStep
<1>3. ASSUME NEW w \in Workers, WorkerStep(w) PROVE OneRequest'
  BY <1>3, OneRequestStep DEF Procs
<1>4. ASSUME NEW w \in Workers, Take(w) PROVE OneRequest'
  <2>1. todo'[w] = <<At("send", Head(queue))>> /\ \A q \in Procs \ {w} : todo'[q] = todo[q]
    BY <1>4 DEF Take, Goto, IInv, TypeOK, Procs
  <2>2. todo'[w] \in Seq(FramesOf(WorkerOps))
    <3>1. At("send", Head(queue)) \in Frame
      <4>1. Head(queue) \in Nat
        BY <1>4 DEF Take, IInv, TypeOK
      <4> QED
        BY <4>1 DEF At, Frame, AtOps
    <3>2. At("send", Head(queue)) \in FramesOf(WorkerOps)
      BY <3>1 DEF FramesOf, At, WorkerOps
    <3> QED
      BY <2>1, <3>2, Single
  <2>3. may' = may /\ w \notin Clients
    BY <1>4, ProcsAssumption DEF Take, bounds
  <2> QED
    BY <2>1, <2>2, <2>3 DEF OneRequest, Procs
<1>5. ASSUME NEW i \in DOMAIN files, Expire(i) PROVE OneRequest'
  BY <1>5 DEF Expire, bounds, OneRequest
<1>6. ASSUME NEW p \in Procs, Fail(p) PROVE OneRequest'
  <2>1. todo'[p] = <<>> /\ may' = may /\ \A q \in Procs \ {p} : todo'[q] = todo[q]
    BY <1>6 DEF Fail, Abort, Goto, IInv, TypeOK
  <2> QED
    BY <2>1, NoFrames DEF OneRequest, Procs
<1>7. CASE Restart
  BY <1>7, NoFrames DEF Restart, OneRequest, Procs
<1>8. CASE UNCHANGED vars
  BY <1>8 DEF vars, bounds, OneRequest
<1> QED
  BY <1>1, <1>2, <1>3, <1>4, <1>5, <1>6, <1>7, <1>8 DEF Next, Finished

(***************************************************************************)
(* Induction over the naturals and over a finite set, in the form the      *)
(* provers can use: a set of numbers that holds 0 and the successor of     *)
(* each of its members holds them all, because between 0 and a number it   *)
(* does not hold, its members would be in bijection with all but one of    *)
(* them.                                                                   *)
(***************************************************************************)
LEMMA Counting ==
    ASSUME NEW S, 0 \in S, \A n \in S \cap Nat : n + 1 \in S
    PROVE  Nat \subseteq S
<1>. SUFFICES ASSUME NEW n \in Nat, n \notin S
              PROVE  FALSE
  OBVIOUS
<1>. DEFINE T == {m \in 0 .. n : m \in S}
            f == [m \in T |-> m + 1]
<1>1. IsFiniteSet(T) /\ Cardinality(T) \in Nat
  <2>1. IsFiniteSet(0 .. n)
    BY FS_Interval
  <2>2. T \subseteq 0 .. n
    OBVIOUS
  <2>. QED  BY <2>1, <2>2, FS_Subset, FS_CardinalityType
<1>2. 0 \in T
  OBVIOUS
<1>3. f \in Injection(T, T \ {0})
  <2>1. \A m \in T : m + 1 \in T \ {0}
    <3>. SUFFICES ASSUME NEW m \in T PROVE m + 1 \in T \ {0}
      OBVIOUS
    <3>1. m \in Nat /\ m \in S /\ m <= n
      OBVIOUS
    <3>2. m # n
      BY <3>1
    <3>. QED  BY <3>1, <3>2
  <2>2. f \in [T -> T \ {0}]
    BY <2>1
  <2>3. \A a, b \in T : f[a] = f[b] => a = b
    OBVIOUS
  <2>. QED  BY <2>2, <2>3, Z3 DEF Injection, IsInjective
<1>4. IsFiniteSet(T \ {0}) /\ Cardinality(T \ {0}) = Cardinality(T) - 1
  BY <1>1, <1>2, FS_RemoveElement
<1>5. Cardinality(T) <= Cardinality(T \ {0})
  BY <1>3, <1>4, FS_Injection
<1>. QED  BY <1>1, <1>4, <1>5

LEMMA Growing ==
    ASSUME NEW S, IsFiniteSet(S), NEW G, {} \in G,
           \A T \in SUBSET S : \A x \in T : T \ {x} \in G => T \in G
    PROVE  \A T \in SUBSET S : T \in G
<1>. DEFINE N == {n \in Nat : \A T \in SUBSET S : Cardinality(T) = n => T \in G}
<1>1. 0 \in N
  <2>1. \A T \in SUBSET S : Cardinality(T) = 0 => T = {}
    BY FS_Subset, FS_EmptySet
  <2>. QED  BY <2>1
<1>2. ASSUME NEW n \in N \cap Nat PROVE n + 1 \in N
  <2>. SUFFICES ASSUME NEW T \in SUBSET S, Cardinality(T) = n + 1 PROVE T \in G
    OBVIOUS
  <2>1. IsFiniteSet(T) /\ T # {}
    BY FS_Subset, FS_EmptySet
  <2>2. PICK x \in T : TRUE
    BY <2>1
  <2>3. Cardinality(T \ {x}) = n
    <3>1. Cardinality(T \ {x}) = Cardinality(T) - 1
      BY <2>1, FS_RemoveElement
    <3>2. n \in Int
      BY <1>2
    <3>. HIDE DEF N
    <3>. QED  BY <3>1, <3>2
  <2>. QED  BY <2>3
<1>. HIDE DEF N
<1>3. Nat \subseteq N
  BY <1>1, <1>2, Counting
<1>4. \A T \in SUBSET S : Cardinality(T) \in N
  BY <1>3, FS_Subset, FS_CardinalityType
<1>. QED  BY <1>4 DEF N

(***************************************************************************)
(* Sums over a finite set: MapThenSumSet adds up the values of a function  *)
(* in some order, and every order gives the same.                          *)
(***************************************************************************)
SumOf(w, S) == MapThenSumSet(LAMBDA x : w[x], S)

One(s) == CHOOSE x \in s : TRUE

\* g adds up w over the subsets of S.
AddsUp(g, w, S) ==
    g = [s \in SUBSET S |-> IF s = {} THEN 0 ELSE w[One(s)] + g[s \ {One(s)}]]

LEMMA SumIs ==
    ASSUME NEW w, NEW S, NEW h, AddsUp(h, w, S)
    PROVE  \E g : AddsUp(g, w, S) /\ SumOf(w, S) = g[S]
<1>. DEFINE G == CHOOSE g : g = [s \in SUBSET S |-> IF s = {} THEN 0 ELSE w[One(s)] + g[s \ {One(s)}]]
<1>1. SumOf(w, S) = G[S]
  BY DEF SumOf, MapThenSumSet, MapThenFoldSet, One
<1>2. G = [s \in SUBSET S |-> IF s = {} THEN 0 ELSE w[One(s)] + G[s \ {One(s)}]]
  BY DEF AddsUp
<1>. QED  BY <1>1, <1>2 DEF AddsUp

LEMMA OneIn == \A s : s # {} => One(s) \in s
BY DEF One

LEMMA AdderExists ==
    ASSUME NEW S, IsFiniteSet(S), NEW w, \A x \in S : w[x] \in Int
    PROVE  \E g \in [SUBSET S -> Int] : AddsUp(g, w, S)
<1>. DEFINE Upto(g, n) == \A s \in SUBSET S : Cardinality(s) <= n =>
                            g[s] = IF s = {} THEN 0 ELSE w[One(s)] + g[s \ {One(s)}]
            N == {n \in Nat : \E g \in [SUBSET S -> Int] : Upto(g, n)}
<1>0. \A s \in SUBSET S : IsFiniteSet(s) /\ Cardinality(s) \in Nat /\ Cardinality(s) <= Cardinality(S)
  BY FS_Subset, FS_CardinalityType
<1>1. 0 \in N
  <2>1. \A s \in SUBSET S : Cardinality(s) <= 0 => s = {}
    BY <1>0, FS_EmptySet
  <2>2. [s \in SUBSET S |-> 0] \in [SUBSET S -> Int]
    OBVIOUS
  <2>3. Upto([s \in SUBSET S |-> 0], 0)
    BY <2>1
  <2>. QED  BY <2>2, <2>3
<1>2. ASSUME NEW n \in N \cap Nat PROVE n + 1 \in N
  <2>1. PICK g \in [SUBSET S -> Int] : Upto(g, n)
    OBVIOUS
  <2>. DEFINE h == [s \in SUBSET S |-> IF s = {} THEN 0 ELSE w[One(s)] + g[s \ {One(s)}]]
  <2>2. ASSUME NEW s \in SUBSET S, s # {} PROVE One(s) \in S /\ s \ {One(s)} \in SUBSET S
    BY <2>2, OneIn
  <2>3. h \in [SUBSET S -> Int]
    BY <2>2
  <2>4. ASSUME NEW s \in SUBSET S, Cardinality(s) <= n PROVE h[s] = g[s]
    BY <2>1, <2>4
  <2>5. ASSUME NEW s \in SUBSET S, Cardinality(s) <= n + 1
        PROVE  h[s] = IF s = {} THEN 0 ELSE w[One(s)] + h[s \ {One(s)}]
    <3>1. CASE s = {}
      BY <3>1
    <3>2. CASE s # {}
      <4>1. One(s) \in s /\ IsFiniteSet(s)
        BY <3>2, OneIn, <1>0
      <4>2. Cardinality(s \ {One(s)}) = Cardinality(s) - 1
        BY <4>1, FS_RemoveElement
      <4>3. Cardinality(s \ {One(s)}) <= n
        BY <4>2, <2>5, <1>0
      <4>. HIDE DEF h
      <4>4. h[s \ {One(s)}] = g[s \ {One(s)}]
        BY <4>3, <2>4
      <4>. QED  BY <3>2, <4>4 DEF h
    <3>. QED  BY <3>1, <3>2
  <2>. HIDE DEF h
  <2>6. Upto(h, n + 1)
    BY <2>5
  <2>. QED  BY <2>3, <2>6
<1>. HIDE DEF N
<1>3. Nat \subseteq N
  BY <1>1, <1>2, Counting
<1>4. Cardinality(S) \in N
  BY <1>3, <1>0
<1>5. PICK g \in [SUBSET S -> Int] : Upto(g, Cardinality(S))
  BY <1>4 DEF N
<1>6. \A s \in SUBSET S : g[s] = IF s = {} THEN 0 ELSE w[One(s)] + g[s \ {One(s)}]
  BY <1>0, <1>5
<1>7. AddsUp(g, w, S)
  BY <1>6 DEF AddsUp
<1>. QED  BY <1>7

\* Two functions that agree on S add up to the same.
LEMMA AddersAgree ==
    ASSUME NEW S, IsFiniteSet(S), NEW A, NEW B, S \subseteq A, S \subseteq B,
           NEW w, NEW v, \A x \in S : w[x] = v[x],
           NEW g, AddsUp(g, w, A), NEW h, AddsUp(h, v, B)
    PROVE  \A T \in SUBSET S : g[T] = h[T]
<1>. DEFINE N == {n \in Nat : \A T \in SUBSET S : Cardinality(T) = n => g[T] = h[T]}
<1>1. \A T \in SUBSET S : /\ g[T] = IF T = {} THEN 0 ELSE w[One(T)] + g[T \ {One(T)}]
                          /\ h[T] = IF T = {} THEN 0 ELSE v[One(T)] + h[T \ {One(T)}]
  BY DEF AddsUp
<1>2. 0 \in N
  <2>1. \A T \in SUBSET S : Cardinality(T) = 0 => T = {}
    BY FS_Subset, FS_EmptySet
  <2>. QED  BY <1>1, <2>1
<1>3. ASSUME NEW n \in N \cap Nat PROVE n + 1 \in N
  <2>. SUFFICES ASSUME NEW T \in SUBSET S, Cardinality(T) = n + 1 PROVE g[T] = h[T]
    OBVIOUS
  <2>1. IsFiniteSet(T) /\ T # {}
    BY FS_Subset, FS_EmptySet
  <2>2. One(T) \in T
    BY <2>1, OneIn
  <2>3. Cardinality(T \ {One(T)}) = n
    <3>1. Cardinality(T \ {One(T)}) = Cardinality(T) - 1
      BY <2>1, <2>2, FS_RemoveElement
    <3>2. n \in Int
      BY <1>3
    <3>. HIDE DEF N
    <3>. QED  BY <3>1, <3>2
  <2>4. g[T \ {One(T)}] = h[T \ {One(T)}]
    BY <2>3
  <2>. QED  BY <1>1, <2>1, <2>2, <2>4
<1>. HIDE DEF N
<1>4. Nat \subseteq N
  BY <1>2, <1>3, Counting
<1>5. \A T \in SUBSET S : Cardinality(T) \in N
  BY <1>4, FS_Subset, FS_CardinalityType
<1>. QED  BY <1>5 DEF N

LEMMA SumEmpty ==
    ASSUME NEW w
    PROVE  SumOf(w, {}) = 0
<1>1. PICK g \in [SUBSET {} -> Int] : AddsUp(g, w, {})
  BY FS_EmptySet, AdderExists
<1>2. PICK h : AddsUp(h, w, {}) /\ SumOf(w, {}) = h[{}]
  BY <1>1, SumIs
<1>. QED  BY <1>2 DEF AddsUp

\* Whatever set an adder is for, it gives the sums over the subsets.
LEMMA AdderSums ==
    ASSUME NEW S, IsFiniteSet(S), NEW w, \A x \in S : w[x] \in Int,
           NEW g, AddsUp(g, w, S), NEW T \in SUBSET S
    PROVE  SumOf(w, T) = g[T]
<1>1. IsFiniteSet(T) /\ \A x \in T : w[x] \in Int
  BY FS_Subset
<1>2. PICK k \in [SUBSET T -> Int] : AddsUp(k, w, T)
  BY <1>1, AdderExists
<1>3. PICK h : AddsUp(h, w, T) /\ SumOf(w, T) = h[T]
  BY <1>2, SumIs
<1>4. h[T] = g[T]
  <2>1. \A U \in SUBSET T : h[U] = g[U]
    BY <1>1, <1>3, AddersAgree
  <2>. QED  BY <2>1
<1>. QED  BY <1>3, <1>4

LEMMA SumInt ==
    ASSUME NEW S, IsFiniteSet(S), NEW w, \A x \in S : w[x] \in Int
    PROVE  SumOf(w, S) \in Int
<1>1. PICK g \in [SUBSET S -> Int] : AddsUp(g, w, S)
  BY AdderExists
<1>2. SumOf(w, S) = g[S]
  BY <1>1, AdderSums
<1>. QED  BY <1>2

LEMMA SumEqual ==
    ASSUME NEW S, IsFiniteSet(S), NEW w, \A x \in S : w[x] \in Int,
           NEW v, \A x \in S : v[x] = w[x]
    PROVE  SumOf(v, S) = SumOf(w, S)
<1>1. PICK g \in [SUBSET S -> Int] : AddsUp(g, w, S)
  BY AdderExists
<1>2. \A x \in S : v[x] \in Int
  OBVIOUS
<1>3. PICK h \in [SUBSET S -> Int] : AddsUp(h, v, S)
  BY <1>2, AdderExists
<1>4. SumOf(w, S) = g[S] /\ SumOf(v, S) = h[S]
  BY <1>1, <1>2, <1>3, AdderSums
<1>5. h[S] = g[S]
  <2>1. \A U \in SUBSET S : h[U] = g[U]
    BY <1>1, <1>3, AddersAgree
  <2>. QED  BY <2>1
<1>. QED  BY <1>4, <1>5

\* Any element of the set can be taken out first.
LEMMA SumSplit ==
    ASSUME NEW S, IsFiniteSet(S), NEW w, \A x \in S : w[x] \in Int, NEW y \in S
    PROVE  SumOf(w, S) = w[y] + SumOf(w, S \ {y})
<1>. DEFINE N == {n \in Nat : \A T \in SUBSET S : \A z \in T :
                    Cardinality(T) = n => SumOf(w, T) = w[z] + SumOf(w, T \ {z})}
<1>1. PICK g \in [SUBSET S -> Int] : AddsUp(g, w, S)
  BY AdderExists
<1>2. \A T \in SUBSET S : SumOf(w, T) = g[T]
  BY <1>1, AdderSums
<1>3. ASSUME NEW T \in SUBSET S, T # {}
      PROVE  /\ One(T) \in T
             /\ SumOf(w, T) = w[One(T)] + SumOf(w, T \ {One(T)})
  <2>1. One(T) \in T /\ T \ {One(T)} \in SUBSET S
    BY <1>3, OneIn
  <2>2. g[T] = w[One(T)] + g[T \ {One(T)}]
    BY <1>1, <1>3 DEF AddsUp
  <2>. QED  BY <1>2, <2>1, <2>2
<1>4. 0 \in N
  BY FS_Subset, FS_EmptySet
<1>5. ASSUME NEW n \in N \cap Nat PROVE n + 1 \in N
  <2>. SUFFICES ASSUME NEW T \in SUBSET S, NEW z \in T, Cardinality(T) = n + 1
                PROVE  SumOf(w, T) = w[z] + SumOf(w, T \ {z})
    OBVIOUS
  <2>. DEFINE o == One(T)
  <2>1. IsFiniteSet(T) /\ T # {}
    BY FS_Subset
  <2>2. o \in T /\ SumOf(w, T) = w[o] + SumOf(w, T \ {o})
    BY <1>3, <2>1
  <2>. HIDE DEF o
  <2>3. CASE z = o
    BY <2>2, <2>3
  <2>.  HIDE DEF N
  <2>4. CASE z # o
    <3>1. Cardinality(T \ {o}) = n /\ Cardinality(T \ {z}) = n
      <4>1. Cardinality(T \ {o}) = Cardinality(T) - 1 /\ Cardinality(T \ {z}) = Cardinality(T) - 1
        BY <2>1, <2>2, FS_RemoveElement
      <4>2. n \in Int
        BY <1>5
      <4>. HIDE DEF N
      <4>. QED  BY <4>1, <4>2
    <3>2. SumOf(w, T \ {o}) = w[z] + SumOf(w, (T \ {o}) \ {z})
      BY <2>2, <2>4, <3>1 DEF N
    <3>3. SumOf(w, T \ {z}) = w[o] + SumOf(w, (T \ {z}) \ {o})
      BY <2>2, <2>4, <3>1 DEF N
    <3>4. (T \ {o}) \ {z} = (T \ {z}) \ {o}
      OBVIOUS
    <3>5. w[z] \in Int /\ w[o] \in Int /\ SumOf(w, (T \ {z}) \ {o}) \in Int
      <4>1. (T \ {z}) \ {o} \in SUBSET S
        OBVIOUS
      <4>2. o \in S /\ z \in S
        BY <2>2
      <4>. QED  BY <1>1, <1>2, <4>1, <4>2
    <3>. DEFINE a == SumOf(w, T)
                b == SumOf(w, T \ {z})
                d == SumOf(w, (T \ {z}) \ {o})
                e == SumOf(w, T \ {o})
    <3>6. a = w[o] + e /\ e = w[z] + d /\ b = w[o] + d /\ w[z] \in Int /\ w[o] \in Int /\ d \in Int
      BY <2>2, <3>2, <3>3, <3>4, <3>5
    <3>. HIDE DEF a, b, d, e
    <3>7. a = w[z] + b
      BY <3>6
    <3>. QED  BY <3>7 DEF a, b
  <2>. QED  BY <2>3, <2>4
<1>. HIDE DEF N
<1>6. Nat \subseteq N
  BY <1>4, <1>5, Counting
<1>7. Cardinality(S) \in N
  BY <1>6, FS_CardinalityType
<1>. QED  BY <1>7 DEF N

LEMMA SumUnion ==
    ASSUME NEW S, IsFiniteSet(S), NEW T, IsFiniteSet(T), S \cap T = {},
           NEW w, \A x \in S \cup T : w[x] \in Int
    PROVE  SumOf(w, S \cup T) = SumOf(w, S) + SumOf(w, T)
<1>. DEFINE G == {U \in SUBSET T : SumOf(w, S \cup U) = SumOf(w, S) + SumOf(w, U)}
<1>1. \A U \in SUBSET T : SumOf(w, U) \in Int /\ IsFiniteSet(U)
  BY FS_Subset, SumInt
<1>2. SumOf(w, S) \in Int
  BY SumInt
<1>3. {} \in G
  <2>1. SumOf(w, {}) = 0 /\ S \cup {} = S
    BY SumEmpty
  <2>. QED  BY <1>2, <2>1
<1>4. ASSUME NEW U \in SUBSET T, NEW x \in U, U \ {x} \in G PROVE U \in G
  <2>1. SumOf(w, S \cup (U \ {x})) = SumOf(w, S) + SumOf(w, U \ {x})
    BY <1>4
  <2>2. SumOf(w, U) = w[x] + SumOf(w, U \ {x})
    BY <1>1, SumSplit
  <2>3. SumOf(w, S \cup U) = w[x] + SumOf(w, (S \cup U) \ {x})
    <3>1. IsFiniteSet(S \cup U) /\ x \in S \cup U /\ \A y \in S \cup U : w[y] \in Int
      BY <1>1, FS_Union
    <3>. QED  BY <3>1, SumSplit
  <2>4. (S \cup U) \ {x} = S \cup (U \ {x})
    OBVIOUS
  <2>5. w[x] \in Int /\ SumOf(w, U \ {x}) \in Int
    BY <1>1
  <2>. DEFINE a == SumOf(w, S \cup U)
              b == SumOf(w, S)
              c == SumOf(w, U)
              d == SumOf(w, U \ {x})
  <2>6. a = w[x] + (b + d) /\ c = w[x] + d
    BY <2>1, <2>2, <2>3, <2>4
  <2>. HIDE DEF a, b, c, d
  <2>7. a = b + c
    BY <1>2, <2>5, <2>6 DEF b, d
  <2>. QED  BY <2>7 DEF a, b, c
<1>. HIDE DEF G
<1>5. \A U \in SUBSET T : U \in G
  BY <1>3, <1>4, Growing
<1>6. T \in G
  BY <1>5
<1>. QED  BY <1>6 DEF G

LEMMA SumNat ==
    ASSUME NEW S, IsFiniteSet(S), NEW w, \A x \in S : w[x] \in Nat
    PROVE  SumOf(w, S) \in Nat
<1>. DEFINE G == {U \in SUBSET S : SumOf(w, U) \in Nat}
<1>1. {} \in G
  BY SumEmpty
<1>2. ASSUME NEW U \in SUBSET S, NEW x \in U, U \ {x} \in G PROVE U \in G
  <2>1. SumOf(w, U) = w[x] + SumOf(w, U \ {x})
    BY FS_Subset, SumSplit
  <2>. QED  BY <1>2, <2>1
<1>. HIDE DEF G
<1>3. \A U \in SUBSET S : U \in G
  BY <1>1, <1>2, Growing
<1>4. S \in G
  BY <1>3
<1>. QED  BY <1>4 DEF G

LEMMA SumZero ==
    ASSUME NEW S, IsFiniteSet(S), NEW w, \A x \in S : w[x] = 0
    PROVE  SumOf(w, S) = 0
<1>. DEFINE G == {U \in SUBSET S : SumOf(w, U) = 0}
<1>1. {} \in G
  BY SumEmpty
<1>2. ASSUME NEW U \in SUBSET S, NEW x \in U, U \ {x} \in G PROVE U \in G
  <2>1. SumOf(w, U) = w[x] + SumOf(w, U \ {x})
    BY FS_Subset, SumSplit
  <2>. QED  BY <1>2, <2>1
<1>. HIDE DEF G
<1>3. \A U \in SUBSET S : U \in G
  BY <1>1, <1>2, Growing
<1>4. S \in G
  BY <1>3
<1>. QED  BY <1>4 DEF G

LEMMA SumSingle ==
    ASSUME NEW x, NEW w, w[x] \in Int
    PROVE  SumOf(w, {x}) = w[x]
<1>1. SumOf(w, {x}) = w[x] + SumOf(w, {x} \ {x})
  BY FS_Singleton, SumSplit
<1>2. {x} \ {x} = {}
  OBVIOUS
<1>. QED  BY <1>1, <1>2, SumEmpty

\* The functions differ at y only.
LEMMA SumChange ==
    ASSUME NEW S, IsFiniteSet(S), NEW w, \A x \in S : w[x] \in Int,
           NEW v, NEW y \in S, v[y] \in Int, \A x \in S \ {y} : v[x] = w[x]
    PROVE  SumOf(v, S) = SumOf(w, S) - w[y] + v[y]
<1>1. SumOf(w, S) = w[y] + SumOf(w, S \ {y})
  BY SumSplit
<1>2. SumOf(v, S) = v[y] + SumOf(v, S \ {y})
  <2>1. \A x \in S : v[x] \in Int
    OBVIOUS
  <2>. QED  BY <2>1, SumSplit
<1>3. IsFiniteSet(S \ {y})
  BY FS_Subset
<1>4. SumOf(v, S \ {y}) = SumOf(w, S \ {y}) /\ SumOf(w, S \ {y}) \in Int
  BY <1>3, SumEqual, SumInt
<1>. QED  BY <1>1, <1>2, <1>4

\* The set is the image of another one.
LEMMA SumImage ==
    ASSUME NEW S, IsFiniteSet(S), NEW f, \A x, y \in S : f[x] = f[y] => x = y,
           NEW w, \A x \in S : w[f[x]] \in Int,
           NEW v, \A x \in S : v[x] = w[f[x]]
    PROVE  SumOf(v, S) = SumOf(w, {f[x] : x \in S})
<1>. DEFINE Img(U) == {f[x] : x \in U}
            G == {U \in SUBSET S : SumOf(v, U) = SumOf(w, Img(U))}
<1>1. {} \in G
  <2>1. Img({}) = {}
    OBVIOUS
  <2>. QED  BY <2>1, SumEmpty
<1>2. ASSUME NEW U \in SUBSET S, NEW x \in U, U \ {x} \in G PROVE U \in G
  <2>1. IsFiniteSet(U) /\ IsFiniteSet(Img(U))
    <3>1. IsFiniteSet(U)
      BY FS_Subset
    <3>. DEFINE h == [y \in U |-> f[y]]
    <3>4. Img(U) = {h[y] : y \in U} /\ h \in Surjection(U, Img(U))
      BY DEF Surjection, Range
    <3>. HIDE DEF h
    <3>. QED  BY <3>1, <3>4, FS_Surjection
  <2>2. SumOf(v, U) = v[x] + SumOf(v, U \ {x})
    <3>1. \A y \in U : v[y] \in Int
      OBVIOUS
    <3>. QED  BY <2>1, <3>1, SumSplit
  <2>3. SumOf(w, Img(U)) = w[f[x]] + SumOf(w, Img(U) \ {f[x]})
    <3>1. f[x] \in Img(U) /\ \A y \in Img(U) : w[y] \in Int
      OBVIOUS
    <3>. QED  BY <2>1, <3>1, SumSplit
  <2>4. Img(U) \ {f[x]} = Img(U \ {x})
    OBVIOUS
  <2>5. SumOf(v, U \ {x}) = SumOf(w, Img(U \ {x}))
    BY <1>2
  <2>. QED  BY <2>2, <2>3, <2>4, <2>5
<1>. HIDE DEF G
<1>3. \A U \in SUBSET S : U \in G
  BY <1>1, <1>2, Growing
<1>4. S \in G
  BY <1>3
<1>. QED  BY <1>4 DEF G

(***************************************************************************)
(* Sums over a sequence.                                                   *)
(***************************************************************************)
Tally(w, s) == SumOf([k \in 1 .. Len(s) |-> w[s[k]]], 1 .. Len(s))

LEMMA TallyIs ==
    ASSUME NEW F, NEW w, \A x \in F : w[x] \in Int, NEW s \in Seq(F)
    PROVE  /\ Tally(w, s) \in Int
           /\ IsFiniteSet(1 .. Len(s))
           /\ \A k \in 1 .. Len(s) : [j \in 1 .. Len(s) |-> w[s[j]]][k] = w[s[k]] /\ w[s[k]] \in Int
<1>1. IsFiniteSet(1 .. Len(s))
  BY FS_Interval
<1>2. \A k \in 1 .. Len(s) : [j \in 1 .. Len(s) |-> w[s[j]]][k] = w[s[k]] /\ w[s[k]] \in Int
  OBVIOUS
<1>. QED  BY <1>1, <1>2, SumInt DEF Tally

LEMMA TallyEmpty ==
    ASSUME NEW w
    PROVE  Tally(w, <<>>) = 0
<1>1. 1 .. Len(<<>>) = {}
  OBVIOUS
<1>. QED  BY <1>1, SumEmpty DEF Tally

LEMMA TallyOne ==
    ASSUME NEW w, NEW x, w[x] \in Int
    PROVE  Tally(w, <<x>>) = w[x]
<1>. DEFINE v == [k \in 1 .. Len(<<x>>) |-> w[<<x>>[k]]]
<1>1. 1 .. Len(<<x>>) = {1} /\ <<x>>[1] = x
  OBVIOUS
<1>2. v[1] = w[x]
  BY <1>1
<1>. HIDE DEF v
<1>3. SumOf(v, {1}) = w[x]
  BY <1>2, SumSingle
<1>. QED  BY <1>1, <1>3 DEF Tally, v

LEMMA TallyConcat ==
    ASSUME NEW F, NEW w, \A x \in F : w[x] \in Int, NEW a \in Seq(F), NEW b \in Seq(F)
    PROVE  Tally(w, a \o b) = Tally(w, a) + Tally(w, b)
<1>. DEFINE s == a \o b
            m == Len(a)
            n == Len(b)
            u == [k \in 1 .. Len(s) |-> w[s[k]]]
            ua == [k \in 1 .. m |-> w[a[k]]]
            ub == [k \in 1 .. n |-> w[b[k]]]
            f == [k \in 1 .. n |-> m + k]
<1>1. /\ s \in Seq(F) /\ Len(s) = m + n /\ m \in Nat /\ n \in Nat
      /\ \A k \in 1 .. m : s[k] = a[k]
      /\ \A k \in 1 .. n : s[m + k] = b[k]
  OBVIOUS
<1>2. IsFiniteSet(1 .. m) /\ IsFiniteSet(1 .. n)
  BY <1>1, FS_Interval
<1>3. (\A k \in 1 .. m : a[k] \in F) /\ (\A k \in 1 .. n : b[k] \in F)
  OBVIOUS
<1>. HIDE DEF s, m, n
<1>4. {f[k] : k \in 1 .. n} = (m + 1) .. (m + n)
  <2>1. \A j \in (m + 1) .. (m + n) : j - m \in 1 .. n /\ f[j - m] = j
    BY <1>1
  <2>2. \A k \in 1 .. n : f[k] \in (m + 1) .. (m + n)
    BY <1>1
  <2>. HIDE DEF f
  <2>. QED  BY <2>1, <2>2
<1>5. 1 .. Len(s) = (1 .. m) \cup ((m + 1) .. (m + n)) /\ (1 .. m) \cap ((m + 1) .. (m + n)) = {}
  BY <1>1
<1>6. IsFiniteSet((m + 1) .. (m + n))
  BY <1>1, FS_Interval
<1>7. \A k \in 1 .. Len(s) : u[k] = w[s[k]] /\ u[k] \in Int
  BY <1>1
<1>8. \A k \in 1 .. m : ua[k] = u[k] /\ ua[k] \in Int
  <2>1. \A k \in 1 .. m : k \in 1 .. Len(s)
    BY <1>5
  <2>. QED  BY <1>1, <1>3, <1>7, <2>1
<1>9. \A k \in 1 .. n : ub[k] = u[f[k]] /\ u[f[k]] \in Int
  <2>1. \A k \in 1 .. n : f[k] = m + k /\ f[k] \in 1 .. Len(s)
    BY <1>1
  <2>. QED  BY <1>1, <1>3, <1>7, <2>1
<1>10. \A j, k \in 1 .. n : f[j] = f[k] => j = k
  BY <1>1
<1>. HIDE DEF u, ua, ub, f
<1>11. SumOf(u, 1 .. Len(s)) = SumOf(u, 1 .. m) + SumOf(u, (m + 1) .. (m + n))
  <2>1. \A k \in (1 .. m) \cup ((m + 1) .. (m + n)) : u[k] \in Int
    BY <1>5, <1>7
  <2>. DEFINE A == 1 .. m
              B == (m + 1) .. (m + n)
              C == 1 .. Len(s)
  <2>2. IsFiniteSet(A) /\ IsFiniteSet(B) /\ A \cap B = {} /\ C = A \cup B /\ \A k \in A \cup B : u[k] \in Int
    BY <1>2, <1>5, <1>6, <2>1
  <2>. HIDE DEF A, B, C
  <2>3. SumOf(u, C) = SumOf(u, A) + SumOf(u, B)
    BY <2>2, SumUnion
  <2>. QED  BY <2>3 DEF A, B, C
<1>12. SumOf(ua, 1 .. m) = SumOf(u, 1 .. m)
  <2>1. \A k \in 1 .. m : u[k] \in Int
    BY <1>8
  <2>. QED  BY <1>2, <1>8, <2>1, SumEqual
<1>13. SumOf(ub, 1 .. n) = SumOf(u, (m + 1) .. (m + n))
  <2>. DEFINE A == 1 .. n
  <2>1. IsFiniteSet(A) /\ (\A x, y \in A : f[x] = f[y] => x = y) /\ (\A x \in A : u[f[x]] \in Int)
        /\ (\A x \in A : ub[x] = u[f[x]])
    BY <1>2, <1>9, <1>10
  <2>. HIDE DEF A
  <2>2. SumOf(ub, A) = SumOf(u, {f[x] : x \in A})
    BY <2>1, SumImage
  <2>. QED  BY <1>4, <2>2 DEF A
<1>. QED  BY <1>11, <1>12, <1>13 DEF Tally, s, m, n, u, ua, ub

LEMMA TallyHead ==
    ASSUME NEW F, NEW w, \A x \in F : w[x] \in Int, NEW s \in Seq(F), s # <<>>
    PROVE  Tally(w, s) = w[Head(s)] + Tally(w, Tail(s))
<1>1. s = <<Head(s)>> \o Tail(s) /\ <<Head(s)>> \in Seq(F) /\ Tail(s) \in Seq(F) /\ Head(s) \in F
  OBVIOUS
<1>. DEFINE h == <<Head(s)>>
            t == Tail(s)
<1>2. h \in Seq(F) /\ t \in Seq(F) /\ s = h \o t
  BY <1>1
<1>. HIDE DEF h, t
<1>3. Tally(w, h \o t) = Tally(w, h) + Tally(w, t)
  BY <1>2, TallyConcat
<1>4. Tally(w, h) = w[Head(s)]
  BY <1>1, TallyOne DEF h
<1>. QED  BY <1>2, <1>3, <1>4 DEF t

LEMMA TallyEqual ==
    ASSUME NEW F, NEW w, \A x \in F : w[x] \in Int, NEW v, NEW s \in Seq(F),
           \A k \in 1 .. Len(s) : v[s[k]] = w[s[k]]
    PROVE  Tally(v, s) = Tally(w, s)
<1>. DEFINE a == [k \in 1 .. Len(s) |-> w[s[k]]]
            b == [k \in 1 .. Len(s) |-> v[s[k]]]
            S == 1 .. Len(s)
<1>1. IsFiniteSet(S) /\ \A k \in S : a[k] \in Int /\ b[k] = a[k]
  BY TallyIs
<1>. HIDE DEF a, b, S
<1>2. SumOf(b, S) = SumOf(a, S)
  BY <1>1, SumEqual
<1>. QED  BY <1>2 DEF Tally, a, b, S

LEMMA TallyZero ==
    ASSUME NEW F, NEW w, NEW s \in Seq(F), \A k \in 1 .. Len(s) : w[s[k]] = 0
    PROVE  Tally(w, s) = 0
<1>1. IsFiniteSet(1 .. Len(s))
  BY FS_Interval
<1>. QED  BY <1>1, SumZero DEF Tally

(***************************************************************************)
(* The bytes of the live files.                                            *)
(***************************************************************************)
Weights(lib) == [i \in DOMAIN lib |-> Bytes(lib[i])]

LEMMA LiveBytesIs ==
    ASSUME NEW lib, IsFiniteSet(DOMAIN lib), \A i \in DOMAIN lib : lib[i] \in Doc
    PROVE  /\ LiveBytes(lib) = SumOf(Weights(lib), Live(lib))
           /\ IsFiniteSet(Live(lib)) /\ Live(lib) \subseteq DOMAIN lib
           /\ \A i \in DOMAIN lib : Weights(lib)[i] = Bytes(lib[i]) /\ Bytes(lib[i]) \in Nat
<1>. DEFINE S == Live(lib)
            w == Weights(lib)
            G == CHOOSE g : g = [s \in SUBSET S |-> IF s = {} THEN 0 ELSE Bytes(lib[One(s)]) + g[s \ {One(s)}]]
<1>1. IsFiniteSet(S) /\ S \subseteq DOMAIN lib
  BY FS_Subset DEF Live
<1>2. \A i \in DOMAIN lib : w[i] = Bytes(lib[i]) /\ Bytes(lib[i]) \in Nat
  BY SizeAssumption DEF Weights, Bytes, IsFolder, Doc
<1>3. PICK g \in [SUBSET S -> Int] : AddsUp(g, w, S)
  <2>1. \A i \in S : w[i] \in Int
    BY <1>1, <1>2
  <2>. HIDE DEF S, w, G
  <2>. QED  BY <1>1, <2>1, AdderExists
<1>4. \A s \in SUBSET S : s # {} => w[One(s)] = Bytes(lib[One(s)])
  BY <1>1, <1>2, OneIn
<1>5. g = [s \in SUBSET S |-> IF s = {} THEN 0 ELSE Bytes(lib[One(s)]) + g[s \ {One(s)}]]
  BY <1>3, <1>4 DEF AddsUp
<1>6. G = [s \in SUBSET S |-> IF s = {} THEN 0 ELSE Bytes(lib[One(s)]) + G[s \ {One(s)}]]
  BY <1>5
<1>7. LiveBytes(lib) = G[S]
  BY DEF LiveBytes, MapThenSumSet, MapThenFoldSet, One
<1>. HIDE DEF G, w, S
<1>8. AddsUp(G, w, S)
  BY <1>4, <1>6 DEF AddsUp
<1>9. SumOf(w, S) = G[S]
  BY <1>1, <1>2, <1>8, AdderSums
<1>. QED  BY <1>1, <1>2, <1>7, <1>9 DEF S, w

(***************************************************************************)
(* What lies in a set of documents, and below it.                          *)
(***************************************************************************)
\* T holds every document of K that lies in a member of T.
ClosedIn(lib, K, T) == \A j \in K : lib[j].parent \in T => j \in T

\* S, and what lies below it by way of the documents K.
Span(lib, K, S) ==
    {x \in S \cup K : \A T \in SUBSET (S \cup K) : S \subseteq T /\ ClosedIn(lib, K, T) => x \in T}

LEMMA SpanHolds ==
    ASSUME NEW lib, NEW K, NEW S
    PROVE  /\ S \subseteq Span(lib, K, S)
           /\ Span(lib, K, S) \subseteq S \cup K
           /\ ClosedIn(lib, K, Span(lib, K, S))
BY DEF Span, ClosedIn

\* It is the least such set.
LEMMA SpanLeast ==
    ASSUME NEW lib, NEW K, NEW S, NEW T, S \subseteq T, ClosedIn(lib, K, T)
    PROVE  Span(lib, K, S) \subseteq T
<1> DEFINE U == T \cap (S \cup K)
<1>1. U \in SUBSET (S \cup K) /\ S \subseteq U /\ ClosedIn(lib, K, U)
  BY DEF ClosedIn
<1> QED
  BY <1>1 DEF Span

\* It grows with what it starts from, and with what lies in it.
LEMMA SpanMonotone ==
    ASSUME NEW lib, NEW K, NEW S, NEW new, NEW L, NEW T, K \subseteq L,
           S \subseteq Span(new, L, T), \A j \in K : new[j].parent = lib[j].parent
    PROVE  Span(lib, K, S) \subseteq Span(new, L, T)
<1>1. ClosedIn(lib, K, Span(new, L, T))
  BY SpanHolds DEF ClosedIn
<1> HIDE DEF Span
<1> QED
  BY <1>1, SpanLeast

LEMMA SpanSame ==
    ASSUME NEW lib, NEW K, NEW S, NEW new, \A j \in K : new[j].parent = lib[j].parent
    PROVE  Span(new, K, S) = Span(lib, K, S)
<1>1. Span(lib, K, S) \subseteq Span(new, K, S)
  BY SpanHolds, SpanMonotone
<1>2. Span(new, K, S) \subseteq Span(lib, K, S)
  BY SpanHolds, SpanMonotone
<1> QED
  BY <1>1, <1>2

LEMMA SpanEmpty ==
    ASSUME NEW lib, NEW K
    PROVE  Span(lib, K, {}) = {}
BY SpanLeast DEF ClosedIn

\* What is in it but was not at the start lies in a member.
LEMMA SpanParent ==
    ASSUME NEW lib, NEW K, NEW S, NEW x \in Span(lib, K, S), x \notin S
    PROVE  x \in K /\ lib[x].parent \in Span(lib, K, S)
<1>1. x \in K
  BY SpanHolds
<1>2. ASSUME lib[x].parent \notin Span(lib, K, S) PROVE FALSE
  <2> DEFINE T == Span(lib, K, S) \ {x}
  <2>1. S \subseteq T
    BY SpanHolds
  <2>2. ClosedIn(lib, K, T)
    BY <1>2, SpanHolds DEF ClosedIn
  <2> HIDE DEF T
  <2>3. Span(lib, K, S) \subseteq T
    BY <2>1, <2>2, SpanLeast
  <2> QED
    BY <2>3 DEF T
<1> QED
  BY <1>1, <1>2

LEMMA SpanUnion ==
    ASSUME NEW lib, NEW K, NEW S, NEW T
    PROVE  Span(lib, K, S \cup T) = Span(lib, K, S) \cup Span(lib, K, T)
<1>1. Span(lib, K, S) \subseteq Span(lib, K, S \cup T) /\ Span(lib, K, T) \subseteq Span(lib, K, S \cup T)
  BY SpanHolds, SpanMonotone
<1>2. ClosedIn(lib, K, Span(lib, K, S) \cup Span(lib, K, T))
  BY SpanHolds DEF ClosedIn
<1>3. S \cup T \subseteq Span(lib, K, S) \cup Span(lib, K, T)
  BY SpanHolds
<1> QED
  BY <1>1, <1>2, <1>3, SpanLeast

\* The documents of K that lie in i.
Inside(lib, K, i) == {j \in K : lib[j].parent = i}

LEMMA SpanOne ==
    ASSUME NEW lib, NEW K, NEW i
    PROVE  Span(lib, K, {i}) = {i} \cup Span(lib, K, Inside(lib, K, i))
<1> DEFINE C == Inside(lib, K, i)
<1>1. Span(lib, K, C) \subseteq Span(lib, K, {i})
  <2>1. C \subseteq Span(lib, K, {i})
    BY SpanHolds DEF ClosedIn, Inside
  <2> HIDE DEF C
  <2> QED
    BY <2>1, SpanMonotone
<1>2. C \subseteq Span(lib, K, C) /\ ClosedIn(lib, K, Span(lib, K, C))
  BY SpanHolds
<1>3. ClosedIn(lib, K, {i} \cup Span(lib, K, C))
  BY <1>2 DEF ClosedIn, Inside
<1>4. i \in Span(lib, K, {i})
  BY SpanHolds
<1> HIDE DEF C
<1>5. Span(lib, K, {i}) \subseteq {i} \cup Span(lib, K, C)
  BY <1>3, SpanLeast
<1> QED
  BY <1>1, <1>4, <1>5 DEF C

(***************************************************************************)
(* In a library without cycles.                                            *)
(***************************************************************************)
\* The folder some documents lie in is not below them.
LEMMA SpanAbove ==
    ASSUME NEW lib, Acyclic(lib), NEW K, K \subseteq DOMAIN lib,
           NEW S, S \subseteq DOMAIN lib, NEW q, \A x \in S : lib[x].parent = q
    PROVE  q \notin Span(lib, K, S)
<1> SUFFICES ASSUME q \in Span(lib, K, S) PROVE FALSE
  OBVIOUS
<1> DEFINE T == Span(lib, K, S)
<1>1. T \subseteq DOMAIN lib /\ T # {}
  BY SpanHolds
<1>2. \A x \in T : lib[x].parent \in T
  BY SpanParent
<1> HIDE DEF T
<1> QED
  BY <1>1, <1>2 DEF Acyclic

\* What lies below one of them does not lie below the others.
LEMMA SpanApart ==
    ASSUME NEW lib, Acyclic(lib), NEW K, K \subseteq DOMAIN lib,
           NEW S, S \subseteq DOMAIN lib, NEW q, \A x \in S : lib[x].parent = q,
           NEW A, NEW B, A \subseteq S, B \subseteq S, A \cap B = {}
    PROVE  Span(lib, K, A) \cap Span(lib, K, B) = {}
<1> DEFINE a == Span(lib, K, A)
           b == Span(lib, K, B)
<1>0. A \subseteq DOMAIN lib /\ B \subseteq DOMAIN lib
  OBVIOUS
<1>1. q \notin a /\ q \notin b
  BY <1>0, SpanAbove
<1>2. A \subseteq a /\ B \subseteq b /\ ClosedIn(lib, K, a) /\ ClosedIn(lib, K, b)
  BY SpanHolds
<1>3. \A x \in b : x \notin B => x \in K /\ lib[x].parent \in b
  BY SpanParent
<1>4. \A x \in a : x \notin A => x \in K /\ lib[x].parent \in a
  BY SpanParent
<1> HIDE DEF a, b
<1>5. A \cap b = {}
  BY <1>1, <1>3
<1>6. ClosedIn(lib, K, a \ b)
  BY <1>1, <1>2, <1>3 DEF ClosedIn
<1>7. a \subseteq a \ b
  BY <1>2, <1>5, <1>6, SpanLeast DEF a
<1> QED
  BY <1>7 DEF a, b

LEMMA SpanNotIn ==
    ASSUME NEW lib, Acyclic(lib), NEW K, K \subseteq DOMAIN lib, NEW i
    PROVE  i \notin Span(lib, K, Inside(lib, K, i))
<1>1. Inside(lib, K, i) \subseteq DOMAIN lib /\ \A x \in Inside(lib, K, i) : lib[x].parent = i
  BY DEF Inside
<1> QED
  BY <1>1, SpanAbove

\* A new document is below S if its folder is.
LEMMA SpanInsert ==
    ASSUME NEW lib, NEW K, NEW S, NEW n, n \notin S \cup K, NEW new,
           \A j \in K : new[j].parent = lib[j].parent /\ lib[j].parent # n, new[n].parent # n
    PROVE  /\ Span(lib, K, S) \subseteq Span(new, K \cup {n}, S)
           /\ Span(new, K \cup {n}, S) \subseteq Span(lib, K, S) \cup {n}
           /\ n \in Span(new, K \cup {n}, S) => new[n].parent \in Span(lib, K, S)
<1> DEFINE T == Span(lib, K, S) \cup {n}
<1>1. S \subseteq Span(lib, K, S) /\ ClosedIn(lib, K, Span(lib, K, S))
  BY SpanHolds
<1>2. S \subseteq T
  BY <1>1
<1>3. ClosedIn(new, K \cup {n}, T)
  BY <1>1 DEF ClosedIn
<1>4. Span(new, K \cup {n}, S) \subseteq T
  <2> HIDE DEF T
  <2> QED
    BY <1>2, <1>3, SpanLeast
<1>5. n \in Span(new, K \cup {n}, S) => new[n].parent \in Span(new, K \cup {n}, S)
  BY SpanParent
<1>6. Span(lib, K, S) \subseteq Span(new, K \cup {n}, S)
  <2>1. S \subseteq Span(new, K \cup {n}, S) /\ K \subseteq K \cup {n}
    BY SpanHolds
  <2>2. \A j \in K : new[j].parent = lib[j].parent
    OBVIOUS
  <2> QED
    BY <2>1, <2>2, SpanMonotone
<1> QED
  BY <1>4, <1>5, <1>6

(***************************************************************************)
(* The calls of one request, and what they say about the library.          *)
(***************************************************************************)
TreeOps == {"trashChildren", "restoreChildren", "deleteChildren"}
TreeLoops == {"trashEach", "restoreEach", "deleteEach"}
Toggles == {"mark", "unmark", "remove"}
CopyOps == {"copyDoc", "copyChildren", "copyEach"}

\* The calls that owe the counter something or will.
Weighty == TreeOps \cup TreeLoops \cup Toggles \cup CopyOps \cup {"add"}

\* The calls after which a request may be over, and those that lead to them.
Early == Quits \cup {"restoreParent", "restoreCheck", "purge", "purgeEach", "delete"}

\* The calls that change no document and fetch none.
Light == {"add", "countRefs", "deleteMsg"}

IdsOf(kids) == {k.id : k \in kids}

\* The documents a call works on with all that lies below them.
Sources(f) == IF f.op \in TreeOps THEN {f.id} ELSE IF f.op \in TreeLoops THEN IdsOf(f.kids) ELSE {}

Region(lib, f) == Span(lib, DOMAIN lib, Sources(f))

Heavy(lib, f) == f.op \in Toggles /\ f.id \in DOMAIN lib /\ ~IsFolder(lib[f.id])

\* What the calls f and g are to each other when f comes first.
Ahead(lib, f, g) ==
    /\ Region(lib, f) \cap Region(lib, g) = {}
    /\ f.op \in Toggles /\ g.op \in TreeLoops => f.id \notin Region(lib, g)
    /\ f.op \in Early => g.op \notin Weighty
    /\ Heavy(lib, g) => f.op \in Light

\* Document i is still what it was when d was read.
Kept(lib, i, d) == i \in DOMAIN lib /\ lib[i].kind = d.kind

\* The list of a loop still says what the documents in it are.
Fresh(lib, kids) ==
    /\ \A k \in kids : Kept(lib, k.id, k.doc) /\ (IsLive(lib[k.id]) <=> IsLive(k.doc))
    /\ \A k, l \in kids : k.id = l.id => k = l
    /\ \E q \in Nat : \A k \in kids : lib[k.id].parent = q

Sure(lib, n, f) ==
    /\ f.op \in TreeLoops => Fresh(lib, f.kids)
    /\ f.op = "trashEach" => \A k \in f.kids : IsLive(k.doc)
    /\ f.op = "restoreEach" => \A k \in f.kids : ~IsLive(k.doc)
    /\ f.op = "restoreCheck" => Kept(lib, f.id, f.doc)
    /\ f.op = "insert" => IsLive(f.doc)
    /\ f.op \in TreeOps \cup Toggles => f.id \in 0 .. (n - 1)
    /\ f.op \in TreeOps => (f.id \in DOMAIN lib => IsFolder(lib[f.id]))

Tidy(lib, n, s) ==
    /\ \A a \in 1 .. Len(s) : Sure(lib, n, s[a])
    /\ \A a, b \in 1 .. Len(s) : a < b => Ahead(lib, s[a], s[b])

\* The bytes of the live documents of S and of the live documents below them.
SubBytes(lib, S) == SumOf(Weights(lib), Span(lib, Live(lib), S) \cap Live(lib))

\* What a call still adds to the counter or takes from the library.
Debits(lib) ==
    [f \in Frame |->
       CASE f.op = "add" -> f.bytes
         [] f.op \in {"mark", "remove"} -> IF f.id \in Live(lib) THEN Bytes(lib[f.id]) ELSE 0
         [] f.op = "unmark" -> IF f.id \in DOMAIN lib \ Live(lib) THEN - Bytes(lib[f.id]) ELSE 0
         [] f.op = "copyDoc" -> - SubBytes(lib, {f.id})
         [] f.op = "copyChildren" -> - SubBytes(lib, LiveChildren(lib, f.id))
         [] f.op = "copyEach" -> - SubBytes(lib, IdsOf(f.kids))
         [] OTHER -> 0]

\* A library as the invariants leave it.
Sane(lib, n) ==
    /\ n \in Nat \ {0} /\ DOMAIN lib \subseteq 1 .. (n - 1)
    /\ \A i \in DOMAIN lib : lib[i] \in Doc /\ lib[i].parent \in 0 .. (n - 1)
    /\ Acyclic(lib)

LEMMA SaneFacts ==
    ASSUME NEW lib, NEW n, Sane(lib, n)
    PROVE  /\ IsFiniteSet(DOMAIN lib) /\ IsFiniteSet(Live(lib)) /\ Live(lib) \subseteq DOMAIN lib
           /\ \A i \in DOMAIN lib : Bytes(lib[i]) \in Nat /\ Weights(lib)[i] = Bytes(lib[i])
           /\ \A S : Span(lib, Live(lib), S) \subseteq S \cup DOMAIN lib
<1>1. IsFiniteSet(1 .. (n - 1))
  BY FS_Interval DEF Sane
<1>2. IsFiniteSet(DOMAIN lib)
  BY <1>1, FS_Subset DEF Sane
<1>3. \A i \in DOMAIN lib : lib[i] \in Doc
  BY DEF Sane
<1>4. IsFiniteSet(Live(lib)) /\ Live(lib) \subseteq DOMAIN lib
  BY <1>2, <1>3, LiveBytesIs
<1>5. \A i \in DOMAIN lib : Bytes(lib[i]) \in Nat /\ Weights(lib)[i] = Bytes(lib[i])
  BY <1>2, <1>3, LiveBytesIs
<1>6. \A S : Span(lib, Live(lib), S) \subseteq S \cup DOMAIN lib
  BY <1>4, SpanHolds
<1> QED
  BY <1>2, <1>4, <1>5, <1>6

(***************************************************************************)
(* Sequences of calls.                                                     *)
(***************************************************************************)
In(s) == {s[k] : k \in 1 .. Len(s)}

LEMMA InSeq ==
    ASSUME NEW F, NEW s \in Seq(F)
    PROVE  In(s) \subseteq F
BY DEF In

LEMMA InSmall ==
    ASSUME NEW x, NEW y
    PROVE  In(<<>>) = {} /\ In(<<x>>) = {x} /\ In(<<x, y>>) = {x, y}
BY DEF In

LEMMA InConcat ==
    ASSUME NEW F, NEW a \in Seq(F), NEW b \in Seq(F)
    PROVE  In(a \o b) = In(a) \cup In(b)
<1>1. /\ Len(a \o b) = Len(a) + Len(b) /\ Len(a) \in Nat /\ Len(b) \in Nat
      /\ \A i \in 1 .. Len(a) + Len(b) : (a \o b)[i] = IF i <= Len(a) THEN a[i] ELSE b[i - Len(a)]
  BY ConcatProperties
<1> DEFINE c == a \o b
<1> HIDE DEF c
<1>2. \A k \in 1 .. Len(a) : k \in 1 .. Len(a) + Len(b) /\ a[k] = c[k]
  BY <1>1 DEF c
<1>3. \A k \in 1 .. Len(b) : Len(a) + k \in 1 .. Len(a) + Len(b) /\ b[k] = c[Len(a) + k]
  <2> TAKE k \in 1 .. Len(b)
  <2>1. Len(a) + k \in 1 .. Len(a) + Len(b) /\ ~(Len(a) + k <= Len(a)) /\ (Len(a) + k) - Len(a) = k
    BY <1>1
  <2> QED
    BY <1>1, <2>1 DEF c
<1>4. \A i \in 1 .. Len(c) : c[i] \in In(a) \cup In(b)
  <2> TAKE i \in 1 .. Len(c)
  <2>1. CASE i <= Len(a)
    BY <1>1, <2>1 DEF In, c
  <2>2. CASE ~(i <= Len(a))
    <3>1. i - Len(a) \in 1 .. Len(b) /\ c[i] = b[i - Len(a)]
      BY <1>1, <2>2 DEF c
    <3> QED
      BY <3>1 DEF In
  <2> QED
    BY <2>1, <2>2
<1>5. Len(c) = Len(a) + Len(b)
  BY <1>1 DEF c
<1>6. In(a) \cup In(b) \subseteq In(c)
  BY <1>2, <1>3, <1>5 DEF In
<1> QED
  BY <1>4, <1>6 DEF c, In

LEMMA TidyConcat ==
    ASSUME NEW lib, NEW n, NEW F, NEW a \in Seq(F), NEW b \in Seq(F),
           Tidy(lib, n, a), Tidy(lib, n, b), \A f \in In(a) : \A g \in In(b) : Ahead(lib, f, g)
    PROVE  Tidy(lib, n, a \o b)
<1> DEFINE c == a \o b
<1>1. /\ Len(c) = Len(a) + Len(b) /\ Len(a) \in Nat /\ Len(b) \in Nat
      /\ \A i \in 1 .. Len(a) + Len(b) : c[i] = IF i <= Len(a) THEN a[i] ELSE b[i - Len(a)]
  BY ConcatProperties
<1> HIDE DEF c
<1>2. \A i \in 1 .. Len(c) : \/ i \in 1 .. Len(a) /\ c[i] = a[i]
                             \/ i - Len(a) \in 1 .. Len(b) /\ c[i] = b[i - Len(a)] /\ i > Len(a)
  BY <1>1
<1>3. \A i \in 1 .. Len(c) : Sure(lib, n, c[i])
  BY <1>2 DEF Tidy
<1>4. ASSUME NEW i \in 1 .. Len(c), NEW j \in 1 .. Len(c), i < j PROVE Ahead(lib, c[i], c[j])
  <2>1. CASE i \in 1 .. Len(a) /\ c[i] = a[i] /\ j \in 1 .. Len(a) /\ c[j] = a[j]
    BY <1>4, <2>1 DEF Tidy
  <2>2. CASE /\ i \in 1 .. Len(a) /\ c[i] = a[i]
             /\ j - Len(a) \in 1 .. Len(b) /\ c[j] = b[j - Len(a)]
    BY <2>2 DEF In
  <2>3. CASE /\ i - Len(a) \in 1 .. Len(b) /\ c[i] = b[i - Len(a)]
             /\ j - Len(a) \in 1 .. Len(b) /\ c[j] = b[j - Len(a)]
    <3>1. i - Len(a) < j - Len(a)
      BY <1>1, <1>4
    <3> QED
      BY <2>3, <3>1 DEF Tidy
  <2>4. ~(i > Len(a) /\ j \in 1 .. Len(a))
    BY <1>1, <1>4
  <2> QED
    BY <1>2, <2>1, <2>2, <2>3, <2>4
<1> QED
  BY <1>3, <1>4 DEF Tidy, c

LEMMA TidySmall ==
    ASSUME NEW lib, NEW n, NEW x, NEW y
    PROVE  /\ Tidy(lib, n, <<>>)
           /\ Sure(lib, n, x) => Tidy(lib, n, <<x>>)
           /\ Sure(lib, n, x) /\ Sure(lib, n, y) /\ Ahead(lib, x, y) => Tidy(lib, n, <<x, y>>)
<1>1. Tidy(lib, n, <<>>)
  BY DEF Tidy
<1>2. Sure(lib, n, x) => Tidy(lib, n, <<x>>)
  BY DEF Tidy
<1>3. Sure(lib, n, x) /\ Sure(lib, n, y) /\ Ahead(lib, x, y) => Tidy(lib, n, <<x, y>>)
  BY DEF Tidy
<1> QED
  BY <1>1, <1>2, <1>3

LEMMA TidyTail ==
    ASSUME NEW lib, NEW n, NEW F, NEW s \in Seq(F), s # <<>>, Tidy(lib, n, s)
    PROVE  /\ Sure(lib, n, Head(s)) /\ Tidy(lib, n, Tail(s))
           /\ \A g \in In(Tail(s)) : Ahead(lib, Head(s), g)
<1> DEFINE t == Tail(s)
<1>1. /\ t \in Seq(F) /\ Len(t) = Len(s) - 1 /\ Len(s) \in Nat /\ Len(s) # 0
      /\ \A k \in 1 .. Len(t) : t[k] = s[k + 1]
      /\ Head(s) = s[1]
  BY HeadTailProperties
<1> HIDE DEF t
<1>2. \A k \in 1 .. Len(t) : k + 1 \in 1 .. Len(s) /\ 1 < k + 1 /\ t[k] = s[k + 1]
  BY <1>1
<1>3. 1 \in 1 .. Len(s)
  BY <1>1
<1>4. Sure(lib, n, Head(s))
  BY <1>1, <1>3 DEF Tidy
<1>5. \A k \in 1 .. Len(t) : Ahead(lib, s[1], t[k])
  BY <1>2, <1>3 DEF Tidy
<1>6. Tidy(lib, n, t)
  <2>1. \A k \in 1 .. Len(t) : Sure(lib, n, t[k])
    BY <1>2 DEF Tidy
  <2>2. \A a, b \in 1 .. Len(t) : a < b => Ahead(lib, t[a], t[b])
    <3> TAKE a, b \in 1 .. Len(t)
    <3>1. a < b => a + 1 < b + 1
      OBVIOUS
    <3> QED
      BY <1>2, <3>1 DEF Tidy
  <2> QED
    BY <2>1, <2>2 DEF Tidy
<1> QED
  BY <1>1, <1>4, <1>5, <1>6 DEF In, t

\* What the call h leads to stands to what follows as h did.
Inherits(lib, h, f) ==
    \/ h.op \in Early
    \/ /\ Region(lib, f) \subseteq Region(lib, h)
       /\ f.op \in Toggles => f.id \in Region(lib, h)
       /\ f.op \notin Early
       /\ h.op \in Light => f.op \in Light

LEMMA NoSources ==
    ASSUME NEW lib, NEW f, f.op \notin TreeOps \cup TreeLoops
    PROVE  Sources(f) = {} /\ Region(lib, f) = {}
BY SpanEmpty DEF Sources, Region

LEMMA InheritsAhead ==
    ASSUME NEW lib, NEW h, NEW f, NEW g, Inherits(lib, h, f), Ahead(lib, h, g)
    PROVE  Ahead(lib, f, g)
<1>1. CASE h.op \in Early
  <2>1. g.op \notin Weighty
    BY <1>1 DEF Ahead
  <2>2. Region(lib, g) = {} /\ ~Heavy(lib, g)
    BY <2>1, NoSources DEF Weighty, Heavy
  <2> QED
    BY <2>1, <2>2 DEF Ahead
<1>2. CASE h.op \notin Early
  BY <1>2 DEF Inherits, Ahead
<1> QED
  BY <1>1, <1>2

LEMMA TidyReplace ==
    ASSUME NEW lib, NEW n, NEW F, NEW s \in Seq(F), s # <<>>, Tidy(lib, n, s),
           NEW new \in Seq(F), Tidy(lib, n, new), \A f \in In(new) : Inherits(lib, Head(s), f)
    PROVE  Tidy(lib, n, new \o Tail(s))
<1>0. Tail(s) \in Seq(F)
  OBVIOUS
<1>1. Tidy(lib, n, Tail(s)) /\ \A g \in In(Tail(s)) : Ahead(lib, Head(s), g)
  BY TidyTail
<1>2. \A f \in In(new) : \A g \in In(Tail(s)) : Ahead(lib, f, g)
  BY <1>1, InheritsAhead
<1> HIDE DEF Tidy
<1> QED
  BY <1>0, <1>1, <1>2, TidyConcat

(***************************************************************************)
(* What a process owes the counter, and calls that turn into others.       *)
(***************************************************************************)
Debt(lib, s) == Tally(Debits(lib), s)

\* The calls whose debt is a number.
Costed(lib) == {f \in Frame : Debits(lib)[f] \in Int}

LEMMA TallyPair ==
    ASSUME NEW w, NEW x, NEW y, w[x] \in Int, w[y] \in Int
    PROVE  Tally(w, <<x, y>>) = w[x] + w[y]
<1> DEFINE F == {x, y}
           s == <<x, y>>
<1>1. s \in Seq(F) /\ s # <<>> /\ Head(s) = x /\ Tail(s) = <<y>> /\ \A z \in F : w[z] \in Int
  OBVIOUS
<1>2. Tally(w, <<y>>) = w[y]
  BY TallyOne
<1> HIDE DEF s, F
<1>3. Tally(w, s) = w[Head(s)] + Tally(w, Tail(s))
  BY <1>1, TallyHead
<1> QED
  BY <1>1, <1>2, <1>3 DEF s

LEMMA DebitFacts ==
    ASSUME NEW lib, NEW n, Sane(lib, n)
    PROVE  /\ \A b \in Int : Debits(lib)[Add(b)] = b /\ Add(b) \in Costed(lib)
           /\ \A f \in Frame : f.op \notin {"add"} \cup Toggles \cup CopyOps =>
                Debits(lib)[f] = 0 /\ f \in Costed(lib)
           /\ \A op \in {"mark", "remove"} : \A i \in Nat :
                /\ Debits(lib)[At(op, i)] = IF i \in Live(lib) THEN Bytes(lib[i]) ELSE 0
                /\ At(op, i) \in Costed(lib)
           /\ \A i \in Nat :
                /\ Debits(lib)[At("unmark", i)] = IF i \in DOMAIN lib \ Live(lib) THEN - Bytes(lib[i]) ELSE 0
                /\ At("unmark", i) \in Costed(lib)
           /\ \A f \in Frame : f.op \notin CopyOps => f \in Costed(lib)
           /\ \A f \in Frame : f.op \notin Weighty => Debits(lib)[f] = 0
<1>0. \A i \in DOMAIN lib : Bytes(lib[i]) \in Nat
  BY SaneFacts
<1>1. ASSUME NEW b \in Int PROVE Debits(lib)[Add(b)] = b /\ Add(b) \in Costed(lib)
  <2>1. Add(b) \in Frame /\ Add(b).op = "add" /\ Add(b).bytes = b
    BY DEF Add, Frame
  <2> QED
    BY <2>1 DEF Debits, Costed
<1>2. ASSUME NEW f \in Frame, f.op \notin {"add"} \cup Toggles \cup CopyOps
      PROVE  Debits(lib)[f] = 0 /\ f \in Costed(lib)
  <2>1. Debits(lib)[f] = 0
    BY <1>2 DEF Debits, Toggles, CopyOps
  <2> QED
    BY <2>1 DEF Costed
<1>3. ASSUME NEW op \in {"mark", "remove"}, NEW i \in Nat
      PROVE  /\ Debits(lib)[At(op, i)] = IF i \in Live(lib) THEN Bytes(lib[i]) ELSE 0
             /\ At(op, i) \in Costed(lib)
  <2>1. At(op, i) \in Frame /\ At(op, i).op = op /\ At(op, i).id = i
    BY DEF At, Frame, AtOps
  <2>2. Debits(lib)[At(op, i)] = IF i \in Live(lib) THEN Bytes(lib[i]) ELSE 0
    BY <2>1 DEF Debits
  <2> QED
    BY <1>0, <2>1, <2>2 DEF Costed, Live
<1>4. ASSUME NEW i \in Nat
      PROVE  /\ Debits(lib)[At("unmark", i)] = IF i \in DOMAIN lib \ Live(lib) THEN - Bytes(lib[i]) ELSE 0
             /\ At("unmark", i) \in Costed(lib)
  <2>1. At("unmark", i) \in Frame /\ At("unmark", i).op = "unmark" /\ At("unmark", i).id = i
    BY DEF At, Frame, AtOps
  <2>2. Debits(lib)[At("unmark", i)] = IF i \in DOMAIN lib \ Live(lib) THEN - Bytes(lib[i]) ELSE 0
    BY <2>1 DEF Debits
  <2> QED
    BY <1>0, <2>1, <2>2 DEF Costed, Live
<1>5. ASSUME NEW f \in Frame, f.op \notin CopyOps PROVE f \in Costed(lib)
  <2>1. CASE f.op = "add"
    <3>1. f.bytes \in Int /\ Debits(lib)[f] = f.bytes
      BY <2>1, FrameFields DEF Debits
    <3> QED
      BY <3>1 DEF Costed
  <2>2. CASE f.op \in {"mark", "remove"}
    <3>1. Debits(lib)[f] = IF f.id \in Live(lib) THEN Bytes(lib[f.id]) ELSE 0
      BY <2>2 DEF Debits
    <3> QED
      BY <1>0, <3>1 DEF Costed, Live
  <2>3. CASE f.op = "unmark"
    <3>1. Debits(lib)[f] = IF f.id \in DOMAIN lib \ Live(lib) THEN - Bytes(lib[f.id]) ELSE 0
      BY <2>3 DEF Debits
    <3> QED
      BY <1>0, <3>1 DEF Costed, Live
  <2> QED
    BY <1>2, <1>5, <2>1, <2>2, <2>3 DEF Toggles
<1>6. \A f \in Frame : f.op \notin Weighty => Debits(lib)[f] = 0
  BY <1>2 DEF Weighty
<1> QED
  BY <1>1, <1>2, <1>3, <1>4, <1>5, <1>6

\* What happens to the calls a process has to do when h gives way to new.
Turns(lib, n, h, new) ==
    /\ Tidy(lib, n, new)
    /\ \A f \in In(new) : Inherits(lib, h, f)
    /\ new \in Seq(Costed(lib))
    /\ Debt(lib, new) = Debits(lib)[h]

LEMMA TurnsNone ==
    ASSUME NEW lib, NEW n, NEW h, Debits(lib)[h] = 0
    PROVE  Turns(lib, n, h, <<>>)
BY TidySmall, InSmall, TallyEmpty, NoFrames DEF Turns, Debt

LEMMA TurnsOne ==
    ASSUME NEW lib, NEW n, NEW h, NEW x \in Costed(lib), Sure(lib, n, x), Inherits(lib, h, x),
           Debits(lib)[x] = Debits(lib)[h]
    PROVE  Turns(lib, n, h, <<x>>)
<1>1. In(<<x>>) = {x} /\ Tidy(lib, n, <<x>>)
  BY InSmall, TidySmall
<1>2. Tally(Debits(lib), <<x>>) = Debits(lib)[x]
  BY TallyOne DEF Costed
<1>3. <<x>> \in Seq(Costed(lib))
  OBVIOUS
<1> QED
  BY <1>1, <1>2, <1>3 DEF Turns, Debt

LEMMA TurnsTwo ==
    ASSUME NEW lib, NEW n, NEW h, NEW x \in Costed(lib), NEW y \in Costed(lib),
           Sure(lib, n, x), Sure(lib, n, y), Ahead(lib, x, y),
           Inherits(lib, h, x), Inherits(lib, h, y),
           Debits(lib)[x] + Debits(lib)[y] = Debits(lib)[h]
    PROVE  Turns(lib, n, h, <<x, y>>)
<1>1. In(<<x, y>>) = {x, y} /\ Tidy(lib, n, <<x, y>>)
  BY InSmall, TidySmall
<1>2. Tally(Debits(lib), <<x, y>>) = Debits(lib)[x] + Debits(lib)[y]
  BY TallyPair DEF Costed
<1>3. <<x, y>> \in Seq(Costed(lib))
  BY Pair
<1> QED
  BY <1>1, <1>2, <1>3 DEF Turns, Debt

LEMMA TurnsConcat ==
    ASSUME NEW lib, NEW n, NEW h, NEW a \in Seq(Costed(lib)), NEW b \in Seq(Costed(lib)),
           Tidy(lib, n, a), Tidy(lib, n, b), \A f \in In(a) : \A g \in In(b) : Ahead(lib, f, g),
           \A f \in In(a) \cup In(b) : Inherits(lib, h, f),
           Debt(lib, a) + Debt(lib, b) = Debits(lib)[h]
    PROVE  Turns(lib, n, h, a \o b)
<1> DEFINE F == Costed(lib)
<1>1. \A f \in F : Debits(lib)[f] \in Int
  BY DEF Costed
<1> HIDE DEF F
<1>2. a \o b \in Seq(F) /\ In(a \o b) = In(a) \cup In(b) /\ Tidy(lib, n, a \o b)
  BY InConcat, TidyConcat DEF F
<1>3. Debt(lib, a \o b) = Debt(lib, a) + Debt(lib, b)
  BY <1>1, TallyConcat DEF Debt, F
<1> QED
  BY <1>2, <1>3 DEF Turns, F

\* A loop that is left out when its list is empty.
LEMMA EachFacts ==
    ASSUME NEW lib, NEW n, Sane(lib, n), NEW op \in EachOps \ {"copyEach"}, NEW kids, NEW to \in Nat,
           kids \subseteq Kid, Sure(lib, n, Loop(op, kids, to))
    PROVE  /\ Each(op, kids, to) \in Seq(Costed(lib)) /\ In(Each(op, kids, to)) \subseteq {Loop(op, kids, to)}
           /\ Tidy(lib, n, Each(op, kids, to)) /\ Debt(lib, Each(op, kids, to)) = 0
<1> DEFINE l == Loop(op, kids, to)
<1>1. l \in Frame /\ l.op = op
  BY DEF Loop, Frame, EachOps
<1>2. Debits(lib)[l] = 0 /\ l \in Costed(lib)
  BY <1>1, DebitFacts DEF EachOps, Toggles, CopyOps
<1>3. Each(op, kids, to) = IF kids = {} THEN <<>> ELSE <<l>>
  BY DEF Each, Loop
<1>4. Sure(lib, n, l)
  OBVIOUS
<1> DEFINE s == Each(op, kids, to)
<1> HIDE DEF l, s
<1>5. CASE kids = {}
  <2>1. s = <<>>
    BY <1>3, <1>5 DEF s
  <2>2. In(<<>>) = {} /\ Tidy(lib, n, <<>>)
    BY InSmall, TidySmall
  <2>3. <<>> \in Seq(Costed(lib)) /\ Debt(lib, <<>>) = 0
    BY TallyEmpty, NoFrames DEF Debt
  <2>4. s \in Seq(Costed(lib)) /\ In(s) \subseteq {l} /\ Tidy(lib, n, s) /\ Debt(lib, s) = 0
    BY <2>1, <2>2, <2>3
  <2> QED
    BY <2>4 DEF l, s
<1>6. CASE kids # {}
  <2>1. s = <<l>>
    BY <1>3, <1>6 DEF s
  <2>2. <<l>> \in Seq(Costed(lib))
    BY <1>2, Single
  <2>3. In(<<l>>) = {l} /\ Tidy(lib, n, <<l>>)
    BY <1>4, InSmall, TidySmall
  <2>4. Tally(Debits(lib), <<l>>) = 0
    BY <1>2, TallyOne
  <2>5. s \in Seq(Costed(lib)) /\ In(s) \subseteq {l} /\ Tidy(lib, n, s) /\ Debt(lib, s) = 0
    BY <2>1, <2>2, <2>3, <2>4 DEF Debt
  <2> QED
    BY <2>5 DEF l, s
<1> QED
  BY <1>5, <1>6

(***************************************************************************)
(* The children of a document, and a document taken out of a list.         *)
(***************************************************************************)
\* The documents of ids S as a find() in lib returns them.
Found(lib, S) == {[id |-> i, doc |-> lib[i]] : i \in S}

LEMMA AheadPlain ==
    ASSUME NEW lib, NEW f, NEW g,
           f.op \notin TreeOps \cup TreeLoops \/ g.op \notin TreeOps \cup TreeLoops,
           g.op \notin TreeLoops \/ f.op \notin Toggles,
           f.op \notin Early \/ g.op \notin Weighty,
           Heavy(lib, g) => f.op \in Light
    PROVE  Ahead(lib, f, g)
<1>1. Region(lib, f) = {} \/ Region(lib, g) = {}
  BY NoSources
<1> QED
  BY <1>1 DEF Ahead

LEMMA FoundIds ==
    ASSUME NEW lib, NEW S
    PROVE  IdsOf(Found(lib, S)) = S
<1>1. \A i \in S : \E k \in Found(lib, S) : k.id = i
  <2> TAKE i \in S
  <2> DEFINE k == [id |-> i, doc |-> lib[i]]
  <2>1. k \in Found(lib, S) /\ k.id = i
    BY DEF Found
  <2> HIDE DEF k
  <2> QED
    BY <2>1
<1>2. \A k \in Found(lib, S) : k.id \in S
  BY DEF Found
<1> QED
  BY <1>1, <1>2 DEF IdsOf

\* A loop over documents that were just read.
LEMMA LoopFound ==
    ASSUME NEW lib, NEW n, Sane(lib, n), NEW op \in TreeLoops, NEW i \in Nat,
           NEW S, S \subseteq Children(lib, i),
           op = "trashEach" => S \subseteq Live(lib),
           op = "restoreEach" => S \cap Live(lib) = {},
           NEW h, h.op \in TreeOps, h.id = i
    PROVE  /\ Sure(lib, n, Loop(op, Found(lib, S), Root))
           /\ Inherits(lib, h, Loop(op, Found(lib, S), Root))
           /\ Found(lib, S) \subseteq Kid
           /\ i \notin Region(lib, Loop(op, Found(lib, S), Root))
<1> DEFINE kids == Found(lib, S)
           l == Loop(op, kids, Root)
<1>1. l.op = op /\ l.kids = kids
  BY DEF Loop
<1>2. S \subseteq DOMAIN lib /\ \A j \in S : lib[j].parent = i /\ lib[j] \in Doc /\ j \in Nat
  BY DEF Children, Sane
<1>3. \A k \in kids : k.id \in S /\ k.doc = lib[k.id] /\ k = [id |-> k.id, doc |-> lib[k.id]]
  BY DEF Found
<1>4. kids \subseteq Kid
  BY <1>2, <1>3 DEF Kid
<1>5. IdsOf(kids) = S
  BY FoundIds
<1> HIDE DEF kids
<1>6. Fresh(lib, kids)
  <2>1. \A k \in kids : Kept(lib, k.id, k.doc) /\ (IsLive(lib[k.id]) <=> IsLive(k.doc))
    BY <1>2, <1>3 DEF Kept
  <2>2. \A k, m \in kids : k.id = m.id => k = m
    BY <1>3
  <2>3. \A k \in kids : lib[k.id].parent = i
    BY <1>2, <1>3
  <2> QED
    BY <2>1, <2>2, <2>3 DEF Fresh
<1> HIDE DEF l
<1>7. Sure(lib, n, l)
  <2>1. l.op = "trashEach" => \A k \in l.kids : IsLive(k.doc)
    BY <1>1, <1>3 DEF Live
  <2>2. l.op = "restoreEach" => \A k \in l.kids : ~IsLive(k.doc)
    BY <1>1, <1>2, <1>3 DEF Live
  <2>3. l.op \notin {"restoreCheck", "insert"} \cup TreeOps \cup Toggles
    BY <1>1 DEF TreeLoops, TreeOps, Toggles
  <2> QED
    BY <1>1, <1>6, <2>1, <2>2, <2>3 DEF Sure
<1>8. Sources(l) = S /\ Sources(h) = {i}
  <2>1. l.op \notin TreeOps
    BY <1>1 DEF TreeOps, TreeLoops
  <2> QED
    BY <1>1, <1>5, <2>1 DEF Sources
<1>9. Region(lib, l) \subseteq Region(lib, h) /\ i \notin Region(lib, l)
  <2>1. S \subseteq Inside(lib, DOMAIN lib, i)
    BY DEF Children, Inside
  <2>2. Span(lib, DOMAIN lib, S) \subseteq Span(lib, DOMAIN lib, Inside(lib, DOMAIN lib, i))
    BY <2>1, SpanHolds, SpanMonotone
  <2>3. /\ Span(lib, DOMAIN lib, {i}) = {i} \cup Span(lib, DOMAIN lib, Inside(lib, DOMAIN lib, i))
        /\ i \notin Span(lib, DOMAIN lib, Inside(lib, DOMAIN lib, i))
    BY SpanOne, SpanNotIn DEF Sane
  <2> QED
    BY <1>8, <2>2, <2>3 DEF Region
<1>10. Inherits(lib, h, l)
  BY <1>1, <1>9 DEF Inherits, TreeLoops, Toggles, Early, Quits, Light, TreeOps
<1> QED
  BY <1>4, <1>7, <1>9, <1>10 DEF l, kids

\* A loop that takes its next document.
LEMMA LoopTakes ==
    ASSUME NEW lib, NEW n, Sane(lib, n), NEW l \in Frame, l.op \in TreeLoops, Sure(lib, n, l), NEW k \in l.kids
    PROVE  /\ k \in Kid /\ k.id \in 1 .. (n - 1) /\ Kept(lib, k.id, k.doc)
           /\ IsLive(lib[k.id]) <=> IsLive(k.doc)
           /\ l.op = "trashEach" => IsLive(k.doc)
           /\ l.op = "restoreEach" => ~IsLive(k.doc)
           /\ Sure(lib, n, Loop(l.op, l.kids \ {k}, l.to))
           /\ Inherits(lib, l, Loop(l.op, l.kids \ {k}, l.to))
           /\ k.id \in Region(lib, l)
           /\ k.id \notin Region(lib, Loop(l.op, l.kids \ {k}, l.to))
           /\ \A f : Sources(f) = {k.id} =>
                /\ Region(lib, f) \subseteq Region(lib, l)
                /\ Region(lib, f) \cap Region(lib, Loop(l.op, l.kids \ {k}, l.to)) = {}
<1> DEFINE m == Loop(l.op, l.kids \ {k}, l.to)
           A == {k.id}
           B == IdsOf(l.kids \ {k})
           S == IdsOf(l.kids)
           D == DOMAIN lib
<1>1. l.kids \subseteq Kid /\ Fresh(lib, l.kids)
  BY FrameFields DEF TreeLoops, EachOps, Sure
<1>2. PICK q \in Nat : \A j \in l.kids : lib[j.id].parent = q
  BY <1>1 DEF Fresh
<1>3. m.op = l.op /\ m.kids = l.kids \ {k}
  BY DEF Loop
<1>4. Fresh(lib, l.kids \ {k})
  BY <1>1 DEF Fresh
<1>5. S \subseteq D /\ \A x \in S : lib[x].parent = q
  BY <1>1, <1>2 DEF IdsOf, Fresh, Kept
<1>6. A \subseteq S /\ B \subseteq S /\ A \cap B = {}
  BY <1>1 DEF IdsOf, Fresh
<1>7. Sources(l) = S /\ Sources(m) = B
  <2>1. l.op \notin TreeOps
    BY DEF TreeOps, TreeLoops
  <2> QED
    BY <1>3, <2>1 DEF Sources
<1> HIDE DEF m, A, B, S
<1>8. Span(lib, D, A) \cap Span(lib, D, B) = {}
  BY <1>5, <1>6, SpanApart DEF Sane
<1>9. Span(lib, D, A) \subseteq Span(lib, D, S) /\ Span(lib, D, B) \subseteq Span(lib, D, S)
  <2>1. A \subseteq Span(lib, D, S) /\ B \subseteq Span(lib, D, S)
    BY <1>6, SpanHolds
  <2> QED
    BY <2>1, SpanMonotone
<1>10. k.id \in Span(lib, D, A)
  BY SpanHolds DEF A
<1>11. Sure(lib, n, m)
  BY <1>3, <1>4 DEF Sure, TreeLoops, TreeOps, Toggles
<1>12. Inherits(lib, l, m)
  <2>1. Region(lib, m) \subseteq Region(lib, l)
    BY <1>7, <1>9 DEF Region
  <2> QED
    BY <1>3, <2>1 DEF Inherits, TreeLoops, Toggles, Early, Quits, Light
<1>13. /\ k \in Kid /\ k.id \in 1 .. (n - 1) /\ Kept(lib, k.id, k.doc)
       /\ IsLive(lib[k.id]) <=> IsLive(k.doc)
       /\ l.op = "trashEach" => IsLive(k.doc)
       /\ l.op = "restoreEach" => ~IsLive(k.doc)
  BY <1>1 DEF Fresh, Kept, Sure, Sane
<1>14. k.id \in Region(lib, l) /\ k.id \notin Region(lib, m)
  BY <1>7, <1>8, <1>9, <1>10 DEF Region
<1>15. \A f : Sources(f) = A => Region(lib, f) \subseteq Region(lib, l) /\ Region(lib, f) \cap Region(lib, m) = {}
  BY <1>7, <1>8, <1>9 DEF Region
<1> QED
  BY <1>11, <1>12, <1>13, <1>14, <1>15 DEF m, A

\* The deletion of a file.
LEMMA DeleteFileTurns ==
    ASSUME NEW lib, NEW n, Sane(lib, n), NEW i \in 1 .. (n - 1), NEW d \in Doc,
           Kept(lib, i, d), IsLive(lib[i]) <=> IsLive(d), ~IsFolder(d)
    PROVE  /\ Tidy(lib, n, DeleteFile(i, d)) /\ In(DeleteFile(i, d)) \subseteq FileFrames(i, d)
           /\ DeleteFile(i, d) \in Seq(Costed(lib)) /\ Debt(lib, DeleteFile(i, d)) = 0
<1> DEFINE F == Costed(lib)
           x == Add(-Bytes(d))
           y == About("countRefs", i, d.msg)
           z == At("remove", i)
           a == IF IsLive(d) THEN <<x>> ELSE <<>>
           b == IF d.msg # NoMessage THEN <<y>> ELSE <<>>
           c == <<z>>
<1>1. /\ x \in F /\ x.op = "add" /\ Debits(lib)[x] = - Bytes(d) /\ Bytes(d) \in Nat
      /\ y \in F /\ y.op = "countRefs" /\ Debits(lib)[y] = 0
      /\ z \in F /\ z.op = "remove" /\ z.id = i
      /\ Debits(lib)[z] = IF i \in Live(lib) THEN Bytes(lib[i]) ELSE 0
  <2>1. Bytes(d) \in Nat /\ - Bytes(d) \in Int
    BY BytesNat
  <2>2. y \in Frame /\ y.op = "countRefs"
    BY DEF About, Frame, Doc, Sane
  <2>3. Debits(lib)[y] = 0 /\ y \in F
    BY <2>2, DebitFacts DEF Toggles, CopyOps
  <2>4. x.op = "add" /\ z.op = "remove" /\ z.id = i
    BY DEF Add, At
  <2>5. i \in Nat
    BY DEF Sane
  <2> QED
    BY <2>1, <2>2, <2>3, <2>4, <2>5, DebitFacts
<1>2. Debits(lib)[z] = IF IsLive(d) THEN Bytes(d) ELSE 0
  BY <1>1 DEF Live, Kept, Bytes, IsFolder
<1>3. Sure(lib, n, x) /\ Sure(lib, n, y) /\ Sure(lib, n, z)
  <2>1. z.id \in 0 .. (n - 1)
    BY <1>1 DEF Sane
  <2> QED
    BY <1>1, <2>1 DEF Sure, TreeLoops, TreeOps, Toggles
<1>4. Ahead(lib, x, y) /\ Ahead(lib, x, z) /\ Ahead(lib, y, z)
  BY <1>1, AheadPlain DEF TreeOps, TreeLoops, Toggles, Early, Quits, Light, Heavy
<1>5. DeleteFile(i, d) = a \o b \o c
  BY DEF DeleteFile
<1>6. FileFrames(i, d) = {x, z} \cup (IF d.msg # NoMessage THEN {y} ELSE {})
  BY DEF FileFrames
<1>7. \A f \in F : Debits(lib)[f] \in Int
  BY DEF Costed
<1> HIDE DEF x, y, z, F
<1>8. a \in Seq(F) /\ In(a) \subseteq {x} /\ Tidy(lib, n, a) /\ Tally(Debits(lib), a) = IF IsLive(d) THEN - Bytes(d) ELSE 0
  <2>1. CASE IsLive(d)
    <3>0. Debits(lib)[x] \in Int
      BY <1>1, <1>7
    <3>1. In(<<x>>) = {x} /\ Tidy(lib, n, <<x>>) /\ Tally(Debits(lib), <<x>>) = - Bytes(d)
      <4>1. In(<<x>>) = {x} /\ Tidy(lib, n, <<x>>)
        BY <1>3, InSmall, TidySmall
      <4>2. Tally(Debits(lib), <<x>>) = Debits(lib)[x]
        BY <3>0, TallyOne
      <4> QED
        BY <1>1, <4>1, <4>2
    <3>2. <<x>> \in Seq(F)
      BY <1>1
    <3> QED
      BY <2>1, <3>1, <3>2
  <2>2. CASE ~IsLive(d)
    <3>1. In(<<>>) = {} /\ Tidy(lib, n, <<>>) /\ Tally(Debits(lib), <<>>) = 0 /\ <<>> \in Seq(F)
      BY InSmall, TidySmall, TallyEmpty, NoFrames
    <3> QED
      BY <2>2, <3>1
  <2> QED
    BY <2>1, <2>2
<1>9. b \in Seq(F) /\ In(b) \subseteq (IF d.msg # NoMessage THEN {y} ELSE {}) /\ Tidy(lib, n, b) /\ Tally(Debits(lib), b) = 0
  <2>1. CASE d.msg # NoMessage
    <3>0. Debits(lib)[y] \in Int
      BY <1>1, <1>7
    <3>1. In(<<y>>) = {y} /\ Tidy(lib, n, <<y>>) /\ Tally(Debits(lib), <<y>>) = 0
      <4>1. In(<<y>>) = {y} /\ Tidy(lib, n, <<y>>)
        BY <1>3, InSmall, TidySmall
      <4>2. Tally(Debits(lib), <<y>>) = Debits(lib)[y]
        BY <3>0, TallyOne
      <4> QED
        BY <1>1, <4>1, <4>2
    <3>2. <<y>> \in Seq(F)
      BY <1>1
    <3> QED
      BY <2>1, <3>1, <3>2
  <2>2. CASE d.msg = NoMessage
    <3>1. In(<<>>) = {} /\ Tidy(lib, n, <<>>) /\ Tally(Debits(lib), <<>>) = 0 /\ <<>> \in Seq(F)
      BY InSmall, TidySmall, TallyEmpty, NoFrames
    <3> QED
      BY <2>2, <3>1
  <2> QED
    BY <2>1, <2>2
<1>10. c \in Seq(F) /\ In(c) = {z} /\ Tidy(lib, n, c) /\ Tally(Debits(lib), c) = IF IsLive(d) THEN Bytes(d) ELSE 0
  <2>1. In(<<z>>) = {z} /\ Tidy(lib, n, <<z>>)
    BY <1>3, InSmall, TidySmall
  <2>2. Debits(lib)[z] \in Int
    BY <1>1, <1>2
  <2>3. Tally(Debits(lib), <<z>>) = Debits(lib)[z]
    BY <2>2, TallyOne
  <2>4. <<z>> \in Seq(F)
    BY <1>1
  <2> QED
    BY <1>2, <2>1, <2>3, <2>4
<1> HIDE DEF a, b, c
<1>11. a \o b \in Seq(F) /\ In(a \o b) = In(a) \cup In(b) /\ Tidy(lib, n, a \o b)
       /\ Tally(Debits(lib), a \o b) = IF IsLive(d) THEN - Bytes(d) ELSE 0
  <2>1. \A f \in In(a) : \A g \in In(b) : Ahead(lib, f, g)
    BY <1>4, <1>8, <1>9
  <2>2. a \o b \in Seq(F) /\ In(a \o b) = In(a) \cup In(b) /\ Tidy(lib, n, a \o b)
    BY <1>8, <1>9, <2>1, InConcat, TidyConcat
  <2>3. Tally(Debits(lib), a \o b) = Tally(Debits(lib), a) + Tally(Debits(lib), b)
    BY <1>7, <1>8, <1>9, TallyConcat
  <2> QED
    BY <1>1, <1>8, <1>9, <2>2, <2>3
<1>12. a \o b \o c \in Seq(F) /\ In(a \o b \o c) = In(a) \cup In(b) \cup In(c) /\ Tidy(lib, n, a \o b \o c)
       /\ Tally(Debits(lib), a \o b \o c) = 0
  <2>1. \A f \in In(a \o b) : \A g \in In(c) : Ahead(lib, f, g)
    BY <1>4, <1>8, <1>9, <1>10, <1>11
  <2> DEFINE e == a \o b
  <2>2. e \in Seq(F) /\ Tidy(lib, n, e) /\ \A f \in In(e) : \A g \in In(c) : Ahead(lib, f, g)
    BY <1>11, <2>1
  <2> HIDE DEF e
  <2>3. e \o c \in Seq(F) /\ In(e \o c) = In(e) \cup In(c) /\ Tidy(lib, n, e \o c)
    BY <1>10, <2>2, InConcat, TidyConcat
  <2>4. Tally(Debits(lib), e \o c) = Tally(Debits(lib), e) + Tally(Debits(lib), c)
    BY <1>7, <1>10, <2>2, TallyConcat
  <2> QED
    BY <1>1, <1>10, <1>11, <2>3, <2>4 DEF e
<1> QED
  BY <1>5, <1>6, <1>8, <1>9, <1>10, <1>12 DEF Debt, F

(***************************************************************************)
(* The calls that trash, restore and delete, one by one.                   *)
(***************************************************************************)
\* The calls of which no invariant says anything.
BlankOps == AllOps \ (Weighty \cup {"restoreCheck", "insert"})

LEMMA BlankFacts ==
    ASSUME NEW lib, NEW n, Sane(lib, n), NEW f \in Frame, f.op \in BlankOps
    PROVE  /\ Sure(lib, n, f) /\ Region(lib, f) = {} /\ Debits(lib)[f] = 0 /\ f \in Costed(lib)
           /\ ~Heavy(lib, f) /\ f.op \notin TreeOps \cup TreeLoops \cup Toggles
<1>1. f.op \notin Weighty /\ f.op # "restoreCheck" /\ f.op # "insert"
  BY DEF BlankOps
<1>2. f.op \notin TreeOps /\ f.op \notin TreeLoops /\ f.op \notin Toggles /\ f.op \notin CopyOps /\ f.op # "add"
  BY <1>1 DEF Weighty
<1>3. Region(lib, f) = {} /\ Debits(lib)[f] = 0 /\ f \in Costed(lib)
  BY <1>2, NoSources, DebitFacts
<1>4. Sure(lib, n, f)
  BY <1>1, <1>2 DEF Sure, TreeLoops
<1> QED
  BY <1>2, <1>3, <1>4 DEF Heavy

LEMMA BlankAhead ==
    ASSUME NEW lib, NEW n, Sane(lib, n), NEW f \in Frame, f.op \in BlankOps, NEW g
    PROVE  /\ Ahead(lib, g, f)
           /\ (f.op \in Early => g.op \notin Weighty) /\ ~Heavy(lib, g) => Ahead(lib, f, g)
<1>1. Region(lib, f) = {} /\ ~Heavy(lib, f) /\ f.op \notin TreeOps \cup TreeLoops \cup Toggles
  BY BlankFacts
<1>2. f.op \notin Weighty
  BY DEF BlankOps
<1> QED
  BY <1>1, <1>2 DEF Ahead

LEMMA BlankTurns ==
    ASSUME NEW lib, NEW n, Sane(lib, n), NEW h, Debits(lib)[h] = 0,
           NEW new \in Seq(Frame), \A f \in In(new) : f.op \in BlankOps,
           \A f \in In(new) : h.op \in Early \/ (f.op \notin Early /\ (h.op \in Light => f.op \in Light))
    PROVE  Turns(lib, n, h, new)
<1>1. \A k \in 1 .. Len(new) : new[k] \in Frame /\ new[k] \in In(new)
  BY DEF In
<1>2. \A k \in 1 .. Len(new) : Sure(lib, n, new[k]) /\ Debits(lib)[new[k]] = 0 /\ new[k] \in Costed(lib)
  BY <1>1, BlankFacts
<1>3. \A a, b \in 1 .. Len(new) : Ahead(lib, new[a], new[b])
  BY <1>1, BlankAhead
<1>4. Tidy(lib, n, new)
  BY <1>2, <1>3 DEF Tidy
<1>5. \A f \in In(new) : Inherits(lib, h, f)
  <2> TAKE f \in In(new)
  <2>1. f \in Frame
    BY InSeq
  <2>2. Region(lib, f) = {} /\ f.op \notin Toggles
    BY <2>1, BlankFacts
  <2> QED
    BY <2>2 DEF Inherits
<1>6. new \in Seq(Costed(lib))
  BY <1>2, SeqDef
<1>7. Tally(Debits(lib), new) = 0
  BY <1>2, TallyZero
<1> QED
  BY <1>4, <1>5, <1>6, <1>7 DEF Turns, Debt

\* The calls that lead to such calls only.
ToBlank == {"parent", "move", "walk", "copy", "size", "quota", "enqueue", "restoreParent", "countRefs",
            "deleteMsg", "purge", "send", "initQuota", "openUpload"}

LEMMA BlankCalls ==
    ASSUME NEW lib, NEW n, Sane(lib, n), NEW p, NEW h \in Frame, h.op \in ToBlank,
           NEW new \in Seq(Frame), new \in Seq(Made(p, h))
    PROVE  Turns(lib, n, h, new)
<1>1. h.op \in BlankOps
  BY DEF ToBlank, BlankOps, AllOps, Weighty, TreeOps, TreeLoops, Toggles, CopyOps, AtOps, DocOps, PlaceOps
<1>2. \A f \in In(new) : f.op \in MoreOps(h.op)
  BY InSeq, MadeOps
<1>3. \A op \in MoreOps(h.op) :
         op \in BlankOps /\ (h.op \in Early \/ (op \notin Early /\ (h.op \in Light => op \in Light)))
  <2>1. CASE h.op \in {"parent", "move", "walk", "copy"}
    BY <2>1 DEF MoreOps, BlankOps, AllOps, Weighty, TreeOps, TreeLoops, Toggles, CopyOps, AtOps, DocOps, PlaceOps,
         Early, Quits
  <2>2. CASE h.op \in {"size", "quota", "enqueue", "restoreParent", "purge"}
    BY <2>2 DEF MoreOps, BlankOps, AllOps, Weighty, TreeOps, TreeLoops, Toggles, CopyOps, AtOps, DocOps, PlaceOps,
         EachOps, Early, Quits, Light
  <2>3. CASE h.op \in {"countRefs", "deleteMsg", "send", "initQuota", "openUpload"}
    BY <2>3 DEF MoreOps, BlankOps, AllOps, Weighty, TreeOps, TreeLoops, Toggles, CopyOps, AtOps, DocOps, PlaceOps,
         EachOps, Early, Quits, Light
  <2> QED
    BY <2>1, <2>2, <2>3 DEF ToBlank
<1>4. Debits(lib)[h] = 0
  BY <1>1, BlankFacts
<1>5. \A f \in In(new) : f.op \in BlankOps /\ (h.op \in Early \/ (f.op \notin Early /\ (h.op \in Light => f.op \in Light)))
  <2> TAKE f \in In(new)
  <2>1. f.op \in MoreOps(h.op)
    BY <1>2
  <2> QED
    BY <1>3, <2>1
<1> QED
  BY <1>4, <1>5, BlankTurns

LEMMA TrashTurns ==
    ASSUME NEW lib, NEW n, Sane(lib, n), NEW h \in Frame, h.op = "trash", h.id \in Live(lib), NEW new,
           \/ IsFolder(lib[h.id]) /\ new = <<At("trashChildren", h.id), At("mark", h.id)>>
           \/ ~IsFolder(lib[h.id]) /\ new = <<At("mark", h.id), Add(-Bytes(lib[h.id]))>>
    PROVE  Turns(lib, n, h, new)
<1> DEFINE x == At("trashChildren", h.id)
           y == At("mark", h.id)
           z == Add(-Bytes(lib[h.id]))
<1>0. h.id \in DOMAIN lib /\ Bytes(lib[h.id]) \in Nat
  BY SaneFacts
<1>1. /\ h.id \in DOMAIN lib /\ h.id \in 1 .. (n - 1) /\ h.id \in Nat /\ Bytes(lib[h.id]) \in Nat
      /\ - Bytes(lib[h.id]) \in Int
  <2>1. h.id \in 1 .. (n - 1) /\ h.id \in Nat
    BY <1>0 DEF Sane
  <2>2. \A b \in Nat : - b \in Int
    OBVIOUS
  <2> QED
    BY <1>0, <2>1, <2>2
<1>2. x.op = "trashChildren" /\ x.id = h.id /\ y.op = "mark" /\ y.id = h.id /\ z.op = "add" /\ x \in Frame
  BY <1>1 DEF At, Add, Frame, AtOps
<1>3. /\ Debits(lib)[y] = Bytes(lib[h.id]) /\ y \in Costed(lib)
      /\ Debits(lib)[z] = - Bytes(lib[h.id]) /\ z \in Costed(lib)
      /\ Debits(lib)[h] = 0
      /\ Debits(lib)[x] = 0 /\ x \in Costed(lib)
  BY <1>1, <1>2, DebitFacts DEF Toggles, CopyOps
<1>4. h.id \in 0 .. (n - 1)
  BY <1>1 DEF Sane
<1> HIDE DEF x, y, z
<1>5. (IsFolder(lib[h.id]) => Sure(lib, n, x)) /\ Sure(lib, n, y) /\ Sure(lib, n, z)
  BY <1>2, <1>4 DEF Sure, TreeLoops, TreeOps, Toggles
<1>6. Inherits(lib, h, x) /\ Inherits(lib, h, y) /\ Inherits(lib, h, z)
  BY DEF Inherits, Early, Quits
<1>7. IsFolder(lib[h.id]) => Ahead(lib, x, y) /\ Bytes(lib[h.id]) = 0
  <2>1. IsFolder(lib[h.id]) => ~Heavy(lib, y)
    BY <1>2 DEF Heavy
  <2> QED
    BY <1>2, <2>1, AheadPlain DEF TreeOps, TreeLoops, Toggles, Early, Quits, Bytes
<1>8. Ahead(lib, y, z)
  BY <1>2, AheadPlain DEF TreeOps, TreeLoops, Toggles, Early, Quits, Heavy
<1>9. CASE IsFolder(lib[h.id])
  <2>1. Debits(lib)[x] + Debits(lib)[y] = Debits(lib)[h]
    BY <1>3, <1>7, <1>9
  <2> QED
    BY <1>3, <1>5, <1>6, <1>7, <1>9, <2>1, TurnsTwo DEF x, y
<1>10. CASE ~IsFolder(lib[h.id])
  <2>1. Debits(lib)[y] + Debits(lib)[z] = Debits(lib)[h]
    BY <1>1, <1>3
  <2> QED
    BY <1>3, <1>5, <1>6, <1>8, <1>10, <2>1, TurnsTwo DEF y, z
<1> QED
  BY <1>9, <1>10

LEMMA RestoreCheckTurns ==
    ASSUME NEW lib, NEW n, Sane(lib, n), NEW h \in Frame, h.op = "restoreCheck", Sure(lib, n, h), NEW new,
           \/ h.id \in Live(lib) /\ new = <<>>
           \/ /\ h.id \notin Live(lib) /\ IsFolder(h.doc)
              /\ new = <<At("unmark", h.id), At("restoreChildren", h.id)>>
           \/ /\ h.id \notin Live(lib) /\ ~IsFolder(h.doc)
              /\ new = <<At("unmark", h.id), Add(Bytes(h.doc))>>
    PROVE  Turns(lib, n, h, new)
<1> DEFINE x == At("unmark", h.id)
           y == At("restoreChildren", h.id)
           z == Add(Bytes(h.doc))
<1>0. h.id \in DOMAIN lib /\ lib[h.id].kind = h.doc.kind
  BY DEF Sure, Kept
<1>1. h.id \in 1 .. (n - 1) /\ h.id \in Nat /\ Bytes(lib[h.id]) \in Nat /\ Bytes(h.doc) = Bytes(lib[h.id])
  <2>1. Bytes(lib[h.id]) \in Nat
    BY <1>0, SaneFacts
  <2>2. h.id \in 1 .. (n - 1) /\ h.id \in Nat
    BY <1>0 DEF Sane
  <2>3. Bytes(h.doc) = Bytes(lib[h.id])
    BY <1>0 DEF Bytes, IsFolder
  <2> QED
    BY <2>1, <2>2, <2>3
<1>2. x.op = "unmark" /\ x.id = h.id /\ y.op = "restoreChildren" /\ y.id = h.id /\ z.op = "add" /\ y \in Frame
  BY <1>1 DEF At, Add, Frame, AtOps
<1>3. /\ Debits(lib)[x] = (IF h.id \in Live(lib) THEN 0 ELSE - Bytes(lib[h.id])) /\ x \in Costed(lib)
      /\ Debits(lib)[z] = Bytes(lib[h.id]) /\ z \in Costed(lib)
      /\ Debits(lib)[h] = 0
      /\ Debits(lib)[y] = 0 /\ y \in Costed(lib)
  BY <1>0, <1>1, <1>2, DebitFacts DEF Toggles, CopyOps
<1>4. h.id \in 0 .. (n - 1)
  BY <1>1 DEF Sane
<1> HIDE DEF x, y, z
<1>5. Sure(lib, n, x) /\ (IsFolder(h.doc) => Sure(lib, n, y)) /\ Sure(lib, n, z)
  <2>1. IsFolder(h.doc) => IsFolder(lib[h.id])
    BY <1>0 DEF IsFolder
  <2> QED
    BY <1>2, <1>4, <2>1 DEF Sure, TreeLoops, TreeOps, Toggles
<1>6. Inherits(lib, h, x) /\ Inherits(lib, h, y) /\ Inherits(lib, h, z)
  BY DEF Inherits, Early
<1>7. Ahead(lib, x, y) /\ Ahead(lib, x, z)
  BY <1>2, AheadPlain DEF TreeOps, TreeLoops, Toggles, Early, Quits, Heavy
<1>8. CASE h.id \in Live(lib) /\ new = <<>>
  BY <1>3, <1>8, TurnsNone
<1>9. CASE h.id \notin Live(lib) /\ IsFolder(h.doc) /\ new = <<x, y>>
  <2>1. Debits(lib)[x] + Debits(lib)[y] = Debits(lib)[h]
    BY <1>1, <1>3, <1>9 DEF Bytes
  <2> QED
    BY <1>3, <1>5, <1>6, <1>7, <1>9, <2>1, TurnsTwo
<1>10. CASE h.id \notin Live(lib) /\ ~IsFolder(h.doc) /\ new = <<x, z>>
  <2>1. Debits(lib)[x] + Debits(lib)[z] = Debits(lib)[h]
    BY <1>1, <1>3, <1>10
  <2> QED
    BY <1>3, <1>5, <1>6, <1>7, <1>10, <2>1, TurnsTwo
<1> QED
  BY <1>8, <1>9, <1>10 DEF x, y, z

LEMMA RestoreTurns ==
    ASSUME NEW lib, NEW n, Sane(lib, n), NEW h \in Frame, h.op = "restore", h.id \in DOMAIN lib, NEW new,
           \/ new = <<Of("restoreCheck", h.id, lib[h.id])>>
           \/ new = <<Of("restoreParent", h.id, lib[h.id]), Of("restoreCheck", h.id, lib[h.id])>>
    PROVE  Turns(lib, n, h, new)
<1> DEFINE x == Of("restoreParent", h.id, lib[h.id])
           y == Of("restoreCheck", h.id, lib[h.id])
<1>1. h.id \in Nat /\ lib[h.id] \in Doc
  BY DEF Sane
<1>2. /\ x.op = "restoreParent" /\ y.op = "restoreCheck" /\ x \in Frame /\ y \in Frame
      /\ y.id = h.id /\ y.doc = lib[h.id]
  BY <1>1 DEF Of, Frame, DocOps
<1>3. /\ Debits(lib)[x] = 0 /\ x \in Costed(lib) /\ Debits(lib)[y] = 0 /\ y \in Costed(lib)
      /\ Debits(lib)[h] = 0
  BY <1>2, DebitFacts DEF Toggles, CopyOps
<1> HIDE DEF x, y
<1>4. Sure(lib, n, x) /\ Sure(lib, n, y)
  BY <1>2 DEF Sure, TreeLoops, TreeOps, Toggles, Kept
<1>5. Inherits(lib, h, x) /\ Inherits(lib, h, y)
  BY DEF Inherits, Early, Quits
<1>6. Ahead(lib, x, y)
  BY <1>2, AheadPlain DEF TreeOps, TreeLoops, Toggles, Weighty, CopyOps, Heavy
<1>7. Turns(lib, n, h, <<y>>)
  BY <1>3, <1>4, <1>5, TurnsOne
<1>8. Turns(lib, n, h, <<x, y>>)
  BY <1>3, <1>4, <1>5, <1>6, TurnsTwo
<1> QED
  BY <1>7, <1>8 DEF x, y

LEMMA DeleteTurns ==
    ASSUME NEW lib, NEW n, Sane(lib, n), NEW h \in Frame, h.op = "delete", NEW new,
           \/ h.id \notin DOMAIN lib /\ new = <<>>
           \/ /\ h.id \in DOMAIN lib /\ IsFolder(lib[h.id])
              /\ new = <<At("deleteChildren", h.id), At("remove", h.id)>>
           \/ /\ h.id \in DOMAIN lib /\ ~IsFolder(lib[h.id])
              /\ new = DeleteFile(h.id, lib[h.id])
    PROVE  Turns(lib, n, h, new)
<1>0. Debits(lib)[h] = 0
  BY DebitFacts DEF Toggles, CopyOps
<1>1. CASE h.id \notin DOMAIN lib /\ new = <<>>
  BY <1>0, <1>1, TurnsNone
<1>2. CASE /\ h.id \in DOMAIN lib /\ IsFolder(lib[h.id])
           /\ new = <<At("deleteChildren", h.id), At("remove", h.id)>>
  <2> DEFINE x == At("deleteChildren", h.id)
             y == At("remove", h.id)
  <2>1. h.id \in Nat /\ h.id \in 0 .. (n - 1) /\ Bytes(lib[h.id]) = 0
    BY <1>2 DEF Sane, Bytes
  <2>2. x.op = "deleteChildren" /\ y.op = "remove" /\ x \in Frame /\ x.id = h.id /\ y.id = h.id
    BY <2>1 DEF At, Frame, AtOps
  <2>3. Debits(lib)[x] = 0 /\ x \in Costed(lib) /\ Debits(lib)[y] = 0 /\ y \in Costed(lib)
    BY <2>1, <2>2, DebitFacts DEF Toggles, CopyOps
  <2> HIDE DEF x, y
  <2>4. Sure(lib, n, x) /\ Sure(lib, n, y)
    BY <1>2, <2>1, <2>2 DEF Sure, TreeLoops, TreeOps, Toggles
  <2>5. Inherits(lib, h, x) /\ Inherits(lib, h, y)
    BY DEF Inherits, Early
  <2>6. ~Heavy(lib, y)
    BY <1>2, <2>2 DEF Heavy
  <2>7. Ahead(lib, x, y)
    BY <2>2, <2>6, AheadPlain DEF TreeOps, TreeLoops, Toggles, Early, Quits
  <2>8. Turns(lib, n, h, <<x, y>>)
    BY <1>0, <2>3, <2>4, <2>5, <2>7, TurnsTwo
  <2> QED
    BY <1>2, <2>8 DEF x, y
<1>3. CASE h.id \in DOMAIN lib /\ ~IsFolder(lib[h.id]) /\ new = DeleteFile(h.id, lib[h.id])
  <2>1. h.id \in 1 .. (n - 1) /\ lib[h.id] \in Doc /\ Kept(lib, h.id, lib[h.id])
    BY <1>3 DEF Sane, Kept
  <2>2. /\ Tidy(lib, n, new) /\ new \in Seq(Costed(lib)) /\ Debt(lib, new) = 0
    BY <1>3, <2>1, DeleteFileTurns
  <2>3. \A f : Inherits(lib, h, f)
    BY DEF Inherits, Early
  <2> QED
    BY <1>0, <2>2, <2>3 DEF Turns
<1> QED
  BY <1>1, <1>2, <1>3

\* The list of a folder's documents.
LEMMA ListTurns ==
    ASSUME NEW lib, NEW n, Sane(lib, n), NEW h \in Frame, h.op \in TreeOps, NEW op \in TreeLoops,
           NEW S, S \subseteq Children(lib, h.id),
           op = "trashEach" => S \subseteq Live(lib),
           op = "restoreEach" => S \cap Live(lib) = {}
    PROVE  Turns(lib, n, h, Each(op, Found(lib, S), Root))
<1> DEFINE kids == Found(lib, S)
           l == Loop(op, kids, Root)
<1>1. h.id \in Nat
  BY FrameFields DEF TreeOps, AtOps
<1>2. Sure(lib, n, l) /\ Inherits(lib, h, l) /\ kids \subseteq Kid
  BY <1>1, LoopFound
<1>3. op \in EachOps \ {"copyEach"} /\ Root \in Nat
  BY DEF TreeLoops, EachOps, Root
<1>4. Debits(lib)[h] = 0
  BY DebitFacts DEF TreeOps, Toggles, CopyOps
<1> HIDE DEF kids, l
<1> DEFINE s == Each(op, kids, Root)
<1>5. s \in Seq(Costed(lib)) /\ In(s) \subseteq {l} /\ Tidy(lib, n, s) /\ Debt(lib, s) = 0
  BY <1>2, <1>3, EachFacts DEF l
<1> HIDE DEF s
<1>6. Turns(lib, n, h, s)
  BY <1>2, <1>4, <1>5 DEF Turns
<1> QED
  BY <1>6 DEF s, kids

LEMMA DeleteTreeTurns ==
    ASSUME NEW lib, NEW n, Sane(lib, n), NEW h \in Frame, h.op = "deleteChildren", Sure(lib, n, h)
    PROVE  Turns(lib, n, h, Each("deleteEach", Found(lib, Children(lib, h.id)), Root) \o <<At("remove", h.id)>>)
<1> DEFINE kids == Found(lib, Children(lib, h.id))
           l == Loop("deleteEach", kids, Root)
           a == Each("deleteEach", kids, Root)
           z == At("remove", h.id)
           b == <<z>>
<1>1. h.id \in Nat /\ h.id \in 0 .. (n - 1) /\ (h.id \in DOMAIN lib => IsFolder(lib[h.id]))
  BY FrameFields DEF AtOps, Sure, TreeOps
<1>2. Turns(lib, n, h, a)
  BY ListTurns DEF TreeOps, TreeLoops
<1>3. z.op = "remove" /\ z.id = h.id /\ z \in Costed(lib)
      /\ Debits(lib)[z] = IF h.id \in Live(lib) THEN Bytes(lib[h.id]) ELSE 0
  BY <1>1, DebitFacts DEF At
<1>4. Debits(lib)[z] = 0
  <2>1. h.id \in Live(lib) => h.id \in DOMAIN lib
    BY DEF Live
  <2> QED
    BY <1>1, <1>3, <2>1 DEF Bytes
<1>5. Debits(lib)[h] = 0
  BY DebitFacts DEF Toggles, CopyOps
<1>6. In(a) \subseteq {l} /\ l.op = "deleteEach"
  <2>1. In(<<l>>) = {l} /\ In(<<>>) = {}
    BY InSmall
  <2> QED
    BY <2>1 DEF Each, Loop
<1> HIDE DEF kids, l, a, z
<1>7. Tidy(lib, n, b) /\ In(b) = {z} /\ b \in Seq(Costed(lib)) /\ Debt(lib, b) = 0
  <2>1. Sure(lib, n, z)
    BY <1>1, <1>3 DEF Sure, TreeLoops, TreeOps, Toggles
  <2>2. Tidy(lib, n, b) /\ In(b) = {z}
    BY <2>1, TidySmall, InSmall
  <2>3. Debits(lib)[z] \in Int
    BY <1>4
  <2>4. Tally(Debits(lib), b) = Debits(lib)[z]
    BY <2>3, TallyOne
  <2> QED
    BY <1>3, <1>4, <2>2, <2>4 DEF Debt
<1>8. ~Heavy(lib, z)
  BY <1>1, <1>3 DEF Heavy
<1>9. \A f \in In(a) : \A g \in In(b) : Ahead(lib, f, g)
  <2>1. Ahead(lib, l, z)
    BY <1>3, <1>6, <1>8, AheadPlain DEF TreeOps, TreeLoops, Toggles, Early, Quits
  <2> QED
    BY <1>6, <1>7, <2>1
<1>10. Inherits(lib, h, z)
  <2>1. Region(lib, z) = {}
    BY <1>3, NoSources DEF TreeOps, TreeLoops
  <2>2. Sources(h) = {h.id}
    BY DEF Sources, TreeOps
  <2>3. h.id \in Region(lib, h)
    BY <2>2, SpanHolds DEF Region
  <2> QED
    BY <1>3, <2>1, <2>3 DEF Inherits, Early, Quits, Light
<1>11. \A f \in In(a) \cup In(b) : Inherits(lib, h, f)
  BY <1>2, <1>7, <1>10 DEF Turns
<1>12. Tidy(lib, n, a) /\ a \in Seq(Costed(lib)) /\ Debt(lib, a) = 0
  BY <1>2, <1>5 DEF Turns
<1> HIDE DEF b
<1>13. Debt(lib, a) + Debt(lib, b) = Debits(lib)[h]
  BY <1>5, <1>7, <1>12
<1>14. Turns(lib, n, h, a \o b)
  BY <1>7, <1>9, <1>11, <1>12, <1>13, TurnsConcat
<1> QED
  BY <1>14 DEF a, b, z, kids

\* The record of an upload.
LEMMA DedupTurns ==
    ASSUME NEW lib, NEW n, Sane(lib, n), NEW h \in Frame, h.op = "dedup", NEW m \in Nat, NEW send \in BOOLEAN
    PROVE  Turns(lib, n, h, <<Insert(NewDoc(h.content, m, h.to), send)>>)
<1> DEFINE x == Insert(NewDoc(h.content, m, h.to), send)
<1>1. h.content \in Contents /\ h.to \in Nat
  BY FrameFields
<1>2. x.op = "insert" /\ IsLive(x.doc) /\ x \in Frame
  <2>1. NewDoc(h.content, m, h.to) \in Doc
    BY <1>1 DEF NewDoc, Doc
  <2>2. x \in Frame
    <3> DEFINE d == NewDoc(h.content, m, h.to)
    <3> HIDE DEF d
    <3>1. Insert(d, send) \in Frame
      BY <2>1 DEF d, Insert, Frame
    <3> QED
      BY <3>1 DEF d
  <2> QED
    BY <2>2 DEF Insert, NewDoc, IsLive
<1>3. Debits(lib)[x] = 0 /\ x \in Costed(lib) /\ Debits(lib)[h] = 0
  BY <1>2, DebitFacts DEF Toggles, CopyOps
<1> HIDE DEF x
<1>4. Sure(lib, n, x)
  BY <1>2 DEF Sure, TreeLoops, TreeOps, Toggles
<1>5. Inherits(lib, h, x)
  <2>1. Region(lib, x) = {}
    BY <1>2, NoSources DEF TreeOps, TreeLoops
  <2> QED
    BY <1>2, <2>1 DEF Inherits, Toggles, Early, Quits, Light
<1> QED
  BY <1>3, <1>4, <1>5, TurnsOne DEF x

\* A document's calls, and then what is left of the loop.
LEMMA TakesTurns ==
    ASSUME NEW lib, NEW n, Sane(lib, n), NEW l \in Frame, l.op \in TreeLoops, Sure(lib, n, l), NEW k \in l.kids,
           NEW a \in Seq(Costed(lib)), Tidy(lib, n, a), Debt(lib, a) = 0,
           \A f \in In(a) : /\ f.op \in TreeOps \cup Toggles => f.id = k.id
                            /\ f.op \in TreeOps \cup Toggles \cup {"add", "countRefs"}
    PROVE  Turns(lib, n, l, a \o Each(l.op, l.kids \ {k}, l.to))
<1> DEFINE rest == l.kids \ {k}
           m == Loop(l.op, rest, l.to)
           b == Each(l.op, rest, l.to)
<1>1. l.kids \subseteq Kid /\ l.to \in Nat /\ l.op \in EachOps \ {"copyEach"}
  BY FrameFields DEF TreeLoops, EachOps
<1>2. /\ Sure(lib, n, m) /\ Inherits(lib, l, m) /\ k.id \in Region(lib, l) /\ k.id \notin Region(lib, m)
      /\ \A f : Sources(f) = {k.id} =>
           Region(lib, f) \subseteq Region(lib, l) /\ Region(lib, f) \cap Region(lib, m) = {}
  BY LoopTakes
<1>3. m.op = l.op
  BY DEF Loop
<1>4. rest \subseteq Kid
  BY <1>1
<1> HIDE DEF rest
<1>5. b \in Seq(Costed(lib)) /\ In(b) \subseteq {m} /\ Tidy(lib, n, b) /\ Debt(lib, b) = 0
  BY <1>1, <1>2, <1>4, EachFacts
<1>6. Debits(lib)[l] = 0
  BY DebitFacts DEF TreeLoops, Toggles, CopyOps
<1> HIDE DEF m, b
<1>7. ASSUME NEW f \in In(a) PROVE Ahead(lib, f, m) /\ Inherits(lib, l, f)
  <2>1. /\ f.op \in TreeOps \cup Toggles => f.id = k.id
        /\ f.op \in TreeOps \cup Toggles \cup {"add", "countRefs"}
    OBVIOUS
  <2>2. f.op \notin Early /\ f.op \notin TreeLoops
    BY <2>1 DEF TreeOps, Toggles, Early, Quits, TreeLoops
  <2>3. ~Heavy(lib, m)
    BY <1>3 DEF Heavy, Toggles, TreeLoops
  <2>4. Region(lib, f) \subseteq Region(lib, l) /\ Region(lib, f) \cap Region(lib, m) = {}
    <3>1. CASE f.op \in TreeOps
      <4>1. Sources(f) = {k.id}
        BY <2>1, <3>1 DEF Sources
      <4> QED
        BY <1>2, <4>1
    <3>2. CASE f.op \notin TreeOps
      BY <2>2, <3>2, NoSources
    <3> QED
      BY <3>1, <3>2
  <2>5. f.op \in Toggles => f.id \in Region(lib, l) /\ f.id \notin Region(lib, m)
    BY <1>2, <2>1
  <2>6. l.op \notin Light
    BY DEF Light, TreeLoops
  <2> QED
    BY <2>2, <2>3, <2>4, <2>5, <2>6 DEF Ahead, Inherits
<1>8. \A f \in In(a) : \A g \in In(b) : Ahead(lib, f, g)
  BY <1>5, <1>7
<1>9. \A f \in In(a) \cup In(b) : Inherits(lib, l, f)
  BY <1>2, <1>5, <1>7
<1>10. Debt(lib, a) + Debt(lib, b) = Debits(lib)[l]
  BY <1>5, <1>6
<1>11. Turns(lib, n, l, a \o b)
  BY <1>5, <1>8, <1>9, <1>10, TurnsConcat
<1> QED
  BY <1>11 DEF b, rest

\* The two calls of an iteration of trashEach and of restoreEach.
LEMMA PairTakes ==
    ASSUME NEW lib, NEW n, Sane(lib, n), NEW i \in 1 .. (n - 1), NEW d \in Doc, Kept(lib, i, d), NEW a,
           \/ /\ IsLive(lib[i])
              /\ a = <<IF IsFolder(d) THEN At("trashChildren", i) ELSE Add(-Bytes(d)), At("mark", i)>>
           \/ /\ ~IsLive(lib[i])
              /\ a = <<IF IsFolder(d) THEN At("restoreChildren", i) ELSE Add(Bytes(d)), At("unmark", i)>>
    PROVE  /\ a \in Seq(Costed(lib)) /\ Tidy(lib, n, a) /\ Debt(lib, a) = 0
           /\ \A f \in In(a) : /\ f.op \in TreeOps \cup Toggles => f.id = i
                               /\ f.op \in TreeOps \cup Toggles \cup {"add", "countRefs"}
<1>0. PICK tree, toggle, b :
        /\ \/ tree = "trashChildren" /\ toggle = "mark" /\ IsLive(lib[i]) /\ b = - Bytes(d)
           \/ tree = "restoreChildren" /\ toggle = "unmark" /\ ~IsLive(lib[i]) /\ b = Bytes(d)
        /\ a = <<IF IsFolder(d) THEN At(tree, i) ELSE Add(b), At(toggle, i)>>
  OBVIOUS
<1> DEFINE x == At(tree, i)
           y == At(toggle, i)
           z == Add(b)
<1>1. i \in Nat /\ i \in 0 .. (n - 1) /\ Bytes(d) \in Nat /\ i \in DOMAIN lib
  BY BytesNat DEF Sane, Kept
<1>2. Bytes(lib[i]) = Bytes(d) /\ (IsFolder(lib[i]) <=> IsFolder(d))
  BY DEF Kept, Bytes, IsFolder
<1>3. b \in Int /\ b + (IF toggle = "mark" THEN Bytes(d) ELSE - Bytes(d)) = 0
  BY <1>0, <1>1
<1>4. tree \in TreeOps /\ tree \in AtOps /\ toggle \in {"mark", "unmark"}
  BY <1>0 DEF TreeOps, AtOps
<1>5. x.op = tree /\ x.id = i /\ y.op = toggle /\ y.id = i /\ z.op = "add" /\ x \in Frame
  BY <1>1, <1>4 DEF At, Add, Frame
<1>6. Debits(lib)[x] = 0 /\ x \in Costed(lib)
  BY <1>4, <1>5, DebitFacts DEF TreeOps, Toggles, CopyOps
<1>7. Debits(lib)[z] = b /\ z \in Costed(lib)
  BY <1>3, DebitFacts
<1>8. Debits(lib)[y] = (IF toggle = "mark" THEN Bytes(d) ELSE - Bytes(d)) /\ y \in Costed(lib)
  <2>1. CASE toggle = "mark"
    <3>1. i \in Live(lib)
      BY <1>0, <1>1, <2>1 DEF Live
    <3> QED
      BY <1>1, <1>2, <2>1, <3>1, DebitFacts
  <2>2. CASE toggle = "unmark"
    <3>1. i \in DOMAIN lib \ Live(lib)
      BY <1>0, <1>1, <2>2 DEF Live
    <3> QED
      BY <1>1, <1>2, <2>2, <3>1, DebitFacts
  <2> QED
    BY <1>4, <2>1, <2>2
<1> HIDE DEF x, y, z
<1>9. Sure(lib, n, y) /\ Sure(lib, n, z) /\ (IsFolder(d) => Sure(lib, n, x))
  BY <1>1, <1>2, <1>4, <1>5 DEF Sure, TreeLoops, TreeOps, Toggles
<1>10. Ahead(lib, z, y)
  BY <1>4, <1>5, AheadPlain DEF TreeOps, TreeLoops, Toggles, Early, Quits, Light
<1>11. IsFolder(d) => Ahead(lib, x, y) /\ Bytes(d) = 0
  <2>1. IsFolder(d) => ~Heavy(lib, y)
    BY <1>2, <1>5 DEF Heavy
  <2> QED
    BY <1>4, <1>5, <2>1, AheadPlain DEF TreeOps, TreeLoops, Toggles, Early, Quits, Bytes
<1> DEFINE u == IF IsFolder(d) THEN x ELSE z
<1>12. /\ u \in Costed(lib) /\ Sure(lib, n, u) /\ Ahead(lib, u, y)
       /\ Debits(lib)[u] + Debits(lib)[y] = 0
  <2>1. CASE IsFolder(d)
    BY <1>6, <1>8, <1>9, <1>11, <2>1
  <2>2. CASE ~IsFolder(d)
    BY <1>3, <1>7, <1>8, <1>9, <1>10, <2>2
  <2> QED
    BY <2>1, <2>2
<1>13. /\ u.op \in TreeOps \cup Toggles => u.id = i
       /\ u.op \in TreeOps \cup Toggles \cup {"add", "countRefs"}
  BY <1>4, <1>5 DEF TreeOps, Toggles
<1>14. y.op \in Toggles
  BY <1>4, <1>5 DEF Toggles
<1>15. a = <<u, y>>
  BY <1>0 DEF u, x, y, z
<1> HIDE DEF u
<1>16. Tidy(lib, n, a) /\ In(a) = {u, y}
  <2>1. Tidy(lib, n, <<u, y>>) /\ In(<<u, y>>) = {u, y}
    BY <1>9, <1>12, TidySmall, InSmall
  <2> QED
    BY <1>15, <2>1
<1>17. a \in Seq(Costed(lib))
  BY <1>8, <1>12, <1>15, Pair
<1>18. Debt(lib, a) = 0
  <2>1. Debits(lib)[u] \in Int /\ Debits(lib)[y] \in Int
    BY <1>8, <1>12 DEF Costed
  <2>2. Tally(Debits(lib), <<u, y>>) = Debits(lib)[u] + Debits(lib)[y]
    BY <2>1, TallyPair
  <2> QED
    BY <1>12, <1>15, <2>2 DEF Debt
<1> QED
  BY <1>5, <1>13, <1>14, <1>16, <1>17, <1>18

LEMMA LoopTurns ==
    ASSUME NEW lib, NEW n, Sane(lib, n), NEW l \in Frame, l.op \in TreeLoops, Sure(lib, n, l), NEW k \in l.kids
    PROVE  Turns(lib, n, l, Iteration(l.op, k, l.to) \o Each(l.op, l.kids \ {k}, l.to))
<1> DEFINE a == Iteration(l.op, k, l.to)
<1>1. /\ k \in Kid /\ k.id \in 1 .. (n - 1) /\ Kept(lib, k.id, k.doc)
      /\ IsLive(lib[k.id]) <=> IsLive(k.doc)
      /\ l.op = "trashEach" => IsLive(k.doc)
      /\ l.op = "restoreEach" => ~IsLive(k.doc)
  BY LoopTakes
<1>2. k.doc \in Doc /\ k.id \in Nat
  BY <1>1 DEF Kid
<1> SUFFICES /\ a \in Seq(Costed(lib)) /\ Tidy(lib, n, a) /\ Debt(lib, a) = 0
             /\ \A f \in In(a) : /\ f.op \in TreeOps \cup Toggles => f.id = k.id
                                 /\ f.op \in TreeOps \cup Toggles \cup {"add", "countRefs"}
  BY TakesTurns
<1>3. CASE l.op = "trashEach"
  <2>1. a = <<IF IsFolder(k.doc) THEN At("trashChildren", k.id) ELSE Add(-Bytes(k.doc)), At("mark", k.id)>>
    BY <1>3 DEF Iteration
  <2> HIDE DEF a
  <2>2. \/ /\ IsLive(lib[k.id])
           /\ a = <<IF IsFolder(k.doc) THEN At("trashChildren", k.id) ELSE Add(-Bytes(k.doc)), At("mark", k.id)>>
        \/ /\ ~IsLive(lib[k.id])
           /\ a = <<IF IsFolder(k.doc) THEN At("restoreChildren", k.id) ELSE Add(Bytes(k.doc)), At("unmark", k.id)>>
    BY <1>1, <1>3, <2>1
  <2>3. k.id \in 1 .. (n - 1) /\ k.doc \in Doc /\ Kept(lib, k.id, k.doc)
    BY <1>1, <1>2
  <2> QED
    BY <2>2, <2>3, PairTakes
<1>4. CASE l.op = "restoreEach"
  <2>1. a = <<IF IsFolder(k.doc) THEN At("restoreChildren", k.id) ELSE Add(Bytes(k.doc)), At("unmark", k.id)>>
    BY <1>4 DEF Iteration
  <2> HIDE DEF a
  <2>2. \/ /\ IsLive(lib[k.id])
           /\ a = <<IF IsFolder(k.doc) THEN At("trashChildren", k.id) ELSE Add(-Bytes(k.doc)), At("mark", k.id)>>
        \/ /\ ~IsLive(lib[k.id])
           /\ a = <<IF IsFolder(k.doc) THEN At("restoreChildren", k.id) ELSE Add(Bytes(k.doc)), At("unmark", k.id)>>
    BY <1>1, <1>4, <2>1
  <2>3. k.id \in 1 .. (n - 1) /\ k.doc \in Doc /\ Kept(lib, k.id, k.doc)
    BY <1>1, <1>2
  <2> QED
    BY <2>2, <2>3, PairTakes
<1>5. CASE l.op = "deleteEach"
  <2>1. a = IF IsFolder(k.doc) THEN <<At("deleteChildren", k.id)>> ELSE DeleteFile(k.id, k.doc)
    BY <1>5 DEF Iteration
  <2> HIDE DEF a
  <2>2. CASE IsFolder(k.doc)
    <3> DEFINE x == At("deleteChildren", k.id)
    <3>1. x \in Frame /\ x.op = "deleteChildren" /\ x.id = k.id /\ k.id \in 0 .. (n - 1)
      BY <1>1, <1>2 DEF At, Frame, AtOps, Sane
    <3>2. IsFolder(lib[k.id])
      BY <1>1, <2>2 DEF Kept, IsFolder
    <3>3. Debits(lib)[x] = 0 /\ x \in Costed(lib)
      BY <3>1, DebitFacts DEF Toggles, CopyOps
    <3> HIDE DEF x
    <3>4. Sure(lib, n, x)
      BY <3>1, <3>2 DEF Sure, TreeLoops, TreeOps, Toggles
    <3>5. Tidy(lib, n, <<x>>) /\ In(<<x>>) = {x}
      BY <3>4, TidySmall, InSmall
    <3>6. Tally(Debits(lib), <<x>>) = 0
      BY <3>3, TallyOne
    <3>7. <<x>> \in Seq(Costed(lib))
      BY <3>3
    <3>8. a = <<x>>
      BY <2>1, <2>2 DEF x
    <3>9. x.op \in TreeOps
      BY <3>1 DEF TreeOps
    <3> QED
      BY <3>1, <3>5, <3>6, <3>7, <3>8, <3>9 DEF Debt
  <2>3. CASE ~IsFolder(k.doc)
    <3>1. a = DeleteFile(k.id, k.doc)
      BY <2>1, <2>3
    <3>2. /\ Tidy(lib, n, DeleteFile(k.id, k.doc)) /\ In(DeleteFile(k.id, k.doc)) \subseteq FileFrames(k.id, k.doc)
          /\ DeleteFile(k.id, k.doc) \in Seq(Costed(lib)) /\ Debt(lib, DeleteFile(k.id, k.doc)) = 0
      BY <1>1, <1>2, <2>3, DeleteFileTurns
    <3>3. \A f \in FileFrames(k.id, k.doc) :
             /\ f.op \in TreeOps \cup Toggles => f.id = k.id
             /\ f.op \in TreeOps \cup Toggles \cup {"add", "countRefs"}
      BY DEF FileFrames, Add, At, About, TreeOps, Toggles
    <3> QED
      BY <3>1, <3>2, <3>3
  <2> QED
    BY <2>2, <2>3
<1> QED
  BY <1>3, <1>4, <1>5 DEF TreeLoops

(***************************************************************************)
(* What a change of the library leaves of a process's calls.               *)
(***************************************************************************)
LEMMA NegZero == \A b \in Int : b = 0 => - b = 0
<1>1. \A b \in Int : - b = 0 - b
  OBVIOUS
<1>2. \A b \in Int : b = 0 => 0 - b = 0
  OBVIOUS
<1> QED
  BY <1>1, <1>2

LEMMA AllCosted ==
    ASSUME NEW lib, NEW n, Sane(lib, n)
    PROVE  /\ \A S : SubBytes(lib, S) \in Nat
           /\ \A f \in Frame : Debits(lib)[f] \in Int
           /\ \A s \in Seq(Frame) : s \in Seq(Costed(lib)) /\ Debt(lib, s) \in Int
<1>1. ASSUME NEW S PROVE SubBytes(lib, S) \in Nat
  <2> DEFINE T == Span(lib, Live(lib), S) \cap Live(lib)
  <2>1. IsFiniteSet(T) /\ T \subseteq DOMAIN lib
    <3>1. T \subseteq Live(lib) /\ IsFiniteSet(Live(lib)) /\ Live(lib) \subseteq DOMAIN lib
      BY SaneFacts
    <3> QED
      BY <3>1, FS_Subset
  <2> HIDE DEF T
  <2>2. \A x \in T : Weights(lib)[x] \in Nat
    BY <2>1, SaneFacts
  <2>3. SumOf(Weights(lib), T) \in Nat
    BY <2>1, <2>2, SumNat
  <2> QED
    BY <2>3 DEF SubBytes, T
<1>2. \A b \in Nat : - b \in Int
  OBVIOUS
<1>3. ASSUME NEW f \in Frame PROVE Debits(lib)[f] \in Int
  <2>1. CASE f.op \notin CopyOps
    BY <2>1, DebitFacts DEF Costed
  <2>2. CASE f.op \in CopyOps
    <3>1. \E S : Debits(lib)[f] = - SubBytes(lib, S)
      BY <2>2 DEF Debits, CopyOps
    <3> QED
      BY <1>1, <1>2, <3>1
  <2> QED
    BY <2>1, <2>2
<1>4. Costed(lib) = Frame
  BY <1>3 DEF Costed
<1>5. ASSUME NEW s \in Seq(Frame) PROVE s \in Seq(Costed(lib)) /\ Debt(lib, s) \in Int
  <2>1. Tally(Debits(lib), s) \in Int
    BY <1>3, TallyIs
  <2> QED
    BY <1>4, <2>1 DEF Debt
<1> QED
  BY <1>1, <1>3, <1>5

\* What a change of the library from lib to lib2 leaves of the calls in s.
Shifts(lib, n, lib2, n2, s) ==
    /\ \A g \in In(s) : Sure(lib2, n2, g) /\ Debits(lib2)[g] = Debits(lib)[g]
    /\ \A f, g \in In(s) : Ahead(lib, f, g) => Ahead(lib2, f, g)

LEMMA ShiftTidy ==
    ASSUME NEW lib, NEW n, Sane(lib, n), NEW lib2, NEW n2, NEW s \in Seq(Frame), Tidy(lib, n, s),
           Shifts(lib, n, lib2, n2, s)
    PROVE  Tidy(lib2, n2, s) /\ Debt(lib2, s) = Debt(lib, s)
<1>1. \A a \in 1 .. Len(s) : s[a] \in In(s)
  BY DEF In
<1>2. Tidy(lib2, n2, s)
  BY <1>1 DEF Tidy, Shifts
<1>3. \A k \in 1 .. Len(s) : Debits(lib2)[s[k]] = Debits(lib)[s[k]]
  BY <1>1 DEF Shifts
<1>4. Tally(Debits(lib2), s) = Tally(Debits(lib), s)
  <2>1. \A f \in Frame : Debits(lib)[f] \in Int
    BY AllCosted
  <2> QED
    BY <1>3, <2>1, TallyEqual
<1> QED
  BY <1>2, <1>4 DEF Debt

\* The calls that do not depend on the library.
Loose(f) == f.op \notin TreeOps \cup TreeLoops \cup Toggles \cup CopyOps \cup {"restoreCheck"}

LEMMA LooseFacts ==
    ASSUME NEW lib, NEW n, NEW lib2, NEW n2, NEW f \in Frame, Loose(f), Sure(lib, n, f)
    PROVE  /\ Sure(lib2, n2, f) /\ Debits(lib2)[f] = Debits(lib)[f]
           /\ Region(lib, f) = {} /\ Region(lib2, f) = {} /\ ~Heavy(lib, f) /\ ~Heavy(lib2, f)
<1>1. f.op \notin TreeOps /\ f.op \notin TreeLoops /\ f.op \notin Toggles /\ f.op \notin CopyOps /\ f.op # "restoreCheck"
  BY DEF Loose
<1>2. Region(lib, f) = {} /\ Region(lib2, f) = {} /\ ~Heavy(lib, f) /\ ~Heavy(lib2, f)
  BY <1>1, NoSources DEF Heavy
<1>3. Sure(lib2, n2, f)
  BY <1>1 DEF Sure, TreeLoops
<1>4. Debits(lib2)[f] = Debits(lib)[f]
  BY <1>1 DEF Debits, Toggles, CopyOps
<1> QED
  BY <1>2, <1>3, <1>4

\* Where nothing depends on the library, every change leaves all.
LEMMA ShiftLoose ==
    ASSUME NEW lib, NEW n, NEW lib2, NEW n2, NEW s \in Seq(Frame),
           \A g \in In(s) : Loose(g) /\ Sure(lib, n, g)
    PROVE  Shifts(lib, n, lib2, n2, s)
<1>1. \A g \in In(s) : g \in Frame
  BY InSeq
<1>2. \A g \in In(s) : /\ Sure(lib2, n2, g) /\ Debits(lib2)[g] = Debits(lib)[g]
                       /\ Region(lib, g) = {} /\ Region(lib2, g) = {} /\ ~Heavy(lib, g) /\ ~Heavy(lib2, g)
  BY <1>1, LooseFacts
<1>3. \A f, g \in In(s) : Ahead(lib, f, g) => Ahead(lib2, f, g)
  BY <1>2 DEF Ahead
<1> QED
  BY <1>2, <1>3 DEF Shifts

LEMMA SureSources ==
    ASSUME NEW lib, NEW n, Sane(lib, n), NEW f \in Frame, Sure(lib, n, f)
    PROVE  /\ Sources(f) \subseteq 0 .. (n - 1)
           /\ f.op \in Toggles => f.id \in 0 .. (n - 1)
           /\ Region(lib, f) \subseteq 0 .. (n - 1)
<1>1. DOMAIN lib \subseteq 0 .. (n - 1)
  BY DEF Sane
<1>2. f.op \in TreeLoops => IdsOf(f.kids) \subseteq DOMAIN lib
  BY DEF Sure, Fresh, Kept, IdsOf
<1>3. Sources(f) \subseteq 0 .. (n - 1)
  BY <1>1, <1>2 DEF Sources, Sure
<1>4. f.op \in Toggles => f.id \in 0 .. (n - 1)
  BY DEF Sure
<1>5. Region(lib, f) \subseteq Sources(f) \cup DOMAIN lib
  BY SpanHolds DEF Region
<1> QED
  BY <1>1, <1>3, <1>4, <1>5

\* A new document.
LEMMA ShiftInsert ==
    ASSUME NEW lib, NEW n, Sane(lib, n), NEW lib2, Sane(lib2, n + 1),
           DOMAIN lib2 = DOMAIN lib \cup {n}, \A j \in DOMAIN lib : lib2[j] = lib[j],
           NEW s \in Seq(Frame), \A g \in In(s) : Sure(lib, n, g) /\ g.op \notin CopyOps
    PROVE  Shifts(lib, n, lib2, n + 1, s)
<1> DEFINE K == DOMAIN lib
           d == lib2[n]
<1>1. n \notin K /\ n \in Nat /\ n \notin 0 .. (n - 1) /\ 0 .. (n - 1) \subseteq 0 .. ((n + 1) - 1)
  BY DEF Sane
<1>2. \A g \in In(s) : g \in Frame
  BY InSeq
<1>3. d.parent # n
  <2> SUFFICES ASSUME d.parent = n PROVE FALSE
    OBVIOUS
  <2>1. {n} \in SUBSET DOMAIN lib2 /\ {n} # {}
    OBVIOUS
  <2>2. \E i \in {n} : lib2[i].parent \notin {n}
    BY <2>1 DEF Sane, Acyclic
  <2> QED
    BY <2>2
<1>4. \A j \in K : lib2[j].parent = lib[j].parent /\ lib[j].parent # n
  <2>1. \A j \in K : lib[j].parent \in 0 .. (n - 1)
    BY DEF Sane
  <2> QED
    BY <1>1, <2>1
<1>5. ASSUME NEW g \in In(s)
      PROVE  /\ Region(lib2, g) \subseteq Region(lib, g) \cup {n}
             /\ n \in Region(lib2, g) => d.parent \in Region(lib, g)
             /\ Region(lib, g) \subseteq 0 .. (n - 1)
             /\ g.op \in Toggles => g.id \in 0 .. (n - 1)
  <2>1. /\ Sources(g) \subseteq 0 .. (n - 1)
        /\ g.op \in Toggles => g.id \in 0 .. (n - 1)
        /\ Region(lib, g) \subseteq 0 .. (n - 1)
    BY <1>2, SureSources
  <2>2. n \notin Sources(g) \cup K
    BY <1>1, <2>1
  <2>3. /\ Span(lib2, K \cup {n}, Sources(g)) \subseteq Span(lib, K, Sources(g)) \cup {n}
        /\ n \in Span(lib2, K \cup {n}, Sources(g)) => d.parent \in Span(lib, K, Sources(g))
    BY <1>3, <1>4, <2>2, SpanInsert
  <2> QED
    BY <2>1, <2>3 DEF Region
<1>6. ASSUME NEW g \in In(s) PROVE Sure(lib2, n + 1, g)
  <2>1. Sure(lib, n, g)
    OBVIOUS
  <2>2. g.op \in TreeLoops => Fresh(lib2, g.kids)
    BY <2>1 DEF Sure, Fresh, Kept
  <2>3. g.op \in TreeOps => (g.id \in DOMAIN lib2 => IsFolder(lib2[g.id]))
    BY <1>1, <2>1 DEF Sure
  <2>4. g.op = "restoreCheck" => Kept(lib2, g.id, g.doc)
    BY <2>1 DEF Sure, Kept
  <2>5. g.op \in TreeOps \cup Toggles => g.id \in 0 .. ((n + 1) - 1)
    BY <1>1, <2>1 DEF Sure
  <2> QED
    BY <2>1, <2>2, <2>3, <2>4, <2>5 DEF Sure
<1>7. ASSUME NEW g \in In(s) PROVE Heavy(lib2, g) <=> Heavy(lib, g)
  BY <1>1, <1>5 DEF Heavy
<1>8. ASSUME NEW g \in In(s) PROVE Debits(lib2)[g] = Debits(lib)[g]
  <2>1. \A i \in 0 .. (n - 1) : /\ i \in Live(lib2) <=> i \in Live(lib)
                                /\ i \in DOMAIN lib2 <=> i \in DOMAIN lib
                                /\ i \in DOMAIN lib => lib2[i] = lib[i]
    BY <1>1 DEF Live
  <2>2. g.op \in Toggles => /\ g.id \in Live(lib2) <=> g.id \in Live(lib)
                            /\ g.id \in DOMAIN lib2 <=> g.id \in DOMAIN lib
                            /\ g.id \in DOMAIN lib => lib2[g.id] = lib[g.id]
    BY <1>5, <2>1
  <2>3. Live(lib) \subseteq DOMAIN lib
    BY DEF Live
  <2> QED
    BY <1>2, <2>2, <2>3 DEF Debits, Toggles, CopyOps
<1>9. ASSUME NEW f \in In(s), NEW g \in In(s), Ahead(lib, f, g) PROVE Ahead(lib2, f, g)
  <2>1. Region(lib2, f) \cap Region(lib2, g) = {}
    BY <1>1, <1>5, <1>9 DEF Ahead
  <2>2. f.op \in Toggles /\ g.op \in TreeLoops => f.id \notin Region(lib2, g)
    BY <1>1, <1>5, <1>9 DEF Ahead
  <2> QED
    BY <1>7, <1>9, <2>1, <2>2 DEF Ahead
<1> QED
  BY <1>6, <1>8, <1>9 DEF Shifts

\* A document is changed, but is what it was and lies where it was.
LEMMA ShiftChange ==
    ASSUME NEW lib, NEW n, Sane(lib, n), NEW lib2, DOMAIN lib2 = DOMAIN lib, NEW i,
           \A j \in DOMAIN lib : lib2[j].parent = lib[j].parent /\ lib2[j].kind = lib[j].kind,
           \A j \in DOMAIN lib \ {i} : lib2[j].trash = lib[j].trash,
           NEW s \in Seq(Frame), \A g \in In(s) : Sure(lib, n, g) /\ g.op \notin CopyOps,
           \/ \A j \in DOMAIN lib : lib2[j].trash = lib[j].trash
           \/ \E h : h.op \in Toggles /\ h.id = i /\ \A g \in In(s) : Ahead(lib, h, g)
    PROVE  Shifts(lib, n, lib2, n, s)
<1>1. \A g : Region(lib2, g) = Region(lib, g)
  BY SpanSame DEF Region
<1>2. \A g : Heavy(lib2, g) <=> Heavy(lib, g)
  BY DEF Heavy, IsFolder
<1>3. \A f, g : Ahead(lib, f, g) => Ahead(lib2, f, g)
  BY <1>1, <1>2 DEF Ahead
<1>4. \A j \in DOMAIN lib : Bytes(lib2[j]) = Bytes(lib[j]) /\ (IsFolder(lib2[j]) <=> IsFolder(lib[j]))
  BY DEF Bytes, IsFolder
<1>5. ASSUME NEW g \in In(s), NEW x \in DOMAIN lib,
             \/ g.op \in TreeLoops /\ x \in IdsOf(g.kids)
             \/ g.op \in Toggles /\ x = g.id /\ ~IsFolder(lib[x])
      PROVE  IsLive(lib2[x]) <=> IsLive(lib[x])
  <2>1. CASE \A j \in DOMAIN lib : lib2[j].trash = lib[j].trash
    BY <2>1 DEF IsLive
  <2>2. CASE \E h : h.op \in Toggles /\ h.id = i /\ \A f \in In(s) : Ahead(lib, h, f)
    <3>1. PICK h : h.op \in Toggles /\ h.id = i /\ \A f \in In(s) : Ahead(lib, h, f)
      BY <2>2
    <3>2. Ahead(lib, h, g)
      BY <3>1
    <3>3. x # i
      <4>1. CASE g.op \in TreeLoops /\ x \in IdsOf(g.kids)
        <5>1. Sources(g) = IdsOf(g.kids)
          BY <4>1 DEF Sources, TreeOps, TreeLoops
        <5>2. x \in Region(lib, g)
          BY <4>1, <5>1, SpanHolds DEF Region
        <5> QED
          BY <3>1, <3>2, <4>1, <5>2 DEF Ahead
      <4>2. CASE g.op \in Toggles /\ x = g.id /\ ~IsFolder(lib[x])
        <5>1. Heavy(lib, g)
          BY <4>2 DEF Heavy
        <5>2. h.op \in Light
          BY <3>2, <5>1 DEF Ahead
        <5> QED
          BY <3>1, <5>2 DEF Light, Toggles
      <4> QED
        BY <1>5, <4>1, <4>2
    <3> QED
      BY <3>3 DEF IsLive
  <2> QED
    BY <2>1, <2>2
<1>6. ASSUME NEW g \in In(s) PROVE Sure(lib2, n, g)
  <2>1. Sure(lib, n, g)
    OBVIOUS
  <2>2. g.op \in TreeLoops => Fresh(lib2, g.kids)
    <3>1. HAVE g.op \in TreeLoops
    <3>2. Fresh(lib, g.kids)
      BY <2>1, <3>1 DEF Sure
    <3>3. \A k \in g.kids : k.id \in DOMAIN lib /\ k.id \in IdsOf(g.kids)
      BY <3>2 DEF Fresh, Kept, IdsOf
    <3>4. \A k \in g.kids : IsLive(lib2[k.id]) <=> IsLive(lib[k.id])
      BY <1>5, <3>1, <3>3
    <3> QED
      BY <3>2, <3>3, <3>4 DEF Fresh, Kept
  <2>3. g.op \in TreeOps => (g.id \in DOMAIN lib2 => IsFolder(lib2[g.id]))
    BY <1>4, <2>1 DEF Sure
  <2>4. g.op = "restoreCheck" => Kept(lib2, g.id, g.doc)
    BY <2>1 DEF Sure, Kept
  <2> QED
    BY <2>1, <2>2, <2>3, <2>4 DEF Sure
<1>7. ASSUME NEW g \in In(s) PROVE Debits(lib2)[g] = Debits(lib)[g]
  <2>0. g \in Frame
    BY InSeq
  <2>1. CASE g.op \notin Toggles
    BY <2>0, <2>1 DEF Debits, Toggles, CopyOps
  <2>2. CASE g.op \in Toggles /\ g.id \in DOMAIN lib /\ ~IsFolder(lib[g.id])
    <3>1. IsLive(lib2[g.id]) <=> IsLive(lib[g.id])
      BY <1>5, <2>2
    <3>2. (g.id \in Live(lib2) <=> g.id \in Live(lib)) /\ Bytes(lib2[g.id]) = Bytes(lib[g.id])
      BY <1>4, <2>2, <3>1 DEF Live
    <3> QED
      BY <2>0, <2>2, <3>2 DEF Debits, Toggles, CopyOps
  <2>3. CASE g.op \in Toggles /\ g.id \in DOMAIN lib /\ IsFolder(lib[g.id])
    <3>1. Bytes(lib[g.id]) = 0 /\ Bytes(lib2[g.id]) = 0
      BY <1>4, <2>3 DEF Bytes
    <3>2. \A b \in Int : b = 0 => - b = 0
      BY NegZero
    <3> QED
      BY <2>0, <2>3, <3>1, <3>2 DEF Debits, Toggles
  <2>4. CASE g.op \in Toggles /\ g.id \notin DOMAIN lib
    BY <2>0, <2>4 DEF Debits, Toggles, Live
  <2> QED
    BY <2>1, <2>2, <2>3, <2>4
<1> QED
  BY <1>3, <1>6, <1>7 DEF Shifts

\* A document is gone.
LEMMA ShiftRemove ==
    ASSUME NEW lib, NEW n, Sane(lib, n), NEW lib2, NEW i,
           DOMAIN lib2 = DOMAIN lib \ {i}, \A j \in DOMAIN lib2 : lib2[j] = lib[j],
           NEW h, h.op = "remove", h.id = i,
           NEW s \in Seq(Frame),
           \A g \in In(s) : Sure(lib, n, g) /\ g.op \notin CopyOps \cup {"restoreCheck"} /\ Ahead(lib, h, g)
    PROVE  Shifts(lib, n, lib2, n, s)
<1>1. \A g : Region(lib2, g) \subseteq Region(lib, g)
  <2> TAKE g
  <2>1. Sources(g) \subseteq Span(lib, DOMAIN lib, Sources(g))
    BY SpanHolds
  <2>2. Span(lib2, DOMAIN lib2, Sources(g)) \subseteq Span(lib, DOMAIN lib, Sources(g))
    BY <2>1, SpanMonotone
  <2> QED
    BY <2>2 DEF Region
<1>2. \A g : Heavy(lib2, g) => Heavy(lib, g)
  BY DEF Heavy
<1>3. \A f, g : Ahead(lib, f, g) => Ahead(lib2, f, g)
  BY <1>1, <1>2 DEF Ahead
<1>4. ASSUME NEW g \in In(s) PROVE Sure(lib2, n, g)
  <2>1. Sure(lib, n, g) /\ Ahead(lib, h, g) /\ g.op # "restoreCheck"
    OBVIOUS
  <2>2. g.op \in TreeLoops => Fresh(lib2, g.kids)
    <3>1. HAVE g.op \in TreeLoops
    <3>2. Fresh(lib, g.kids)
      BY <2>1, <3>1 DEF Sure
    <3>3. Sources(g) = IdsOf(g.kids)
      BY <3>1 DEF Sources, TreeOps, TreeLoops
    <3>4. i \notin IdsOf(g.kids)
      <4>1. IdsOf(g.kids) \subseteq Region(lib, g)
        BY <3>3, SpanHolds DEF Region
      <4> QED
        BY <2>1, <3>1, <4>1 DEF Ahead, Toggles
    <3>5. \A k \in g.kids : k.id \in DOMAIN lib2 /\ lib2[k.id] = lib[k.id]
      BY <3>2, <3>4 DEF Fresh, Kept, IdsOf
    <3> QED
      BY <3>2, <3>5 DEF Fresh, Kept
  <2>3. g.op \in TreeOps => (g.id \in DOMAIN lib2 => IsFolder(lib2[g.id]))
    BY <2>1 DEF Sure
  <2> QED
    BY <2>1, <2>2, <2>3 DEF Sure
<1>5. ASSUME NEW g \in In(s) PROVE Debits(lib2)[g] = Debits(lib)[g]
  <2>0. g \in Frame /\ Ahead(lib, h, g)
    BY InSeq
  <2>1. CASE g.op \notin Toggles
    BY <2>0, <2>1 DEF Debits, Toggles, CopyOps
  <2>2. CASE g.op \in Toggles /\ g.id = i
    <3>1. i \in DOMAIN lib => IsFolder(lib[i])
      <4>1. ~Heavy(lib, g)
        BY <2>0 DEF Ahead, Light
      <4> QED
        BY <2>2, <4>1 DEF Heavy
    <3>2. i \in DOMAIN lib => Bytes(lib[i]) = 0
      BY <3>1 DEF Bytes
    <3>3. i \notin DOMAIN lib2 /\ i \notin Live(lib2) /\ (i \in Live(lib) => i \in DOMAIN lib)
      BY DEF Live
    <3>4. \A b \in Int : b = 0 => - b = 0
      BY NegZero
    <3> QED
      BY <2>0, <2>2, <3>2, <3>3, <3>4 DEF Debits, Toggles
  <2>3. CASE g.op \in Toggles /\ g.id # i
    <3>1. /\ g.id \in DOMAIN lib2 <=> g.id \in DOMAIN lib
          /\ g.id \in Live(lib2) <=> g.id \in Live(lib)
          /\ g.id \in DOMAIN lib => lib2[g.id] = lib[g.id]
          /\ g.id \in Live(lib) => g.id \in DOMAIN lib
      BY <2>3 DEF Live
    <3> QED
      BY <2>0, <2>3, <3>1 DEF Debits, Toggles
  <2> QED
    BY <2>1, <2>2, <2>3
<1> QED
  BY <1>3, <1>4, <1>5 DEF Shifts

(***************************************************************************)
(* What a call changes of the bytes of the live files.                     *)
(***************************************************************************)
\* The bytes of document i, if it is live.
Mine(lib, i) == IF i \in Live(lib) THEN Bytes(lib[i]) ELSE 0

\* Only document i counts for more or less than before.
LEMMA WeighOne ==
    ASSUME NEW lib, NEW n, Sane(lib, n), NEW lib2, NEW n2, Sane(lib2, n2), NEW i,
           \A j : j # i => /\ j \in Live(lib2) <=> j \in Live(lib)
                           /\ j \in Live(lib) => Bytes(lib2[j]) = Bytes(lib[j])
    PROVE  /\ LiveBytes(lib) \in Nat /\ LiveBytes(lib2) \in Nat /\ Mine(lib, i) \in Nat /\ Mine(lib2, i) \in Nat
           /\ LiveBytes(lib2) - Mine(lib2, i) = LiveBytes(lib) - Mine(lib, i)
<1> DEFINE S == Live(lib)
           T == Live(lib2)
           w == Weights(lib)
           v == Weights(lib2)
<1>1. /\ IsFiniteSet(S) /\ S \subseteq DOMAIN lib
      /\ \A j \in DOMAIN lib : Bytes(lib[j]) \in Nat /\ w[j] = Bytes(lib[j])
  BY SaneFacts
<1>2. /\ IsFiniteSet(T) /\ T \subseteq DOMAIN lib2
      /\ \A j \in DOMAIN lib2 : Bytes(lib2[j]) \in Nat /\ v[j] = Bytes(lib2[j])
  BY SaneFacts
<1>3. LiveBytes(lib) = SumOf(w, S) /\ LiveBytes(lib2) = SumOf(v, T)
  <2>1. IsFiniteSet(DOMAIN lib) /\ IsFiniteSet(DOMAIN lib2)
    BY SaneFacts
  <2>2. (\A j \in DOMAIN lib : lib[j] \in Doc) /\ (\A j \in DOMAIN lib2 : lib2[j] \in Doc)
    BY DEF Sane
  <2> QED
    BY <2>1, <2>2, LiveBytesIs
<1>4. \A j \in S : w[j] \in Nat /\ w[j] = Bytes(lib[j])
  BY <1>1
<1>5. \A j \in T : v[j] \in Nat /\ v[j] = Bytes(lib2[j])
  BY <1>2
<1>6. S \ {i} = T \ {i} /\ \A j \in S \ {i} : v[j] = w[j]
  <2>1. \A j : j # i => (j \in T <=> j \in S)
    OBVIOUS
  <2>2. \A j \in S \ {i} : j \in T /\ Bytes(lib2[j]) = Bytes(lib[j])
    OBVIOUS
  <2> QED
    BY <1>4, <1>5, <2>1, <2>2
<1>7. Mine(lib, i) = (IF i \in S THEN w[i] ELSE 0) /\ Mine(lib2, i) = (IF i \in T THEN v[i] ELSE 0)
  BY <1>4, <1>5 DEF Mine
<1> HIDE DEF S, T, w, v
<1>8. SumOf(w, S) \in Nat /\ SumOf(v, T) \in Nat /\ Mine(lib, i) \in Nat /\ Mine(lib2, i) \in Nat
  BY <1>1, <1>2, <1>4, <1>5, <1>7, SumNat
<1>9. IsFiniteSet(S \ {i}) /\ \A j \in S \ {i} : w[j] \in Nat
  BY <1>1, <1>4, FS_Subset
<1>10. SumOf(w, S \ {i}) \in Nat
  BY <1>9, SumNat
<1>11. SumOf(v, T \ {i}) = SumOf(w, S \ {i})
  <2>1. \A j \in S \ {i} : w[j] \in Int
    BY <1>9
  <2>2. SumOf(v, S \ {i}) = SumOf(w, S \ {i})
    BY <1>6, <1>9, <2>1, SumEqual
  <2> QED
    BY <1>6, <2>2
<1>12. SumOf(w, S) = Mine(lib, i) + SumOf(w, S \ {i})
  <2>1. CASE i \in S
    <3>1. \A j \in S : w[j] \in Int
      BY <1>4
    <3>2. SumOf(w, S) = w[i] + SumOf(w, S \ {i})
      BY <1>1, <2>1, <3>1, SumSplit
    <3> QED
      BY <1>7, <2>1, <3>2
  <2>2. CASE i \notin S
    <3>1. S \ {i} = S /\ Mine(lib, i) = 0
      BY <1>7, <2>2
    <3> QED
      BY <1>8, <3>1
  <2> QED
    BY <2>1, <2>2
<1>13. SumOf(v, T) = Mine(lib2, i) + SumOf(v, T \ {i})
  <2>1. CASE i \in T
    <3>1. \A j \in T : v[j] \in Int
      BY <1>5
    <3>2. SumOf(v, T) = v[i] + SumOf(v, T \ {i})
      BY <1>2, <2>1, <3>1, SumSplit
    <3> QED
      BY <1>7, <2>1, <3>2
  <2>2. CASE i \notin T
    <3>1. T \ {i} = T /\ Mine(lib2, i) = 0
      BY <1>7, <2>2
    <3> QED
      BY <1>8, <3>1
  <2> QED
    BY <2>1, <2>2
<1> QED
  BY <1>3, <1>8, <1>10, <1>11, <1>12, <1>13

\* What the call h does to the library.
Does(lib, n, lib2, n2, h) ==
    \/ h.op \notin {"setParent", "mark", "unmark", "record", "remove", "insert", "copyDoc"} /\ lib2 = lib /\ n2 = n
    \/ /\ h.op \in {"setParent", "mark", "unmark", "record"} /\ n2 = n /\ DOMAIN lib2 = DOMAIN lib
       /\ \A j \in DOMAIN lib \ {h.id} : lib2[j] = lib[j]
       /\ h.id \in DOMAIN lib =>
            /\ lib2[h.id].kind = lib[h.id].kind
            /\ lib2[h.id].trash = IF h.op = "mark" THEN "trashed" ELSE IF h.op = "unmark" THEN "live" ELSE lib[h.id].trash
            /\ h.op # "setParent" => lib2[h.id].parent = lib[h.id].parent
    \/ /\ h.op = "remove" /\ n2 = n /\ DOMAIN lib2 = DOMAIN lib \ {h.id}
       /\ \A j \in DOMAIN lib2 : lib2[j] = lib[j]
    \/ /\ h.op = "insert" /\ n2 = n + 1 /\ DOMAIN lib2 = DOMAIN lib \cup {n}
       /\ lib2[n] = h.doc /\ \A j \in DOMAIN lib : lib2[j] = lib[j]
    \/ h.op = "copyDoc"

\* What the call h takes from the library.
LEMMA DoesWeigh ==
    ASSUME NEW lib, NEW n, Sane(lib, n), NEW lib2, NEW n2, Sane(lib2, n2), NEW h \in Frame, Sure(lib, n, h),
           h.op # "copyDoc", Does(lib, n, lib2, n2, h)
    PROVE  /\ LiveBytes(lib) \in Nat /\ LiveBytes(lib2) \in Nat
           /\ LiveBytes(lib2) =
                IF h.op \in Toggles THEN LiveBytes(lib) - Debits(lib)[h]
                ELSE IF h.op = "insert" THEN LiveBytes(lib) + Bytes(h.doc) ELSE LiveBytes(lib)
<1>1. ASSUME NEW i, \A j : j # i => /\ j \in Live(lib2) <=> j \in Live(lib)
                                    /\ j \in Live(lib) => Bytes(lib2[j]) = Bytes(lib[j])
      PROVE  /\ LiveBytes(lib) \in Nat /\ LiveBytes(lib2) \in Nat /\ Mine(lib, i) \in Nat /\ Mine(lib2, i) \in Nat
             /\ LiveBytes(lib2) = LiveBytes(lib) + Mine(lib2, i) - Mine(lib, i)
  <2>1. /\ LiveBytes(lib) \in Nat /\ LiveBytes(lib2) \in Nat /\ Mine(lib, i) \in Nat /\ Mine(lib2, i) \in Nat
        /\ LiveBytes(lib2) - Mine(lib2, i) = LiveBytes(lib) - Mine(lib, i)
    BY <1>1, WeighOne
  <2> QED
    BY <2>1
<1>2. LiveBytes(lib) \in Nat
  <2>1. \A j : j # 0 => /\ j \in Live(lib) <=> j \in Live(lib)
                        /\ j \in Live(lib) => Bytes(lib[j]) = Bytes(lib[j])
    OBVIOUS
  <2> QED
    BY <2>1, WeighOne
<1>3. CASE h.op \notin {"setParent", "mark", "unmark", "record", "remove", "insert", "copyDoc"} /\ lib2 = lib
  BY <1>2, <1>3 DEF Toggles
<1>4. CASE /\ h.op \in {"setParent", "mark", "unmark", "record"} /\ DOMAIN lib2 = DOMAIN lib
           /\ \A j \in DOMAIN lib \ {h.id} : lib2[j] = lib[j]
           /\ h.id \in DOMAIN lib =>
                /\ lib2[h.id].kind = lib[h.id].kind
                /\ lib2[h.id].trash = IF h.op = "mark" THEN "trashed" ELSE IF h.op = "unmark" THEN "live" ELSE lib[h.id].trash
  <2>1. \A j : j # h.id => /\ j \in Live(lib2) <=> j \in Live(lib)
                           /\ j \in Live(lib) => Bytes(lib2[j]) = Bytes(lib[j])
    BY <1>4 DEF Live
  <2>2. /\ LiveBytes(lib) \in Nat /\ LiveBytes(lib2) \in Nat /\ Mine(lib, h.id) \in Nat /\ Mine(lib2, h.id) \in Nat
        /\ LiveBytes(lib2) = LiveBytes(lib) + Mine(lib2, h.id) - Mine(lib, h.id)
    BY <1>1, <2>1
  <2>3. h.id \in DOMAIN lib => Bytes(lib2[h.id]) = Bytes(lib[h.id]) /\ Bytes(lib[h.id]) \in Nat
    <3>1. h.id \in DOMAIN lib => Bytes(lib2[h.id]) = Bytes(lib[h.id])
      BY <1>4 DEF Bytes, IsFolder
    <3> QED
      BY <3>1, SaneFacts
  <2>4. CASE h.op = "mark"
    <3>1. h.id \notin Live(lib2)
      BY <1>4, <2>4 DEF Live, IsLive
    <3>2. Mine(lib2, h.id) = 0 /\ Mine(lib, h.id) = Debits(lib)[h]
      BY <2>4, <3>1 DEF Mine, Debits
    <3> QED
      BY <2>2, <2>4, <3>2 DEF Toggles
  <2>5. CASE h.op = "unmark"
    <3>1. h.id \in DOMAIN lib => h.id \in Live(lib2)
      BY <1>4, <2>5 DEF Live, IsLive
    <3>2. h.id \notin DOMAIN lib => h.id \notin Live(lib2) /\ h.id \notin Live(lib)
      BY <1>4 DEF Live
    <3>3. Debits(lib)[h] = IF h.id \in DOMAIN lib \ Live(lib) THEN - Bytes(lib[h.id]) ELSE 0
      BY <2>5 DEF Debits
    <3>4. CASE h.id \in DOMAIN lib \ Live(lib)
      <4>1. Mine(lib2, h.id) = Bytes(lib[h.id]) /\ Mine(lib, h.id) = 0 /\ Bytes(lib[h.id]) \in Nat
        BY <2>3, <3>1, <3>4 DEF Mine
      <4>2. Debits(lib)[h] = - Bytes(lib[h.id])
        BY <3>3, <3>4
      <4>3. \A a, b \in Nat : a + b - 0 = a - (- b)
        OBVIOUS
      <4> QED
        BY <2>2, <2>5, <4>1, <4>2, <4>3 DEF Toggles
    <3>5. CASE h.id \notin DOMAIN lib \ Live(lib)
      <4>1. Mine(lib2, h.id) = Mine(lib, h.id)
        BY <2>3, <3>1, <3>2, <3>5 DEF Mine, Live
      <4>2. Debits(lib)[h] = 0
        BY <3>3, <3>5
      <4> QED
        BY <2>2, <2>5, <4>1, <4>2 DEF Toggles
    <3> QED
      BY <3>4, <3>5
  <2>6. CASE h.op \in {"setParent", "record"}
    <3>1. h.id \in Live(lib2) <=> h.id \in Live(lib)
      BY <1>4, <2>6 DEF Live, IsLive
    <3>2. Mine(lib2, h.id) = Mine(lib, h.id)
      BY <2>3, <3>1 DEF Mine, Live
    <3>3. LiveBytes(lib2) = LiveBytes(lib)
      BY <2>2, <3>2
    <3> QED
      BY <2>2, <2>6, <3>3 DEF Toggles
  <2> QED
    BY <1>4, <2>4, <2>5, <2>6
<1>5. CASE h.op = "remove" /\ DOMAIN lib2 = DOMAIN lib \ {h.id} /\ \A j \in DOMAIN lib2 : lib2[j] = lib[j]
  <2>1. \A j : j # h.id => /\ j \in Live(lib2) <=> j \in Live(lib)
                           /\ j \in Live(lib) => Bytes(lib2[j]) = Bytes(lib[j])
    BY <1>5 DEF Live
  <2>2. /\ LiveBytes(lib) \in Nat /\ LiveBytes(lib2) \in Nat /\ Mine(lib, h.id) \in Nat /\ Mine(lib2, h.id) \in Nat
        /\ LiveBytes(lib2) = LiveBytes(lib) + Mine(lib2, h.id) - Mine(lib, h.id)
    BY <1>1, <2>1
  <2>3. h.id \notin Live(lib2)
    BY <1>5 DEF Live
  <2>4. Mine(lib2, h.id) = 0 /\ Mine(lib, h.id) = Debits(lib)[h]
    BY <1>5, <2>3 DEF Mine, Debits
  <2> QED
    BY <1>5, <2>2, <2>4 DEF Toggles
<1>6. CASE /\ h.op = "insert" /\ DOMAIN lib2 = DOMAIN lib \cup {n} /\ lib2[n] = h.doc
           /\ \A j \in DOMAIN lib : lib2[j] = lib[j]
  <2>0. n \notin DOMAIN lib
    BY DEF Sane
  <2>1. \A j : j # n => /\ j \in Live(lib2) <=> j \in Live(lib)
                        /\ j \in Live(lib) => Bytes(lib2[j]) = Bytes(lib[j])
    BY <1>6 DEF Live
  <2>2. /\ LiveBytes(lib) \in Nat /\ LiveBytes(lib2) \in Nat /\ Mine(lib, n) \in Nat /\ Mine(lib2, n) \in Nat
        /\ LiveBytes(lib2) = LiveBytes(lib) + Mine(lib2, n) - Mine(lib, n)
    BY <1>1, <2>1
  <2>3. n \in Live(lib2) /\ n \notin Live(lib)
    BY <1>6, <2>0 DEF Live, Sure
  <2>4. Mine(lib2, n) = Bytes(h.doc) /\ Mine(lib, n) = 0
    BY <1>6, <2>3 DEF Mine
  <2>5. LiveBytes(lib2) = LiveBytes(lib) + Bytes(h.doc)
    BY <2>2, <2>4
  <2> QED
    BY <1>6, <2>2, <2>5 DEF Toggles
<1> QED
  BY <1>3, <1>4, <1>5, <1>6 DEF Does

(***************************************************************************)
(* What one call means to the calls of others.                             *)
(***************************************************************************)
NoCopy(s) == \A g \in In(s) : g.op \notin CopyOps

\* A call whose effect on the library the calls in s do not feel.
Spares(lib, h, s) ==
    /\ h.op \in Toggles => (\A g \in In(s) : Ahead(lib, h, g))
    /\ h.op = "remove" => (\A g \in In(s) : g.op # "restoreCheck")
    /\ h.op = "setParent" => (\A g \in In(s) : Loose(g))

LEMMA DoesShift ==
    ASSUME NEW lib, NEW n, Sane(lib, n), NEW lib2, NEW n2, Sane(lib2, n2), NEW h, h.op # "copyDoc",
           Does(lib, n, lib2, n2, h), NEW s \in Seq(Frame), NoCopy(s),
           \A g \in In(s) : Sure(lib, n, g), Spares(lib, h, s)
    PROVE  Shifts(lib, n, lib2, n2, s)
<1>1. \A g \in In(s) : Sure(lib, n, g) /\ g.op \notin CopyOps
  BY DEF NoCopy
<1>2. CASE h.op \notin {"setParent", "mark", "unmark", "record", "remove", "insert", "copyDoc"} /\ lib2 = lib /\ n2 = n
  BY <1>2 DEF Shifts
<1>3. CASE /\ h.op = "setParent"
  BY <1>1, <1>3, ShiftLoose DEF Spares
<1>4. CASE h.op \in {"mark", "unmark", "record"}
  <2>1. /\ n2 = n /\ DOMAIN lib2 = DOMAIN lib
        /\ \A j \in DOMAIN lib \ {h.id} : lib2[j] = lib[j]
        /\ h.id \in DOMAIN lib =>
             /\ lib2[h.id].kind = lib[h.id].kind
             /\ lib2[h.id].trash = IF h.op = "mark" THEN "trashed" ELSE IF h.op = "unmark" THEN "live" ELSE lib[h.id].trash
             /\ lib2[h.id].parent = lib[h.id].parent
    BY <1>4 DEF Does
  <2>2. \A j \in DOMAIN lib : lib2[j].parent = lib[j].parent /\ lib2[j].kind = lib[j].kind
    BY <2>1
  <2>3. \A j \in DOMAIN lib \ {h.id} : lib2[j].trash = lib[j].trash
    BY <2>1
  <2>4. CASE h.op = "record"
    <3>1. \A j \in DOMAIN lib : lib2[j].trash = lib[j].trash
      BY <2>1, <2>4
    <3> QED
      BY <1>1, <2>1, <2>2, <2>3, <3>1, ShiftChange
  <2>5. CASE h.op \in {"mark", "unmark"}
    <3>1. h.op \in Toggles /\ \A g \in In(s) : Ahead(lib, h, g)
      BY <2>5 DEF Spares, Toggles
    <3>2. \E f : f.op \in Toggles /\ f.id = h.id /\ \A g \in In(s) : Ahead(lib, f, g)
      BY <3>1
    <3> QED
      BY <1>1, <2>1, <2>2, <2>3, <3>2, ShiftChange
  <2> QED
    BY <1>4, <2>4, <2>5
<1>5. CASE h.op = "remove"
  <2>1. n2 = n /\ DOMAIN lib2 = DOMAIN lib \ {h.id} /\ \A j \in DOMAIN lib2 : lib2[j] = lib[j]
    BY <1>5 DEF Does
  <2>2. \A g \in In(s) : Sure(lib, n, g) /\ g.op \notin CopyOps \cup {"restoreCheck"} /\ Ahead(lib, h, g)
    BY <1>1, <1>5 DEF Spares, Toggles
  <2> QED
    BY <1>5, <2>1, <2>2, ShiftRemove
<1>6. CASE h.op = "insert"
  <2>1. n2 = n + 1 /\ DOMAIN lib2 = DOMAIN lib \cup {n} /\ \A j \in DOMAIN lib : lib2[j] = lib[j]
    BY <1>6 DEF Does
  <2> QED
    BY <1>1, <2>1, ShiftInsert
<1> QED
  BY <1>2, <1>3, <1>4, <1>5, <1>6 DEF Does

\* What calls that only add documents, and calls of workers, do not feel.
LEMMA SparesLoose ==
    ASSUME NEW lib, NEW n, NEW s \in Seq(Frame), \A g \in In(s) : Loose(g) /\ Sure(lib, n, g), NEW h, h.op \notin Early
    PROVE  Spares(lib, h, s)
<1>1. \A g \in In(s) : g \in Frame
  BY InSeq
<1>2. \A g \in In(s) : Ahead(lib, h, g)
  <2> TAKE g \in In(s)
  <2>1. Region(lib, g) = {} /\ ~Heavy(lib, g) /\ g.op \notin TreeLoops
    BY <1>1, LooseFacts DEF Loose
  <2> QED
    BY <2>1 DEF Ahead
<1>3. \A g \in In(s) : g.op # "restoreCheck"
  BY DEF Loose
<1> QED
  BY <1>2, <1>3 DEF Spares

(***************************************************************************)
(* A call, its effect on the library, and what follows it.                 *)
(***************************************************************************)
LEMMA PassTidy ==
    ASSUME NEW lib, NEW n, Sane(lib, n), NEW lib2, NEW n2, Sane(lib2, n2), NEW s \in Seq(Frame), s # <<>>,
           NoCopy(s), Tidy(lib, n, s), Does(lib, n, lib2, n2, Head(s)),
           Head(s).op = "remove" => (\A g \in In(Tail(s)) : g.op # "restoreCheck"),
           Head(s).op = "setParent" => (\A g \in In(Tail(s)) : Loose(g)),
           NEW new \in Seq(Frame), NEW b \in Int,
           \/ /\ lib2 = lib /\ n2 = n /\ Turns(lib, n, Head(s), new) /\ b = 0
           \/ Head(s).op = "add" /\ new = <<>> /\ b = Head(s).bytes
           \/ Head(s).op \in Toggles \cup {"setParent", "record"} /\ new = <<>> /\ b = 0
           \/ /\ Head(s).op = "insert" /\ b = 0
              /\ \A f \in In(new) : f.op \in {"add", "enqueue"}
              /\ Debt(lib2, new) = Bytes(Head(s).doc)
    PROVE  /\ Tidy(lib2, n2, new \o Tail(s))
           /\ LiveBytes(lib) \in Nat /\ LiveBytes(lib2) \in Nat
           /\ b + Debt(lib2, new \o Tail(s)) - LiveBytes(lib2) = Debt(lib, s) - LiveBytes(lib)
<1> DEFINE h == Head(s)
           t == Tail(s)
<1>1. /\ Sure(lib, n, h) /\ Tidy(lib, n, t)
      /\ \A g \in In(t) : Ahead(lib, h, g)
  BY TidyTail
<1>2. h \in Frame /\ t \in Seq(Frame) /\ s = <<h>> \o t
  OBVIOUS
<1>0. Does(lib, n, lib2, n2, h)
  OBVIOUS
<1> HIDE DEF h, t
<1>3. In(s) = {h} \cup In(t)
  <2>1. <<h>> \in Seq(Frame)
    BY <1>2, Single
  <2>2. In(<<h>>) = {h}
    BY InSmall
  <2> DEFINE u == <<h>>
  <2>3. u \in Seq(Frame) /\ In(u) = {h} /\ s = u \o t
    BY <1>2, <2>1, <2>2
  <2> HIDE DEF u
  <2>4. In(u \o t) = In(u) \cup In(t)
    BY <1>2, <2>3, InConcat
  <2> QED
    BY <2>3, <2>4
<1>4. \A f \in Frame : Debits(lib)[f] \in Int /\ Debits(lib2)[f] \in Int
  BY AllCosted
<1>5. Debt(lib, s) = Debits(lib)[h] + Debt(lib, t) /\ Debt(lib, t) \in Int
  BY <1>2, <1>4, TallyHead, AllCosted DEF Debt, h, t
<1>6. h.op \notin CopyOps /\ NoCopy(t)
  BY <1>3 DEF NoCopy
<1>7. \A g \in In(t) : Sure(lib, n, g)
  BY <1>1 DEF Tidy, In
<1>8. Spares(lib, h, t)
  BY <1>1 DEF Spares, h, t
<1>9. Does(lib, n, lib2, n2, h) /\ h.op # "copyDoc"
  BY <1>6 DEF h, CopyOps
<1>10. Shifts(lib, n, lib2, n2, t)
  BY <1>2, <1>6, <1>7, <1>8, <1>9, DoesShift
<1>11. Tidy(lib2, n2, t) /\ Debt(lib2, t) = Debt(lib, t)
  BY <1>1, <1>2, <1>10, ShiftTidy
<1>12. /\ LiveBytes(lib) \in Nat /\ LiveBytes(lib2) \in Nat
       /\ LiveBytes(lib2) =
            IF h.op \in Toggles THEN LiveBytes(lib) - Debits(lib)[h]
            ELSE IF h.op = "insert" THEN LiveBytes(lib) + Bytes(h.doc) ELSE LiveBytes(lib)
  BY <1>1, <1>2, <1>9, DoesWeigh
<1>13. Debt(lib2, new \o t) = Debt(lib2, new) + Debt(lib2, t) /\ Debt(lib2, new) \in Int
  BY <1>2, <1>4, TallyConcat, AllCosted DEF Debt
<1>14. CASE lib2 = lib /\ n2 = n /\ Turns(lib, n, h, new) /\ b = 0
  <2>1. Tidy(lib, n, new \o t)
    BY <1>14, TidyReplace DEF Turns, h, t
  <2>2. Debt(lib, new) = Debits(lib)[h] /\ LiveBytes(lib2) = LiveBytes(lib)
    BY <1>14 DEF Turns
  <2> QED
    BY <1>5, <1>11, <1>12, <1>13, <1>14, <2>1, <2>2 DEF h, t
<1>15. CASE /\ new = <<>>
            /\ \/ h.op = "add" /\ b = h.bytes
               \/ h.op \in Toggles \cup {"setParent", "record"} /\ b = 0
  <2>1. new \o t = t
    BY <1>2, <1>15, EmptyCalls
  <2>2. h.op = "add" => Debits(lib)[h] = h.bytes
    BY <1>2 DEF Debits
  <2>3. h.op \in {"setParent", "record"} => Debits(lib)[h] = 0
    BY <1>2 DEF Debits
  <2>4. h.op = "add" => b = h.bytes
    BY <1>15 DEF Toggles
  <2>5. h.op # "add" => b = 0
    BY <1>15
  <2>6. b + Debt(lib2, t) - LiveBytes(lib2) = Debt(lib, s) - LiveBytes(lib)
    <3>1. CASE h.op = "add"
      <4>1. b = Debits(lib)[h] /\ LiveBytes(lib2) = LiveBytes(lib)
        BY <1>12, <2>2, <2>4, <3>1 DEF Toggles
      <4> QED
        BY <1>5, <1>11, <1>12, <4>1
    <3>2. CASE h.op \in {"setParent", "record"}
      <4>1. b = 0 /\ Debits(lib)[h] = 0 /\ LiveBytes(lib2) = LiveBytes(lib)
        BY <1>12, <2>3, <2>5, <3>2 DEF Toggles
      <4> QED
        BY <1>5, <1>11, <1>12, <4>1
    <3>3. CASE h.op \in Toggles
      <4>1. b = 0 /\ LiveBytes(lib2) = LiveBytes(lib) - Debits(lib)[h] /\ Debits(lib)[h] \in Int
        BY <1>2, <1>4, <1>12, <2>5, <3>3 DEF Toggles
      <4> QED
        BY <1>5, <1>11, <1>12, <4>1
    <3> QED
      BY <1>15, <3>1, <3>2, <3>3
  <2> QED
    BY <1>11, <1>12, <2>1, <2>6 DEF t
<1>16. CASE /\ h.op = "insert" /\ b = 0
            /\ \A f \in In(new) : f.op \in {"add", "enqueue"}
            /\ Debt(lib2, new) = Bytes(h.doc)
  <2>1. \A f \in In(new) : f \in Frame /\ Loose(f) /\ f.op \notin Early /\ f.op # "insert"
    <3> TAKE f \in In(new)
    <3>1. f \in Frame
      BY InSeq
    <3> QED
      BY <1>16, <3>1 DEF Loose, TreeOps, TreeLoops, Toggles, CopyOps, Early, Quits
  <2>2. \A f \in In(new) : Sure(lib2, n2, f) /\ Region(lib2, f) = {} /\ ~Heavy(lib2, f) /\ f.op \notin Toggles
    <3> TAKE f \in In(new)
    <3>1. Sure(lib2, n2, f)
      BY <2>1 DEF Loose, Sure, TreeLoops
    <3> QED
      BY <2>1, <3>1, LooseFacts DEF Loose
  <2>3. Tidy(lib2, n2, new)
    <3>1. \A k \in 1 .. Len(new) : new[k] \in In(new)
      BY DEF In
    <3> QED
      BY <2>1, <2>2, <3>1 DEF Tidy, Ahead
  <2>4. \A g \in In(t) : ~Heavy(lib2, g)
    <3> TAKE g \in In(t)
    <3>1. ~Heavy(lib, g) /\ Sure(lib, n, g) /\ g \in Frame
      BY <1>1, <1>2, <1>7, <1>16, InSeq DEF Ahead, Light
    <3>2. g.op \in Toggles => g.id \in 0 .. (n - 1)
      BY <3>1 DEF Sure
    <3>3. DOMAIN lib2 = DOMAIN lib \cup {n} /\ n \notin 0 .. (n - 1) /\ \A j \in DOMAIN lib : lib2[j] = lib[j]
      BY <1>9, <1>16 DEF Does, Sane
    <3> QED
      BY <3>1, <3>2, <3>3 DEF Heavy
  <2>5. \A f \in In(new) : \A g \in In(t) : Ahead(lib2, f, g)
    BY <2>1, <2>2, <2>4 DEF Ahead
  <2>6. Tidy(lib2, n2, new \o t)
    BY <1>2, <1>11, <2>3, <2>5, TidyConcat
  <2>7. Debits(lib)[h] = 0 /\ LiveBytes(lib2) = LiveBytes(lib) + Bytes(h.doc) /\ Bytes(h.doc) \in Int
    <3>1. Debits(lib)[h] = 0
      BY <1>2, <1>16 DEF Debits
    <3>2. h.doc \in Doc
      BY <1>2, <1>16, FrameFields
    <3> QED
      BY <1>12, <1>16, <3>1, <3>2, BytesNat DEF Toggles
  <2> QED
    BY <1>5, <1>11, <1>12, <1>13, <1>16, <2>6, <2>7 DEF t
<1> QED
  BY <1>14, <1>15, <1>16 DEF h
=============================================================================
