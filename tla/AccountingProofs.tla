-------------------------- MODULE AccountingProofs --------------------------
(***************************************************************************)
(* What FileStore does to storage_used_bytes: that the counter, with all   *)
(* that the requests at work still owe it, is the number of bytes of the   *)
(* live files.                                                             *)
(***************************************************************************)
EXTENDS TreeProofs

(***************************************************************************)
(* From the state to the library, and from a loop to its next turn.        *)
(***************************************************************************)
LEMMA SaneHolds ==
    ASSUME IInv, NoCycle
    PROVE  Sane(files, nextId)
<1>1. /\ nextId \in Nat \ {0} /\ DOMAIN files \subseteq 1 .. (nextId - 1)
      /\ \A i \in DOMAIN files : files[i] \in Doc
  BY DEF IInv, TypeOK
<1>2. \A i \in DOMAIN files : files[i].parent \in 0 .. (nextId - 1)
  BY DEF IInv, Safe
<1> QED
  BY <1>1, <1>2 DEF Sane, NoCycle

LEMMA SaneNext ==
    ASSUME IInv', NoCycle'
    PROVE  Sane(files', nextId')
<1>1. /\ nextId' \in Nat \ {0} /\ DOMAIN files' \subseteq 1 .. (nextId' - 1)
      /\ \A i \in DOMAIN files' : files'[i] \in Doc
  BY DEF IInv, TypeOK
<1>2. \A i \in DOMAIN files' : files'[i].parent \in 0 .. (nextId' - 1)
  BY DEF IInv, Safe
<1> QED
  BY <1>1, <1>2 DEF Sane, NoCycle

\* What a call that changes nothing but the requests leads to.
LEMMA FollowsTurns ==
    ASSUME Sane(files, nextId), NEW p, NEW h \in Frame, Sure(files, nextId, h),
           h.op \notin Plain \cup CopyOps \cup {"insert", "copyQuota"},
           NEW new \in Seq(Frame), new \in Seq(Made(p, h)), Follows(p, h, new)
    PROVE  Turns(files, nextId, h, new)
<1>1. CASE h.op \in ToBlank
  BY <1>1, BlankCalls
<1>2. CASE h.op = "trash"
  BY <1>2, TrashTurns DEF Follows, FollowsPlace, FollowsTrash, FollowsDelete, Plain
<1>3. CASE h.op = "trashChildren"
  <2>1. new = Each("trashEach", Found(files, LiveChildren(files, h.id)), Root)
    BY <1>3 DEF Follows, FollowsPlace, FollowsTrash, FollowsDelete, Plain, Fetch, Found
  <2>2. /\ LiveChildren(files, h.id) \subseteq Children(files, h.id)
        /\ LiveChildren(files, h.id) \subseteq Live(files)
    BY DEF LiveChildren, Children, Live
  <2> QED
    BY <1>3, <2>1, <2>2, ListTurns DEF TreeOps, TreeLoops
<1>4. CASE h.op = "restore"
  <2>1. /\ h.id \in DOMAIN files
        /\ \/ new = <<Of("restoreCheck", h.id, files[h.id])>>
           \/ new = <<Of("restoreParent", h.id, files[h.id]), Of("restoreCheck", h.id, files[h.id])>>
    BY <1>4 DEF Follows, FollowsPlace, FollowsTrash, FollowsDelete, Plain
  <2> QED
    BY <1>4, <2>1, RestoreTurns
<1>5. CASE h.op = "restoreCheck"
  <2>1. \/ h.id \in Live(files) /\ new = <<>>
        \/ /\ h.id \notin Live(files) /\ IsFolder(h.doc)
           /\ new = <<At("unmark", h.id), At("restoreChildren", h.id)>>
        \/ /\ h.id \notin Live(files) /\ ~IsFolder(h.doc)
           /\ new = <<At("unmark", h.id), Add(Bytes(h.doc))>>
    BY <1>5 DEF Follows, FollowsPlace, FollowsTrash, FollowsDelete, Plain
  <2> QED
    BY <1>5, <2>1, RestoreCheckTurns
<1>6. CASE h.op = "restoreChildren"
  <2> DEFINE S == Children(files, h.id) \ Live(files)
  <2>1. new = Each("restoreEach", Found(files, S), Root)
    BY <1>6 DEF Follows, FollowsPlace, FollowsTrash, FollowsDelete, Plain, Fetch, Found
  <2>2. S \subseteq Children(files, h.id) /\ S \cap Live(files) = {}
    OBVIOUS
  <2> HIDE DEF S
  <2> QED
    BY <1>6, <2>1, <2>2, ListTurns DEF TreeOps, TreeLoops
<1>7. CASE h.op = "delete"
  <2>1. \/ h.id \notin DOMAIN files /\ new = <<>>
        \/ /\ h.id \in DOMAIN files /\ IsFolder(files[h.id])
           /\ new = <<At("deleteChildren", h.id), At("remove", h.id)>>
        \/ /\ h.id \in DOMAIN files /\ ~IsFolder(files[h.id])
           /\ new = DeleteFile(h.id, files[h.id])
    BY <1>7 DEF Follows, FollowsPlace, FollowsTrash, FollowsDelete, Plain
  <2> QED
    BY <1>7, <2>1, DeleteTurns
<1>8. CASE h.op = "deleteChildren"
  <2>1. new = Each("deleteEach", Found(files, Children(files, h.id)), Root) \o <<At("remove", h.id)>>
    BY <1>8 DEF Follows, FollowsPlace, FollowsTrash, FollowsDelete, Plain, DeleteTree, Fetch, Found
  <2> QED
    BY <1>8, <2>1, DeleteTreeTurns
<1>9. CASE h.op = "dedup"
  <2>1. \/ new = <<Insert(NewDoc(h.content, NoMessage, h.to), TRUE)>>
        \/ \E e \in DOMAIN files : new = <<Insert(NewDoc(h.content, files[e].msg, h.to), FALSE)>>
    BY <1>9 DEF Follows, FollowsPlace, FollowsTrash, FollowsDelete, Plain
  <2>2. NoMessage \in Nat /\ \A e \in DOMAIN files : files[e].msg \in Nat
    BY DEF NoMessage, Sane, Doc
  <2> QED
    BY <1>9, <2>1, <2>2, DedupTurns
<1>10. CASE h.op \in EachOps
  BY <1>10 DEF Follows, FollowsPlace, FollowsTrash, FollowsDelete, Plain, EachOps
<1> QED
  BY <1>1, <1>2, <1>3, <1>4, <1>5, <1>6, <1>7, <1>8, <1>9, <1>10, FrameOps
  DEF AllOps, AtOps, DocOps, PlaceOps, Plain, CopyOps, ToBlank

\* A loop that takes its next document, before a call.
LEMMA TakesNext ==
    ASSUME Sane(files, nextId), NEW l \in Frame, l.op \in EachOps \ {"copyEach"}, Sure(files, nextId, l), NEW k \in l.kids
    PROVE  Turns(files, nextId, l, Iteration(l.op, k, l.to) \o Each(l.op, l.kids \ {k}, l.to))
<1> DEFINE a == Iteration(l.op, k, l.to)
           b == Each(l.op, l.kids \ {k}, l.to)
           new == a \o b
<1>1. CASE l.op \in TreeLoops
  BY <1>1, LoopTurns
<1>2. CASE l.op \in {"purgeEach", "sizeEach"}
  <2>1. l.kids \subseteq Kid /\ l.to \in Nat /\ k \in Kid /\ k.id \in Nat /\ k.doc \in Doc
    BY FrameFields DEF EachOps, Kid
  <2> DEFINE F == {f \in Frame : f.op \in MoreOps(l.op)}
             m == Loop(l.op, l.kids \ {k}, l.to)
  <2>2. At("delete", k.id) \in Frame /\ Of("size", k.id, k.doc) \in Frame /\ m \in Frame
    BY <2>1 DEF At, Of, Loop, Frame, AtOps, DocOps, EachOps
  <2>3. a \in Seq(F)
    <3>1. CASE l.op = "purgeEach"
      <4>1. a = <<At("delete", k.id)>>
        BY <3>1 DEF Iteration
      <4>2. At("delete", k.id) \in F
        BY <2>2, <3>1 DEF MoreOps, At
      <4> QED
        BY <4>1, <4>2, Single
    <3>2. CASE l.op = "sizeEach"
      <4>1. a = <<Of("size", k.id, k.doc)>>
        BY <3>2 DEF Iteration
      <4>2. Of("size", k.id, k.doc) \in F
        BY <2>2, <3>2 DEF MoreOps, Of
      <4> QED
        BY <4>1, <4>2, Single
    <3> QED
      BY <1>2, <3>1, <3>2
  <2>4. b \in Seq(F)
    <3>1. b \in Seq({m})
      BY LaterIn
    <3>2. m \in F
      BY <1>2, <2>2 DEF MoreOps, Loop
    <3> HIDE DEF b, m, F
    <3>3. {m} \subseteq F
      BY <3>2
    <3> QED
      BY <3>1, <3>3
  <2>5. new \in Seq(F)
    <3> HIDE DEF a, b, F
    <3> QED
      BY <2>3, <2>4
  <2>6. F \subseteq Frame /\ \A f \in F : f.op \in BlankOps /\ f.op \in {"delete", "purgeEach", "size", "sizeEach"}
                               /\ (l.op \in Early \/ (f.op \notin Early /\ (l.op \in Light => f.op \in Light)))
    BY <1>2 DEF MoreOps, BlankOps, AllOps, AtOps, DocOps, EachOps, Weighty, TreeOps, TreeLoops, Toggles, CopyOps,
       Early, Quits, Light
  <2>7. Debits(files)[l] = 0
    BY <1>2, DebitFacts DEF Toggles, CopyOps
  <2> HIDE DEF F
  <2>8. new \in Seq(Frame) /\ In(new) \subseteq F
    <3> HIDE DEF new
    <3>1. In(new) \subseteq F
      BY <2>5, InSeq
    <3>2. new \in Seq(Frame)
      BY <2>5, <2>6
    <3> QED
      BY <3>1, <3>2
  <2> HIDE DEF new
  <2>9. Turns(files, nextId, l, new)
    BY <2>6, <2>7, <2>8, BlankTurns
  <2> QED
    BY <2>9 DEF new
<1> QED
  BY <1>1, <1>2 DEF EachOps, TreeLoops

LEMMA ReadyTidy ==
    ASSUME Sane(files, nextId), NEW q \in Seq(Frame), NoCopy(q), Tidy(files, nextId, q), NEW s \in Ready(q),
           s \in Seq(Frame)
    PROVE  Tidy(files, nextId, s) /\ Debt(files, s) = Debt(files, q)
<1>1. q # <<>> /\ (s = q \/ \E k : Takes(Head(q), k, Tail(q), s))
  BY ReadyShape
<1>2. ASSUME NEW k, Takes(Head(q), k, Tail(q), s)
      PROVE  Tidy(files, nextId, s) /\ Debt(files, s) = Debt(files, q)
  <2> DEFINE l == Head(q)
             t == Tail(q)
             a == Iteration(l.op, k, l.to)
             b == Each(l.op, l.kids \ {k}, l.to)
             new == a \o b
  <2>1. l \in Frame /\ t \in Seq(Frame) /\ l \in In(q)
    BY <1>1 DEF In
  <2>2. l.op \in EachOps \ {"copyEach"} /\ k \in l.kids /\ s = a \o b \o t
    BY <1>2, <2>1 DEF Takes, NoCopy, CopyOps
  <2>3. Sure(files, nextId, l)
    BY <1>1, TidyTail
  <2>4. Turns(files, nextId, l, new)
    BY <2>1, <2>2, <2>3, TakesNext
  <2>5. new \in Seq(Frame)
    <3>1. Costed(files) \subseteq Frame
      BY DEF Costed
    <3> HIDE DEF new
    <3> QED
      BY <2>4, <3>1 DEF Turns
  <2>6. s = new \o t
    BY <2>2
  <2> HIDE DEF new
  <2>7. Tidy(files, nextId, new \o t)
    BY <1>1, <2>4, <2>5, TidyReplace DEF Turns
  <2>8. \A f \in Frame : Debits(files)[f] \in Int
    BY AllCosted
  <2>9. Debt(files, q) = Debits(files)[l] + Debt(files, t)
    BY <1>1, <2>8, TallyHead DEF Debt
  <2> HIDE DEF l, t
  <2>10. Debt(files, new \o t) = Debt(files, new) + Debt(files, t)
    BY <2>1, <2>5, <2>8, TallyConcat DEF Debt
  <2> QED
    BY <2>4, <2>6, <2>7, <2>9, <2>10 DEF Turns
<1> QED
  BY <1>1, <1>2

LEMMA PartSeq ==
    ASSUME NEW A, NEW a \in Seq(A), NEW B, NEW b \in Seq(B), NEW F, a \o b \in Seq(F)
    PROVE  a \in Seq(F)
<1> DEFINE c == a \o b
<1>1. /\ Len(c) = Len(a) + Len(b) /\ Len(a) \in Nat /\ Len(b) \in Nat
      /\ \A i \in 1 .. Len(a) + Len(b) : c[i] = IF i <= Len(a) THEN a[i] ELSE b[i - Len(a)]
  <2> DEFINE X == A \cup B
  <2>1. a \in Seq(X) /\ b \in Seq(X)
    OBVIOUS
  <2> HIDE DEF X
  <2> QED
    BY <2>1, ConcatProperties
<1>2. c \in Seq(F)
  OBVIOUS
<1> HIDE DEF c
<1>3. \A i \in 1 .. Len(a) : a[i] \in F
  <2> TAKE i \in 1 .. Len(a)
  <2>1. i \in 1 .. Len(a) + Len(b) /\ i <= Len(a)
    BY <1>1
  <2>2. c[i] = a[i] /\ c[i] \in F
    BY <1>1, <1>2, <2>1
  <2> QED
    BY <2>2
<1> QED
  BY <1>3, SeqDef

\* What a record adds to the counter.
LEMMA InsertDebt ==
    ASSUME NEW lib, NEW n, Sane(lib, n), NEW d \in Doc, NEW send, NEW i \in Nat, NEW new,
           new = (IF IsFolder(d) THEN <<>> ELSE <<Add(Bytes(d))>>) \o (IF send THEN <<At("enqueue", i)>> ELSE <<>>)
    PROVE  Debt(lib, new) = Bytes(d)
<1> DEFINE x == Add(Bytes(d))
           y == At("enqueue", i)
           a == IF IsFolder(d) THEN <<>> ELSE <<x>>
           b == IF send THEN <<y>> ELSE <<>>
<1>1. Bytes(d) \in Nat /\ Bytes(d) \in Int
  BY BytesNat
<1>2. Debits(lib)[x] = Bytes(d) /\ x \in Frame
  BY <1>1, DebitFacts DEF Costed
<1>3. y \in Frame /\ y.op = "enqueue"
  BY DEF At, Frame, AtOps
<1>4. Debits(lib)[y] = 0
  BY <1>3, DebitFacts DEF Toggles, CopyOps
<1>5. \A f \in Frame : Debits(lib)[f] \in Int
  BY AllCosted
<1> HIDE DEF x, y
<1>6. Tally(Debits(lib), <<>>) = 0 /\ Tally(Debits(lib), <<x>>) = Bytes(d) /\ Tally(Debits(lib), <<y>>) = 0
  <2>1. Tally(Debits(lib), <<x>>) = Debits(lib)[x] /\ Tally(Debits(lib), <<y>>) = Debits(lib)[y]
    BY <1>2, <1>3, <1>5, TallyOne
  <2> QED
    BY <1>2, <1>4, <2>1, TallyEmpty
<1>7. <<>> \in Seq(Frame) /\ <<x>> \in Seq(Frame) /\ <<y>> \in Seq(Frame)
  BY <1>2, <1>3, NoFrames, Single
<1>8. a \in Seq(Frame) /\ Tally(Debits(lib), a) = Bytes(d)
  BY <1>6, <1>7 DEF Bytes
<1>9. b \in Seq(Frame) /\ Tally(Debits(lib), b) = 0
  BY <1>6, <1>7
<1>10. new = a \o b
  BY DEF x, y
<1> HIDE DEF a, b
<1>11. Tally(Debits(lib), a \o b) = Tally(Debits(lib), a) + Tally(Debits(lib), b)
  BY <1>5, <1>8, <1>9, TallyConcat
<1>12. Tally(Debits(lib), a \o b) = Bytes(d)
  BY <1>1, <1>8, <1>9, <1>11
<1> QED
  BY <1>10, <1>12 DEF Debt

LEMMA EffectDoes ==
    ASSUME Sane(files, nextId), NEW h \in Frame, FilesEffect(h)
    PROVE  Does(files, nextId, files', nextId', h)
<1>0. nextId \notin DOMAIN files /\ \A i \in DOMAIN files : files[i] \in Doc
  BY DEF Sane
<1>1. CASE UNCHANGED <<files, nextId>> /\ h.op \notin {"setParent", "mark", "unmark", "record", "remove", "insert", "copyDoc"}
  BY <1>1 DEF Does
<1>2. ASSUME NEW d, SetDoc(h.id, d)
      PROVE  /\ DOMAIN files' = DOMAIN files /\ \A j \in DOMAIN files \ {h.id} : files'[j] = files[j]
             /\ h.id \in DOMAIN files => files'[h.id] = d
  BY <1>2 DEF SetDoc
<1>3. CASE h.op = "setParent" /\ SetDoc(h.id, [files[h.id] EXCEPT !.parent = h.to]) /\ UNCHANGED nextId
  BY <1>0, <1>2, <1>3 DEF Does, Doc
<1>4. CASE h.op = "mark" /\ SetDoc(h.id, [files[h.id] EXCEPT !.trash = "trashed"]) /\ UNCHANGED nextId
  BY <1>0, <1>2, <1>4 DEF Does, Doc
<1>5. CASE h.op = "unmark" /\ SetDoc(h.id, [files[h.id] EXCEPT !.trash = "live"]) /\ UNCHANGED nextId
  BY <1>0, <1>2, <1>5 DEF Does, Doc
<1>6. CASE h.op = "record" /\ SetDoc(h.id, [files[h.id] EXCEPT !.msg = h.msg]) /\ UNCHANGED nextId
  BY <1>0, <1>2, <1>6 DEF Does, Doc
<1>7. CASE h.op = "remove" /\ files' = [j \in DOMAIN files \ {h.id} |-> files[j]] /\ UNCHANGED nextId
  BY <1>7 DEF Does
<1>8. CASE h.op = "insert" /\ InsertDoc(h.doc)
  BY <1>0, <1>8 DEF Does, InsertDoc
<1>9. CASE h.op = "copyDoc"
  BY <1>9 DEF Does
<1> QED
  BY <1>1, <1>3, <1>4, <1>5, <1>6, <1>7, <1>8, <1>9 DEF FilesEffect

\* After a call that may end the request, nothing is owed.
LEMMA EarlyEnds ==
    ASSUME NEW lib, NEW n, Sane(lib, n), NEW s \in Seq(Frame), s # <<>>, Tidy(lib, n, s), Head(s).op \in Early
    PROVE  Debt(lib, Tail(s)) = 0 /\ Debt(lib, s) = 0
<1> DEFINE h == Head(s)
           t == Tail(s)
<1>10. h \in Frame
  OBVIOUS
<1>11. t \in Seq(Frame)
  OBVIOUS
<1>12. \A g \in In(t) : Ahead(lib, h, g)
  BY TidyTail
<1>1. h \in Frame /\ t \in Seq(Frame) /\ \A g \in In(t) : Ahead(lib, h, g)
  BY <1>10, <1>11, <1>12
<1>2. \A f \in Frame : Debits(lib)[f] \in Int
  BY AllCosted
<1>3. Debt(lib, s) = Debits(lib)[h] + Debt(lib, t)
  BY <1>2, TallyHead DEF Debt
<1>4. h.op \notin Weighty
  BY DEF Early, Quits, Weighty, TreeOps, TreeLoops, Toggles, CopyOps
<1> HIDE DEF h, t
<1>5. \A k \in 1 .. Len(t) : t[k] \in Frame /\ t[k] \in In(t)
  BY <1>1 DEF In
<1>6. \A k \in 1 .. Len(t) : Debits(lib)[t[k]] = 0
  <2> TAKE k \in 1 .. Len(t)
  <2>1. t[k].op \notin Weighty /\ t[k] \in Frame
    BY <1>1, <1>5 DEF Ahead, h
  <2> QED
    BY <2>1, DebitFacts
<1>7. Tally(Debits(lib), t) = 0
  BY <1>1, <1>6, TallyZero
<1>8. Debits(lib)[h] = 0
  BY <1>1, <1>4, DebitFacts
<1> QED
  BY <1>3, <1>7, <1>8 DEF Debt, t

\* What two stacks owe is a number.
LEMMA DebtsInt ==
    ASSUME NEW lib, NEW n, Sane(lib, n), NEW a \in Seq(Frame), NEW b \in Seq(Frame)
    PROVE  Debt(lib, a \o b) \in Int
<1> DEFINE u == a \o b
<1>1. u \in Seq(Frame)
  OBVIOUS
<1> HIDE DEF u
<1>2. Debt(lib, u) \in Int
  BY <1>1, AllCosted
<1> QED
  BY <1>2 DEF u

\* A step of a process, and what the process has to do.
LEMMA OwnStep ==
    ASSUME IInv, IInv', NoCycle, NoCycle', NEW p \in Procs, NEW s \in Ready(todo[p]), NEW new, NEW rest,
           GoesOn(p, s, new, rest), \A g \in In(s) : g.op \notin CopyOps \cup {"copyQuota"},
           Tidy(files, nextId, s),
           Head(s).op = "remove" => (\A g \in In(Tail(s)) : g.op # "restoreCheck"),
           Head(s).op = "setParent" => (\A g \in In(Tail(s)) : Loose(g))
    PROVE  /\ Tidy(files', nextId', todo'[p])
           /\ Does(files, nextId, files', nextId', Head(s))
           /\ LiveBytes(files) \in Nat /\ LiveBytes(files') \in Nat
           /\ used' + Debt(files', todo'[p]) - LiveBytes(files') = used + Debt(files, s) - LiveBytes(files)
<1> DEFINE h == Head(s)
           t == Tail(s)
<1>1. Sane(files, nextId) /\ Sane(files', nextId')
  BY SaneHolds, SaneNext
<1>2. s \in Seq(Frame) /\ s # <<>> /\ h \in Frame /\ t \in Seq(Frame)
  BY CallTail DEF Calls
<1>13. Debt(files, s) \in Int
  BY <1>1, <1>2, AllCosted
<1>3. h \in In(s) /\ NoCopy(s) /\ h.op \notin CopyOps \cup {"copyQuota"}
  BY <1>2 DEF In, NoCopy
<1>4. todo'[p] = new \o rest /\ new \o rest \in Seq(Frame) /\ new \in Seq(Made(p, h))
  BY DEF GoesOn, Goto, IInv, TypeOK
<1>5. Sure(files, nextId, h) /\ \A g \in In(t) : Ahead(files, h, g)
  BY <1>2, TidyTail
<1>6. used \in Int /\ used' \in Int
  BY DEF IInv, TypeOK
<1>7. CASE h.op \in Quits /\ new = <<>> /\ rest = <<>> /\ UNCHANGED data
  <2>1. todo'[p] = <<>> /\ Tidy(files', nextId', <<>>) /\ Debt(files', <<>>) = 0
    BY <1>4, <1>7, EmptyConcat, TidySmall, TallyEmpty DEF Debt
  <2>2. Debt(files, s) = 0
    BY <1>1, <1>2, <1>7, EarlyEnds DEF Early
  <2>3. files' = files /\ nextId' = nextId /\ used' = used
    BY <1>7 DEF data
  <2>4. LiveBytes(files) \in Nat
    <3>1. \A j : j # 0 => /\ j \in Live(files) <=> j \in Live(files)
                          /\ j \in Live(files) => Bytes(files[j]) = Bytes(files[j])
      OBVIOUS
    <3> QED
      BY <1>1, <3>1, WeighOne
  <2>5. Does(files, nextId, files', nextId', h)
    BY <1>7, <2>3 DEF Does, Quits
  <2> QED
    BY <2>1, <2>2, <2>3, <2>4, <2>5
<1>8. CASE Follows(p, h, new) /\ Effect(h) /\ rest = IF h.op \in First THEN <<>> ELSE t
  <2>1. Does(files, nextId, files', nextId', h)
    BY <1>1, <1>2, <1>8, EffectDoes DEF Effect
  <2>2. used' = IF h.op = "add" THEN used + h.bytes ELSE used
    BY <1>8 DEF Effect, UsedEffect
  <2>3. rest \in Seq(Frame)
    BY <1>2, <1>8, EmptyCalls
  <2>4. new \in Seq(Frame)
    BY <1>4, <2>3, PartSeq
  <2>5. \A f \in In(new) : f.op \in MoreOps(h.op)
    BY <1>2, <1>4, <2>4, InSeq, MadeOps
  <2> DEFINE b == IF h.op = "add" THEN h.bytes ELSE 0
  <2>6. b \in Int /\ used' = used + b
    BY <1>2, <1>6, <2>2, FrameFields
  <2>7. h.op \notin {"setParent", "mark", "unmark", "record", "remove", "insert", "copyDoc"} => files' = files /\ nextId' = nextId
    BY <1>8 DEF Effect, FilesEffect
  <2>8. CASE h.op \notin Plain \cup {"insert"}
    <3>1. Turns(files, nextId, h, new)
      BY <1>1, <1>2, <1>3, <1>4, <1>5, <1>8, <2>4, <2>8, FollowsTurns
    <3>2. files' = files /\ nextId' = nextId /\ b = 0
      BY <1>3, <2>7, <2>8 DEF Plain, CopyOps
    <3> HIDE DEF b
    <3>3. CASE h.op \notin First
      <4>1. /\ Tidy(files', nextId', new \o t)
            /\ LiveBytes(files) \in Nat /\ LiveBytes(files') \in Nat
            /\ b + Debt(files', new \o t) - LiveBytes(files') = Debt(files, s) - LiveBytes(files)
        BY <1>1, <1>2, <1>3, <2>1, <2>4, <2>6, <3>1, <3>2, PassTidy
      <4>2. todo'[p] = new \o t
        BY <1>4, <1>8, <3>3
      <4>3. Debt(files, s) \in Int /\ Debt(files', new \o t) \in Int
        BY <1>1, <1>2, <2>4, <1>13, DebtsInt
      <4> QED
        BY <1>6, <2>1, <2>6, <4>1, <4>2, <4>3
    <3>4. CASE h.op \in First
      <4>1. todo'[p] = new
        BY <1>4, <1>8, <2>4, <3>4, EmptyCalls
      <4>2. Debt(files, s) = 0 /\ Debits(files)[h] = 0
        <5>1. h.op \in Early /\ h.op \notin Weighty
          BY <1>3, <3>4 DEF First, Early, Quits, Weighty, TreeOps, TreeLoops, Toggles, CopyOps
        <5> QED
          BY <1>1, <1>2, <5>1, EarlyEnds, DebitFacts
      <4>3. Tidy(files', nextId', new) /\ Debt(files', new) = 0
        BY <3>1, <3>2, <4>2 DEF Turns
      <4>4. LiveBytes(files) \in Nat
        <5>1. \A j : j # 0 => /\ j \in Live(files) <=> j \in Live(files)
                              /\ j \in Live(files) => Bytes(files[j]) = Bytes(files[j])
          OBVIOUS
        <5> QED
          BY <1>1, <5>1, WeighOne
      <4> QED
        BY <1>6, <2>1, <2>6, <3>2, <4>1, <4>2, <4>3, <4>4
    <3> QED
      BY <3>3, <3>4
  <2>9. CASE h.op \in Plain \ {"openUpload", "enqueue", "deleteMsg"}
    <3>1. new = <<>>
      BY <1>2, <1>8, <2>9 DEF Follows, FollowsPlace, FollowsTrash, FollowsDelete, Plain
    <3>2. \/ h.op = "add" /\ new = <<>> /\ b = h.bytes
          \/ h.op \in Toggles \cup {"setParent", "record"} /\ new = <<>> /\ b = 0
      BY <2>9, <3>1 DEF Plain, Toggles
    <3> HIDE DEF b
    <3>3. /\ Tidy(files', nextId', new \o t)
          /\ LiveBytes(files) \in Nat /\ LiveBytes(files') \in Nat
          /\ b + Debt(files', new \o t) - LiveBytes(files') = Debt(files, s) - LiveBytes(files)
      BY <1>1, <1>2, <1>3, <2>1, <2>4, <2>6, <3>2, PassTidy
    <3>4. todo'[p] = new \o t
      BY <1>4, <1>8, <2>9 DEF Plain, First
    <3>5. Debt(files, s) \in Int /\ Debt(files', new \o t) \in Int
      BY <1>1, <1>2, <2>4, <1>13, DebtsInt
    <3> QED
      BY <1>6, <2>1, <2>6, <3>3, <3>4, <3>5
  <2>10. CASE h.op \in {"openUpload", "enqueue", "deleteMsg"}
    <3>1. new = <<>>
      BY <1>2, <1>8, <2>10 DEF Follows, FollowsPlace, FollowsTrash, FollowsDelete, Plain
    <3>2. files' = files /\ nextId' = nextId /\ b = 0
      BY <2>7, <2>10
    <3>3. Debits(files)[h] = 0
      BY <1>1, <1>2, <2>10, DebitFacts DEF Toggles, CopyOps
    <3>4. Turns(files, nextId, h, new)
      BY <3>1, <3>3, TurnsNone
    <3> HIDE DEF b
    <3>5. /\ Tidy(files', nextId', new \o t)
          /\ LiveBytes(files) \in Nat /\ LiveBytes(files') \in Nat
          /\ b + Debt(files', new \o t) - LiveBytes(files') = Debt(files, s) - LiveBytes(files)
      BY <1>1, <1>2, <1>3, <2>1, <2>4, <2>6, <3>2, <3>4, PassTidy
    <3>6. todo'[p] = new \o t
      BY <1>4, <1>8, <2>10 DEF First
    <3>7. Debt(files, s) \in Int /\ Debt(files', new \o t) \in Int
      BY <1>1, <1>2, <2>4, <1>13, DebtsInt
    <3> QED
      BY <1>6, <2>1, <2>6, <3>5, <3>6, <3>7
  <2>11. CASE h.op = "insert"
    <3>1. new = (IF IsFolder(h.doc) THEN <<>> ELSE <<Add(Bytes(h.doc))>>)
                  \o (IF h.send THEN <<At("enqueue", nextId)>> ELSE <<>>)
      BY <1>2, <1>8, <2>11 DEF Follows, FollowsPlace, FollowsTrash, FollowsDelete, Plain
    <3>2. h.doc \in Doc /\ nextId \in Nat
      BY <1>1, <1>2, <2>11, FrameFields DEF Sane
    <3>3. Debt(files', new) = Bytes(h.doc)
      BY <1>1, <3>1, <3>2, InsertDebt
    <3>4. \A f \in In(new) : f.op \in {"add", "enqueue"}
      BY <2>5, <2>11 DEF MoreOps
    <3>5. b = 0
      BY <2>11
    <3> HIDE DEF b
    <3>6. /\ Tidy(files', nextId', new \o t)
          /\ LiveBytes(files) \in Nat /\ LiveBytes(files') \in Nat
          /\ b + Debt(files', new \o t) - LiveBytes(files') = Debt(files, s) - LiveBytes(files)
      <4>1. /\ Sane(files, nextId) /\ Sane(files', nextId') /\ s \in Seq(Frame) /\ s # <<>>
            /\ NoCopy(s) /\ Tidy(files, nextId, s) /\ Does(files, nextId, files', nextId', Head(s))
            /\ new \in Seq(Frame) /\ b \in Int
        BY <1>1, <1>2, <1>3, <2>1, <2>4, <2>6
      <4>2. /\ Head(s).op = "insert" /\ b = 0
            /\ \A f \in In(new) : f.op \in {"add", "enqueue"}
            /\ Debt(files', new) = Bytes(Head(s).doc)
        BY <2>11, <3>3, <3>4, <3>5
      <4> QED
        BY <4>1, <4>2, PassTidy
    <3>7. todo'[p] = new \o t
      BY <1>4, <1>8, <2>11 DEF First
    <3>8. Debt(files, s) \in Int /\ Debt(files', new \o t) \in Int
      BY <1>1, <1>2, <2>4, <1>13, DebtsInt
    <3> QED
      BY <1>6, <2>1, <2>6, <3>6, <3>7, <3>8
  <2> QED
    BY <2>8, <2>9, <2>10, <2>11
<1> QED
  BY <1>7, <1>8 DEF GoesOn

(***************************************************************************)
(* The bytes of what a copy works on.                                      *)
(***************************************************************************)
\* What has a folder that is there lies in a folder.
FoldersHold(lib) == \A j \in DOMAIN lib : lib[j].parent \in DOMAIN lib => IsFolder(lib[lib[j].parent])

LEMMA SubEmpty ==
    ASSUME NEW lib
    PROVE  SubBytes(lib, {}) = 0
<1>1. Span(lib, Live(lib), {}) \cap Live(lib) = {}
  BY SpanEmpty
<1> QED
  BY <1>1, SumEmpty DEF SubBytes

\* A document, and the live documents in it.
LEMMA SubOne ==
    ASSUME NEW lib, NEW n, Sane(lib, n), NEW i \in Live(lib)
    PROVE  SubBytes(lib, {i}) = Bytes(lib[i]) + SubBytes(lib, LiveChildren(lib, i))
<1> DEFINE K == Live(lib)
           A == Span(lib, K, LiveChildren(lib, i))
           S == Span(lib, K, {i}) \cap K
<1>1. IsFiniteSet(K) /\ K \subseteq DOMAIN lib /\ \A j \in DOMAIN lib : Bytes(lib[j]) \in Nat /\ Weights(lib)[j] = Bytes(lib[j])
  BY SaneFacts
<1>2. LiveChildren(lib, i) = Inside(lib, K, i)
  BY DEF LiveChildren, Children, Inside, Live
<1>3. Acyclic(lib)
  BY DEF Sane
<1>4. Span(lib, K, {i}) = {i} \cup A /\ i \notin A
  BY <1>1, <1>2, <1>3, SpanOne, SpanNotIn
<1>5. i \in S /\ S \ {i} = A \cap K
  BY <1>4
<1>6. S \subseteq K
  OBVIOUS
<1> HIDE DEF S, A, K
<1>7. IsFiniteSet(S) /\ \A x \in S : Weights(lib)[x] \in Int
  BY <1>1, <1>6, FS_Subset
<1>8. SumOf(Weights(lib), S) = Weights(lib)[i] + SumOf(Weights(lib), S \ {i})
  BY <1>5, <1>7, SumSplit
<1>9. Weights(lib)[i] = Bytes(lib[i])
  BY <1>1 DEF K
<1> QED
  BY <1>5, <1>8, <1>9 DEF SubBytes, S, A, K

\* Nothing lies in a file.
LEMMA FileHolds ==
    ASSUME NEW lib, FoldersHold(lib), NEW i \in DOMAIN lib, ~IsFolder(lib[i])
    PROVE  Children(lib, i) = {} /\ LiveChildren(lib, i) = {}
BY DEF FoldersHold, Children, LiveChildren

\* Documents of one folder.
LEMMA SubSplit ==
    ASSUME NEW lib, NEW n, Sane(lib, n), NEW S, S \subseteq DOMAIN lib, NEW q, \A x \in S : lib[x].parent = q,
           NEW A, NEW B, A \subseteq S, B \subseteq S, A \cap B = {}
    PROVE  SubBytes(lib, A \cup B) = SubBytes(lib, A) + SubBytes(lib, B)
<1> DEFINE K == Live(lib)
           P == Span(lib, K, A) \cap K
           Q == Span(lib, K, B) \cap K
<1>1. IsFiniteSet(K) /\ K \subseteq DOMAIN lib /\ \A j \in DOMAIN lib : Bytes(lib[j]) \in Nat /\ Weights(lib)[j] = Bytes(lib[j])
  BY SaneFacts
<1>2. Acyclic(lib)
  BY DEF Sane
<1>3. Span(lib, K, A) \cap Span(lib, K, B) = {}
  BY <1>1, <1>2, SpanApart
<1>4. Span(lib, K, A \cup B) \cap K = P \cup Q /\ P \cap Q = {}
  BY <1>3, SpanUnion
<1>5. P \subseteq K /\ Q \subseteq K
  OBVIOUS
<1> HIDE DEF P, Q, K
<1>6. IsFiniteSet(P) /\ IsFiniteSet(Q) /\ P \cap Q = {} /\ \A x \in P \cup Q : Weights(lib)[x] \in Int
  BY <1>1, <1>4, <1>5, FS_Subset
<1>7. SumOf(Weights(lib), P \cup Q) = SumOf(Weights(lib), P) + SumOf(Weights(lib), Q)
  BY <1>6, SumUnion
<1> QED
  BY <1>4, <1>7 DEF SubBytes, P, Q, K

\* A new document outside a set that holds all that lies in its members.
LEMMA SubInsert ==
    ASSUME NEW lib, NEW n, Sane(lib, n), NEW lib2, Sane(lib2, n + 1),
           DOMAIN lib2 = DOMAIN lib \cup {n}, \A j \in DOMAIN lib : lib2[j] = lib[j], IsLive(lib2[n]),
           NEW U, U \subseteq DOMAIN lib, ClosedIn(lib, DOMAIN lib, U), lib2[n].parent \notin U,
           NEW S, S \subseteq U
    PROVE  SubBytes(lib2, S) = SubBytes(lib, S)
<1> DEFINE K == Live(lib)
           A == Span(lib, K, S)
           B == Span(lib2, K \cup {n}, S)
<1>1. /\ IsFiniteSet(K) /\ K \subseteq DOMAIN lib
      /\ \A j \in DOMAIN lib : Bytes(lib[j]) \in Nat /\ Weights(lib)[j] = Bytes(lib[j])
  BY SaneFacts
<1>2. \A j \in DOMAIN lib2 : Weights(lib2)[j] = Bytes(lib2[j])
  BY SaneFacts
<1>3. n \in Nat /\ DOMAIN lib \subseteq 1 .. (n - 1) /\ \A j \in DOMAIN lib : lib[j].parent \in 0 .. (n - 1)
  BY DEF Sane
<1>4. n \notin DOMAIN lib /\ \A j \in DOMAIN lib : lib[j].parent # n
  BY <1>3
<1>5. Live(lib2) = K \cup {n}
  BY DEF Live
<1>6. lib2[n].parent # n
  <2>1. \A T \in SUBSET DOMAIN lib2 : T # {} => \E i \in T : lib2[i].parent \notin T
    BY DEF Sane, Acyclic
  <2>2. {n} \in SUBSET DOMAIN lib2
    OBVIOUS
  <2> QED
    BY <2>1, <2>2
<1>7. A \subseteq U
  <2>1. ClosedIn(lib, K, U)
    BY <1>1 DEF ClosedIn
  <2> QED
    BY <2>1, SpanLeast
<1>8. n \notin S \cup K /\ \A j \in K : lib2[j].parent = lib[j].parent /\ lib[j].parent # n
  BY <1>1, <1>4
<1>9. A \subseteq B /\ B \subseteq A \cup {n} /\ (n \in B => lib2[n].parent \in A)
  BY <1>6, <1>8, SpanInsert
<1>10. B = A /\ n \notin A
  BY <1>4, <1>7, <1>9
<1>11. B \cap Live(lib2) = A \cap K
  BY <1>5, <1>10
<1> DEFINE P == A \cap K
<1>12. P \subseteq K
  OBVIOUS
<1> HIDE DEF A, B, K, P
<1>13. IsFiniteSet(P) /\ \A x \in P : Weights(lib)[x] \in Int
  BY <1>1, <1>12, FS_Subset
<1>14. \A x \in P : Weights(lib2)[x] = Weights(lib)[x]
  BY <1>1, <1>2, <1>12
<1>15. SumOf(Weights(lib2), P) = SumOf(Weights(lib), P)
  BY <1>13, <1>14, SumEqual
<1> QED
  BY <1>5, <1>11, <1>15 DEF SubBytes, A, B, K, P

\* The libraries differ in nothing but the messages.
SameTree(lib, lib2) ==
    /\ DOMAIN lib2 = DOMAIN lib
    /\ \A j \in DOMAIN lib : /\ lib2[j].parent = lib[j].parent /\ lib2[j].kind = lib[j].kind
                             /\ lib2[j].trash = lib[j].trash

LEMMA SameFacts ==
    ASSUME NEW lib, NEW n, Sane(lib, n), NEW lib2, Sane(lib2, n), SameTree(lib, lib2)
    PROVE  /\ Live(lib2) = Live(lib)
           /\ \A j \in DOMAIN lib : IsFolder(lib2[j]) <=> IsFolder(lib[j])
           /\ \A i : LiveChildren(lib2, i) = LiveChildren(lib, i)
           /\ \A S : Span(lib2, DOMAIN lib2, S) = Span(lib, DOMAIN lib, S)
           /\ \A S : SubBytes(lib2, S) = SubBytes(lib, S)
           /\ LiveBytes(lib2) = LiveBytes(lib)
<1>1. Live(lib2) = Live(lib) /\ \A j \in DOMAIN lib : (IsFolder(lib2[j]) <=> IsFolder(lib[j])) /\ Bytes(lib2[j]) = Bytes(lib[j])
  BY DEF SameTree, Live, IsLive, IsFolder, Bytes
<1>2. \A i : LiveChildren(lib2, i) = LiveChildren(lib, i)
  BY DEF SameTree, LiveChildren, Children, IsLive
<1>3. \A S : Span(lib2, DOMAIN lib2, S) = Span(lib, DOMAIN lib, S)
  BY SpanSame DEF SameTree
<1>4. /\ IsFiniteSet(Live(lib)) /\ Live(lib) \subseteq DOMAIN lib
      /\ \A j \in DOMAIN lib : Bytes(lib[j]) \in Nat /\ Weights(lib)[j] = Bytes(lib[j])
  BY SaneFacts
<1>5. \A S : Span(lib2, Live(lib), S) = Span(lib, Live(lib), S)
  BY <1>4, SpanSame DEF SameTree
<1>6. \A j \in DOMAIN lib : Weights(lib2)[j] = Weights(lib)[j]
  BY <1>1, <1>4 DEF Weights, SameTree
<1>7. ASSUME NEW P, P \subseteq Live(lib)
      PROVE  SumOf(Weights(lib2), P) = SumOf(Weights(lib), P)
  <2>1. IsFiniteSet(P) /\ (\A x \in P : Weights(lib)[x] \in Int) /\ (\A x \in P : Weights(lib2)[x] = Weights(lib)[x])
    BY <1>4, <1>6, <1>7, FS_Subset
  <2> QED
    BY <2>1, SumEqual
<1>8. ASSUME NEW S PROVE SubBytes(lib2, S) = SubBytes(lib, S)
  BY <1>1, <1>5, <1>7 DEF SubBytes
<1>9. LiveBytes(lib2) = LiveBytes(lib)
  <2>1. IsFiniteSet(DOMAIN lib) /\ \A j \in DOMAIN lib : lib[j] \in Doc
    BY SaneFacts DEF Sane
  <2>2. LiveBytes(lib) = SumOf(Weights(lib), Live(lib))
    BY <2>1, LiveBytesIs
  <2>3. IsFiniteSet(DOMAIN lib2) /\ \A j \in DOMAIN lib2 : lib2[j] \in Doc
    BY SaneFacts DEF Sane
  <2>4. LiveBytes(lib2) = SumOf(Weights(lib2), Live(lib2))
    BY <2>3, LiveBytesIs
  <2> QED
    BY <1>1, <1>7, <2>2, <2>4
<1> QED
  BY <1>1, <1>2, <1>3, <1>8, <1>9

(***************************************************************************)
(* The calls of a copy.                                                    *)
(***************************************************************************)
LiveKept(lib, i, d) == i \in Live(lib) /\ lib[i].kind = d.kind

\* The list of a loop over live documents of one folder.
Listed(lib, kids) ==
    /\ \A k \in kids : LiveKept(lib, k.id, k.doc)
    /\ \A k, l \in kids : k.id = l.id => k = l
    /\ \E q \in Nat : \A k \in kids : lib[k.id].parent = q

\* The calls that measure.
SizeFrames(lib) ==
    {f \in Frame : \/ f.op = "size" /\ LiveKept(lib, f.id, f.doc)
                   \/ f.op = "sizeEach" /\ Listed(lib, f.kids)}

\* The calls that copy documents of U to folders outside U.
CopyFrames(lib, U) ==
    {f \in Frame : \/ f.op = "copyDoc" /\ LiveKept(lib, f.id, f.doc) /\ f.id \in U /\ f.to \notin U
                   \/ f.op = "copyChildren" /\ f.id \in U /\ f.to \notin U
                   \/ f.op = "copyEach" /\ Listed(lib, f.kids) /\ IdsOf(f.kids) \subseteq U /\ f.to \notin U}

\* What a call that measures is going to add to the total.
Sizes(lib) ==
    [f \in Frame |->
       IF f.op = "size" THEN SubBytes(lib, {f.id})
       ELSE IF f.op = "sizeEach" THEN SubBytes(lib, IdsOf(f.kids)) ELSE 0]

LEMMA SizesFacts ==
    ASSUME NEW lib, NEW n, Sane(lib, n)
    PROVE  /\ \A f \in Frame : Sizes(lib)[f] \in Int
           /\ \A f \in Frame : f.op = "size" => Sizes(lib)[f] = SubBytes(lib, {f.id})
           /\ \A f \in Frame : f.op = "sizeEach" => Sizes(lib)[f] = SubBytes(lib, IdsOf(f.kids))
           /\ \A f \in Frame : f.op = "copyDoc" => Debits(lib)[f] = - SubBytes(lib, {f.id})
           /\ \A f \in Frame : f.op = "copyChildren" => Debits(lib)[f] = - SubBytes(lib, LiveChildren(lib, f.id))
           /\ \A f \in Frame : f.op = "copyEach" => Debits(lib)[f] = - SubBytes(lib, IdsOf(f.kids))
<1>1. \A S : SubBytes(lib, S) \in Int
  BY AllCosted
<1>2. \A f \in Frame : f.op = "size" => Sizes(lib)[f] = SubBytes(lib, {f.id})
  BY DEF Sizes
<1>3. \A f \in Frame : f.op = "sizeEach" => Sizes(lib)[f] = SubBytes(lib, IdsOf(f.kids))
  BY DEF Sizes
<1>4. \A f \in Frame : Sizes(lib)[f] \in Int
  BY <1>1 DEF Sizes
<1>5. \A f \in Frame : f.op = "copyDoc" => Debits(lib)[f] = - SubBytes(lib, {f.id})
  BY DEF Debits
<1>6. \A f \in Frame : f.op = "copyChildren" => Debits(lib)[f] = - SubBytes(lib, LiveChildren(lib, f.id))
  BY DEF Debits
<1>7. \A f \in Frame : f.op = "copyEach" => Debits(lib)[f] = - SubBytes(lib, IdsOf(f.kids))
  BY DEF Debits
<1> QED
  BY <1>2, <1>3, <1>4, <1>5, <1>6, <1>7

LEMMA ListedTakes ==
    ASSUME NEW lib, NEW n, Sane(lib, n), NEW kids, Listed(lib, kids), NEW k \in kids
    PROVE  /\ LiveKept(lib, k.id, k.doc) /\ Listed(lib, kids \ {k})
           /\ IdsOf(kids \ {k}) \subseteq IdsOf(kids) /\ k.id \in IdsOf(kids)
           /\ SubBytes(lib, IdsOf(kids)) = SubBytes(lib, {k.id}) + SubBytes(lib, IdsOf(kids \ {k}))
<1>1. LiveKept(lib, k.id, k.doc) /\ Listed(lib, kids \ {k})
  BY DEF Listed
<1>2. IdsOf(kids \ {k}) \subseteq IdsOf(kids) /\ k.id \in IdsOf(kids)
  BY DEF IdsOf
<1>3. k.id \notin IdsOf(kids \ {k})
  BY DEF Listed, IdsOf
<1>4. IdsOf(kids) = {k.id} \cup IdsOf(kids \ {k})
  BY DEF IdsOf
<1>5. PICK q \in Nat : \A l \in kids : lib[l.id].parent = q
  BY DEF Listed
<1>6. IdsOf(kids) \subseteq DOMAIN lib /\ \A x \in IdsOf(kids) : lib[x].parent = q
  BY <1>5 DEF IdsOf, Listed, LiveKept, Live
<1> DEFINE A == {k.id}
           B == IdsOf(kids \ {k})
           S == IdsOf(kids)
<1>7. A \subseteq S /\ B \subseteq S /\ A \cap B = {} /\ S = A \cup B
  BY <1>2, <1>3, <1>4
<1>71. S \subseteq DOMAIN lib /\ (\A x \in S : lib[x].parent = q) /\ A \subseteq S /\ B \subseteq S /\ A \cap B = {}
  BY <1>6, <1>7
<1> HIDE DEF A, B, S
<1>8. SubBytes(lib, A \cup B) = SubBytes(lib, A) + SubBytes(lib, B)
  BY <1>71, SubSplit
<1>9. SubBytes(lib, S) = SubBytes(lib, A) + SubBytes(lib, B)
  BY <1>7, <1>8
<1> QED
  BY <1>1, <1>2, <1>9 DEF A, B, S

LEMMA ListedFound ==
    ASSUME NEW lib, NEW n, Sane(lib, n), NEW i \in Nat
    PROVE  /\ Listed(lib, Found(lib, LiveChildren(lib, i)))
           /\ Found(lib, LiveChildren(lib, i)) \subseteq Kid
           /\ IdsOf(Found(lib, LiveChildren(lib, i))) = LiveChildren(lib, i)
<1>1. \A j \in LiveChildren(lib, i) : j \in DOMAIN lib /\ j \in Live(lib) /\ lib[j].parent = i /\ j \in Nat /\ lib[j] \in Doc
  BY DEF LiveChildren, Children, Live, Sane
<1>2. Found(lib, LiveChildren(lib, i)) \subseteq Kid
  BY <1>1 DEF Found, Kid
<1>3. \A k \in Found(lib, LiveChildren(lib, i)) : k.id \in LiveChildren(lib, i) /\ k.doc = lib[k.id]
                                                   /\ k = [id |-> k.id, doc |-> lib[k.id]]
  BY DEF Found
<1>4. \A k \in Found(lib, LiveChildren(lib, i)) : LiveKept(lib, k.id, k.doc) /\ lib[k.id].parent = i
  BY <1>1, <1>3 DEF LiveKept
<1>5. \A k, l \in Found(lib, LiveChildren(lib, i)) : k.id = l.id => k = l
  BY <1>3
<1>6. Listed(lib, Found(lib, LiveChildren(lib, i)))
  BY <1>4, <1>5 DEF Listed
<1> QED
  BY <1>2, <1>6, FoundIds

\* A loop that is left out when its list is empty.
LEMMA EachTally ==
    ASSUME NEW w, NEW X, NEW op, NEW kids, NEW to, NEW v \in Int,
           kids # {} => w[Loop(op, kids, to)] = v /\ Loop(op, kids, to) \in X,
           kids = {} => v = 0
    PROVE  Each(op, kids, to) \in Seq(X) /\ Tally(w, Each(op, kids, to)) = v
<1>1. CASE kids = {}
  <2>1. Each(op, kids, to) = <<>> /\ v = 0
    BY <1>1 DEF Each
  <2> QED
    BY <2>1, NoFrames, TallyEmpty
<1>2. CASE kids # {}
  <2>1. Each(op, kids, to) = <<Loop(op, kids, to)>> /\ w[Loop(op, kids, to)] = v /\ Loop(op, kids, to) \in X
    BY <1>2 DEF Each, Loop
  <2>2. <<Loop(op, kids, to)>> \in Seq(X)
    BY <2>1, Single
  <2>3. Tally(w, <<Loop(op, kids, to)>>) = v
    BY <2>1, TallyOne
  <2> QED
    BY <2>1, <2>2, <2>3
<1> QED
  BY <1>1, <1>2

LEMMA LoopFrame ==
    ASSUME NEW op \in EachOps, NEW kids \in SUBSET Kid, NEW to \in Nat
    PROVE  /\ Loop(op, kids, to) \in Frame /\ Loop(op, kids, to).op = op
           /\ Loop(op, kids, to).kids = kids /\ Loop(op, kids, to).to = to
BY DEF Loop, Frame

LEMMA IdsEmpty == IdsOf({}) = {}
BY DEF IdsOf

\* The loop over documents of U, when it measures and when it copies.
LEMMA SizeLoop ==
    ASSUME NEW lib, NEW n, Sane(lib, n), NEW kids \in SUBSET Kid, Listed(lib, kids), NEW to \in Nat
    PROVE  /\ Each("sizeEach", kids, to) \in Seq(SizeFrames(lib))
           /\ Tally(Sizes(lib), Each("sizeEach", kids, to)) = SubBytes(lib, IdsOf(kids))
<1>1. Loop("sizeEach", kids, to) \in Frame /\ Loop("sizeEach", kids, to).op = "sizeEach" /\ Loop("sizeEach", kids, to).kids = kids
  BY LoopFrame DEF EachOps
<1>2. Loop("sizeEach", kids, to) \in SizeFrames(lib)
  BY <1>1 DEF SizeFrames
<1>3. Sizes(lib)[Loop("sizeEach", kids, to)] = SubBytes(lib, IdsOf(kids))
  BY <1>1, SizesFacts
<1>4. SubBytes(lib, IdsOf(kids)) \in Int
  BY AllCosted
<1>5. kids = {} => SubBytes(lib, IdsOf(kids)) = 0
  BY IdsEmpty, SubEmpty
<1> QED
  BY <1>2, <1>3, <1>4, <1>5, EachTally

LEMMA CopyLoop ==
    ASSUME NEW lib, NEW n, Sane(lib, n), NEW kids \in SUBSET Kid, Listed(lib, kids), NEW to \in Nat,
           NEW U, IdsOf(kids) \subseteq U, to \notin U
    PROVE  /\ Each("copyEach", kids, to) \in Seq(CopyFrames(lib, U))
           /\ Debt(lib, Each("copyEach", kids, to)) = - SubBytes(lib, IdsOf(kids))
<1>1. /\ Loop("copyEach", kids, to) \in Frame /\ Loop("copyEach", kids, to).op = "copyEach"
      /\ Loop("copyEach", kids, to).kids = kids /\ Loop("copyEach", kids, to).to = to
  BY LoopFrame DEF EachOps
<1>2. Loop("copyEach", kids, to) \in CopyFrames(lib, U)
  BY <1>1 DEF CopyFrames
<1>3. Debits(lib)[Loop("copyEach", kids, to)] = - SubBytes(lib, IdsOf(kids))
  BY <1>1, SizesFacts
<1>4. SubBytes(lib, IdsOf(kids)) \in Int
  BY AllCosted
<1>5. kids = {} => SubBytes(lib, IdsOf(kids)) = 0
  BY IdsEmpty, SubEmpty
<1>6. - SubBytes(lib, IdsOf(kids)) \in Int /\ (kids = {} => - SubBytes(lib, IdsOf(kids)) = 0)
  BY <1>4, <1>5, NegZero
<1>7. Tally(Debits(lib), Each("copyEach", kids, to)) = - SubBytes(lib, IdsOf(kids)) /\ Each("copyEach", kids, to) \in Seq(CopyFrames(lib, U))
  BY <1>2, <1>3, <1>6, EachTally
<1> QED
  BY <1>7 DEF Debt

(***************************************************************************)
(* A copy, call by call.                                                   *)
(***************************************************************************)
LEMMA Wider ==
    ASSUME NEW A, NEW B, A \subseteq B, NEW s \in Seq(A)
    PROVE  s \in Seq(B)
OBVIOUS

LEMMA HeadTail ==
    ASSUME NEW F, NEW z \in Seq(F), z # <<>>, NEW a \in Seq(F)
    PROVE  /\ Head(z) \in F /\ Tail(z) \in Seq(F) /\ z \o a \in Seq(F) /\ z \o a # <<>>
           /\ Head(z \o a) = Head(z) /\ Tail(z \o a) = Tail(z) \o a
<1>1. Head(z) \in F
  OBVIOUS
<1>2. Tail(z) \in Seq(F)
  OBVIOUS
<1>3. z \o a \in Seq(F) /\ z \o a # <<>>
  BY Concat
<1>4. Head(z \o a) = Head(z)
  OBVIOUS
<1>5. Tail(z \o a) = Tail(z) \o a
  OBVIOUS
<1> QED
  BY <1>1, <1>2, <1>3, <1>4, <1>5

\* The next call of a sequence that stands before others.
LEMMA ReadyBefore ==
    ASSUME NEW z \in Seq(Frame), z # <<>>, NEW a \in Seq(Frame), NEW s \in Ready(z \o a)
    PROVE  \/ s = z \o a /\ Head(z).op \notin EachOps
           \/ /\ Head(z).op \in EachOps
              /\ \E k \in Head(z).kids :
                   s = ((Iteration(Head(z).op, k, Head(z).to) \o Each(Head(z).op, Head(z).kids \ {k}, Head(z).to))
                          \o Tail(z)) \o a
<1>1. Head(z \o a) = Head(z) /\ Tail(z \o a) = Tail(z) \o a /\ Tail(z) \in Seq(Frame)
  BY HeadTail
<1>2. CASE s = z \o a /\ Head(z \o a).op \notin EachOps
  BY <1>1, <1>2
<1>3. CASE \E k : Takes(Head(z \o a), k, Tail(z \o a), s)
  <2>1. PICK k : Takes(Head(z), k, Tail(z) \o a, s)
    BY <1>1, <1>3
  <2> DEFINE l == Head(z)
             i == Iteration(l.op, k, l.to)
             e == Each(l.op, l.kids \ {k}, l.to)
             t == Tail(z)
             G == Frame \cup IterationMade(l.op, k, l.to) \cup {Loop(l.op, l.kids \ {k}, l.to)}
  <2>2. l.op \in EachOps /\ k \in l.kids /\ s = i \o e \o (t \o a)
    BY <2>1 DEF Takes
  <2>3. i \in Seq(IterationMade(l.op, k, l.to)) /\ e \in Seq({Loop(l.op, l.kids \ {k}, l.to)})
    BY <2>2, IterationIn, LaterIn
  <2>31. t \in Seq(Frame)
    BY <1>1
  <2>32. /\ IterationMade(l.op, k, l.to) \subseteq G /\ {Loop(l.op, l.kids \ {k}, l.to)} \subseteq G /\ Frame \subseteq G
    OBVIOUS
  <2> HIDE DEF i, e, t, G
  <2>4. i \in Seq(G) /\ e \in Seq(G) /\ t \in Seq(G) /\ a \in Seq(G)
    BY <2>3, <2>31, <2>32, Wider
  <2>5. i \o e \in Seq(G)
    BY <2>4, Concat
  <2>6. (i \o e) \o t \o a = (i \o e) \o (t \o a)
    BY <2>4, <2>5, Concat3
  <2>7. s = ((i \o e) \o t) \o a
    BY <2>2, <2>6
  <2>8. s = ((Iteration(Head(z).op, k, Head(z).to) \o Each(Head(z).op, Head(z).kids \ {k}, Head(z).to)) \o Tail(z)) \o a
    BY <2>7 DEF i, e, t
  <2> QED
    BY <2>2, <2>8
<1> QED
  BY <1>2, <1>3, ReadyShape

\* Taking the next document, when measuring and when copying.
LEMMA SizeTakes ==
    ASSUME NEW lib, NEW n, Sane(lib, n), NEW f \in SizeFrames(lib), f.op \in EachOps, NEW k \in f.kids
    PROVE  /\ f.op = "sizeEach" /\ f \in Frame
           /\ Iteration(f.op, k, f.to) = <<Of("size", k.id, k.doc)>>
           /\ <<Of("size", k.id, k.doc)>> \in Seq(SizeFrames(lib))
           /\ Each(f.op, f.kids \ {k}, f.to) \in Seq(SizeFrames(lib))
           /\ Sizes(lib)[f] = Tally(Sizes(lib), <<Of("size", k.id, k.doc)>>) + Tally(Sizes(lib), Each(f.op, f.kids \ {k}, f.to))
<1>1. f.op = "sizeEach" /\ f \in Frame /\ Listed(lib, f.kids)
  BY DEF SizeFrames, EachOps
<1>2. f.kids \in SUBSET Kid /\ f.to \in Nat
  BY <1>1, FrameFields DEF EachOps
<1>3. k \in Kid /\ k.id \in Nat /\ k.doc \in Doc
  BY <1>2 DEF Kid
<1>4. /\ LiveKept(lib, k.id, k.doc) /\ Listed(lib, f.kids \ {k})
      /\ SubBytes(lib, IdsOf(f.kids)) = SubBytes(lib, {k.id}) + SubBytes(lib, IdsOf(f.kids \ {k}))
  BY <1>1, ListedTakes
<1> DEFINE x == Of("size", k.id, k.doc)
<1>5. x \in Frame /\ x.op = "size" /\ x.id = k.id /\ x.doc = k.doc
  BY <1>3 DEF Of, Frame, DocOps
<1>6. Iteration(f.op, k, f.to) = <<x>>
  BY <1>1 DEF Iteration
<1>7. x \in SizeFrames(lib) /\ Sizes(lib)[x] = SubBytes(lib, {k.id})
  BY <1>4, <1>5, SizesFacts DEF SizeFrames
<1> HIDE DEF x
<1>8. SubBytes(lib, {k.id}) \in Int
  BY AllCosted
<1>9. Tally(Sizes(lib), <<x>>) = SubBytes(lib, {k.id})
  BY <1>7, <1>8, TallyOne
<1>10. f.kids \ {k} \in SUBSET Kid
  BY <1>2
<1>11. /\ Each("sizeEach", f.kids \ {k}, f.to) \in Seq(SizeFrames(lib))
       /\ Tally(Sizes(lib), Each("sizeEach", f.kids \ {k}, f.to)) = SubBytes(lib, IdsOf(f.kids \ {k}))
  BY <1>2, <1>4, <1>10, SizeLoop
<1>12. Sizes(lib)[f] = SubBytes(lib, IdsOf(f.kids))
  BY <1>1, SizesFacts
<1>13. <<x>> \in Seq(SizeFrames(lib))
  BY <1>7, Single
<1>14. Sizes(lib)[f] = Tally(Sizes(lib), <<x>>) + Tally(Sizes(lib), Each(f.op, f.kids \ {k}, f.to))
  BY <1>1, <1>4, <1>9, <1>11, <1>12
<1> QED
  BY <1>1, <1>6, <1>11, <1>13, <1>14 DEF x

LEMMA CopyTakes ==
    ASSUME NEW lib, NEW n, Sane(lib, n), NEW U, NEW f \in CopyFrames(lib, U), f.op \in EachOps, NEW k \in f.kids
    PROVE  /\ f.op = "copyEach" /\ f \in Frame
           /\ Iteration(f.op, k, f.to) = <<Copy("copyDoc", k.id, k.doc, f.to)>>
           /\ <<Copy("copyDoc", k.id, k.doc, f.to)>> \in Seq(CopyFrames(lib, U))
           /\ Each(f.op, f.kids \ {k}, f.to) \in Seq(CopyFrames(lib, U))
           /\ Debits(lib)[f] = Debt(lib, <<Copy("copyDoc", k.id, k.doc, f.to)>>) + Debt(lib, Each(f.op, f.kids \ {k}, f.to))
<1>1. f.op = "copyEach" /\ f \in Frame /\ Listed(lib, f.kids) /\ IdsOf(f.kids) \subseteq U /\ f.to \notin U
  BY DEF CopyFrames, EachOps
<1>2. f.kids \in SUBSET Kid /\ f.to \in Nat
  BY <1>1, FrameFields DEF EachOps
<1>3. k \in Kid /\ k.id \in Nat /\ k.doc \in Doc
  BY <1>2 DEF Kid
<1>4. /\ LiveKept(lib, k.id, k.doc) /\ Listed(lib, f.kids \ {k})
      /\ IdsOf(f.kids \ {k}) \subseteq IdsOf(f.kids) /\ k.id \in IdsOf(f.kids)
      /\ SubBytes(lib, IdsOf(f.kids)) = SubBytes(lib, {k.id}) + SubBytes(lib, IdsOf(f.kids \ {k}))
  BY <1>1, ListedTakes
<1> DEFINE x == Copy("copyDoc", k.id, k.doc, f.to)
<1>5. x \in Frame /\ x.op = "copyDoc" /\ x.id = k.id /\ x.doc = k.doc /\ x.to = f.to
  BY <1>2, <1>3 DEF Copy, Frame
<1>6. Iteration(f.op, k, f.to) = <<x>>
  BY <1>1 DEF Iteration
<1>7. x \in CopyFrames(lib, U) /\ Debits(lib)[x] = - SubBytes(lib, {k.id})
  BY <1>1, <1>4, <1>5, SizesFacts DEF CopyFrames
<1> HIDE DEF x
<1>8. SubBytes(lib, {k.id}) \in Int /\ SubBytes(lib, IdsOf(f.kids \ {k})) \in Int
  BY AllCosted
<1>81. - SubBytes(lib, {k.id}) \in Int
  BY <1>8
<1>9. Debt(lib, <<x>>) = - SubBytes(lib, {k.id})
  BY <1>7, <1>81, TallyOne DEF Debt
<1>10. f.kids \ {k} \in SUBSET Kid /\ IdsOf(f.kids \ {k}) \subseteq U
  BY <1>1, <1>2, <1>4
<1>11. /\ Each("copyEach", f.kids \ {k}, f.to) \in Seq(CopyFrames(lib, U))
       /\ Debt(lib, Each("copyEach", f.kids \ {k}, f.to)) = - SubBytes(lib, IdsOf(f.kids \ {k}))
  BY <1>1, <1>2, <1>4, <1>10, CopyLoop
<1>12. Debits(lib)[f] = - SubBytes(lib, IdsOf(f.kids))
  BY <1>1, SizesFacts
<1>13. <<x>> \in Seq(CopyFrames(lib, U))
  BY <1>7, Single
<1>14. Debits(lib)[f] = Debt(lib, <<x>>) + Debt(lib, Each(f.op, f.kids \ {k}, f.to))
  BY <1>1, <1>4, <1>8, <1>9, <1>11, <1>12
<1> QED
  BY <1>1, <1>6, <1>11, <1>13, <1>14 DEF x

\* The same in what a process has to do.
LEMMA SizeReady ==
    ASSUME NEW lib, NEW n, Sane(lib, n), NEW z \in Seq(SizeFrames(lib)), z # <<>>, NEW a \in Seq(Frame),
           NEW s \in Ready(z \o a)
    PROVE  \E r \in Seq(SizeFrames(lib)) : /\ r # <<>> /\ s = r \o a /\ Head(r).op = "size"
                                           /\ Tally(Sizes(lib), r) = Tally(Sizes(lib), z)
<1> DEFINE X == SizeFrames(lib)
           w == Sizes(lib)
<1>1. X \subseteq Frame /\ \A f \in X : w[f] \in Int
  BY SizesFacts DEF SizeFrames
<1>2. z \in Seq(Frame)
  BY <1>1, Wider
<1>3. Head(z) \in X
  OBVIOUS
<1>31. Tail(z) \in Seq(X)
  OBVIOUS
<1>4. CASE s = z \o a /\ Head(z).op \notin EachOps
  <2>1. Head(z).op = "size"
    BY <1>3, <1>4 DEF SizeFrames, EachOps
  <2> QED
    BY <1>4, <2>1
<1>5. CASE Head(z).op \in EachOps /\ \E k \in Head(z).kids :
                   s = ((Iteration(Head(z).op, k, Head(z).to) \o Each(Head(z).op, Head(z).kids \ {k}, Head(z).to))
                          \o Tail(z)) \o a
  <2>1. PICK k \in Head(z).kids :
               s = ((Iteration(Head(z).op, k, Head(z).to) \o Each(Head(z).op, Head(z).kids \ {k}, Head(z).to))
                          \o Tail(z)) \o a
    BY <1>5
  <2> DEFINE f == Head(z)
             x == Of("size", k.id, k.doc)
             i == <<x>>
             e == Each(f.op, f.kids \ {k}, f.to)
             t == Tail(z)
  <2>2. Iteration(f.op, k, f.to) = i /\ i \in Seq(X) /\ e \in Seq(X) /\ w[f] = Tally(w, i) + Tally(w, e)
    BY <1>3, <1>5, SizeTakes
  <2>3. x.op = "size" /\ Head(i) = x /\ i # <<>>
    BY DEF Of
  <2>4. Tally(w, z) = w[f] + Tally(w, t)
    <3>1. z \in Seq(X) /\ z # <<>> /\ \A g \in X : w[g] \in Int
      BY <1>1
    <3> HIDE DEF X, w
    <3>2. Tally(w, z) = w[Head(z)] + Tally(w, Tail(z))
      BY <3>1, TallyHead
    <3> QED
      BY <3>2
  <2>5. s = ((i \o e) \o t) \o a
    BY <2>1, <2>2
  <2> HIDE DEF i, e, t, f, X, w, x
  <2>6. t \in Seq(X)
    BY <1>31 DEF t
  <2>7. i \o e \in Seq(X) /\ i \o e # <<>> /\ Head(i \o e) = Head(i)
    BY <2>2, <2>3, HeadTail
  <2>8. (i \o e) \o t \in Seq(X) /\ (i \o e) \o t # <<>> /\ Head((i \o e) \o t) = Head(i \o e)
    BY <2>6, <2>7, HeadTail
  <2>9. Tally(w, i \o e) = Tally(w, i) + Tally(w, e)
    BY <1>1, <2>2, TallyConcat
  <2>10. Tally(w, (i \o e) \o t) = Tally(w, i \o e) + Tally(w, t)
    BY <1>1, <2>6, <2>7, TallyConcat
  <2>11. Tally(w, (i \o e) \o t) = Tally(w, z)
    BY <2>2, <2>4, <2>9, <2>10
  <2>12. Head((i \o e) \o t).op = "size"
    BY <2>3, <2>7, <2>8
  <2> QED
    BY <2>5, <2>8, <2>11, <2>12 DEF X, w
<1> QED
  BY <1>2, <1>4, <1>5, ReadyBefore

LEMMA CopyReady ==
    ASSUME NEW lib, NEW n, Sane(lib, n), NEW U, NEW z \in Seq(CopyFrames(lib, U)), z # <<>>, NEW a \in Seq(Frame),
           NEW s \in Ready(z \o a)
    PROVE  \E r \in Seq(CopyFrames(lib, U)) : /\ r # <<>> /\ s = r \o a /\ Head(r).op \in {"copyDoc", "copyChildren"}
                                              /\ Debt(lib, r) = Debt(lib, z)
<1> DEFINE X == CopyFrames(lib, U)
           w == Debits(lib)
<1>1. X \subseteq Frame /\ \A f \in X : w[f] \in Int
  BY AllCosted DEF CopyFrames
<1>2. z \in Seq(Frame)
  BY <1>1, Wider
<1>3. Head(z) \in X
  OBVIOUS
<1>31. Tail(z) \in Seq(X)
  OBVIOUS
<1>4. CASE s = z \o a /\ Head(z).op \notin EachOps
  <2>1. Head(z).op \in {"copyDoc", "copyChildren"}
    BY <1>3, <1>4 DEF CopyFrames, EachOps
  <2> QED
    BY <1>4, <2>1
<1>5. CASE Head(z).op \in EachOps /\ \E k \in Head(z).kids :
                   s = ((Iteration(Head(z).op, k, Head(z).to) \o Each(Head(z).op, Head(z).kids \ {k}, Head(z).to))
                          \o Tail(z)) \o a
  <2>1. PICK k \in Head(z).kids :
               s = ((Iteration(Head(z).op, k, Head(z).to) \o Each(Head(z).op, Head(z).kids \ {k}, Head(z).to))
                          \o Tail(z)) \o a
    BY <1>5
  <2> DEFINE f == Head(z)
             x == Copy("copyDoc", k.id, k.doc, f.to)
             i == <<x>>
             e == Each(f.op, f.kids \ {k}, f.to)
             t == Tail(z)
  <2>2. Iteration(f.op, k, f.to) = i /\ i \in Seq(X) /\ e \in Seq(X) /\ w[f] = Tally(w, i) + Tally(w, e)
    BY <1>3, <1>5, CopyTakes DEF Debt
  <2>3. x.op = "copyDoc" /\ Head(i) = x /\ i # <<>>
    BY DEF Copy
  <2>4. Tally(w, z) = w[f] + Tally(w, t)
    <3>1. z \in Seq(X) /\ z # <<>> /\ \A g \in X : w[g] \in Int
      BY <1>1
    <3> HIDE DEF X, w
    <3>2. Tally(w, z) = w[Head(z)] + Tally(w, Tail(z))
      BY <3>1, TallyHead
    <3> QED
      BY <3>2
  <2>5. s = ((i \o e) \o t) \o a
    BY <2>1, <2>2
  <2> HIDE DEF i, e, t, f, X, w, x
  <2>6. t \in Seq(X)
    BY <1>31 DEF t
  <2>7. i \o e \in Seq(X) /\ i \o e # <<>> /\ Head(i \o e) = Head(i)
    BY <2>2, <2>3, HeadTail
  <2>8. (i \o e) \o t \in Seq(X) /\ (i \o e) \o t # <<>> /\ Head((i \o e) \o t) = Head(i \o e)
    BY <2>6, <2>7, HeadTail
  <2>9. Tally(w, i \o e) = Tally(w, i) + Tally(w, e)
    BY <1>1, <2>2, TallyConcat
  <2>10. Tally(w, (i \o e) \o t) = Tally(w, i \o e) + Tally(w, t)
    BY <1>1, <2>6, <2>7, TallyConcat
  <2>11. Tally(w, (i \o e) \o t) = Tally(w, z)
    BY <2>2, <2>4, <2>9, <2>10
  <2>12. Head((i \o e) \o t).op \in {"copyDoc", "copyChildren"}
    BY <2>3, <2>7, <2>8
  <2> QED
    BY <2>5, <2>8, <2>11, <2>12 DEF X, w, Debt
<1> QED
  BY <1>2, <1>4, <1>5, ReadyBefore

\* Measuring a document.
LEMMA SizeStep ==
    ASSUME NEW lib, NEW n, Sane(lib, n), FoldersHold(lib), NEW r \in Seq(SizeFrames(lib)), r # <<>>,
           Head(r).op = "size", NEW new,
           \/ ~IsFolder(Head(r).doc) /\ new = <<>>
           \/ IsFolder(Head(r).doc) /\ new = Each("sizeEach", Found(lib, LiveChildren(lib, Head(r).id)), Root)
    PROVE  /\ new \o Tail(r) \in Seq(SizeFrames(lib)) /\ Bytes(Head(r).doc) \in Nat
           /\ Bytes(Head(r).doc) + Tally(Sizes(lib), new \o Tail(r)) = Tally(Sizes(lib), r)
<1> DEFINE X == SizeFrames(lib)
           w == Sizes(lib)
           h == Head(r)
           t == Tail(r)
<1>1. X \subseteq Frame /\ \A f \in X : w[f] \in Int
  BY SizesFacts DEF SizeFrames
<1>2. h \in X
  OBVIOUS
<1>3. t \in Seq(X)
  OBVIOUS
<1>4. h \in Frame /\ h.op = "size" /\ LiveKept(lib, h.id, h.doc) /\ h.id \in Nat /\ h.doc \in Doc
  <2>1. h \in Frame /\ h.op = "size" /\ LiveKept(lib, h.id, h.doc)
    BY <1>2 DEF SizeFrames
  <2> QED
    BY <2>1, FrameFields DEF DocOps
<1>5. h.id \in Live(lib) /\ h.id \in DOMAIN lib /\ (IsFolder(lib[h.id]) <=> IsFolder(h.doc)) /\ Bytes(lib[h.id]) = Bytes(h.doc)
  BY <1>4 DEF LiveKept, Live, IsFolder, Bytes
<1>6. w[h] = Bytes(h.doc) + SubBytes(lib, LiveChildren(lib, h.id))
  BY <1>4, <1>5, SizesFacts, SubOne
<1>7. Bytes(h.doc) \in Nat /\ SubBytes(lib, LiveChildren(lib, h.id)) \in Int
  BY <1>4, BytesNat, AllCosted
<1>8. Tally(w, r) = w[h] + Tally(w, t)
  <2>1. r \in Seq(X) /\ r # <<>> /\ \A g \in X : w[g] \in Int
    BY <1>1
  <2> HIDE DEF X, w
  <2>2. Tally(w, r) = w[Head(r)] + Tally(w, Tail(r))
    BY <2>1, TallyHead
  <2> QED
    BY <2>2
<1>9. new \in Seq(X) /\ Tally(w, new) = SubBytes(lib, LiveChildren(lib, h.id))
  <2>1. CASE ~IsFolder(h.doc) /\ new = <<>>
    <3>1. LiveChildren(lib, h.id) = {}
      BY <1>5, <2>1, FileHolds
    <3>2. new \in Seq(X) /\ Tally(w, new) = 0
      BY <2>1, NoFrames, TallyEmpty
    <3> QED
      BY <3>1, <3>2, SubEmpty
  <2>2. CASE new = Each("sizeEach", Found(lib, LiveChildren(lib, h.id)), Root)
    <3> DEFINE kids == Found(lib, LiveChildren(lib, h.id))
    <3>1. Listed(lib, kids) /\ kids \in SUBSET Kid /\ IdsOf(kids) = LiveChildren(lib, h.id)
      BY <1>4, ListedFound
    <3>2. Root \in Nat
      BY DEF Root
    <3> HIDE DEF kids
    <3>3. Each("sizeEach", kids, Root) \in Seq(X) /\ Tally(w, Each("sizeEach", kids, Root)) = SubBytes(lib, IdsOf(kids))
      BY <3>1, <3>2, SizeLoop
    <3> QED
      BY <2>2, <3>1, <3>3 DEF kids
  <2> QED
    BY <2>1, <2>2
<1> HIDE DEF X, w, h, t
<1>10. new \o t \in Seq(X)
  BY <1>3, <1>9, Concat
<1>11. Tally(w, new \o t) = Tally(w, new) + Tally(w, t)
  BY <1>1, <1>3, <1>9, TallyConcat
<1>12. Tally(w, t) \in Int
  BY <1>1, <1>3, TallyIs
<1>13. Bytes(h.doc) + Tally(w, new \o t) = Tally(w, r)
  BY <1>6, <1>7, <1>8, <1>9, <1>11, <1>12
<1>14. new \o t \in Seq(X) /\ Bytes(h.doc) \in Nat /\ Bytes(h.doc) + Tally(w, new \o t) = Tally(w, r)
  BY <1>7, <1>10, <1>13
<1> QED
  BY <1>14 DEF X, w, h, t

\* What a new document outside U leaves of the calls that copy U.
LEMMA CopyShift ==
    ASSUME NEW lib, NEW n, Sane(lib, n), NEW lib2, Sane(lib2, n + 1),
           DOMAIN lib2 = DOMAIN lib \cup {n}, \A j \in DOMAIN lib : lib2[j] = lib[j], IsLive(lib2[n]),
           NEW U, U \subseteq DOMAIN lib, ClosedIn(lib, DOMAIN lib, U), lib2[n].parent \notin U
    PROVE  /\ U \subseteq DOMAIN lib2 /\ ClosedIn(lib2, DOMAIN lib2, U) /\ n \notin U
           /\ CopyFrames(lib, U) \subseteq CopyFrames(lib2, U)
           /\ \A f \in CopyFrames(lib, U) : Debits(lib2)[f] = Debits(lib)[f]
           /\ \A S : S \subseteq U => SubBytes(lib2, S) = SubBytes(lib, S)
<1>1. n \notin DOMAIN lib
  BY DEF Sane
<1>2. U \subseteq DOMAIN lib2 /\ ClosedIn(lib2, DOMAIN lib2, U) /\ n \notin U
  BY <1>1 DEF ClosedIn
<1>3. Live(lib) \subseteq DOMAIN lib /\ Live(lib) \subseteq Live(lib2)
  BY DEF Live
<1>4. \A i, d : LiveKept(lib, i, d) => LiveKept(lib2, i, d)
  BY <1>3 DEF LiveKept
<1>5. \A kids : Listed(lib, kids) => Listed(lib2, kids)
  BY <1>3, <1>4 DEF Listed, LiveKept
<1>6. CopyFrames(lib, U) \subseteq CopyFrames(lib2, U)
  BY <1>4, <1>5 DEF CopyFrames
<1>7. ASSUME NEW S, S \subseteq U PROVE SubBytes(lib2, S) = SubBytes(lib, S)
  BY <1>7, SubInsert
<1>8. \A i \in U : LiveChildren(lib2, i) = LiveChildren(lib, i) /\ LiveChildren(lib, i) \subseteq U
  BY <1>1 DEF LiveChildren, Children, ClosedIn
<1>9. ASSUME NEW f \in CopyFrames(lib, U) PROVE Debits(lib2)[f] = Debits(lib)[f]
  <2>1. f \in Frame
    BY DEF CopyFrames
  <2>2. CASE f.op = "copyDoc" /\ f.id \in U
    <3>1. SubBytes(lib2, {f.id}) = SubBytes(lib, {f.id})
      BY <1>7, <2>2
    <3> QED
      BY <2>1, <2>2, <3>1, SizesFacts
  <2>3. CASE f.op = "copyChildren" /\ f.id \in U
    <3>1. SubBytes(lib2, LiveChildren(lib2, f.id)) = SubBytes(lib, LiveChildren(lib, f.id))
      BY <1>7, <1>8, <2>3
    <3> QED
      BY <2>1, <2>3, <3>1, SizesFacts
  <2>4. CASE f.op = "copyEach" /\ IdsOf(f.kids) \subseteq U
    <3>1. SubBytes(lib2, IdsOf(f.kids)) = SubBytes(lib, IdsOf(f.kids))
      BY <1>7, <2>4
    <3> QED
      BY <2>1, <2>4, <3>1, SizesFacts
  <2> QED
    BY <2>2, <2>3, <2>4 DEF CopyFrames
<1> QED
  BY <1>2, <1>6, <1>7, <1>9

\* The first of the calls r copies its document, and new is what it leads to.
CopyDoes(lib, n, lib2, U, r, new) ==
    /\ Sane(lib, n) /\ FoldersHold(lib) /\ Sane(lib2, n + 1)
    /\ U \subseteq DOMAIN lib /\ ClosedIn(lib, DOMAIN lib, U)
    /\ r \in Seq(CopyFrames(lib, U)) /\ r # <<>> /\ Head(r).op = "copyDoc"
    /\ DOMAIN lib2 = DOMAIN lib \cup {n} /\ \A j \in DOMAIN lib : lib2[j] = lib[j]
    /\ lib2[n] = [Head(r).doc EXCEPT !.parent = Head(r).to, !.trash = "live"]
    /\ \/ ~IsFolder(Head(r).doc) /\ new = <<>>
       \/ IsFolder(Head(r).doc) /\ new = <<Into("copyChildren", Head(r).id, n)>>

\* Copying a document.
LEMMA CopyDocStep ==
    \A lib, n, lib2, U, r, new : CopyDoes(lib, n, lib2, U, r, new) =>
      /\ U \subseteq DOMAIN lib2 /\ ClosedIn(lib2, DOMAIN lib2, U)
      /\ new \o Tail(r) \in Seq(CopyFrames(lib2, U)) /\ Bytes(Head(r).doc) \in Nat
      /\ Debt(lib2, new \o Tail(r)) = Debt(lib, r) + Bytes(Head(r).doc)
      /\ LiveBytes(lib) \in Nat /\ LiveBytes(lib2) = LiveBytes(lib) + Bytes(Head(r).doc)
<1> SUFFICES ASSUME NEW lib, NEW n, NEW lib2, NEW U, NEW r, NEW new, CopyDoes(lib, n, lib2, U, r, new)
             PROVE  /\ U \subseteq DOMAIN lib2 /\ ClosedIn(lib2, DOMAIN lib2, U)
                    /\ new \o Tail(r) \in Seq(CopyFrames(lib2, U)) /\ Bytes(Head(r).doc) \in Nat
                    /\ Debt(lib2, new \o Tail(r)) = Debt(lib, r) + Bytes(Head(r).doc)
                    /\ LiveBytes(lib) \in Nat /\ LiveBytes(lib2) = LiveBytes(lib) + Bytes(Head(r).doc)
  OBVIOUS
<1>0. /\ Sane(lib, n) /\ FoldersHold(lib) /\ Sane(lib2, n + 1)
      /\ U \subseteq DOMAIN lib /\ ClosedIn(lib, DOMAIN lib, U)
      /\ r \in Seq(CopyFrames(lib, U)) /\ r # <<>> /\ Head(r).op = "copyDoc"
      /\ DOMAIN lib2 = DOMAIN lib \cup {n} /\ \A j \in DOMAIN lib : lib2[j] = lib[j]
      /\ lib2[n] = [Head(r).doc EXCEPT !.parent = Head(r).to, !.trash = "live"]
      /\ \/ ~IsFolder(Head(r).doc) /\ new = <<>>
         \/ IsFolder(Head(r).doc) /\ new = <<Into("copyChildren", Head(r).id, n)>>
  BY DEF CopyDoes
<1> USE <1>0
<1> DEFINE X == CopyFrames(lib, U)
           Y == CopyFrames(lib2, U)
           w == Debits(lib)
           v == Debits(lib2)
           h == Head(r)
           t == Tail(r)
<1>1. X \subseteq Frame /\ \A f \in X : w[f] \in Int
  BY AllCosted DEF CopyFrames
<1>2. h \in X
  OBVIOUS
<1>3. t \in Seq(X)
  OBVIOUS
<1>4. h \in Frame /\ h.op = "copyDoc" /\ LiveKept(lib, h.id, h.doc) /\ h.id \in U /\ h.to \notin U
      /\ h.id \in Nat /\ h.doc \in Doc /\ h.to \in Nat
  <2>1. h \in Frame /\ h.op = "copyDoc" /\ LiveKept(lib, h.id, h.doc) /\ h.id \in U /\ h.to \notin U
    BY <1>2 DEF CopyFrames
  <2> QED
    BY <2>1, FrameFields
<1>5. h.id \in Live(lib) /\ h.id \in DOMAIN lib /\ (IsFolder(lib[h.id]) <=> IsFolder(h.doc)) /\ Bytes(lib[h.id]) = Bytes(h.doc)
  BY <1>4 DEF LiveKept, Live, IsFolder, Bytes
<1>6. w[h] = - SubBytes(lib, {h.id}) /\ SubBytes(lib, {h.id}) = Bytes(h.doc) + SubBytes(lib, LiveChildren(lib, h.id))
  BY <1>4, <1>5, SizesFacts, SubOne
<1>7. Bytes(h.doc) \in Nat /\ SubBytes(lib, LiveChildren(lib, h.id)) \in Int
  BY <1>4, BytesNat, AllCosted
<1>8. Tally(w, r) = w[h] + Tally(w, t)
  <2>1. r \in Seq(X) /\ r # <<>> /\ \A g \in X : w[g] \in Int
    BY <1>1
  <2> HIDE DEF X, w
  <2>2. Tally(w, r) = w[Head(r)] + Tally(w, Tail(r))
    BY <2>1, TallyHead
  <2> QED
    BY <2>2
<1>9. lib2[n] \in Doc /\ lib2[n].parent = h.to /\ lib2[n].kind = h.doc.kind /\ lib2[n].trash = "live"
  BY <1>4 DEF Doc
<1>10. IsLive(lib2[n]) /\ lib2[n].parent \notin U /\ Bytes(lib2[n]) = Bytes(h.doc)
  BY <1>4, <1>9 DEF IsLive, Bytes, IsFolder
<1>11. /\ U \subseteq DOMAIN lib2 /\ ClosedIn(lib2, DOMAIN lib2, U) /\ n \notin U
       /\ X \subseteq Y /\ (\A f \in X : v[f] = w[f])
       /\ \A S : S \subseteq U => SubBytes(lib2, S) = SubBytes(lib, S)
  BY <1>10, CopyShift
<1>12. \A f \in Y : v[f] \in Int
  BY AllCosted DEF CopyFrames
<1>13. new \in Seq(Y) /\ Tally(v, new) = - SubBytes(lib, LiveChildren(lib, h.id))
  <2>1. CASE ~IsFolder(h.doc) /\ new = <<>>
    <3>1. LiveChildren(lib, h.id) = {}
      BY <1>5, <2>1, FileHolds
    <3>2. new \in Seq(Y) /\ Tally(v, new) = 0
      BY <2>1, NoFrames, TallyEmpty
    <3>3. - SubBytes(lib, LiveChildren(lib, h.id)) = 0
      BY <1>7, <3>1, SubEmpty, NegZero
    <3> QED
      BY <3>2, <3>3
  <2>2. CASE IsFolder(h.doc) /\ new = <<Into("copyChildren", h.id, n)>>
    <3> DEFINE x == Into("copyChildren", h.id, n)
    <3>1. n \in Nat
      BY DEF Sane
    <3>2. x \in Frame /\ x.op = "copyChildren" /\ x.id = h.id /\ x.to = n
      BY <1>4, <3>1 DEF Into, Frame, PlaceOps
    <3>3. x \in Y
      BY <1>4, <1>11, <3>2 DEF CopyFrames
    <3>4. LiveChildren(lib2, h.id) = LiveChildren(lib, h.id) /\ LiveChildren(lib, h.id) \subseteq U
      <4>1. lib2[n].parent # h.id
        BY <1>4, <1>10
      <4>2. n \notin DOMAIN lib
        BY DEF Sane
      <4>3. \A j \in DOMAIN lib : lib[j].parent = h.id => j \in U
        BY <1>4 DEF ClosedIn
      <4> QED
        BY <4>1, <4>2, <4>3 DEF LiveChildren, Children
    <3>5. SubBytes(lib2, LiveChildren(lib2, h.id)) = SubBytes(lib, LiveChildren(lib, h.id))
      BY <1>4, <1>11, <3>4
    <3>6. v[x] = - SubBytes(lib, LiveChildren(lib, h.id))
      BY <3>2, <3>5, SizesFacts
    <3>7. v[x] \in Int
      BY <1>12, <3>3
    <3> HIDE DEF x, v, Y
    <3>8. Tally(v, <<x>>) = v[x] /\ <<x>> \in Seq(Y)
      BY <3>3, <3>7, TallyOne, Single
    <3> QED
      BY <2>2, <3>6, <3>8 DEF x
  <2> QED
    BY <2>1, <2>2
<1>14. t \in Seq(Y) /\ Tally(v, t) = Tally(w, t) /\ Tally(w, t) \in Int
  <2>1. t \in Seq(Y)
    BY <1>3, <1>11, Wider
  <2>2. \A k \in 1 .. Len(t) : t[k] \in X
    BY <1>3
  <2>3. \A k \in 1 .. Len(t) : v[t[k]] = w[t[k]]
    BY <1>11, <2>2
  <2> HIDE DEF X, Y, w, v, t
  <2>4. Tally(v, t) = Tally(w, t)
    <3>1. (\A f \in X : w[f] \in Int) /\ t \in Seq(X) /\ \A k \in 1 .. Len(t) : v[t[k]] = w[t[k]]
      BY <1>1, <1>3, <2>3
    <3> QED
      BY <3>1, TallyEqual
  <2>5. Tally(w, t) \in Int
    BY <1>1, <1>3, TallyIs
  <2> QED
    BY <2>1, <2>4, <2>5
<1>15. LiveBytes(lib) \in Nat /\ LiveBytes(lib2) = LiveBytes(lib) + Bytes(h.doc)
  <2>1. n \notin DOMAIN lib /\ n + 1 \in Nat
    BY DEF Sane
  <2>2. \A j : j # n => /\ j \in Live(lib2) <=> j \in Live(lib)
                        /\ j \in Live(lib) => Bytes(lib2[j]) = Bytes(lib[j])
    BY DEF Live
  <2>3. /\ LiveBytes(lib) \in Nat /\ LiveBytes(lib2) \in Nat /\ Mine(lib, n) \in Nat /\ Mine(lib2, n) \in Nat
        /\ LiveBytes(lib2) - Mine(lib2, n) = LiveBytes(lib) - Mine(lib, n)
    BY <2>2, WeighOne
  <2>4. Mine(lib, n) = 0 /\ Mine(lib2, n) = Bytes(h.doc)
    BY <1>10, <2>1 DEF Mine, Live
  <2> QED
    BY <1>7, <2>3, <2>4
<1> HIDE DEF X, Y, w, v, h, t
<1>16. new \o t \in Seq(Y)
  BY <1>13, <1>14, Concat
<1>17. Tally(v, new \o t) = Tally(v, new) + Tally(v, t)
  BY <1>12, <1>13, <1>14, TallyConcat
<1>18. Tally(v, new \o t) = Tally(w, r) + Bytes(h.doc)
  BY <1>6, <1>7, <1>8, <1>13, <1>14, <1>17
<1> QED
  BY <1>7, <1>11, <1>15, <1>16, <1>18 DEF X, Y, w, v, h, t, Debt

\* Copying what is in a folder.
LEMMA CopyChildrenStep ==
    ASSUME NEW lib, NEW n, Sane(lib, n), NEW U, ClosedIn(lib, DOMAIN lib, U),
           NEW r \in Seq(CopyFrames(lib, U)), r # <<>>, Head(r).op = "copyChildren",
           NEW new, new = Each("copyEach", Found(lib, LiveChildren(lib, Head(r).id)), Head(r).to)
    PROVE  /\ new \o Tail(r) \in Seq(CopyFrames(lib, U)) /\ Debt(lib, new \o Tail(r)) = Debt(lib, r)
<1> DEFINE X == CopyFrames(lib, U)
           w == Debits(lib)
           h == Head(r)
           t == Tail(r)
           kids == Found(lib, LiveChildren(lib, h.id))
<1>1. X \subseteq Frame /\ \A f \in X : w[f] \in Int
  BY AllCosted DEF CopyFrames
<1>2. h \in X
  OBVIOUS
<1>3. t \in Seq(X)
  OBVIOUS
<1>4. h \in Frame /\ h.op = "copyChildren" /\ h.id \in U /\ h.to \notin U /\ h.id \in Nat /\ h.to \in Nat
  <2>1. h \in Frame /\ h.op = "copyChildren" /\ h.id \in U /\ h.to \notin U
    BY <1>2 DEF CopyFrames
  <2> QED
    BY <2>1, FrameFields DEF PlaceOps
<1>5. Listed(lib, kids) /\ kids \in SUBSET Kid /\ IdsOf(kids) = LiveChildren(lib, h.id)
  BY <1>4, ListedFound
<1>6. LiveChildren(lib, h.id) \subseteq U
  BY <1>4 DEF ClosedIn, LiveChildren, Children
<1>7. w[h] = - SubBytes(lib, LiveChildren(lib, h.id))
  BY <1>4, SizesFacts
<1>8. Tally(w, r) = w[h] + Tally(w, t)
  <2>1. r \in Seq(X) /\ r # <<>> /\ \A g \in X : w[g] \in Int
    BY <1>1
  <2> HIDE DEF X, w
  <2>2. Tally(w, r) = w[Head(r)] + Tally(w, Tail(r))
    BY <2>1, TallyHead
  <2> QED
    BY <2>2
<1>81. new = Each("copyEach", kids, h.to)
  OBVIOUS
<1> HIDE DEF kids, h, t
<1>9. new \in Seq(X) /\ Debt(lib, new) = - SubBytes(lib, IdsOf(kids))
  BY <1>4, <1>5, <1>6, <1>81, CopyLoop
<1>10. Tally(w, new) = w[h]
  BY <1>5, <1>7, <1>9 DEF Debt
<1> HIDE DEF X, w
<1>11. new \o t \in Seq(X) /\ Tally(w, new \o t) = Tally(w, new) + Tally(w, t)
  BY <1>1, <1>3, <1>9, Concat, TallyConcat
<1>12. Tally(w, new \o t) = Tally(w, r)
  BY <1>8, <1>10, <1>11
<1> QED
  BY <1>11, <1>12 DEF X, w, t, Debt

(***************************************************************************)
(* What a client that copies has to do, from the first call to the last.   *)
(***************************************************************************)
\* The calls only a copy makes.
CopyKind == {"copy", "size", "sizeEach", "copyQuota"} \cup CopyOps

Pure(s) == \A g \in In(s) : g.op \notin CopyKind

Charge(b) == IF b = 0 THEN <<>> ELSE <<Add(b)>>
Measure(i, d, to) == <<Of("size", i, d)>> \o <<Copy("copyQuota", i, d, to)>>

CopyStart(s, T) == T = 0 /\ \E i, to \in Nat : s = <<Into("copy", i, to)>>

\* The destination is looked at, and if a folder is copied, what it lies in:
\* if it is below the folder, so is where the walk has come to.
CopyWalk(lib, s, T) ==
    /\ T = 0
    /\ \E i \in Live(lib), d \in Doc, to \in Nat, w \in Seq(Frame) :
         /\ lib[i].kind = d.kind /\ s = w \o Measure(i, d, to)
         /\ \/ w = <<At("parent", to)>> \o <<Into("walk", i, to)>>
            \/ w = <<At("parent", to)>> /\ ~IsFolder(d)
            \/ \E cur \in Nat :
                 /\ w = <<Into("walk", i, cur)>>
                 /\ to \in Span(lib, DOMAIN lib, {i}) => cur \in Span(lib, DOMAIN lib, {i})

\* The total, with what is still to be measured, is what will be copied.
CopySize(lib, s, T) ==
    \E i \in Live(lib), d \in Doc, to \in Nat, z \in Seq(SizeFrames(lib)) :
      /\ lib[i].kind = d.kind /\ s = z \o <<Copy("copyQuota", i, d, to)>>
      /\ to \notin Span(lib, DOMAIN lib, {i})
      /\ T + Tally(Sizes(lib), z) = SubBytes(lib, {i})

\* What is still to be copied is in U, and U holds all that lies in it; the
\* copies lie elsewhere.  cap: the counter was right when the quota was read.
CopyWrite(lib, s, cap) ==
    \E b \in Nat, U \in SUBSET DOMAIN lib : \E z \in Seq(CopyFrames(lib, U)) :
      /\ s = z \o Charge(b) /\ ClosedIn(lib, DOMAIN lib, U)
      /\ Debt(lib, z) + b \in Nat /\ (cap => b <= Quota)

CopyShape(lib, s, T, cap) == CopyStart(s, T) \/ CopyWalk(lib, s, T) \/ CopySize(lib, s, T) \/ CopyWrite(lib, s, cap)

LEMMA CopyNothing ==
    ASSUME NEW lib, NEW cap
    PROVE  CopyWrite(lib, <<>>, cap) /\ Debt(lib, <<>>) = 0
<1>1. <<>> = <<>> \o Charge(0) /\ <<>> \in Seq(CopyFrames(lib, {})) /\ {} \in SUBSET DOMAIN lib
  BY EmptyConcat, NoFrames DEF Charge
<1>2. ClosedIn(lib, DOMAIN lib, {})
  BY DEF ClosedIn
<1>3. Debt(lib, <<>>) = 0
  BY TallyEmpty DEF Debt
<1>4. Debt(lib, <<>>) + 0 \in Nat /\ 0 <= Quota /\ 0 \in Nat
  BY <1>3, QuotaAssumption
<1> QED
  BY <1>1, <1>2, <1>3, <1>4 DEF CopyWrite

LEMMA ShapeCap ==
    ASSUME NEW lib, NEW s, NEW T, NEW cap, NEW cap2, cap2 => cap, CopyShape(lib, s, T, cap)
    PROVE  CopyShape(lib, s, T, cap2)
<1>1. CopyWrite(lib, s, cap) => CopyWrite(lib, s, cap2)
  BY DEF CopyWrite
<1> QED
  BY <1>1 DEF CopyShape

LEMMA DebtBlank ==
    ASSUME NEW lib, NEW n, Sane(lib, n), NEW s \in Seq(Frame), \A g \in In(s) : g.op \notin {"add"} \cup Toggles \cup CopyOps
    PROVE  Debt(lib, s) = 0
<1>1. \A k \in 1 .. Len(s) : s[k] \in In(s) /\ s[k] \in Frame
  BY DEF In
<1>2. \A k \in 1 .. Len(s) : Debits(lib)[s[k]] = 0
  BY <1>1, DebitFacts
<1> QED
  BY <1>2, TallyZero DEF Debt

LEMMA ChargeFacts ==
    ASSUME NEW lib, NEW n, Sane(lib, n), NEW b \in Nat
    PROVE  /\ Charge(b) \in Seq(Frame) /\ Debt(lib, Charge(b)) = b /\ In(Charge(b)) \subseteq {Add(b)}
           /\ Tidy(lib, n, Charge(b)) /\ Pure(Charge(b))
<1>1. Add(b) \in Frame /\ Add(b).op = "add" /\ Add(b).bytes = b
  BY DEF Add, Frame
<1>2. CASE b = 0
  <2>1. Charge(b) = <<>>
    BY <1>2 DEF Charge
  <2>2. <<>> \in Seq(Frame) /\ Debt(lib, <<>>) = 0 /\ In(<<>>) = {} /\ Tidy(lib, n, <<>>)
    BY NoFrames, TallyEmpty, InSmall, TidySmall DEF Debt
  <2>3. Pure(<<>>)
    BY <2>2 DEF Pure
  <2> QED
    BY <1>2, <2>1, <2>2, <2>3
<1>3. CASE b # 0
  <2>1. Charge(b) = <<Add(b)>>
    BY <1>3 DEF Charge
  <2>2. Debits(lib)[Add(b)] = b
    BY DebitFacts
  <2>3. Tally(Debits(lib), <<Add(b)>>) = b
    BY <2>2, TallyOne
  <2>4. Sure(lib, n, Add(b))
    BY <1>1 DEF Sure, TreeLoops, TreeOps, Toggles
  <2>5. In(<<Add(b)>>) = {Add(b)} /\ Tidy(lib, n, <<Add(b)>>)
    BY <2>4, InSmall, TidySmall
  <2>6. Pure(<<Add(b)>>)
    BY <1>1, <2>5 DEF Pure, CopyKind, CopyOps
  <2> QED
    BY <1>1, <2>1, <2>3, <2>5, <2>6, Single DEF Debt
<1> QED
  BY <1>2, <1>3

\* What is left to copy, and to charge for.
LEMMA WriteDebt ==
    ASSUME NEW lib, NEW n, Sane(lib, n), NEW b \in Nat, NEW U, NEW z \in Seq(CopyFrames(lib, U))
    PROVE  /\ z \in Seq(Frame) /\ Debt(lib, z) \in Int /\ z \o Charge(b) \in Seq(Frame)
           /\ Debt(lib, z \o Charge(b)) = Debt(lib, z) + b
           /\ z # <<>> => ~Pure(z \o Charge(b))
<1>1. CopyFrames(lib, U) \subseteq Frame
  BY DEF CopyFrames
<1>2. z \in Seq(Frame)
  BY <1>1, Wider
<1>3. Charge(b) \in Seq(Frame) /\ Debt(lib, Charge(b)) = b
  BY ChargeFacts
<1>4. Debt(lib, z) \in Int /\ \A f \in Frame : Debits(lib)[f] \in Int
  BY <1>2, AllCosted
<1>5. Tally(Debits(lib), z \o Charge(b)) = Tally(Debits(lib), z) + Tally(Debits(lib), Charge(b))
  BY <1>2, <1>3, <1>4, TallyConcat
<1>6. ASSUME z # <<>> PROVE ~Pure(z \o Charge(b))
  <2>1. Head(z) \in CopyFrames(lib, U)
    BY <1>6
  <2>2. Head(z).op \in CopyKind
    BY <2>1 DEF CopyFrames, CopyKind, CopyOps
  <2>3. Head(z) \in In(z)
    BY <1>2, <1>6 DEF In
  <2>4. In(z \o Charge(b)) = In(z) \cup In(Charge(b))
    BY <1>2, <1>3, InConcat
  <2> QED
    BY <2>2, <2>3, <2>4 DEF Pure
<1> QED
  BY <1>2, <1>3, <1>4, <1>5, <1>6, Concat DEF Debt

\* What a stack of that shape owes.
LEMMA ShapeDebt ==
    ASSUME NEW lib, NEW n, Sane(lib, n), NEW s \in Seq(Frame), NEW T
    PROVE  CopyStart(s, T) \/ CopyWalk(lib, s, T) \/ CopySize(lib, s, T) => Debt(lib, s) = 0 /\ ~Pure(s)
<1> DEFINE Q == {"copy", "size", "sizeEach", "copyQuota", "parent", "walk"}
<1>1. ASSUME NEW a \in Seq(Frame), NEW b \in Seq(Frame), s = a \o b,
             \A g \in In(a) \cup In(b) : g.op \in Q, NEW x \in In(a) \cup In(b), x.op \in CopyKind
      PROVE  Debt(lib, s) = 0 /\ ~Pure(s)
  <2>1. In(s) = In(a) \cup In(b)
    BY <1>1, InConcat
  <2>2. ~Pure(s)
    BY <1>1, <2>1 DEF Pure
  <2>3. \A g \in In(s) : g.op \notin {"add"} \cup Toggles \cup CopyOps
    BY <1>1, <2>1 DEF Toggles, CopyOps
  <2> QED
    BY <2>2, <2>3, DebtBlank
<1>2. ASSUME NEW i, NEW d, NEW to
      PROVE  /\ Of("size", i, d).op = "size" /\ Copy("copyQuota", i, d, to).op = "copyQuota"
             /\ In(<<Of("size", i, d)>>) = {Of("size", i, d)}
             /\ In(<<Copy("copyQuota", i, d, to)>>) = {Copy("copyQuota", i, d, to)}
             /\ \A F : Of("size", i, d) \in F /\ Copy("copyQuota", i, d, to) \in F =>
                  /\ Measure(i, d, to) \in Seq(F)
                  /\ In(Measure(i, d, to)) = {Of("size", i, d), Copy("copyQuota", i, d, to)}
  <2>1. Of("size", i, d).op = "size" /\ Copy("copyQuota", i, d, to).op = "copyQuota"
    BY DEF Of, Copy
  <2>2. In(<<Of("size", i, d)>>) = {Of("size", i, d)} /\ In(<<Copy("copyQuota", i, d, to)>>) = {Copy("copyQuota", i, d, to)}
    BY InSmall
  <2>3. ASSUME NEW F, Of("size", i, d) \in F, Copy("copyQuota", i, d, to) \in F
        PROVE  /\ Measure(i, d, to) \in Seq(F)
               /\ In(Measure(i, d, to)) = {Of("size", i, d), Copy("copyQuota", i, d, to)}
    <3> DEFINE x == Of("size", i, d)
               y == Copy("copyQuota", i, d, to)
    <3>1. x \in F /\ y \in F /\ Measure(i, d, to) = <<x>> \o <<y>>
      BY <2>3 DEF Measure
    <3> HIDE DEF x, y
    <3>2. <<x>> \in Seq(F) /\ <<y>> \in Seq(F)
      BY <3>1, Single
    <3>3. <<x>> \o <<y>> \in Seq(F) /\ In(<<x>> \o <<y>>) = In(<<x>>) \cup In(<<y>>)
      BY <3>2, Concat, InConcat
    <3>4. In(<<x>>) = {x} /\ In(<<y>>) = {y}
      BY InSmall
    <3>5. Measure(i, d, to) \in Seq(F) /\ In(Measure(i, d, to)) = {x, y}
      BY <3>1, <3>3, <3>4
    <3> QED
      BY <3>5 DEF x, y
  <2> QED
    BY <2>1, <2>2, <2>3
<1>3. ASSUME CopyStart(s, T) PROVE Debt(lib, s) = 0 /\ ~Pure(s)
  <2>1. PICK i \in Nat, to \in Nat : s = <<Into("copy", i, to)>>
    BY <1>3 DEF CopyStart
  <2>2. In(s) = {Into("copy", i, to)} /\ Into("copy", i, to).op = "copy"
    BY <2>1, InSmall DEF Into
  <2>3. \A g \in In(s) : g.op \notin {"add"} \cup Toggles \cup CopyOps
    BY <2>2 DEF Toggles, CopyOps
  <2>4. ~Pure(s)
    BY <2>2 DEF Pure, CopyKind
  <2> QED
    BY <2>3, <2>4, DebtBlank
<1>4. ASSUME CopyWalk(lib, s, T) PROVE Debt(lib, s) = 0 /\ ~Pure(s)
  <2>1. PICK i \in Live(lib), d \in Doc, to \in Nat, w \in Seq(Frame) :
          /\ s = w \o Measure(i, d, to)
          /\ \/ w = <<At("parent", to)>> \o <<Into("walk", i, to)>>
             \/ w = <<At("parent", to)>>
             \/ \E cur \in Nat : w = <<Into("walk", i, cur)>>
    BY <1>4 DEF CopyWalk
  <2>2. i \in Nat
    BY DEF Live, Sane
  <2>3. Of("size", i, d) \in Frame /\ Copy("copyQuota", i, d, to) \in Frame
    BY <2>2 DEF Of, Copy, Frame, DocOps
  <2>4. Measure(i, d, to) \in Seq(Frame) /\ In(Measure(i, d, to)) = {Of("size", i, d), Copy("copyQuota", i, d, to)}
        /\ Of("size", i, d).op = "size" /\ Copy("copyQuota", i, d, to).op = "copyQuota"
    BY <1>2, <2>3
  <2>5. At("parent", to) \in Frame /\ At("parent", to).op = "parent"
    BY DEF At, Frame, AtOps
  <2>6. \A c \in Nat : Into("walk", i, c) \in Frame /\ Into("walk", i, c).op = "walk"
    BY <2>2 DEF Into, Frame, PlaceOps
  <2>7. \A g \in In(w) : g.op \in Q
    <3>1. CASE w = <<At("parent", to)>> \o <<Into("walk", i, to)>>
      <4> DEFINE x == At("parent", to)
                 y == Into("walk", i, to)
      <4>1. w = <<x>> \o <<y>> /\ x \in Frame /\ y \in Frame /\ x.op \in Q /\ y.op \in Q
        BY <2>5, <2>6, <3>1
      <4> HIDE DEF x, y, Q
      <4>2. <<x>> \in Seq(Frame) /\ <<y>> \in Seq(Frame)
        BY <4>1, Single
      <4>3. In(w) = In(<<x>>) \cup In(<<y>>)
        BY <4>1, <4>2, InConcat
      <4>4. In(<<x>>) = {x} /\ In(<<y>>) = {y}
        BY InSmall
      <4> QED
        BY <4>1, <4>3, <4>4
    <3>2. CASE w = <<At("parent", to)>>
      <4>1. In(w) = {At("parent", to)}
        BY <3>2, InSmall
      <4> QED
        BY <2>5, <4>1
    <3>3. CASE \E cur \in Nat : w = <<Into("walk", i, cur)>>
      <4>1. PICK cur \in Nat : w = <<Into("walk", i, cur)>>
        BY <3>3
      <4>2. In(w) = {Into("walk", i, cur)}
        BY <4>1, InSmall
      <4> QED
        BY <2>6, <4>2
    <3> QED
      BY <2>1, <3>1, <3>2, <3>3
  <2>8. \A g \in In(w) \cup In(Measure(i, d, to)) : g.op \in Q
    BY <2>4, <2>7
  <2>9. Of("size", i, d) \in In(w) \cup In(Measure(i, d, to)) /\ Of("size", i, d).op \in CopyKind
    BY <2>4 DEF CopyKind
  <2> QED
    BY <1>1, <2>1, <2>4, <2>8, <2>9
<1>5. ASSUME CopySize(lib, s, T) PROVE Debt(lib, s) = 0 /\ ~Pure(s)
  <2>1. PICK i \in Live(lib), d \in Doc, to \in Nat, z \in Seq(SizeFrames(lib)) : s = z \o <<Copy("copyQuota", i, d, to)>>
    BY <1>5 DEF CopySize
  <2> DEFINE y == Copy("copyQuota", i, d, to)
  <2>2. i \in Nat
    BY DEF Live, Sane
  <2>3. y \in Frame /\ y.op = "copyQuota" /\ y.op \in Q /\ y.op \in CopyKind
    BY <2>2 DEF Copy, Frame, CopyKind
  <2>4. z \in Seq(Frame)
    <3>1. SizeFrames(lib) \subseteq Frame
      BY DEF SizeFrames
    <3> QED
      BY <3>1, Wider
  <2>5. \A g \in In(z) : g.op \in Q
    <3>1. In(z) \subseteq SizeFrames(lib)
      BY InSeq
    <3> QED
      BY <3>1 DEF SizeFrames
  <2>6. s = z \o <<y>>
    BY <2>1
  <2> HIDE DEF y, Q
  <2>7. <<y>> \in Seq(Frame) /\ In(<<y>>) = {y}
    BY <2>3, Single, InSmall
  <2>8. (\A g \in In(z) \cup In(<<y>>) : g.op \in Q) /\ y \in In(z) \cup In(<<y>>)
    BY <2>3, <2>5, <2>7
  <2> QED
    BY <1>1, <2>3, <2>4, <2>6, <2>7, <2>8
<1> QED
  BY <1>3, <1>4, <1>5

\* A message more or less changes nothing of a copy.
LEMMA SameFrames ==
    ASSUME NEW lib, NEW n, Sane(lib, n), NEW lib2, Sane(lib2, n), SameTree(lib, lib2)
    PROVE  /\ \A i, d : LiveKept(lib2, i, d) <=> LiveKept(lib, i, d)
           /\ SizeFrames(lib2) = SizeFrames(lib)
           /\ \A U : CopyFrames(lib2, U) = CopyFrames(lib, U)
           /\ \A U : ClosedIn(lib2, DOMAIN lib2, U) <=> ClosedIn(lib, DOMAIN lib, U)
           /\ Sizes(lib2) = Sizes(lib) /\ Debits(lib2) = Debits(lib)
<1>1. Live(lib2) = Live(lib) /\ DOMAIN lib2 = DOMAIN lib /\ Live(lib) \subseteq DOMAIN lib
  BY SameFacts DEF SameTree, Live
<1>2. \A j \in DOMAIN lib : lib2[j].parent = lib[j].parent /\ lib2[j].kind = lib[j].kind
  BY DEF SameTree
<1>3. \A i, d : LiveKept(lib2, i, d) <=> LiveKept(lib, i, d)
  BY <1>1, <1>2 DEF LiveKept
<1>4. \A kids : Listed(lib2, kids) <=> Listed(lib, kids)
  <2> SUFFICES ASSUME NEW kids PROVE Listed(lib2, kids) <=> Listed(lib, kids)
    OBVIOUS
  <2>1. CASE \A k \in kids : LiveKept(lib, k.id, k.doc)
    <3>1. \A k \in kids : LiveKept(lib2, k.id, k.doc) /\ lib2[k.id].parent = lib[k.id].parent
      BY <1>1, <1>2, <1>3, <2>1 DEF LiveKept
    <3> QED
      BY <2>1, <3>1 DEF Listed
  <2>2. CASE ~(\A k \in kids : LiveKept(lib, k.id, k.doc))
    BY <1>3, <2>2 DEF Listed
  <2> QED
    BY <2>1, <2>2
<1>5. SizeFrames(lib2) = SizeFrames(lib)
  BY <1>3, <1>4 DEF SizeFrames
<1>6. \A U : CopyFrames(lib2, U) = CopyFrames(lib, U)
  BY <1>3, <1>4 DEF CopyFrames
<1>7. \A U : ClosedIn(lib2, DOMAIN lib2, U) <=> ClosedIn(lib, DOMAIN lib, U)
  BY <1>1, <1>2 DEF ClosedIn
<1>8. \A S : SubBytes(lib2, S) = SubBytes(lib, S)
  BY SameFacts
<1>9. \A i : LiveChildren(lib2, i) = LiveChildren(lib, i)
  BY SameFacts
<1>10. Sizes(lib2) = Sizes(lib)
  BY <1>8 DEF Sizes
<1>11. \A i \in DOMAIN lib : Bytes(lib2[i]) = Bytes(lib[i])
  BY <1>2 DEF Bytes, IsFolder
<1>12. ASSUME NEW f \in Frame PROVE Debits(lib2)[f] = Debits(lib)[f]
  <2>1. f.id \in Live(lib) => Bytes(lib2[f.id]) = Bytes(lib[f.id])
    BY <1>1, <1>11
  <2>2. f.id \in DOMAIN lib \ Live(lib) => Bytes(lib2[f.id]) = Bytes(lib[f.id])
    BY <1>11
  <2> QED
    BY <1>1, <1>8, <1>9, <2>1, <2>2 DEF Debits
<1>13. Debits(lib2) = Debits(lib)
  BY <1>12 DEF Debits
<1> QED
  BY <1>3, <1>5, <1>6, <1>7, <1>10, <1>13

LEMMA ShapeSame ==
    ASSUME NEW lib, NEW n, Sane(lib, n), NEW lib2, Sane(lib2, n), SameTree(lib, lib2),
           NEW s, NEW T, NEW cap
    PROVE  /\ Debt(lib2, s) = Debt(lib, s)
           /\ CopyShape(lib, s, T, cap) => CopyShape(lib2, s, T, cap)
<1>1. /\ \A i, d : LiveKept(lib2, i, d) <=> LiveKept(lib, i, d)
      /\ SizeFrames(lib2) = SizeFrames(lib)
      /\ \A U : CopyFrames(lib2, U) = CopyFrames(lib, U)
      /\ \A U : ClosedIn(lib2, DOMAIN lib2, U) <=> ClosedIn(lib, DOMAIN lib, U)
      /\ Sizes(lib2) = Sizes(lib) /\ Debits(lib2) = Debits(lib)
  BY SameFrames
<1>2. /\ Live(lib2) = Live(lib) /\ DOMAIN lib2 = DOMAIN lib
      /\ \A S : Span(lib2, DOMAIN lib2, S) = Span(lib, DOMAIN lib, S)
      /\ \A S : SubBytes(lib2, S) = SubBytes(lib, S)
  BY SameFacts DEF SameTree
<1>3. \A i \in Live(lib) : lib2[i].kind = lib[i].kind
  BY DEF SameTree, Live
<1>4. \A z : Debt(lib2, z) = Debt(lib, z)
  BY <1>1 DEF Debt
<1>5. CopyWalk(lib, s, T) => CopyWalk(lib2, s, T)
  BY <1>2, <1>3 DEF CopyWalk
<1>6. CopySize(lib, s, T) => CopySize(lib2, s, T)
  BY <1>1, <1>2, <1>3 DEF CopySize
<1>7. CopyWrite(lib, s, cap) => CopyWrite(lib2, s, cap)
  BY <1>1, <1>2, <1>4 DEF CopyWrite
<1> QED
  BY <1>4, <1>5, <1>6, <1>7 DEF CopyShape

LEMMA FoldersThere ==
    ASSUME IInv
    PROVE  FoldersHold(files)
BY DEF IInv, Safe, FoldersHold

\* What a process that copies has to do is known by its calls.
LEMMA ShapeKind ==
    ASSUME NEW lib, NEW n, Sane(lib, n), NEW s \in Seq(Frame), NEW T, NEW cap, CopyShape(lib, s, T, cap), Pure(s)
    PROVE  Tidy(lib, n, s)
<1>1. CopyWrite(lib, s, cap)
  BY ShapeDebt DEF CopyShape
<1>2. PICK b \in Nat, U \in SUBSET DOMAIN lib : \E z \in Seq(CopyFrames(lib, U)) : s = z \o Charge(b)
  BY <1>1 DEF CopyWrite
<1>3. PICK z \in Seq(CopyFrames(lib, U)) : s = z \o Charge(b)
  BY <1>2
<1>4. z = <<>>
  BY <1>3, WriteDebt
<1>5. Charge(b) \in Seq(Frame) /\ Tidy(lib, n, Charge(b))
  BY ChargeFacts
<1>6. s = Charge(b)
  BY <1>3, <1>4, <1>5, EmptyCalls
<1> QED
  BY <1>5, <1>6

\* The roof of every tree is not in it.
LEMMA RootOutside ==
    ASSUME NEW lib, NEW n, Sane(lib, n), NEW i \in Live(lib)
    PROVE  /\ i \in DOMAIN lib /\ i \in Nat /\ lib[i] \in Doc
           /\ Span(lib, DOMAIN lib, {i}) \subseteq DOMAIN lib /\ i \in Span(lib, DOMAIN lib, {i})
           /\ Root \notin Span(lib, DOMAIN lib, {i}) /\ ClosedIn(lib, DOMAIN lib, Span(lib, DOMAIN lib, {i}))
<1>1. i \in DOMAIN lib /\ DOMAIN lib \subseteq 1 .. (n - 1) /\ n \in Nat /\ lib[i] \in Doc
  BY DEF Live, Sane
<1>2. /\ {i} \subseteq Span(lib, DOMAIN lib, {i}) /\ Span(lib, DOMAIN lib, {i}) \subseteq {i} \cup DOMAIN lib
      /\ ClosedIn(lib, DOMAIN lib, Span(lib, DOMAIN lib, {i}))
  BY SpanHolds
<1>3. Root \notin DOMAIN lib
  BY <1>1 DEF Root
<1> QED
  BY <1>1, <1>2, <1>3

\* The frames that measure and then copy.
LEMMA MeasureFrames ==
    ASSUME NEW i \in Nat, NEW d \in Doc, NEW to \in Nat
    PROVE  /\ Of("size", i, d) \in Frame /\ Copy("copyQuota", i, d, to) \in Frame /\ Copy("copyDoc", i, d, to) \in Frame
           /\ Of("size", i, d).op = "size" /\ Of("size", i, d).id = i /\ Of("size", i, d).doc = d
           /\ Copy("copyDoc", i, d, to).op = "copyDoc" /\ Copy("copyDoc", i, d, to).id = i
           /\ Copy("copyDoc", i, d, to).doc = d /\ Copy("copyDoc", i, d, to).to = to
           /\ Measure(i, d, to) \in Seq(Frame)
           /\ Measure(i, d, to) = <<Of("size", i, d), Copy("copyQuota", i, d, to)>>
<1>1. Of("size", i, d) \in Frame /\ Copy("copyQuota", i, d, to) \in Frame /\ Copy("copyDoc", i, d, to) \in Frame
  BY DEF Of, Copy, Frame, DocOps
<1>2. Of("size", i, d).op = "size" /\ Of("size", i, d).id = i /\ Of("size", i, d).doc = d
  BY DEF Of
<1>3. /\ Copy("copyDoc", i, d, to).op = "copyDoc" /\ Copy("copyDoc", i, d, to).id = i
      /\ Copy("copyDoc", i, d, to).doc = d /\ Copy("copyDoc", i, d, to).to = to
  BY DEF Copy
<1> DEFINE x == Of("size", i, d)
           y == Copy("copyQuota", i, d, to)
<1>4. x \in Frame /\ y \in Frame /\ Measure(i, d, to) = <<x>> \o <<y>>
  BY <1>1 DEF Measure
<1> HIDE DEF x, y
<1>5. <<x>> \o <<y>> = <<x, y>> /\ <<x, y>> \in Seq(Frame)
  BY <1>4, PairConcat, Pair
<1>6. Measure(i, d, to) \in Seq(Frame) /\ Measure(i, d, to) = <<x, y>>
  BY <1>4, <1>5
<1> QED
  BY <1>1, <1>2, <1>3, <1>6 DEF x, y

\* The destination is not below the document: it is measured.
LEMMA MeasureStarts ==
    ASSUME NEW lib, NEW n, Sane(lib, n), NEW i \in Live(lib), NEW d \in Doc, lib[i].kind = d.kind, NEW to \in Nat,
           to \notin Span(lib, DOMAIN lib, {i})
    PROVE  CopySize(lib, Measure(i, d, to), 0)
<1> DEFINE x == Of("size", i, d)
<1>1. x \in Frame /\ x.op = "size" /\ x.id = i /\ x.doc = d
  <2>1. i \in Nat
    BY RootOutside
  <2>2. Of("size", i, d) \in Frame /\ Of("size", i, d).op = "size" /\ Of("size", i, d).id = i /\ Of("size", i, d).doc = d
    BY <2>1, MeasureFrames
  <2> QED
    BY <2>2
<1> HIDE DEF x
<1>2. x \in SizeFrames(lib)
  BY <1>1 DEF SizeFrames, LiveKept
<1>3. <<x>> \in Seq(SizeFrames(lib))
  BY <1>2, Single
<1>4. Sizes(lib)[x] = SubBytes(lib, {i}) /\ Sizes(lib)[x] \in Int
  BY <1>1, SizesFacts
<1>5. Tally(Sizes(lib), <<x>>) = SubBytes(lib, {i}) /\ SubBytes(lib, {i}) \in Int
  BY <1>4, TallyOne
<1>6. 0 + Tally(Sizes(lib), <<x>>) = SubBytes(lib, {i})
  BY <1>5
<1>7. Measure(i, d, to) = <<x>> \o <<Copy("copyQuota", i, d, to)>>
  BY DEF Measure, x
<1> QED
  BY <1>3, <1>6, <1>7 DEF CopySize

LEMMA StartStep ==
    ASSUME NEW lib, NEW n, Sane(lib, n), NEW i \in Live(lib), NEW to \in Nat, NEW w,
           \/ to = Root /\ w = <<>>
           \/ IsFolder(lib[i]) /\ w = <<At("parent", to)>> \o <<Into("walk", i, to)>>
           \/ ~IsFolder(lib[i]) /\ w = <<At("parent", to)>>
    PROVE  CopyWalk(lib, w \o Measure(i, lib[i], to), 0) \/ CopySize(lib, w \o Measure(i, lib[i], to), 0)
<1>1. i \in Nat /\ lib[i] \in Doc /\ Root \notin Span(lib, DOMAIN lib, {i}) /\ Measure(i, lib[i], to) \in Seq(Frame)
  BY RootOutside, MeasureFrames
<1>2. CASE to = Root /\ w = <<>>
  <2>1. w \o Measure(i, lib[i], to) = Measure(i, lib[i], to)
    BY <1>1, <1>2, EmptyCalls
  <2> QED
    BY <1>1, <1>2, <2>1, MeasureStarts
<1>3. CASE ~(to = Root /\ w = <<>>)
  <2>1. At("parent", to) \in Frame /\ Into("walk", i, to) \in Frame
    BY <1>1 DEF At, Into, Frame, AtOps, PlaceOps
  <2>2. <<At("parent", to)>> \in Seq(Frame) /\ <<Into("walk", i, to)>> \in Seq(Frame)
    BY <2>1, Single
  <2>3. <<At("parent", to)>> \o <<Into("walk", i, to)>> \in Seq(Frame)
    BY <2>2, Concat
  <2>4. w \in Seq(Frame)
    BY <1>3, <2>2, <2>3
  <2> QED
    BY <1>1, <1>3, <2>4 DEF CopyWalk
<1> QED
  BY <1>2, <1>3

\* A document that is not a folder holds nothing but itself.
LEMMA FileAlone ==
    ASSUME NEW lib, NEW n, Sane(lib, n), FoldersHold(lib), NEW i \in Live(lib), ~IsFolder(lib[i]),
           NEW to \in DOMAIN lib, IsFolder(lib[to])
    PROVE  to \notin Span(lib, DOMAIN lib, {i})
<1>1. Children(lib, i) = {}
  BY FileHolds DEF Live
<1>2. Inside(lib, DOMAIN lib, i) = {}
  BY <1>1 DEF Inside, Children
<1>3. Span(lib, DOMAIN lib, {i}) = {i} \cup Span(lib, DOMAIN lib, {})
  BY <1>2, SpanOne
<1>4. Span(lib, DOMAIN lib, {}) = {}
  BY SpanEmpty
<1> QED
  BY <1>3, <1>4

\* The folder of an ancestor that is not the document itself.
LEMMA UpInside ==
    ASSUME NEW lib, NEW n, Sane(lib, n), NEW i \in Live(lib), NEW cur \in Nat, cur # i, NEW up,
           up = (IF cur \in DOMAIN lib THEN lib[cur].parent ELSE Root)
    PROVE  up \in Nat /\ (cur \in Span(lib, DOMAIN lib, {i}) => up \in Span(lib, DOMAIN lib, {i}) /\ up # Root)
<1>1. up \in Nat
  BY DEF Sane, Doc, Root
<1>2. ASSUME cur \in Span(lib, DOMAIN lib, {i}) PROVE up \in Span(lib, DOMAIN lib, {i}) /\ up # Root
  <2>1. cur \in DOMAIN lib /\ lib[cur].parent \in Span(lib, DOMAIN lib, {i})
    BY <1>2, SpanParent
  <2>2. Root \notin Span(lib, DOMAIN lib, {i})
    BY RootOutside
  <2> QED
    BY <2>1, <2>2
<1> QED
  BY <1>1, <1>2

\* One step of the checks of the destination.
LEMMA WalkStep ==
    ASSUME NEW lib, NEW n, Sane(lib, n), FoldersHold(lib), NEW s \in Seq(Frame), NEW T, CopyWalk(lib, s, T)
    PROVE  /\ s # <<>> /\ Head(s).op \in {"parent", "walk"}
           /\ Head(s).op = "parent" /\ Head(s).id \in Live(lib) /\ IsFolder(lib[Head(s).id])
              => CopyWalk(lib, Tail(s), T) \/ CopySize(lib, Tail(s), T)
           /\ Head(s).op = "walk" /\ Head(s).to # Head(s).id =>
                \A up : up = (IF Head(s).to \in DOMAIN lib THEN lib[Head(s).to].parent ELSE Root) =>
                  LET new == IF up = Root THEN <<>> ELSE <<Into("walk", Head(s).id, up)>>
                  IN  CopyWalk(lib, new \o Tail(s), T) \/ CopySize(lib, new \o Tail(s), T)
<1>0. T = 0
  BY DEF CopyWalk
<1>1. PICK i \in Live(lib), d \in Doc, to \in Nat, w \in Seq(Frame) :
         /\ lib[i].kind = d.kind /\ s = w \o Measure(i, d, to)
         /\ \/ w = <<At("parent", to)>> \o <<Into("walk", i, to)>>
            \/ w = <<At("parent", to)>> /\ ~IsFolder(d)
            \/ \E cur \in Nat :
                 /\ w = <<Into("walk", i, cur)>>
                 /\ to \in Span(lib, DOMAIN lib, {i}) => cur \in Span(lib, DOMAIN lib, {i})
  BY DEF CopyWalk
<1> DEFINE m == Measure(i, d, to)
           par == At("parent", to)
           W(c) == Into("walk", i, c)
<1>2. i \in Nat /\ Root \notin Span(lib, DOMAIN lib, {i})
  BY RootOutside
<1>3. m \in Seq(Frame)
  BY <1>2, MeasureFrames
<1>4. /\ par \in Frame /\ par.op = "parent" /\ par.id = to
      /\ \A c \in Nat : W(c) \in Frame /\ W(c).op = "walk" /\ W(c).id = i /\ W(c).to = c
  BY <1>2 DEF At, Into, Frame, AtOps, PlaceOps
<1>5. s = w \o m
  BY <1>1
<1>6. \A c \in Nat : (to \in Span(lib, DOMAIN lib, {i}) => c \in Span(lib, DOMAIN lib, {i}))
                     => CopyWalk(lib, <<W(c)>> \o m, T)
  <2> SUFFICES ASSUME NEW c \in Nat, to \in Span(lib, DOMAIN lib, {i}) => c \in Span(lib, DOMAIN lib, {i})
               PROVE  CopyWalk(lib, <<W(c)>> \o m, T)
    OBVIOUS
  <2>1. <<W(c)>> \in Seq(Frame)
    BY <1>4, Single
  <2> QED
    BY <1>0, <1>1, <2>1 DEF CopyWalk
<1>7. to \notin Span(lib, DOMAIN lib, {i}) => CopySize(lib, m, T)
  BY <1>0, <1>1, MeasureStarts
<1> HIDE DEF m, par, W
<1>8. \A x \in Frame : \A t \in Seq(Frame) : <<x>> \o t # <<>> /\ Head(<<x>> \o t) = x /\ Tail(<<x>> \o t) = t
  <2> SUFFICES ASSUME NEW x \in Frame, NEW t \in Seq(Frame)
               PROVE  <<x>> \o t # <<>> /\ Head(<<x>> \o t) = x /\ Tail(<<x>> \o t) = t
    OBVIOUS
  <2>1. <<x>> \in Seq(Frame) /\ <<x>> # <<>>
    BY Single
  <2>2. Head(<<x>>) = x /\ Tail(<<x>>) = <<>>
    OBVIOUS
  <2>3. <<x>> \o t # <<>> /\ Head(<<x>> \o t) = Head(<<x>>) /\ Tail(<<x>> \o t) = Tail(<<x>>) \o t
    BY <2>1, HeadTail
  <2>4. <<>> \o t = t
    BY EmptyCalls
  <2> QED
    BY <2>2, <2>3, <2>4
<1>9. CASE w = <<par>> \o <<W(to)>>
  <2>1. <<par>> \in Seq(Frame) /\ <<W(to)>> \in Seq(Frame)
    BY <1>4, Single
  <2>2. <<W(to)>> \o m \in Seq(Frame) /\ s = <<par>> \o (<<W(to)>> \o m)
    BY <1>3, <1>5, <1>9, <2>1, Concat, Concat3
  <2>3. s # <<>> /\ Head(s) = par /\ Tail(s) = <<W(to)>> \o m
    BY <1>4, <1>8, <2>2
  <2> QED
    BY <1>4, <1>6, <2>3
<1>10. CASE w = <<par>> /\ ~IsFolder(d)
  <2>1. s # <<>> /\ Head(s) = par /\ Tail(s) = m
    BY <1>3, <1>4, <1>5, <1>8, <1>10
  <2>2. ~IsFolder(lib[i])
    BY <1>1, <1>10 DEF IsFolder
  <2>3. to \in Live(lib) /\ IsFolder(lib[to]) => to \notin Span(lib, DOMAIN lib, {i})
    BY <2>2, FileAlone DEF Live
  <2> QED
    BY <1>4, <1>7, <2>1, <2>3
<1>11. ASSUME NEW cur \in Nat, w = <<W(cur)>>,
              to \in Span(lib, DOMAIN lib, {i}) => cur \in Span(lib, DOMAIN lib, {i})
       PROVE  /\ s # <<>> /\ Head(s).op = "walk"
              /\ Head(s).to # Head(s).id =>
                   \A up : up = (IF Head(s).to \in DOMAIN lib THEN lib[Head(s).to].parent ELSE Root) =>
                     LET new == IF up = Root THEN <<>> ELSE <<Into("walk", Head(s).id, up)>>
                     IN  CopyWalk(lib, new \o Tail(s), T) \/ CopySize(lib, new \o Tail(s), T)
  <2>1. s # <<>> /\ Head(s) = W(cur) /\ Tail(s) = m
    BY <1>3, <1>4, <1>5, <1>8, <1>11
  <2>2. Head(s).op = "walk" /\ Head(s).id = i /\ Head(s).to = cur
    BY <1>4, <2>1
  <2>3. ASSUME cur # i, NEW up, up = (IF cur \in DOMAIN lib THEN lib[cur].parent ELSE Root)
        PROVE  LET new == IF up = Root THEN <<>> ELSE <<Into("walk", i, up)>>
               IN  CopyWalk(lib, new \o m, T) \/ CopySize(lib, new \o m, T)
    <3>1. up \in Nat /\ (cur \in Span(lib, DOMAIN lib, {i}) => up \in Span(lib, DOMAIN lib, {i}) /\ up # Root)
      BY <2>3, UpInside
    <3>2. CASE up = Root
      <4>1. <<>> \o m = m
        BY <1>3, EmptyCalls
      <4>2. CopySize(lib, m, T)
        BY <1>7, <1>11, <3>1, <3>2
      <4> QED
        BY <3>2, <4>1, <4>2
    <3>3. CASE up # Root
      <4>1. CopyWalk(lib, <<W(up)>> \o m, T)
        BY <1>6, <1>11, <3>1
      <4> QED
        BY <3>3, <4>1 DEF W
    <3> QED
      BY <3>2, <3>3
  <2> QED
    BY <2>1, <2>2, <2>3
<1>12. CASE \E cur \in Nat : w = <<W(cur)>> /\ (to \in Span(lib, DOMAIN lib, {i}) => cur \in Span(lib, DOMAIN lib, {i}))
  <2>1. PICK cur \in Nat : w = <<W(cur)>> /\ (to \in Span(lib, DOMAIN lib, {i}) => cur \in Span(lib, DOMAIN lib, {i}))
    BY <1>12
  <2> QED
    BY <1>11, <2>1
<1> QED
  BY <1>1, <1>9, <1>10, <1>12 DEF par, W

\* All is measured: the quota is read, and the copy begins.
LEMMA QuotaStep ==
    ASSUME NEW lib, NEW n, Sane(lib, n), NEW i \in Live(lib), NEW d \in Doc, lib[i].kind = d.kind, NEW to \in Nat,
           to \notin Span(lib, DOMAIN lib, {i}), NEW T, T = SubBytes(lib, {i}), NEW new,
           \/ T = 0 /\ new = <<Copy("copyDoc", i, d, to)>>
           \/ T # 0 /\ new = <<Copy("copyDoc", i, d, to), Add(T)>>,
           NEW cap, cap => T <= Quota
    PROVE  CopyWrite(lib, new, cap) /\ Debt(lib, new) = 0
<1> DEFINE x == Copy("copyDoc", i, d, to)
           U == Span(lib, DOMAIN lib, {i})
<1>1. /\ i \in Nat /\ U \in SUBSET DOMAIN lib /\ i \in U /\ ClosedIn(lib, DOMAIN lib, U) /\ to \notin U
  BY RootOutside
<1>2. x \in Frame /\ x.op = "copyDoc" /\ x.id = i /\ x.doc = d /\ x.to = to
  BY <1>1, MeasureFrames
<1>3. Debits(lib)[x] = - SubBytes(lib, {i}) /\ SubBytes(lib, {i}) \in Nat
  BY <1>2, SizesFacts, AllCosted
<1>4. T \in Nat /\ new = <<x>> \o Charge(T)
  <2>1. T \in Nat
    BY <1>3
  <2>2. CASE T = 0
    <3>1. new = <<x>> /\ Charge(T) = <<>>
      BY <2>2 DEF Charge
    <3> HIDE DEF x
    <3>2. <<x>> \o <<>> = <<x>>
      BY <1>2, Single, EmptyCalls
    <3> QED
      BY <2>1, <3>1, <3>2
  <2>3. CASE T # 0
    <3>1. new = <<x, Add(T)>> /\ Charge(T) = <<Add(T)>>
      BY <2>3 DEF Charge
    <3> QED
      BY <2>1, <3>1, PairConcat
  <2> QED
    BY <2>2, <2>3
<1> HIDE DEF x, U
<1>5. x \in CopyFrames(lib, U)
  BY <1>1, <1>2 DEF CopyFrames, LiveKept
<1>6. <<x>> \in Seq(CopyFrames(lib, U))
  BY <1>5, Single
<1>7. Debits(lib)[x] \in Int /\ Debits(lib)[x] = - T
  BY <1>3, <1>4
<1>8. Debt(lib, <<x>>) = - T
  BY <1>7, TallyOne DEF Debt
<1>9. Debt(lib, <<x>> \o Charge(T)) = Debt(lib, <<x>>) + T
  BY <1>4, <1>6, WriteDebt
<1>10. Debt(lib, <<x>>) + T = 0 /\ 0 \in Nat
  <2>1. \A a \in Nat : - a + a = 0 /\ 0 \in Nat
    OBVIOUS
  <2> QED
    BY <1>4, <1>8, <2>1
<1>11. CopyWrite(lib, new, cap)
  BY <1>1, <1>4, <1>6, <1>10 DEF CopyWrite
<1> QED
  BY <1>4, <1>9, <1>10, <1>11

\* A call of a copy that writes no document.
LEMMA QuietCall ==
    ASSUME IInv, NEW p \in Procs, NEW s \in Ready(todo[p]), NEW new, NEW rest, GoesOn(p, s, new, rest),
           Head(s).op \in {"copy", "parent", "walk", "size", "copyQuota", "copyChildren"}
    PROVE  /\ s \in Seq(Frame) /\ s # <<>> /\ Head(s) \in Frame /\ Tail(s) \in Seq(Frame)
           /\ files' = files /\ nextId' = nextId /\ used' = used /\ total \in [Procs -> Nat]
           /\ \/ Head(s).op \in Quits /\ todo'[p] = <<>> /\ total' = total
              \/ /\ FollowsPlace(p, Head(s), new) /\ TotalEffect(p, Head(s))
                 /\ todo'[p] = IF Head(s).op \in First THEN new ELSE new \o Tail(s)
<1>1. s \in Seq(Frame) /\ s # <<>> /\ Head(s) \in Frame /\ Tail(s) \in Seq(Frame)
  BY CallTail DEF Calls
<1>2. total \in [Procs -> Nat] /\ todo \in [Procs -> Seq(Frame)]
  BY DEF IInv, TypeOK
<1>3. todo'[p] = new \o rest
  BY <1>2 DEF GoesOn, Goto
<1>4. CASE Head(s).op \in Quits /\ new = <<>> /\ rest = <<>> /\ UNCHANGED <<data, total, bounds>>
  <2>1. todo'[p] = <<>>
    BY <1>3, <1>4, EmptyConcat
  <2> QED
    BY <1>1, <1>2, <1>4, <2>1 DEF data
<1>5. CASE /\ Follows(p, Head(s), new) /\ Effect(Head(s)) /\ TotalEffect(p, Head(s))
           /\ rest = IF Head(s).op \in First THEN <<>> ELSE Tail(s)
  <2>1. FollowsPlace(p, Head(s), new)
    BY <1>5 DEF Follows, FollowsTrash, FollowsDelete
  <2>2. files' = files /\ nextId' = nextId /\ used' = used
    BY <1>5 DEF Effect, FilesEffect, UsedEffect
  <2>3. new \in Seq(Made(p, Head(s)))
    BY DEF GoesOn
  <2>4. new \o <<>> = new
    BY <2>3, EmptyCalls
  <2>5. todo'[p] = IF Head(s).op \in First THEN new ELSE new \o Tail(s)
    BY <1>3, <1>5, <2>4
  <2> QED
    BY <1>1, <1>2, <1>5, <2>1, <2>2, <2>5
<1> QED
  BY <1>4, <1>5 DEF GoesOn

\* The books are as they were.
Squares(p) ==
    used' + Debt(files', todo'[p]) - LiveBytes(files') = used + Debt(files, todo[p]) - LiveBytes(files)

\* A quiet call, after which as much is owed.
LEMMA QuietBooks ==
    ASSUME IInv, IInv', NEW p \in Procs, files' = files, used' = used, NEW cap, CopyShape(files, todo'[p], total'[p], cap),
           Debt(files, todo'[p]) = Debt(files, todo[p])
    PROVE  CopyShape(files', todo'[p], total'[p], cap) /\ Squares(p)
<1>1. CopyShape(files', todo'[p], total'[p], cap)
  OBVIOUS
<1> QED
  BY <1>1 DEF Squares

LEMMA PlaceCheckShape ==
    ASSUME NEW i, NEW to
    PROVE  \/ to = Root /\ PlaceChecks(i, to) = <<>>
           \/ IsFolder(files[i]) /\ PlaceChecks(i, to) = <<At("parent", to)>> \o <<Into("walk", i, to)>>
           \/ ~IsFolder(files[i]) /\ PlaceChecks(i, to) = <<At("parent", to)>>
<1>1. CASE to = Root
  BY <1>1, EmptyConcat DEF PlaceChecks, ParentCheck
<1>2. CASE to # Root /\ IsFolder(files[i])
  BY <1>2 DEF PlaceChecks, ParentCheck
<1>3. CASE to # Root /\ ~IsFolder(files[i])
  <2> DEFINE x == At("parent", to)
  <2>1. PlaceChecks(i, to) = <<x>> \o <<>>
    BY <1>3 DEF PlaceChecks, ParentCheck
  <2> HIDE DEF x
  <2>2. <<x>> \in Seq({x})
    BY Single
  <2>3. PlaceChecks(i, to) = <<x>>
    BY <2>1, <2>2, EmptyCalls
  <2> QED
    BY <1>3, <2>3 DEF x
<1> QED
  BY <1>1, <1>2, <1>3

\* A process that stops.
LEMMA QuitBooks ==
    ASSUME IInv, IInv', NEW p \in Procs, files' = files, used' = used, todo'[p] = <<>>, NEW cap,
           Debt(files, todo[p]) = 0
    PROVE  CopyShape(files', todo'[p], total'[p], cap) /\ Squares(p)
<1>1. CopyWrite(files, <<>>, cap) /\ Debt(files, <<>>) = 0
  BY CopyNothing
<1>2. CopyShape(files, todo'[p], total'[p], cap)
  BY <1>1 DEF CopyShape
<1> QED
  BY <1>1, <1>2, QuietBooks

LEMMA StartCall ==
    ASSUME IInv, IInv', NoCycle, NEW p \in Procs, NEW s \in Ready(todo[p]), NEW new, NEW rest, GoesOn(p, s, new, rest),
           NEW cap, CopyStart(todo[p], total[p])
    PROVE  CopyShape(files', todo'[p], total'[p], cap) /\ Squares(p)
<1>1. Sane(files, nextId)
  BY SaneHolds
<1>2. PICK i \in Nat, to \in Nat : todo[p] = <<Into("copy", i, to)>>
  BY DEF CopyStart
<1>3. total[p] = 0
  BY DEF CopyStart
<1> DEFINE x == Into("copy", i, to)
<1>4. x.op = "copy" /\ x.id = i /\ x.to = to
  BY DEF Into
<1>5. todo[p] = <<x>>
  BY <1>2
<1> HIDE DEF x
<1>6. Head(todo[p]) = x /\ todo[p] # <<>>
  BY <1>5
<1>7. s = todo[p]
  BY <1>4, <1>6 DEF Ready, EachOps
<1>8. Head(s) = x /\ Head(s).op = "copy"
  BY <1>4, <1>6, <1>7
<1>9. todo[p] \in Seq(Frame) /\ todo'[p] \in Seq(Frame)
  BY DEF IInv, TypeOK
<1>10. Debt(files, todo[p]) = 0
  BY <1>1, <1>9, ShapeDebt
<1>11. /\ files' = files /\ used' = used
       /\ \/ todo'[p] = <<>>
          \/ /\ FollowsPlace(p, Head(s), new) /\ TotalEffect(p, Head(s))
             /\ todo'[p] = IF Head(s).op \in First THEN new ELSE new \o Tail(s)
  BY <1>8, QuietCall
<1>12. CASE todo'[p] = <<>>
  BY <1>10, <1>11, <1>12, QuitBooks
<1>13. CASE /\ FollowsPlace(p, Head(s), new) /\ TotalEffect(p, Head(s))
            /\ todo'[p] = IF Head(s).op \in First THEN new ELSE new \o Tail(s)
  <2>1. i \in Live(files) /\ new = PlaceChecks(i, to) \o <<Of("size", i, files[i]), Copy("copyQuota", i, files[i], to)>>
    BY <1>4, <1>8, <1>13 DEF FollowsPlace, Plain
  <2>2. todo'[p] = new /\ total' = total
    BY <1>8, <1>13 DEF First, TotalEffect
  <2>3. files[i] \in Doc
    BY <2>1 DEF IInv, TypeOK, Live
  <2>4. new = PlaceChecks(i, to) \o Measure(i, files[i], to)
    <3>1. Measure(i, files[i], to) = <<Of("size", i, files[i]), Copy("copyQuota", i, files[i], to)>>
      BY <2>3, MeasureFrames
    <3> QED
      BY <2>1, <3>1
  <2>5. CopyWalk(files, PlaceChecks(i, to) \o Measure(i, files[i], to), 0)
        \/ CopySize(files, PlaceChecks(i, to) \o Measure(i, files[i], to), 0)
    BY <1>1, <2>1, PlaceCheckShape, StartStep
  <2>6. CopyWalk(files, todo'[p], total'[p]) \/ CopySize(files, todo'[p], total'[p])
    BY <1>3, <2>2, <2>4, <2>5
  <2>7. Debt(files, todo'[p]) = 0
    BY <1>1, <1>9, <2>6, ShapeDebt
  <2>8. CopyShape(files, todo'[p], total'[p], cap)
    BY <2>6 DEF CopyShape
  <2> QED
    BY <1>10, <1>11, <2>7, <2>8, QuietBooks
<1> QED
  BY <1>11, <1>12, <1>13

LEMMA WalkCall ==
    ASSUME IInv, IInv', NoCycle, NEW p \in Procs, NEW s \in Ready(todo[p]), NEW new, NEW rest, GoesOn(p, s, new, rest),
           NEW cap, CopyWalk(files, todo[p], total[p])
    PROVE  CopyShape(files', todo'[p], total'[p], cap) /\ Squares(p)
<1>1. Sane(files, nextId) /\ FoldersHold(files)
  BY SaneHolds, FoldersThere
<1>2. todo[p] \in Seq(Frame) /\ todo'[p] \in Seq(Frame)
  BY DEF IInv, TypeOK
<1> DEFINE t == todo[p]
           T == total[p]
<1>3. /\ t # <<>> /\ Head(t).op \in {"parent", "walk"}
      /\ Head(t).op = "parent" /\ Head(t).id \in Live(files) /\ IsFolder(files[Head(t).id])
         => CopyWalk(files, Tail(t), T) \/ CopySize(files, Tail(t), T)
      /\ Head(t).op = "walk" /\ Head(t).to # Head(t).id =>
           \A up : up = (IF Head(t).to \in DOMAIN files THEN files[Head(t).to].parent ELSE Root) =>
             LET v == IF up = Root THEN <<>> ELSE <<Into("walk", Head(t).id, up)>>
             IN  CopyWalk(files, v \o Tail(t), T) \/ CopySize(files, v \o Tail(t), T)
  BY <1>1, <1>2, WalkStep
<1>4. s = t
  BY <1>3 DEF Ready, EachOps
<1> HIDE DEF t
<1>5. Head(s).op \in {"parent", "walk"}
  BY <1>3, <1>4
<1>6. /\ files' = files /\ used' = used /\ Tail(s) \in Seq(Frame)
      /\ \/ todo'[p] = <<>>
         \/ /\ FollowsPlace(p, Head(s), new) /\ TotalEffect(p, Head(s))
            /\ todo'[p] = IF Head(s).op \in First THEN new ELSE new \o Tail(s)
  BY <1>5, QuietCall
<1>7. Debt(files, todo[p]) = 0
  BY <1>1, <1>2, ShapeDebt
<1>8. CASE todo'[p] = <<>>
  BY <1>6, <1>7, <1>8, QuitBooks
<1>9. CASE /\ FollowsPlace(p, Head(s), new) /\ TotalEffect(p, Head(s))
           /\ todo'[p] = IF Head(s).op \in First THEN new ELSE new \o Tail(s)
  <2>1. todo'[p] = new \o Tail(s) /\ total' = total
    BY <1>5, <1>9 DEF First, TotalEffect
  <2>2. CopyWalk(files, new \o Tail(s), T) \/ CopySize(files, new \o Tail(s), T)
    <3>1. CASE Head(s).op = "parent"
      <4>1. new = <<>> /\ Head(s).id \in Live(files) /\ IsFolder(files[Head(s).id])
        BY <1>9, <3>1 DEF FollowsPlace, Plain, Accepts
      <4>2. <<>> \o Tail(s) = Tail(s)
        BY <1>6, EmptyCalls
      <4> QED
        BY <1>3, <1>4, <3>1, <4>1, <4>2
    <3>2. CASE Head(s).op = "walk"
      <4>1. Head(s).to # Head(s).id /\ new = WalkUp(Head(s).id, Head(s).to)
        BY <1>9, <3>2 DEF FollowsPlace, Plain
      <4> QED
        BY <1>3, <1>4, <3>2, <4>1 DEF WalkUp
    <3> QED
      BY <1>5, <3>1, <3>2
  <2>3. CopyWalk(files, todo'[p], total'[p]) \/ CopySize(files, todo'[p], total'[p])
    BY <2>1, <2>2 DEF T
  <2>4. Debt(files, todo'[p]) = 0
    BY <1>1, <1>2, <2>3, ShapeDebt
  <2>5. CopyShape(files, todo'[p], total'[p], cap)
    BY <2>3 DEF CopyShape
  <2> QED
    BY <1>6, <1>7, <2>4, <2>5, QuietBooks
<1> QED
  BY <1>6, <1>8, <1>9

LEMMA SizeCall ==
    ASSUME IInv, IInv', NoCycle, NEW p \in Procs, NEW s \in Ready(todo[p]), NEW new, NEW rest, GoesOn(p, s, new, rest),
           NEW cap, cap => used \in Nat, CopySize(files, todo[p], total[p])
    PROVE  CopyShape(files', todo'[p], total'[p], cap) /\ Squares(p)
<1>1. Sane(files, nextId) /\ FoldersHold(files)
  BY SaneHolds, FoldersThere
<1>2. todo[p] \in Seq(Frame) /\ todo'[p] \in Seq(Frame) /\ total[p] \in Nat
  BY DEF IInv, TypeOK
<1>3. Debt(files, todo[p]) = 0
  BY <1>1, <1>2, ShapeDebt
<1>4. PICK i \in Live(files), d \in Doc, to \in Nat, z \in Seq(SizeFrames(files)) :
        /\ files[i].kind = d.kind /\ todo[p] = z \o <<Copy("copyQuota", i, d, to)>>
        /\ to \notin Span(files, DOMAIN files, {i})
        /\ total[p] + Tally(Sizes(files), z) = SubBytes(files, {i})
  BY DEF CopySize
<1> DEFINE y == Copy("copyQuota", i, d, to)
<1>5. y \in Frame /\ y.op = "copyQuota" /\ y.id = i /\ y.doc = d /\ y.to = to
  <2>1. i \in Nat
    BY <1>1, RootOutside
  <2> QED
    BY <2>1, MeasureFrames DEF Copy
<1>6. todo[p] = z \o <<y>>
  BY <1>4
<1> HIDE DEF y
<1>7. <<y>> \in Seq(Frame)
  BY <1>5, Single
<1>8. ASSUME NEW r \in Seq(SizeFrames(files)), total'[p] + Tally(Sizes(files), r) = SubBytes(files, {i}),
             todo'[p] = r \o <<y>>
      PROVE  CopySize(files, todo'[p], total'[p])
  <2>1. todo'[p] = r \o <<Copy("copyQuota", i, d, to)>>
    BY <1>8 DEF y
  <2> QED
    BY <1>4, <1>8, <2>1 DEF CopySize
<1>9. CASE z = <<>>
  <2>1. todo[p] = <<y>>
    <3>1. <<>> \o <<y>> = <<y>>
      BY <1>7, EmptyCalls
    <3> QED
      BY <1>6, <1>9, <3>1
  <2>2. Head(todo[p]) = y /\ todo[p] # <<>>
    BY <2>1
  <2>3. s = todo[p]
    BY <1>5, <2>2 DEF Ready, EachOps
  <2>4. Head(s) = y /\ Head(s).op = "copyQuota"
    BY <1>5, <2>2, <2>3
  <2>5. /\ files' = files /\ used' = used
        /\ \/ todo'[p] = <<>>
           \/ /\ FollowsPlace(p, Head(s), new) /\ TotalEffect(p, Head(s))
              /\ todo'[p] = IF Head(s).op \in First THEN new ELSE new \o Tail(s)
    BY <2>4, QuietCall
  <2>6. CASE todo'[p] = <<>>
    BY <1>3, <2>5, <2>6, QuitBooks
  <2>7. CASE /\ FollowsPlace(p, Head(s), new) /\ TotalEffect(p, Head(s))
             /\ todo'[p] = IF Head(s).op \in First THEN new ELSE new \o Tail(s)
    <3> DEFINE T == total[p]
    <3>1. /\ Fits(T)
          /\ \/ T = 0 /\ new = <<Copy("copyDoc", i, d, to)>>
             \/ T # 0 /\ new = <<Copy("copyDoc", i, d, to), Add(T)>>
      BY <1>5, <2>4, <2>7 DEF FollowsPlace, Plain
    <3>2. todo'[p] = new
      BY <2>4, <2>7 DEF First
    <3>3. T = SubBytes(files, {i})
      <4>1. Tally(Sizes(files), z) = 0
        BY <1>9, TallyEmpty
      <4> QED
        BY <1>2, <1>4, <4>1
    <3>4. cap => T <= Quota
      BY <1>2, <3>1, QuotaAssumption DEF Fits
    <3>5. files[i].kind = d.kind /\ to \notin Span(files, DOMAIN files, {i})
      BY <1>4
    <3> HIDE DEF T
    <3>6. CopyWrite(files, new, cap) /\ Debt(files, new) = 0
      BY <1>1, <3>1, <3>3, <3>4, <3>5, QuotaStep
    <3>7. CopyShape(files, todo'[p], total'[p], cap) /\ Debt(files, todo'[p]) = 0
      BY <3>2, <3>6 DEF CopyShape
    <3> QED
      BY <1>3, <2>5, <3>7, QuietBooks
  <2> QED
    BY <2>5, <2>6, <2>7
<1>10. CASE z # <<>>
  <2>1. PICK r \in Seq(SizeFrames(files)) : /\ r # <<>> /\ s = r \o <<y>> /\ Head(r).op = "size"
                                            /\ Tally(Sizes(files), r) = Tally(Sizes(files), z)
    <3>1. s \in Ready(z \o <<y>>)
      BY <1>6
    <3> QED
      BY <1>1, <1>7, <1>10, <3>1, SizeReady
  <2>2. r \in Seq(Frame)
    <3>1. SizeFrames(files) \subseteq Frame
      BY DEF SizeFrames
    <3> QED
      BY <3>1, Wider
  <2>3. Head(r) \in Frame /\ Tail(r) \in Seq(Frame) /\ Head(s) = Head(r) /\ Tail(s) = Tail(r) \o <<y>>
    BY <1>7, <2>1, <2>2, HeadTail
  <2>4. /\ files' = files /\ used' = used /\ total \in [Procs -> Nat]
        /\ FollowsPlace(p, Head(s), new) /\ TotalEffect(p, Head(s))
        /\ todo'[p] = new \o Tail(s)
    <3>1. Head(s).op = "size" /\ "size" \notin Quits /\ "size" \notin First
      BY <2>1, <2>3 DEF Quits, First
    <3> QED
      BY <3>1, QuietCall
  <2>5. \/ ~IsFolder(Head(r).doc) /\ new = <<>>
        \/ IsFolder(Head(r).doc) /\ new = Each("sizeEach", Found(files, LiveChildren(files, Head(r).id)), Root)
    BY <2>1, <2>3, <2>4 DEF FollowsPlace, Plain, Found, Fetch
  <2>6. total'[p] = total[p] + Bytes(Head(r).doc)
    BY <2>1, <2>3, <2>4 DEF TotalEffect
  <2>7. /\ new \o Tail(r) \in Seq(SizeFrames(files)) /\ Bytes(Head(r).doc) \in Nat
        /\ Bytes(Head(r).doc) + Tally(Sizes(files), new \o Tail(r)) = Tally(Sizes(files), r)
    BY <1>1, <2>1, <2>5, SizeStep
  <2>8. todo'[p] = (new \o Tail(r)) \o <<y>>
    <3>1. new \in Seq(Frame)
      <4>1. new \in Seq(Made(p, Head(s))) /\ new \o (Tail(r) \o <<y>>) \in Seq(Frame)
        BY <1>2, <2>3, <2>4 DEF GoesOn
      <4> QED
        BY <4>1, <1>7, <2>3, PartSeq
    <3>2. new \o (Tail(r) \o <<y>>) = (new \o Tail(r)) \o <<y>>
      BY <1>7, <2>3, <3>1, Concat3
    <3> QED
      BY <2>3, <2>4, <3>2
  <2> DEFINE v == new \o Tail(r)
             A == Tally(Sizes(files), v)
             B == Tally(Sizes(files), z)
  <2>9. A \in Int /\ B \in Int
    <3>1. \A f \in SizeFrames(files) : Sizes(files)[f] \in Int
      BY <1>1, SizesFacts DEF SizeFrames
    <3> QED
      BY <2>7, <3>1, TallyIs
  <2>10. Bytes(Head(r).doc) + A = B /\ v \in Seq(SizeFrames(files)) /\ todo'[p] = v \o <<y>>
    BY <2>1, <2>7, <2>8
  <2>11. total[p] + B = SubBytes(files, {i})
    BY <1>4
  <2> HIDE DEF v, A, B
  <2>12. total'[p] + A = SubBytes(files, {i})
    BY <1>2, <2>6, <2>7, <2>9, <2>10, <2>11
  <2>13. total'[p] + Tally(Sizes(files), v) = SubBytes(files, {i})
    BY <2>12 DEF A
  <2>14. CopySize(files, todo'[p], total'[p])
    BY <1>8, <2>10, <2>13
  <2>15. Debt(files, todo'[p]) = 0
    BY <1>1, <1>2, <2>14, ShapeDebt
  <2>16. CopyShape(files, todo'[p], total'[p], cap)
    BY <2>14 DEF CopyShape
  <2> QED
    BY <1>3, <2>4, <2>15, <2>16, QuietBooks
<1> QED
  BY <1>9, <1>10

\* What a copy that goes on with v and then charges for b amounts to.
LEMMA WriteOn ==
    ASSUME NEW lib, NEW n, Sane(lib, n), NEW U \in SUBSET DOMAIN lib, ClosedIn(lib, DOMAIN lib, U),
           NEW v \in Seq(CopyFrames(lib, U)), NEW b \in Nat, NEW cap, cap => b <= Quota,
           Debt(lib, v) + b \in Nat
    PROVE  CopyWrite(lib, v \o Charge(b), cap) /\ Debt(lib, v \o Charge(b)) = Debt(lib, v) + b
BY WriteDebt DEF CopyWrite

LEMMA WriteCall ==
    ASSUME IInv, IInv', NoCycle, NoCycle', NEW p \in Procs, NEW s \in Ready(todo[p]), NEW new, NEW rest,
           GoesOn(p, s, new, rest), NEW cap, CopyWrite(files, todo[p], cap), ~Pure(todo[p])
    PROVE  CopyShape(files', todo'[p], total'[p], cap) /\ Squares(p)
<1>1. Sane(files, nextId) /\ Sane(files', nextId') /\ FoldersHold(files)
  BY SaneHolds, SaneNext, FoldersThere
<1>2. /\ todo[p] \in Seq(Frame) /\ todo'[p] \in Seq(Frame) /\ todo \in [Procs -> Seq(Frame)]
      /\ used \in Int /\ used' \in Int
  BY DEF IInv, TypeOK
<1>3. PICK b \in Nat, U \in SUBSET DOMAIN files : \E z \in Seq(CopyFrames(files, U)) :
        /\ todo[p] = z \o Charge(b) /\ ClosedIn(files, DOMAIN files, U)
        /\ Debt(files, z) + b \in Nat /\ (cap => b <= Quota)
  BY DEF CopyWrite
<1>4. PICK z \in Seq(CopyFrames(files, U)) :
        /\ todo[p] = z \o Charge(b) /\ ClosedIn(files, DOMAIN files, U)
        /\ Debt(files, z) + b \in Nat /\ (cap => b <= Quota)
  BY <1>3
<1> DEFINE c == Charge(b)
<1>5. c \in Seq(Frame) /\ Pure(c) /\ todo[p] = z \o c
  BY <1>1, <1>4, ChargeFacts
<1>6. Debt(files, z) \in Int /\ Debt(files, todo[p]) = Debt(files, z) + b
  BY <1>1, <1>4, WriteDebt
<1>7. \A lib : \A v : /\ v \in Seq(CopyFrames(lib, U)) /\ Sane(lib, nextId')
                      /\ U \in SUBSET DOMAIN lib /\ ClosedIn(lib, DOMAIN lib, U)
                      /\ Debt(lib, v) + b \in Nat
                      => CopyShape(lib, v \o c, total'[p], cap) /\ Debt(lib, v \o c) = Debt(lib, v) + b
  <2> SUFFICES ASSUME NEW lib, NEW v, v \in Seq(CopyFrames(lib, U)), Sane(lib, nextId'),
                      U \in SUBSET DOMAIN lib, ClosedIn(lib, DOMAIN lib, U), Debt(lib, v) + b \in Nat
               PROVE  CopyShape(lib, v \o c, total'[p], cap) /\ Debt(lib, v \o c) = Debt(lib, v) + b
    OBVIOUS
  <2>1. CopyWrite(lib, v \o Charge(b), cap) /\ Debt(lib, v \o Charge(b)) = Debt(lib, v) + b
    BY <1>4, WriteOn
  <2> QED
    BY <2>1 DEF CopyShape
<1> HIDE DEF c
<1>8. z # <<>>
  <2>1. ASSUME z = <<>> PROVE FALSE
    <3>1. <<>> \o c = c
      BY <1>5, EmptyCalls
    <3> QED
      BY <1>5, <2>1, <3>1
  <2> QED
    BY <2>1
<1>9. PICK r \in Seq(CopyFrames(files, U)) : /\ r # <<>> /\ s = r \o c /\ Head(r).op \in {"copyDoc", "copyChildren"}
                                             /\ Debt(files, r) = Debt(files, z)
  <2>1. s \in Ready(z \o c)
    BY <1>5
  <2> QED
    BY <1>1, <1>5, <1>8, <2>1, CopyReady
<1>10. r \in Seq(Frame)
  <2>1. CopyFrames(files, U) \subseteq Frame
    BY DEF CopyFrames
  <2> QED
    BY <2>1, Wider
<1>11. Head(r) \in Frame /\ Tail(r) \in Seq(Frame) /\ Head(s) = Head(r) /\ Tail(s) = Tail(r) \o c
  BY <1>5, <1>9, <1>10, HeadTail
<1> DEFINE h == Head(r)
           v == new \o Tail(r)
<1>12. Head(s).op \notin Quits /\ Head(s).op \notin First
  BY <1>9, <1>11 DEF Quits, First
<1>13. /\ Follows(p, Head(s), new) /\ Effect(Head(s)) /\ TotalEffect(p, Head(s))
       /\ todo'[p] = new \o Tail(s)
  BY <1>2, <1>12 DEF GoesOn, Goto
<1>14. todo'[p] = v \o c
  <2>1. new \in Seq(Frame)
    <3>1. new \in Seq(Made(p, Head(s))) /\ new \o (Tail(r) \o c) \in Seq(Frame)
      BY <1>2, <1>11, <1>13 DEF GoesOn
    <3> QED
      BY <3>1, <1>5, <1>11, PartSeq
  <2>2. new \o (Tail(r) \o c) = (new \o Tail(r)) \o c
    <3> DEFINE e == Tail(r)
    <3>1. new \in Seq(Frame) /\ e \in Seq(Frame) /\ c \in Seq(Frame)
      BY <1>5, <1>11, <2>1
    <3> HIDE DEF e
    <3>2. new \o e \o c = new \o (e \o c)
      BY <3>1, Concat3
    <3> QED
      BY <3>2 DEF e
  <2> QED
    BY <1>11, <1>13, <2>2
<1>15. used' = used
  BY <1>9, <1>11, <1>13 DEF Effect, UsedEffect
<1>16. CASE h.op = "copyChildren"
  <2>1. new = Each("copyEach", Found(files, LiveChildren(files, h.id)), h.to) /\ files' = files /\ nextId' = nextId
    BY <1>11, <1>13, <1>16 DEF Follows, FollowsPlace, FollowsTrash, FollowsDelete, Plain, Found, Fetch, Effect, FilesEffect
  <2>2. v \in Seq(CopyFrames(files, U)) /\ Debt(files, v) = Debt(files, r)
    BY <1>1, <1>4, <1>9, <1>16, <2>1, CopyChildrenStep
  <2> HIDE DEF v
  <2>3. CopyShape(files, v \o c, total'[p], cap) /\ Debt(files, v \o c) = Debt(files, v) + b
    BY <1>1, <1>4, <1>7, <1>9, <2>1, <2>2
  <2>4. CopyShape(files, todo'[p], total'[p], cap) /\ Debt(files, todo'[p]) = Debt(files, todo[p])
    BY <1>6, <1>9, <1>14, <2>2, <2>3
  <2> QED
    BY <1>15, <2>1, <2>4, QuietBooks
<1>17. CASE h.op = "copyDoc"
  <2>1. /\ \/ ~IsFolder(h.doc) /\ new = <<>>
           \/ IsFolder(h.doc) /\ new = <<Into("copyChildren", h.id, nextId)>>
    BY <1>11, <1>13, <1>17 DEF Follows, FollowsPlace, FollowsTrash, FollowsDelete, Plain
  <2>2. InsertDoc([h.doc EXCEPT !.parent = h.to, !.trash = "live"])
    BY <1>11, <1>13, <1>17 DEF Effect, FilesEffect
  <2>3. nextId \notin DOMAIN files
    BY <1>1 DEF Sane
  <2>4. /\ nextId' = nextId + 1 /\ DOMAIN files' = DOMAIN files \cup {nextId}
        /\ \A j \in DOMAIN files : files'[j] = files[j]
        /\ files'[nextId] = [h.doc EXCEPT !.parent = h.to, !.trash = "live"]
    BY <2>2, <2>3 DEF InsertDoc
  <2> HIDE DEF v
  <2>5. /\ U \subseteq DOMAIN files' /\ ClosedIn(files', DOMAIN files', U)
        /\ v \in Seq(CopyFrames(files', U)) /\ Bytes(h.doc) \in Nat
        /\ Debt(files', v) = Debt(files, r) + Bytes(h.doc)
        /\ LiveBytes(files) \in Nat /\ LiveBytes(files') = LiveBytes(files) + Bytes(h.doc)
    <3> DEFINE F == files'
               n == nextId
    <3>1. /\ Sane(files, n) /\ FoldersHold(files) /\ Sane(F, n + 1) /\ U \subseteq DOMAIN files
          /\ ClosedIn(files, DOMAIN files, U)
          /\ r \in Seq(CopyFrames(files, U)) /\ r # <<>> /\ Head(r).op = "copyDoc"
          /\ DOMAIN F = DOMAIN files \cup {n} /\ \A j \in DOMAIN files : F[j] = files[j]
          /\ F[n] = [Head(r).doc EXCEPT !.parent = Head(r).to, !.trash = "live"]
          /\ \/ ~IsFolder(Head(r).doc) /\ new = <<>>
             \/ IsFolder(Head(r).doc) /\ new = <<Into("copyChildren", Head(r).id, n)>>
      BY <1>1, <1>4, <1>9, <1>17, <2>1, <2>4
    <3> HIDE DEF F, n
    <3>2. CopyDoes(files, n, F, U, r, new)
      BY <3>1 DEF CopyDoes
    <3>3. /\ U \subseteq DOMAIN F /\ ClosedIn(F, DOMAIN F, U)
          /\ new \o Tail(r) \in Seq(CopyFrames(F, U)) /\ Bytes(Head(r).doc) \in Nat
          /\ Debt(F, new \o Tail(r)) = Debt(files, r) + Bytes(Head(r).doc)
          /\ LiveBytes(files) \in Nat /\ LiveBytes(F) = LiveBytes(files) + Bytes(Head(r).doc)
      BY <3>2, CopyDocStep
    <3> QED
      BY <3>3 DEF F, v
  <2> DEFINE B == Bytes(h.doc)
             D == Debt(files, z)
             E == Debt(files', v)
             L == LiveBytes(files)
  <2>6. B \in Nat /\ D \in Int /\ E = D + B /\ D + b \in Nat /\ L \in Nat /\ LiveBytes(files') = L + B
    BY <1>4, <1>6, <1>9, <2>5
  <2> HIDE DEF B, D, E, L, h
  <2>7. E + b \in Nat
    BY <2>6
  <2>8. CopyShape(files', v \o c, total'[p], cap) /\ Debt(files', v \o c) = E + b
    BY <1>1, <1>7, <2>5, <2>7 DEF E
  <2>9. used' + (E + b) - (L + B) = used + (D + b) - L
    BY <1>2, <1>15, <2>6
  <2>10. Squares(p)
    BY <1>6, <1>14, <2>6, <2>8, <2>9 DEF Squares, D, L
  <2> QED
    BY <1>14, <2>8, <2>10
<1> QED
  BY <1>9, <1>16, <1>17

\* Every call of a copy.
LEMMA CopyStep ==
    ASSUME IInv, IInv', NoCycle, NoCycle', NEW p \in Procs, NEW s \in Ready(todo[p]), NEW new, NEW rest,
           GoesOn(p, s, new, rest), NEW cap, cap => used + Debt(files, todo[p]) \in Nat,
           CopyShape(files, todo[p], total[p], cap), ~Pure(todo[p])
    PROVE  CopyShape(files', todo'[p], total'[p], cap) /\ Squares(p)
<1>1. CASE CopySize(files, todo[p], total[p])
  <2>1. Debt(files, todo[p]) = 0
    <3>1. todo[p] \in Seq(Frame) /\ Sane(files, nextId)
      BY SaneHolds DEF IInv, TypeOK
    <3> QED
      BY <1>1, <3>1, ShapeDebt
  <2>2. used \in Int
    BY DEF IInv, TypeOK
  <2>3. cap => used \in Nat
    BY <2>1, <2>2
  <2> QED
    BY <1>1, <2>3, SizeCall
<1> QED
  BY <1>1, StartCall, WalkCall, WriteCall DEF CopyShape

(***************************************************************************)
(* What the kinds of requests can meet.                                    *)
(***************************************************************************)
\* A client that copies is the only one that does anything.
CopiesAlone == \A c \in Clients : "copy" \in may[c] => \A d \in Clients \ {c} : may[d] = {}

\* One client does everything, and the others only add documents.
Cast ==
    /\ \E c \in Clients : \A d \in Clients \ {c} : may[d] \subseteq Adding
    /\ CopiesAlone

\* The calls of a request of this kind, once a copy is done copying.
LastOps(kind) == IF kind = "copy" THEN {"parent", "walk", "add"} ELSE OpsOf[kind]

LEMMA KindFacts ==
    ASSUME NEW kind \in Kinds
    PROVE  /\ LastOps(kind) \cap CopyKind = {}
           /\ \A op \in LastOps(kind) : MoreOps(op) \subseteq LastOps(kind)
           /\ OpsOf[kind] \ CopyKind \subseteq LastOps(kind)
           /\ kind # "copy" => OpsOf[kind] = LastOps(kind)
           /\ "setParent" \in LastOps(kind) => LastOps(kind) \cap (TreeOps \cup TreeLoops \cup Toggles \cup {"restoreCheck"}) = {}
           /\ "remove" \in LastOps(kind) => "restoreCheck" \notin LastOps(kind)
           /\ kind \in Adding \cup {"copy"} =>
                LastOps(kind) \cap (TreeOps \cup TreeLoops \cup Toggles \cup {"restoreCheck", "setParent"}) = {}
<1>1. CASE kind = "trash"
  BY <1>1, OpsClosed DEF LastOps, OpsOf, CopyKind, CopyOps, TreeOps, TreeLoops, Toggles, Adding
<1>2. CASE kind = "restore"
  BY <1>2, OpsClosed DEF LastOps, OpsOf, CopyKind, CopyOps, TreeOps, TreeLoops, Toggles, Adding
<1>3. CASE kind = "delete"
  BY <1>3, OpsClosed DEF LastOps, OpsOf, CopyKind, CopyOps, TreeOps, TreeLoops, Toggles, Adding
<1>4. CASE kind = "purge"
  BY <1>4, OpsClosed DEF LastOps, OpsOf, CopyKind, CopyOps, TreeOps, TreeLoops, Toggles, Adding
<1>5. CASE kind = "move"
  BY <1>5, OpsClosed DEF LastOps, OpsOf, CopyKind, CopyOps, TreeOps, TreeLoops, Toggles, Adding
<1>6. CASE kind = "mkdir"
  BY <1>6, OpsClosed DEF LastOps, OpsOf, CopyKind, CopyOps, TreeOps, TreeLoops, Toggles, Adding
<1>7. CASE kind = "upload"
  BY <1>7, OpsClosed DEF LastOps, OpsOf, CopyKind, CopyOps, TreeOps, TreeLoops, Toggles, Adding
<1>8. CASE kind = "init"
  BY <1>8, OpsClosed DEF LastOps, OpsOf, CopyKind, CopyOps, TreeOps, TreeLoops, Toggles, Adding
<1>9. CASE kind = "complete"
  BY <1>9, OpsClosed DEF LastOps, OpsOf, CopyKind, CopyOps, TreeOps, TreeLoops, Toggles, Adding
<1>10. CASE kind = "copy"
  <2>1. MoreOps("parent") = {} /\ MoreOps("walk") = {"walk"} /\ MoreOps("add") = {}
    BY DEF MoreOps
  <2>2. LastOps(kind) = {"parent", "walk", "add"}
    BY <1>10 DEF LastOps
  <2>3. \A op \in LastOps(kind) : MoreOps(op) \subseteq LastOps(kind)
    BY <2>1, <2>2
  <2> QED
    BY <1>10, <2>2, <2>3 DEF OpsOf, CopyKind, CopyOps, TreeOps, TreeLoops, Toggles, Adding
<1> QED
  BY <1>1, <1>2, <1>3, <1>4, <1>5, <1>6, <1>7, <1>8, <1>9, <1>10 DEF Kinds

LEMMA WorkerFacts == WorkerOps \cap (TreeOps \cup TreeLoops \cup Toggles \cup CopyKind
                                     \cup {"restoreCheck", "setParent", "add"}) = {}
BY DEF WorkerOps, TreeOps, TreeLoops, Toggles, CopyKind, CopyOps

LEMMA PureSeq ==
    ASSUME NEW O, NEW s \in Seq(FramesOf(O))
    PROVE  /\ \A g \in In(s) : g \in Frame /\ g.op \in O
           /\ O \cap CopyKind = {} => Pure(s)
<1>1. In(s) \subseteq FramesOf(O)
  BY InSeq
<1>2. \A g \in In(s) : g \in Frame /\ g.op \in O
  BY <1>1 DEF FramesOf
<1> QED
  BY <1>2 DEF Pure

\* The calls of a process that does not copy are those of one kind of request.
LEMMA OneKind ==
    ASSUME IInv, OneRequest, NEW p \in Procs, Pure(todo[p])
    PROVE  \E O : /\ \A op \in O : MoreOps(op) \subseteq O
                  /\ todo[p] \in Seq(FramesOf(O))
                  /\ O \cap CopyKind = {}
                  /\ "setParent" \in O => O \cap (TreeOps \cup TreeLoops \cup Toggles \cup {"restoreCheck"}) = {}
                  /\ "remove" \in O => "restoreCheck" \notin O
                  /\ \/ O \cap (TreeOps \cup TreeLoops \cup Toggles \cup {"restoreCheck", "setParent"}) = {}
                     \/ p \in Clients /\ ~(may[p] \subseteq Adding)
<1>1. CASE p \in Workers
  BY <1>1, WorkerOpsClosed, WorkerFacts DEF OneRequest
<1>2. CASE p \in Clients /\ todo[p] = <<>>
  <2>1. todo[p] \in Seq(FramesOf({}))
    BY <1>2, NoFrames
  <2> QED
    BY <2>1
<1>3. CASE p \in Clients /\ todo[p] # <<>>
  <2>1. PICK kind \in may[p] : todo[p] \in Seq(FramesOf(OpsOf[kind]))
    BY <1>3 DEF OneRequest
  <2>2. kind \in Kinds
    BY <1>3, MayKinds
  <2>3. todo[p] \in Seq(FramesOf(LastOps(kind)))
    <3>1. \A g \in In(todo[p]) : g \in Frame /\ g.op \in OpsOf[kind]
      BY <2>1, PureSeq
    <3>2. \A g \in In(todo[p]) : g.op \notin CopyKind
      BY DEF Pure
    <3>3. OpsOf[kind] \ CopyKind \subseteq LastOps(kind)
      BY <2>2, KindFacts
    <3>4. \A g \in In(todo[p]) : g \in FramesOf(LastOps(kind))
      BY <3>1, <3>2, <3>3 DEF FramesOf
    <3>5. todo[p] \in Seq(In(todo[p]))
      <4>1. todo[p] \in Seq(FramesOf(OpsOf[kind]))
        BY <2>1
      <4> QED
        BY <4>1 DEF In
    <3> QED
      BY <3>4, <3>5, Wider
  <2>4. may[p] \subseteq Adding => kind \in Adding \cup {"copy"}
    BY <2>1
  <2> QED
    BY <1>3, <2>2, <2>3, <2>4, KindFacts
<1> QED
  BY <1>1, <1>2, <1>3 DEF Procs

\* A process that copies is a client that may, and no other is at work.
LEMMA Copier ==
    ASSUME IInv, OneRequest, Cast, NEW p \in Procs, ~Pure(todo[p])
    PROVE  /\ p \in Clients
           /\ \A q \in Procs \ {p} : todo[q] \in Seq(FramesOf(WorkerOps)) /\ Pure(todo[q]) /\ (q \in Clients => todo[q] = <<>>)
<1>1. \A q \in Procs : todo[q] \in Seq(FramesOf(WorkerOps)) => Pure(todo[q])
  BY PureSeq, WorkerFacts
<1>2. p \in Clients
  BY <1>1 DEF OneRequest, Procs
<1>3. todo[p] # <<>>
  <2>1. <<>> \in Seq(FramesOf(WorkerOps))
    BY NoFrames
  <2> QED
    BY <1>1, <2>1
<1>4. PICK kind \in may[p] : todo[p] \in Seq(FramesOf(OpsOf[kind]))
  BY <1>2, <1>3 DEF OneRequest
<1>5. kind = "copy"
  <2>1. kind \in Kinds
    BY <1>2, MayKinds
  <2>2. ASSUME kind # "copy" PROVE FALSE
    <3>1. OpsOf[kind] \cap CopyKind = {}
      BY <2>1, <2>2, KindFacts
    <3> QED
      BY <1>4, <3>1, PureSeq
  <2> QED
    BY <2>2
<1>6. \A d \in Clients \ {p} : may[d] = {}
  BY <1>2, <1>4, <1>5 DEF Cast, CopiesAlone
<1>7. \A d \in Clients \ {p} : todo[d] = <<>>
  BY <1>6 DEF OneRequest
<1>8. \A q \in Procs \ {p} : todo[q] \in Seq(FramesOf(WorkerOps))
  BY <1>7, NoFrames DEF OneRequest, Procs
<1> QED
  BY <1>1, <1>2, <1>7, <1>8

\* All processes but one do calls that do not depend on the library.
LEMMA OthersLoose ==
    ASSUME IInv, OneRequest, Cast, NEW p \in Procs, Pure(todo[p]), NEW s \in Ready(todo[p]),
           Head(s).op \in Toggles \cup {"setParent"}, NEW q \in Procs \ {p}, Pure(todo[q])
    PROVE  \A g \in In(todo[q]) : Loose(g)
<1>1. PICK O : /\ \A op \in O : MoreOps(op) \subseteq O
               /\ todo[p] \in Seq(FramesOf(O))
               /\ \/ O \cap (TreeOps \cup TreeLoops \cup Toggles \cup {"restoreCheck", "setParent"}) = {}
                  \/ p \in Clients /\ ~(may[p] \subseteq Adding)
  BY OneKind
<1>2. s \in Seq(FramesOf(O)) /\ s # <<>>
  BY <1>1, OpsReady, CallTail DEF Calls
<1>3. Head(s) \in FramesOf(O)
  BY <1>2
<1>4. p \in Clients /\ ~(may[p] \subseteq Adding)
  BY <1>1, <1>3 DEF FramesOf
<1>5. q \in Clients => may[q] \subseteq Adding
  BY <1>4 DEF Cast
<1>6. PICK Q : /\ todo[q] \in Seq(FramesOf(Q))
               /\ Q \cap CopyKind = {}
               /\ \/ Q \cap (TreeOps \cup TreeLoops \cup Toggles \cup {"restoreCheck", "setParent"}) = {}
                  \/ q \in Clients /\ ~(may[q] \subseteq Adding)
  BY OneKind
<1>7. Q \cap (TreeOps \cup TreeLoops \cup Toggles \cup CopyOps \cup {"restoreCheck"}) = {}
  BY <1>5, <1>6 DEF CopyKind
<1> QED
  BY <1>6, <1>7, PureSeq DEF Loose

\* What a process has to do says what the library is, or is a copy's.
InOrder(lib, n, s, T, cap) == (Tidy(lib, n, s) /\ Pure(s)) \/ CopyShape(lib, s, T, cap)

LEMMA InOrderIs ==
    ASSUME NEW lib, NEW n, Sane(lib, n), NEW s \in Seq(Frame), NEW T, NEW cap, InOrder(lib, n, s, T, cap)
    PROVE  /\ Pure(s) => Tidy(lib, n, s)
           /\ ~Pure(s) => CopyShape(lib, s, T, cap)
BY ShapeKind DEF InOrder

LEMMA PureNoCopy ==
    ASSUME NEW s, Pure(s)
    PROVE  NoCopy(s)
BY DEF Pure, NoCopy, CopyKind

LEMMA SpareOthers ==
    ASSUME IInv, OneRequest, Cast, NEW p \in Procs, Pure(todo[p]), NEW s \in Ready(todo[p]), NEW q \in Procs \ {p},
           Tidy(files, nextId, todo[q]), Pure(todo[q]), todo[q] \in Seq(Frame)
    PROVE  Spares(files, Head(s), todo[q]) /\ NoCopy(todo[q]) /\ \A g \in In(todo[q]) : Sure(files, nextId, g)
<1>1. \A g \in In(todo[q]) : Sure(files, nextId, g)
  BY DEF In, Tidy
<1>2. NoCopy(todo[q])
  BY PureNoCopy
<1>3. CASE Head(s).op \in Toggles \cup {"setParent"}
  <2>1. \A g \in In(todo[q]) : Loose(g)
    BY <1>3, OthersLoose
  <2>2. Head(s).op \notin Early
    BY <1>3 DEF Toggles, Early, Quits
  <2>3. \A g \in In(todo[q]) : Loose(g) /\ Sure(files, nextId, g)
    BY <1>1, <2>1
  <2> QED
    BY <1>1, <1>2, <2>2, <2>3, SparesLoose
<1>4. CASE Head(s).op \notin Toggles \cup {"setParent"}
  BY <1>1, <1>2, <1>4 DEF Spares, Toggles
<1> QED
  BY <1>3, <1>4

\* A step of a process that does not copy.
LEMMA PureStep ==
    ASSUME IInv, IInv', OneRequest, NoCycle, NoCycle', NEW p \in Procs, Step(p) \/ WorkerStep(p),
           NEW s \in Ready(todo[p]), NEW new, NEW rest, GoesOn(p, s, new, rest),
           Pure(todo[p]), Tidy(files, nextId, todo[p])
    PROVE  /\ Tidy(files', nextId', todo'[p]) /\ Pure(todo'[p]) /\ Squares(p)
           /\ Does(files, nextId, files', nextId', Head(s)) /\ Head(s).op # "copyDoc"
<1>1. PICK O : /\ \A op \in O : MoreOps(op) \subseteq O
               /\ todo[p] \in Seq(FramesOf(O))
               /\ O \cap CopyKind = {}
               /\ "setParent" \in O => O \cap (TreeOps \cup TreeLoops \cup Toggles \cup {"restoreCheck"}) = {}
               /\ "remove" \in O => "restoreCheck" \notin O
  BY OneKind
<1>2. s \in Seq(FramesOf(O)) /\ s \in Seq(Frame) /\ s # <<>>
  BY <1>1, OpsReady, CallTail DEF Calls
<1>3. \A g \in In(s) : g.op \in O
  BY <1>2, PureSeq
<1>4. Head(s) \in FramesOf(O) /\ Tail(s) \in Seq(FramesOf(O))
  <2>1. Tail(s) \in Seq(FramesOf(O))
    BY <1>2
  <2> QED
    BY <1>2, <2>1
<1>5. \A g \in In(Tail(s)) : g.op \in O
  BY <1>4, PureSeq
<1>6. Sane(files, nextId) /\ todo[p] \in Seq(Frame)
  BY SaneHolds DEF IInv, TypeOK
<1>7. Tidy(files, nextId, s) /\ Debt(files, s) = Debt(files, todo[p])
  BY <1>2, <1>6, PureNoCopy, ReadyTidy
<1>8. Head(s).op = "remove" => (\A g \in In(Tail(s)) : g.op # "restoreCheck")
  BY <1>1, <1>4, <1>5 DEF FramesOf
<1>9. Head(s).op = "setParent" => (\A g \in In(Tail(s)) : Loose(g))
  BY <1>1, <1>4, <1>5 DEF FramesOf, Loose, CopyKind
<1>10. \A g \in In(s) : g.op \notin CopyOps \cup {"copyQuota"}
  BY <1>1, <1>3 DEF CopyKind
<1>11. /\ Tidy(files', nextId', todo'[p])
       /\ Does(files, nextId, files', nextId', Head(s))
       /\ used' + Debt(files', todo'[p]) - LiveBytes(files') = used + Debt(files, s) - LiveBytes(files)
  BY <1>7, <1>8, <1>9, <1>10, OwnStep
<1>12. Squares(p)
  BY <1>7, <1>11 DEF Squares
<1>13. Head(s).op # "copyDoc"
  BY <1>1, <1>4 DEF FramesOf, CopyKind, CopyOps
<1>14. todo'[p] \in Seq(FramesOf(O))
  BY <1>1, OpsStep
<1>15. Pure(todo'[p])
  BY <1>1, <1>14, PureSeq
<1> QED
  BY <1>11, <1>12, <1>13, <1>15

LEMMA OwnBooks ==
    ASSUME IInv, IInv', OneRequest, NoCycle, NoCycle', NEW p \in Procs, Step(p) \/ WorkerStep(p),
           NEW s \in Ready(todo[p]), NEW new, NEW rest, GoesOn(p, s, new, rest),
           NEW cap, cap /\ ~Pure(todo[p]) => used + Debt(files, todo[p]) \in Nat,
           InOrder(files, nextId, todo[p], total[p], cap)
    PROVE  InOrder(files', nextId', todo'[p], total'[p], cap) /\ Squares(p)
<1>1. Sane(files, nextId) /\ todo[p] \in Seq(Frame)
  BY SaneHolds DEF IInv, TypeOK
<1>2. CASE Pure(todo[p])
  <2>1. Tidy(files, nextId, todo[p])
    BY <1>1, <1>2, InOrderIs
  <2> QED
    BY <1>2, <2>1, PureStep DEF InOrder
<1>3. CASE ~Pure(todo[p])
  <2>1. CopyShape(files, todo[p], total[p], cap)
    BY <1>1, <1>3, InOrderIs
  <2> QED
    BY <1>3, <2>1, CopyStep DEF InOrder
<1> QED
  BY <1>2, <1>3

\* A step of a worker changes nothing but messages.
LEMMA WorkerSame ==
    ASSUME IInv, NEW p \in Procs, todo[p] \in Seq(FramesOf(WorkerOps)), NEW s \in Ready(todo[p]), NEW new, NEW rest,
           GoesOn(p, s, new, rest)
    PROVE  SameTree(files, files') /\ nextId' = nextId
<1>1. s \in Seq(FramesOf(WorkerOps)) /\ s # <<>>
  BY OpsReady, WorkerOpsClosed, CallTail DEF Calls
<1>2. Head(s) \in FramesOf(WorkerOps)
  BY <1>1
<1>3. Head(s).op \in {"send", "record"}
  BY <1>2 DEF FramesOf, WorkerOps
<1>4. FilesEffect(Head(s))
  BY <1>3 DEF GoesOn, Quits, Effect
<1>5. CASE Head(s).op = "send"
  <2>1. files' = files /\ nextId' = nextId
    BY <1>4, <1>5 DEF FilesEffect
  <2> QED
    BY <2>1 DEF SameTree
<1>6. CASE Head(s).op = "record"
  <2> DEFINE i == Head(s).id
  <2>1. /\ files' = [j \in DOMAIN files |-> IF j = i THEN [files[i] EXCEPT !.msg = Head(s).msg] ELSE files[j]]
        /\ nextId' = nextId
    BY <1>4, <1>6 DEF FilesEffect, SetDoc
  <2>2. \A j \in DOMAIN files : files[j] \in Doc
    BY DEF IInv, TypeOK
  <2>3. ASSUME i \in DOMAIN files
        PROVE  LET d == [files[i] EXCEPT !.msg = Head(s).msg]
               IN  d.parent = files[i].parent /\ d.kind = files[i].kind /\ d.trash = files[i].trash
    <3>1. files[i] \in Doc
      BY <2>2, <2>3
    <3> QED
      BY <3>1 DEF Doc
  <2> HIDE DEF i
  <2> QED
    BY <2>1, <2>3 DEF SameTree
<1> QED
  BY <1>3, <1>5, <1>6

LEMMA TotalOthers ==
    ASSUME IInv, NEW p \in Procs, NEW s, NEW new, NEW rest, GoesOn(p, s, new, rest), NEW q \in Procs \ {p}
    PROVE  total'[q] = total[q]
<1>1. total \in [Procs -> Nat]
  BY DEF IInv, TypeOK
<1> QED
  BY <1>1 DEF GoesOn, TotalEffect

LEMMA OtherBooks ==
    ASSUME IInv, IInv', OneRequest, NoCycle, NoCycle', Cast, NEW p \in Procs, Step(p) \/ WorkerStep(p),
           NEW s \in Ready(todo[p]), NEW new, NEW rest, GoesOn(p, s, new, rest),
           NEW cap, InOrder(files, nextId, todo[p], total[p], cap),
           NEW q \in Procs \ {p}, InOrder(files, nextId, todo[q], total[q], cap)
    PROVE  InOrder(files', nextId', todo[q], total'[q], cap) /\ Debt(files', todo[q]) = Debt(files, todo[q])
<1>1. /\ Sane(files, nextId) /\ Sane(files', nextId')
      /\ todo[p] \in Seq(Frame) /\ todo[q] \in Seq(Frame) /\ total'[q] = total[q]
  BY SaneHolds, SaneNext, TotalOthers DEF IInv, TypeOK
<1>2. CASE ~Pure(todo[q])
  <2>1. CopyShape(files, todo[q], total[q], cap)
    BY <1>1, <1>2, InOrderIs
  <2>2. todo[p] \in Seq(FramesOf(WorkerOps))
    BY <1>2, Copier
  <2>3. SameTree(files, files') /\ nextId' = nextId
    BY <2>2, WorkerSame
  <2>4. CopyShape(files', todo[q], total[q], cap) /\ Debt(files', todo[q]) = Debt(files, todo[q])
    BY <1>1, <2>1, <2>3, ShapeSame
  <2> QED
    BY <1>1, <2>4 DEF InOrder
<1>3. CASE Pure(todo[q])
  <2>1. Tidy(files, nextId, todo[q])
    BY <1>1, <1>3, InOrderIs
  <2>2. Shifts(files, nextId, files', nextId', todo[q])
    <3>1. CASE ~Pure(todo[p])
      <4>1. todo[q] \in Seq(FramesOf(WorkerOps))
        BY <3>1, Copier
      <4>2. \A g \in In(todo[q]) : Loose(g)
        BY <4>1, PureSeq, WorkerFacts DEF Loose, CopyKind
      <4>3. \A g \in In(todo[q]) : Sure(files, nextId, g)
        BY <2>1 DEF In, Tidy
      <4> QED
        BY <1>1, <4>2, <4>3, ShiftLoose
    <3>2. CASE Pure(todo[p])
      <4>1. Tidy(files, nextId, todo[p])
        BY <1>1, <3>2, InOrderIs
      <4>2. Does(files, nextId, files', nextId', Head(s)) /\ Head(s).op # "copyDoc"
        BY <3>2, <4>1, PureStep
      <4>3. Spares(files, Head(s), todo[q]) /\ NoCopy(todo[q]) /\ \A g \in In(todo[q]) : Sure(files, nextId, g)
        BY <1>1, <1>3, <2>1, <3>2, SpareOthers
      <4> QED
        BY <1>1, <4>2, <4>3, DoesShift
    <3> QED
      BY <3>1, <3>2
  <2>3. Tidy(files', nextId', todo[q]) /\ Debt(files', todo[q]) = Debt(files, todo[q])
    BY <1>1, <2>1, <2>2, ShiftTidy
  <2> QED
    BY <1>3, <2>3 DEF InOrder
<1> QED
  BY <1>2, <1>3

(***************************************************************************)
(* The books.                                                              *)
(***************************************************************************)
\* What each process owes the counter, and what all owe.
Debts(lib, calls) == [p \in Procs |-> Debt(lib, calls[p])]
Owed == SumOf(Debts(files, todo), Busy)

Orderly == \A p \in Procs : InOrder(files, nextId, todo[p], total[p], faults = 0)

\* How far the counter, with all that is owed to it, is from the bytes of the
\* live files.
Drift == used + Owed - LiveBytes(files)

LEMMA SumMoves ==
    ASSUME NEW B, NEW C, NEW p, IsFiniteSet(B), NEW f, NEW g,
           \A q \in B \cup C \cup {p} : f[q] \in Int /\ g[q] \in Int,
           \A q \in (B \cup C) \ {p} : f[q] = g[q],
           B \ {p} = C \ {p}, p \notin B => f[p] = 0, p \notin C => g[p] = 0
    PROVE  /\ IsFiniteSet(C) /\ SumOf(f, B) \in Int /\ SumOf(g, C) \in Int
           /\ SumOf(g, C) = SumOf(f, B) - f[p] + g[p]
<1> DEFINE D == B \ {p}
<1>1. IsFiniteSet(D)
  BY FS_RemoveElement
<1>2. IsFiniteSet(D \cup {p})
  BY <1>1, FS_AddElement
<1>3. IsFiniteSet(C)
  <2>1. C \subseteq D \cup {p}
    OBVIOUS
  <2> QED
    BY <1>2, <2>1, FS_Subset
<1>4. SumOf(f, B) \in Int /\ SumOf(g, C) \in Int /\ SumOf(f, D) \in Int
  BY <1>1, <1>3, SumInt
<1>5. SumOf(g, D) = SumOf(f, D)
  BY <1>1, SumEqual
<1>6. SumOf(f, B) = f[p] + SumOf(f, D)
  <2>1. CASE p \in B
    BY <2>1, SumSplit
  <2>2. CASE p \notin B
    <3>1. D = B /\ f[p] = 0
      BY <2>2
    <3> HIDE DEF D
    <3> QED
      BY <1>4, <3>1
  <2> QED
    BY <2>1, <2>2
<1>7. SumOf(g, C) = g[p] + SumOf(g, D)
  <2>1. CASE p \in C
    <3>1. SumOf(g, C) = g[p] + SumOf(g, C \ {p})
      BY <1>3, <2>1, SumSplit
    <3> QED
      BY <3>1
  <2>2. CASE p \notin C
    <3>1. D = C /\ g[p] = 0
      BY <2>2
    <3>2. SumOf(g, C) = SumOf(g, D)
      BY <3>1
    <3> HIDE DEF D
    <3> QED
      BY <1>4, <3>1, <3>2
  <2> QED
    BY <2>1, <2>2
<1>8. f[p] \in Int /\ g[p] \in Int
  OBVIOUS
<1> HIDE DEF D
<1>9. SumOf(g, C) = SumOf(f, B) - f[p] + g[p]
  BY <1>4, <1>5, <1>6, <1>7, <1>8
<1> QED
  BY <1>3, <1>4, <1>9

LEMMA LiveNat ==
    ASSUME NEW lib, NEW n, Sane(lib, n)
    PROVE  LiveBytes(lib) \in Nat
<1>1. /\ IsFiniteSet(DOMAIN lib) /\ IsFiniteSet(Live(lib)) /\ Live(lib) \subseteq DOMAIN lib
      /\ \A i \in DOMAIN lib : Weights(lib)[i] \in Nat
  BY SaneFacts
<1>2. LiveBytes(lib) = SumOf(Weights(lib), Live(lib))
  BY <1>1, LiveBytesIs DEF Sane
<1>3. \A i \in Live(lib) : Weights(lib)[i] \in Nat
  BY <1>1
<1> QED
  BY <1>1, <1>2, <1>3, SumNat

LEMMA InOrderCap ==
    ASSUME NEW lib, NEW n, NEW s, NEW T, NEW cap, NEW cap2, cap2 => cap, InOrder(lib, n, s, T, cap)
    PROVE  InOrder(lib, n, s, T, cap2)
BY ShapeCap DEF InOrder

\* While one copies, the others owe nothing.
LEMMA CopierOwes ==
    ASSUME IInv, OneRequest, Cast, NoCycle, IsFiniteSet(Busy), NEW p \in Procs, ~Pure(todo[p])
    PROVE  Owed = Debt(files, todo[p])
<1> DEFINE f == Debts(files, todo)
           B == Busy
           D == B \ {p}
<1>1. Sane(files, nextId) /\ \A q \in Procs : todo[q] \in Seq(Frame) /\ f[q] = Debt(files, todo[q])
  BY SaneHolds DEF IInv, TypeOK, Debts
<1>2. \A q \in Procs : f[q] \in Int
  BY <1>1, AllCosted
<1>3. p \in B /\ B \subseteq Procs /\ IsFiniteSet(B)
  <2>1. Pure(<<>>)
    BY InSmall DEF Pure
  <2> QED
    BY <2>1 DEF Busy
<1>4. \A q \in D : f[q] = 0
  <2> SUFFICES ASSUME NEW q \in Procs \ {p} PROVE f[q] = 0
    BY <1>3
  <2>1. todo[q] \in Seq(FramesOf(WorkerOps))
    BY Copier
  <2>2. \A g \in In(todo[q]) : g.op \notin {"add"} \cup Toggles \cup CopyOps
    BY <2>1, PureSeq, WorkerFacts DEF CopyKind
  <2> QED
    BY <1>1, <2>2, DebtBlank
<1>5. IsFiniteSet(D)
  BY <1>3, FS_RemoveElement
<1> HIDE DEF f, B
<1>6. SumOf(f, B) = f[p] + SumOf(f, D)
  BY <1>2, <1>3, SumSplit
<1>7. SumOf(f, D) = 0
  BY <1>4, <1>5, SumZero
<1>8. SumOf(f, B) = f[p]
  BY <1>2, <1>6, <1>7
<1> QED
  BY <1>1, <1>8 DEF Owed, f, B

\* A step that leaves the library alone, or leaves the others' calls alone.
LEMMA BooksMove ==
    ASSUME IInv, IInv', NoCycle, NoCycle', IsFiniteSet(Busy), NEW p \in Procs,
           \A q \in Procs \ {p} : todo'[q] = todo[q] /\ Debt(files', todo[q]) = Debt(files, todo[q]), Squares(p)
    PROVE  IsFiniteSet(Busy') /\ Drift \in Int /\ Drift' = Drift
<1>1. /\ Sane(files, nextId) /\ Sane(files', nextId')
      /\ \A q \in Procs : todo[q] \in Seq(Frame) /\ todo'[q] \in Seq(Frame)
      /\ used \in Int /\ used' \in Int
  BY SaneHolds, SaneNext DEF IInv, TypeOK
<1> DEFINE f == Debts(files, todo)
           g == Debts(files', todo')
<1>2. \A q \in Procs : f[q] = Debt(files, todo[q]) /\ g[q] = Debt(files', todo'[q])
  BY DEF Debts
<1>3. \A q \in Procs : Debt(files, todo[q]) \in Int
  BY <1>1, AllCosted
<1>4. \A q \in Procs : Debt(files', todo'[q]) \in Int
  BY <1>1, AllCosted
<1>5. /\ Busy \subseteq Procs /\ Busy' \subseteq Procs /\ Busy \ {p} = Busy' \ {p}
      /\ p \notin Busy => todo[p] = <<>>
      /\ p \notin Busy' => todo'[p] = <<>>
  BY DEF Busy
<1>6. Debt(files, <<>>) = 0 /\ Debt(files', <<>>) = 0
  BY TallyEmpty DEF Debt
<1>7. \A q \in Procs \ {p} : f[q] = g[q]
  BY <1>2
<1> HIDE DEF f, g
<1> DEFINE B == Busy
           C == Busy'
<1>8. /\ \A q \in B \cup C \cup {p} : f[q] \in Int /\ g[q] \in Int
      /\ \A q \in (B \cup C) \ {p} : f[q] = g[q]
      /\ p \notin B => f[p] = 0
      /\ p \notin C => g[p] = 0
      /\ B \ {p} = C \ {p} /\ IsFiniteSet(B)
  BY <1>2, <1>3, <1>4, <1>5, <1>6, <1>7
<1> HIDE DEF B, C
<1>9. IsFiniteSet(C) /\ SumOf(f, B) \in Int /\ SumOf(g, C) \in Int /\ SumOf(g, C) = SumOf(f, B) - f[p] + g[p]
  BY <1>8, SumMoves, SMTT(60)
<1>10. f[p] \in Int /\ g[p] \in Int
  BY <1>8
<1>11. used' + g[p] - LiveBytes(files') = used + f[p] - LiveBytes(files)
  BY <1>2 DEF Squares
<1>12. LiveBytes(files) \in Nat /\ LiveBytes(files') \in Nat
  BY <1>1, LiveNat
<1> DEFINE u == used
           u2 == used'
           S == SumOf(f, B)
           S2 == SumOf(g, C)
           a == f[p]
           b == g[p]
           L == LiveBytes(files)
           L2 == LiveBytes(files')
<1>13. /\ u \in Int /\ u2 \in Int /\ S \in Int /\ S2 \in Int /\ a \in Int /\ b \in Int /\ L \in Int /\ L2 \in Int
       /\ S2 = S - a + b /\ u2 + b - L2 = u + a - L
  BY <1>1, <1>9, <1>10, <1>11, <1>12
<1>16. /\ Drift = u + S - L
       /\ Drift' = u2 + S2 - L2
  BY DEF Drift, Owed, f, g, B, C
<1> HIDE DEF u, u2, S, S2, a, b, L, L2
<1>17. u + S - L \in Int /\ u2 + S2 - L2 = u + S - L
  BY <1>13
<1>15. IsFiniteSet(Busy')
  BY <1>9 DEF C
<1> QED
  BY <1>15, <1>16, <1>17

LEMMA BooksStep ==
    ASSUME IInv, IInv', OneRequest, NoCycle, NoCycle', Cast, Orderly, IsFiniteSet(Busy), faults = 0 => Drift = 0,
           NEW p \in Procs, Step(p) \/ WorkerStep(p)
    PROVE  Orderly' /\ IsFiniteSet(Busy') /\ Drift \in Int /\ Drift' = Drift
<1>1. PICK s \in Ready(todo[p]) : \E new : \E rest : GoesOn(p, s, new, rest)
  BY StepShape
<1>2. PICK new, rest : GoesOn(p, s, new, rest)
  BY <1>1
<1>3. faults' = faults
  BY <1>2 DEF GoesOn, Effect, bounds
<1>4. \A q \in Procs \ {p} : todo'[q] = todo[q]
  BY StepOfOne
<1>5. LiveBytes(files) \in Nat /\ used \in Int /\ Debt(files, todo[p]) \in Int
  <2>1. Sane(files, nextId) /\ todo[p] \in Seq(Frame)
    BY SaneHolds DEF IInv, TypeOK
  <2>2. LiveBytes(files) \in Nat /\ Debt(files, todo[p]) \in Int
    BY <2>1, LiveNat, AllCosted
  <2> QED
    BY <2>2 DEF IInv, TypeOK
<1> DEFINE cap == faults = 0
<1>6. \A q \in Procs : InOrder(files, nextId, todo[q], total[q], cap)
  BY DEF Orderly
<1>7. cap /\ ~Pure(todo[p]) => used + Debt(files, todo[p]) \in Nat
  <2> SUFFICES ASSUME cap, ~Pure(todo[p]) PROVE used + Debt(files, todo[p]) \in Nat
    OBVIOUS
  <2>1. Owed = Debt(files, todo[p])
    BY CopierOwes
  <2>2. used + Debt(files, todo[p]) - LiveBytes(files) = 0
    BY <2>1 DEF Drift
  <2> QED
    BY <1>5, <2>2
<1>8. faults' = 0 => cap
  BY <1>3
<1> HIDE DEF cap
<1>9. InOrder(files', nextId', todo'[p], total'[p], cap) /\ Squares(p)
  BY <1>2, <1>6, <1>7, OwnBooks
<1>10. ASSUME NEW q \in Procs \ {p}
       PROVE  InOrder(files', nextId', todo[q], total'[q], cap) /\ Debt(files', todo[q]) = Debt(files, todo[q])
  BY <1>2, <1>6, OtherBooks
<1>11. \A q \in Procs : InOrder(files', nextId', todo'[q], total'[q], cap)
  BY <1>4, <1>9, <1>10
<1>12. \A q \in Procs : InOrder(files', nextId', todo'[q], total'[q], faults' = 0)
  BY <1>8, <1>11, InOrderCap
<1>13. Orderly'
  BY <1>12 DEF Orderly
<1>14. IsFiniteSet(Busy') /\ Drift \in Int /\ Drift' = Drift
  BY <1>4, <1>9, <1>10, BooksMove
<1> QED
  BY <1>13, <1>14

AcctInv ==
    /\ faults \in Nat
    /\ Cast => Orderly /\ IsFiniteSet(Busy) /\ (faults = 0 => Drift = 0)

LEMMA NothingInOrder ==
    ASSUME NEW lib, NEW n, NEW T, NEW cap
    PROVE  InOrder(lib, n, <<>>, T, cap)
BY TidySmall, InSmall DEF InOrder, Pure

\* What a request or a worker starts with owes nothing.
LEMMA StartTidy ==
    ASSUME NEW lib, NEW n, Sane(lib, n), NEW s \in Seq(Frame),
           \A f \in In(s) : Loose(f) /\ f.op # "add" /\ (f.op = "insert" => IsLive(f.doc))
    PROVE  Tidy(lib, n, s) /\ Debt(lib, s) = 0
<1>1. \A k \in 1 .. Len(s) : s[k] \in In(s) /\ s[k] \in Frame
  BY DEF In
<1>2. ASSUME NEW f \in In(s), f \in Frame
      PROVE  /\ f.op \notin Weighty /\ Region(lib, f) = {} /\ ~Heavy(lib, f) /\ Sure(lib, n, f)
             /\ Debits(lib)[f] = 0
  <2>1. Loose(f) /\ f.op # "add"
    OBVIOUS
  <2>2. f.op \notin Weighty
    BY <2>1 DEF Loose, Weighty
  <2>3. Sure(lib, n, f)
    BY <2>1 DEF Loose, Sure, TreeLoops
  <2>4. Debits(lib)[f] = 0
    BY <1>2, <2>2, DebitFacts
  <2>5. Region(lib, f) = {} /\ ~Heavy(lib, f)
    BY <1>2, <2>1, <2>3, LooseFacts
  <2> QED
    BY <2>2, <2>3, <2>4, <2>5
<1>3. \A a \in 1 .. Len(s) : Sure(lib, n, s[a])
  BY <1>1, <1>2
<1>4. ASSUME NEW a \in 1 .. Len(s), NEW b \in 1 .. Len(s) PROVE Ahead(lib, s[a], s[b])
  <2>1. s[b].op \notin Weighty /\ Region(lib, s[b]) = {} /\ ~Heavy(lib, s[b])
    BY <1>1, <1>2
  <2> QED
    BY <2>1 DEF Ahead
<1>5. Tidy(lib, n, s)
  BY <1>3, <1>4 DEF Tidy
<1>6. \A k \in 1 .. Len(s) : Debits(lib)[s[k]] = 0
  BY <1>1, <1>2
<1>7. Debt(lib, s) = 0
  BY <1>6, TallyZero DEF Debt
<1> QED
  BY <1>5, <1>7

\* The first calls of a request that does not copy.
LEMMA FirstLoose ==
    ASSUME NEW kind \in Kinds, kind # "copy", NEW f \in FirstMade(kind)
    PROVE  /\ Loose(f) /\ f.op # "add" /\ (f.op = "insert" => IsLive(f.doc))
           /\ f.op \notin CopyKind
<1>1. /\ f.op \in {"trash", "restore", "delete", "purge", "move", "parent", "insert", "quota", "initQuota", "dedup"}
      /\ f.op = "insert" => IsLive(f.doc)
  <2>1. CASE kind = "trash"
    BY <2>1 DEF FirstMade, At
  <2>2. CASE kind = "restore"
    BY <2>2 DEF FirstMade, At
  <2>3. CASE kind = "delete"
    BY <2>3 DEF FirstMade, At
  <2>4. CASE kind = "purge"
    BY <2>4 DEF FirstMade, At
  <2>5. CASE kind = "move"
    BY <2>5 DEF FirstMade, Into
  <2>6. CASE kind = "mkdir"
    BY <2>6 DEF FirstMade, At, Insert, NewDoc, IsLive
  <2>7. CASE kind = "upload"
    BY <2>7 DEF FirstMade, At, New
  <2>8. CASE kind = "init"
    BY <2>8 DEF FirstMade, At
  <2>9. CASE kind = "complete"
    BY <2>9 DEF FirstMade, New
  <2> QED
    BY <2>1, <2>2, <2>3, <2>4, <2>5, <2>6, <2>7, <2>8, <2>9 DEF Kinds
<1> QED
  BY <1>1 DEF Loose, TreeOps, TreeLoops, Toggles, CopyOps, CopyKind

\* A step that changes only what p has to do, for something that owes as much.
LEMMA BooksQuiet ==
    ASSUME IInv, IInv', NoCycle, NoCycle', Orderly, IsFiniteSet(Busy), UNCHANGED <<files, nextId, used, faults>>,
           NEW p \in Procs, \A q \in Procs \ {p} : todo'[q] = todo[q] /\ total'[q] = total[q],
           InOrder(files, nextId, todo'[p], total'[p], faults = 0), Debt(files, todo'[p]) = Debt(files, todo[p])
    PROVE  Orderly' /\ IsFiniteSet(Busy') /\ Drift' = Drift
<1>1. Orderly'
  BY DEF Orderly
<1>2. \A q \in Procs \ {p} : todo'[q] = todo[q] /\ Debt(files', todo[q]) = Debt(files, todo[q])
  OBVIOUS
<1>3. Squares(p)
  BY DEF Squares
<1>4. IsFiniteSet(Busy') /\ Drift' = Drift
  BY <1>2, <1>3, BooksMove
<1> QED
  BY <1>1, <1>4

LEMMA CastMover == Cast => OneMover
BY DEF Cast, OneMover, Adding

LEMMA AcctInit == Init => AcctInv
<1> SUFFICES ASSUME Init PROVE AcctInv
  OBVIOUS
<1>1. \A p \in Procs : todo[p] = <<>>
  BY DEF Init
<1>2. Orderly
  BY <1>1, NothingInOrder DEF Orderly
<1>3. Busy = {}
  BY <1>1 DEF Busy
<1>4. IsFiniteSet(Busy)
  BY <1>3, FS_EmptySet
<1>5. Owed = 0
  BY <1>3, SumEmpty DEF Owed
<1>6. used = LiveBytes(files) /\ used \in Int
  BY DEF Init
<1>7. Drift = 0
  BY <1>5, <1>6 DEF Drift
<1> QED
  BY <1>2, <1>4, <1>7 DEF AcctInv, Init

\* Thirty days go by for a document in the trash.
LEMMA AcctExpire ==
    ASSUME IInv, IInv', NoCycle, NoCycle', NEW i \in DOMAIN files, Expire(i)
    PROVE  Orderly' /\ IsFiniteSet(Busy') /\ Drift' = Drift
<1>1. /\ files' = [j \in DOMAIN files |-> IF j = i THEN [files[i] EXCEPT !.trash = "expired"] ELSE files[j]]
      /\ UNCHANGED <<used, todo>> /\ files[i].trash = "trashed" /\ Busy = {}
  BY DEF Expire, SetDoc, Idle
<1>2. Busy' = {} /\ \A q \in Procs : todo[q] = <<>> /\ todo'[q] = <<>>
  BY <1>1 DEF Busy
<1>3. Orderly' /\ IsFiniteSet(Busy')
  BY <1>2, NothingInOrder, FS_EmptySet DEF Orderly
<1>4. files[i] \in Doc
  BY DEF IInv, TypeOK
<1>5. i \notin Live(files) /\ i \notin Live(files')
  BY <1>1, <1>4 DEF Live, IsLive, Doc
<1>6. \A j : j # i => /\ j \in Live(files') <=> j \in Live(files)
                      /\ j \in Live(files) => Bytes(files'[j]) = Bytes(files[j])
  BY <1>1 DEF Live
<1>7. Sane(files, nextId) /\ Sane(files', nextId')
  BY SaneHolds, SaneNext
<1>8. /\ LiveBytes(files) \in Nat /\ LiveBytes(files') \in Nat
      /\ LiveBytes(files') - Mine(files', i) = LiveBytes(files) - Mine(files, i)
  BY <1>6, <1>7, WeighOne
<1>9. Mine(files', i) = 0 /\ Mine(files, i) = 0
  BY <1>5 DEF Mine
<1>10. LiveBytes(files') = LiveBytes(files)
  BY <1>8, <1>9
<1>11. Owed = 0
  BY <1>1, SumEmpty DEF Owed
<1>12. Owed' = 0
  BY <1>2, SumEmpty DEF Owed
<1>13. Drift' = Drift
  BY <1>1, <1>10, <1>11, <1>12 DEF Drift
<1> QED
  BY <1>3, <1>13

\* A request begins.
LEMMA AcctBegin ==
    ASSUME IInv, IInv', NoCycle, NoCycle', Orderly, IsFiniteSet(Busy), NEW c \in Clients, Begin(c)
    PROVE  Orderly' /\ IsFiniteSet(Busy') /\ Drift' = Drift
<1>1. PICK kind \in may[c] : \E s \in Requests[kind] : Goto(c, s)
  BY DEF Begin
<1>2. PICK s \in Requests[kind] : Goto(c, s)
  BY <1>1
<1>3. /\ kind \in Kinds /\ c \in Procs /\ todo[c] = <<>> /\ UNCHANGED <<files, nextId, used, faults>>
      /\ todo'[c] = s /\ total'[c] = 0
      /\ \A q \in Procs \ {c} : todo'[q] = todo[q] /\ total'[q] = total[q]
  BY <1>2, MayKinds DEF Begin, data, Goto, IInv, TypeOK, Procs
<1>4. s \in Seq(Frame)
  BY <1>3 DEF IInv, TypeOK
<1>5. Sane(files, nextId)
  BY SaneHolds
<1> DEFINE cap == faults = 0
           T == total'[c]
<1> HIDE DEF cap, T
<1>6. InOrder(files, nextId, s, T, cap) /\ Debt(files, s) = 0
  <2>1. CASE kind # "copy"
    <3>1. In(s) \subseteq FirstMade(kind)
      BY <1>2, <1>3, RequestMade, InSeq
    <3>2. \A f \in In(s) : /\ Loose(f) /\ f.op # "add" /\ (f.op = "insert" => IsLive(f.doc))
                           /\ f.op \notin CopyKind
      BY <1>3, <2>1, <3>1, FirstLoose
    <3>3. Tidy(files, nextId, s) /\ Debt(files, s) = 0
      BY <1>4, <1>5, <3>2, StartTidy
    <3> QED
      BY <3>2, <3>3 DEF InOrder, Pure
  <2>2. CASE kind = "copy"
    <3>1. \E i \in 1 .. (nextId - 1), to \in {Root} \cup DOMAIN files : s = <<Into("copy", i, to)>>
      BY <1>2, <2>2 DEF Requests
    <3>2. DOMAIN files \subseteq Nat /\ Root \in Nat
      BY IdFacts DEF Root
    <3>3. CopyStart(s, T)
      BY <1>3, <3>1, <3>2 DEF CopyStart, T
    <3>4. Debt(files, s) = 0
      BY <1>4, <1>5, <3>3, ShapeDebt
    <3> QED
      BY <3>3, <3>4 DEF InOrder, CopyShape
  <2> QED
    BY <2>1, <2>2
<1>7. Debt(files, todo[c]) = 0
  BY <1>3, TallyEmpty DEF Debt
<1>8. InOrder(files, nextId, todo'[c], total'[c], faults = 0) /\ Debt(files, todo'[c]) = Debt(files, todo[c])
  BY <1>3, <1>6, <1>7 DEF cap, T
<1> QED
  BY <1>3, <1>8, BooksQuiet

\* A worker takes a document from the queue.
LEMMA AcctTake ==
    ASSUME IInv, IInv', NoCycle, NoCycle', Orderly, IsFiniteSet(Busy), NEW w \in Workers, Take(w)
    PROVE  Orderly' /\ IsFiniteSet(Busy') /\ Drift' = Drift
<1> DEFINE f == At("send", Head(queue))
           s == <<f>>
<1>1. /\ w \in Procs /\ todo[w] = <<>> /\ UNCHANGED <<files, nextId, used, faults>>
      /\ todo'[w] = s /\ \A q \in Procs \ {w} : todo'[q] = todo[q] /\ total'[q] = total[q]
  BY DEF Take, Goto, IInv, TypeOK, Procs, bounds
<1>2. f.op = "send" /\ In(s) = {f}
  BY InSmall DEF At
<1>3. s \in Seq(Frame)
  BY <1>1 DEF IInv, TypeOK
<1>4. Loose(f) /\ f.op # "add" /\ f.op # "insert" /\ f.op \notin CopyKind
  BY <1>2 DEF Loose, TreeOps, TreeLoops, Toggles, CopyOps, CopyKind
<1> HIDE DEF f, s
<1>5. Tidy(files, nextId, s) /\ Debt(files, s) = 0
  BY <1>2, <1>3, <1>4, SaneHolds, StartTidy
<1>6. Pure(s)
  BY <1>2, <1>4 DEF Pure
<1>7. Debt(files, todo[w]) = 0
  BY <1>1, TallyEmpty DEF Debt
<1>8. InOrder(files, nextId, todo'[w], total'[w], faults = 0) /\ Debt(files, todo'[w]) = Debt(files, todo[w])
  BY <1>1, <1>5, <1>6, <1>7 DEF InOrder
<1> QED
  BY <1>1, <1>8, BooksQuiet

LEMMA AcctFail ==
    ASSUME IInv, Orderly, IsFiniteSet(Busy), faults \in Nat, NEW p \in Procs, Fail(p)
    PROVE  Orderly' /\ IsFiniteSet(Busy') /\ faults' = faults + 1
<1>1. /\ todo'[p] = <<>> /\ UNCHANGED <<files, nextId, total>> /\ \A q \in Procs \ {p} : todo'[q] = todo[q]
      /\ faults' = faults + 1
  BY DEF Fail, Abort, Goto, IInv, TypeOK, data
<1>2. faults' = 0 => faults = 0
  BY <1>1
<1>3. \A q \in Procs \ {p} : InOrder(files, nextId, todo[q], total[q], faults' = 0)
  BY <1>2, InOrderCap DEF Orderly
<1>4. \A q \in Procs : InOrder(files', nextId', todo'[q], total'[q], faults' = 0)
  BY <1>1, <1>3, NothingInOrder
<1>5. Orderly'
  BY <1>4 DEF Orderly
<1>6. Busy' \subseteq Busy
  BY <1>1 DEF Busy
<1> QED
  BY <1>1, <1>5, <1>6, FS_Subset

LEMMA AcctRestart ==
    ASSUME faults \in Nat, Restart
    PROVE  Orderly' /\ IsFiniteSet(Busy') /\ faults' = faults + 1
<1>1. (\A q \in Procs : todo'[q] = <<>>) /\ faults' = faults + 1
  BY DEF Restart
<1>2. Orderly'
  BY <1>1, NothingInOrder DEF Orderly
<1>3. Busy' = {}
  BY <1>1 DEF Busy
<1> QED
  BY <1>1, <1>2, <1>3, FS_EmptySet

LEMMA AnyStep ==
    ASSUME [Next]_vars
    PROVE  \/ \E c \in Clients : Begin(c)
           \/ \E p \in Procs : Step(p) \/ WorkerStep(p)
           \/ \E w \in Workers : Take(w)
           \/ \E i \in DOMAIN files : Expire(i)
           \/ \E p \in Procs : Fail(p)
           \/ Restart
           \/ UNCHANGED vars
<1>1. Finished => UNCHANGED vars
  BY DEF Finished
<1>2. \A p : p \in Clients \/ p \in Workers => p \in Procs
  BY DEF Procs
<1>3. CASE Next
  BY <1>1, <1>2, <1>3 DEF Next
<1>4. CASE UNCHANGED vars
  BY <1>4
<1> QED
  BY <1>3, <1>4

LEMMA AcctNext ==
    ASSUME IInv, IInv', OneRequest, CycleInv, CycleInv', AcctInv, [Next]_vars
    PROVE  AcctInv'
<1>1. may' = may /\ faults' \in Nat /\ (faults' = 0 => faults = 0)
  <2>1. ASSUME NEW p \in Procs, Step(p) \/ WorkerStep(p) PROVE faults' = faults /\ may' = may
    <3>1. PICK s \in Ready(todo[p]) : \E new : \E rest : GoesOn(p, s, new, rest)
      BY <2>1, StepShape
    <3> QED
      BY <3>1 DEF GoesOn, Effect, bounds
  <2>2. faults \in Nat
    BY DEF AcctInv
  <2>3. may' = may /\ (faults' = faults \/ faults' = faults + 1)
    BY <2>1 DEF Next, Begin, Take, Expire, Fail, Restart, Finished, vars, bounds, Procs
  <2> QED
    BY <2>2, <2>3
<1> SUFFICES ASSUME Cast, Orderly, IsFiniteSet(Busy), NoCycle, NoCycle', faults = 0 => Drift = 0
             PROVE  Orderly' /\ IsFiniteSet(Busy') /\ (faults' = 0 => Drift' = 0)
  <2>1. Cast' <=> Cast
    BY <1>1 DEF Cast, CopiesAlone
  <2>2. Cast => NoCycle /\ NoCycle'
    <3>1. OneMover' <=> OneMover
      BY <1>1 DEF OneMover
    <3> QED
      BY <3>1, CastMover DEF CycleInv
  <2> QED
    BY <1>1, <2>1, <2>2 DEF AcctInv
<1> DEFINE Done == Orderly' /\ IsFiniteSet(Busy') /\ (Drift' = Drift \/ faults' # 0)
<1>2. ASSUME NEW c \in Clients, Begin(c) PROVE Done
  BY <1>2, AcctBegin
<1>3. ASSUME NEW p \in Procs, Step(p) \/ WorkerStep(p) PROVE Done
  BY <1>3, BooksStep
<1>4. ASSUME NEW w \in Workers, Take(w) PROVE Done
  BY <1>4, AcctTake
<1>5. ASSUME NEW i \in DOMAIN files, Expire(i) PROVE Done
  BY <1>5, AcctExpire
<1>6. faults \in Nat
  BY DEF AcctInv
<1>7. ASSUME NEW p \in Procs, Fail(p) PROVE Done
  BY <1>6, <1>7, AcctFail
<1>8. ASSUME Restart PROVE Done
  BY <1>6, <1>8, AcctRestart
<1>9. ASSUME UNCHANGED vars PROVE Done
  <2>1. UNCHANGED <<files, nextId, used, todo, total, faults>>
    BY <1>9 DEF vars, data, bounds
  <2> QED
    BY <2>1 DEF Orderly, Busy, Drift, Owed, Debts
<1> HIDE DEF Done
<1>11. \/ \E c \in Clients : Begin(c)
       \/ \E p \in Procs : Step(p) \/ WorkerStep(p)
       \/ \E w \in Workers : Take(w)
       \/ \E i \in DOMAIN files : Expire(i)
       \/ \E p \in Procs : Fail(p)
       \/ Restart
       \/ UNCHANGED vars
  BY AnyStep
<1>12. (\E c \in Clients : Begin(c)) => Done
  BY <1>2
<1>13. (\E p \in Procs : Step(p) \/ WorkerStep(p)) => Done
  BY <1>3
<1>14. (\E w \in Workers : Take(w)) => Done
  BY <1>4
<1>15. (\E i \in DOMAIN files : Expire(i)) => Done
  BY <1>5
<1>16. (\E p \in Procs : Fail(p)) => Done
  BY <1>7
<1>10. Done
  BY <1>8, <1>9, <1>11, <1>12, <1>13, <1>14, <1>15, <1>16
<1> QED
  BY <1>1, <1>10 DEF Done

LEMMA AcctExact ==
    ASSUME IInv, CycleInv, AcctInv, Cast, faults = 0, Idle
    PROVE  used = LiveBytes(files)
<1>1. Drift = 0 /\ Busy = {}
  BY DEF AcctInv, Idle
<1>2. Owed = 0
  BY <1>1, SumEmpty DEF Owed
<1>3. NoCycle
  BY CastMover DEF CycleInv
<1>4. LiveBytes(files) \in Nat /\ used \in Int
  BY <1>3, SaneHolds, LiveNat DEF IInv, TypeOK
<1> QED
  BY <1>1, <1>2, <1>4 DEF Drift

LEMMA AcctHolds == Spec => [](IInv /\ CycleInv /\ AcctInv)
<1>1. Init => IInv /\ OneRequest /\ CycleInv /\ AcctInv
  BY InitHolds, OneRequestInit, CycleInit, AcctInit
<1>2. IInv /\ OneRequest /\ CycleInv /\ AcctInv /\ [Next]_vars
      => (IInv /\ OneRequest /\ CycleInv /\ AcctInv)'
  BY NextHolds, OneRequestNext, CycleNext, AcctNext
<1> QED
  BY <1>1, <1>2, PTL DEF Spec

\* While one client trashes, restores, moves, deletes and purges, and any
\* number of others add documents, storage_used_bytes is exact whenever no
\* request is at work, if none died: each $inc of move_to_trash, _recursive_trash,
\* restore_from_trash, _recursive_restore and permanent_delete
\* (file_service.py:213-302) is of a file whose state in the trash the same
\* request changes, once.  A client may copy too (copy_file,
\* file_service.py:98-200), if the others then do nothing.
THEOREM SweepsExact == Spec => [](faults = 0 /\ CopiesAlone => SweepExactly)
<1>1. IInv /\ CycleInv /\ AcctInv => (faults = 0 /\ CopiesAlone => SweepExactly)
  BY AcctExact DEF SweepExactly, Accounting, Cast
<1> QED
  BY <1>1, AcctHolds, PTL

\* Nobody works but one client.
OneWorks == \E c \in Clients : \A d \in Clients \ {c} : may[d] = {}

\* A client that is alone leaves storage_used_bytes exact after any sequence
\* of requests, copies among them: what _subtree_size adds up
\* (file_service.py:139-152) is what _copy_subtree inserts (:154-200), and
\* the copies do not lie where they are still to be copied.
THEOREM AloneExact == Spec => [](faults = 0 /\ OneWorks => Accounting)
<1>1. OneWorks => Cast
  BY DEF OneWorks, Cast, CopiesAlone
<1>2. IInv /\ CycleInv /\ AcctInv => (faults = 0 /\ OneWorks => Accounting)
  BY <1>1, AcctExact DEF Accounting
<1> QED
  BY <1>2, AcctHolds, PTL

(***************************************************************************)
(* What a request that dies leaves wrong.                                  *)
(***************************************************************************)
\* No more than the quota, and no less than what a file takes away.
Small == {d \in Int : d <= Quota /\ \E c \in Contents : - Size[c] <= d}

\* There is a file to speak of, and no file is larger than the quota.
Modest == Contents # {} /\ \A c \in Contents : Size[c] <= Quota

\* The calls after which something may be owed still: what follows any other
\* call owes nothing.
Handling == Light \cup Toggles

\* At every turn of the way down through s, what is owed is small.
SlightSet(lib, W) ==
    /\ W \subseteq Seq(Frame)
    /\ \A z \in W :
         /\ Debt(lib, z) \in Small
         /\ z # <<>> => /\ Tail(z) \in W
                        /\ Head(z).op \notin Handling => Debt(lib, Tail(z)) = 0

Slight(lib, s) == \E W : s \in W /\ SlightSet(lib, W)

LEMMA SmallBytes ==
    ASSUME Modest
    PROVE  /\ 0 \in Small /\ Small \subseteq Int
           /\ \A d \in Doc : Bytes(d) \in Small /\ - Bytes(d) \in Small
<1>1. PICK c \in Contents : TRUE
  BY DEF Modest
<1>2. \A x \in Contents : Size[x] \in Nat /\ Size[x] <= Quota
  BY SizeAssumption DEF Modest
<1>3. Quota \in Nat
  BY QuotaAssumption
<1>4. 0 \in Small
  BY <1>1, <1>2, <1>3 DEF Small
<1>5. \A x \in Contents : Size[x] \in Small /\ - Size[x] \in Small
  BY <1>2, <1>3 DEF Small
<1>6. Small \subseteq Int
  BY DEF Small
<1>8. ASSUME NEW d \in Doc PROVE Bytes(d) \in Small /\ - Bytes(d) \in Small
  <2>1. CASE IsFolder(d)
    <3>1. Bytes(d) = 0
      BY <2>1 DEF Bytes
    <3>2. Bytes(d) = 0 /\ - Bytes(d) = 0
      <4>1. Bytes(d) \in Int
        BY <3>1
      <4> QED
        BY <3>1, <4>1, NegZero
    <3> QED
      BY <1>4, <3>2
  <2>2. CASE ~IsFolder(d)
    <3>1. Bytes(d) = Size[d.kind] /\ d.kind \in Contents
      BY <2>2 DEF Bytes, IsFolder, Doc
    <3> QED
      BY <1>5, <3>1
  <2> QED
    BY <2>1, <2>2
<1> QED
  BY <1>4, <1>6, <1>8

LEMMA SlightPop ==
    ASSUME NEW lib, NEW s, Slight(lib, s)
    PROVE  /\ s \in Seq(Frame) /\ Debt(lib, s) \in Small
           /\ s # <<>> => /\ Slight(lib, Tail(s))
                          /\ Head(s).op \notin Handling => Debt(lib, Tail(s)) = 0
BY DEF Slight, SlightSet

LEMMA SlightEmpty ==
    ASSUME NEW lib, Modest
    PROVE  Slight(lib, <<>>)
<1>1. Debt(lib, <<>>) = 0
  BY TallyEmpty DEF Debt
<1>2. 0 \in Small
  BY SmallBytes
<1>3. <<>> \in Seq(Frame)
  BY NoFrames
<1>4. SlightSet(lib, {<<>>})
  BY <1>1, <1>2, <1>3 DEF SlightSet
<1> QED
  BY <1>4 DEF Slight

LEMMA SlightPush ==
    ASSUME NEW lib, NEW n, Sane(lib, n), NEW t, Slight(lib, t), NEW x \in Frame,
           Debits(lib)[x] + Debt(lib, t) \in Small, x.op \notin Handling => Debt(lib, t) = 0
    PROVE  Slight(lib, <<x>> \o t) /\ Debt(lib, <<x>> \o t) = Debits(lib)[x] + Debt(lib, t)
<1> DEFINE s == <<x>> \o t
<1>1. t \in Seq(Frame)
  BY SlightPop
<1>2. s \in Seq(Frame) /\ s # <<>> /\ Head(s) = x /\ Tail(s) = t
  BY <1>1
<1>3. \A f \in Frame : Debits(lib)[f] \in Int
  BY AllCosted
<1> HIDE DEF s
<1>4. Debt(lib, s) = Debits(lib)[x] + Debt(lib, t)
  <2>1. Tally(Debits(lib), s) = Debits(lib)[Head(s)] + Tally(Debits(lib), Tail(s))
    BY <1>2, <1>3, TallyHead
  <2> QED
    BY <1>2, <2>1 DEF Debt
<1>5. PICK W : t \in W /\ SlightSet(lib, W)
  BY DEF Slight
<1>6. SlightSet(lib, W \cup {s})
  BY <1>2, <1>4, <1>5 DEF SlightSet
<1>7. Slight(lib, s) /\ Debt(lib, s) = Debits(lib)[x] + Debt(lib, t)
  BY <1>4, <1>6 DEF Slight
<1> QED
  BY <1>7 DEF s

LEMMA SlightConcat ==
    ASSUME NEW lib, NEW n, Sane(lib, n), NEW a, Slight(lib, a), NEW t, Slight(lib, t), Debt(lib, t) = 0
    PROVE  Slight(lib, a \o t)
<1>1. PICK W : t \in W /\ SlightSet(lib, W)
  BY DEF Slight
<1>2. PICK V : a \in V /\ SlightSet(lib, V)
  BY DEF Slight
<1>3. \A f \in Frame : Debits(lib)[f] \in Int
  BY AllCosted
<1>4. t \in Seq(Frame)
  BY SlightPop
<1> DEFINE U == W \cup {v \o t : v \in V}
<1>5. ASSUME NEW v \in V
      PROVE  /\ v \o t \in Seq(Frame) /\ Debt(lib, v \o t) \in Small
             /\ v \o t # <<>> => /\ Tail(v \o t) \in U
                                 /\ Head(v \o t).op \notin Handling => Debt(lib, Tail(v \o t)) = 0
  <2>1. v \in Seq(Frame) /\ Debt(lib, v) \in Small
    BY <1>2 DEF SlightSet
  <2>2. Debt(lib, v \o t) = Debt(lib, v) + Debt(lib, t) /\ Debt(lib, v) \in Int
    <3>1. Tally(Debits(lib), v \o t) = Tally(Debits(lib), v) + Tally(Debits(lib), t)
      BY <1>3, <1>4, <2>1, TallyConcat
    <3>2. Debt(lib, v) \in Int
      BY <2>1 DEF Small
    <3> QED
      BY <3>1, <3>2 DEF Debt
  <2>3. Debt(lib, v \o t) \in Small
    <3>1. Debt(lib, v \o t) = Debt(lib, v)
      BY <2>2
    <3> QED
      BY <2>1, <3>1
  <2>4. CASE v = <<>>
    <3>1. v \o t = t
      BY <1>4, <2>4, EmptyCalls
    <3> HIDE DEF U
    <3>2. t # <<>> => Tail(t) \in W /\ (Head(t).op \notin Handling => Debt(lib, Tail(t)) = 0)
      BY <1>1 DEF SlightSet
    <3>3. W \subseteq U
      BY DEF U
    <3> QED
      BY <1>4, <2>3, <3>1, <3>2, <3>3
  <2>5. CASE v # <<>>
    <3>1. v \o t \in Seq(Frame) /\ Head(v \o t) = Head(v) /\ Tail(v \o t) = Tail(v) \o t /\ Tail(v) \in Seq(Frame)
      BY <1>4, <2>1, <2>5
    <3>2. Tail(v) \in V /\ (Head(v).op \notin Handling => Debt(lib, Tail(v)) = 0)
      BY <1>2, <2>5 DEF SlightSet
    <3>3. Tail(v) \o t \in U
      BY <3>2
    <3>4. Debt(lib, Tail(v) \o t) = Debt(lib, Tail(v))
      <4> DEFINE w == Tail(v)
      <4>1. w \in Seq(Frame)
        BY <3>1
      <4> HIDE DEF w
      <4>2. Tally(Debits(lib), w \o t) = Tally(Debits(lib), w) + Tally(Debits(lib), t)
        BY <1>3, <1>4, <4>1, TallyConcat
      <4>3. Debt(lib, w) \in Int
        BY <4>1, AllCosted
      <4>4. Debt(lib, w \o t) = Debt(lib, w)
        BY <4>2, <4>3 DEF Debt
      <4> QED
        BY <4>4 DEF w
    <3> HIDE DEF U
    <3> QED
      BY <2>3, <3>1, <3>2, <3>3, <3>4
  <2> QED
    BY <2>4, <2>5
<1>6. SlightSet(lib, U)
  <2>1. U \subseteq Seq(Frame)
    BY <1>1, <1>5 DEF SlightSet
  <2>2. ASSUME NEW z \in U
        PROVE  /\ Debt(lib, z) \in Small
               /\ z # <<>> => /\ Tail(z) \in U
                              /\ Head(z).op \notin Handling => Debt(lib, Tail(z)) = 0
    <3>1. CASE z \in W
      <4>1. W \subseteq U
        OBVIOUS
      <4>2. Debt(lib, z) \in Small /\ (z # <<>> => Tail(z) \in W /\ (Head(z).op \notin Handling => Debt(lib, Tail(z)) = 0))
        BY <1>1, <3>1 DEF SlightSet
      <4> HIDE DEF U
      <4> QED
        BY <4>1, <4>2
    <3>2. CASE \E v \in V : z = v \o t
      <4>1. PICK v \in V : z = v \o t
        BY <3>2
      <4> HIDE DEF U
      <4>2. /\ Debt(lib, v \o t) \in Small
            /\ v \o t # <<>> => /\ Tail(v \o t) \in U
                                /\ Head(v \o t).op \notin Handling => Debt(lib, Tail(v \o t)) = 0
        BY <1>5
      <4> QED
        BY <4>1, <4>2
    <3> QED
      BY <3>1, <3>2
  <2> HIDE DEF U
  <2> QED
    BY <2>1, <2>2 DEF SlightSet
<1>7. a \o t \in U
  BY <1>2
<1> HIDE DEF U
<1> QED
  BY <1>6, <1>7 DEF Slight

LEMMA InTail ==
    ASSUME NEW F, NEW z \in Seq(F), z # <<>>
    PROVE  /\ Tail(z) \in Seq(F) /\ Head(z) \in In(z) /\ Head(z) \in F /\ In(Tail(z)) \subseteq In(z)
<1>1. Tail(z) \in Seq(F) /\ Head(z) \in F /\ Len(z) \in Nat /\ Len(z) > 0
  OBVIOUS
<1>2. Head(z) \in In(z)
  BY <1>1 DEF In
<1>3. Len(Tail(z)) = Len(z) - 1 /\ \A k \in 1 .. Len(Tail(z)) : Tail(z)[k] = z[k + 1]
  OBVIOUS
<1>4. \A k \in 1 .. Len(Tail(z)) : Tail(z)[k] \in In(z)
  BY <1>1, <1>3 DEF In
<1> QED
  BY <1>1, <1>2, <1>4 DEF In

\* Calls that owe nothing.
LEMMA SlightZero ==
    ASSUME NEW lib, Modest, NEW s \in Seq(Frame), \A g \in In(s) : Debits(lib)[g] = 0
    PROVE  Slight(lib, s) /\ Debt(lib, s) = 0
<1> DEFINE W == {z \in Seq(Frame) : \A g \in In(z) : Debits(lib)[g] = 0}
<1>1. ASSUME NEW z \in W PROVE Debt(lib, z) = 0
  <2>1. \A k \in 1 .. Len(z) : Debits(lib)[z[k]] = 0
    BY DEF In
  <2> QED
    BY <2>1, TallyZero DEF Debt
<1>2. \A z \in W : z # <<>> => Tail(z) \in W
  BY InTail
<1>3. 0 \in Small
  BY SmallBytes
<1>4. W \subseteq Seq(Frame) /\ s \in W
  OBVIOUS
<1> HIDE DEF W
<1>5. SlightSet(lib, W)
  BY <1>1, <1>2, <1>3, <1>4 DEF SlightSet
<1> QED
  BY <1>1, <1>4, <1>5 DEF Slight

\* A change of the library that s does not feel.
LEMMA SlightMoved ==
    ASSUME NEW lib, NEW n, Sane(lib, n), NEW lib2, NEW s \in Seq(Frame),
           \A g \in In(s) : Debits(lib2)[g] = Debits(lib)[g], Slight(lib, s)
    PROVE  Slight(lib2, s) /\ Debt(lib2, s) = Debt(lib, s)
<1>1. PICK W : s \in W /\ SlightSet(lib, W)
  BY DEF Slight
<1> DEFINE V == {z \in W : In(z) \subseteq In(s)}
<1>2. \A f \in Frame : Debits(lib)[f] \in Int
  BY AllCosted
<1>3. ASSUME NEW z \in V PROVE Debt(lib2, z) = Debt(lib, z)
  <2>1. z \in Seq(Frame)
    BY <1>1 DEF SlightSet
  <2>2. \A k \in 1 .. Len(z) : Debits(lib2)[z[k]] = Debits(lib)[z[k]]
    BY DEF In
  <2> QED
    BY <1>2, <2>1, <2>2, TallyEqual DEF Debt
<1>4. ASSUME NEW z \in V, z # <<>> PROVE Tail(z) \in V
  <2>1. z \in Seq(Frame) /\ Tail(z) \in W
    BY <1>1, <1>4 DEF SlightSet
  <2>2. In(Tail(z)) \subseteq In(z)
    BY <1>4, <2>1, InTail
  <2> QED
    BY <2>1, <2>2
<1>5. V \subseteq W /\ s \in V
  BY <1>1
<1> HIDE DEF V
<1>6. SlightSet(lib2, V)
  BY <1>1, <1>3, <1>4, <1>5 DEF SlightSet
<1> QED
  BY <1>3, <1>5, <1>6 DEF Slight

\* What one call owes on its own account is small.
LEMMA CallSmall ==
    ASSUME NEW lib, NEW n, Sane(lib, n), Modest
    PROVE  /\ \A op \in Toggles : \A i \in Nat : At(op, i) \in Frame /\ Debits(lib)[At(op, i)] \in Small
           /\ \A op \in Toggles : \A i \in Nat :
                (i \in DOMAIN lib => IsFolder(lib[i])) => Debits(lib)[At(op, i)] = 0
           /\ \A d \in Doc : /\ Add(Bytes(d)) \in Frame /\ Debits(lib)[Add(Bytes(d))] \in Small
                             /\ Add(- Bytes(d)) \in Frame /\ Debits(lib)[Add(- Bytes(d))] \in Small
           /\ \A f \in Frame : f.op \notin Toggles \cup CopyOps \cup {"add"} => Debits(lib)[f] = 0
<1>1. 0 \in Small /\ Small \subseteq Int /\ \A d \in Doc : Bytes(d) \in Small /\ - Bytes(d) \in Small
  BY SmallBytes
<1>2. ASSUME NEW op \in Toggles, NEW i \in Nat PROVE At(op, i) \in Frame
  BY DEF At, Frame, AtOps, Toggles
<1>3. ASSUME NEW i \in DOMAIN lib, IsFolder(lib[i]) PROVE Bytes(lib[i]) = 0 /\ - Bytes(lib[i]) = 0
  <2>1. Bytes(lib[i]) = 0
    BY <1>3 DEF Bytes
  <2>2. Bytes(lib[i]) \in Int
    BY <2>1
  <2> QED
    BY <2>1, <2>2, NegZero
<1>4. Live(lib) \subseteq DOMAIN lib /\ \A i \in DOMAIN lib : lib[i] \in Doc
  BY SaneFacts DEF Sane
<1>5. ASSUME NEW op \in Toggles, NEW i \in Nat
      PROVE  /\ Debits(lib)[At(op, i)] \in Small
             /\ (i \in DOMAIN lib => IsFolder(lib[i])) => Debits(lib)[At(op, i)] = 0
  <2>1. CASE op \in {"mark", "remove"}
    <3>1. Debits(lib)[At(op, i)] = IF i \in Live(lib) THEN Bytes(lib[i]) ELSE 0
      BY <2>1, DebitFacts
    <3> QED
      BY <1>1, <1>3, <1>4, <3>1
  <2>2. CASE op = "unmark"
    <3>1. Debits(lib)[At(op, i)] = IF i \in DOMAIN lib \ Live(lib) THEN - Bytes(lib[i]) ELSE 0
      BY <2>2, DebitFacts
    <3> QED
      BY <1>1, <1>3, <1>4, <3>1
  <2> QED
    BY <2>1, <2>2 DEF Toggles
<1>6. ASSUME NEW d \in Doc
      PROVE  /\ Add(Bytes(d)) \in Frame /\ Debits(lib)[Add(Bytes(d))] \in Small
             /\ Add(- Bytes(d)) \in Frame /\ Debits(lib)[Add(- Bytes(d))] \in Small
  <2>1. Bytes(d) \in Small /\ - Bytes(d) \in Small /\ Bytes(d) \in Int /\ - Bytes(d) \in Int
    BY <1>1
  <2>2. \A b \in Int : Add(b) \in Frame /\ Debits(lib)[Add(b)] = b
    BY DebitFacts DEF Costed
  <2> QED
    BY <2>1, <2>2
<1>7. \A f \in Frame : f.op \notin Toggles \cup CopyOps \cup {"add"} => Debits(lib)[f] = 0
  BY DebitFacts
<1> QED
  BY <1>2, <1>5, <1>6, <1>7

LEMMA SlightOne ==
    ASSUME NEW lib, NEW n, Sane(lib, n), Modest, NEW x \in Frame, Debits(lib)[x] \in Small
    PROVE  Slight(lib, <<x>>) /\ Debt(lib, <<x>>) = Debits(lib)[x]
<1> DEFINE e == <<>>
           s == <<x>> \o e
<1>1. Slight(lib, e) /\ Debt(lib, e) = 0
  BY SlightEmpty, TallyEmpty DEF Debt
<1>2. s = <<x>>
  OBVIOUS
<1> HIDE DEF e, s
<1>3. Debits(lib)[x] \in Int
  BY AllCosted
<1>4. Debits(lib)[x] + Debt(lib, e) = Debits(lib)[x]
  BY <1>1, <1>3
<1>5. /\ Sane(lib, n) /\ Slight(lib, e) /\ x \in Frame /\ Debits(lib)[x] + Debt(lib, e) \in Small
      /\ x.op \notin Handling => Debt(lib, e) = 0
  BY <1>1, <1>4
<1>6. Slight(lib, <<x>> \o e) /\ Debt(lib, <<x>> \o e) = Debits(lib)[x] + Debt(lib, e)
  BY <1>5, SlightPush
<1> QED
  BY <1>2, <1>4, <1>6 DEF s

\* Two calls of which one makes up for the other.
LEMMA SlightTwo ==
    ASSUME NEW lib, NEW n, Sane(lib, n), Modest, NEW x \in Frame, NEW y \in Frame, Debits(lib)[y] \in Small,
           Debt(lib, <<x, y>>) = 0, x.op \in Handling \/ Debits(lib)[y] = 0
    PROVE  Slight(lib, <<x, y>>)
<1> DEFINE t == <<y>>
           s == <<x>> \o t
<1>1. Slight(lib, t) /\ Debt(lib, t) = Debits(lib)[y]
  BY SlightOne
<1>2. s = <<x, y>>
  BY PairConcat
<1>3. Debits(lib)[x] \in Int /\ Debits(lib)[y] \in Int
  BY AllCosted
<1>4. Debt(lib, <<x, y>>) = Debits(lib)[x] + Debits(lib)[y]
  BY <1>3, TallyPair DEF Debt
<1>5. 0 \in Small
  BY SmallBytes
<1> HIDE DEF t, s
<1>6. /\ Sane(lib, n) /\ Slight(lib, t) /\ x \in Frame /\ Debits(lib)[x] + Debt(lib, t) \in Small
      /\ x.op \notin Handling => Debt(lib, t) = 0
  BY <1>1, <1>4, <1>5
<1>7. Slight(lib, <<x>> \o t)
  BY <1>6, SlightPush
<1> QED
  BY <1>2, <1>7 DEF s

\* The deletion of a file.
LEMMA SlightFile ==
    ASSUME NEW lib, NEW n, Sane(lib, n), Modest, NEW i \in 1 .. (n - 1), NEW d \in Doc,
           Kept(lib, i, d), IsLive(lib[i]) <=> IsLive(d), ~IsFolder(d)
    PROVE  Slight(lib, DeleteFile(i, d)) /\ Debt(lib, DeleteFile(i, d)) = 0
<1> DEFINE x == Add(- Bytes(d))
           y == About("countRefs", i, d.msg)
           z == At("remove", i)
           c == <<z>>
           b == IF d.msg # NoMessage THEN <<y>> ELSE <<>>
           a == IF IsLive(d) THEN <<x>> ELSE <<>>
           t == b \o c
           s == a \o t
<1>1. i \in Nat /\ Bytes(d) \in Nat
  BY BytesNat DEF Sane
<1>2. z \in Frame /\ Debits(lib)[z] \in Small /\ x \in Frame /\ x.op \in Handling
  BY <1>1, CallSmall DEF Toggles, Handling, Light, Add
<1>3. y \in Frame /\ y.op = "countRefs" /\ y.op \in Handling
  BY <1>1 DEF About, Frame, Doc, Handling, Light
<1>4. Debits(lib)[y] = 0
  BY <1>3, CallSmall DEF Toggles, CopyOps
<1>5. DeleteFile(i, d) = s
  <2>1. DeleteFile(i, d) = a \o b \o c
    BY DEF DeleteFile
  <2>2. a \in Seq({x, y, z}) /\ b \in Seq({x, y, z}) /\ c \in Seq({x, y, z})
    <3> HIDE DEF x, y, z
    <3>1. \A w \in {x, y, z} : <<w>> \in Seq({x, y, z})
      BY Single
    <3> QED
      BY <3>1, NoFrames
  <2> HIDE DEF a, b, c, x, y, z
  <2> QED
    BY <2>1, <2>2
<1>6. Debt(lib, DeleteFile(i, d)) = 0
  BY DeleteFileTurns
<1>7. Slight(lib, c) /\ Debt(lib, c) = Debits(lib)[z]
  BY <1>2, SlightOne
<1>8. Slight(lib, t)
  <2>1. CASE d.msg # NoMessage
    <3>1. t = <<y>> \o c
      BY <2>1
    <3> HIDE DEF t, c, y
    <3>2. Debits(lib)[y] + Debt(lib, c) \in Small
      <4>1. Debt(lib, c) \in Int /\ Debt(lib, c) \in Small
        BY <1>2, <1>7, SmallBytes
      <4>2. Debits(lib)[y] + Debt(lib, c) = Debt(lib, c)
        BY <1>4, <4>1
      <4> QED
        BY <4>1, <4>2
    <3>3. Slight(lib, <<y>> \o c)
      BY <1>3, <1>7, <3>2, SlightPush
    <3> QED
      BY <3>1, <3>3
  <2>2. CASE d.msg = NoMessage
    <3>1. t = c
      BY <2>2
    <3> QED
      BY <1>7, <3>1
  <2> QED
    BY <2>1, <2>2
<1>9. CASE IsLive(d)
  <2>1. s = <<x>> \o t
    BY <1>9
  <2> HIDE DEF s, t, x
  <2>2. t \in Seq(Frame)
    BY <1>8, SlightPop
  <2>3. Debt(lib, <<x>> \o t) = Debits(lib)[x] + Debt(lib, t)
    <3>1. \A f \in Frame : Debits(lib)[f] \in Int
      BY AllCosted
    <3> DEFINE u == <<x>> \o t
    <3>2. u \in Seq(Frame) /\ u # <<>> /\ Head(u) = x /\ Tail(u) = t
      BY <1>2, <2>2
    <3> HIDE DEF u
    <3>3. Tally(Debits(lib), u) = Debits(lib)[Head(u)] + Tally(Debits(lib), Tail(u))
      BY <3>1, <3>2, TallyHead
    <3>4. Debt(lib, u) = Debits(lib)[x] + Debt(lib, t)
      BY <3>2, <3>3 DEF Debt
    <3> QED
      BY <3>4 DEF u
  <2>4. 0 \in Small
    BY SmallBytes
  <2>5. Debits(lib)[x] + Debt(lib, t) \in Small
    BY <1>5, <1>6, <2>1, <2>3, <2>4
  <2>6. Slight(lib, <<x>> \o t)
    BY <1>2, <1>8, <2>5, SlightPush
  <2> QED
    BY <1>5, <1>6, <2>1, <2>6
<1>10. CASE ~IsLive(d)
  <2>1. t \in Seq(Frame)
    <3> HIDE DEF t
    <3> QED
      BY <1>8, SlightPop
  <2>2. s = t
    <3>1. a = <<>>
      BY <1>10
    <3> HIDE DEF t, a
    <3> QED
      BY <2>1, <3>1, EmptyCalls DEF s
  <2> HIDE DEF s, t
  <2> QED
    BY <1>5, <1>6, <1>8, <2>2
<1> QED
  BY <1>9, <1>10

\* The calls that may owe something.
Owing == Toggles \cup CopyOps \cup {"add"}

LEMMA SlightBlank ==
    ASSUME NEW lib, NEW n, Sane(lib, n), Modest, NEW s \in Seq(Frame), \A f \in In(s) : f.op \notin Owing
    PROVE  Slight(lib, s) /\ Debt(lib, s) = 0
<1>1. \A f \in In(s) : f \in Frame
  BY InSeq
<1>2. \A f \in In(s) : Debits(lib)[f] = 0
  BY <1>1, CallSmall DEF Owing
<1> QED
  BY <1>2, SlightZero

\* The two calls of an iteration of trashEach and of restoreEach.
LEMMA SlightPair ==
    ASSUME NEW lib, NEW n, Sane(lib, n), Modest, NEW i \in 1 .. (n - 1), NEW d \in Doc, Kept(lib, i, d), NEW a,
           \/ /\ IsLive(lib[i])
              /\ a = <<IF IsFolder(d) THEN At("trashChildren", i) ELSE Add(-Bytes(d)), At("mark", i)>>
           \/ /\ ~IsLive(lib[i])
              /\ a = <<IF IsFolder(d) THEN At("restoreChildren", i) ELSE Add(Bytes(d)), At("unmark", i)>>
    PROVE  Slight(lib, a) /\ Debt(lib, a) = 0
<1>1. Debt(lib, a) = 0
  BY PairTakes
<1>2. PICK tree, toggle, b :
        /\ \/ tree = "trashChildren" /\ toggle = "mark" /\ b = - Bytes(d)
           \/ tree = "restoreChildren" /\ toggle = "unmark" /\ b = Bytes(d)
        /\ a = <<IF IsFolder(d) THEN At(tree, i) ELSE Add(b), At(toggle, i)>>
  OBVIOUS
<1> DEFINE x == At(tree, i)
           y == At(toggle, i)
           z == Add(b)
           u == IF IsFolder(d) THEN x ELSE z
<1>3. i \in Nat /\ (IsFolder(lib[i]) <=> IsFolder(d))
  BY DEF Sane, Kept, IsFolder
<1>4. toggle \in Toggles
  BY <1>2 DEF Toggles
<1>5. y \in Frame /\ Debits(lib)[y] \in Small /\ (IsFolder(d) => Debits(lib)[y] = 0)
  BY <1>3, <1>4, CallSmall
<1>6. x \in Frame
  BY <1>2, <1>3 DEF At, Frame, AtOps
<1>7. z \in Frame /\ z.op \in Handling
  BY <1>2, CallSmall DEF Add, Handling, Light
<1>8. a = <<u, y>>
  BY <1>2
<1> HIDE DEF x, y, z
<1>9. u \in Frame /\ (u.op \in Handling \/ Debits(lib)[y] = 0)
  BY <1>5, <1>6, <1>7
<1> HIDE DEF u
<1>10. Slight(lib, <<u, y>>)
  BY <1>1, <1>5, <1>8, <1>9, SlightTwo
<1> QED
  BY <1>1, <1>8, <1>10

\* What a loop does to one document.
LEMMA SlightIteration ==
    ASSUME NEW lib, NEW n, Sane(lib, n), Modest, NEW l \in Frame, l.op \in EachOps \ {"copyEach"}, Sure(lib, n, l),
           NEW k \in l.kids
    PROVE  Slight(lib, Iteration(l.op, k, l.to)) /\ Debt(lib, Iteration(l.op, k, l.to)) = 0
<1> DEFINE a == Iteration(l.op, k, l.to)
<1>1. a \in Seq(Frame) /\ k \in Kid /\ k.doc \in Doc /\ k.id \in Nat
  BY LoopParts DEF Kid
<1>2. l.op \in TreeLoops =>
        /\ k.id \in 1 .. (n - 1) /\ Kept(lib, k.id, k.doc)
        /\ IsLive(lib[k.id]) <=> IsLive(k.doc)
        /\ l.op = "trashEach" => IsLive(k.doc)
        /\ l.op = "restoreEach" => ~IsLive(k.doc)
  BY LoopTakes
<1>3. CASE l.op = "trashEach"
  <2>1. a = <<IF IsFolder(k.doc) THEN At("trashChildren", k.id) ELSE Add(-Bytes(k.doc)), At("mark", k.id)>>
    BY <1>3 DEF Iteration
  <2>2. k.id \in 1 .. (n - 1) /\ Kept(lib, k.id, k.doc) /\ IsLive(lib[k.id])
    BY <1>2, <1>3 DEF TreeLoops
  <2> HIDE DEF a
  <2>3. Slight(lib, a) /\ Debt(lib, a) = 0
    BY <1>1, <2>1, <2>2, SlightPair
  <2> QED
    BY <2>3 DEF a
<1>4. CASE l.op = "restoreEach"
  <2>1. a = <<IF IsFolder(k.doc) THEN At("restoreChildren", k.id) ELSE Add(Bytes(k.doc)), At("unmark", k.id)>>
    BY <1>4 DEF Iteration
  <2>2. k.id \in 1 .. (n - 1) /\ Kept(lib, k.id, k.doc) /\ ~IsLive(lib[k.id])
    BY <1>2, <1>4 DEF TreeLoops
  <2> HIDE DEF a
  <2>3. Slight(lib, a) /\ Debt(lib, a) = 0
    BY <1>1, <2>1, <2>2, SlightPair
  <2> QED
    BY <2>3 DEF a
<1>5. CASE l.op = "deleteEach"
  <2>1. a = IF IsFolder(k.doc) THEN <<At("deleteChildren", k.id)>> ELSE DeleteFile(k.id, k.doc)
    BY <1>5 DEF Iteration
  <2>2. k.id \in 1 .. (n - 1) /\ Kept(lib, k.id, k.doc) /\ (IsLive(lib[k.id]) <=> IsLive(k.doc))
    BY <1>2, <1>5 DEF TreeLoops
  <2> HIDE DEF a
  <2>3. CASE IsFolder(k.doc)
    <3>1. a = <<At("deleteChildren", k.id)>> /\ At("deleteChildren", k.id).op = "deleteChildren"
      BY <2>1, <2>3 DEF At
    <3>2. \A f \in In(a) : f.op \notin Owing
      <4> DEFINE x == At("deleteChildren", k.id)
      <4>1. a = <<x>> /\ x.op \notin Owing
        BY <3>1 DEF Owing, Toggles, CopyOps
      <4> HIDE DEF x
      <4>2. In(<<x>>) = {x}
        BY InSmall
      <4> QED
        BY <4>1, <4>2
    <3>3. a \in Seq(Frame)
      BY <1>1 DEF a
    <3>4. Slight(lib, a) /\ Debt(lib, a) = 0
      BY <3>2, <3>3, SlightBlank
    <3> QED
      BY <3>4 DEF a
  <2>4. CASE ~IsFolder(k.doc)
    <3>1. Slight(lib, a) /\ Debt(lib, a) = 0
      BY <1>1, <2>1, <2>2, <2>4, SlightFile
    <3> QED
      BY <3>1 DEF a
  <2> QED
    BY <2>3, <2>4
<1>6. CASE l.op \in {"purgeEach", "sizeEach"}
  <2> DEFINE x == At("delete", k.id)
             y == Of("size", k.id, k.doc)
  <2>1. a = <<x>> \/ a = <<y>>
    BY <1>6 DEF Iteration
  <2>2. x.op \notin Owing /\ y.op \notin Owing
    BY DEF Owing, Toggles, CopyOps, At, Of
  <2> HIDE DEF a, x, y
  <2>3. \A f \in In(a) : f.op \notin Owing
    <3>1. In(<<x>>) = {x} /\ In(<<y>>) = {y}
      BY InSmall
    <3> QED
      BY <2>1, <2>2, <3>1
  <2>4. a \in Seq(Frame)
    BY <1>1 DEF a
  <2>5. Slight(lib, a) /\ Debt(lib, a) = 0
    BY <2>3, <2>4, SlightBlank
  <2> QED
    BY <2>5 DEF a
<1> QED
  BY <1>3, <1>4, <1>5, <1>6 DEF EachOps

\* A loop that takes its next document, before what follows it.
LEMMA ReadySlight ==
    ASSUME NEW lib, NEW n, Sane(lib, n), Modest, NEW q \in Seq(Frame), NoCopy(q), Slight(lib, q), Tidy(lib, n, q),
           NEW s \in Ready(q)
    PROVE  Slight(lib, s)
<1>1. q # <<>> /\ (s = q \/ \E k : Takes(Head(q), k, Tail(q), s))
  BY ReadyShape
<1>2. ASSUME NEW k, Takes(Head(q), k, Tail(q), s)
      PROVE  Slight(lib, s)
  <2> DEFINE l == Head(q)
             t == Tail(q)
             a == Iteration(l.op, k, l.to)
             b == Each(l.op, l.kids \ {k}, l.to)
  <2>1. l \in Frame /\ t \in Seq(Frame) /\ l \in In(q)
    BY <1>1 DEF In
  <2>2. l.op \in EachOps \ {"copyEach"} /\ k \in l.kids /\ s = a \o b \o t
    BY <1>2, <2>1 DEF Takes, NoCopy, CopyOps
  <2>3. Sure(lib, n, l)
    BY <1>1, TidyTail
  <2>4. l.op \notin Handling
    BY <2>2 DEF Handling, Light, Toggles, EachOps
  <2>5. Slight(lib, t) /\ Debt(lib, t) = 0
    BY <1>1, <2>4, SlightPop
  <2>6. Slight(lib, a) /\ Debt(lib, a) = 0
    BY <2>1, <2>2, <2>3, SlightIteration
  <2>7. b \in Seq(Frame) /\ a \in Seq(Frame)
    BY <2>1, <2>2, LoopParts
  <2>8. b \in Seq({Loop(l.op, l.kids \ {k}, l.to)})
    BY LaterIn
  <2> DEFINE m == Loop(l.op, l.kids \ {k}, l.to)
  <2>9. m.op \notin Owing
    BY <2>2 DEF Loop, Owing, Toggles, CopyOps, EachOps
  <2> HIDE DEF b, m
  <2>10. \A f \in In(b) : f.op \notin Owing
    <3>1. In(b) \subseteq {m}
      BY <2>8, InSeq DEF m
    <3> QED
      BY <2>9, <3>1
  <2>11. Slight(lib, b) /\ Debt(lib, b) = 0
    BY <2>7, <2>10, SlightBlank
  <2> HIDE DEF a, t
  <2>12. Slight(lib, b \o t) /\ Debt(lib, b \o t) = 0
    <3>1. Slight(lib, b \o t)
      BY <2>5, <2>11, SlightConcat
    <3>2. \A f \in Frame : Debits(lib)[f] \in Int
      BY AllCosted
    <3>3. Debt(lib, b \o t) = Debt(lib, b) + Debt(lib, t)
      BY <2>1, <2>7, <3>2, TallyConcat DEF Debt
    <3> QED
      BY <2>5, <2>11, <3>1, <3>3
  <2>13. Slight(lib, a \o (b \o t))
    <3> DEFINE c == b \o t
    <3>1. Slight(lib, c) /\ Debt(lib, c) = 0
      BY <2>12
    <3> HIDE DEF c
    <3>2. Slight(lib, a \o c)
      BY <2>6, <3>1, SlightConcat
    <3> QED
      BY <3>2 DEF c
  <2>14. s = a \o (b \o t)
    BY <2>1, <2>2, <2>7
  <2> QED
    BY <2>13, <2>14
<1> QED
  BY <1>1, <1>2

\* The calls that are followed by calls which owe nothing.
ToNothing == ToBlank \cup {"trashChildren", "restoreChildren", "restore", "dedup"}

LEMMA FollowsNothing ==
    ASSUME Sane(files, nextId), Modest, NEW p, NEW h \in Frame, h.op \in ToNothing,
           NEW new \in Seq(Frame), new \in Seq(Made(p, h))
    PROVE  Slight(files, new)
<1>1. \A f \in In(new) : f.op \in MoreOps(h.op)
  BY InSeq, MadeOps
<1>2. MoreOps(h.op) \cap Owing = {}
  <2>1. CASE h.op \in {"parent", "move", "walk", "copy", "size", "quota", "enqueue"}
    BY <2>1 DEF MoreOps, Owing, Toggles, CopyOps
  <2>2. CASE h.op \in {"restoreParent", "countRefs", "deleteMsg", "purge", "send"}
    BY <2>2 DEF MoreOps, Owing, Toggles, CopyOps
  <2>3. CASE h.op \in {"trashChildren", "restoreChildren", "restore", "dedup", "initQuota", "openUpload"}
    BY <2>3 DEF MoreOps, Owing, Toggles, CopyOps
  <2> QED
    BY <2>1, <2>2, <2>3 DEF ToNothing, ToBlank
<1>3. \A f \in In(new) : f.op \notin Owing
  BY <1>1, <1>2
<1> QED
  BY <1>3, SlightBlank

LEMMA TrashSlight ==
    ASSUME NEW lib, NEW n, Sane(lib, n), Modest, NEW i \in Live(lib), NEW new,
           \/ IsFolder(lib[i]) /\ new = <<At("trashChildren", i), At("mark", i)>>
           \/ ~IsFolder(lib[i]) /\ new = <<At("mark", i), Add(-Bytes(lib[i]))>>,
           Debt(lib, new) = 0
    PROVE  Slight(lib, new)
<1> DEFINE x == At("trashChildren", i)
           y == At("mark", i)
           z == Add(-Bytes(lib[i]))
<1>1. i \in DOMAIN lib /\ i \in Nat /\ lib[i] \in Doc
  <2>1. i \in DOMAIN lib
    BY SaneFacts
  <2> QED
    BY <2>1 DEF Sane
<1>2. y \in Frame /\ Debits(lib)[y] \in Small /\ (IsFolder(lib[i]) => Debits(lib)[y] = 0)
  BY <1>1, CallSmall DEF Toggles
<1>3. z \in Frame /\ Debits(lib)[z] \in Small /\ y.op \in Handling
  BY <1>1, CallSmall DEF Handling, Toggles, At
<1>4. x \in Frame
  BY <1>1 DEF At, Frame, AtOps
<1>5. (IsFolder(lib[i]) /\ new = <<x, y>>) \/ new = <<y, z>>
  OBVIOUS
<1> HIDE DEF x, y, z
<1>6. ASSUME IsFolder(lib[i]), new = <<x, y>> PROVE Slight(lib, new)
  BY <1>2, <1>4, <1>6, SlightTwo
<1>7. ASSUME new = <<y, z>> PROVE Slight(lib, new)
  BY <1>2, <1>3, <1>7, SlightTwo
<1> QED
  BY <1>5, <1>6, <1>7

LEMMA RestoreSlight ==
    ASSUME NEW lib, NEW n, Sane(lib, n), Modest, NEW i \in Nat, NEW d \in Doc, Kept(lib, i, d), NEW new,
           \/ new = <<>>
           \/ IsFolder(d) /\ new = <<At("unmark", i), At("restoreChildren", i)>>
           \/ ~IsFolder(d) /\ new = <<At("unmark", i), Add(Bytes(d))>>,
           Debt(lib, new) = 0
    PROVE  Slight(lib, new)
<1> DEFINE x == At("unmark", i)
           y == At("restoreChildren", i)
           z == Add(Bytes(d))
<1>1. x \in Frame /\ x.op \in Handling
  BY CallSmall DEF Handling, Toggles, At
<1>2. z \in Frame /\ Debits(lib)[z] \in Small
  BY CallSmall
<1>3. y \in Frame /\ y.op = "restoreChildren"
  BY DEF At, Frame, AtOps
<1>4. Debits(lib)[y] = 0 /\ 0 \in Small
  BY <1>3, CallSmall, SmallBytes DEF Toggles, CopyOps
<1>5. new = <<>> \/ new = <<x, y>> \/ new = <<x, z>>
  OBVIOUS
<1> HIDE DEF x, y, z
<1>6. ASSUME new = <<x, y>> PROVE Slight(lib, new)
  BY <1>1, <1>3, <1>4, <1>6, SlightTwo
<1>7. ASSUME new = <<x, z>> PROVE Slight(lib, new)
  BY <1>1, <1>2, <1>7, SlightTwo
<1>8. Slight(lib, <<>>)
  BY SlightEmpty
<1> QED
  BY <1>5, <1>6, <1>7, <1>8

LEMMA DeleteSlight ==
    ASSUME NEW lib, NEW n, Sane(lib, n), Modest, NEW i \in Nat, NEW new,
           \/ i \notin DOMAIN lib /\ new = <<>>
           \/ i \in DOMAIN lib /\ IsFolder(lib[i]) /\ new = <<At("deleteChildren", i), At("remove", i)>>
           \/ i \in DOMAIN lib /\ ~IsFolder(lib[i]) /\ new = DeleteFile(i, lib[i]),
           Debt(lib, new) = 0
    PROVE  Slight(lib, new)
<1> DEFINE x == At("deleteChildren", i)
           y == At("remove", i)
<1>1. x \in Frame
  BY DEF At, Frame, AtOps
<1>2. y \in Frame /\ Debits(lib)[y] \in Small /\ ((i \in DOMAIN lib => IsFolder(lib[i])) => Debits(lib)[y] = 0)
  BY CallSmall DEF Toggles
<1>3. new = <<>> \/ (IsFolder(lib[i]) /\ new = <<x, y>>) \/ (i \in DOMAIN lib /\ ~IsFolder(lib[i]) /\ new = DeleteFile(i, lib[i]))
  OBVIOUS
<1> HIDE DEF x, y
<1>4. ASSUME IsFolder(lib[i]), new = <<x, y>> PROVE Slight(lib, new)
  BY <1>1, <1>2, <1>4, SlightTwo
<1>5. ASSUME i \in DOMAIN lib, ~IsFolder(lib[i]), new = DeleteFile(i, lib[i]) PROVE Slight(lib, new)
  <2>1. i \in 1 .. (n - 1) /\ lib[i] \in Doc /\ Kept(lib, i, lib[i])
    BY <1>5 DEF Sane, Kept
  <2>2. Slight(lib, DeleteFile(i, lib[i]))
    BY <1>5, <2>1, SlightFile
  <2> QED
    BY <1>5, <2>2
<1>6. Slight(lib, <<>>)
  BY SlightEmpty
<1> QED
  BY <1>3, <1>4, <1>5, <1>6

\* What a call that changes nothing but the requests leads to.
LEMMA FollowsSlight ==
    ASSUME Sane(files, nextId), Modest, NEW p, NEW h \in Frame, Sure(files, nextId, h),
           h.op \notin Plain \cup CopyOps \cup {"insert", "copyQuota"},
           NEW new \in Seq(Frame), new \in Seq(Made(p, h)), Follows(p, h, new)
    PROVE  Slight(files, new) /\ Debt(files, new) = 0
<1>1. Debt(files, new) = 0
  <2>1. Turns(files, nextId, h, new)
    BY FollowsTurns
  <2>2. Debits(files)[h] = 0
    BY CallSmall DEF Plain, Toggles
  <2> QED
    BY <2>1, <2>2 DEF Turns
<1> SUFFICES Slight(files, new)
  BY <1>1
<1>2. CASE h.op \in ToNothing
  BY <1>2, FollowsNothing
<1>3. CASE h.op = "trash"
  <2>1. /\ h.id \in Live(files)
        /\ \/ IsFolder(files[h.id]) /\ new = <<At("trashChildren", h.id), At("mark", h.id)>>
           \/ ~IsFolder(files[h.id]) /\ new = <<At("mark", h.id), Add(-Bytes(files[h.id]))>>
    BY <1>3 DEF Follows, FollowsPlace, FollowsTrash, FollowsDelete, Plain
  <2> QED
    BY <1>1, <2>1, TrashSlight
<1>4. CASE h.op = "restoreCheck"
  <2>1. \/ new = <<>>
        \/ IsFolder(h.doc) /\ new = <<At("unmark", h.id), At("restoreChildren", h.id)>>
        \/ ~IsFolder(h.doc) /\ new = <<At("unmark", h.id), Add(Bytes(h.doc))>>
    BY <1>4 DEF Follows, FollowsPlace, FollowsTrash, FollowsDelete, Plain
  <2>2. h.id \in Nat /\ h.doc \in Doc /\ Kept(files, h.id, h.doc)
    BY <1>4, FrameFields DEF Sure, DocOps
  <2> QED
    BY <1>1, <2>1, <2>2, RestoreSlight
<1>5. CASE h.op = "delete"
  <2>1. \/ h.id \notin DOMAIN files /\ new = <<>>
        \/ /\ h.id \in DOMAIN files /\ IsFolder(files[h.id])
           /\ new = <<At("deleteChildren", h.id), At("remove", h.id)>>
        \/ /\ h.id \in DOMAIN files /\ ~IsFolder(files[h.id])
           /\ new = DeleteFile(h.id, files[h.id])
    BY <1>5 DEF Follows, FollowsPlace, FollowsTrash, FollowsDelete, Plain
  <2>2. h.id \in Nat
    BY <1>5, FrameFields DEF AtOps
  <2> QED
    BY <1>1, <2>1, <2>2, DeleteSlight
<1>6. CASE h.op = "deleteChildren"
  <2>1. h.id \in Nat /\ (h.id \in DOMAIN files => IsFolder(files[h.id]))
    BY <1>6, FrameFields DEF AtOps, Sure, TreeOps
  <2>2. Made(p, h) = {Loop("deleteEach", Fetch(Children(files, h.id)), Root), At("remove", h.id)}
    BY <1>6 DEF Made
  <2> DEFINE x == At("remove", h.id)
             l == Loop("deleteEach", Fetch(Children(files, h.id)), Root)
  <2>3. Debits(files)[x] = 0 /\ l.op \notin Toggles \cup CopyOps \cup {"add"}
    BY <2>1, CallSmall DEF Toggles, CopyOps, Loop
  <2> HIDE DEF x, l
  <2>4. \A f \in In(new) : f \in Frame /\ f \in {l, x}
    BY <2>2, InSeq DEF x, l
  <2>5. \A f \in In(new) : Debits(files)[f] = 0
    BY <2>3, <2>4, CallSmall
  <2> QED
    BY <2>5, SlightZero
<1>7. CASE h.op \in EachOps
  BY <1>7 DEF Follows, FollowsPlace, FollowsTrash, FollowsDelete, Plain, EachOps
<1> QED
  BY <1>2, <1>3, <1>4, <1>5, <1>6, <1>7, FrameOps
  DEF AllOps, AtOps, DocOps, PlaceOps, Plain, CopyOps, ToBlank, ToNothing

\* What comes after a call, in the library the call leaves.
LEMMA TailSlight ==
    ASSUME NEW lib, NEW n, Sane(lib, n), NEW lib2, NEW n2, Sane(lib2, n2), NEW s \in Seq(Frame), s # <<>>,
           NoCopy(s), Tidy(lib, n, s), Slight(lib, s), Does(lib, n, lib2, n2, Head(s)),
           Head(s).op = "remove" => (\A g \in In(Tail(s)) : g.op # "restoreCheck"),
           Head(s).op = "setParent" => (\A g \in In(Tail(s)) : Loose(g))
    PROVE  /\ Slight(lib2, Tail(s)) /\ Debt(lib2, Tail(s)) = Debt(lib, Tail(s))
           /\ Debt(lib, Tail(s)) \in Small
           /\ Head(s).op \notin Handling => Debt(lib, Tail(s)) = 0
<1> DEFINE h == Head(s)
           t == Tail(s)
<1>1. /\ Tidy(lib, n, t) /\ \A g \in In(t) : Ahead(lib, h, g)
  BY TidyTail
<1>2. h \in Frame /\ t \in Seq(Frame)
  OBVIOUS
<1>3. h \in In(s) /\ In(t) \subseteq In(s)
  BY InTail
<1>4. h.op # "copyDoc" /\ NoCopy(t)
  BY <1>3 DEF NoCopy, CopyOps
<1>5. \A g \in In(t) : Sure(lib, n, g)
  BY <1>1 DEF Tidy, In
<1>6. Spares(lib, h, t)
  BY <1>1 DEF Spares
<1>7. Does(lib, n, lib2, n2, h)
  OBVIOUS
<1>8. Slight(lib, t) /\ (h.op \notin Handling => Debt(lib, t) = 0)
  BY SlightPop
<1> HIDE DEF h, t
<1>9. Shifts(lib, n, lib2, n2, t)
  BY <1>2, <1>4, <1>5, <1>6, <1>7, DoesShift
<1>10. \A g \in In(t) : Debits(lib2)[g] = Debits(lib)[g]
  BY <1>9 DEF Shifts
<1>11. Slight(lib2, t) /\ Debt(lib2, t) = Debt(lib, t)
  BY <1>2, <1>8, <1>10, SlightMoved
<1>12. Debt(lib, t) \in Small
  BY <1>8, SlightPop
<1> QED
  BY <1>8, <1>11, <1>12 DEF h, t

\* What a new record is followed by.
LEMMA InsertSlight ==
    ASSUME NEW lib, NEW n, Sane(lib, n), Modest, NEW d \in Doc, NEW send, NEW i \in Nat, NEW new,
           new = (IF IsFolder(d) THEN <<>> ELSE <<Add(Bytes(d))>>) \o (IF send THEN <<At("enqueue", i)>> ELSE <<>>)
    PROVE  Slight(lib, new)
<1> DEFINE x == Add(Bytes(d))
           y == At("enqueue", i)
           a == IF IsFolder(d) THEN <<>> ELSE <<x>>
           b == IF send THEN <<y>> ELSE <<>>
<1>1. x \in Frame /\ Debits(lib)[x] \in Small
  BY CallSmall
<1>2. y \in Frame /\ y.op = "enqueue"
  BY DEF At, Frame, AtOps
<1>3. Debits(lib)[y] = 0 /\ 0 \in Small
  BY <1>2, CallSmall, SmallBytes DEF Toggles, CopyOps
<1>4. new = a \o b
  OBVIOUS
<1> HIDE DEF x, y
<1>5. Slight(lib, <<>>) /\ Debt(lib, <<>>) = 0
  BY SlightEmpty, TallyEmpty DEF Debt
<1>6. Slight(lib, <<x>>)
  BY <1>1, SlightOne
<1>7. Slight(lib, <<y>>) /\ Debt(lib, <<y>>) = 0
  BY <1>2, <1>3, SlightOne
<1>8. Slight(lib, a)
  BY <1>5, <1>6
<1>9. Slight(lib, b) /\ Debt(lib, b) = 0
  BY <1>5, <1>7
<1> HIDE DEF a, b
<1>10. Slight(lib, a \o b)
  BY <1>8, <1>9, SlightConcat
<1> QED
  BY <1>4, <1>10

\* A step of a process, and what is still owed at every turn.
LEMMA OwnSlight ==
    ASSUME IInv, IInv', NoCycle, NoCycle', Modest, NEW p \in Procs, NEW s \in Ready(todo[p]), NEW new, NEW rest,
           GoesOn(p, s, new, rest), \A g \in In(s) : g.op \notin CopyOps \cup {"copyQuota"},
           Tidy(files, nextId, s), Slight(files, s),
           Head(s).op = "remove" => (\A g \in In(Tail(s)) : g.op # "restoreCheck"),
           Head(s).op = "setParent" => (\A g \in In(Tail(s)) : Loose(g))
    PROVE  Slight(files', todo'[p])
<1> DEFINE h == Head(s)
           t == Tail(s)
<1>1. Sane(files, nextId) /\ Sane(files', nextId')
  BY SaneHolds, SaneNext
<1>2. s \in Seq(Frame) /\ s # <<>> /\ h \in Frame /\ t \in Seq(Frame)
  BY CallTail DEF Calls
<1>3. h \in In(s) /\ NoCopy(s) /\ h.op \notin CopyOps \cup {"copyQuota"}
  BY <1>2 DEF In, NoCopy
<1>4. todo'[p] = new \o rest /\ new \o rest \in Seq(Frame) /\ new \in Seq(Made(p, h))
  BY DEF GoesOn, Goto, IInv, TypeOK
<1>5. Sure(files, nextId, h)
  BY <1>2, TidyTail
<1>6. CASE h.op \in Quits /\ new = <<>> /\ rest = <<>>
  <2>1. todo'[p] = <<>>
    BY <1>4, <1>6, EmptyConcat
  <2>2. \A lib : Slight(lib, <<>>)
    BY SlightEmpty
  <2> QED
    BY <2>1, <2>2
<1>7. CASE Follows(p, h, new) /\ Effect(h) /\ rest = IF h.op \in First THEN <<>> ELSE t
  <2>1. Does(files, nextId, files', nextId', h)
    BY <1>1, <1>2, <1>7, EffectDoes DEF Effect
  <2>2. rest \in Seq(Frame)
    BY <1>2, <1>7, EmptyCalls
  <2>3. new \in Seq(Frame)
    BY <1>4, <2>2, PartSeq
  <2>4. h.op \notin {"setParent", "mark", "unmark", "record", "remove", "insert", "copyDoc"} => files' = files /\ nextId' = nextId
    BY <1>7 DEF Effect, FilesEffect
  <2>5. /\ Slight(files', t) /\ Debt(files', t) = Debt(files, t) /\ Debt(files, t) \in Small
        /\ h.op \notin Handling => Debt(files, t) = 0
    BY <1>1, <1>2, <1>3, <2>1, TailSlight
  <2>6. h.op \in First => h.op \notin Plain \cup {"insert", "countRefs"}
    BY DEF First, Plain
  <2>7. CASE h.op \in Plain
    <3>1. new = <<>>
      BY <1>2, <1>7, <2>7 DEF Follows, FollowsPlace, FollowsTrash, FollowsDelete, Plain
    <3>2. todo'[p] = t
      <4>1. todo'[p] = <<>> \o t
        BY <1>4, <1>7, <2>6, <2>7, <3>1
      <4> HIDE DEF t
      <4> QED
        BY <1>2, <4>1, EmptyCalls
    <3> HIDE DEF t
    <3> QED
      BY <2>5, <3>2
  <2>8. CASE h.op = "insert"
    <3>1. new = (IF IsFolder(h.doc) THEN <<>> ELSE <<Add(Bytes(h.doc))>>)
                  \o (IF h.send THEN <<At("enqueue", nextId)>> ELSE <<>>)
      BY <1>2, <1>7, <2>8 DEF Follows, FollowsPlace, FollowsTrash, FollowsDelete, Plain
    <3>2. h.doc \in Doc /\ nextId \in Nat
      BY <1>1, <1>2, <2>8, FrameFields DEF Sane
    <3>3. Slight(files', new)
      BY <1>1, <3>1, <3>2, InsertSlight
    <3>4. Debt(files', t) = 0
      BY <2>5, <2>8 DEF Handling, Light, Toggles
    <3>5. todo'[p] = new \o t
      BY <1>4, <1>7, <2>6, <2>8
    <3> HIDE DEF t
    <3>6. Slight(files', new \o t)
      BY <1>1, <2>5, <3>3, <3>4, SlightConcat
    <3> QED
      BY <3>5, <3>6
  <2>9. CASE h.op = "countRefs"
    <3>1. /\ files' = files /\ nextId' = nextId /\ todo'[p] = new \o t
      BY <1>4, <1>7, <2>4, <2>6, <2>9
    <3> DEFINE x == [op |-> "deleteMsg", msg |-> h.msg]
    <3>2. new = <<>> \/ new = <<x>>
      BY <1>2, <1>7, <2>9 DEF Follows, FollowsPlace, FollowsTrash, FollowsDelete, Plain
    <3>3. x.op = "deleteMsg"
      OBVIOUS
    <3> HIDE DEF x, t, h
    <3>4. CASE new = <<>>
      BY <1>2, <2>5, <3>1, <3>4, EmptyCalls
    <3>5. CASE new = <<x>>
      <4>1. x \in Frame
        <5>1. <<x>> \in Seq(Frame)
          BY <2>3, <3>5
        <5> QED
          BY <5>1
      <4>2. Debits(files)[x] = 0
        BY <1>1, <3>3, <4>1, CallSmall DEF Toggles, CopyOps
      <4>3. Debits(files)[x] + Debt(files, t) \in Small
        <5>1. Debt(files, t) \in Int
          BY <2>5, SmallBytes
        <5>2. Debits(files)[x] + Debt(files, t) = Debt(files, t)
          BY <4>2, <5>1
        <5> QED
          BY <2>5, <5>2
      <4>4. x.op \in Handling
        BY <3>3 DEF Handling, Light
      <4>5. Slight(files, t)
        BY <2>5, <3>1
      <4>6. Slight(files, <<x>> \o t)
        BY <1>1, <4>1, <4>3, <4>4, <4>5, SlightPush
      <4> QED
        BY <3>1, <3>5, <4>6
    <3> QED
      BY <3>2, <3>4, <3>5
  <2>10. CASE h.op \notin Plain \cup {"insert", "countRefs"}
    <3>1. Slight(files, new) /\ Debt(files, new) = 0
      BY <1>1, <1>2, <1>3, <1>4, <1>5, <1>7, <2>3, <2>10, FollowsSlight
    <3>2. files' = files /\ nextId' = nextId
      BY <1>3, <2>4, <2>10 DEF Plain, CopyOps
    <3>3. h.op \notin Handling
      BY <2>10 DEF Handling, Light, Toggles, Plain
    <3>4. CASE h.op \in First
      <4>1. todo'[p] = new
        BY <1>4, <1>7, <2>3, <3>4, EmptyCalls
      <4> QED
        BY <3>1, <3>2, <4>1
    <3>5. CASE h.op \notin First
      <4>1. todo'[p] = new \o t
        BY <1>4, <1>7, <3>5
      <4>2. Slight(files, t) /\ Debt(files, t) = 0
        BY <2>5, <3>2, <3>3
      <4> HIDE DEF t
      <4>3. Slight(files, new \o t)
        BY <1>1, <3>1, <4>2, SlightConcat
      <4> QED
        BY <3>2, <4>1, <4>3
    <3> QED
      BY <3>4, <3>5
  <2> QED
    BY <2>7, <2>8, <2>9, <2>10
<1> QED
  BY <1>6, <1>7 DEF GoesOn

\* Calls none of which adds to the sum.
LEMMA TallyDown ==
    ASSUME NEW F, NEW w, \A x \in F : w[x] \in Int /\ w[x] <= 0, NEW s \in Seq(F)
    PROVE  Tally(w, s) <= 0
<1> DEFINE S == {m \in Nat : \A z \in Seq(F) : Len(z) = m => Tally(w, z) <= 0}
<1>1. 0 \in S
  <2>1. ASSUME NEW z \in Seq(F), Len(z) = 0 PROVE Tally(w, z) <= 0
    <3>1. z = <<>>
      BY <2>1
    <3> QED
      BY <3>1, TallyEmpty
  <2> QED
    BY <2>1
<1>2. ASSUME NEW m \in S \cap Nat PROVE m + 1 \in S
  <2>1. ASSUME NEW z \in Seq(F), Len(z) = m + 1 PROVE Tally(w, z) <= 0
    <3> DEFINE h == Head(z)
               t == Tail(z)
    <3>1. z # <<>> /\ h \in F /\ t \in Seq(F) /\ Len(t) = m
      BY <2>1
    <3>2. Tally(w, t) <= 0
      BY <1>2, <3>1
    <3>3. Tally(w, z) = w[h] + Tally(w, t)
      BY <3>1, TallyHead
    <3>4. w[h] \in Int /\ w[h] <= 0 /\ Tally(w, t) \in Int
      BY <3>1, TallyIs
    <3> HIDE DEF h, t
    <3> QED
      BY <3>2, <3>3, <3>4
  <2> QED
    BY <2>1
<1> HIDE DEF S
<1>3. Nat \subseteq S
  BY <1>1, <1>2, Counting
<1>4. Len(s) \in S
  BY <1>3
<1> QED
  BY <1>4 DEF S

\* What is still to be copied is owed to the counter by the charge that
\* follows, so a copy is in debt by no more than the charge.
LEMMA WriteSmall ==
    ASSUME NEW lib, NEW n, Sane(lib, n), Modest, NEW s, CopyWrite(lib, s, TRUE)
    PROVE  Debt(lib, s) \in Small /\ (Pure(s) => Slight(lib, s))
<1>1. PICK b \in Nat, U \in SUBSET DOMAIN lib : \E z \in Seq(CopyFrames(lib, U)) :
         /\ s = z \o Charge(b) /\ ClosedIn(lib, DOMAIN lib, U)
         /\ Debt(lib, z) + b \in Nat /\ (TRUE => b <= Quota)
  BY DEF CopyWrite
<1>2. PICK z \in Seq(CopyFrames(lib, U)) : /\ s = z \o Charge(b)
                                           /\ Debt(lib, z) + b \in Nat /\ b <= Quota
  BY <1>1
<1> DEFINE F == CopyFrames(lib, U)
           w == Debits(lib)
<1>3. ASSUME NEW x \in F PROVE w[x] \in Int /\ w[x] <= 0
  <2>1. x \in Frame /\ x.op \in {"copyDoc", "copyChildren", "copyEach"}
    BY DEF CopyFrames
  <2>2. \E T : w[x] = - SubBytes(lib, T)
    BY <2>1, SizesFacts
  <2>3. PICK T : w[x] = - SubBytes(lib, T)
    BY <2>2
  <2>4. SubBytes(lib, T) \in Nat
    BY AllCosted
  <2> DEFINE v == SubBytes(lib, T)
             r == w[x]
  <2>5. r = - v /\ v \in Nat
    BY <2>3, <2>4
  <2> HIDE DEF v, r
  <2>6. r \in Int /\ r <= 0
    BY <2>5
  <2> QED
    BY <2>6 DEF r
<1> HIDE DEF F, w
<1>4. z \in Seq(F)
  BY DEF F
<1>5. Tally(w, z) <= 0
  BY <1>3, <1>4, TallyDown
<1>6. /\ Debt(lib, z) \in Int /\ z \in Seq(Frame) /\ Debt(lib, z \o Charge(b)) = Debt(lib, z) + b
      /\ z # <<>> => ~Pure(z \o Charge(b))
  BY WriteDebt
<1> DEFINE x == Debt(lib, z)
<1>7. x \in Int /\ x <= 0 /\ x + b \in Nat /\ Debt(lib, s) = x + b
  BY <1>2, <1>5, <1>6 DEF w, Debt
<1> HIDE DEF x
<1>8. Quota \in Nat
  BY QuotaAssumption
<1>9. PICK c \in Contents : TRUE
  BY DEF Modest
<1>10. Size[c] \in Nat
  BY SizeAssumption
<1> DEFINE sz == Size[c]
<1>11. \A d \in Int : 0 <= d /\ d <= Quota => - sz <= d
  BY <1>10
<1>12. \A d \in Int : 0 <= d /\ d <= Quota => d \in Small
  BY <1>9, <1>11 DEF Small
<1> HIDE DEF sz
<1>13. x + b \in Int /\ 0 <= x + b /\ x + b <= Quota
  BY <1>2, <1>7, <1>8
<1>14. Debt(lib, s) \in Small
  BY <1>7, <1>12, <1>13
<1>15. ASSUME Pure(s) PROVE Slight(lib, s)
  <2>1. z = <<>>
    BY <1>2, <1>6, <1>15
  <2>2. Charge(b) \in Seq(Frame) /\ Debt(lib, Charge(b)) = b
    BY ChargeFacts
  <2> DEFINE a == Charge(b)
  <2>3. s = a
    <3>1. s = <<>> \o a
      BY <1>2, <2>1
    <3> HIDE DEF a
    <3> QED
      BY <2>2, <3>1, EmptyCalls DEF a
  <2>4. CASE b = 0
    <3>1. s = <<>>
      BY <2>3, <2>4 DEF Charge
    <3> QED
      BY <3>1, SlightEmpty
  <2>5. CASE b # 0
    <3> DEFINE y == Add(b)
    <3>1. s = <<y>>
      BY <2>3, <2>5 DEF Charge
    <3>2. y \in Frame
      <4>1. <<y>> \in Seq(Frame)
        BY <2>2, <2>3, <3>1
      <4> QED
        BY <4>1
    <3> HIDE DEF y
    <3>3. Debits(lib)[y] \in Int
      BY <3>2, AllCosted
    <3>4. Debt(lib, s) = Debits(lib)[y]
      BY <3>1, <3>3, TallyOne DEF Debt
    <3>5. Slight(lib, <<y>>)
      BY <1>14, <3>2, <3>4, SlightOne
    <3> QED
      BY <3>1, <3>5
  <2> QED
    BY <2>4, <2>5
<1> QED
  BY <1>14, <1>15

LEMMA ShapeSmall ==
    ASSUME NEW lib, NEW n, Sane(lib, n), Modest, NEW s \in Seq(Frame), NEW T, CopyShape(lib, s, T, TRUE)
    PROVE  Debt(lib, s) \in Small /\ (Pure(s) => Slight(lib, s))
<1>1. CASE CopyStart(s, T) \/ CopyWalk(lib, s, T) \/ CopySize(lib, s, T)
  <2>1. Debt(lib, s) = 0 /\ ~Pure(s)
    BY <1>1, ShapeDebt
  <2> QED
    BY <2>1, SmallBytes
<1>2. CASE CopyWrite(lib, s, TRUE)
  BY <1>2, WriteSmall
<1> QED
  BY <1>1, <1>2 DEF CopyShape

\* A step of a process that does not copy.
LEMMA PureSlight ==
    ASSUME IInv, IInv', OneRequest, NoCycle, NoCycle', Modest, NEW p \in Procs, Step(p) \/ WorkerStep(p),
           NEW s \in Ready(todo[p]), NEW new, NEW rest, GoesOn(p, s, new, rest),
           Pure(todo[p]), Tidy(files, nextId, todo[p]), Slight(files, todo[p])
    PROVE  Slight(files', todo'[p])
<1>1. PICK O : /\ \A op \in O : MoreOps(op) \subseteq O
               /\ todo[p] \in Seq(FramesOf(O))
               /\ O \cap CopyKind = {}
               /\ "setParent" \in O => O \cap (TreeOps \cup TreeLoops \cup Toggles \cup {"restoreCheck"}) = {}
               /\ "remove" \in O => "restoreCheck" \notin O
  BY OneKind
<1>2. s \in Seq(FramesOf(O)) /\ s \in Seq(Frame) /\ s # <<>>
  BY <1>1, OpsReady, CallTail DEF Calls
<1>3. \A g \in In(s) : g.op \in O
  BY <1>2, PureSeq
<1>4. Head(s) \in FramesOf(O) /\ Tail(s) \in Seq(FramesOf(O))
  <2>1. Tail(s) \in Seq(FramesOf(O))
    BY <1>2
  <2> QED
    BY <1>2, <2>1
<1>5. \A g \in In(Tail(s)) : g.op \in O
  BY <1>4, PureSeq
<1>6. Sane(files, nextId) /\ todo[p] \in Seq(Frame) /\ NoCopy(todo[p])
  BY SaneHolds, PureNoCopy DEF IInv, TypeOK
<1>7. Tidy(files, nextId, s)
  BY <1>2, <1>6, ReadyTidy
<1>8. Slight(files, s)
  BY <1>6, ReadySlight
<1>9. Head(s).op = "remove" => (\A g \in In(Tail(s)) : g.op # "restoreCheck")
  BY <1>1, <1>4, <1>5 DEF FramesOf
<1>10. Head(s).op = "setParent" => (\A g \in In(Tail(s)) : Loose(g))
  BY <1>1, <1>4, <1>5 DEF FramesOf, Loose, CopyKind
<1>11. \A g \in In(s) : g.op \notin CopyOps \cup {"copyQuota"}
  BY <1>1, <1>3 DEF CopyKind
<1> QED
  BY <1>7, <1>8, <1>9, <1>10, <1>11, OwnSlight

\* What a worker does owes nothing.
LEMMA WorkerBlank ==
    ASSUME NEW lib, NEW n, Sane(lib, n), Modest, NEW s \in Seq(FramesOf(WorkerOps))
    PROVE  Slight(lib, s) /\ Debt(lib, s) = 0
<1>1. FramesOf(WorkerOps) \subseteq Frame
  BY DEF FramesOf
<1>2. s \in Seq(Frame)
  BY <1>1, Wider
<1>3. \A f \in In(s) : f.op \notin Owing
  BY PureSeq, WorkerFacts DEF Owing, CopyKind
<1> QED
  BY <1>2, <1>3, SlightBlank

\* The processes other than the client that works.
LEMMA OneAtWork ==
    ASSUME IInv, OneRequest, OneWorks
    PROVE  \E c \in Clients : /\ c \in Procs /\ \A d \in Clients \ {c} : may[d] = {}
                              /\ \A q \in Procs \ {c} : todo[q] \in Seq(FramesOf(WorkerOps))
<1>1. PICK c \in Clients : \A d \in Clients \ {c} : may[d] = {}
  BY DEF OneWorks
<1>2. \A d \in Clients \ {c} : todo[d] = <<>>
  BY <1>1 DEF OneRequest
<1>3. \A q \in Procs \ {c} : todo[q] \in Seq(FramesOf(WorkerOps))
  BY <1>2, NoFrames DEF OneRequest, Procs
<1> QED
  BY <1>1, <1>3 DEF Procs

\* While one client works, what is owed is what it owes.
LEMMA OneOwes ==
    ASSUME NEW lib, NEW n, Sane(lib, n), Modest, NEW calls, NEW c \in Procs, calls[c] \in Seq(Frame),
           \A q \in Procs \ {c} : calls[q] \in Seq(FramesOf(WorkerOps)),
           NEW B, B = {q \in Procs : calls[q] # <<>>}, IsFiniteSet(B)
    PROVE  SumOf(Debts(lib, calls), B) = Debt(lib, calls[c])
<1> DEFINE f == Debts(lib, calls)
           D == B \ {c}
           x == Debt(lib, calls[c])
<1>1. f[c] = x /\ x \in Int
  BY AllCosted DEF Debts
<1>2. \A q \in D : f[q] = 0
  BY WorkerBlank DEF Debts
<1>3. IsFiniteSet(D)
  BY FS_RemoveElement
<1> HIDE DEF f
<1>4. SumOf(f, D) = 0
  BY <1>2, <1>3, SumZero
<1>5. CASE c \in B
  <2>1. \A q \in B : f[q] \in Int
    BY <1>1, <1>2
  <2>2. SumOf(f, B) = f[c] + SumOf(f, D)
    BY <1>5, <2>1, SumSplit
  <2> HIDE DEF x, D
  <2>3. SumOf(f, B) = x
    BY <1>1, <1>4, <2>2
  <2> QED
    BY <2>3 DEF f, x
<1>6. CASE c \notin B
  <2>1. D = B /\ calls[c] = <<>>
    BY <1>6
  <2>2. x = 0
    BY <2>1, TallyEmpty DEF Debt
  <2>3. SumOf(f, B) = x
    BY <1>4, <2>1, <2>2
  <2> QED
    BY <2>3 DEF f, x
<1> QED
  BY <1>5, <1>6

\* What a process owes that does not copy is small at every turn.
Slim == \A p \in Procs : Pure(todo[p]) => Slight(files, todo[p])

\* How far off the counter may be.
Near(d) == - Quota <= d /\ \E c \in Contents : d <= Size[c]

LEMMA NearSmall ==
    ASSUME NEW d \in Small
    PROVE  Near(- d)
<1>1. PICK c \in Contents : - Size[c] <= d
  BY DEF Small
<1> DEFINE z == Size[c]
<1>2. d \in Int /\ d <= Quota /\ - z <= d /\ Quota \in Nat /\ z \in Nat
  BY <1>1, QuotaAssumption, SizeAssumption DEF Small
<1> HIDE DEF z
<1>3. - Quota <= - d /\ - d <= z
  BY <1>2
<1> QED
  BY <1>3 DEF Near, z

LEMMA ProcSmall ==
    ASSUME IInv, NoCycle, Modest, Orderly, Slim, faults = 0, NEW p \in Procs
    PROVE  Debt(files, todo[p]) \in Small
<1>1. Sane(files, nextId) /\ todo[p] \in Seq(Frame)
  BY SaneHolds DEF IInv, TypeOK
<1>2. InOrder(files, nextId, todo[p], total[p], TRUE)
  BY DEF Orderly
<1>3. CASE Pure(todo[p])
  BY <1>3, SlightPop DEF Slim
<1>4. CASE ~Pure(todo[p])
  <2>1. CopyShape(files, todo[p], total[p], TRUE)
    BY <1>1, <1>2, <1>4, InOrderIs
  <2> QED
    BY <1>1, <2>1, ShapeSmall
<1> QED
  BY <1>3, <1>4

\* A step of a process.
LEMMA SlimOwn ==
    ASSUME IInv, IInv', OneRequest, NoCycle, NoCycle', OneWorks, Modest, Orderly, IsFiniteSet(Busy), faults = 0,
           Drift = 0, Slim, NEW p \in Procs, Step(p) \/ WorkerStep(p),
           NEW s \in Ready(todo[p]), NEW new, NEW rest, GoesOn(p, s, new, rest), Pure(todo'[p])
    PROVE  Slight(files', todo'[p])
<1>1. /\ Sane(files, nextId) /\ Sane(files', nextId')
      /\ todo[p] \in Seq(Frame) /\ todo'[p] \in Seq(Frame)
  BY SaneHolds, SaneNext DEF IInv, TypeOK
<1>2. InOrder(files, nextId, todo[p], total[p], TRUE)
  BY DEF Orderly
<1>3. CASE Pure(todo[p])
  <2>1. Tidy(files, nextId, todo[p]) /\ Slight(files, todo[p])
    BY <1>1, <1>2, <1>3, InOrderIs DEF Slim
  <2> QED
    BY <1>3, <2>1, PureSlight
<1>4. CASE ~Pure(todo[p])
  <2>1. CopyShape(files, todo[p], total[p], TRUE)
    BY <1>1, <1>2, <1>4, InOrderIs
  <2>2. LiveBytes(files) \in Nat /\ used \in Int /\ Debt(files, todo[p]) \in Int
    BY <1>1, LiveNat, AllCosted DEF IInv, TypeOK
  <2>3. Cast
    BY DEF OneWorks, Cast, CopiesAlone
  <2>4. used + Debt(files, todo[p]) - LiveBytes(files) = 0
    BY <1>4, <2>3, CopierOwes DEF Drift
  <2>5. used + Debt(files, todo[p]) \in Nat
    BY <2>2, <2>4
  <2>6. CopyShape(files', todo'[p], total'[p], TRUE)
    BY <1>4, <2>1, <2>5, CopyStep
  <2> QED
    BY <1>1, <2>6, ShapeSmall
<1> QED
  BY <1>3, <1>4

LEMMA SlimStep ==
    ASSUME IInv, IInv', OneRequest, NoCycle, NoCycle', OneWorks, Modest, Orderly, IsFiniteSet(Busy), faults = 0,
           Drift = 0, Slim, NEW p \in Procs, Step(p) \/ WorkerStep(p)
    PROVE  Slim'
<1>1. PICK s \in Ready(todo[p]) : \E new : \E rest : GoesOn(p, s, new, rest)
  BY StepShape
<1>2. PICK new, rest : GoesOn(p, s, new, rest)
  BY <1>1
<1>3. \A q \in Procs \ {p} : todo'[q] = todo[q]
  BY StepOfOne
<1>4. Sane(files, nextId) /\ Sane(files', nextId')
  BY SaneHolds, SaneNext
<1>5. PICK c \in Clients : c \in Procs /\ \A q \in Procs \ {c} : todo[q] \in Seq(FramesOf(WorkerOps))
  BY OneAtWork
<1>6. ASSUME NEW q \in Procs, Pure(todo'[q]) PROVE Slight(files', todo'[q])
  <2>1. CASE q = p
    BY <1>2, <1>6, <2>1, SlimOwn
  <2>2. CASE q # p /\ q # c
    <3>1. todo'[q] \in Seq(FramesOf(WorkerOps))
      BY <1>3, <1>5, <2>2
    <3> QED
      BY <1>4, <3>1, WorkerBlank
  <2>3. CASE q # p /\ q = c
    <3>1. todo'[q] = todo[q] /\ todo[q] \in Seq(Frame) /\ Slight(files, todo[q])
      BY <1>3, <1>6, <2>3 DEF Slim, IInv, TypeOK
    <3>2. todo[p] \in Seq(FramesOf(WorkerOps))
      BY <1>5, <2>3
    <3>3. SameTree(files, files') /\ nextId' = nextId
      BY <1>2, <3>2, WorkerSame
    <3>4. Debits(files') = Debits(files)
      BY <1>4, <3>3, SameFrames
    <3>5. Slight(files', todo[q])
      BY <1>4, <3>1, <3>4, SlightMoved
    <3> QED
      BY <3>1, <3>5
  <2> QED
    BY <2>1, <2>2, <2>3
<1> QED
  BY <1>6 DEF Slim

\* A request begins, or a worker takes a document.
LEMMA SlimBegin ==
    ASSUME IInv, IInv', NoCycle, Modest, Slim, NEW c \in Clients, Begin(c)
    PROVE  Slim'
<1>1. PICK kind \in may[c] : \E s \in Requests[kind] : Goto(c, s)
  BY DEF Begin
<1>2. PICK s \in Requests[kind] : Goto(c, s)
  BY <1>1
<1>3. /\ kind \in Kinds /\ c \in Procs /\ files' = files /\ todo'[c] = s
      /\ \A q \in Procs \ {c} : todo'[q] = todo[q]
  BY <1>2, MayKinds DEF Begin, data, Goto, IInv, TypeOK, Procs
<1>4. s \in Seq(Frame)
  BY <1>3 DEF IInv, TypeOK
<1>5. Sane(files, nextId)
  BY SaneHolds
<1>6. ASSUME Pure(s) PROVE Slight(files, s)
  <2>1. CASE kind # "copy"
    <3>1. In(s) \subseteq FirstMade(kind)
      BY <1>2, <1>3, RequestMade, InSeq
    <3>2. \A f \in In(s) : f.op \notin Owing
      BY <1>3, <2>1, <3>1, FirstLoose DEF Loose, Owing
    <3> QED
      BY <1>4, <1>5, <3>2, SlightBlank
  <2>2. CASE kind = "copy"
    <3>1. PICK i \in 1 .. (nextId - 1), to \in {Root} \cup DOMAIN files : s = <<Into("copy", i, to)>>
      BY <1>2, <2>2 DEF Requests
    <3> DEFINE x == Into("copy", i, to)
    <3>2. x.op \in CopyKind
      BY DEF Into, CopyKind
    <3>3. x \in In(s)
      <4> HIDE DEF x
      <4>1. s = <<x>>
        BY <3>1 DEF x
      <4> QED
        BY <4>1, InSmall
    <3> QED
      BY <1>6, <3>2, <3>3 DEF Pure
  <2> QED
    BY <2>1, <2>2
<1> QED
  BY <1>3, <1>6 DEF Slim

LEMMA SlimTake ==
    ASSUME IInv, IInv', NoCycle, Modest, Slim, NEW w \in Workers, Take(w)
    PROVE  Slim'
<1> DEFINE f == At("send", Head(queue))
           s == <<f>>
<1>1. /\ w \in Procs /\ files' = files /\ todo'[w] = s /\ \A q \in Procs \ {w} : todo'[q] = todo[q]
  BY DEF Take, Goto, IInv, TypeOK, Procs, bounds
<1>2. f.op = "send" /\ In(s) = {f}
  BY InSmall DEF At
<1>3. s \in Seq(Frame)
  BY <1>1 DEF IInv, TypeOK
<1>4. f.op \notin Owing
  BY <1>2 DEF Owing, Toggles, CopyOps
<1> HIDE DEF f, s
<1>5. Slight(files, s)
  BY <1>2, <1>3, <1>4, SaneHolds, SlightBlank
<1> QED
  BY <1>1, <1>5 DEF Slim

LEMMA SlimNothing ==
    ASSUME NEW calls, NEW lib, Modest, \A q \in Procs : calls[q] = <<>>
    PROVE  \A q \in Procs : Pure(calls[q]) => Slight(lib, calls[q])
BY SlightEmpty

\* If no request died, what each process that does not copy owes is small at
\* every turn; if one did, or the process was restarted once, the counter is
\* off by what was owed then.
DriftInv ==
    OneWorks /\ Modest =>
        /\ faults = 0 => Slim
        /\ faults <= 1 => Near(Drift)

LEMMA NearZero == Modest => Near(0)
<1> SUFFICES ASSUME Modest PROVE Near(0)
  OBVIOUS
<1>1. 0 \in Small
  BY SmallBytes
<1>2. Near(-0)
  BY <1>1, NearSmall
<1> QED
  BY <1>2

LEMMA DriftInit == Init => DriftInv
<1> SUFFICES ASSUME Init, Modest PROVE (faults = 0 => Slim) /\ (faults <= 1 => Near(Drift))
  BY DEF DriftInv
<1>1. \A p \in Procs : todo[p] = <<>>
  BY DEF Init
<1>2. Slim
  BY <1>1, SlimNothing DEF Slim
<1>3. Busy = {}
  BY <1>1 DEF Busy
<1>4. Owed = 0
  BY <1>3, SumEmpty DEF Owed
<1>5. used = LiveBytes(files) /\ used \in Int
  BY DEF Init
<1>6. Drift = 0
  BY <1>4, <1>5 DEF Drift
<1> QED
  BY <1>2, <1>6, NearZero

\* A process dies: what its client owed is owed for ever.
LEMMA LossNear ==
    ASSUME IInv, NoCycle, NoCycle', IInv', OneRequest, OneWorks, Modest, Orderly, IsFiniteSet(Busy), IsFiniteSet(Busy'),
           faults = 0, Drift = 0, Slim, UNCHANGED <<files, used>>,
           \A q \in Procs : todo'[q] = todo[q] \/ todo'[q] = <<>>
    PROVE  Near(Drift')
<1>1. PICK c \in Clients : c \in Procs /\ \A q \in Procs \ {c} : todo[q] \in Seq(FramesOf(WorkerOps))
  BY OneAtWork
<1>2. Sane(files, nextId) /\ Sane(files', nextId')
  BY SaneHolds, SaneNext
<1>3. todo[c] \in Seq(Frame) /\ todo'[c] \in Seq(Frame)
  BY <1>1 DEF IInv, TypeOK
<1>4. \A q \in Procs \ {c} : todo'[q] \in Seq(FramesOf(WorkerOps))
  BY <1>1, NoFrames
<1> DEFINE a == Debt(files, todo[c])
           b == Debt(files', todo'[c])
           v == LiveBytes(files)
<1>5. SumOf(Debts(files, todo), Busy) = a
  BY <1>1, <1>2, <1>3, OneOwes DEF Busy
<1>6. Busy' = {q \in Procs : todo'[q] # <<>>}
  BY DEF Busy
<1>7. SumOf(Debts(files', todo'), Busy') = b
  BY <1>1, <1>2, <1>3, <1>4, <1>6, OneOwes
<1>8. a \in Small /\ a \in Int /\ v \in Nat /\ used \in Int
  BY <1>1, <1>2, <1>3, ProcSmall, AllCosted, LiveNat DEF IInv, TypeOK
<1>9. b = a \/ b = 0
  <2>1. CASE todo'[c] = todo[c]
    BY <2>1
  <2>2. CASE todo'[c] = <<>>
    BY <2>2, TallyEmpty DEF Debt
  <2> QED
    BY <1>1, <2>1, <2>2
<1>10. Drift = used + a - v /\ Drift' = used + b - v
  BY <1>5, <1>7 DEF Drift, Owed
<1> HIDE DEF a, b, v
<1>11. Drift' = 0 \/ Drift' = - a
  BY <1>8, <1>9, <1>10
<1>12. Near(0) /\ Near(- a)
  BY <1>8, NearZero, NearSmall
<1> QED
  BY <1>11, <1>12

LEMMA DriftNext ==
    ASSUME IInv, IInv', OneRequest, CycleInv, CycleInv', AcctInv, AcctInv', DriftInv, [Next]_vars
    PROVE  DriftInv'
<1>1. may' = may
  <2>1. ASSUME NEW p \in Procs, Step(p) \/ WorkerStep(p) PROVE may' = may
    <3>1. PICK s \in Ready(todo[p]) : \E new : \E rest : GoesOn(p, s, new, rest)
      BY <2>1, StepShape
    <3> QED
      BY <3>1 DEF GoesOn, Effect, bounds
  <2> QED
    BY <2>1 DEF Next, Begin, Take, Expire, Fail, Restart, Finished, vars, bounds, Procs
<1> SUFFICES ASSUME OneWorks, Modest PROVE (faults' = 0 => Slim') /\ (faults' <= 1 => Near(Drift)')
  <2>1. OneWorks' <=> OneWorks
    BY <1>1 DEF OneWorks
  <2> QED
    BY <2>1 DEF DriftInv
<1>2. Cast /\ Cast'
  BY <1>1 DEF OneWorks, Cast, CopiesAlone
<1>3. NoCycle /\ NoCycle'
  <2>1. OneMover /\ OneMover'
    BY <1>1, <1>2, CastMover DEF OneMover
  <2> QED
    BY <2>1 DEF CycleInv
<1>4. /\ Orderly /\ IsFiniteSet(Busy) /\ IsFiniteSet(Busy') /\ faults \in Nat
      /\ faults = 0 => Drift = 0
      /\ faults = 0 => Slim
      /\ faults <= 1 => Near(Drift)
  BY <1>2 DEF AcctInv, DriftInv
<1> DEFINE Same == faults' = faults /\ Drift' = Drift /\ (faults = 0 => Slim')
           Lost == faults' = faults + 1 /\ (faults = 0 => Near(Drift'))
<1>5. ASSUME NEW c \in Clients, Begin(c) PROVE Same
  BY <1>3, <1>4, <1>5, AcctBegin, SlimBegin DEF Begin
<1>6. ASSUME NEW p \in Procs, Step(p) \/ WorkerStep(p) PROVE Same
  <2>1. faults' = faults
    <3>1. PICK s \in Ready(todo[p]) : \E new : \E rest : GoesOn(p, s, new, rest)
      BY <1>6, StepShape
    <3> QED
      BY <3>1 DEF GoesOn, Effect, bounds
  <2>2. Drift' = Drift
    BY <1>2, <1>3, <1>4, <1>6, BooksStep
  <2>3. faults = 0 => Slim'
    BY <1>3, <1>4, <1>6, SlimStep
  <2> QED
    BY <2>1, <2>2, <2>3
<1>7. ASSUME NEW w \in Workers, Take(w) PROVE Same
  <2>1. faults' = faults
    BY <1>7 DEF Take, bounds
  <2> QED
    BY <1>3, <1>4, <1>7, <2>1, AcctTake, SlimTake
<1>8. ASSUME NEW i \in DOMAIN files, Expire(i) PROVE Same
  <2>1. faults' = faults /\ \A q \in Procs : todo'[q] = <<>>
    BY <1>8 DEF Expire, Idle, Busy, bounds
  <2>2. Slim'
    BY <2>1, SlimNothing DEF Slim
  <2> QED
    BY <1>3, <1>4, <1>8, <2>1, <2>2, AcctExpire
<1>9. ASSUME NEW p \in Procs, Fail(p) PROVE Lost
  <2>1. /\ UNCHANGED <<files, used>> /\ faults' = faults + 1
        /\ \A q \in Procs : todo'[q] = todo[q] \/ todo'[q] = <<>>
    BY <1>9 DEF Fail, Abort, Goto, IInv, TypeOK, data
  <2> QED
    BY <1>3, <1>4, <2>1, LossNear
<1>10. ASSUME Restart PROVE Lost
  <2>1. /\ UNCHANGED <<files, used>> /\ faults' = faults + 1
        /\ \A q \in Procs : todo'[q] = todo[q] \/ todo'[q] = <<>>
    BY <1>10 DEF Restart
  <2> QED
    BY <1>3, <1>4, <2>1, LossNear
<1>11. ASSUME UNCHANGED vars PROVE Same
  <2>1. UNCHANGED <<files, nextId, used, todo, total, faults>>
    BY <1>11 DEF vars, data, bounds
  <2> QED
    BY <1>4, <2>1 DEF Slim, Busy, Drift, Owed, Debts
<1> HIDE DEF Same, Lost
<1>12. \/ \E c \in Clients : Begin(c)
       \/ \E p \in Procs : Step(p) \/ WorkerStep(p)
       \/ \E w \in Workers : Take(w)
       \/ \E i \in DOMAIN files : Expire(i)
       \/ \E p \in Procs : Fail(p)
       \/ Restart
       \/ UNCHANGED vars
  BY AnyStep
<1>13. Same \/ Lost
  BY <1>5, <1>6, <1>7, <1>8, <1>9, <1>10, <1>11, <1>12
<1>14. CASE Same
  BY <1>4, <1>14 DEF Same, Near
<1>15. CASE Lost
  <2>1. faults' # 0 /\ (faults' <= 1 => faults = 0)
    BY <1>4, <1>15 DEF Lost
  <2> QED
    BY <1>15, <2>1 DEF Lost, Near
<1> QED
  BY <1>13, <1>14, <1>15

LEMMA DriftIsNear ==
    ASSUME IInv, CycleInv, AcctInv, DriftInv, OneWorks, Modest
    PROVE  DriftBounded
<1> SUFFICES ASSUME Idle, faults <= 1 PROVE Near(used - LiveBytes(files))
  BY DEF DriftBounded, Near
<1>1. Busy = {} /\ Near(Drift)
  BY DEF DriftInv, Idle
<1>2. Owed = 0
  BY <1>1, SumEmpty DEF Owed
<1>3. Cast
  BY DEF OneWorks, Cast, CopiesAlone
<1>4. NoCycle
  BY <1>3, CastMover DEF CycleInv
<1>5. LiveBytes(files) \in Nat /\ used \in Int
  BY <1>4, SaneHolds, LiveNat DEF IInv, TypeOK
<1>6. Drift = used - LiveBytes(files)
  BY <1>2, <1>5 DEF Drift
<1> QED
  BY <1>1, <1>6

\* While one client works, a request that dies, or a process that is
\* restarted, once, leaves storage_used_bytes short of the bytes of the live
\* files by no more than the quota (the $inc after _copy_subtree or after a
\* new record), and above them by no more than one file (the $inc of a file
\* that was trashed or deleted): copy_file, move_to_trash, restore_from_trash
\* and permanent_delete (file_service.py:98-302) each owe the counter no more
\* at any await.  No file may be larger than the quota: restore_from_trash
\* does not check what it makes live again.
THEOREM DriftIsBounded == Spec => [](OneWorks /\ Modest => DriftBounded)
<1>1. Init => IInv /\ OneRequest /\ CycleInv /\ AcctInv /\ DriftInv
  BY InitHolds, OneRequestInit, CycleInit, AcctInit, DriftInit
<1>2. IInv /\ OneRequest /\ CycleInv /\ AcctInv /\ DriftInv /\ [Next]_vars
      => (IInv /\ OneRequest /\ CycleInv /\ AcctInv /\ DriftInv)'
  BY NextHolds, OneRequestNext, CycleNext, AcctNext, DriftNext
<1>3. IInv /\ CycleInv /\ AcctInv /\ DriftInv => (OneWorks /\ Modest => DriftBounded)
  BY DriftIsNear
<1> QED
  BY <1>1, <1>2, <1>3, PTL DEF Spec
=============================================================================
