----------------------------- MODULE TreeProofs -----------------------------
(***************************************************************************)
(* What keeps the library a tree: that the checks of a move close no       *)
(* cycle, that deletions leave no document behind in a folder that is      *)
(* gone, and that trashing and restoring hide no live document; and what   *)
(* deletions leave of the messages in the channel: none that the library   *)
(* had and that no document has, and all that a document points to.        *)
(***************************************************************************)
EXTENDS FileStoreProofs

(***************************************************************************)
(* No cycle.                                                               *)
(***************************************************************************)
\* At most one client moves documents.
OneMover == \A c \in Clients : \A d \in Clients \ {c} : "move" \notin may[c] \/ "move" \notin may[d]

Ids == 0 .. (nextId - 1)

\* i is not a folder, and will never be one.
NotFolder(i) == i \in Ids /\ (i \in DOMAIN files => ~IsFolder(files[i]))

\* The ancestors of to can be followed to the top without meeting i.
Clear(i, to) ==
    \E U \in SUBSET Ids :
        /\ to \in U /\ i \notin U
        /\ \A j \in U \cap DOMAIN files : files[j].parent \in U \/ files[j].parent \notin DOMAIN files

\* The ancestors of to from cur on have still to be followed.
Climbing(i, to, cur) ==
    \E U \in SUBSET Ids :
        /\ (to \in U \/ to = cur) /\ i \notin U
        /\ \A j \in U \cap DOMAIN files :
             files[j].parent \in U \cup {cur} \/ files[j].parent \notin DOMAIN files

\* What a move still has to do, and what it has found out so far.
Moving(s) ==
    \E i, to \in Nat :
        \/ s = <<Into("move", i, to)>>
        \/ s = <<At("parent", to), Into("walk", i, to), Into("setParent", i, to)>>
        \/ s = <<At("parent", to), Into("setParent", i, to)>> /\ NotFolder(i)
        \/ \E cur \in Ids : s = <<Into("walk", i, cur), Into("setParent", i, to)>> /\ Climbing(i, to, cur)
        \/ s = <<Into("setParent", i, to)>> /\ (Clear(i, to) \/ NotFolder(i))

\* The calls of everything but a move.
StillOps == AllOps \ {"move", "setParent"}

\* The inductive invariant of NoCycle.
MovesOK == \A c \in Clients : todo[c] \in Seq(FramesOf(StillOps)) \/ Moving(todo[c])

CycleInv == OneMover => NoCycle /\ MovesOK

\* No document that stays changes its folder or its kind, and a new one lies
\* in a folder that was there.
ParentsStay ==
    /\ DOMAIN files' \subseteq DOMAIN files \cup {nextId}
    /\ \A j \in DOMAIN files \cap DOMAIN files' :
         files'[j].parent = files[j].parent /\ files'[j].kind = files[j].kind
    /\ \/ nextId' = nextId /\ nextId \notin DOMAIN files'
       \/ nextId' = nextId + 1 /\ nextId \in DOMAIN files' /\ files'[nextId].parent \in Ids

LEMMA IdFacts ==
    ASSUME IInv
    PROVE  /\ nextId \in Nat \ {0} /\ Ids \subseteq Nat /\ 0 \in Ids /\ nextId \notin Ids
           /\ DOMAIN files \subseteq Ids \ {0}
           /\ \A i \in DOMAIN files : files[i].parent \in Ids
           /\ Safe \subseteq Ids
<1>1. nextId \in Nat \ {0} /\ DOMAIN files \subseteq 1 .. (nextId - 1)
  BY DEF IInv, TypeOK
<1>2. Safe \subseteq Ids
  BY DEF Safe, Ids
<1>3. Ids \subseteq Nat /\ 0 \in Ids /\ nextId \notin Ids /\ DOMAIN files \subseteq Ids \ {0}
  BY <1>1 DEF Ids
<1> QED
  BY <1>1, <1>2, <1>3 DEF IInv

LEMMA EffectParents ==
    ASSUME IInv, NEW p \in Procs, NEW s \in Ready(todo[p]), FilesEffect(Head(s)), Head(s).op # "setParent"
    PROVE  ParentsStay
<1> DEFINE h == Head(s)
<1>1. h.op # "parent" => PlaceOf(h) \in Safe /\ h \in Frame
  BY CallFacts DEF Calls
<1>2. nextId \notin DOMAIN files /\ Safe \subseteq Ids
  BY IdFacts
<1>3. CASE h.op \notin {"setParent", "mark", "unmark", "record", "remove", "insert", "copyDoc"}
  <2>1. UNCHANGED <<files, nextId>>
    BY <1>3 DEF FilesEffect
  <2> QED
    BY <1>2, <2>1 DEF ParentsStay
<1>4. CASE h.op \in {"mark", "unmark", "record"}
  <2>1. nextId' = nextId
    BY <1>4 DEF FilesEffect
  <2>2. PICK d : SetDoc(h.id, d) /\ (h.id \in DOMAIN files => d.parent = files[h.id].parent /\ d.kind = files[h.id].kind)
    <3>1. h.id \in DOMAIN files => files[h.id] \in Doc
      BY DEF IInv, TypeOK
    <3>2. CASE h.op = "mark"
      <4> DEFINE d == [files[h.id] EXCEPT !.trash = "trashed"]
      <4>1. SetDoc(h.id, d)
        BY <3>2 DEF FilesEffect
      <4> QED
        BY <3>1, <4>1 DEF Doc
    <3>3. CASE h.op = "unmark"
      <4> DEFINE d == [files[h.id] EXCEPT !.trash = "live"]
      <4>1. SetDoc(h.id, d)
        BY <3>3 DEF FilesEffect
      <4> QED
        BY <3>1, <4>1 DEF Doc
    <3>4. CASE h.op = "record"
      <4> DEFINE d == [files[h.id] EXCEPT !.msg = h.msg]
      <4>1. SetDoc(h.id, d)
        BY <3>4 DEF FilesEffect
      <4> QED
        BY <3>1, <4>1 DEF Doc
    <3> QED
      BY <1>4, <3>2, <3>3, <3>4
  <2> QED
    BY <1>2, <2>1, <2>2 DEF SetDoc, ParentsStay
<1>5. CASE h.op = "remove"
  <2>1. files' = [j \in DOMAIN files \ {h.id} |-> files[j]] /\ nextId' = nextId
    BY <1>5 DEF FilesEffect
  <2> QED
    BY <1>2, <2>1 DEF ParentsStay
<1>6. CASE h.op \in {"insert", "copyDoc"}
  <2>1. PICK d : InsertDoc(d) /\ d.parent \in Safe
    <3>1. CASE h.op = "insert"
      BY <1>1, <3>1 DEF FilesEffect, PlaceOf, EachOps
    <3>2. CASE h.op = "copyDoc"
      <4>1. h.to \in Safe /\ h.doc \in Doc
        BY <1>1, <3>2, FrameFields DEF PlaceOf
      <4>2. InsertDoc([h.doc EXCEPT !.parent = h.to, !.trash = "live"])
        BY <3>2 DEF FilesEffect
      <4>3. [h.doc EXCEPT !.parent = h.to, !.trash = "live"].parent = h.to
        BY <4>1 DEF Doc
      <4> QED
        BY <4>1, <4>2, <4>3
    <3> QED
      BY <1>6, <3>1, <3>2
  <2> QED
    BY <1>2, <2>1 DEF InsertDoc, ParentsStay
<1> QED
  BY <1>3, <1>4, <1>5, <1>6

LEMMA StayKeeps ==
    ASSUME IInv, ParentsStay
    PROVE  /\ NoCycle => NoCycle'
           /\ \A i : NotFolder(i) => NotFolder(i)'
           /\ \A i, to : Clear(i, to) => Clear(i, to)'
           /\ \A i, to, cur : Climbing(i, to, cur) => Climbing(i, to, cur)'
           /\ Ids \subseteq Ids'
<1>1. /\ nextId \in Nat \ {0} /\ nextId \notin Ids /\ DOMAIN files \subseteq Ids
      /\ \A i \in DOMAIN files : files[i].parent \in Ids
  BY IdFacts
<1>2. Ids \subseteq Ids'
  BY <1>1 DEF ParentsStay, Ids
<1>3. ASSUME NoCycle PROVE NoCycle'
  <2> SUFFICES ASSUME NEW S \in SUBSET DOMAIN files', S # {}
               PROVE  \E i \in S : files'[i].parent \notin S
    BY DEF NoCycle, Acyclic
  <2> DEFINE T == S \ {nextId}
  <2>1. T \subseteq DOMAIN files \cap DOMAIN files'
    BY DEF ParentsStay
  <2>2. CASE T = {}
    <3>1. S = {nextId} /\ nextId \in DOMAIN files'
      BY <2>2
    <3>2. files'[nextId].parent \in Ids
      BY <3>1 DEF ParentsStay
    <3> QED
      BY <1>1, <3>1, <3>2
  <2>3. CASE T # {}
    <3>1. PICK i \in T : files[i].parent \notin T
      BY <1>3, <2>1, <2>3 DEF NoCycle, Acyclic
    <3>2. files'[i].parent = files[i].parent /\ files[i].parent # nextId
      BY <1>1, <2>1, <3>1 DEF ParentsStay
    <3> QED
      BY <3>1, <3>2
  <2> QED
    BY <2>2, <2>3
<1>4. ASSUME NEW i, NotFolder(i) PROVE NotFolder(i)'
  BY <1>1, <1>2, <1>4 DEF NotFolder, ParentsStay, IsFolder
<1>5. ASSUME NEW U \in SUBSET Ids, NEW V,
             \A j \in U \cap DOMAIN files : files[j].parent \in V \/ files[j].parent \notin DOMAIN files
      PROVE  \A j \in U \cap DOMAIN files' : files'[j].parent \in V \/ files'[j].parent \notin DOMAIN files'
  <2> SUFFICES ASSUME NEW j \in U \cap DOMAIN files'
               PROVE  files'[j].parent \in V \/ files'[j].parent \notin DOMAIN files'
    OBVIOUS
  <2>1. j \in DOMAIN files /\ files'[j].parent = files[j].parent /\ files[j].parent # nextId
    BY <1>1 DEF ParentsStay
  <2> QED
    BY <1>5, <2>1 DEF ParentsStay
<1>6. ASSUME NEW i, NEW to, Clear(i, to) PROVE Clear(i, to)'
  <2>1. PICK U \in SUBSET Ids :
          /\ to \in U /\ i \notin U
          /\ \A j \in U \cap DOMAIN files : files[j].parent \in U \/ files[j].parent \notin DOMAIN files
    BY <1>6 DEF Clear
  <2>2. \A j \in U \cap DOMAIN files' : files'[j].parent \in U \/ files'[j].parent \notin DOMAIN files'
    BY <1>5, <2>1
  <2> QED
    BY <1>2, <2>1, <2>2 DEF Clear
<1>7. ASSUME NEW i, NEW to, NEW cur, Climbing(i, to, cur) PROVE Climbing(i, to, cur)'
  <2>1. PICK U \in SUBSET Ids :
          /\ (to \in U \/ to = cur) /\ i \notin U
          /\ \A j \in U \cap DOMAIN files :
               files[j].parent \in U \cup {cur} \/ files[j].parent \notin DOMAIN files
    BY <1>7 DEF Climbing
  <2> DEFINE V == U \cup {cur}
  <2>2. \A j \in U \cap DOMAIN files : files[j].parent \in V \/ files[j].parent \notin DOMAIN files
    BY <2>1
  <2> HIDE DEF V
  <2>3. \A j \in U \cap DOMAIN files' : files'[j].parent \in V \/ files'[j].parent \notin DOMAIN files'
    BY <1>5, <2>2
  <2> QED
    BY <1>2, <2>1, <2>3 DEF Climbing, V
<1> QED
  BY <1>2, <1>3, <1>4, <1>6, <1>7

\* Moving a document that passed the checks closes no cycle.
LEMMA SetParentAcyclic ==
    ASSUME IInv, NoCycle, NEW i, NEW to \in Safe, Clear(i, to) \/ NotFolder(i),
           SetDoc(i, [files[i] EXCEPT !.parent = to])
    PROVE  NoCycle'
<1> DEFINE d == [files[i] EXCEPT !.parent = to]
<1>1. /\ DOMAIN files' = DOMAIN files
      /\ \A j \in DOMAIN files : j # i => files'[j] = files[j]
      /\ i \in DOMAIN files => files'[i].parent = to
  <2>1. i \in DOMAIN files => d.parent = to
    BY DEF IInv, TypeOK, Doc
  <2>2. files' = [j \in DOMAIN files |-> IF j = i THEN d ELSE files[j]]
    BY DEF SetDoc
  <2> QED
    BY <2>1, <2>2
<1> SUFFICES ASSUME NEW S \in SUBSET DOMAIN files, S # {}
             PROVE  \E j \in S : files'[j].parent \notin S
  BY <1>1 DEF NoCycle, Acyclic
<1>2. CASE i \notin S
  <2>1. PICK j \in S : files[j].parent \notin S
    BY DEF NoCycle, Acyclic
  <2> QED
    BY <1>1, <1>2, <2>1
<1>3. CASE i \in S /\ to \notin S
  BY <1>1, <1>3
<1>4. CASE i \in S /\ to \in S /\ Clear(i, to)
  <2>1. PICK U \in SUBSET Ids :
          /\ to \in U /\ i \notin U
          /\ \A j \in U \cap DOMAIN files : files[j].parent \in U \/ files[j].parent \notin DOMAIN files
    BY <1>4 DEF Clear
  <2> DEFINE T == S \cap U
  <2>2. T \in SUBSET DOMAIN files /\ T # {}
    BY <1>4, <2>1
  <2>3. PICK j \in T : files[j].parent \notin T
    BY <2>2 DEF NoCycle, Acyclic
  <2>4. files[j].parent \notin S
    BY <2>1, <2>3
  <2> QED
    BY <1>1, <2>1, <2>3, <2>4
<1>5. CASE i \in S /\ to \in S /\ NotFolder(i)
  <2> DEFINE T == S \ {i}
  <2>1. to # i
    BY <1>5 DEF NotFolder, Safe
  <2>2. T \in SUBSET DOMAIN files /\ T # {}
    BY <1>5, <2>1
  <2>3. PICK j \in T : files[j].parent \notin T
    BY <2>2 DEF NoCycle, Acyclic
  <2>4. files[j].parent # i
    BY <1>5, <2>3 DEF IInv, NotFolder, Safe
  <2> QED
    BY <1>1, <2>3, <2>4
<1> QED
  BY <1>2, <1>3, <1>4, <1>5

LEMMA TripleConcat ==
    ASSUME NEW x, NEW y, NEW z
    PROVE  <<x, y>> \o <<z>> = <<x, y, z>>
<1> DEFINE F == {x, y, z}
           a == <<x, y>>
           b == <<z>>
           c == <<x, y, z>>
<1>1. a \in Seq(F) /\ Len(a) = 2 /\ a[1] = x /\ a[2] = y
  OBVIOUS
<1>2. b \in Seq(F) /\ Len(b) = 1 /\ b[1] = z
  OBVIOUS
<1>3. c \in Seq(F) /\ Len(c) = 3 /\ c[1] = x /\ c[2] = y /\ c[3] = z
  OBVIOUS
<1> HIDE DEF a, b, c, F
<1>4. /\ a \o b \in Seq(F) /\ Len(a \o b) = Len(a) + Len(b)
      /\ \A i \in 1 .. Len(a) + Len(b) : (a \o b)[i] = IF i <= Len(a) THEN a[i] ELSE b[i - Len(a)]
  BY <1>1, <1>2, ConcatProperties
<1>5. \A i \in 1 .. 3 : (a \o b)[i] = IF i <= 2 THEN a[i] ELSE b[i - 2]
  BY <1>1, <1>2, <1>4
<1>6. Len(a \o b) = 3 /\ (a \o b)[1] = x /\ (a \o b)[2] = y /\ (a \o b)[3] = z
  BY <1>1, <1>2, <1>4, <1>5
<1>7. \A i \in 1 .. 3 : (a \o b)[i] = c[i]
  <2> SUFFICES ASSUME NEW i \in 1 .. 3 PROVE (a \o b)[i] = c[i]
    OBVIOUS
  <2>1. i = 1 \/ i = 2 \/ i = 3
    OBVIOUS
  <2> QED
    BY <1>3, <1>6, <2>1
<1>8. a \o b = c
  BY <1>3, <1>4, <1>6, <1>7, SeqEqual
<1> QED
  BY <1>8 DEF a, b, c

LEMMA HeadTails ==
    ASSUME NEW x, NEW y, NEW z
    PROVE  /\ <<x>> # <<>> /\ Head(<<x>>) = x /\ Tail(<<x>>) = <<>>
           /\ <<x, y>> # <<>> /\ Head(<<x, y>>) = x /\ Tail(<<x, y>>) = <<y>>
           /\ <<x, y, z>> # <<>> /\ Head(<<x, y, z>>) = x /\ Tail(<<x, y, z>>) = <<y, z>>
OBVIOUS

\* A process that is not at a loop goes on from the first call it has.
LEMMA FirstCall ==
    ASSUME NEW s, s # <<>>, Head(s).op \notin EachOps
    PROVE  Ready(s) = {s}
BY DEF Ready

LEMMA PlaceChecksIs ==
    ASSUME NEW i, NEW to, NEW f
    PROVE  PlaceChecks(i, to) \o <<f>> =
             IF to = Root THEN <<f>>
             ELSE IF IsFolder(files[i]) THEN <<At("parent", to), Into("walk", i, to), f>>
             ELSE <<At("parent", to), f>>
<1> DEFINE w == IF to # Root /\ IsFolder(files[i]) THEN <<Into("walk", i, to)>> ELSE <<>>
<1>1. PlaceChecks(i, to) = ParentCheck(to) \o w
  BY DEF PlaceChecks
<1>2. CASE to = Root
  <2>1. w = <<>> /\ ParentCheck(to) = <<>>
    BY <1>2 DEF ParentCheck
  <2>2. <<>> \o <<f>> = <<f>>
    OBVIOUS
  <2> QED
    BY <1>1, <1>2, <2>1, <2>2, EmptyConcat
<1>3. CASE to # Root /\ IsFolder(files[i])
  <2>1. w = <<Into("walk", i, to)>> /\ ParentCheck(to) = <<At("parent", to)>>
    BY <1>3 DEF ParentCheck
  <2> HIDE DEF w
  <2>2. PlaceChecks(i, to) = <<At("parent", to), Into("walk", i, to)>>
    BY <1>1, <2>1, PairConcat
  <2> QED
    BY <1>3, <2>2, TripleConcat
<1>4. CASE to # Root /\ ~IsFolder(files[i])
  <2>1. w = <<>> /\ ParentCheck(to) = <<At("parent", to)>>
    BY <1>4 DEF ParentCheck
  <2> HIDE DEF w
  <2>2. <<At("parent", to)>> \o <<>> = <<At("parent", to)>>
    OBVIOUS
  <2>3. PlaceChecks(i, to) = <<At("parent", to)>>
    BY <1>1, <2>1, <2>2
  <2> QED
    BY <1>4, <2>3, PairConcat
<1> QED
  BY <1>2, <1>3, <1>4

LEMMA MovingHead ==
    ASSUME NEW s, Moving(s)
    PROVE  /\ s # <<>> /\ Head(s).op \in {"move", "parent", "walk", "setParent"}
           /\ Ready(s) = {s}
<1>1. PICK i \in Nat, to \in Nat :
        \/ s = <<Into("move", i, to)>>
        \/ s = <<At("parent", to), Into("walk", i, to), Into("setParent", i, to)>>
        \/ s = <<At("parent", to), Into("setParent", i, to)>>
        \/ \E cur \in Ids : s = <<Into("walk", i, cur), Into("setParent", i, to)>>
        \/ s = <<Into("setParent", i, to)>>
  BY DEF Moving
<1>2. CASE s = <<Into("move", i, to)>>
  <2>1. s # <<>> /\ Head(s) = Into("move", i, to)
    BY <1>2, HeadTails
  <2> QED
    BY <2>1, FirstCall DEF Into, EachOps
<1>3. CASE s = <<At("parent", to), Into("walk", i, to), Into("setParent", i, to)>>
  <2>1. s # <<>> /\ Head(s) = At("parent", to)
    BY <1>3, HeadTails
  <2> QED
    BY <2>1, FirstCall DEF At, EachOps
<1>4. CASE s = <<At("parent", to), Into("setParent", i, to)>>
  <2>1. s # <<>> /\ Head(s) = At("parent", to)
    BY <1>4, HeadTails
  <2> QED
    BY <2>1, FirstCall DEF At, EachOps
<1>5. ASSUME NEW cur \in Ids, s = <<Into("walk", i, cur), Into("setParent", i, to)>>
      PROVE  /\ s # <<>> /\ Head(s).op \in {"move", "parent", "walk", "setParent"}
             /\ Ready(s) = {s}
  <2>1. s # <<>> /\ Head(s) = Into("walk", i, cur)
    BY <1>5, HeadTails
  <2> QED
    BY <2>1, FirstCall DEF Into, EachOps
<1>6. CASE s = <<Into("setParent", i, to)>>
  <2>1. s # <<>> /\ Head(s) = Into("setParent", i, to)
    BY <1>6, HeadTails
  <2> QED
    BY <2>1, FirstCall DEF Into, EachOps
<1> QED
  BY <1>1, <1>2, <1>3, <1>4, <1>5, <1>6

\* The calls of a move, as far as its write.
LEMMA MovingReads ==
    ASSUME IInv, NEW p \in Procs, NEW s \in Ready(todo[p]), NEW new, NEW rest, GoesOn(p, s, new, rest),
           Moving(todo[p]), Head(s).op # "setParent"
    PROVE  /\ UNCHANGED <<files, nextId>>
           /\ new \o rest = <<>> \/ Moving(new \o rest)
<1> DEFINE h == Head(s)
<1>0. PICK i \in Nat, to \in Nat :
        \/ todo[p] = <<Into("move", i, to)>>
        \/ todo[p] = <<At("parent", to), Into("walk", i, to), Into("setParent", i, to)>>
        \/ todo[p] = <<At("parent", to), Into("setParent", i, to)>> /\ NotFolder(i)
        \/ \E cur \in Ids : /\ todo[p] = <<Into("walk", i, cur), Into("setParent", i, to)>>
                            /\ Climbing(i, to, cur)
        \/ todo[p] = <<Into("setParent", i, to)>> /\ (Clear(i, to) \/ NotFolder(i))
  BY DEF Moving
<1>1. s = todo[p] /\ Tail(s) \in Seq(Frame)
  BY MovingHead, CallTail DEF Calls
<1>2. h.op \in {"move", "parent", "walk"}
  BY <1>1, MovingHead
<1>3. UNCHANGED <<files, nextId>>
  BY <1>2 DEF GoesOn, Effect, FilesEffect, data
<1>4. (new = <<>> /\ rest = <<>>) \/ (Follows(p, h, new) /\ rest = IF h.op = "move" THEN <<>> ELSE Tail(s))
  BY <1>2 DEF GoesOn, First
<1>5. CASE new = <<>> /\ rest = <<>>
  BY <1>3, <1>5, EmptyConcat
<1>6. CASE Follows(p, h, new) /\ rest = IF h.op = "move" THEN <<>> ELSE Tail(s)
  <2>1. CASE todo[p] = <<Into("move", i, to)>>
    <3>1. h.op = "move" /\ h.id = i /\ h.to = to
      BY <1>1, <2>1, HeadTails DEF Into
    <3>2. i \in Live(files) /\ new = PlaceChecks(i, to) \o <<Into("setParent", i, to)>> /\ rest = <<>>
      BY <1>6, <3>1 DEF Follows, FollowsPlace, FollowsTrash, FollowsDelete, Plain
    <3>3. i \in DOMAIN files /\ i \in Ids \ {0}
      BY <3>2, IdFacts DEF Live
    <3>4. \/ new = <<Into("setParent", i, to)>> /\ to = Root
          \/ new = <<At("parent", to), Into("walk", i, to), Into("setParent", i, to)>>
          \/ new = <<At("parent", to), Into("setParent", i, to)>> /\ ~IsFolder(files[i])
      BY <3>2, PlaceChecksIs
    <3>5. new \o rest = new
      BY <3>2, EmptyCalls DEF GoesOn
    <3>6. to = Root => Clear(i, to)
      <4>1. {0} \in SUBSET Ids /\ i \notin {0} /\ {0} \cap DOMAIN files = {}
        BY <3>3, IdFacts
      <4> QED
        BY <4>1 DEF Clear, Root
    <3>7. Moving(new)
      BY <3>3, <3>4, <3>6 DEF Moving, NotFolder
    <3> QED
      BY <1>3, <3>5, <3>7
  <2>3. CASE todo[p] = <<At("parent", to), Into("walk", i, to), Into("setParent", i, to)>>
    <3> DEFINE u == <<Into("walk", i, to), Into("setParent", i, to)>>
    <3>1. Tail(todo[p]) = u /\ Head(todo[p]) = At("parent", to)
      BY <2>3, HeadTails
    <3>2. h.op = "parent" /\ h.id = to
      BY <1>1, <3>1 DEF At
    <3>3. Accepts(to) /\ new = <<>> /\ rest = u
      BY <1>1, <1>6, <3>1, <3>2 DEF Follows, FollowsPlace, FollowsTrash, FollowsDelete, Plain
    <3>4. u \in Seq(Frame) /\ to \in Ids
      BY <1>1, <3>1, <3>3, IdFacts DEF Accepts, Live
    <3>5. Climbing(i, to, to)
      <4>1. {} \in SUBSET Ids
        OBVIOUS
      <4> QED
        BY <4>1 DEF Climbing
    <3>6. Moving(u)
      BY <3>4, <3>5 DEF Moving
    <3> QED
      BY <1>3, <3>3, <3>4, <3>6, EmptyCalls
  <2>4. CASE todo[p] = <<At("parent", to), Into("setParent", i, to)>> /\ NotFolder(i)
    <3> DEFINE u == <<Into("setParent", i, to)>>
    <3>1. Tail(todo[p]) = u /\ Head(todo[p]) = At("parent", to)
      BY <2>4, HeadTails
    <3>2. h.op = "parent" /\ h.id = to
      BY <1>1, <3>1 DEF At
    <3>3. new = <<>> /\ rest = u
      BY <1>1, <1>6, <3>1, <3>2 DEF Follows, FollowsPlace, FollowsTrash, FollowsDelete, Plain
    <3>4. u \in Seq(Frame)
      BY <1>1, <3>1
    <3>5. Moving(u)
      BY <2>4 DEF Moving
    <3> QED
      BY <1>3, <3>3, <3>4, <3>5, EmptyCalls
  <2>5. ASSUME NEW cur \in Ids, todo[p] = <<Into("walk", i, cur), Into("setParent", i, to)>>,
               Climbing(i, to, cur)
        PROVE  Moving(new \o rest)
    <3>1. h.op = "walk" /\ h.id = i /\ h.to = cur /\ Tail(s) = <<Into("setParent", i, to)>>
      BY <1>1, <2>5, HeadTails DEF Into
    <3>2. cur # i /\ new = WalkUp(i, cur) /\ rest = <<Into("setParent", i, to)>>
      BY <1>6, <3>1 DEF Follows, FollowsPlace, FollowsTrash, FollowsDelete, Plain
    <3>3. PICK U \in SUBSET Ids :
            /\ (to \in U \/ to = cur) /\ i \notin U
            /\ \A j \in U \cap DOMAIN files :
                 files[j].parent \in U \cup {cur} \/ files[j].parent \notin DOMAIN files
      BY <2>5 DEF Climbing
    <3> DEFINE V == U \cup {cur}
    <3>4. V \in SUBSET Ids /\ to \in V /\ i \notin V
      BY <3>2, <3>3
    <3>5. CASE cur \in DOMAIN files /\ files[cur].parent # Root
      <4>1. new = <<Into("walk", i, files[cur].parent)>>
        BY <3>2, <3>5 DEF WalkUp
      <4>2. new \o rest = <<Into("walk", i, files[cur].parent), Into("setParent", i, to)>>
        BY <3>2, <4>1, PairConcat
      <4>3. files[cur].parent \in Ids
        BY <3>5, IdFacts
      <4>4. \A j \in V \cap DOMAIN files :
              files[j].parent \in V \cup {files[cur].parent} \/ files[j].parent \notin DOMAIN files
        BY <3>3
      <4>5. Climbing(i, to, files[cur].parent)
        BY <3>4, <4>4 DEF Climbing
      <4> QED
        BY <4>2, <4>3, <4>5 DEF Moving
    <3>6. CASE cur \notin DOMAIN files \/ files[cur].parent = Root
      <4>1. new = <<>>
        BY <3>2, <3>6 DEF WalkUp
      <4>2. new \o rest = <<Into("setParent", i, to)>>
        BY <3>2, <4>1
      <4>3. \A j \in V \cap DOMAIN files : files[j].parent \in V \/ files[j].parent \notin DOMAIN files
        BY <3>3, <3>6, IdFacts DEF Root
      <4>4. Clear(i, to)
        BY <3>4, <4>3 DEF Clear
      <4> QED
        BY <4>2, <4>4 DEF Moving
    <3> QED
      BY <3>5, <3>6
  <2>6. todo[p] # <<Into("setParent", i, to)>>
    BY <1>1, HeadTails DEF Into
  <2> QED
    BY <1>0, <1>3, <2>1, <2>3, <2>4, <2>5, <2>6
<1> QED
  BY <1>4, <1>5, <1>6

\* The write of a move, after which nothing is left of it.
LEMMA MovingWrites ==
    ASSUME IInv, NEW p \in Procs, NEW s \in Ready(todo[p]), NEW new, NEW rest, GoesOn(p, s, new, rest),
           Moving(todo[p]), NoCycle, Head(s).op = "setParent"
    PROVE  NoCycle' /\ new \o rest = <<>>
<1> DEFINE h == Head(s)
<1>1. PICK i \in Nat, to \in Nat :
        \/ todo[p] = <<Into("move", i, to)>>
        \/ todo[p] = <<At("parent", to), Into("walk", i, to), Into("setParent", i, to)>>
        \/ todo[p] = <<At("parent", to), Into("setParent", i, to)>> /\ NotFolder(i)
        \/ \E cur \in Ids : /\ todo[p] = <<Into("walk", i, cur), Into("setParent", i, to)>>
                            /\ Climbing(i, to, cur)
        \/ todo[p] = <<Into("setParent", i, to)>> /\ (Clear(i, to) \/ NotFolder(i))
  BY DEF Moving
<1>2. s = todo[p]
  BY MovingHead
<1>3. s = <<Into("setParent", i, to)>> /\ (Clear(i, to) \/ NotFolder(i))
  <2>1. \A j, k : /\ Head(<<Into("move", j, k)>>).op = "move"
                 /\ Head(<<At("parent", k), Into("walk", i, to), Into("setParent", i, to)>>).op = "parent"
                 /\ Head(<<At("parent", k), Into("setParent", i, to)>>).op = "parent"
                 /\ Head(<<Into("walk", j, k), Into("setParent", i, to)>>).op = "walk"
    BY HeadTails DEF At, Into
  <2> QED
    BY <1>1, <1>2, <2>1
<1>4. h.id = i /\ h.to = to /\ Tail(s) = <<>>
  BY <1>3, HeadTails DEF Into
<1>5. to \in Safe
  BY <1>4, CallFacts DEF Calls, PlaceOf
<1>6. CASE new = <<>> /\ rest = <<>> /\ UNCHANGED <<data, bounds>>
  BY <1>6, EmptyConcat DEF data, NoCycle
<1>7. CASE Follows(p, h, new) /\ Effect(h) /\ rest = Tail(s)
  <2>1. new = <<>>
    BY <1>7 DEF Follows, FollowsPlace, FollowsTrash, FollowsDelete
  <2>2. SetDoc(i, [files[i] EXCEPT !.parent = to])
    BY <1>4, <1>7 DEF Effect, FilesEffect
  <2> QED
    BY <1>3, <1>4, <1>5, <1>7, <2>1, <2>2, EmptyConcat, SetParentAcyclic
<1> QED
  BY <1>6, <1>7 DEF GoesOn, First

LEMMA StillClosed == \A op \in StillOps : MoreOps(op) \subseteq StillOps
BY DEF StillOps, MoreOps, AllOps, AtOps, DocOps, PlaceOps, EachOps

LEMMA StillKinds ==
    ASSUME NEW kind \in Kinds \ {"move"}
    PROVE  OpsOf[kind] \subseteq StillOps
<1>1. CASE kind = "trash"
  BY <1>1 DEF OpsOf, StillOps, AllOps, AtOps, EachOps
<1>2. CASE kind = "restore"
  BY <1>2 DEF OpsOf, StillOps, AllOps, AtOps, DocOps, EachOps
<1>3. CASE kind = "delete"
  BY <1>3 DEF OpsOf, StillOps, AllOps, AtOps, EachOps
<1>4. CASE kind = "purge"
  BY <1>4 DEF OpsOf, StillOps, AllOps, AtOps, EachOps
<1>5. CASE kind = "copy"
  BY <1>5 DEF OpsOf, StillOps, AllOps, AtOps, DocOps, PlaceOps, EachOps
<1>6. CASE kind = "mkdir"
  BY <1>6 DEF OpsOf, StillOps, AllOps, AtOps
<1>7. CASE kind = "upload"
  BY <1>7 DEF OpsOf, StillOps, AllOps, AtOps
<1>8. CASE kind \in {"init", "complete"}
  BY <1>8 DEF OpsOf, StillOps, AllOps, AtOps
<1> QED
  BY <1>1, <1>2, <1>3, <1>4, <1>5, <1>6, <1>7, <1>8 DEF Kinds

LEMMA FramesOfMonotone ==
    ASSUME NEW O, NEW P, O \subseteq P
    PROVE  Seq(FramesOf(O)) \subseteq Seq(FramesOf(P))
<1>1. FramesOf(O) \subseteq FramesOf(P)
  BY DEF FramesOf
<1> QED
  BY <1>1

\* Only a client that may move is on its way to a setParent.
LEMMA MoversMayMove ==
    ASSUME IInv, OneRequest, NEW c \in Clients, todo[c] \notin Seq(FramesOf(StillOps))
    PROVE  "move" \in may[c]
<1>1. todo[c] # <<>>
  BY NoFrames
<1>2. PICK kind \in may[c] : todo[c] \in Seq(FramesOf(OpsOf[kind]))
  BY <1>1 DEF OneRequest
<1>3. kind \in Kinds
  BY MayKinds
<1>4. kind = "move"
  BY <1>2, <1>3, StillKinds, FramesOfMonotone
<1> QED
  BY <1>4

\* A process other than the client that moves.
LEMMA StillStep ==
    ASSUME IInv, IInv', NEW p \in Procs, Step(p) \/ WorkerStep(p), todo[p] \in Seq(FramesOf(StillOps))
    PROVE  ParentsStay /\ todo'[p] \in Seq(FramesOf(StillOps))
<1>1. todo'[p] \in Seq(FramesOf(StillOps))
  BY StillClosed, OpsStep
<1>2. PICK s \in Ready(todo[p]) : \E new : \E rest : GoesOn(p, s, new, rest)
  BY StepShape
<1>3. PICK new, rest : GoesOn(p, s, new, rest)
  BY <1>2
<1>4. Head(s).op # "setParent"
  <2>1. s \in Seq(FramesOf(StillOps))
    BY StillClosed, OpsReady
  <2>2. s # <<>>
    BY CallTail DEF Calls
  <2>3. Head(s) \in FramesOf(StillOps)
    BY <2>1, <2>2
  <2> QED
    BY <2>3 DEF FramesOf, StillOps
<1>5. CASE UNCHANGED <<data, bounds>>
  BY <1>1, <1>5, IdFacts DEF data, ParentsStay
<1>6. CASE Effect(Head(s))
  BY <1>1, <1>4, <1>6, EffectParents DEF Effect
<1> QED
  BY <1>1, <1>3, <1>5, <1>6 DEF GoesOn

\* What other clients found out stays true while no document is moved.
LEMMA MovingStays ==
    ASSUME IInv, ParentsStay, NEW s, Moving(s)
    PROVE  Moving(s)'
<1>1. PICK i \in Nat, to \in Nat :
        \/ s = <<Into("move", i, to)>>
        \/ s = <<At("parent", to), Into("walk", i, to), Into("setParent", i, to)>>
        \/ s = <<At("parent", to), Into("setParent", i, to)>> /\ NotFolder(i)
        \/ \E cur \in Ids : s = <<Into("walk", i, cur), Into("setParent", i, to)>> /\ Climbing(i, to, cur)
        \/ s = <<Into("setParent", i, to)>> /\ (Clear(i, to) \/ NotFolder(i))
  BY DEF Moving
<1>2. /\ NotFolder(i) => NotFolder(i)'
      /\ Clear(i, to) => Clear(i, to)'
      /\ \A cur \in Ids : cur \in Ids' /\ (Climbing(i, to, cur) => Climbing(i, to, cur)')
  BY StayKeeps
<1>3. CASE s = <<Into("move", i, to)>>
  BY <1>3 DEF Moving
<1>4. CASE s = <<At("parent", to), Into("walk", i, to), Into("setParent", i, to)>>
  BY <1>4 DEF Moving
<1>5. CASE s = <<At("parent", to), Into("setParent", i, to)>> /\ NotFolder(i)
  BY <1>2, <1>5 DEF Moving
<1>6. CASE \E cur \in Ids : s = <<Into("walk", i, cur), Into("setParent", i, to)>> /\ Climbing(i, to, cur)
  BY <1>2, <1>6 DEF Moving
<1>7. CASE s = <<Into("setParent", i, to)>> /\ (Clear(i, to) \/ NotFolder(i))
  BY <1>2, <1>7 DEF Moving
<1> QED
  BY <1>1, <1>3, <1>4, <1>5, <1>6, <1>7

LEMMA OthersStay ==
    ASSUME IInv, MovesOK, ParentsStay, NEW p,
           \A q \in Procs \ {p} : todo'[q] = todo[q],
           p \in Clients => todo'[p] \in Seq(FramesOf(StillOps)) \/ Moving(todo[p])'
    PROVE  MovesOK'
<1> SUFFICES ASSUME NEW c \in Clients
             PROVE  todo'[c] \in Seq(FramesOf(StillOps)) \/ Moving(todo[c])'
  BY DEF MovesOK, FramesOf, Frame, Kid, Doc
<1>1. CASE c = p
  BY <1>1
<1>2. CASE c # p
  <2>0. PICK t : t = todo[c]
    OBVIOUS
  <2>1. t \in Seq(FramesOf(StillOps)) \/ Moving(t)
    BY <2>0 DEF MovesOK
  <2>2. todo'[c] = t
    BY <1>2, <2>0 DEF Procs
  <2>3. Moving(t) => Moving(t)'
    BY MovingStays
  <2>4. Moving(t)' => Moving(todo[c])'
    BY <2>2
  <2> QED
    BY <2>1, <2>2, <2>3, <2>4
<1> QED
  BY <1>1, <1>2

LEMMA MoverStep ==
    ASSUME IInv, IInv', OneRequest, OneMover, NoCycle, MovesOK,
           NEW p \in Procs, Step(p) \/ WorkerStep(p), p \in Clients, Moving(todo[p])
    PROVE  NoCycle' /\ MovesOK'
<1>1. PICK s \in Ready(todo[p]) : \E new : \E rest : GoesOn(p, s, new, rest)
  BY StepShape
<1>2. PICK new, rest : GoesOn(p, s, new, rest)
  BY <1>1
<1>3. todo' = [todo EXCEPT ![p] = new \o rest] /\ todo \in [Procs -> Seq(Frame)]
  BY <1>2 DEF GoesOn, Goto, IInv, TypeOK
<1>4. /\ todo'[p] = new \o rest
      /\ \A q \in Procs \ {p} : todo'[q] = todo[q]
  BY <1>3
<1>5. CASE Head(s).op # "setParent"
  <2>1. UNCHANGED <<files, nextId>> /\ (new \o rest = <<>> \/ Moving(new \o rest))
    BY <1>2, <1>5, MovingReads
  <2>2. ParentsStay
    BY <2>1, IdFacts DEF ParentsStay
  <2>3. NoCycle'
    BY <2>2, StayKeeps
  <2>4. PICK t : t = new \o rest
    OBVIOUS
  <2>5. t \in Seq(FramesOf(StillOps)) \/ Moving(t)'
    BY <2>1, <2>2, <2>4, NoFrames, MovingStays
  <2>6. todo'[p] \in Seq(FramesOf(StillOps)) \/ Moving(todo[p])'
    BY <1>4, <2>4, <2>5
  <2> QED
    BY <1>4, <2>2, <2>3, <2>6, OthersStay
<1>6. CASE Head(s).op = "setParent"
  <2>1. NoCycle' /\ todo'[p] = <<>>
    BY <1>2, <1>4, <1>6, MovingWrites
  <2>2. todo[p] \notin Seq(FramesOf(StillOps))
    <3>1. s = todo[p] /\ s # <<>>
      BY MovingHead
    <3> QED
      BY <1>6, <3>1 DEF FramesOf, StillOps
  <2>3. \A c \in Clients \ {p} : todo[c] \in Seq(FramesOf(StillOps))
    BY <2>2, MoversMayMove DEF OneMover
  <2> QED
    BY <1>4, <2>1, <2>3, NoFrames DEF MovesOK, Procs, FramesOf, Frame, Kid, Doc
<1> QED
  BY <1>5, <1>6

LEMMA CycleInit == Init => CycleInv
BY NoFrames DEF Init, CycleInv, NoCycle, TreeClosed, MovesOK, Procs

\* A step that leaves the documents where they are and takes nothing up.
LEMMA CycleStays ==
    ASSUME IInv, NoCycle, MovesOK, ParentsStay, NEW p,
           \A q \in Procs \ {p} : todo'[q] = todo[q],
           p \in Clients => todo'[p] \in Seq(FramesOf(StillOps)) \/ Moving(todo[p])'
    PROVE  NoCycle' /\ MovesOK'
BY StayKeeps, OthersStay

LEMMA CycleNext ==
    ASSUME IInv, IInv', OneRequest, CycleInv, [Next]_vars
    PROVE  CycleInv'
<1>1. may' = may
  <2>1. ASSUME NEW p \in Procs, Step(p) \/ WorkerStep(p) PROVE may' = may
    <3>1. PICK s \in Ready(todo[p]) : \E new : \E rest : GoesOn(p, s, new, rest)
      BY <2>1, StepShape
    <3> QED
      BY <3>1 DEF GoesOn, Effect, bounds
  <2> QED
    BY <2>1 DEF Next, Begin, Take, Expire, Fail, Restart, Finished, vars, bounds, Procs
<1> SUFFICES ASSUME OneMover, NoCycle, MovesOK PROVE NoCycle' /\ MovesOK'
  BY <1>1 DEF CycleInv, OneMover
<1>2. UNCHANGED <<files, nextId>> => ParentsStay
  BY IdFacts DEF ParentsStay
<1>3. ASSUME NEW c \in Clients, Begin(c) PROVE NoCycle' /\ MovesOK'
  <2>1. PICK kind \in may[c] : \E s \in Requests[kind] : Goto(c, s)
    BY <1>3 DEF Begin
  <2>2. PICK s \in Requests[kind] : Goto(c, s)
    BY <2>1
  <2>3. kind \in Kinds /\ UNCHANGED <<files, nextId>>
    BY <1>3, MayKinds DEF Begin, data
  <2>4. /\ \A q \in Procs \ {c} : todo'[q] = todo[q]
        /\ todo'[c] = s /\ s \in Seq(Frame)
    BY <2>2 DEF Goto, IInv, TypeOK, Procs
  <2>5. CASE kind = "move"
    <3>1. PICK i \in 1 .. (nextId - 1), to \in {Root} \cup DOMAIN files : s = <<Into("move", i, to)>>
      BY <2>2, <2>5 DEF Requests
    <3>2. i \in Nat /\ to \in Nat
      BY <3>1, IdFacts DEF Root
    <3>3. Moving(todo[c])'
      BY <2>4, <3>1, <3>2 DEF Moving
    <3> QED
      BY <1>2, <2>3, <2>4, <3>3, CycleStays
  <2>6. CASE kind # "move"
    <3>1. ASSUME NEW f \in Frame, f \in FirstMade(kind) PROVE f \in FramesOf(StillOps)
      BY <2>3, <2>6, <3>1, FirstOps, StillKinds DEF FramesOf
    <3>2. todo'[c] \in Seq(FramesOf(StillOps))
      BY <2>2, <2>3, <3>1, BeginIn DEF IInv, TypeOK
    <3> QED
      BY <1>2, <2>3, <2>4, <3>2, CycleStays
  <2> QED
    BY <2>5, <2>6
<1>4. ASSUME NEW p \in Procs, Step(p) \/ WorkerStep(p), p \in Clients \/ todo[p] \in Seq(FramesOf(WorkerOps))
      PROVE  NoCycle' /\ MovesOK'
  <2>1. CASE todo[p] \in Seq(FramesOf(StillOps))
    <3>1. ParentsStay /\ todo'[p] \in Seq(FramesOf(StillOps))
      BY <1>4, <2>1, StillStep
    <3>2. \A q \in Procs \ {p} : todo'[q] = todo[q]
      BY <1>4, StepOfOne
    <3> QED
      BY <3>1, <3>2, CycleStays
  <2>2. CASE p \in Clients /\ Moving(todo[p])
    BY <1>4, <2>2, MoverStep
  <2>3. todo[p] \in Seq(FramesOf(WorkerOps)) => todo[p] \in Seq(FramesOf(StillOps))
    <3>1. WorkerOps \subseteq StillOps
      BY DEF WorkerOps, StillOps, AllOps, AtOps
    <3> QED
      BY <3>1, FramesOfMonotone
  <2> QED
    BY <1>4, <2>1, <2>2, <2>3 DEF MovesOK
<1>5. ASSUME NEW c \in Clients, Step(c) PROVE NoCycle' /\ MovesOK'
  BY <1>4, <1>5 DEF Procs
<1>6. ASSUME NEW w \in Workers, WorkerStep(w) PROVE NoCycle' /\ MovesOK'
  BY <1>4, <1>6 DEF Procs, OneRequest
<1>7. ASSUME NEW w \in Workers, Take(w) PROVE NoCycle' /\ MovesOK'
  <2>1. /\ \A q \in Procs \ {w} : todo'[q] = todo[q]
        /\ UNCHANGED <<files, nextId>> /\ w \notin Clients
    BY <1>7, ProcsAssumption DEF Take, Goto, IInv, TypeOK, Procs
  <2> QED
    BY <1>2, <2>1, CycleStays
<1>8. ASSUME NEW i \in DOMAIN files, Expire(i) PROVE NoCycle' /\ MovesOK'
  <2>1. /\ files' = [j \in DOMAIN files |-> IF j = i THEN [files[i] EXCEPT !.trash = "expired"] ELSE files[j]]
        /\ UNCHANGED <<nextId, todo>>
    BY <1>8 DEF Expire, SetDoc
  <2>2. files[i] \in Doc
    BY DEF IInv, TypeOK
  <2>3. ParentsStay
    BY <2>1, <2>2, IdFacts DEF ParentsStay, Doc
  <2>4. PICK w : w \notin Clients
    BY NoSetContainsEverything
  <2> QED
    BY <2>1, <2>3, <2>4, CycleStays
<1>9. ASSUME NEW p \in Procs, Fail(p) PROVE NoCycle' /\ MovesOK'
  <2>1. /\ todo'[p] = <<>> /\ \A q \in Procs \ {p} : todo'[q] = todo[q]
        /\ UNCHANGED <<files, nextId>>
    BY <1>9 DEF Fail, Abort, Goto, IInv, TypeOK, data
  <2> QED
    BY <1>2, <2>1, NoFrames, CycleStays
<1>10. CASE Restart
  BY <1>10, NoFrames DEF Restart, NoCycle, MovesOK, Procs, FramesOf, Frame, Kid, Doc
<1>11. CASE UNCHANGED vars
  <2>1. UNCHANGED <<files, nextId, todo>>
    BY <1>11 DEF vars, data
  <2>2. PICK w : w \notin Clients
    BY NoSetContainsEverything
  <2> QED
    BY <1>2, <2>1, <2>2, CycleStays
<1> QED
  BY <1>3, <1>5, <1>6, <1>7, <1>8, <1>9, <1>10, <1>11 DEF Next, Finished

\* At every moment, also after a crash, no folder is its own ancestor, if at
\* most one client moves documents and whatever the others do: the loop of
\* move_file over the ancestors of the destination (file_service.py:88-92)
\* reads one folder per await, and trash, restore, deletions, copies and
\* uploads running in between do not change an answer it has had.
THEOREM MovesCloseNoCycle == Spec => [](OneMover => NoCycle)
<1>1. Init => IInv /\ OneRequest /\ CycleInv
  BY InitHolds, OneRequestInit, CycleInit
<1>2. IInv /\ OneRequest /\ CycleInv /\ [Next]_vars => (IInv /\ OneRequest /\ CycleInv)'
  BY NextHolds, OneRequestNext, CycleNext
<1>3. CycleInv => (OneMover => NoCycle)
  BY DEF CycleInv
<1> QED
  BY <1>1, <1>2, <1>3, PTL DEF Spec

(***************************************************************************)
(* Nothing is lost.                                                        *)
(***************************************************************************)
Deleters == {"delete", "purge"}

Placers == {"move", "copy", "mkdir", "upload", "complete"}

\* No client deletes or purges while another one puts documents into folders.
Apart == \A c \in Clients : \A d \in Clients \ {c} : may[c] \cap Deleters = {} \/ may[d] \cap Placers = {}

\* The documents a call is going to remove, or to see removed, from library lib.
Gives(lib, f) ==
    IF f.op = "remove" THEN {f.id}
    ELSE IF f.op = "deleteChildren" THEN {f.id} \cup Children(lib, f.id)
    ELSE IF f.op = "deleteEach" THEN {k.id : k \in f.kids}
    ELSE {}

\* Before each call that removes a document come calls that remove what it holds.
Covered(lib, s) ==
    \A k \in 1 .. Len(s) :
        s[k].op = "remove" =>
            \A c \in Children(lib, s[k].id) : \E j \in 1 .. (k - 1) : c \in Gives(lib, s[j])

Removeless(s) == \A k \in 1 .. Len(s) : s[k].op # "remove"

LEMMA SeqOps ==
    ASSUME NEW F, NEW s \in Seq(F), \A f \in F : f.op # "remove"
    PROVE  Removeless(s)
BY DEF Removeless

LEMMA RemovelessCovered ==
    ASSUME NEW lib, NEW s, Removeless(s)
    PROVE  Covered(lib, s)
BY DEF Removeless, Covered

LEMMA CoveredThen ==
    ASSUME NEW lib, NEW F, NEW a \in Seq(F), NEW b \in Seq(F), Covered(lib, a), Removeless(b)
    PROVE  Covered(lib, a \o b)
<1> DEFINE t == a \o b
<1>1. /\ Len(t) = Len(a) + Len(b) /\ Len(a) \in Nat /\ Len(b) \in Nat
      /\ \A i \in 1 .. Len(a) + Len(b) : t[i] = IF i <= Len(a) THEN a[i] ELSE b[i - Len(a)]
  BY ConcatProperties
<1> HIDE DEF t
<1>2. ASSUME NEW k \in 1 .. Len(t), t[k].op = "remove", NEW c \in Children(lib, t[k].id)
      PROVE  \E j \in 1 .. (k - 1) : c \in Gives(lib, t[j])
  <2>1. k <= Len(a)
    <3>1. SUFFICES ASSUME ~(k <= Len(a)) PROVE FALSE
      OBVIOUS
    <3>2. t[k] = b[k - Len(a)] /\ k - Len(a) \in 1 .. Len(b)
      BY <1>1, <3>1
    <3> QED
      BY <1>2, <3>2 DEF Removeless
  <2>2. k \in 1 .. Len(a) /\ t[k] = a[k]
    BY <1>1, <2>1
  <2>3. PICK j \in 1 .. (k - 1) : c \in Gives(lib, a[j])
    BY <1>2, <2>2 DEF Covered
  <2>4. t[j] = a[j]
    BY <1>1, <2>2, <2>3
  <2> QED
    BY <2>3, <2>4
<1> QED
  BY <1>2 DEF Covered, t

\* What a document holds is removed, then the document.
LEMMA CoveredLast ==
    ASSUME NEW lib, NEW F, NEW a \in Seq(F), NEW x \in F, Removeless(a),
           x.op = "remove" => \A c \in Children(lib, x.id) : \E j \in 1 .. Len(a) : c \in Gives(lib, a[j])
    PROVE  Covered(lib, a \o <<x>>)
<1> DEFINE b == <<x>>
           t == a \o b
<1>1. b \in Seq(F) /\ Len(b) = 1 /\ b[1] = x
  OBVIOUS
<1>0. Len(a) \in Nat
  OBVIOUS
<1> HIDE DEF b
<1>2. /\ Len(t) = Len(a) + Len(b)
      /\ \A i \in 1 .. Len(a) + Len(b) : t[i] = IF i <= Len(a) THEN a[i] ELSE b[i - Len(a)]
  BY <1>1, ConcatProperties
<1> HIDE DEF t
<1>3. ASSUME NEW k \in 1 .. Len(t), t[k].op = "remove", NEW c \in Children(lib, t[k].id)
      PROVE  \E j \in 1 .. (k - 1) : c \in Gives(lib, t[j])
  <2>1. ~(k <= Len(a))
    <3>1. SUFFICES ASSUME k <= Len(a) PROVE FALSE
      OBVIOUS
    <3>2. t[k] = a[k] /\ k \in 1 .. Len(a)
      BY <1>0, <1>1, <1>2, <3>1
    <3> QED
      BY <1>3, <3>2 DEF Removeless
  <2>2. k = Len(a) + 1 /\ t[k] = x
    BY <1>0, <1>1, <1>2, <2>1
  <2>3. PICK j \in 1 .. Len(a) : c \in Gives(lib, a[j])
    BY <1>3, <2>2
  <2>4. t[j] = a[j] /\ j \in 1 .. (k - 1)
    BY <1>0, <1>1, <1>2, <2>2, <2>3
  <2> QED
    BY <2>3, <2>4
<1>4. Covered(lib, t)
  BY <1>3 DEF Covered
<1> QED
  BY <1>4 DEF t, b

\* A call is replaced by calls that remove as much, in a library that has
\* become smaller.
LEMMA CoveredReplaced ==
    ASSUME NEW A, NEW B, NEW F, NEW s \in Seq(F), s # <<>>, NEW new \in Seq(F), Covered(A, s), Covered(B, new),
           \A i : Children(B, i) \subseteq Children(A, i),
           \A c \in Gives(A, Head(s)) : c \in DOMAIN B => \E j \in 1 .. Len(new) : c \in Gives(B, new[j])
    PROVE  Covered(B, new \o Tail(s))
<1> DEFINE n == Len(new)
           r == Tail(s)
           t == new \o r
<1>1. r \in Seq(F) /\ Len(r) = Len(s) - 1 /\ \A i \in 1 .. Len(r) : r[i] = s[i + 1]
  BY HeadTailProperties
<1>2. Head(s) = s[1] /\ Len(s) \in Nat \ {0} /\ n \in Nat
  OBVIOUS
<1> HIDE DEF r
<1>3. Len(t) = n + Len(r) /\ \A i \in 1 .. n + Len(r) : t[i] = IF i <= n THEN new[i] ELSE r[i - n]
  BY <1>1, ConcatProperties
<1> HIDE DEF t, n
<1>4. ASSUME NEW k \in 1 .. Len(t), t[k].op = "remove", NEW c \in Children(B, t[k].id)
      PROVE  \E j \in 1 .. (k - 1) : c \in Gives(B, t[j])
  <2>1. CASE k <= n
    <3>1. k \in 1 .. Len(new) /\ t[k] = new[k]
      BY <1>1, <1>2, <1>3, <2>1 DEF n
    <3>2. PICK j \in 1 .. (k - 1) : c \in Gives(B, new[j])
      BY <1>4, <3>1 DEF Covered
    <3>3. t[j] = new[j]
      BY <1>1, <1>2, <1>3, <2>1, <3>2
    <3> QED
      BY <3>2, <3>3
  <2>2. CASE ~(k <= n)
    <3> DEFINE m == k - n + 1
    <3>1. m \in 2 .. Len(s) /\ t[k] = s[m]
      BY <1>1, <1>2, <1>3, <2>2
    <3>2. c \in Children(A, s[m].id) /\ c \in DOMAIN B
      BY <1>4, <3>1 DEF Children
    <3>3. PICK j \in 1 .. (m - 1) : c \in Gives(A, s[j])
      BY <1>4, <3>1, <3>2 DEF Covered
    <3>4. CASE j = 1
      <4>1. PICK i \in 1 .. Len(new) : c \in Gives(B, new[i])
        BY <1>2, <3>2, <3>3, <3>4
      <4>2. i \in 1 .. n /\ i \in 1 .. (k - 1) /\ i \in 1 .. n + Len(r)
        BY <1>1, <1>2, <1>3, <2>2, <4>1 DEF n
      <4>3. t[i] = new[i]
        BY <1>3, <4>2
      <4> QED
        BY <4>1, <4>2, <4>3
    <3>5. CASE j # 1
      <4> DEFINE i == j - 1 + n
      <4>3. /\ i \in 1 .. (k - 1) /\ i \in 1 .. n + Len(r)
            /\ ~(i <= n) /\ i - n = j - 1 /\ j - 1 \in 1 .. Len(r)
        BY <1>1, <1>2, <1>3, <2>2, <3>1, <3>3, <3>5
      <4> HIDE DEF i
      <4>1. t[i] = s[j]
        <5>1. t[i] = r[j - 1] /\ r[j - 1] = s[j - 1 + 1]
          BY <1>1, <1>3, <4>3
        <5> QED
          BY <3>3, <5>1
      <4>2. c \in Gives(B, s[j])
        <5>1. c \in Children(A, s[j].id) => c \in Children(B, s[j].id)
          <6>1. c \in Children(B, t[k].id) /\ c \in Children(A, t[k].id)
            BY <1>4, <3>1, <3>2
          <6> QED
            BY <6>1 DEF Children
        <5> QED
          BY <3>3, <5>1 DEF Gives
      <4> QED
        BY <4>1, <4>2, <4>3
    <3> QED
      BY <3>4, <3>5
  <2> QED
    BY <2>1, <2>2
<1> QED
  BY <1>4 DEF Covered, t, r

\* What was covered stays so while the library becomes smaller.
LEMMA CoveredStays ==
    ASSUME NEW A, NEW B, NEW s, Covered(A, s), \A i : Children(B, i) \subseteq Children(A, i)
    PROVE  Covered(B, s)
<1>1. ASSUME NEW k \in 1 .. Len(s), s[k].op = "remove", NEW c \in Children(B, s[k].id)
      PROVE  \E j \in 1 .. (k - 1) : c \in Gives(B, s[j])
  <2>1. PICK j \in 1 .. (k - 1) : c \in Gives(A, s[j])
    BY <1>1 DEF Covered
  <2>2. c \in Children(A, s[k].id) /\ (c \in Children(A, s[j].id) => c \in Children(B, s[j].id))
    BY <1>1 DEF Children
  <2> QED
    BY <2>1, <2>2 DEF Gives
<1> QED
  BY <1>1 DEF Covered

\* The calls that are going to put a document somewhere, and where.
DestOps == {"move", "copy", "setParent", "copyEach", "copyDoc", "copyQuota", "copyChildren", "quota", "dedup"}

Dest(f) == IF f.op \in DestOps THEN f.to ELSE IF f.op = "insert" THEN f.doc.parent ELSE Root

\* The deletion of a folder knows which of its content are files.
KidsKnown(f) == f.op = "deleteEach" => \A k \in f.kids : k.id # Root /\ (IsFolder(k.doc) \/ NotFolder(k.id))

\* The file of a chunked upload goes where it was asked for, unchecked.
Late(f) ==
    \/ f.op = "dedup" /\ f.to \in uploads
    \/ f.op = "insert" /\ ~IsFolder(f.doc) /\ f.doc.parent \in uploads

Good == {f \in Frame : (Late(f) \/ Dest(f) \in {Root} \cup DOMAIN files) /\ KidsKnown(f)}

\* The documents of which something is said: all but the files that may have
\* come late.
Standing == [i \in Firm(files, uploads) |-> files[i]]

\* What a call does to the documents, and to which of them stand.
TreeEffect(h) ==
    /\ FilesEffect(h)
    /\ uploads' = IF h.op = "openUpload" THEN uploads \cup {h.to} ELSE uploads

\* The inductive invariant of NothingLost.
LostOK == \A p \in Procs : todo[p] \in Seq(Good) /\ Covered(Standing, todo[p])

LostInv == Apart => NothingLost /\ LostOK

LEMMA StandingFacts ==
    /\ DOMAIN Standing \subseteq DOMAIN files
    /\ \A i \in DOMAIN Standing : Standing[i] = files[i]
    /\ \A i \in DOMAIN files : i \in DOMAIN Standing <=> IsFolder(files[i]) \/ files[i].parent \notin uploads
    /\ \A i : Children(Standing, i) = Children(files, i) \cap DOMAIN Standing
BY DEF Standing, Firm, Children

\* What stands was standing before, unless it was put where it is just now.
LEMMA StandingShrinks ==
    ASSUME uploads \subseteq uploads', DOMAIN files' \subseteq DOMAIN files,
           \A j \in DOMAIN files' : files'[j].parent = files[j].parent /\ files'[j].kind = files[j].kind
    PROVE  /\ DOMAIN Standing' \subseteq DOMAIN Standing
           /\ \A i : Children(Standing', i) \subseteq Children(Standing, i)
BY DEF Standing, Firm, Children, IsFolder

LEMMA SameStanding ==
    ASSUME files' = files, uploads' = uploads
    PROVE  Standing' = Standing
BY DEF Standing, Firm

\* No document that stays becomes a file or a folder, and ids are used once.
KindsStay ==
    /\ DOMAIN files' \subseteq DOMAIN files \cup {nextId}
    /\ \A j \in DOMAIN files \cap DOMAIN files' : files'[j].kind = files[j].kind
    /\ \/ nextId' = nextId /\ nextId \notin DOMAIN files'
       \/ nextId' = nextId + 1

LEMMA EffectKinds ==
    ASSUME IInv, NEW p \in Procs, NEW s \in Ready(todo[p]), FilesEffect(Head(s))
    PROVE  KindsStay
<1>1. CASE Head(s).op # "setParent"
  BY <1>1, EffectParents DEF ParentsStay, KindsStay
<1>2. CASE Head(s).op = "setParent"
  <2> DEFINE i == Head(s).id
             d == [files[i] EXCEPT !.parent = Head(s).to]
  <2>1. files' = [j \in DOMAIN files |-> IF j = i THEN d ELSE files[j]] /\ nextId' = nextId
    BY <1>2 DEF FilesEffect, SetDoc
  <2>2. i \in DOMAIN files => d.kind = files[i].kind
    BY DEF IInv, TypeOK, Doc
  <2> QED
    BY <2>1, <2>2, IdFacts DEF KindsStay
<1> QED
  BY <1>1, <1>2

LEMMA NotFolderStays ==
    ASSUME IInv, KindsStay, NEW i, NotFolder(i)
    PROVE  NotFolder(i)'
<1>1. nextId \notin Ids /\ Ids \subseteq Ids'
  BY IdFacts DEF KindsStay, Ids
<1> QED
  BY <1>1 DEF NotFolder, KindsStay, IsFolder

\* While nothing is removed, good frames stay good.
LEMMA GoodStays ==
    ASSUME IInv, KindsStay, uploads \subseteq uploads', DOMAIN files \subseteq DOMAIN files'
    PROVE  Good \subseteq Good'
<1> SUFFICES ASSUME NEW f \in Good PROVE f \in Good'
  OBVIOUS
<1>1. KidsKnown(f)'
  BY NotFolderStays DEF Good, KidsKnown
<1>2. Late(f) => Late(f)'
  BY DEF Late, IsFolder
<1> QED
  BY <1>1, <1>2 DEF Good, Dest, Frame, Kid, Doc

\* The frames of a request that puts nothing anywhere stay good in any case.
LEMMA IdleGoodStays ==
    ASSUME IInv, KindsStay, NEW O, O \cap (DestOps \cup {"insert"}) = {}
    PROVE  Good \cap FramesOf(O) \subseteq Good'
<1> SUFFICES ASSUME NEW f \in Good, f.op \in O PROVE f \in Good'
  BY DEF FramesOf
<1>1. KidsKnown(f)'
  BY NotFolderStays DEF Good, KidsKnown
<1>2. f \in Frame /\ f.op \notin DestOps \cup {"insert"}
  BY DEF Good
<1> QED
  BY <1>1, <1>2 DEF Good, Dest, Frame, Kid, Doc

\* Frames other than these are good wherever they come from.
LEMMA OtherGood ==
    ASSUME NEW f \in Frame, f.op \notin DestOps \cup {"insert", "deleteEach"}
    PROVE  f \in Good /\ f \in Good'
BY DEF Good, Dest, KidsKnown, Frame, Kid, Doc

LEMMA IterationGood ==
    ASSUME IInv, NEW l \in Good, l.op \in EachOps, NEW k \in l.kids, NEW f \in Frame,
           f \in IterationMade(l.op, k, l.to) \/ f = Loop(l.op, l.kids \ {k}, l.to)
    PROVE  f \in Good
<1>1. CASE l.op = "copyEach"
  <2>1. f.op \in {"copyEach", "copyDoc"} /\ f.to = l.to
    BY <1>1 DEF IterationMade, Loop, Copy
  <2> QED
    BY <1>1, <2>1 DEF Good, Dest, DestOps, Late, KidsKnown
<1>2. CASE l.op = "deleteEach" /\ f = Loop(l.op, l.kids \ {k}, l.to)
  BY <1>2 DEF Loop, Good, Dest, DestOps, KidsKnown
<1>3. CASE l.op # "copyEach" /\ ~(l.op = "deleteEach" /\ f = Loop(l.op, l.kids \ {k}, l.to))
  <2>1. f.op \in MoreOps(l.op)
    BY IterationOps
  <2>2. f.op \notin DestOps \cup {"insert", "deleteEach"}
    <3>1. CASE l.op = "deleteEach"
      BY <1>3, <3>1 DEF IterationMade, FileFrames, At, Add, About, DestOps
    <3>2. CASE l.op # "deleteEach"
      BY <1>3, <2>1, <3>2 DEF EachOps, MoreOps, DestOps
    <3> QED
      BY <3>1, <3>2
  <2> QED
    BY <2>2, OtherGood
<1> QED
  BY <1>1, <1>2, <1>3

LEMMA GoodMade ==
    ASSUME IInv, NEW p, NEW h \in Good, TreeEffect(h), NEW f \in Frame, f \in Made(p, h)
    PROVE  f \in Good'
<1>1. CASE h.op \in {"move", "copy", "copyQuota", "copyChildren", "quota", "dedup"} /\ ~Late(h)
  <2>1. files' = files
    BY <1>1 DEF TreeEffect, FilesEffect
  <2>2. h.to \in {Root} \cup DOMAIN files
    BY <1>1 DEF Good, Dest, DestOps
  <2>3. f.op \notin DestOps \cup {"insert", "deleteEach"} \/ (f.op # "deleteEach" /\ Dest(f) = h.to)
    <3>1. CASE h.op = "move"
      BY <3>1 DEF Made, At, Into, DestOps, Dest
    <3>2. CASE h.op = "copy"
      BY <3>2 DEF Made, At, Into, Of, Copy, DestOps, Dest
    <3>3. CASE h.op = "copyQuota"
      BY <3>3 DEF Made, Copy, Add, DestOps, Dest
    <3>4. CASE h.op = "copyChildren"
      BY <3>4 DEF Made, Loop, DestOps, Dest
    <3>5. CASE h.op = "quota"
      BY <3>5 DEF Made, New, DestOps, Dest
    <3>6. CASE h.op = "dedup"
      BY <3>6 DEF Made, Insert, NewDoc, DestOps, Dest
    <3> QED
      BY <1>1, <3>1, <3>2, <3>3, <3>4, <3>5, <3>6
  <2>4. CASE f.op # "deleteEach" /\ Dest(f) = h.to
    <3>1. KidsKnown(f)'
      BY <2>4 DEF KidsKnown
    <3> QED
      BY <2>1, <2>2, <2>4, <3>1 DEF Good, Dest, Frame, Kid, Doc
  <2> QED
    BY <2>3, <2>4, OtherGood
<1>2. CASE h.op = "copyDoc"
  <2>1. f = Into("copyChildren", h.id, nextId) /\ nextId \in DOMAIN files'
    BY <1>2 DEF Made, TreeEffect, FilesEffect, InsertDoc
  <2>2. KidsKnown(f)' /\ f.op \in DestOps /\ f.to = nextId
    BY <2>1 DEF KidsKnown, Into, DestOps
  <2> QED
    BY <2>1, <2>2 DEF Good, Dest, Frame, Kid, Doc
<1>3. CASE h.op = "deleteChildren"
  <2>1. files' = files /\ nextId' = nextId
    BY <1>3 DEF TreeEffect, FilesEffect
  <2>2. f = Loop("deleteEach", Fetch(Children(files, h.id)), Root) \/ f = At("remove", h.id)
    BY <1>3 DEF Made
  <2>3. CASE f = Loop("deleteEach", Fetch(Children(files, h.id)), Root)
    <3>1. \A k \in f.kids : k.id \in DOMAIN files /\ k.doc = files[k.id]
      BY <2>3 DEF Loop, Fetch, Children
    <3>2. \A k \in f.kids : k.id # Root /\ (IsFolder(k.doc) \/ NotFolder(k.id))
      BY <3>1, IdFacts DEF NotFolder, Root
    <3>3. KidsKnown(f)'
      BY <2>1, <3>2 DEF KidsKnown, NotFolder, Ids
    <3> QED
      BY <2>3, <3>3 DEF Good, Dest, DestOps, Loop, Frame, Kid, Doc
  <2>4. CASE f = At("remove", h.id)
    BY <2>4, OtherGood DEF At, DestOps
  <2> QED
    BY <2>2, <2>3, <2>4
<1>4. CASE h.op \notin {"move", "copy", "copyQuota", "copyChildren", "quota", "dedup", "copyDoc", "deleteChildren"}
  <2>1. f.op \in MoreOps(h.op) /\ h.op \in AllOps
    BY MadeOps, FrameOps DEF Good
  <2>2. f.op \notin DestOps \cup {"insert", "deleteEach"}
    <3>1. h.op \notin EachOps
      BY <1>4 DEF Made, EachOps
    <3> QED
      BY <1>4, <2>1, <3>1 DEF MoreOps, AllOps, AtOps, DocOps, PlaceOps, DestOps
  <2> QED
    BY <2>2, OtherGood
<1>5. CASE h.op = "dedup" /\ Late(h)
  <2>1. uploads' = uploads /\ h.to \in uploads /\ h.content \in Contents
    BY <1>5, FrameFields DEF TreeEffect, Late, Good
  <2>2. f.op = "insert" /\ f.doc.kind = h.content /\ f.doc.parent = h.to
    BY <1>5 DEF Made, Insert, NewDoc
  <2>3. Late(f)' /\ KidsKnown(f)'
    BY <2>1, <2>2, ContentsAssumption DEF Late, IsFolder, KidsKnown
  <2> QED
    BY <2>3 DEF Good, Frame, Kid, Doc
<1> QED
  BY <1>1, <1>2, <1>3, <1>4, <1>5 DEF Late

LEMMA PlacersOnly ==
    ASSUME NEW kind \in Kinds \ Placers
    PROVE  OpsOf[kind] \cap (DestOps \cup {"insert"}) = {}
<1>1. CASE kind = "trash"
  BY <1>1 DEF OpsOf, DestOps
<1>2. CASE kind = "restore"
  BY <1>2 DEF OpsOf, DestOps
<1>3. CASE kind = "delete"
  BY <1>3 DEF OpsOf, DestOps
<1>4. CASE kind = "purge"
  BY <1>4 DEF OpsOf, DestOps
<1>5. CASE kind = "init"
  BY <1>5 DEF OpsOf, DestOps
<1> QED
  BY <1>1, <1>2, <1>3, <1>4, <1>5 DEF Kinds, Placers

LEMMA DeletersOnly ==
    ASSUME NEW kind \in Kinds \ Deleters
    PROVE  "remove" \notin OpsOf[kind]
<1>1. CASE kind = "trash"
  BY <1>1 DEF OpsOf
<1>2. CASE kind = "restore"
  BY <1>2 DEF OpsOf
<1>3. CASE kind \in {"move", "mkdir"}
  BY <1>3 DEF OpsOf
<1>4. CASE kind \in {"copy", "upload"}
  BY <1>4 DEF OpsOf
<1>5. CASE kind \in {"init", "complete"}
  BY <1>5 DEF OpsOf
<1> QED
  BY <1>1, <1>2, <1>3, <1>4, <1>5 DEF Kinds, Deleters

GivesIn(lib, s, c) == \E j \in 1 .. Len(s) : c \in Gives(lib, s[j])

LEMMA GivesConcat ==
    ASSUME NEW lib, NEW F, NEW a \in Seq(F), NEW b \in Seq(F), NEW c, GivesIn(lib, a, c) \/ GivesIn(lib, b, c)
    PROVE  GivesIn(lib, a \o b, c)
<1> DEFINE t == a \o b
           m == Len(a)
           n == Len(b)
<1>1. m \in Nat /\ n \in Nat
  OBVIOUS
<1>2. Len(t) = m + n /\ \A i \in 1 .. m + n : t[i] = IF i <= m THEN a[i] ELSE b[i - m]
  BY ConcatProperties
<1> HIDE DEF t, m, n
<1>3. ASSUME NEW j \in 1 .. m, c \in Gives(lib, a[j]) PROVE GivesIn(lib, t, c)
  <2>1. j \in 1 .. Len(t) /\ t[j] = a[j]
    BY <1>1, <1>2
  <2> QED
    BY <1>3, <2>1 DEF GivesIn
<1>4. ASSUME NEW j \in 1 .. n, c \in Gives(lib, b[j]) PROVE GivesIn(lib, t, c)
  <2> DEFINE i == j + m
  <2>1. i \in 1 .. m + n /\ ~(i <= m) /\ i - m = j
    BY <1>1
  <2> HIDE DEF i
  <2>2. i \in 1 .. Len(t) /\ t[i] = b[j]
    BY <1>2, <2>1
  <2> QED
    BY <1>4, <2>2 DEF GivesIn
<1> QED
  BY <1>3, <1>4 DEF GivesIn, t, m, n

LEMMA GivesSingle ==
    ASSUME NEW lib, NEW x, NEW c \in Gives(lib, x)
    PROVE  GivesIn(lib, <<x>>, c)
<1> DEFINE s == <<x>>
<1>1. 1 \in 1 .. Len(s) /\ s[1] = x
  OBVIOUS
<1> HIDE DEF s
<1>2. GivesIn(lib, s, c)
  BY <1>1 DEF GivesIn
<1> QED
  BY <1>2 DEF s

LEMMA SeqWider ==
    ASSUME NEW A, NEW B, A \subseteq B, NEW s \in Seq(A)
    PROVE  s \in Seq(B)
OBVIOUS

LEMMA RemovelessParts ==
    /\ Removeless(<<>>)
    /\ \A x : x.op # "remove" => Removeless(<<x>>)
BY DEF Removeless

LEMMA EachRemoveless ==
    ASSUME NEW op \in EachOps, NEW kids, NEW to
    PROVE  Removeless(Each(op, kids, to))
<1>1. Each(op, kids, to) \in Seq({Loop(op, kids, to)}) /\ Loop(op, kids, to).op # "remove"
  BY EachMade DEF Loop, EachOps
<1> QED
  BY <1>1, SeqOps

\* The deletion of a file ends with its removal.
LEMMA DeleteFileShape ==
    ASSUME NEW i, NEW d
    PROVE  \E a \in Seq(FileFrames(i, d)) : Removeless(a) /\ DeleteFile(i, d) = a \o <<At("remove", i)>>
<1> DEFINE M == FileFrames(i, d)
           N == {f \in M : f.op # "remove"}
           a == IF IsLive(d) THEN <<Add(-Bytes(d))>> ELSE <<>>
           b == IF d.msg # NoMessage THEN <<About("countRefs", i, d.msg)>> ELSE <<>>
<1>1. Add(-Bytes(d)) \in N /\ (d.msg # NoMessage => About("countRefs", i, d.msg) \in N)
  BY DEF FileFrames, Add, About
<1> HIDE DEF M, N
<1>2. a \in Seq(N) /\ b \in Seq(N)
  BY <1>1, Optional
<1>3. DeleteFile(i, d) = a \o b \o <<At("remove", i)>>
  BY DEF DeleteFile
<1> HIDE DEF a, b
<1>4. a \o b \in Seq(N)
  BY <1>2, Concat
<1>5. Removeless(a \o b)
  <2>1. \A f \in N : f.op # "remove"
    BY DEF N
  <2> QED
    BY <1>4, <2>1, SeqOps
<1>6. a \o b \in Seq(M)
  <2>1. N \subseteq M
    BY DEF N
  <2> QED
    BY <1>4, <2>1
<1> QED
  BY <1>3, <1>5, <1>6 DEF M

\* A file holds nothing, nor does a document that is gone.
LEMMA FileHoldsNothing ==
    ASSUME IInv, NothingLost, NEW i, i # Root, NotFolder(i)
    PROVE  Children(Standing, i) = {}
BY DEF NotFolder, Children, NothingLost, Rooted, Standing

LEMMA DeleteFileCovered ==
    ASSUME IInv, NothingLost, NEW i, NEW d, i # Root, NotFolder(i)
    PROVE  /\ Covered(Standing, DeleteFile(i, d))
           /\ GivesIn(Standing, DeleteFile(i, d), i)
<1>1. PICK a \in Seq(FileFrames(i, d)) : Removeless(a) /\ DeleteFile(i, d) = a \o <<At("remove", i)>>
  BY DeleteFileShape
<1>2. At("remove", i) \in FileFrames(i, d) /\ At("remove", i).op = "remove" /\ At("remove", i).id = i
  BY DEF FileFrames, At
<1>3. Children(Standing, i) = {}
  BY FileHoldsNothing
<1> DEFINE F == FileFrames(i, d)
           x == At("remove", i)
<1>4. x \in F /\ a \in Seq(F) /\ <<x>> \in Seq(F)
  BY <1>2, Single
<1>5. i \in Gives(Standing, x)
  BY <1>2 DEF Gives
<1> HIDE DEF F, x
<1>6. Covered(Standing, a \o <<x>>)
  BY <1>1, <1>2, <1>3, <1>4, CoveredLast DEF x
<1>7. GivesIn(Standing, a \o <<x>>, i)
  BY <1>4, <1>5, GivesSingle, GivesConcat
<1> QED
  BY <1>1, <1>6, <1>7 DEF x

\* A loop takes its next document.
LEMMA CoveredReady ==
    ASSUME IInv, NothingLost, NEW s \in Seq(Good), Covered(Standing, s), NEW t \in Ready(s)
    PROVE  Covered(Standing, t)
<1>1. s # <<>> /\ (t = s \/ \E k : Takes(Head(s), k, Tail(s), t))
  BY ReadyShape
<1>2. Head(s) \in Good /\ Tail(s) \in Seq(Good)
  BY <1>1
<1>3. ASSUME NEW k, Takes(Head(s), k, Tail(s), t) PROVE Covered(Standing, t)
  <2> DEFINE l == Head(s)
             a == Iteration(l.op, k, l.to)
             b == Each(l.op, l.kids \ {k}, l.to)
             N == {Loop(l.op, l.kids \ {k}, l.to)}
             M == IterationMade(l.op, k, l.to) \cup N
             F == Good \cup M
             n == a \o b
  <2>1. l \in Good /\ k \in l.kids /\ l.op \in EachOps /\ t = a \o b \o Tail(s)
    BY <1>2, <1>3 DEF Takes
  <2>2. a \in Seq(M) /\ b \in Seq(M)
    <3>1. a \in Seq(IterationMade(l.op, k, l.to)) /\ b \in Seq(N)
      BY <2>1, IterationIn, LaterIn
    <3>2. IterationMade(l.op, k, l.to) \subseteq M /\ N \subseteq M
      OBVIOUS
    <3> HIDE DEF a, b, M, N
    <3>3. a \in Seq(M)
      BY <3>1, <3>2, SeqWider
    <3>4. b \in Seq(M)
      BY <3>1, <3>2, SeqWider
    <3> QED
      BY <3>3, <3>4
  <2>3. Removeless(b)
    BY <2>1, EachRemoveless
  <2>4. Covered(Standing, n) /\ \A c \in Gives(Standing, l) : GivesIn(Standing, n, c)
    <3>1. CASE l.op # "deleteEach"
      <4>1. \A f \in M : f.op # "remove"
        <5> SUFFICES ASSUME NEW f \in M PROVE f.op # "remove"
          OBVIOUS
        <5>1. f.op \in MoreOps(l.op)
          BY <2>1, IterationOps
        <5> QED
          BY <2>1, <3>1, <5>1 DEF EachOps, MoreOps
      <4>2. Removeless(n)
        <5> HIDE DEF a, b, M
        <5>1. n \in Seq(M)
          BY <2>2
        <5> HIDE DEF n
        <5> QED
          BY <4>1, <5>1, SeqOps
      <4>3. Gives(Standing, l) = {}
        BY <2>1, <3>1 DEF Gives, EachOps
      <4> QED
        BY <4>2, <4>3, RemovelessCovered
    <3>2. CASE l.op = "deleteEach"
      <4>1. Covered(Standing, a) /\ GivesIn(Standing, a, k.id)
        <5>1. CASE IsFolder(k.doc)
          <6>1. a = <<At("deleteChildren", k.id)>>
            BY <3>2, <5>1 DEF Iteration
          <6>2. At("deleteChildren", k.id).op = "deleteChildren" /\ k.id \in Gives(Standing, At("deleteChildren", k.id))
            BY DEF At, Gives
          <6> HIDE DEF a
          <6>3. Removeless(a)
            BY <6>1, <6>2, RemovelessParts
          <6> QED
            BY <6>1, <6>2, <6>3, RemovelessCovered, GivesSingle
        <5>2. CASE ~IsFolder(k.doc)
          <6>1. a = DeleteFile(k.id, k.doc)
            BY <3>2, <5>2 DEF Iteration
          <6>2. k.id # Root /\ NotFolder(k.id)
            BY <2>1, <3>2, <5>2 DEF Good, KidsKnown
          <6> HIDE DEF a
          <6> QED
            BY <6>1, <6>2, DeleteFileCovered
        <5> QED
          BY <5>1, <5>2
      <4>2. ASSUME NEW c \in Gives(Standing, l), c # k.id PROVE GivesIn(Standing, b, c)
        <5>1. PICK j \in l.kids : c = j.id /\ j # k
          BY <3>2, <4>2 DEF Gives
        <5>2. b = <<Loop(l.op, l.kids \ {k}, l.to)>>
          BY <5>1 DEF Each, Loop
        <5>3. c \in Gives(Standing, Loop(l.op, l.kids \ {k}, l.to))
          BY <3>2, <5>1 DEF Gives, Loop
        <5> HIDE DEF b
        <5> QED
          BY <5>2, <5>3, GivesSingle
      <4> HIDE DEF a, b, M, l
      <4>3. Covered(Standing, n)
        BY <2>2, <2>3, <4>1, CoveredThen
      <4>4. \A c \in Gives(Standing, l) : GivesIn(Standing, n, c)
        BY <2>2, <4>1, <4>2, GivesConcat
      <4> QED
        BY <4>3, <4>4
    <3> QED
      BY <3>1, <3>2
  <2>5. n \in Seq(F) /\ s \in Seq(F)
    <3>1. M \subseteq F /\ Good \subseteq F
      OBVIOUS
    <3> HIDE DEF a, b, M, F
    <3> QED
      BY <2>2, <3>1
  <2>6. t = n \o Tail(s)
    BY <2>1
  <2> HIDE DEF n, F
  <2>7. Covered(Standing, n \o Tail(s))
    BY <1>1, <2>4, <2>5, CoveredReplaced DEF GivesIn
  <2> QED
    BY <2>6, <2>7
<1> QED
  BY <1>1, <1>3

\* A call of a deletion: what comes after it removes what it would have.
LEMMA CoveredFollows ==
    ASSUME IInv, NothingLost, NEW kind \in Deleters, NEW p, NEW h \in Good, h.op \in OpsOf[kind],
           NEW new \in Seq(Made(p, h)), Follows(p, h, new), TreeEffect(h)
    PROVE  /\ Covered(Standing', new)
           /\ \A c \in Gives(Standing, h) : c \in DOMAIN Standing' => GivesIn(Standing', new, c)
           /\ \A i : Children(Standing', i) \subseteq Children(Standing, i)
<1>1. h.op \in {"purge", "purgeEach", "delete", "deleteEach", "deleteChildren", "countRefs", "deleteMsg",
                "remove", "add"}
  BY DEF Deleters, OpsOf
<1>2. h.op \notin EachOps
  BY <1>1 DEF Follows, FollowsPlace, FollowsTrash, FollowsDelete, EachOps, Plain
<1>0. uploads' = uploads
  BY <1>1 DEF TreeEffect
<1>3. CASE h.op = "remove"
  <2>1. new = <<>> /\ files' = [j \in DOMAIN files \ {h.id} |-> files[j]]
    BY <1>3 DEF Follows, FollowsPlace, FollowsTrash, FollowsDelete, TreeEffect, FilesEffect
  <2>2. Gives(Standing, h) = {h.id}
    BY <1>3 DEF Gives
  <2>3. /\ DOMAIN Standing' \subseteq DOMAIN files'
        /\ \A i : Children(Standing', i) \subseteq Children(Standing, i)
    BY <1>0, <2>1, StandingShrinks DEF Standing, Firm
  <2> QED
    BY <2>1, <2>2, <2>3, RemovelessParts, RemovelessCovered
<1>4. CASE h.op \in {"purge", "countRefs", "deleteMsg", "add"}
  <2>1. Removeless(new)
    <3>1. \A f \in Made(p, h) : f.op # "remove"
      <4> SUFFICES ASSUME NEW f \in Made(p, h) PROVE f.op # "remove"
        OBVIOUS
      <4>1. f.op \in MoreOps(h.op)
        BY MadeOps DEF Good
      <4> QED
        BY <1>4, <4>1 DEF MoreOps
    <3> QED
      BY <3>1, SeqOps
  <2>2. Standing' = Standing /\ Gives(Standing, h) = {}
    BY <1>0, <1>4, SameStanding DEF TreeEffect, FilesEffect, Gives
  <2> QED
    BY <2>1, <2>2, RemovelessCovered
<1>5. CASE h.op = "delete"
  <2>1. Standing' = Standing /\ Gives(Standing, h) = {}
    BY <1>0, <1>5, SameStanding DEF TreeEffect, FilesEffect, Gives
  <2>2. Covered(Standing, new)
    <3> DEFINE i == h.id
    <3>1. CASE i \notin DOMAIN files
      <4>1. new = <<>>
        BY <1>5, <3>1 DEF Follows, FollowsPlace, FollowsTrash, FollowsDelete, Plain
      <4> QED
        BY <4>1, RemovelessParts, RemovelessCovered
    <3>2. CASE i \in DOMAIN files /\ IsFolder(files[i])
      <4> DEFINE x == At("deleteChildren", i)
                 y == At("remove", i)
                 F == {x, y}
      <4>1. new = <<x, y>>
        BY <1>5, <3>2 DEF Follows, FollowsPlace, FollowsTrash, FollowsDelete, Plain
      <4>2. /\ x.op = "deleteChildren" /\ y.id = i
            /\ \A c \in Children(Standing, i) : c \in Gives(Standing, x)
        BY DEF At, Gives
      <4>3. x \in F /\ y \in F
        OBVIOUS
      <4> HIDE DEF x, y, F
      <4>4. <<x>> \in Seq(F) /\ Removeless(<<x>>)
        BY <4>2, <4>3, Single, RemovelessParts
      <4>5. \A c \in Children(Standing, y.id) : \E j \in 1 .. Len(<<x>>) : c \in Gives(Standing, <<x>>[j])
        BY <4>2, GivesSingle DEF GivesIn
      <4>6. Covered(Standing, <<x>> \o <<y>>)
        BY <4>3, <4>4, <4>5, CoveredLast
      <4> QED
        BY <4>1, <4>6, PairConcat
    <3>3. CASE i \in DOMAIN files /\ ~IsFolder(files[i])
      <4>1. new = DeleteFile(i, files[i])
        BY <1>5, <3>3 DEF Follows, FollowsPlace, FollowsTrash, FollowsDelete, Plain
      <4>2. i # Root /\ NotFolder(i)
        BY <3>3, IdFacts DEF NotFolder, Root
      <4> QED
        BY <4>1, <4>2, DeleteFileCovered
    <3> QED
      BY <3>1, <3>2, <3>3
  <2> QED
    BY <2>1, <2>2
<1>6. CASE h.op = "deleteChildren"
  <2> DEFINE i == h.id
             kids == Fetch(Children(files, i))
             x == Loop("deleteEach", kids, Root)
             y == At("remove", i)
             F == {x, y}
             a == Each("deleteEach", kids, Root)
  <2>1. Standing' = Standing /\ Gives(Standing, h) = {i} \cup Children(Standing, i)
    BY <1>0, <1>6, SameStanding DEF TreeEffect, FilesEffect, Gives
  <2>2. new = a \o <<y>>
    BY <1>6 DEF Follows, FollowsPlace, FollowsTrash, FollowsDelete, Plain, DeleteTree
  <2>3. y.id = i /\ y.op = "remove" /\ i \in Gives(Standing, y) /\ y \in F /\ x \in F
    BY DEF At, Gives
  <2>4. \A c \in Children(Standing, i) : GivesIn(Standing, a, c)
    <3> SUFFICES ASSUME NEW c \in Children(Standing, i) PROVE GivesIn(Standing, a, c)
      OBVIOUS
    <3>1. [id |-> c, doc |-> files[c]] \in kids
      BY StandingFacts DEF Fetch
    <3>2. a = <<x>>
      BY <3>1 DEF Each, Loop
    <3>3. c \in Gives(Standing, x)
      <4>1. Gives(Standing, x) = {k.id : k \in kids}
        BY DEF Gives, Loop
      <4> HIDE DEF x, kids
      <4> QED
        BY <3>1, <4>1
    <3> HIDE DEF a, x
    <3> QED
      BY <3>2, <3>3, GivesSingle
  <2>5. Removeless(a)
    BY EachRemoveless DEF EachOps
  <2>6. a \in Seq({x})
    BY EachMade DEF EachOps
  <2> HIDE DEF a, y, x
  <2>7. a \in Seq(F) /\ <<y>> \in Seq(F)
    BY <2>3, <2>6, Single
  <2> HIDE DEF F
  <2>8. Covered(Standing, a \o <<y>>)
    BY <2>3, <2>4, <2>5, <2>7, CoveredLast DEF GivesIn
  <2>9. \A c \in {i} \cup Children(Standing, i) : GivesIn(Standing, a \o <<y>>, c)
    <3>1. GivesIn(Standing, <<y>>, i)
      BY <2>3, GivesSingle
    <3> QED
      BY <2>4, <2>7, <3>1, GivesConcat
  <2> QED
    BY <2>1, <2>2, <2>8, <2>9
<1> QED
  BY <1>1, <1>2, <1>3, <1>4, <1>5, <1>6 DEF EachOps

\* The calls a process may make before its request is over.
LEMMA OpsOfProc ==
    ASSUME IInv, OneRequest, NEW p \in Procs
    PROVE  \E O : /\ todo[p] \in Seq(FramesOf(O)) /\ \A op \in O : MoreOps(op) \subseteq O
                  /\ \/ O \in {{}, WorkerOps}
                     \/ p \in Clients /\ \E kind \in may[p] : kind \in Kinds /\ O = OpsOf[kind]
<1>1. CASE p \in Clients /\ todo[p] # <<>>
  <2>1. PICK kind \in may[p] : todo[p] \in Seq(FramesOf(OpsOf[kind]))
    BY <1>1 DEF OneRequest
  <2>2. kind \in Kinds
    BY <1>1, MayKinds
  <2>3. \A op \in OpsOf[kind] : MoreOps(op) \subseteq OpsOf[kind]
    BY <2>2, OpsClosed
  <2> QED
    BY <1>1, <2>1, <2>2, <2>3
<1>2. CASE p \in Workers
  BY <1>2, WorkerOpsClosed DEF OneRequest
<1>3. CASE todo[p] = <<>>
  <2>1. todo[p] \in Seq(FramesOf({}))
    BY <1>3, NoFrames
  <2> QED
    BY <2>1
<1> QED
  BY <1>1, <1>2, <1>3 DEF Procs

\* A call that puts documents into folders that exist, or removes a document
\* that holds nothing, loses nothing.
LEMMA EffectLosesNothing ==
    ASSUME IInv, IInv', NothingLost, NEW h \in Good, TreeEffect(h),
           h.op = "remove" => Children(Standing, h.id) = {}
    PROVE  NothingLost'
<1> SUFFICES ASSUME NEW i \in DOMAIN Standing' PROVE files'[i].parent \in {Root} \cup DOMAIN files'
  BY DEF NothingLost, Rooted, IInv, Safe, Standing, Firm
<1>0. /\ i \in DOMAIN files' /\ (IsFolder(files'[i]) \/ files'[i].parent \notin uploads')
      /\ uploads \subseteq uploads'
  BY DEF Standing, Firm, TreeEffect
<1>1. \A j \in DOMAIN files : IsFolder(files[j]) \/ files[j].parent \notin uploads
                                => files[j].parent \in {Root} \cup DOMAIN files
  BY DEF NothingLost, Rooted, Firm
<1>2. CASE h.op \notin {"setParent", "mark", "unmark", "record", "remove", "insert", "copyDoc"}
  BY <1>0, <1>1, <1>2 DEF TreeEffect, FilesEffect
<1>3. CASE h.op \in {"setParent", "mark", "unmark", "record"}
  <2>1. PICK d : /\ SetDoc(h.id, d)
                 /\ h.id \in DOMAIN files =>
                      \/ d.parent \in {Root} \cup DOMAIN files
                      \/ d.parent = files[h.id].parent /\ d.kind = files[h.id].kind
    <3>1. h.id \in DOMAIN files => files[h.id] \in Doc
      BY DEF IInv, TypeOK
    <3>2. CASE h.op = "mark"
      <4> DEFINE d == [files[h.id] EXCEPT !.trash = "trashed"]
      <4>1. SetDoc(h.id, d) /\ (h.id \in DOMAIN files => d.parent = files[h.id].parent /\ d.kind = files[h.id].kind)
        BY <3>1, <3>2 DEF TreeEffect, FilesEffect, Doc
      <4> QED
        BY <4>1
    <3>3. CASE h.op = "unmark"
      <4> DEFINE d == [files[h.id] EXCEPT !.trash = "live"]
      <4>1. SetDoc(h.id, d) /\ (h.id \in DOMAIN files => d.parent = files[h.id].parent /\ d.kind = files[h.id].kind)
        BY <3>1, <3>3 DEF TreeEffect, FilesEffect, Doc
      <4> QED
        BY <4>1
    <3>4. CASE h.op = "record"
      <4> DEFINE d == [files[h.id] EXCEPT !.msg = h.msg]
      <4>1. SetDoc(h.id, d) /\ (h.id \in DOMAIN files => d.parent = files[h.id].parent /\ d.kind = files[h.id].kind)
        BY <3>1, <3>4 DEF TreeEffect, FilesEffect, Doc
      <4> QED
        BY <4>1
    <3>5. CASE h.op = "setParent"
      <4> DEFINE d == [files[h.id] EXCEPT !.parent = h.to]
      <4>1. SetDoc(h.id, d) /\ (h.id \in DOMAIN files => d.parent = h.to)
        BY <3>1, <3>5 DEF TreeEffect, FilesEffect, Doc
      <4>2. h.to \in {Root} \cup DOMAIN files
        BY <3>5 DEF Good, Dest, DestOps, Late
      <4> QED
        BY <4>1, <4>2
    <3> QED
      BY <1>3, <3>2, <3>3, <3>4, <3>5
  <2>2. DOMAIN files' = DOMAIN files /\ \A j \in DOMAIN files : files'[j] = IF j = h.id THEN d ELSE files[j]
    BY <2>1 DEF SetDoc
  <2>3. CASE i = h.id
    BY <1>0, <1>1, <2>1, <2>2, <2>3 DEF IsFolder
  <2>4. CASE i # h.id
    BY <1>0, <1>1, <2>2, <2>4
  <2> QED
    BY <2>3, <2>4
<1>4. CASE h.op = "remove"
  <2>1. files' = [j \in DOMAIN files \ {h.id} |-> files[j]] /\ Children(Standing, h.id) = {}
    BY <1>4 DEF TreeEffect, FilesEffect
  <2>2. i \in DOMAIN files /\ i # h.id /\ files'[i] = files[i]
    BY <1>0, <2>1
  <2>3. files[i].parent # h.id
    BY <1>0, <2>1, <2>2, StandingFacts DEF Children
  <2> QED
    BY <1>0, <1>1, <2>1, <2>2, <2>3
<1>5. CASE h.op \in {"insert", "copyDoc"}
  <2>1. PICK d : InsertDoc(d) /\ (IsFolder(d) \/ d.parent \notin uploads => d.parent \in {Root} \cup DOMAIN files)
    <3>1. CASE h.op = "insert"
      BY <3>1 DEF TreeEffect, FilesEffect, Good, Dest, DestOps, Late
    <3>2. CASE h.op = "copyDoc"
      <4>1. h.to \in {Root} \cup DOMAIN files /\ h.doc \in Doc
        BY <3>2, FrameFields DEF Good, Dest, DestOps, Late
      <4>2. InsertDoc([h.doc EXCEPT !.parent = h.to, !.trash = "live"])
        BY <3>2 DEF TreeEffect, FilesEffect
      <4>3. [h.doc EXCEPT !.parent = h.to, !.trash = "live"].parent = h.to
        BY <4>1 DEF Doc
      <4> QED
        BY <4>1, <4>2, <4>3
    <3> QED
      BY <1>5, <3>1, <3>2
  <2>2. /\ DOMAIN files' = DOMAIN files \cup {nextId}
        /\ \A j \in DOMAIN files' : files'[j] = IF j = nextId THEN d ELSE files[j]
    BY <2>1 DEF InsertDoc
  <2>3. CASE i = nextId
    BY <1>0, <2>1, <2>2, <2>3
  <2>4. CASE i # nextId
    BY <1>0, <1>1, <2>2, <2>4
  <2> QED
    BY <2>3, <2>4
<1> QED
  BY <1>2, <1>3, <1>4, <1>5

\* While one client deletes, no other puts a document anywhere; while one
\* puts documents into folders, no other deletes.
LEMMA ApartOps ==
    ASSUME IInv, OneRequest, Apart, NEW p \in Procs, NEW kind,
           p \in Clients, kind \in may[p], NEW q \in Procs \ {p}
    PROVE  \E O : /\ todo[q] \in Seq(FramesOf(O))
                  /\ kind \in Deleters => O \cap (DestOps \cup {"insert"}) = {}
                  /\ kind \in Placers => "remove" \notin O
<1>1. PICK O : /\ todo[q] \in Seq(FramesOf(O))
               /\ \/ O \in {{}, WorkerOps}
                  \/ q \in Clients /\ \E k \in may[q] : k \in Kinds /\ O = OpsOf[k]
  BY OpsOfProc
<1>2. CASE O \in {{}, WorkerOps}
  <2>1. O \cap (DestOps \cup {"insert"}) = {} /\ "remove" \notin O
    BY <1>2 DEF WorkerOps, DestOps
  <2> QED
    BY <1>1, <2>1
<1>3. ASSUME q \in Clients, NEW k \in may[q], k \in Kinds, O = OpsOf[k]
      PROVE  /\ kind \in Deleters => O \cap (DestOps \cup {"insert"}) = {}
             /\ kind \in Placers => "remove" \notin O
  <2>1. kind \in Deleters => k \notin Placers
    BY <1>3 DEF Apart
  <2>2. kind \in Placers => k \notin Deleters
    BY <1>3 DEF Apart
  <2> QED
    BY <1>3, <2>1, <2>2, PlacersOnly, DeletersOnly
<1> QED
  BY <1>1, <1>2, <1>3

\* The other processes are not disturbed.
LEMMA OthersNotLost ==
    ASSUME IInv, OneRequest, Apart, LostOK, NEW p \in Procs, NEW s \in Ready(todo[p]), TreeEffect(Head(s)),
           NEW q \in Procs \ {p}
    PROVE  todo[q] \in Seq(Good') /\ Covered(Standing', todo[q])
<1> DEFINE h == Head(s)
<1>0. KindsStay /\ uploads \subseteq uploads' /\ FilesEffect(h)
  BY EffectKinds DEF TreeEffect
<1>1. s # <<>> /\ todo[q] \in Seq(Good) /\ Covered(Standing, todo[q]) /\ todo[q] \in Seq(Frame)
  BY CallTail DEF Calls, LostOK, IInv, TypeOK
<1>2. PICK O : /\ todo[p] \in Seq(FramesOf(O)) /\ \A op \in O : MoreOps(op) \subseteq O
               /\ \/ O \in {{}, WorkerOps}
                  \/ p \in Clients /\ \E kind \in may[p] : kind \in Kinds /\ O = OpsOf[kind]
  BY OpsOfProc
<1>3. s \in Seq(FramesOf(O))
  BY <1>2, OpsReady
<1>4. h.op \in O
  <2>1. h \in FramesOf(O)
    BY <1>1, <1>3
  <2> QED
    BY <2>1 DEF FramesOf
<1>5. CASE h.op \notin {"setParent", "remove", "insert", "copyDoc"}
  <2>1. DOMAIN files' = DOMAIN files /\ \A j \in DOMAIN files : files'[j].parent = files[j].parent
    <3>1. nextId \notin DOMAIN files'
      BY <1>0, <1>5 DEF FilesEffect, SetDoc, IInv, TypeOK
    <3>2. DOMAIN files' = DOMAIN files
      BY <1>0, <1>5 DEF FilesEffect, SetDoc
    <3>3. ParentsStay
      BY <1>0, <1>5, EffectParents
    <3> QED
      BY <3>2, <3>3 DEF ParentsStay
  <2>2. Good \subseteq Good'
    BY <1>0, <2>1, GoodStays
  <2>3. \A i : Children(Standing', i) \subseteq Children(Standing, i)
    BY <1>0, <2>1, StandingShrinks DEF KindsStay
  <2>4. todo[q] \in Seq(Good')
    BY <1>1, <2>2, SeqWider
  <2> QED
    BY <1>1, <2>3, <2>4, CoveredStays
<1>6. CASE h.op \in {"setParent", "remove", "insert", "copyDoc"}
  <2>1. PICK kind \in may[p] : p \in Clients /\ kind \in Kinds /\ O = OpsOf[kind]
    BY <1>2, <1>4, <1>6 DEF WorkerOps
  <2>2. PICK P : /\ todo[q] \in Seq(FramesOf(P))
                 /\ kind \in Deleters => P \cap (DestOps \cup {"insert"}) = {}
                 /\ kind \in Placers => "remove" \notin P
    BY <2>1, ApartOps
  <2>3. CASE h.op = "remove"
    <3>1. kind \in Deleters
      BY <1>4, <2>1, <2>3, DeletersOnly
    <3>2. Good \cap FramesOf(P) \subseteq Good'
      BY <1>0, <2>2, <3>1, IdleGoodStays
    <3>3. todo[q] \in Seq(Good \cap FramesOf(P))
      BY <1>1, <2>2, Both
    <3>4. todo[q] \in Seq(Good')
      BY <3>2, <3>3, SeqWider
    <3>5. \A i : Children(Standing', i) \subseteq Children(Standing, i)
      <4>1. files' = [j \in DOMAIN files \ {h.id} |-> files[j]]
        BY <1>0, <2>3 DEF FilesEffect
      <4> QED
        BY <1>0, <4>1, StandingShrinks
    <3> QED
      BY <1>1, <3>4, <3>5, CoveredStays
  <2>4. CASE h.op \in {"setParent", "insert", "copyDoc"}
    <3>1. kind \in Placers
      BY <1>4, <2>1, <2>4, PlacersOnly DEF DestOps
    <3>2. DOMAIN files \subseteq DOMAIN files'
      BY <1>0, <2>4 DEF FilesEffect, SetDoc, InsertDoc
    <3>3. todo[q] \in Seq(Good')
      BY <1>0, <1>1, <3>2, GoodStays, SeqWider
    <3>4. Removeless(todo[q])
      <4>1. \A f \in FramesOf(P) : f.op # "remove"
        BY <2>2, <3>1 DEF FramesOf
      <4> QED
        BY <2>2, <4>1, SeqOps
    <3> QED
      BY <3>3, <3>4, RemovelessCovered
  <2> QED
    BY <1>6, <2>3, <2>4
<1> QED
  BY <1>5, <1>6

\* The process that makes the step.
LEMMA OneNotLost ==
    ASSUME IInv, IInv', OneRequest, NothingLost, LostOK, NEW p \in Procs, NEW s \in Ready(todo[p]),
           NEW new, NEW rest, GoesOn(p, s, new, rest)
    PROVE  /\ new \o rest \in Seq(Good') /\ Covered(Standing', new \o rest)
           /\ NothingLost'
<1> DEFINE h == Head(s)
           X == Good
<1>1. /\ todo[p] \in Seq(Good) /\ Covered(Standing, todo[p]) /\ Good \subseteq Frame
      /\ s \in Seq(Frame) /\ s # <<>>
  BY CallTail DEF Calls, LostOK, Good
<1>2. PICK O : /\ todo[p] \in Seq(FramesOf(O)) /\ \A op \in O : MoreOps(op) \subseteq O
               /\ \/ O \in {{}, WorkerOps}
                  \/ p \in Clients /\ \E kind \in may[p] : kind \in Kinds /\ O = OpsOf[kind]
  BY OpsOfProc
<1>3. s \in Seq(FramesOf(O))
  BY <1>2, OpsReady
<1>4. s \in Seq(Good)
  <2> HIDE DEF X
  <2>1. ASSUME NEW l \in Good, l.op \in EachOps, NEW k \in l.kids, NEW f \in Frame,
               f \in IterationMade(l.op, k, l.to) \/ f = Loop(l.op, l.kids \ {k}, l.to)
        PROVE  f \in Good
    BY <2>1, IterationGood
  <2> QED
    BY <1>1, <2>1, ReadyIn
<1>5. Covered(Standing, s)
  BY <1>1, CoveredReady
<1>6. h \in Good /\ h.op \in O
  <2>1. h \in Good /\ h \in FramesOf(O)
    BY <1>1, <1>3, <1>4
  <2> QED
    BY <2>1 DEF FramesOf
<1>7. CASE new = <<>> /\ rest = <<>> /\ UNCHANGED <<data, bounds>>
  <2>1. new \o rest = <<>> /\ files' = files /\ uploads' = uploads
    BY <1>7, EmptyConcat DEF data
  <2>2. NothingLost'
    BY <2>1 DEF NothingLost, Rooted, Firm
  <2> QED
    BY <2>1, <2>2, NoFrames, RemovelessParts, RemovelessCovered
<1>8. CASE Follows(p, h, new) /\ Effect(h) /\ rest = IF h.op \in First THEN <<>> ELSE Tail(s)
  <2>0. FilesEffect(h) /\ TreeEffect(h) /\ KindsStay /\ uploads \subseteq uploads'
    BY <1>8, EffectKinds DEF Effect, QueueEffect, TreeEffect
  <2>1. new \in Seq(Made(p, h)) /\ new \o rest \in Seq(Frame)
    BY DEF GoesOn, Goto, IInv, TypeOK
  <2>2. ASSUME NEW f \in Frame, f \in Made(p, h) PROVE f \in Good' /\ f.op \in O
    <3>1. f \in Good'
      BY <1>6, <2>0, <2>2, GoodMade
    <3>2. f.op \in MoreOps(h.op)
      BY <1>6, <2>2, MadeOps DEF Good
    <3> QED
      BY <1>2, <1>6, <3>1, <3>2
  <2>3. h.op = "remove" => Children(Standing, h.id) = {}
    <3>1. h = s[1] /\ 1 \in 1 .. Len(s)
      BY <1>1
    <3>2. \A j \in 1 .. (1 - 1) : FALSE
      OBVIOUS
    <3> QED
      BY <1>5, <3>1, <3>2 DEF Covered
  <2>4. NothingLost'
    BY <1>6, <2>0, <2>3, EffectLosesNothing
  <2>5. new \o rest \in Seq(Good')
    <3> DEFINE Y == Good \cap FramesOf(O)
    <3>1. Y \subseteq Good'
      <4>1. CASE DOMAIN files \subseteq DOMAIN files'
        BY <2>0, <4>1, GoodStays
      <4>2. CASE h.op = "remove"
        <5>1. PICK kind \in may[p] : kind \in Kinds /\ O = OpsOf[kind]
          BY <1>2, <1>6, <4>2 DEF WorkerOps
        <5>2. kind \in Deleters
          BY <1>6, <4>2, <5>1, DeletersOnly
        <5>3. kind \notin Placers
          BY <5>2 DEF Deleters, Placers
        <5> QED
          BY <2>0, <5>1, <5>3, PlacersOnly, IdleGoodStays
      <4>3. h.op # "remove" => DOMAIN files \subseteq DOMAIN files'
        BY <2>0 DEF FilesEffect, SetDoc, InsertDoc
      <4> QED
        BY <4>1, <4>2, <4>3
    <3>2. s \in Seq(Y)
      BY <1>3, <1>4, Both
    <3>3. Y \subseteq Frame
      BY <1>1
    <3> HIDE DEF Y
    <3>4. ASSUME Follows(p, Head(s), new), Effect(Head(s)), NEW f \in Frame, f \in Made(p, Head(s))
          PROVE  f \in Good'
      BY <2>2, <3>4
    <3> QED
      BY <1>1, <2>1, <3>1, <3>2, <3>3, <3>4, GoesOnIn
  <2>6. Covered(Standing', new \o rest)
    <3>1. CASE "remove" \notin O
      <4>1. new \o rest \in Seq(FramesOf(O))
        <5>1. FramesOf(O) \subseteq Frame
          BY DEF FramesOf
        <5>2. ASSUME Follows(p, Head(s), new), Effect(Head(s)), NEW f \in Frame, f \in Made(p, Head(s))
              PROVE  f \in FramesOf(O)
          BY <2>2, <5>2 DEF FramesOf
        <5> QED
          BY <1>1, <1>3, <2>1, <5>1, <5>2, GoesOnIn
      <4>2. \A f \in FramesOf(O) : f.op # "remove"
        BY <3>1 DEF FramesOf
      <4> QED
        BY <4>1, <4>2, SeqOps, RemovelessCovered
    <3>2. CASE "remove" \in O
      <4>1. PICK kind \in may[p] : kind \in Kinds /\ O = OpsOf[kind]
        BY <1>2, <3>2 DEF WorkerOps
      <4>2. kind \in Deleters
        BY <3>2, <4>1, DeletersOnly
      <4>3. /\ Covered(Standing', new)
            /\ \A c \in Gives(Standing, h) : c \in DOMAIN Standing' => GivesIn(Standing', new, c)
            /\ \A i : Children(Standing', i) \subseteq Children(Standing, i)
        BY <1>6, <1>8, <2>0, <2>1, <4>1, <4>2, CoveredFollows
      <4>4. rest = Tail(s)
        <5>1. h.op \notin First
          BY <1>6, <4>1, <4>2 DEF Deleters, OpsOf, First
        <5> QED
          BY <1>8, <5>1
      <4> DEFINE F == Good \cup Made(p, h)
      <4>5. Good \subseteq F /\ Made(p, h) \subseteq F
        OBVIOUS
      <4> HIDE DEF F
      <4>6. s \in Seq(F)
        BY <1>4, <4>5, SeqWider
      <4>7. new \in Seq(F)
        BY <2>1, <4>5, SeqWider
      <4> QED
        BY <1>1, <1>5, <4>3, <4>4, <4>6, <4>7, CoveredReplaced DEF GivesIn
    <3> QED
      BY <3>1, <3>2
  <2> QED
    BY <2>4, <2>5, <2>6
<1> QED
  BY <1>7, <1>8 DEF GoesOn

LEMMA LostStep ==
    ASSUME IInv, IInv', OneRequest, Apart, NothingLost, LostOK, NEW p \in Procs, Step(p) \/ WorkerStep(p)
    PROVE  NothingLost' /\ LostOK'
<1>1. PICK s \in Ready(todo[p]) : \E new : \E rest : GoesOn(p, s, new, rest)
  BY StepShape
<1>2. PICK new, rest : GoesOn(p, s, new, rest)
  BY <1>1
<1>3. todo'[p] = new \o rest /\ \A q \in Procs \ {p} : todo'[q] = todo[q]
  BY <1>2 DEF GoesOn, Goto, IInv, TypeOK
<1>4. /\ todo'[p] \in Seq(Good') /\ Covered(Standing', todo'[p])
      /\ NothingLost'
  BY <1>2, <1>3, OneNotLost
<1>5. ASSUME NEW q \in Procs \ {p} PROVE todo'[q] \in Seq(Good') /\ Covered(Standing', todo'[q])
  <2>1. CASE TreeEffect(Head(s))
    BY <1>3, <2>1, OthersNotLost
  <2>2. CASE UNCHANGED data
    <3>1. files' = files /\ nextId' = nextId /\ uploads' = uploads /\ Standing' = Standing
      BY <2>2, SameStanding DEF data
    <3>2. KindsStay
      BY <3>1, IdFacts DEF KindsStay
    <3>3. Good \subseteq Good'
      BY <3>1, <3>2, GoodStays
    <3>4. todo[q] \in Seq(Good) /\ Covered(Standing, todo[q])
      BY DEF LostOK
    <3> QED
      BY <1>3, <3>1, <3>3, <3>4, SeqWider
  <2> QED
    BY <1>2, <2>1, <2>2 DEF GoesOn, Effect, QueueEffect, TreeEffect
<1>6. LostOK'
  BY <1>4, <1>5 DEF LostOK, Procs, Good, Frame, Kid, Doc
<1> QED
  BY <1>4, <1>6

\* A step that leaves the documents where they are, and starts a request with
\* good frames or none.
LEMMA NotLostQuiet ==
    ASSUME IInv, NothingLost, LostOK, NEW p,
           DOMAIN files' = DOMAIN files, nextId' = nextId, uploads' = uploads,
           \A j \in DOMAIN files : files'[j].parent = files[j].parent /\ files'[j].kind = files[j].kind,
           \A q \in Procs \ {p} : todo'[q] = todo[q] \/ todo'[q] = <<>>,
           p \in Procs => todo'[p] \in Seq(Good') /\ Removeless(todo'[p])
    PROVE  NothingLost' /\ LostOK'
<1>1. NothingLost'
  BY DEF NothingLost, Rooted, IsFolder, Firm
<1>2. KindsStay
  BY IdFacts DEF KindsStay
<1>3. Good \subseteq Good'
  BY <1>2, GoodStays
<1>4. \A i : Children(Standing', i) \subseteq Children(Standing, i)
  BY StandingShrinks
<1>5. ASSUME NEW q \in Procs PROVE todo'[q] \in Seq(Good') /\ Covered(Standing', todo'[q])
  <2>1. CASE q = p
    BY <2>1, RemovelessCovered
  <2>2. CASE todo'[q] = <<>>
    BY <2>2, NoFrames, RemovelessParts, RemovelessCovered
  <2>3. CASE todo'[q] = todo[q]
    <3>1. todo[q] \in Seq(Good) /\ Covered(Standing, todo[q])
      BY DEF LostOK
    <3>2. todo[q] \in Seq(Good')
      BY <1>3, <3>1, SeqWider
    <3> QED
      BY <1>4, <2>3, <3>1, <3>2, CoveredStays
  <2> QED
    BY <2>1, <2>2, <2>3
<1>6. LostOK'
  BY <1>5 DEF LostOK, Procs, Good, Frame, Kid, Doc
<1> QED
  BY <1>1, <1>6

\* What a request may begin with.
LEMMA FirstCalls ==
    ASSUME NEW kind \in Kinds, NEW f \in FirstMade(kind)
    PROVE  f.op \in {"trash", "restore", "delete", "purge", "move", "copy", "parent", "insert", "quota",
                    "initQuota", "dedup"}
<1>1. CASE kind = "trash"
  BY <1>1 DEF FirstMade, At
<1>2. CASE kind = "move"
  BY <1>2 DEF FirstMade, Into
<1>5. CASE kind = "restore"
  BY <1>5 DEF FirstMade, At
<1>6. CASE kind = "delete"
  BY <1>6 DEF FirstMade, At
<1>7. CASE kind = "purge"
  BY <1>7 DEF FirstMade, At
<1>8. CASE kind = "copy"
  BY <1>8 DEF FirstMade, Into
<1>3. CASE kind = "mkdir"
  BY <1>3 DEF FirstMade, At, Insert
<1>4. CASE kind = "upload"
  BY <1>4 DEF FirstMade, At, New
<1>9. CASE kind = "init"
  BY <1>9 DEF FirstMade, At
<1>10. CASE kind = "complete"
  BY <1>10 DEF FirstMade, New
<1> QED
  BY <1>1, <1>2, <1>3, <1>4, <1>5, <1>6, <1>7, <1>8, <1>9, <1>10 DEF Kinds

LEMMA FirstGood ==
    ASSUME IInv, NEW kind \in Kinds, NEW f \in Frame, f \in FirstMade(kind)
    PROVE  f \in Good /\ f.op # "remove"
<1>1. f.op \in {"trash", "restore", "delete", "purge", "move", "copy", "parent", "insert", "quota",
                    "initQuota", "dedup"}
  BY FirstCalls
<1>2. CASE f.op \in {"trash", "restore", "delete", "purge", "parent", "initQuota"}
  BY <1>2, OtherGood DEF DestOps
<1>3. CASE f.op \in {"move", "copy", "insert", "quota", "dedup"}
  <2>1. Late(f) \/ Dest(f) \in {Root} \cup DOMAIN files
    <3>1. CASE kind = "move"
      BY <1>3, <3>1 DEF FirstMade, Into, Dest, DestOps
    <3>5. CASE kind = "copy"
      BY <1>3, <3>5 DEF FirstMade, Into, Dest, DestOps
    <3>2. CASE kind = "mkdir"
      BY <1>3, <3>2 DEF FirstMade, At, Insert, NewDoc, Dest, DestOps
    <3>3. CASE kind = "upload"
      BY <1>3, <3>3 DEF FirstMade, At, New, Dest, DestOps
    <3>6. CASE kind = "complete"
      BY <3>6 DEF FirstMade, New, Late
    <3>4. CASE kind \in {"trash", "restore", "delete", "purge", "init"}
      <4>1. f.op \in OpsOf[kind]
        BY FirstOps
      <4> QED
        BY <1>3, <3>4, <4>1 DEF OpsOf
    <3> QED
      BY <3>1, <3>2, <3>3, <3>4, <3>5, <3>6 DEF Kinds
  <2> QED
    BY <1>3, <2>1 DEF Good, KidsKnown
<1> QED
  BY <1>1, <1>2, <1>3

LEMMA LostInit == Init => LostInv
BY NoFrames, RemovelessParts, RemovelessCovered DEF Init, LostInv, NothingLost, TreeClosed, LostOK, Procs

LEMMA LostNext ==
    ASSUME IInv, IInv', OneRequest, LostInv, [Next]_vars
    PROVE  LostInv'
<1>1. may' = may
  <2>1. ASSUME NEW p \in Procs, Step(p) \/ WorkerStep(p) PROVE may' = may
    BY <2>1, StepOfOne
  <2> QED
    BY <2>1 DEF Next, Begin, Take, Expire, Fail, Restart, Finished, vars, bounds, Procs
<1> SUFFICES ASSUME Apart, NothingLost, LostOK PROVE NothingLost' /\ LostOK'
  BY <1>1 DEF LostInv, Apart
<1>2. ASSUME NEW c \in Clients, Begin(c) PROVE NothingLost' /\ LostOK'
  <2>1. PICK kind \in may[c] : \E s \in Requests[kind] : Goto(c, s)
    BY <1>2 DEF Begin
  <2>2. PICK s \in Requests[kind] : Goto(c, s)
    BY <2>1
  <2>3. kind \in Kinds /\ UNCHANGED <<files, nextId, uploads>> /\ \A q \in Procs \ {c} : todo'[q] = todo[q]
    BY <1>2, <2>2, MayKinds DEF Begin, data, Goto, IInv, TypeOK
  <2>4. Good' = Good
    BY <2>3 DEF Good, Late, Dest, KidsKnown, NotFolder, Ids, Frame, Kid, Doc
  <2> DEFINE Z == {f \in Good : f.op # "remove"}
  <2>5. ASSUME NEW f \in Frame, f \in FirstMade(kind) PROVE f \in Z
    BY <2>3, <2>5, FirstGood
  <2> HIDE DEF Z
  <2>6. todo'[c] \in Seq(Z)
    BY <2>2, <2>3, <2>5, BeginIn DEF IInv, TypeOK
  <2>7. Z \subseteq Good /\ \A f \in Z : f.op # "remove"
    BY DEF Z
  <2>8. todo'[c] \in Seq(Good') /\ Removeless(todo'[c])
    BY <2>4, <2>6, <2>7, SeqWider, SeqOps
  <2> QED
    BY <2>3, <2>8, NotLostQuiet
<1>3. ASSUME NEW p \in Procs, Step(p) \/ WorkerStep(p) PROVE NothingLost' /\ LostOK'
  BY <1>3, LostStep
<1>4. ASSUME NEW w \in Workers, Take(w) PROVE NothingLost' /\ LostOK'
  <2>1. /\ todo'[w] = <<At("send", Head(queue))>> /\ \A q \in Procs \ {w} : todo'[q] = todo[q]
        /\ UNCHANGED <<files, nextId, uploads>> /\ Head(queue) \in Nat
    BY <1>4 DEF Take, Goto, IInv, TypeOK, Procs
  <2>2. At("send", Head(queue)) \in Frame /\ At("send", Head(queue)).op = "send"
    BY <2>1 DEF At, Frame, AtOps
  <2>3. At("send", Head(queue)) \in Good'
    BY <2>2, OtherGood DEF DestOps
  <2>4. todo'[w] \in Seq(Good') /\ Removeless(todo'[w])
    BY <2>1, <2>2, <2>3, Single, RemovelessParts
  <2> QED
    BY <2>1, <2>4, NotLostQuiet
<1>5. ASSUME NEW i \in DOMAIN files, Expire(i) PROVE NothingLost' /\ LostOK'
  <2>1. /\ files' = [j \in DOMAIN files |-> IF j = i THEN [files[i] EXCEPT !.trash = "expired"] ELSE files[j]]
        /\ UNCHANGED <<nextId, uploads, todo>>
    BY <1>5 DEF Expire, SetDoc
  <2>2. files[i] \in Doc
    BY DEF IInv, TypeOK
  <2>3. \A j \in DOMAIN files : files'[j].parent = files[j].parent /\ files'[j].kind = files[j].kind
    BY <2>1, <2>2 DEF Doc
  <2>4. PICK w : w \notin Procs
    BY NoSetContainsEverything
  <2> QED
    BY <2>1, <2>3, <2>4, NotLostQuiet
<1>6. ASSUME NEW p \in Procs, Fail(p) PROVE NothingLost' /\ LostOK'
  <2>1. /\ todo'[p] = <<>> /\ \A q \in Procs \ {p} : todo'[q] = todo[q]
        /\ UNCHANGED <<files, nextId, uploads>>
    BY <1>6 DEF Fail, Abort, Goto, IInv, TypeOK, data
  <2> QED
    BY <2>1, NoFrames, RemovelessParts, NotLostQuiet
<1>7. CASE Restart
  <2>1. UNCHANGED <<files, nextId, uploads>> /\ \A q \in Procs : todo'[q] = <<>>
    BY <1>7 DEF Restart
  <2>2. PICK w : w \notin Procs
    BY NoSetContainsEverything
  <2> QED
    BY <2>1, <2>2, NotLostQuiet
<1>8. CASE UNCHANGED vars
  <2>1. UNCHANGED <<files, nextId, uploads, todo>>
    BY <1>8 DEF vars, data
  <2>2. PICK w : w \notin Procs
    BY NoSetContainsEverything
  <2> QED
    BY <2>1, <2>2, NotLostQuiet
<1> QED
  BY <1>2, <1>3, <1>4, <1>5, <1>6, <1>7, <1>8 DEF Next, Finished, Procs

\* At every moment, also after a crash, the folder a document lies in exists,
\* if no client deletes or purges while another one puts documents into
\* folders: _recursive_permanent_delete (file_service.py:286-299) removes a
\* folder after what it found in it, and what it did not find is not there.
THEOREM DeletionsLoseNothing == Spec => [](Apart => NothingLost)
<1>1. Init => IInv /\ OneRequest /\ LostInv
  BY InitHolds, OneRequestInit, LostInit
<1>2. IInv /\ OneRequest /\ LostInv /\ [Next]_vars => (IInv /\ OneRequest /\ LostInv)'
  BY NextHolds, OneRequestNext, LostNext
<1>3. LostInv => (Apart => NothingLost)
  BY DEF LostInv
<1> QED
  BY <1>1, <1>2, <1>3, PTL DEF Spec

(***************************************************************************)
(* Calls that need what earlier calls give: N[f] is what the call f needs, *)
(* G[f] what it gives.                                                     *)
(***************************************************************************)
Has(s, G, x) == \E j \in 1 .. Len(s) : x \in G[s[j]]

Before(s, N, G) == \A k \in 1 .. Len(s) : \A x \in N[s[k]] : \E j \in 1 .. (k - 1) : x \in G[s[j]]

Needless(s, N) == \A k \in 1 .. Len(s) : N[s[k]] = {}

LEMMA NeedlessSeq ==
    ASSUME NEW N, NEW F, NEW s \in Seq(F), \A f \in F : N[f] = {}
    PROVE  Needless(s, N)
BY DEF Needless

LEMMA NeedlessBefore ==
    ASSUME NEW N, NEW G, NEW s, Needless(s, N)
    PROVE  Before(s, N, G)
BY DEF Needless, Before

LEMMA HasNone ==
    ASSUME NEW G, NEW F, NEW s \in Seq(F), \A f \in F : G[f] = {}, NEW x
    PROVE  ~Has(s, G, x)
BY DEF Has

LEMMA HasSingle ==
    ASSUME NEW G, NEW f, NEW x \in G[f]
    PROVE  Has(<<f>>, G, x)
<1> DEFINE s == <<f>>
<1>1. 1 \in 1 .. Len(s) /\ s[1] = f
  OBVIOUS
<1> HIDE DEF s
<1>2. Has(s, G, x)
  BY <1>1 DEF Has
<1> QED
  BY <1>2 DEF s

LEMMA HasConcat ==
    ASSUME NEW G, NEW F, NEW a \in Seq(F), NEW b \in Seq(F), NEW x, Has(a, G, x) \/ Has(b, G, x)
    PROVE  Has(a \o b, G, x)
<1> DEFINE t == a \o b
           m == Len(a)
           n == Len(b)
<1>1. m \in Nat /\ n \in Nat
  OBVIOUS
<1>2. Len(t) = m + n /\ \A i \in 1 .. m + n : t[i] = IF i <= m THEN a[i] ELSE b[i - m]
  BY ConcatProperties
<1> HIDE DEF t, m, n
<1>3. ASSUME NEW j \in 1 .. m, x \in G[a[j]] PROVE Has(t, G, x)
  <2>1. j \in 1 .. Len(t) /\ t[j] = a[j]
    BY <1>1, <1>2
  <2> QED
    BY <1>3, <2>1 DEF Has
<1>4. ASSUME NEW j \in 1 .. n, x \in G[b[j]] PROVE Has(t, G, x)
  <2> DEFINE i == j + m
  <2>1. i \in 1 .. m + n /\ ~(i <= m) /\ i - m = j
    BY <1>1
  <2> HIDE DEF i
  <2>2. i \in 1 .. Len(t) /\ t[i] = b[j]
    BY <1>2, <2>1
  <2> QED
    BY <1>4, <2>2 DEF Has
<1> QED
  BY <1>3, <1>4 DEF Has, t, m, n

LEMMA HasTail ==
    ASSUME NEW G, NEW F, NEW s \in Seq(F), s # <<>>, NEW x, Has(s, G, x)
    PROVE  x \in G[Head(s)] \/ Has(Tail(s), G, x)
<1> DEFINE r == Tail(s)
<1>1. r \in Seq(F) /\ Len(r) = Len(s) - 1 /\ \A i \in 1 .. Len(r) : r[i] = s[i + 1]
  BY HeadTailProperties
<1>2. Head(s) = s[1] /\ Len(s) \in Nat
  OBVIOUS
<1> HIDE DEF r
<1>3. PICK j \in 1 .. Len(s) : x \in G[s[j]]
  BY DEF Has
<1>4. CASE j = 1
  BY <1>2, <1>3, <1>4
<1>5. CASE j # 1
  <2> DEFINE i == j - 1
  <2>1. i \in 1 .. Len(r) /\ i + 1 = j
    BY <1>1, <1>2, <1>5
  <2> HIDE DEF i
  <2>2. x \in G[r[i]]
    BY <1>1, <1>3, <2>1
  <2>3. Has(r, G, x)
    BY <2>1, <2>2 DEF Has
  <2> QED
    BY <2>3 DEF r
<1> QED
  BY <1>4, <1>5

\* The next call needs nothing any more.
LEMMA HeadNeedless ==
    ASSUME NEW N, NEW G, NEW F, NEW s \in Seq(F), s # <<>>, Before(s, N, G)
    PROVE  N[Head(s)] = {}
<1>1. Head(s) = s[1] /\ 1 \in 1 .. Len(s)
  OBVIOUS
<1>2. \A j \in 1 .. (1 - 1) : FALSE
  OBVIOUS
<1> QED
  BY <1>1, <1>2 DEF Before

LEMMA BeforeLast ==
    ASSUME NEW N, NEW G, NEW F, NEW a \in Seq(F), NEW f \in F, Needless(a, N),
           \A x \in N[f] : Has(a, G, x)
    PROVE  Before(a \o <<f>>, N, G)
<1> DEFINE b == <<f>>
           t == a \o b
<1>1. b \in Seq(F) /\ Len(b) = 1 /\ b[1] = f /\ Len(a) \in Nat
  OBVIOUS
<1> HIDE DEF b
<1>2. /\ Len(t) = Len(a) + Len(b)
      /\ \A i \in 1 .. Len(a) + Len(b) : t[i] = IF i <= Len(a) THEN a[i] ELSE b[i - Len(a)]
  BY <1>1, ConcatProperties
<1> HIDE DEF t
<1>3. ASSUME NEW k \in 1 .. Len(t), NEW x \in N[t[k]]
      PROVE  \E j \in 1 .. (k - 1) : x \in G[t[j]]
  <2>1. ~(k <= Len(a))
    <3>1. SUFFICES ASSUME k <= Len(a) PROVE FALSE
      OBVIOUS
    <3>2. t[k] = a[k] /\ k \in 1 .. Len(a)
      BY <1>1, <1>2, <3>1
    <3> QED
      BY <1>3, <3>2 DEF Needless
  <2>2. k = Len(a) + 1 /\ t[k] = f
    BY <1>1, <1>2, <2>1
  <2>3. PICK j \in 1 .. Len(a) : x \in G[a[j]]
    BY <1>3, <2>2 DEF Has
  <2>4. t[j] = a[j] /\ j \in 1 .. (k - 1)
    BY <1>1, <1>2, <2>2, <2>3
  <2> QED
    BY <2>3, <2>4
<1>4. Before(t, N, G)
  BY <1>3 DEF Before
<1> QED
  BY <1>4 DEF t, b

\* In a state where calls need less, and give all that is needed.
Eased(F, N, G, M, H) ==
    \A f \in F : M[f] \subseteq N[f] /\ \A g \in F : \A x \in M[f] : x \in G[g] => x \in H[g]

LEMMA BeforeStays ==
    ASSUME NEW F, NEW N, NEW G, NEW M, NEW H, Eased(F, N, G, M, H), NEW s \in Seq(F), Before(s, N, G)
    PROVE  Before(s, M, H)
<1>1. ASSUME NEW k \in 1 .. Len(s), NEW x \in M[s[k]] PROVE \E j \in 1 .. (k - 1) : x \in H[s[j]]
  <2>1. s[k] \in F /\ \A j \in 1 .. (k - 1) : s[j] \in F
    OBVIOUS
  <2>2. PICK j \in 1 .. (k - 1) : x \in G[s[j]]
    BY <1>1, <2>1 DEF Before, Eased
  <2> QED
    BY <1>1, <2>1, <2>2 DEF Eased
<1> QED
  BY <1>1 DEF Before

\* A call is replaced by calls that give as much.
LEMMA BeforeReplaced ==
    ASSUME NEW F, NEW N, NEW G, NEW M, NEW H, Eased(F, N, G, M, H), NEW s \in Seq(F), s # <<>>,
           NEW new \in Seq(F), Before(s, N, G), Before(new, M, H),
           \A f \in F : \A x \in M[f] : x \in G[Head(s)] => Has(new, H, x)
    PROVE  Before(new \o Tail(s), M, H)
<1> DEFINE n == Len(new)
           r == Tail(s)
           t == new \o r
<1>1. r \in Seq(F) /\ Len(r) = Len(s) - 1 /\ \A i \in 1 .. Len(r) : r[i] = s[i + 1]
  BY HeadTailProperties
<1>2. Head(s) = s[1] /\ Len(s) \in Nat \ {0} /\ n \in Nat /\ \A i \in 1 .. Len(s) : s[i] \in F
  OBVIOUS
<1> HIDE DEF r
<1>3. Len(t) = n + Len(r) /\ \A i \in 1 .. n + Len(r) : t[i] = IF i <= n THEN new[i] ELSE r[i - n]
  BY <1>1, ConcatProperties
<1> HIDE DEF t, n
<1>4. ASSUME NEW k \in 1 .. Len(t), NEW x \in M[t[k]]
      PROVE  \E j \in 1 .. (k - 1) : x \in H[t[j]]
  <2>1. CASE k <= n
    <3>1. k \in 1 .. Len(new) /\ t[k] = new[k]
      BY <1>1, <1>2, <1>3, <2>1 DEF n
    <3>2. PICK j \in 1 .. (k - 1) : x \in H[new[j]]
      BY <1>4, <3>1 DEF Before
    <3>3. t[j] = new[j]
      BY <1>1, <1>2, <1>3, <2>1, <3>2
    <3> QED
      BY <3>2, <3>3
  <2>2. CASE ~(k <= n)
    <3> DEFINE m == k - n + 1
    <3>1. m \in 2 .. Len(s) /\ m \in 1 .. Len(s) /\ t[k] = s[m]
      BY <1>1, <1>2, <1>3, <2>2
    <3>2. x \in M[s[m]] /\ x \in N[s[m]] /\ s[m] \in F
      BY <1>2, <1>4, <3>1 DEF Eased
    <3> HIDE DEF m
    <3>3. PICK j \in 1 .. (m - 1) : x \in G[s[j]]
      BY <3>1, <3>2 DEF Before
    <3>4. CASE j = 1
      <4>1. PICK i \in 1 .. Len(new) : x \in H[new[i]]
        BY <1>2, <3>2, <3>3, <3>4 DEF Has
      <4>2. i \in 1 .. n /\ i \in 1 .. (k - 1) /\ i \in 1 .. n + Len(r)
        BY <1>1, <1>2, <1>3, <2>2, <4>1 DEF n
      <4>3. t[i] = new[i]
        BY <1>3, <4>2
      <4> QED
        BY <4>1, <4>2, <4>3
    <3>5. CASE j # 1
      <4> DEFINE i == j - 1 + n
      <4>1. /\ i \in 1 .. (k - 1) /\ i \in 1 .. n + Len(r)
            /\ ~(i <= n) /\ i - n = j - 1 /\ j - 1 \in 1 .. Len(r) /\ j \in 1 .. Len(s)
        BY <1>1, <1>2, <1>3, <2>2, <3>1, <3>3, <3>5 DEF m
      <4> HIDE DEF i
      <4>2. t[i] = s[j]
        <5>1. t[i] = r[j - 1] /\ r[j - 1] = s[j - 1 + 1]
          BY <1>1, <1>3, <4>1
        <5> QED
          BY <3>3, <5>1
      <4>3. x \in H[s[j]]
        BY <1>2, <3>2, <3>3, <4>1 DEF Eased
      <4> QED
        BY <4>1, <4>2, <4>3
    <3> QED
      BY <3>4, <3>5
  <2> QED
    BY <2>1, <2>2
<1>5. Before(t, M, H)
  BY <1>4 DEF Before
<1> QED
  BY <1>5 DEF t, r

\* What a sequence is put together of.
LEMMA PartsIn ==
    ASSUME NEW A, NEW B, NEW F, NEW a \in Seq(A), NEW b \in Seq(B), a \o b \in Seq(F)
    PROVE  a \in Seq(F) /\ b \in Seq(F)
<1> DEFINE t == a \o b
           U == A \cup B
           m == Len(a)
           n == Len(b)
<1>1. a \in Seq(U) /\ b \in Seq(U)
  BY SeqWider
<1>2. m \in Nat /\ n \in Nat
  OBVIOUS
<1>3. Len(t) = m + n /\ \A i \in 1 .. m + n : t[i] = IF i <= m THEN a[i] ELSE b[i - m]
  BY <1>1, ConcatProperties
<1>4. \A i \in 1 .. Len(t) : t[i] \in F
  OBVIOUS
<1> HIDE DEF t, U
<1>5. \A i \in 1 .. m : a[i] \in F
  BY <1>2, <1>3, <1>4
<1>6. ASSUME NEW j \in 1 .. n PROVE b[j] \in F
  <2> DEFINE i == j + m
  <2>1. i \in 1 .. m + n /\ ~(i <= m) /\ i - m = j
    BY <1>2
  <2> HIDE DEF i
  <2> QED
    BY <1>3, <1>4, <2>1
<1> QED
  BY <1>5, <1>6

(***************************************************************************)
(* A live document is not hidden in the trash.                             *)
(***************************************************************************)
\* While a client may trash, no other puts documents anywhere or restores.
TrashApart ==
    \A c \in Clients : \A d \in Clients \ {c} : "trash" \notin may[c] \/ may[d] \cap (Placers \cup {"restore"}) = {}

\* The documents that a call is going to take out of the trash.
Raises == [f \in Frame |-> IF f.op = "unmark" THEN {f.id}
                           ELSE IF f.op = "restoreEach" THEN {k.id : k \in f.kids} ELSE {}]

Raised(i) == \E p \in Procs : Has(todo[p], Raises, i)

\* The documents in the trash that stay there for now.
Low == {i \in DOMAIN files : ~IsLive(files[i]) /\ ~Raised(i)}

High == Ids \ Low

\* The folder that i lies in is not in the trash, or is about to leave it.
Hangs(i) == i \in Ids /\ (i \in Firm(files, uploads) => files[i].parent \notin Low)

\* A call that is going to put documents into a checked folder, and which.
GoalOps == DestOps \ {"move", "copy"}

Goal(f) == IF f.op \in GoalOps THEN f.to ELSE IF f.op = "insert" THEN f.doc.parent ELSE Root

Steady(f) ==
    /\ f.op = "setParent" => f.id \in Ids /\ (f.id \in DOMAIN files => IsLive(files[f.id]))
    /\ f.op = "unmark" => Hangs(f.id)
    /\ f.op = "restoreEach" => \A k \in f.kids : Hangs(k.id) /\ k.id \in High
    /\ f.op = "restoreChildren" => f.id \in High
    /\ f.op = "restoreCheck" => /\ f.id \in Ids /\ f.doc.parent \in Ids
                                /\ f.id \in DOMAIN files =>
                                     IsLive(files[f.id]) \/ files[f.id].parent = f.doc.parent
    /\ f.op = "trashEach" => \A k \in f.kids : IsFolder(k.doc) \/ NotFolder(k.id)

Fine(P) == {f \in Frame : (Late(f) \/ Goal(f) \in P) /\ Steady(f)}

\* Before a folder is marked, what is live in it is marked.
MarkNeeds(lib) == [f \in Frame |-> IF f.op = "mark" /\ f.id \in DOMAIN lib THEN LiveChildren(lib, f.id) ELSE {}]

Marks(lib) == [f \in Frame |-> IF f.op = "mark" THEN {f.id}
                               ELSE IF f.op = "trashEach" THEN {k.id : k \in f.kids}
                               ELSE IF f.op = "trashChildren" THEN LiveChildren(lib, f.id) ELSE {}]

\* Before a document is restored, the folder it lies in is, if it is in L.
CheckNeeds(L) == [f \in Frame |-> IF f.op = "restoreCheck" THEN {f.doc.parent} \cap L ELSE {}]

Lifts == [f \in Frame |-> IF f.op \in {"restore", "restoreCheck"} THEN {f.id}
                          ELSE IF f.op = "restoreParent" THEN {f.doc.parent} ELSE {}]

\* As long as a restore climbs, it has raised nothing.
ClimbOps == {"restore", "restoreParent"}

Climbs(s) ==
    \/ s \in Seq(FramesOf(AllOps \ ClimbOps))
    \/ s # <<>> /\ Head(s).op \in ClimbOps /\ Tail(s) \in Seq(FramesOf({"restoreCheck"}))

Hung == \A i \in Firm(files, uploads) \cap Live(files) : files[i].parent \notin Low

Sound(s) ==
    /\ s \in Seq(Fine(High \cup Pending(s)))
    /\ Before(s, MarkNeeds(Standing), Marks(Standing))
    /\ Before(s, CheckNeeds(Low), Lifts)
    /\ Climbs(s)

\* The inductive invariant of Consistent.
TrashInv == faults \in Nat /\ (faults = 0 /\ TrashApart => Hung /\ \A p \in Procs : Sound(todo[p]))

\* What a call does to the places of documents and to the trash.
LEMMA EffectTrash ==
    ASSUME IInv, NEW h \in Frame, FilesEffect(h), NEW j \in DOMAIN files, j \in DOMAIN files'
    PROVE  /\ h.op # "setParent" \/ j # h.id => files'[j].parent = files[j].parent
           /\ h.op = "setParent" /\ j = h.id => files'[j].parent = h.to
           /\ h.op \notin {"mark", "unmark"} \/ j # h.id => (IsLive(files'[j]) <=> IsLive(files[j]))
           /\ h.op = "mark" /\ j = h.id => ~IsLive(files'[j])
           /\ h.op = "unmark" /\ j = h.id => IsLive(files'[j])
<1>0. files[j] \in Doc /\ nextId \notin DOMAIN files
  BY IdFacts DEF IInv, TypeOK
<1>1. CASE h.op \notin {"setParent", "mark", "unmark", "record", "remove", "insert", "copyDoc"}
  BY <1>1 DEF FilesEffect
<1>2. CASE h.op = "remove"
  BY <1>2 DEF FilesEffect
<1>3. CASE h.op \in {"insert", "copyDoc"}
  BY <1>0, <1>3 DEF FilesEffect, InsertDoc
<1>4. CASE h.op = "setParent"
  <2> DEFINE d == [files[h.id] EXCEPT !.parent = h.to]
  <2>1. SetDoc(h.id, d)
    BY <1>4 DEF FilesEffect
  <2>2. j = h.id => d.parent = h.to /\ d.trash = files[j].trash
    BY <1>0 DEF Doc
  <2> HIDE DEF d
  <2> QED
    BY <1>4, <2>1, <2>2 DEF SetDoc, IsLive
<1>5. CASE h.op = "record"
  <2> DEFINE d == [files[h.id] EXCEPT !.msg = h.msg]
  <2>1. SetDoc(h.id, d)
    BY <1>5 DEF FilesEffect
  <2>2. j = h.id => d.parent = files[j].parent /\ d.trash = files[j].trash
    BY <1>0 DEF Doc
  <2> HIDE DEF d
  <2> QED
    BY <1>5, <2>1, <2>2 DEF SetDoc, IsLive
<1>6. CASE h.op = "mark"
  <2> DEFINE d == [files[h.id] EXCEPT !.trash = "trashed"]
  <2>1. SetDoc(h.id, d)
    BY <1>6 DEF FilesEffect
  <2>2. j = h.id => d.parent = files[j].parent /\ d.trash = "trashed"
    BY <1>0 DEF Doc
  <2> HIDE DEF d
  <2> QED
    BY <1>6, <2>1, <2>2 DEF SetDoc, IsLive
<1>7. CASE h.op = "unmark"
  <2> DEFINE d == [files[h.id] EXCEPT !.trash = "live"]
  <2>1. SetDoc(h.id, d)
    BY <1>7 DEF FilesEffect
  <2>2. j = h.id => d.parent = files[j].parent /\ d.trash = "live"
    BY <1>0 DEF Doc
  <2> HIDE DEF d
  <2> QED
    BY <1>7, <2>1, <2>2 DEF SetDoc, IsLive
<1> QED
  BY <1>1, <1>2, <1>3, <1>4, <1>5, <1>6, <1>7

\* Which documents there are afterwards.
LEMMA EffectDomain ==
    ASSUME IInv, NEW h \in Frame, FilesEffect(h)
    PROVE  /\ h.op \notin {"remove", "insert", "copyDoc"} => DOMAIN files' = DOMAIN files /\ nextId' = nextId
           /\ h.op = "remove" => DOMAIN files' = DOMAIN files \ {h.id} /\ nextId' = nextId
           /\ h.op \in {"insert", "copyDoc"} =>
                /\ DOMAIN files' = DOMAIN files \cup {nextId} /\ nextId' = nextId + 1
                /\ files'[nextId].parent = Goal(h)
                /\ h.op = "copyDoc" => IsLive(files'[nextId])
                /\ h.op = "insert" => files'[nextId] = h.doc
           /\ Ids \subseteq Ids'
<1>1. CASE h.op \notin {"insert", "copyDoc"}
  BY <1>1 DEF FilesEffect, SetDoc, Ids
<1>2. CASE h.op = "insert"
  BY <1>2, IdFacts DEF FilesEffect, InsertDoc, Goal, GoalOps, DestOps, Ids
<1>3. CASE h.op = "copyDoc"
  <2> DEFINE d == [h.doc EXCEPT !.parent = h.to, !.trash = "live"]
  <2>1. InsertDoc(d)
    BY <1>3 DEF FilesEffect
  <2>2. d.parent = h.to /\ d.trash = "live"
    BY <1>3, FrameFields DEF Doc
  <2> HIDE DEF d
  <2> QED
    BY <1>3, <2>1, <2>2, IdFacts DEF InsertDoc, Goal, GoalOps, DestOps, Ids, IsLive
<1> QED
  BY <1>1, <1>2, <1>3


(***************************************************************************)
(* A loop takes its next document.                                         *)
(***************************************************************************)
TrashOnly == {"trash", "trashChildren", "trashEach", "mark"}

RestoreOnly == {"restore", "restoreParent", "restoreCheck", "restoreChildren", "restoreEach", "unmark"}

LEMMA KindsApart ==
    ASSUME NEW kind \in Kinds
    PROVE  /\ kind # "trash" => OpsOf[kind] \cap TrashOnly = {}
           /\ kind # "restore" => OpsOf[kind] \cap RestoreOnly = {}
<1>1. CASE kind \in {"trash", "restore"}
  BY <1>1 DEF OpsOf, TrashOnly, RestoreOnly
<1>2. CASE kind \in {"delete", "purge"}
  BY <1>2 DEF OpsOf, TrashOnly, RestoreOnly
<1>3. CASE kind \in {"move", "copy"}
  BY <1>3 DEF OpsOf, TrashOnly, RestoreOnly
<1>4. CASE kind \in {"mkdir", "upload"}
  BY <1>4 DEF OpsOf, TrashOnly, RestoreOnly
<1>5. CASE kind \in {"init", "complete"}
  BY <1>5 DEF OpsOf, TrashOnly, RestoreOnly
<1> QED
  BY <1>1, <1>2, <1>3, <1>4, <1>5 DEF Kinds

LEMMA FineIteration ==
    ASSUME NEW P, Root \in P, NEW l \in Fine(P), l.op \in EachOps, NEW k \in l.kids, NEW f \in Frame,
           f \in IterationMade(l.op, k, l.to) \/ f = Loop(l.op, l.kids \ {k}, l.to)
    PROVE  f \in Fine(P)
<1>1. CASE f = Loop(l.op, l.kids \ {k}, l.to)
  <2>1. f.op = l.op /\ f.kids \subseteq l.kids /\ f.to = l.to
    BY <1>1 DEF Loop
  <2> QED
    BY <2>1 DEF Fine, Late, Goal, GoalOps, DestOps, Steady, EachOps
<1>2. CASE f \in IterationMade(l.op, k, l.to)
  <2>1. CASE l.op = "copyEach"
    <3>1. f = Copy("copyDoc", k.id, k.doc, l.to)
      BY <1>2, <2>1 DEF IterationMade
    <3> QED
      BY <2>1, <3>1 DEF Copy, Fine, Late, Goal, GoalOps, DestOps, Steady
  <2>2. CASE l.op = "restoreEach"
    <3>1. Hangs(k.id) /\ k.id \in High
      BY <2>2 DEF Fine, Steady
    <3> QED
      BY <1>2, <2>2, <3>1 DEF IterationMade, At, Add, Fine, Goal, GoalOps, DestOps, Steady
  <2>3. CASE l.op \in EachOps \ {"copyEach", "restoreEach"}
    <3>1. f.op \in {"trashChildren", "add", "mark", "deleteChildren", "countRefs", "remove", "delete", "size"}
      BY <1>2, <2>3 DEF IterationMade, FileFrames, At, Add, About, Of, EachOps
    <3> QED
      BY <3>1 DEF Fine, Goal, GoalOps, DestOps, Steady
  <2> QED
    BY <2>1, <2>2, <2>3
<1> QED
  BY <1>1, <1>2

LEMMA RootHigh ==
    ASSUME IInv
    PROVE  Root \in High /\ High \subseteq Ids /\ \A i \in Ids : i \in High <=> i \notin Low
BY IdFacts DEF High, Low, Root

\* What the process stands before is as sound as what it had to do.
LEMMA FineReady ==
    ASSUME IInv, NEW p \in Procs, NEW s \in Ready(todo[p]),
           todo[p] \in Seq(Fine(High \cup Pending(todo[p])))
    PROVE  s \in Seq(Fine(High \cup Pending(s)))
<1>1. s = todo[p] \/ \E k : Takes(Head(todo[p]), k, Tail(todo[p]), s)
  BY ReadyShape
<1>2. CASE s = todo[p]
  BY <1>2
<1>3. ASSUME NEW k, Takes(Head(todo[p]), k, Tail(todo[p]), s) PROVE s \in Seq(Fine(High \cup Pending(s)))
  <2> DEFINE X == Fine(High)
  <2>1. Pending(todo[p]) = {}
    BY <1>3 DEF Takes, Pending, EachOps
  <2>2. todo[p] \in Seq(X) /\ X \subseteq Frame /\ s \in Seq(Frame)
    <3>1. High \cup Pending(todo[p]) = High
      BY <2>1
    <3> QED
      BY <3>1, CallTail DEF Calls, Fine
  <2>3. ASSUME NEW l \in X, l.op \in EachOps, NEW j \in l.kids, NEW f \in Frame,
               f \in IterationMade(l.op, j, l.to) \/ f = Loop(l.op, l.kids \ {j}, l.to)
        PROVE  f \in X
    BY <2>3, RootHigh, FineIteration
  <2>4. X \subseteq Fine(High \cup Pending(s))
    BY DEF Fine
  <2> HIDE DEF X
  <2>5. s \in Seq(X)
    BY <2>2, <2>3, ReadyIn
  <2> QED
    BY <2>4, <2>5, SeqWider
<1> QED
  BY <1>1, <1>2, <1>3

\* Has and Before at a loop.
LEMMA BeforeThen ==
    ASSUME NEW N, NEW G, NEW F, NEW a \in Seq(F), NEW b \in Seq(F), Before(a, N, G), Needless(b, N)
    PROVE  Before(a \o b, N, G)
<1> DEFINE t == a \o b
<1>1. /\ Len(t) = Len(a) + Len(b) /\ Len(a) \in Nat /\ Len(b) \in Nat
      /\ \A i \in 1 .. Len(a) + Len(b) : t[i] = IF i <= Len(a) THEN a[i] ELSE b[i - Len(a)]
  BY ConcatProperties
<1> HIDE DEF t
<1>2. ASSUME NEW k \in 1 .. Len(t), NEW x \in N[t[k]] PROVE \E j \in 1 .. (k - 1) : x \in G[t[j]]
  <2>1. k <= Len(a)
    <3>1. SUFFICES ASSUME ~(k <= Len(a)) PROVE FALSE
      OBVIOUS
    <3> DEFINE i == k - Len(a)
    <3>2. i \in 1 .. Len(b) /\ t[k] = b[i]
      BY <1>1, <3>1
    <3> HIDE DEF i
    <3> QED
      BY <1>2, <3>2 DEF Needless
  <2>2. k \in 1 .. Len(a) /\ t[k] = a[k]
    BY <1>1, <2>1
  <2>3. PICK j \in 1 .. (k - 1) : x \in G[a[j]]
    BY <1>2, <2>2 DEF Before
  <2>4. t[j] = a[j]
    BY <1>1, <2>2, <2>3
  <2> QED
    BY <2>3, <2>4
<1> QED
  BY <1>2 DEF Before, t

LEMMA EasedSelf ==
    ASSUME NEW F, NEW N, NEW G
    PROVE  Eased(F, N, G, N, G)
BY DEF Eased

LEMMA LoopParts ==
    ASSUME NEW l \in Frame, l.op \in EachOps, NEW k \in l.kids
    PROVE  /\ k \in Kid /\ Loop(l.op, l.kids \ {k}, l.to) \in Frame
           /\ Iteration(l.op, k, l.to) \in Seq(Frame)
           /\ Each(l.op, l.kids \ {k}, l.to) \in Seq(Frame)
<1>1. l.kids \in SUBSET Kid /\ l.to \in Nat
  BY FrameFields
<1>2. Loop(l.op, l.kids \ {k}, l.to) \in Frame
  BY <1>1 DEF Loop, Frame
<1> DEFINE a == Iteration(l.op, k, l.to)
           b == Each(l.op, l.kids \ {k}, l.to)
           N == {Loop(l.op, l.kids \ {k}, l.to)}
<1>3. a \in Seq(FramesAt(Nat))
  BY <1>1, IterationSeq DEF Root
<1>4. b \in Seq(N) /\ N \subseteq Frame /\ FramesAt(Nat) \subseteq Frame
  BY <1>2, LaterIn DEF FramesAt
<1> HIDE DEF a, b, N
<1>5. a \in Seq(Frame) /\ b \in Seq(Frame)
  BY <1>3, <1>4, SeqWider
<1> QED
  BY <1>1, <1>2, <1>5 DEF a, b

\* A loop over documents that it marks, or unmarks.
LoopOver(G, each, one) ==
    \A f \in Frame : /\ f.op = each => G[f] = {k.id : k \in f.kids}
                     /\ f.op = one => G[f] = {f.id}
                     /\ f.op \in EachOps \ {each} => G[f] = {}

LEMMA LoopGives ==
    ASSUME NEW G, NEW each, NEW one, LoopOver(G, each, one),
           <<each, one>> \in {<<"trashEach", "mark">>, <<"restoreEach", "unmark">>},
           NEW l \in Frame, l.op \in EachOps, NEW k \in l.kids, NEW x \in G[l]
    PROVE  Has(Iteration(l.op, k, l.to) \o Each(l.op, l.kids \ {k}, l.to), G, x)
<1> DEFINE a == Iteration(l.op, k, l.to)
           b == Each(l.op, l.kids \ {k}, l.to)
<1>1. k \in Kid /\ Loop(l.op, l.kids \ {k}, l.to) \in Frame
  BY LoopParts
<1>2. a \in Seq(Frame) /\ b \in Seq(Frame)
  BY LoopParts
<1>3. l.op = each /\ \E j \in l.kids : x = j.id
  BY DEF LoopOver
<1>4. CASE x = k.id
  <2> DEFINE y == IF IsFolder(k.doc) THEN At(IF each = "trashEach" THEN "trashChildren" ELSE "restoreChildren", k.id)
                  ELSE Add(IF each = "trashEach" THEN -Bytes(k.doc) ELSE Bytes(k.doc))
             m == At(one, k.id)
             c == <<y>>
             d == <<m>>
  <2>1. a = <<y, m>>
    BY <1>3 DEF Iteration
  <2>2. m \in Frame /\ m.op = one /\ m.id = k.id
    BY <1>1 DEF At, Frame, AtOps, Kid
  <2>3. x \in G[m]
    BY <1>4, <2>2 DEF LoopOver
  <2> HIDE DEF y, m
  <2>4. c \in Seq({y, m}) /\ d \in Seq({y, m}) /\ a = c \o d
    BY <2>1, PairConcat, Single
  <2>5. Has(d, G, x)
    BY <2>3, HasSingle
  <2> HIDE DEF a, c, d, b
  <2>6. Has(a, G, x)
    BY <2>4, <2>5, HasConcat
  <2> QED
    BY <1>1, <1>2, <2>6, HasConcat DEF a, b
<1>5. CASE x # k.id
  <2> DEFINE r == Loop(l.op, l.kids \ {k}, l.to)
  <2>1. PICK j \in l.kids \ {k} : x = j.id
    BY <1>3, <1>5
  <2>2. b = <<r>>
    BY <2>1 DEF Each, Loop
  <2>3. x \in G[r]
    BY <1>1, <1>3, <2>1 DEF LoopOver, Loop
  <2> HIDE DEF r, b, a
  <2>4. Has(b, G, x)
    BY <2>2, <2>3, HasSingle
  <2> QED
    BY <1>1, <1>2, <2>4, HasConcat DEF a, b
<1> QED
  BY <1>4, <1>5

LEMMA LoopsOver == LoopOver(Raises, "restoreEach", "unmark") /\ LoopOver(Marks(Standing), "trashEach", "mark")
BY DEF LoopOver, Raises, Marks, EachOps

LEMMA RaisesReady ==
    ASSUME NEW s \in Seq(Frame), NEW t \in Ready(s), NEW x, Has(s, Raises, x)
    PROVE  Has(t, Raises, x)
<1>1. s # <<>> /\ (t = s \/ \E k : Takes(Head(s), k, Tail(s), t))
  BY ReadyShape
<1>2. Head(s) \in Frame /\ Tail(s) \in Seq(Frame)
  BY <1>1
<1>3. ASSUME NEW k, Takes(Head(s), k, Tail(s), t) PROVE Has(t, Raises, x)
  <2> DEFINE l == Head(s)
             a == Iteration(l.op, k, l.to)
             b == Each(l.op, l.kids \ {k}, l.to)
             n == a \o b
  <2>1. l \in Frame /\ k \in l.kids /\ l.op \in EachOps /\ t = a \o b \o Tail(s)
    BY <1>2, <1>3 DEF Takes
  <2>2. a \in Seq(Frame) /\ b \in Seq(Frame)
    BY <2>1, LoopParts
  <2>3. n \in Seq(Frame) /\ t = n \o Tail(s)
    <3> HIDE DEF a, b
    <3> QED
      BY <2>1, <2>2, Concat
  <2>4. x \in Raises[l] \/ Has(Tail(s), Raises, x)
    BY <1>1, HasTail
  <2>5. x \in Raises[l] => Has(n, Raises, x)
    BY <2>1, LoopsOver, LoopGives
  <2> HIDE DEF n
  <2> QED
    BY <1>2, <2>3, <2>4, <2>5, HasConcat
<1> QED
  BY <1>1, <1>3

\* An order that the iterations of loops keep.
LEMMA BeforeReady ==
    ASSUME NEW N, NEW G, NEW s \in Seq(Frame), NEW t \in Ready(s), Before(s, N, G),
           ASSUME NEW k, Head(s).op \in EachOps, k \in Head(s).kids
           PROVE  LET n == Iteration(Head(s).op, k, Head(s).to)
                             \o Each(Head(s).op, Head(s).kids \ {k}, Head(s).to)
                  IN  Before(n, N, G) /\ \A x \in G[Head(s)] : Has(n, G, x)
    PROVE  Before(t, N, G)
<1>1. s # <<>> /\ (t = s \/ \E k : Takes(Head(s), k, Tail(s), t))
  BY ReadyShape
<1>2. Head(s) \in Frame /\ Tail(s) \in Seq(Frame)
  BY <1>1
<1>3. ASSUME NEW k, Takes(Head(s), k, Tail(s), t) PROVE Before(t, N, G)
  <2> DEFINE l == Head(s)
             a == Iteration(l.op, k, l.to)
             b == Each(l.op, l.kids \ {k}, l.to)
             n == a \o b
  <2>1. l \in Frame /\ k \in l.kids /\ l.op \in EachOps /\ t = a \o b \o Tail(s)
    BY <1>2, <1>3 DEF Takes
  <2>2. a \in Seq(Frame) /\ b \in Seq(Frame)
    BY <2>1, LoopParts
  <2>3. n \in Seq(Frame) /\ t = n \o Tail(s)
    <3> HIDE DEF a, b
    <3> QED
      BY <2>1, <2>2, Concat
  <2>4. Before(n, N, G) /\ \A x \in G[Head(s)] : Has(n, G, x)
    BY <2>1
  <2> HIDE DEF n
  <2>5. Before(n \o Tail(s), N, G)
    BY <1>1, <2>3, <2>4, EasedSelf, BeforeReplaced
  <2> QED
    BY <2>3, <2>5
<1> QED
  BY <1>1, <1>3

LEMMA MarksGive ==
    ASSUME NEW l \in Frame, l.op \in EachOps, NEW k \in l.kids, NEW x \in Marks(Standing)[l]
    PROVE  Has(Iteration(l.op, k, l.to) \o Each(l.op, l.kids \ {k}, l.to), Marks(Standing), x)
BY LoopsOver, LoopGives

LEMMA MarkReady ==
    ASSUME IInv, NEW p \in Procs, NEW s \in Ready(todo[p]), Before(todo[p], MarkNeeds(Standing), Marks(Standing)),
           todo[p] \in Seq(Fine(High \cup Pending(todo[p])))
    PROVE  Before(s, MarkNeeds(Standing), Marks(Standing))
<1> DEFINE u == todo[p]
           l == Head(u)
<1>1. u \in Seq(Frame) /\ u # <<>>
  BY ReadyShape DEF IInv, TypeOK
<1>2. l \in Frame /\ Steady(l)
  <2>1. l \in Fine(High \cup Pending(u))
    BY <1>1
  <2> QED
    BY <2>1 DEF Fine
<1>3. ASSUME NEW k, l.op \in EachOps, k \in l.kids
      PROVE  LET n == Iteration(l.op, k, l.to) \o Each(l.op, l.kids \ {k}, l.to)
             IN  /\ Before(n, MarkNeeds(Standing), Marks(Standing))
                 /\ \A x \in Marks(Standing)[l] : Has(n, Marks(Standing), x)
  <2> DEFINE a == Iteration(l.op, k, l.to)
             b == Each(l.op, l.kids \ {k}, l.to)
             M == IterationMade(l.op, k, l.to)
             n == a \o b
             r == Loop(l.op, l.kids \ {k}, l.to)
  <2>1. k \in Kid /\ r \in Frame /\ a \in Seq(M) /\ b \in Seq({r})
    BY <1>2, <1>3, LoopParts, IterationIn, LaterIn
  <2>2. a \in Seq(Frame) /\ b \in Seq(Frame)
    BY <1>2, <1>3, LoopParts
  <2>3. \A x \in Marks(Standing)[l] : Has(n, Marks(Standing), x)
    <3>1. LoopOver(Marks(Standing), "trashEach", "mark") /\ l \in Frame /\ l.op \in EachOps /\ k \in l.kids
      BY <1>2, <1>3, LoopsOver
    <3> HIDE DEF l
    <3> QED
      BY <3>1, MarksGive
  <2>4. Needless(b, MarkNeeds(Standing))
    <3>1. MarkNeeds(Standing)[r] = {}
      BY <1>3, <2>1 DEF MarkNeeds, Loop, EachOps
    <3> HIDE DEF a, b, M, r
    <3> QED
      BY <2>1, <3>1, NeedlessSeq
  <2>5. Before(a, MarkNeeds(Standing), Marks(Standing))
    <3>1. CASE l.op = "trashEach"
      <4> DEFINE y == IF IsFolder(k.doc) THEN At("trashChildren", k.id) ELSE Add(-Bytes(k.doc))
                 m == At("mark", k.id)
                 c == <<y>>
      <4>1. a = <<y, m>>
        BY <3>1 DEF Iteration
      <4>2. y \in Frame /\ m \in Frame /\ y.op # "mark" /\ m.op = "mark" /\ m.id = k.id
        <5>1. -Bytes(k.doc) \in Int
          BY <2>1, BytesNat DEF Kid
        <5> QED
          BY <2>1, <5>1 DEF At, Add, Frame, AtOps, Kid
      <4>3. MarkNeeds(Standing)[y] = {}
        BY <4>2 DEF MarkNeeds
      <4>4. \A x \in MarkNeeds(Standing)[m] : x \in Marks(Standing)[y]
        <5>1. MarkNeeds(Standing)[m] = IF k.id \in DOMAIN Standing THEN LiveChildren(Standing, k.id) ELSE {}
          BY <4>2 DEF MarkNeeds
        <5>2. CASE IsFolder(k.doc)
          <6>1. y.op = "trashChildren" /\ y.id = k.id
            BY <5>2 DEF At
          <6>2. Marks(Standing)[y] = LiveChildren(Standing, k.id)
            BY <4>2, <6>1 DEF Marks
          <6> QED
            BY <5>1, <6>2
        <5>3. CASE ~IsFolder(k.doc)
          <6>1. NotFolder(k.id)
            BY <1>2, <1>3, <3>1, <5>3 DEF Steady
          <6>2. k.id \in DOMAIN Standing => Children(Standing, k.id) = {}
            BY <6>1, StandingFacts DEF IInv, Safe, NotFolder, Children
          <6> QED
            BY <5>1, <6>2 DEF LiveChildren
        <5> QED
          BY <5>2, <5>3
      <4> HIDE DEF y, m
      <4>5. c \in Seq({y, m}) /\ m \in {y, m} /\ a = c \o <<m>>
        BY <4>1, PairConcat, Single
      <4>6. Needless(c, MarkNeeds(Standing)) /\ \A x \in MarkNeeds(Standing)[m] : Has(c, Marks(Standing), x)
        <5>1. c \in Seq({y})
          BY Single
        <5>2. Needless(c, MarkNeeds(Standing))
          <6> HIDE DEF c
          <6> QED
            BY <4>3, <5>1, NeedlessSeq
        <5> QED
          BY <4>4, <5>2, HasSingle
      <4> HIDE DEF a, c
      <4> QED
        BY <4>5, <4>6, BeforeLast
    <3>2. CASE l.op # "trashEach"
      <4>2. \A f \in M : f.op # "mark"
        <5> SUFFICES ASSUME NEW f \in M PROVE f.op # "mark"
          OBVIOUS
        <5>1. f.op \in MoreOps(l.op)
          BY <1>3, IterationOps
        <5> QED
          BY <1>3, <3>2, <5>1 DEF EachOps, MoreOps
      <4>4. a \in Seq(M \cap Frame)
        <5> HIDE DEF a, M
        <5> QED
          BY <2>1, <2>2, Both
      <4>5. \A f \in M \cap Frame : MarkNeeds(Standing)[f] = {}
        BY <4>2 DEF MarkNeeds
      <4> HIDE DEF a, b, M, r
      <4>6. Needless(a, MarkNeeds(Standing))
        BY <4>4, <4>5, NeedlessSeq
      <4> QED
        BY <4>6, NeedlessBefore
    <3> QED
      BY <3>1, <3>2
  <2> HIDE DEF a, b
  <2>6. Before(n, MarkNeeds(Standing), Marks(Standing))
    BY <2>2, <2>4, <2>5, BeforeThen
  <2> QED
    BY <2>3, <2>6 DEF a, b
<1> HIDE DEF l
<1>4. Before(u, MarkNeeds(Standing), Marks(Standing))
  OBVIOUS
<1> HIDE DEF u
<1> QED
  BY <1>1, <1>3, <1>4, BeforeReady DEF l, u

LEMMA CheckReady ==
    ASSUME IInv, NEW p \in Procs, NEW s \in Ready(todo[p]), NEW L, Before(todo[p], CheckNeeds(L), Lifts)
    PROVE  Before(s, CheckNeeds(L), Lifts)
<1> DEFINE u == todo[p]
           l == Head(u)
           N == CheckNeeds(L)
<1>1. u \in Seq(Frame) /\ u # <<>>
  BY ReadyShape DEF IInv, TypeOK
<1>2. l \in Frame
  BY <1>1
<1>3. ASSUME NEW k, l.op \in EachOps, k \in l.kids
      PROVE  LET n == Iteration(l.op, k, l.to) \o Each(l.op, l.kids \ {k}, l.to)
             IN  Before(n, N, Lifts) /\ \A x \in Lifts[l] : Has(n, Lifts, x)
  <2> DEFINE a == Iteration(l.op, k, l.to)
             b == Each(l.op, l.kids \ {k}, l.to)
             M == IterationMade(l.op, k, l.to)
             r == Loop(l.op, l.kids \ {k}, l.to)
             F == (M \cup {r}) \cap Frame
             n == a \o b
  <2>1. a \in Seq(M) /\ b \in Seq({r}) /\ a \in Seq(Frame) /\ b \in Seq(Frame)
    BY <1>2, <1>3, LoopParts, IterationIn, LaterIn
  <2>2. \A f \in F : f.op # "restoreCheck"
    <3> SUFFICES ASSUME NEW f \in F PROVE f.op # "restoreCheck"
      OBVIOUS
    <3>1. f.op \in MoreOps(l.op)
      BY <1>3, IterationOps
    <3> QED
      BY <1>3, <3>1 DEF EachOps, MoreOps
  <2>3. \A f \in F : N[f] = {}
    BY <2>2 DEF CheckNeeds
  <2>4. Lifts[l] = {}
    BY <1>2, <1>3 DEF Lifts, EachOps
  <2>5. n \in Seq(F)
    <3>1. M \subseteq M \cup {r} /\ {r} \subseteq M \cup {r}
      OBVIOUS
    <3> HIDE DEF a, b, M, r
    <3>2. a \in Seq(M \cup {r}) /\ b \in Seq(M \cup {r})
      BY <2>1, <3>1, SeqWider
    <3>3. a \in Seq(F) /\ b \in Seq(F)
      BY <2>1, <3>2, Both
    <3> HIDE DEF F
    <3> QED
      BY <3>3, Concat
  <2> HIDE DEF n, F, N
  <2>6. Before(n, N, Lifts)
    BY <2>3, <2>5, NeedlessSeq, NeedlessBefore
  <2> QED
    BY <2>4, <2>6 DEF n
<1>4. Before(u, N, Lifts)
  OBVIOUS
<1> HIDE DEF l, u, N
<1>5. Before(s, N, Lifts)
  BY <1>1, <1>3, <1>4, BeforeReady DEF l, u
<1> QED
  BY <1>5 DEF N

(***************************************************************************)
(* The order of calls after a step.                                        *)
(***************************************************************************)
LEMMA NeedlessOps ==
    ASSUME NEW O, NEW s \in Seq(FramesOf(O))
    PROVE  /\ "mark" \notin O => \A lib : Needless(s, MarkNeeds(lib))
           /\ "restoreCheck" \notin O => \A L : Needless(s, CheckNeeds(L))
<1> DEFINE F == FramesOf(O)
<1>1. ASSUME "mark" \notin O, NEW lib PROVE Needless(s, MarkNeeds(lib))
  <2>1. \A f \in F : MarkNeeds(lib)[f] = {}
    BY <1>1 DEF FramesOf, MarkNeeds
  <2> HIDE DEF F
  <2>2. s \in Seq(F)
    BY DEF F
  <2> QED
    BY <2>1, <2>2, NeedlessSeq
<1>2. ASSUME "restoreCheck" \notin O, NEW L PROVE Needless(s, CheckNeeds(L))
  <2>1. \A f \in F : CheckNeeds(L)[f] = {}
    BY <1>2 DEF FramesOf, CheckNeeds
  <2> HIDE DEF F
  <2>2. s \in Seq(F)
    BY DEF F
  <2> QED
    BY <2>1, <2>2, NeedlessSeq
<1> QED
  BY <1>1, <1>2

\* The calls that may make a document live, or put it somewhere.
Stirs == {"setParent", "insert", "copyDoc", "unmark"}

LEMMA LiveChildrenStay ==
    ASSUME IInv, NEW h \in Frame, TreeEffect(h), KindsStay, h.op \notin Stirs
    PROVE  /\ DOMAIN Standing' \subseteq DOMAIN Standing
           /\ \A i : LiveChildren(Standing', i) \subseteq LiveChildren(Standing, i)
           /\ \A j \in DOMAIN Standing' : Standing'[j].parent = Standing[j].parent
<1>0. FilesEffect(h) /\ uploads \subseteq uploads'
  BY DEF TreeEffect
<1>1. DOMAIN files' \subseteq DOMAIN files
  BY <1>0, EffectDomain DEF Stirs
<1>2. \A j \in DOMAIN files' : /\ files'[j].parent = files[j].parent /\ files'[j].kind = files[j].kind
                               /\ IsLive(files'[j]) => IsLive(files[j])
  BY <1>0, <1>1, EffectTrash DEF Stirs, KindsStay
<1>3. /\ DOMAIN Standing' \subseteq DOMAIN Standing /\ DOMAIN Standing' \subseteq DOMAIN files'
      /\ \A j \in DOMAIN Standing' : Standing[j] = files[j] /\ Standing'[j] = files'[j]
  <2>1. DOMAIN Standing' \subseteq DOMAIN Standing
    BY <1>0, <1>1, <1>2, StandingShrinks
  <2> QED
    BY <2>1, StandingFacts DEF Standing, Firm
<1> QED
  BY <1>2, <1>3 DEF LiveChildren, Children

LEMMA MarkEased ==
    ASSUME IInv, NEW h \in Frame, TreeEffect(h), KindsStay, h.op \notin Stirs
    PROVE  Eased(Frame, MarkNeeds(Standing), Marks(Standing), MarkNeeds(Standing'), Marks(Standing'))
<1>1. /\ DOMAIN Standing' \subseteq DOMAIN Standing
      /\ \A i : LiveChildren(Standing', i) \subseteq LiveChildren(Standing, i)
      /\ \A j \in DOMAIN Standing' : Standing'[j].parent = Standing[j].parent
  BY LiveChildrenStay
<1>2. ASSUME NEW f \in Frame PROVE MarkNeeds(Standing')[f] \subseteq MarkNeeds(Standing)[f]
  BY <1>1 DEF MarkNeeds
<1>3. ASSUME NEW f \in Frame, NEW g \in Frame, NEW x \in MarkNeeds(Standing')[f], x \in Marks(Standing)[g]
      PROVE  x \in Marks(Standing')[g]
  <2>1. x \in LiveChildren(Standing', f.id)
    BY <1>3 DEF MarkNeeds
  <2>2. \A i : x \in LiveChildren(Standing, i) => x \in LiveChildren(Standing', i)
    BY <1>1, <2>1 DEF LiveChildren, Children
  <2> QED
    BY <1>3, <2>2 DEF Marks
<1> QED
  BY <1>2, <1>3 DEF Eased

\* The frames whose folder has an id that was handed out.
ParentKnown == {f \in Frame : f.op = "restoreCheck" => f.doc.parent \in Ids}

LEMMA CheckEased ==
    ASSUME NEW A, NEW B, B \cap Ids \subseteq A
    PROVE  Eased(ParentKnown, CheckNeeds(A), Lifts, CheckNeeds(B), Lifts)
BY DEF Eased, ParentKnown, CheckNeeds

LEMMA FollowsNoLoop ==
    ASSUME NEW p, NEW h, NEW new, Follows(p, h, new)
    PROVE  h.op \notin EachOps
BY DEF Follows, FollowsPlace, FollowsTrash, FollowsDelete, EachOps, Plain

LEMMA OnlyOne ==
    ASSUME NEW F, NEW f, <<f>> \in Seq(F)
    PROVE  f \in F
OBVIOUS

LEMMA MarkFollows ==
    ASSUME IInv, NEW p, NEW h \in Frame, NEW new \in Seq(Frame), new \in Seq(Made(p, h)),
           Follows(p, h, new), TreeEffect(h), KindsStay, h.op \notin Stirs
    PROVE  /\ Before(new, MarkNeeds(Standing'), Marks(Standing'))
           /\ \A f \in Frame : \A x \in MarkNeeds(Standing')[f] :
                x \in Marks(Standing)[h] => Has(new, Marks(Standing'), x)
<1>0. h.op \notin EachOps /\ (h.op \in AtOps => h.id \in Nat) /\ FilesEffect(h)
  BY FollowsNoLoop, FrameFields DEF TreeEffect
<1>1. CASE h.op = "trash"
  <2>1. files' = files /\ h.id \in Live(files) /\ Standing' = Standing
    <3>1. files' = files /\ h.id \in Live(files) /\ uploads' = uploads
      BY <1>1 DEF TreeEffect, FilesEffect, Follows, FollowsPlace, FollowsTrash, FollowsDelete, Plain
    <3> QED
      BY <3>1, SameStanding
  <2>2. Marks(Standing)[h] = {}
    BY <1>1 DEF Marks
  <2> DEFINE m == At("mark", h.id)
             N == MarkNeeds(Standing)
  <2>3. /\ m \in Frame
        /\ N[m] = IF h.id \in DOMAIN Standing THEN LiveChildren(Standing, h.id) ELSE {}
    BY <1>0, <1>1 DEF At, AtOps, Frame, MarkNeeds
  <2>4. CASE IsFolder(files[h.id]) /\ new = <<At("trashChildren", h.id), At("mark", h.id)>>
    <3> DEFINE y == At("trashChildren", h.id)
               c == <<y>>
    <3>1. y \in Frame /\ N[y] = {} /\ Marks(Standing)[y] = LiveChildren(Standing, h.id)
      BY <1>0, <1>1 DEF At, AtOps, Frame, MarkNeeds, Marks
    <3>2. new = <<y, m>>
      BY <2>4
    <3> HIDE DEF y, m, N
    <3>3. c \in Seq({y, m}) /\ c \in Seq({y}) /\ new = c \o <<m>>
      BY <3>2, PairConcat, Single
    <3>4. \A x \in N[m] : Has(c, Marks(Standing), x)
      BY <2>3, <3>1, HasSingle
    <3> HIDE DEF c
    <3>5. Needless(c, N)
      BY <3>1, <3>3, NeedlessSeq
    <3>6. Before(c \o <<m>>, N, Marks(Standing))
      BY <3>3, <3>4, <3>5, BeforeLast
    <3> QED
      BY <2>1, <2>2, <3>3, <3>6 DEF N
  <2>5. CASE ~IsFolder(files[h.id]) /\ new = <<At("mark", h.id), Add(-Bytes(files[h.id]))>>
    <3> DEFINE y == Add(-Bytes(files[h.id]))
    <3>1. y \in Frame /\ N[y] = {}
      <4>1. -Bytes(files[h.id]) \in Int
        BY <2>1, BytesNat DEF IInv, TypeOK, Live
      <4> QED
        BY <4>1 DEF Add, Frame, MarkNeeds
    <3>2. N[m] = {}
      <4>1. Children(files, h.id) = {}
        BY <2>1, <2>5 DEF Children, IInv, Safe, Live
      <4> QED
        BY <2>3, <4>1, StandingFacts DEF LiveChildren
    <3>3. new = <<m, y>>
      BY <2>5
    <3> HIDE DEF y, m, N
    <3>4. new \in Seq({m, y})
      BY <3>3
    <3>5. Before(new, N, Marks(Standing))
      BY <3>1, <3>2, <3>4, NeedlessSeq, NeedlessBefore
    <3> QED
      BY <2>1, <2>2, <3>5 DEF N
  <2> QED
    BY <1>1, <2>4, <2>5 DEF Follows, FollowsPlace, FollowsTrash, FollowsDelete, Plain
<1>2. CASE h.op # "trash"
  <2>1. Before(new, MarkNeeds(Standing'), Marks(Standing'))
    <3> DEFINE F == Made(p, h) \cap Frame
               N == MarkNeeds(Standing')
    <3>1. \A f \in F : N[f] = {}
      <4> SUFFICES ASSUME NEW f \in F PROVE f.op # "mark"
        BY DEF MarkNeeds
      <4>1. f.op \in MoreOps(h.op)
        BY MadeOps
      <4> QED
        BY <1>0, <1>2, <4>1 DEF MoreOps, EachOps
    <3>2. new \in Seq(F)
      BY Both
    <3> HIDE DEF F, N
    <3>3. Before(new, N, Marks(Standing'))
      BY <3>1, <3>2, NeedlessSeq, NeedlessBefore
    <3> QED
      BY <3>3 DEF N
  <2>2. ASSUME NEW f \in Frame, NEW x \in MarkNeeds(Standing')[f], x \in Marks(Standing)[h]
        PROVE  Has(new, Marks(Standing'), x)
    <3>0. x \in LiveChildren(Standing', f.id) /\ x \in DOMAIN files' /\ IsLive(files'[x])
      BY <2>2 DEF MarkNeeds, LiveChildren, Children, Standing, Firm
    <3>1. \/ h.op = "mark" /\ x = h.id
          \/ h.op = "trashChildren" /\ x \in LiveChildren(files, h.id)
      <4>1. LiveChildren(Standing, h.id) \subseteq LiveChildren(files, h.id)
        BY StandingFacts DEF LiveChildren
      <4> QED
        BY <1>0, <2>2, <4>1 DEF Marks, EachOps
    <3>2. CASE h.op = "mark" /\ x = h.id
      <4>1. x \in DOMAIN files' /\ IsLive(files'[x]) /\ x \in DOMAIN files
        BY <1>0, <3>0, <3>2, EffectDomain
      <4> QED
        BY <1>0, <3>2, <4>1, EffectTrash
    <3>3. CASE h.op = "trashChildren" /\ x \in LiveChildren(files, h.id)
      <4> DEFINE S == LiveChildren(files, h.id)
                 r == Loop("trashEach", Fetch(S), Root)
                 k == [id |-> x, doc |-> files[x]]
      <4>1. files' = files /\ new = Each("trashEach", Fetch(S), Root)
        BY <1>0, <3>3 DEF FilesEffect, Follows, FollowsPlace, FollowsTrash, FollowsDelete, Plain
      <4>2. k \in Fetch(S) /\ k.id = x
        BY <3>3 DEF Fetch
      <4>3. new = <<r>>
        BY <4>1, <4>2 DEF Each, Loop
      <4>4. r \in Frame
        <5> HIDE DEF r
        <5>1. <<r>> \in Seq(Frame)
          BY <4>3
        <5> QED
          BY <5>1, OnlyOne
      <4>5. x \in Marks(Standing')[r]
        <5>1. r.op = "trashEach" /\ r.kids = Fetch(S)
          BY DEF Loop
        <5> HIDE DEF r, k, S
        <5>2. \A lib : Marks(lib)[r] = {j.id : j \in r.kids}
          BY <4>4, <5>1 DEF Marks
        <5>3. Marks(Standing')[r] = {j.id : j \in r.kids}
          BY <5>2
        <5> QED
          BY <4>2, <5>1, <5>3
      <4> HIDE DEF r
      <4> QED
        BY <4>3, <4>5, HasSingle
    <3> QED
      BY <3>1, <3>2, <3>3
  <2> QED
    BY <2>1, <2>2
<1> QED
  BY <1>1, <1>2

LEMMA CheckFollows ==
    ASSUME IInv, NEW p, NEW h \in Frame, NEW new \in Seq(Frame), new \in Seq(Made(p, h)),
           Follows(p, h, new), FilesEffect(h), NEW B,
           \A x \in B : x \in DOMAIN files' /\ ~IsLive(files'[x]) /\ ~Has(new, Raises, x)
    PROVE  /\ Before(new, CheckNeeds(B), Lifts)
           /\ \A x \in B \cap Lifts[h] : Has(new, Lifts, x)
<1> DEFINE N == CheckNeeds(B)
<1>0. h.op \notin EachOps /\ (h.op \in AtOps \cup DocOps => h.id \in Nat) /\ (h.op \in DocOps => h.doc \in Doc)
  BY FollowsNoLoop, FrameFields
<1>1. CASE h.op = "restore"
  <2> DEFINE d == files[h.id]
             r == Of("restoreCheck", h.id, d)
             y == Of("restoreParent", h.id, d)
             c == <<y>>
             e == <<r>>
  <2>1. files' = files /\ h.id \in DOMAIN files /\ d \in Doc
    BY <1>1 DEF FilesEffect, Follows, FollowsPlace, FollowsTrash, FollowsDelete, Plain, IInv, TypeOK
  <2>2. r \in Frame /\ y \in Frame /\ r.op = "restoreCheck" /\ r.id = h.id /\ r.doc = d /\ y.op = "restoreParent" /\ y.doc = d
    BY <1>0, <1>1, <2>1 DEF Of, Frame, DocOps, AtOps
  <2>3. N[y] = {} /\ Lifts[y] = {d.parent} /\ N[r] = {d.parent} \cap B /\ Lifts[r] = {h.id} /\ Lifts[h] = {h.id}
    BY <1>1, <2>2 DEF CheckNeeds, Lifts
  <2>4. d.parent = Root => d.parent \notin B
    BY <2>1, IdFacts DEF Root
  <2>5. \/ d.parent = Root /\ new = e
        \/ new = <<y, r>>
    BY <1>1 DEF Follows, FollowsPlace, FollowsTrash, FollowsDelete, Plain
  <2> HIDE DEF r, y, d, N
  <2>6. e \in Seq({r}) /\ e \in Seq(Frame) /\ c \in Seq(Frame) /\ c \in Seq({y}) /\ c \o e = <<y, r>>
    BY <2>2, PairConcat, Single
  <2>7. Has(e, Lifts, h.id)
    BY <2>3, HasSingle
  <2>8. \A x \in N[r] : Has(c, Lifts, x)
    BY <2>3, HasSingle
  <2> HIDE DEF c
  <2>9. Needless(c, N)
    BY <2>3, <2>6, NeedlessSeq
  <2>10. Before(c \o e, N, Lifts)
    BY <2>2, <2>6, <2>8, <2>9, BeforeLast
  <2> HIDE DEF e
  <2>11. Has(c \o e, Lifts, h.id)
    BY <2>6, <2>7, HasConcat
  <2>12. CASE d.parent = Root /\ new = e
    <3>1. N[r] = {}
      BY <2>3, <2>4, <2>12
    <3>2. Before(e, N, Lifts)
      BY <2>6, <3>1, NeedlessSeq, NeedlessBefore
    <3> QED
      BY <2>3, <2>7, <2>12, <3>2 DEF N
  <2>13. CASE new = <<y, r>>
    BY <2>3, <2>6, <2>10, <2>11, <2>13 DEF N
  <2> QED
    BY <2>5, <2>12, <2>13
<1>2. CASE h.op # "restore"
  <2>1. Before(new, N, Lifts)
    <3> DEFINE F == Made(p, h) \cap Frame
    <3>1. \A f \in F : N[f] = {}
      <4> SUFFICES ASSUME NEW f \in F PROVE f.op # "restoreCheck"
        BY DEF CheckNeeds
      <4>1. f.op \in MoreOps(h.op)
        BY MadeOps
      <4> QED
        BY <1>0, <1>2, <4>1 DEF MoreOps, EachOps
    <3>2. new \in Seq(F)
      BY Both
    <3> HIDE DEF F, N
    <3> QED
      BY <3>1, <3>2, NeedlessSeq, NeedlessBefore
  <2>2. ASSUME NEW x \in B, x \in Lifts[h] PROVE Has(new, Lifts, x)
    <3>1. \/ h.op = "restoreCheck" /\ x = h.id
          \/ h.op = "restoreParent" /\ x = h.doc.parent
      BY <1>2, <2>2 DEF Lifts
    <3>2. CASE h.op = "restoreCheck" /\ x = h.id
      <4> DEFINE m == At("unmark", h.id)
      <4>0. files' = files
        BY <3>2 DEF FilesEffect
      <4>1. \/ h.id \in Live(files)
            \/ new = <<m, At("restoreChildren", h.id)>>
            \/ new = <<m, Add(Bytes(h.doc))>>
        BY <3>2 DEF Follows, FollowsPlace, FollowsTrash, FollowsDelete, Plain
      <4>2. h.id \notin Live(files)
        BY <2>2, <3>2, <4>0 DEF Live
      <4>3. Len(new) # 0 /\ new[1] = m
        BY <4>1, <4>2
      <4>4. m \in Frame /\ h.id \in Raises[m]
        BY <1>0, <3>2 DEF At, Frame, AtOps, DocOps, Raises
      <4> HIDE DEF m
      <4>5. Has(new, Raises, h.id)
        <5>1. 1 \in 1 .. Len(new)
          BY <4>3
        <5> QED
          BY <4>3, <4>4, <5>1 DEF Has
      <4> QED
        BY <2>2, <3>2, <4>5
    <3>3. CASE h.op = "restoreParent" /\ x = h.doc.parent
      <4> DEFINE m == At("restore", x)
      <4>0. files' = files
        BY <3>3 DEF FilesEffect
      <4>1. x \in DOMAIN files \ Live(files)
        BY <2>2, <4>0 DEF Live
      <4>2. new = <<m>>
        BY <3>3, <4>1 DEF Follows, FollowsPlace, FollowsTrash, FollowsDelete, Plain
      <4>3. m \in Frame /\ x \in Lifts[m]
        BY <4>1, IdFacts DEF At, Frame, AtOps, Lifts
      <4> HIDE DEF m
      <4> QED
        BY <4>2, <4>3, HasSingle
    <3> QED
      BY <3>1, <3>2, <3>3
  <2> QED
    BY <2>1, <2>2 DEF N
<1> QED
  BY <1>1, <1>2

(***************************************************************************)
(* What is in the trash after a step.                                      *)
(***************************************************************************)
LEMMA LowAfter ==
    /\ Low' = {i \in DOMAIN files' : ~IsLive(files'[i]) /\ ~\E q \in Procs : Has(todo'[q], Raises, i)}
    /\ High' = Ids' \ Low'
BY DEF Low, High, Raised, Has, Raises, Frame, Kid, Doc, Procs

LEMMA ClimbsClosed == \A op \in AllOps \ ClimbOps : MoreOps(op) \subseteq AllOps \ ClimbOps
BY DEF AllOps, AtOps, DocOps, PlaceOps, EachOps, ClimbOps, MoreOps

\* A request that may be over raises nothing.
LEMMA QuitsRaiseNothing ==
    ASSUME IInv, OneRequest, NEW p \in Procs, NEW s \in Ready(todo[p]), Climbs(todo[p]),
           Head(s).op \in Quits, NEW x
    PROVE  ~Has(todo[p], Raises, x)
<1>1. PICK O : /\ todo[p] \in Seq(FramesOf(O)) /\ \A op \in O : MoreOps(op) \subseteq O
               /\ \/ O \in {{}, WorkerOps}
                  \/ p \in Clients /\ \E kind \in may[p] : kind \in Kinds /\ O = OpsOf[kind]
  BY OpsOfProc
<1>2. s \in Seq(FramesOf(O)) /\ s \in Seq(Frame) /\ s # <<>> /\ todo[p] \in Seq(Frame) /\ todo[p] # <<>>
  BY <1>1, OpsReady, CallTail, ReadyShape DEF Calls, IInv, TypeOK
<1>3. CASE O \cap RestoreOnly = {}
  <2>1. \A f \in FramesOf(O) : Raises[f] = {}
    BY <1>3 DEF FramesOf, Raises, RestoreOnly
  <2> QED
    BY <1>1, <2>1, HasNone
<1>4. CASE O = OpsOf["restore"]
  <2>1. Head(s).op = "restore"
    <3>1. Head(s) \in FramesOf(O)
      BY <1>2
    <3> QED
      BY <1>4, <3>1 DEF FramesOf, OpsOf, Quits
  <2>2. todo[p] \notin Seq(FramesOf(AllOps \ ClimbOps))
    <3>1. SUFFICES ASSUME todo[p] \in Seq(FramesOf(AllOps \ ClimbOps)) PROVE FALSE
      OBVIOUS
    <3>2. \A op \in AllOps \ ClimbOps : MoreOps(op) \subseteq AllOps \ ClimbOps
      BY ClimbsClosed
    <3>3. s \in Seq(FramesOf(AllOps \ ClimbOps))
      BY <3>1, <3>2, OpsReady
    <3>4. Head(s) \in FramesOf(AllOps \ ClimbOps)
      BY <1>2, <3>3
    <3> QED
      BY <2>1, <3>4 DEF FramesOf, ClimbOps
  <2>3. Head(todo[p]).op \in ClimbOps /\ Tail(todo[p]) \in Seq(FramesOf({"restoreCheck"})) /\ Head(todo[p]) \in Frame
    BY <1>2, <2>2 DEF Climbs
  <2>4. Raises[Head(todo[p])] = {}
    BY <2>3 DEF Raises, ClimbOps
  <2>5. \A f \in FramesOf({"restoreCheck"}) : Raises[f] = {}
    BY DEF FramesOf, Raises
  <2>6. ~Has(Tail(todo[p]), Raises, x)
    BY <2>3, <2>5, HasNone
  <2> QED
    BY <1>2, <2>4, <2>6, HasTail
<1>5. O \in {{}, WorkerOps} => O \cap RestoreOnly = {}
  BY DEF WorkerOps, RestoreOnly
<1> QED
  BY <1>1, <1>3, <1>4, <1>5, KindsApart

\* What is going to leave the trash still is, or has left it.
LEMMA RaisedStays ==
    ASSUME IInv, IInv', OneRequest, NEW p \in Procs, NEW s \in Ready(todo[p]), Climbs(todo[p]),
           NEW new, NEW rest, GoesOn(p, s, new, rest), NEW x, Raised(x)
    PROVE  \/ \E q \in Procs : Has(todo'[q], Raises, x)
           \/ Head(s).op = "unmark" /\ x = Head(s).id /\ Effect(Head(s))
<1> DEFINE h == Head(s)
<1>1. PICK q \in Procs : Has(todo[q], Raises, x)
  BY DEF Raised
<1>2. todo' = [todo EXCEPT ![p] = new \o rest] /\ todo \in [Procs -> Seq(Frame)] /\ todo' \in [Procs -> Seq(Frame)]
  BY DEF GoesOn, Goto, IInv, TypeOK
<1>3. CASE q # p
  BY <1>1, <1>2, <1>3
<1>4. CASE q = p
  <2>1. h.op \notin Quits
    BY <1>1, <1>4, QuitsRaiseNothing
  <2>2. /\ Follows(p, h, new) /\ Effect(h) /\ rest = Tail(s)
        /\ new \in Seq(Made(p, h))
    BY <2>1 DEF GoesOn, First, Quits
  <2>3. Has(s, Raises, x) /\ s \in Seq(Frame) /\ s # <<>> /\ h \in Frame
    BY <1>1, <1>2, <1>4, RaisesReady, CallTail DEF Calls
  <2>4. CASE x \in Raises[h]
    <3>1. h.op \notin EachOps
      BY <2>2, FollowsNoLoop
    <3> QED
      BY <2>2, <2>3, <2>4, <3>1 DEF Raises, EachOps
  <2>5. CASE Has(Tail(s), Raises, x)
    <3> DEFINE t == new \o rest
               F == Frame \cup Made(p, h)
    <3>1. new \in Seq(F) /\ rest \in Seq(F)
      <4>1. Frame \subseteq F /\ Made(p, h) \subseteq F
        OBVIOUS
      <4>2. rest \in Seq(Frame)
        BY <2>2, <2>3
      <4> HIDE DEF F
      <4> QED
        BY <2>2, <4>1, <4>2, SeqWider
    <3> HIDE DEF F
    <3>2. Has(t, Raises, x)
      BY <2>2, <2>5, <3>1, HasConcat
    <3>3. todo'[p] = t
      BY <1>2
    <3> QED
      BY <3>2, <3>3
  <2> QED
    BY <2>3, <2>4, <2>5, HasTail
<1> QED
  BY <1>3, <1>4

LEMMA LowStays ==
    ASSUME IInv, IInv', OneRequest, NEW p \in Procs, NEW s \in Ready(todo[p]), Climbs(todo[p]),
           NEW new, NEW rest, GoesOn(p, s, new, rest), FilesEffect(Head(s)), NEW i \in Low' \cap Ids
    PROVE  i \in Low \/ (Head(s).op = "mark" /\ i = Head(s).id)
<1> DEFINE h == Head(s)
<1>1. h \in Frame
  BY CallTail DEF Calls
<1>2. i \in DOMAIN files' /\ ~IsLive(files'[i]) /\ ~\E q \in Procs : Has(todo'[q], Raises, i)
  BY LowAfter
<1>3. i \in DOMAIN files
  BY <1>1, <1>2, EffectDomain, IdFacts
<1>4. /\ h.op \notin {"mark", "unmark"} \/ i # h.id => ~IsLive(files[i])
      /\ ~(h.op = "unmark" /\ i = h.id)
  BY <1>1, <1>2, <1>3, EffectTrash
<1>5. ~Raised(i)
  BY <1>2, <1>4, RaisedStays
<1> QED
  BY <1>3, <1>4, <1>5 DEF Low

\* What stands where it was before was standing there.
LEMMA FirmStays ==
    ASSUME uploads \subseteq uploads', NEW i \in Firm(files, uploads)', i \in DOMAIN files,
           files'[i].parent = files[i].parent, files'[i].kind = files[i].kind
    PROVE  i \in Firm(files, uploads)
BY DEF Firm, IsFolder

\* What hangs on a folder keeps hanging on one.
LEMMA HangsStays ==
    ASSUME IInv, NEW h \in Frame, TreeEffect(h), KindsStay, Late(h) \/ Goal(h) \in High,
           Low' \cap Ids \subseteq Low, NEW i, Hangs(i)
    PROVE  Hangs(i)'
<1>0. FilesEffect(h) /\ uploads \subseteq uploads'
  BY DEF TreeEffect
<1>1. i \in Ids /\ Ids \subseteq Ids' /\ nextId \notin Ids
  BY <1>0, EffectDomain, IdFacts DEF Hangs
<1>2. ASSUME i \in Firm(files, uploads)' PROVE files'[i].parent \notin Low'
  <2>1. i \in DOMAIN files /\ i \in DOMAIN files'
    BY <1>0, <1>1, <1>2, EffectDomain DEF Firm
  <2>2. files[i].parent \in Ids
    BY <2>1, IdFacts
  <2>3. CASE h.op = "setParent" /\ i = h.id
    <3>1. files'[i].parent = h.to /\ h.to \in High
      BY <1>0, <2>1, <2>3, EffectTrash DEF Goal, GoalOps, DestOps, Late
    <3> QED
      BY <3>1, RootHigh
  <2>4. CASE ~(h.op = "setParent" /\ i = h.id)
    <3>1. files'[i].parent = files[i].parent
      BY <1>0, <2>1, <2>4, EffectTrash
    <3>2. i \in Firm(files, uploads)
      BY <1>0, <1>2, <2>1, <3>1, FirmStays DEF KindsStay
    <3> QED
      BY <2>2, <3>1, <3>2 DEF Hangs
  <2> QED
    BY <2>3, <2>4
<1> QED
  BY <1>1, <1>2 DEF Hangs

LEMMA SteadyStays ==
    ASSUME IInv, NEW h \in Frame, TreeEffect(h), KindsStay, Late(h) \/ Goal(h) \in High, Steady(h), h.op # "mark",
           Low' \cap Ids \subseteq Low, High \subseteq High',
           NEW f \in Frame, Steady(f)
    PROVE  Steady(f)'
<1>0. FilesEffect(h)
  BY DEF TreeEffect
<1>1. Ids \subseteq Ids' /\ DOMAIN files' \cap Ids \subseteq DOMAIN files
  BY <1>0, EffectDomain, IdFacts
<1>2. \A i : Hangs(i) => Hangs(i)'
  BY HangsStays
<1>3. \A i : NotFolder(i) => NotFolder(i)'
  BY NotFolderStays
<1>4. ASSUME f.op = "setParent"
      PROVE  f.id \in Ids' /\ (f.id \in DOMAIN files' => IsLive(files'[f.id]))
  <2>1. f.id \in Ids /\ (f.id \in DOMAIN files => IsLive(files[f.id]))
    BY <1>4 DEF Steady
  <2> QED
    BY <1>0, <1>1, <2>1, EffectTrash
<1>5. ASSUME f.op = "restoreCheck"
      PROVE  /\ f.id \in Ids' /\ f.doc.parent \in Ids'
             /\ f.id \in DOMAIN files' => IsLive(files'[f.id]) \/ files'[f.id].parent = f.doc.parent
  <2>1. /\ f.id \in Ids /\ f.doc.parent \in Ids
        /\ f.id \in DOMAIN files => IsLive(files[f.id]) \/ files[f.id].parent = f.doc.parent
    BY <1>5 DEF Steady
  <2>2. ASSUME f.id \in DOMAIN files' PROVE IsLive(files'[f.id]) \/ files'[f.id].parent = f.doc.parent
    <3>1. f.id \in DOMAIN files
      BY <1>1, <2>1, <2>2
    <3>2. IsLive(files[f.id]) => IsLive(files'[f.id])
      BY <1>0, <2>2, <3>1, EffectTrash
    <3>3. h.op = "setParent" /\ f.id = h.id => IsLive(files[f.id])
      BY <3>1 DEF Steady
    <3>4. ~(h.op = "setParent" /\ f.id = h.id) => files'[f.id].parent = files[f.id].parent
      BY <1>0, <2>2, <3>1, EffectTrash
    <3> QED
      BY <2>1, <3>1, <3>2, <3>3, <3>4
  <2> QED
    BY <1>1, <2>1, <2>2
<1> QED
  BY <1>2, <1>3, <1>4, <1>5 DEF Steady

\* In a world of trashing and deleting, nothing is on its way anywhere.
CalmOps == AllOps \ (DestOps \cup {"insert"} \cup RestoreOnly)

LEMMA CalmSteady ==
    ASSUME IInv, KindsStay, NEW f \in Frame, f.op \in CalmOps
    PROVE  Goal(f) = Root /\ (Steady(f) => Steady(f)')
<1>1. \A i : NotFolder(i) => NotFolder(i)'
  BY NotFolderStays
<1> QED
  BY <1>1 DEF Steady, Goal, GoalOps, CalmOps, RestoreOnly, DestOps

LEMMA HungStays ==
    ASSUME IInv, NEW h \in Frame, TreeEffect(h), KindsStay, Late(h) \/ Goal(h) \in High, Steady(h), Hung,
           h.op # "mark", Low' \cap Ids \subseteq Low
    PROVE  Hung'
<1> SUFFICES ASSUME NEW i \in Firm(files, uploads)', i \in Live(files') PROVE files'[i].parent \notin Low'
  BY DEF Hung, Live
<1>0. i \in DOMAIN files' /\ IsLive(files'[i]) /\ FilesEffect(h) /\ uploads \subseteq uploads'
  BY DEF Live, TreeEffect
<1>1. Goal(h) \in High => Goal(h) \in Ids /\ Goal(h) \notin Low /\ Goal(h) \notin Low'
  BY RootHigh
<1>2. CASE i \in DOMAIN files /\ h.op = "setParent" /\ i = h.id
  <2>1. files'[i].parent = Goal(h) /\ ~Late(h)
    BY <1>0, <1>2, EffectTrash DEF Goal, GoalOps, DestOps, Late
  <2> QED
    BY <1>1, <2>1
<1>3. CASE i \in DOMAIN files /\ ~(h.op = "setParent" /\ i = h.id)
  <2>1. files'[i].parent = files[i].parent
    BY <1>0, <1>3, EffectTrash
  <2>2. IsLive(files[i]) \/ (h.op = "unmark" /\ i = h.id)
    BY <1>0, <1>3, EffectTrash
  <2>3. i \in Firm(files, uploads)
    BY <1>0, <1>3, <2>1, FirmStays DEF KindsStay
  <2>4. files[i].parent \notin Low
    <3>1. CASE IsLive(files[i])
      BY <1>3, <2>3, <3>1 DEF Hung, Live
    <3>2. CASE h.op = "unmark" /\ i = h.id
      BY <2>3, <3>2 DEF Steady, Hangs
    <3> QED
      BY <2>2, <3>1, <3>2
  <2>5. files[i].parent \in Ids
    BY <1>3, IdFacts
  <2> QED
    BY <2>1, <2>4, <2>5
<1>4. CASE i \notin DOMAIN files
  <2>1. /\ i = nextId /\ files'[nextId].parent = Goal(h) /\ h.op \in {"insert", "copyDoc"}
        /\ h.op = "insert" => files'[nextId] = h.doc
    BY <1>0, <1>4, EffectDomain
  <2>2. ~Late(h)
    BY <1>0, <2>1 DEF Late, Firm
  <2> QED
    BY <1>1, <2>1, <2>2
<1> QED
  BY <1>2, <1>3, <1>4

LEMMA HungMark ==
    ASSUME IInv, NEW h \in Frame, TreeEffect(h), KindsStay, Hung, h.op = "mark",
           h.id \in DOMAIN Standing => LiveChildren(Standing, h.id) = {},
           \A i \in Low' \cap Ids : i \in Low \/ i = h.id
    PROVE  Hung'
<1> SUFFICES ASSUME NEW i \in Firm(files, uploads)', i \in Live(files'), files'[i].parent \in Low' PROVE FALSE
  BY DEF Hung, Live
<1>0. FilesEffect(h) /\ uploads \subseteq uploads'
  BY DEF TreeEffect
<1>1. i \in DOMAIN files' /\ IsLive(files'[i]) /\ DOMAIN files' = DOMAIN files
  BY <1>0, EffectDomain DEF Live
<1>2. files'[i].parent = files[i].parent /\ IsLive(files[i])
  BY <1>0, <1>1, EffectTrash
<1>3. i \in Firm(files, uploads)
  BY <1>0, <1>1, <1>2, FirmStays DEF KindsStay
<1>4. files[i].parent \notin Low /\ files[i].parent \in Ids
  BY <1>1, <1>2, <1>3, IdFacts DEF Hung, Live
<1>5. files[i].parent = h.id /\ h.id \in DOMAIN files
  BY <1>1, <1>2, <1>4, LowAfter
<1>6. i \in Children(files, h.id) /\ i \in DOMAIN Standing
  BY <1>1, <1>3, <1>5 DEF Children, Standing
<1>7. h.id \in DOMAIN Standing
  BY <1>1, <1>5, StandingFacts DEF IInv, Safe
<1>8. i \in LiveChildren(Standing, h.id)
  BY <1>2, <1>6, StandingFacts DEF LiveChildren
<1> QED
  BY <1>7, <1>8

LEMMA FineMade ==
    ASSUME IInv, Hung, NEW p, NEW h \in Frame, Steady(h), Late(h) \/ Goal(h) \in High, TreeEffect(h), KindsStay,
           NEW new, Follows(p, h, new), High \subseteq High', Low' \cap Ids \subseteq Low,
           \A x : Has(new, Raises, x) => x \notin Low',
           CheckNeeds(Low)[h] = {},
           NEW f \in Frame, f \in Made(p, h)
    PROVE  Steady(f)' /\ (Late(f)' \/ Goal(f) \in High' \/ (h.op \in {"move", "copy"} /\ Goal(f) = h.to))
<1>00. FilesEffect(h)
  BY DEF TreeEffect
<1>0. /\ h.op \notin EachOps /\ (h.op \in AtOps \cup DocOps \cup PlaceOps => h.id \in Nat)
      /\ Root \in High' /\ Ids \subseteq Ids' /\ h.op \in AllOps
  BY <1>00, FollowsNoLoop, FrameFields, RootHigh, EffectDomain, FrameOps
<1>1. f.op \in MoreOps(h.op)
  BY MadeOps
<1>2. CASE h.op = "move"
  <2>1. files' = files /\ nextId' = nextId /\ h.id \in Live(files)
    BY <1>00, <1>2 DEF FilesEffect, Follows, FollowsPlace, FollowsTrash, FollowsDelete, Plain
  <2>2. h.id \in Ids' /\ IsLive(files'[h.id])
    BY <1>0, <2>1, IdFacts DEF Live
  <2>3. f = At("parent", h.to) \/ f = Into("walk", h.id, h.to) \/ f = Into("setParent", h.id, h.to)
    BY <1>2 DEF Made
  <2> QED
    BY <1>0, <1>2, <2>2, <2>3 DEF At, Into, Goal, GoalOps, DestOps, Steady
<1>3. CASE h.op = "copy"
  <2>1. \/ f = At("parent", h.to) \/ f = Into("walk", h.id, h.to) \/ f = Of("size", h.id, files[h.id])
        \/ f = Copy("copyQuota", h.id, files[h.id], h.to)
    BY <1>3 DEF Made
  <2> QED
    BY <1>0, <1>3, <2>1 DEF At, Into, Of, Copy, Goal, GoalOps, DestOps, Steady
<1>4. CASE h.op \in {"copyQuota", "copyChildren", "quota", "dedup"}
  <2>1. Goal(h) = h.to /\ (h.op # "dedup" => Goal(h) \in High)
    BY <1>4 DEF Goal, GoalOps, DestOps, Late
  <2>2. f.op \in {"copyDoc", "add", "copyEach", "dedup", "insert"}
    BY <1>1, <1>4 DEF MoreOps
  <2>3. Goal(f) = h.to \/ Goal(f) = Root
    <3>1. CASE h.op = "copyQuota"
      BY <3>1 DEF Made, Copy, Add, Goal, GoalOps, DestOps
    <3>2. CASE h.op = "copyChildren"
      BY <3>2 DEF Made, Loop, Goal, GoalOps, DestOps
    <3>3. CASE h.op = "quota"
      BY <3>3 DEF Made, New, Goal, GoalOps, DestOps
    <3>4. CASE h.op = "dedup"
      BY <3>4 DEF Made, Insert, NewDoc, Goal, GoalOps, DestOps
    <3> QED
      BY <1>4, <3>1, <3>2, <3>3, <3>4
  <2>4. Late(f)' \/ Goal(f) \in High'
    <3>1. CASE Late(h)
      <4>1. h.op = "dedup" /\ h.to \in uploads' /\ h.content \in Contents
        BY <1>4, <3>1, FrameFields DEF Late, TreeEffect
      <4>2. /\ f.op = "insert" /\ f.doc.parent = h.to /\ f.doc.kind = h.content
        BY <4>1 DEF Made, Insert, NewDoc
      <4> QED
        BY <4>1, <4>2, ContentsAssumption DEF Late, IsFolder
    <3>2. CASE ~Late(h)
      BY <1>0, <2>1, <2>3, <3>2
    <3> QED
      BY <3>1, <3>2
  <2> QED
    BY <2>2, <2>4 DEF Steady
<1>5. CASE h.op = "copyDoc"
  <2>1. f = Into("copyChildren", h.id, nextId)
    BY <1>5 DEF Made
  <2>2. nextId \in Ids' /\ IsLive(files'[nextId])
    <3>1. nextId' = nextId + 1 /\ IsLive(files'[nextId])
      BY <1>00, <1>5, EffectDomain
    <3> QED
      BY <3>1, IdFacts DEF Ids
  <2>3. nextId \in High'
    BY <2>2, LowAfter
  <2> QED
    BY <2>1, <2>3 DEF Into, Goal, GoalOps, DestOps, Steady
<1>6. CASE h.op = "trashChildren"
  <2>1. files' = files /\ nextId' = nextId
    BY <1>00, <1>6 DEF FilesEffect
  <2>2. f = Loop("trashEach", Fetch(LiveChildren(files, h.id)), Root)
    BY <1>6 DEF Made
  <2>3. \A k \in f.kids : k.id \in DOMAIN files /\ k.doc = files[k.id]
    BY <2>2 DEF Loop, Fetch, LiveChildren, Children
  <2>4. \A k \in f.kids : IsFolder(k.doc) \/ NotFolder(k.id)'
    BY <1>0, <2>1, <2>3, IdFacts DEF NotFolder
  <2> QED
    BY <1>0, <2>2, <2>4 DEF Loop, Goal, GoalOps, DestOps, Steady
<1>7. CASE h.op = "restore"
  <2>1. files' = files /\ nextId' = nextId /\ h.id \in DOMAIN files
    BY <1>00, <1>7 DEF FilesEffect, Follows, FollowsPlace, FollowsTrash, FollowsDelete, Plain
  <2>2. f = Of("restoreParent", h.id, files[h.id]) \/ f = Of("restoreCheck", h.id, files[h.id])
    BY <1>7 DEF Made
  <2>3. h.id \in Ids' /\ files[h.id].parent \in Ids'
    BY <1>0, <2>1, IdFacts
  <2> QED
    BY <1>0, <2>1, <2>2, <2>3 DEF Of, Goal, GoalOps, DestOps, Steady
<1>8. CASE h.op = "restoreCheck"
  <2>0. files' = files /\ nextId' = nextId
    BY <1>00, <1>8 DEF FilesEffect
  <2>1. h.id \in Ids /\ h.doc.parent \in Ids /\ h.doc.parent \notin Low
    BY <1>8 DEF Steady, CheckNeeds
  <2>2. h.id \in Firm(files, uploads) => files[h.id].parent \notin Low
    <3>1. h.id \in Firm(files, uploads) => h.id \in DOMAIN files
      BY DEF Firm
    <3> QED
      BY <1>8, <2>1, <3>1 DEF Steady, Hung, Live
  <2>3. Hangs(h.id)'
    BY <2>1, <2>2, HangsStays DEF Hangs
  <2>4. h.id \in High'
    <3>1. CASE h.id \in Live(files)
      BY <1>0, <2>0, <2>1, <3>1, LowAfter DEF Live
    <3>2. CASE h.id \notin Live(files)
      <4> DEFINE m == At("unmark", h.id)
      <4>1. \/ new = <<m, At("restoreChildren", h.id)>>
            \/ new = <<m, Add(Bytes(h.doc))>>
        BY <1>8, <3>2 DEF Follows, FollowsPlace, FollowsTrash, FollowsDelete, Plain
      <4>2. Len(new) # 0 /\ new[1] = m /\ 1 \in 1 .. Len(new)
        BY <4>1
      <4>3. m \in Frame /\ h.id \in Raises[m]
        BY <1>0, <1>8 DEF At, Frame, AtOps, DocOps, Raises
      <4> HIDE DEF m
      <4>4. Has(new, Raises, h.id)
        BY <4>2, <4>3 DEF Has
      <4> QED
        BY <1>0, <2>1, <4>4, LowAfter
    <3> QED
      BY <3>1, <3>2
  <2>5. f = At("unmark", h.id) \/ f = At("restoreChildren", h.id) \/ f = Add(Bytes(h.doc))
    BY <1>8 DEF Made
  <2> QED
    BY <1>0, <2>3, <2>4, <2>5 DEF At, Add, Goal, GoalOps, DestOps, Steady
<1>9. CASE h.op = "restoreChildren"
  <2> DEFINE S == Children(files, h.id) \ Live(files)
  <2>0. files' = files /\ nextId' = nextId /\ h.id \in High
    BY <1>00, <1>9 DEF FilesEffect, Steady
  <2>1. f = Loop("restoreEach", Fetch(S), Root)
    BY <1>9 DEF Made
  <2>2. new = Each("restoreEach", Fetch(S), Root)
    BY <1>9 DEF Follows, FollowsPlace, FollowsTrash, FollowsDelete, Plain
  <2>3. ASSUME NEW k \in f.kids PROVE Hangs(k.id)' /\ k.id \in High'
    <3>1. k \in Fetch(S) /\ k.id \in DOMAIN files /\ files[k.id].parent = h.id
      BY <2>1, <2>3 DEF Loop, Fetch, Children
    <3>2. k.id \in Ids /\ h.id \notin Low
      BY <2>0, <3>1, RootHigh, IdFacts
    <3>3. Hangs(k.id)
      BY <3>1, <3>2 DEF Hangs
    <3>4. new = <<f>>
      BY <2>1, <2>2, <3>1 DEF Each, Loop
    <3>5. k.id \in Raises[f]
      BY <2>1, <2>3 DEF Raises, Loop
    <3>6. Has(new, Raises, k.id)
      BY <3>4, <3>5, HasSingle
    <3> QED
      BY <1>0, <3>2, <3>3, <3>6, HangsStays, LowAfter
  <2> QED
    BY <1>0, <2>1, <2>3 DEF Loop, Goal, GoalOps, DestOps, Steady
<1>10. CASE h.op \notin {"move", "copy", "copyQuota", "copyChildren", "quota", "dedup", "copyDoc", "trashChildren",
                         "restore", "restoreCheck", "restoreChildren"}
  <2>1. f.op \notin {"setParent", "unmark", "restoreEach", "restoreChildren", "restoreCheck", "trashEach", "insert"}
                    \cup DestOps
    BY <1>0, <1>1, <1>10 DEF MoreOps, AllOps, AtOps, DocOps, PlaceOps, EachOps, DestOps
  <2> QED
    BY <1>0, <2>1 DEF Steady, Goal, GoalOps
<1> QED
  BY <1>2, <1>3, <1>4, <1>5, <1>6, <1>7, <1>8, <1>9, <1>10

(***************************************************************************)
(* A step keeps every process sound.                                       *)
(***************************************************************************)
LEMMA PlaceHead ==
    ASSUME NEW i, NEW to, to # Root, NEW F, NEW b \in Seq(F)
    PROVE  Pending(PlaceChecks(i, to) \o b) = {to}
<1> DEFINE x == At("parent", to)
           y == Into("walk", i, to)
           c == PlaceChecks(i, to)
           G == F \cup {x, y}
<1>1. c = <<x, y>> \/ c = <<x>>
  <2> DEFINE w == IF to # Root /\ IsFolder(files[i]) THEN <<y>> ELSE <<>>
  <2>1. c = <<x>> \o w /\ (w = <<y>> \/ w = <<>>)
    BY DEF PlaceChecks, ParentCheck
  <2>2. <<x>> \o <<>> = <<x>>
    OBVIOUS
  <2> HIDE DEF x, y, w
  <2> QED
    BY <2>1, <2>2, PairConcat
<1> HIDE DEF c, x, y
<1>2. c \in Seq(G) /\ Len(c) \in 1 .. 2 /\ c[1] = x
  <2>1. x \in G /\ y \in G
    BY DEF G
  <2> HIDE DEF G
  <2>2. CASE c = <<x>>
    <3>1. c \in Seq(G)
      BY <2>1, <2>2, Single
    <3> QED
      BY <2>2, <3>1
  <2>3. CASE c = <<x, y>>
    <3>1. c \in Seq(G)
      BY <2>1, <2>3, Pair
    <3> QED
      BY <2>3, <3>1
  <2> QED
    BY <1>1, <2>2, <2>3
<1>3. F \subseteq G
  OBVIOUS
<1> HIDE DEF G
<1>4. b \in Seq(G)
  BY <1>3, SeqWider
<1> DEFINE t == c \o b
<1>5. t \in Seq(G) /\ Len(t) # 0 /\ t[1] = x
  <2>1. /\ t \in Seq(G) /\ Len(t) = Len(c) + Len(b) /\ Len(b) \in Nat
        /\ \A k \in 1 .. Len(c) + Len(b) : t[k] = IF k <= Len(c) THEN c[k] ELSE b[k - Len(c)]
    BY <1>2, <1>4, ConcatProperties
  <2> HIDE DEF t
  <2> QED
    BY <1>2, <2>1
<1> HIDE DEF t
<1>6. t # <<>> /\ Head(t) = x
  BY <1>5
<1> QED
  BY <1>6 DEF Pending, At, x, t, c

\* A request that puts a document somewhere, checked or in the root.
LEMMA PlaceGoes ==
    ASSUME NEW p, NEW h, NEW new \in Seq(Frame), Follows(p, h, new), h.op \in {"move", "copy"}
    PROVE  h.to = Root \/ Pending(new) = {h.to}
<1>1. PICK b \in {<<Into("setParent", h.id, h.to)>>,
                  <<Of("size", h.id, files[h.id]), Copy("copyQuota", h.id, files[h.id], h.to)>>} :
        new = PlaceChecks(h.id, h.to) \o b
  BY DEF Follows, FollowsPlace, FollowsTrash, FollowsDelete, Plain
<1>2. b \in Seq({Into("setParent", h.id, h.to), Of("size", h.id, files[h.id]),
                 Copy("copyQuota", h.id, files[h.id], h.to)})
  <2> DEFINE x == Into("setParent", h.id, h.to)
             y == Of("size", h.id, files[h.id])
             z == Copy("copyQuota", h.id, files[h.id], h.to)
  <2>1. b = <<x>> \/ b = <<y, z>>
    BY <1>1
  <2> HIDE DEF x, y, z
  <2>2. b \in Seq({x, y, z})
    BY <2>1, Single, Pair
  <2> QED
    BY <2>2 DEF x, y, z
<1> QED
  BY <1>1, <1>2, PlaceHead

LEMMA ClimbsStep ==
    ASSUME IInv, IInv', NEW p \in Procs, Step(p) \/ WorkerStep(p), Climbs(todo[p]),
           NEW s \in Ready(todo[p]), NEW new, NEW rest, GoesOn(p, s, new, rest)
    PROVE  Climbs(todo'[p])
<1> DEFINE O == AllOps \ ClimbOps
           C == FramesOf({"restoreCheck"})
           h == Head(s)
<1>0. todo'[p] = new \o rest /\ new \o rest \in Seq(Frame) /\ todo[p] \in Seq(Frame) /\ C \subseteq FramesOf(O)
  BY DEF GoesOn, Goto, IInv, TypeOK, FramesOf, AllOps, DocOps, ClimbOps
<1>1. CASE todo[p] \in Seq(FramesOf(O))
  BY <1>1, ClimbsClosed, OpsStep DEF Climbs
<1>2. CASE todo[p] # <<>> /\ Head(todo[p]).op \in ClimbOps /\ Tail(todo[p]) \in Seq(C)
  <2>1. s = todo[p]
    BY <1>2, FirstCall DEF ClimbOps, EachOps
  <2>2. h.op \in ClimbOps /\ h \in Frame /\ Tail(s) \in Seq(C)
    BY <1>0, <1>2, <2>1
  <2>3. CASE new = <<>> /\ rest = <<>>
    BY <1>0, <2>3, EmptyConcat, NoFrames DEF Climbs
  <2>4. CASE Follows(p, h, new) /\ rest = Tail(s)
    <3> DEFINE d == files[h.id]
               r == Of("restoreCheck", h.id, d)
               y == Of("restoreParent", h.id, d)
               m == At("restore", h.doc.parent)
    <3>1. \/ h.op = "restore" /\ h.id \in DOMAIN files /\ (new = <<r>> \/ new = <<y, r>>)
          \/ h.op = "restoreParent" /\ (new = <<>> \/ new = <<m>>)
      BY <2>2, <2>4 DEF Follows, FollowsPlace, FollowsTrash, FollowsDelete, Plain, ClimbOps
    <3>2. /\ h.op = "restore" => h.id \in Nat
          /\ h.op = "restore" /\ h.id \in DOMAIN files => r \in C
          /\ y.op \in ClimbOps /\ m.op \in ClimbOps
      <4>1. h.op = "restore" => h.id \in Nat
        BY <2>2, FrameFields DEF AtOps
      <4> QED
        BY <4>1 DEF IInv, TypeOK, Of, At, FramesOf, Frame, DocOps, ClimbOps
    <3>3. rest \in Seq(C)
      BY <2>2, <2>4
    <3> HIDE DEF C, d, r, y, m
    <3>4. CASE new = <<r>> /\ r \in C
      <4>1. new \in Seq(C)
        BY <3>4, Single
      <4>2. new \o rest \in Seq(C)
        BY <3>3, <4>1, Concat
      <4>3. new \o rest \in Seq(FramesOf(O))
        BY <1>0, <4>2, SeqWider
      <4> QED
        BY <1>0, <4>3 DEF Climbs
    <3>5. CASE new = <<y, r>> /\ r \in C
      <4>1. new \o rest # <<>> /\ Head(new \o rest) = y /\ Tail(new \o rest) \in Seq(C)
        <5> DEFINE e == <<y>>
                   b == <<r>> \o rest
        <5>1. <<r>> \in Seq(C) /\ b \in Seq(C)
          BY <3>3, <3>5, Single, Concat
        <5>2. new \o rest = e \o b
          <6> DEFINE G == C \cup {y}
          <6>1. e \in Seq(G) /\ <<r>> \in Seq(G) /\ rest \in Seq(G)
            BY <3>3, <3>5, Single, SeqWider
          <6>2. e \o <<r>> = new
            BY <3>5, PairConcat
          <6> HIDE DEF G, e
          <6>3. (e \o <<r>>) \o rest = e \o (<<r>> \o rest)
            BY <6>1, Concat3
          <6> QED
            BY <6>2, <6>3
        <5> HIDE DEF b
        <5>3. e \o b # <<>> /\ Head(e \o b) = y /\ Tail(e \o b) = b
          BY <5>1
        <5> QED
          BY <5>1, <5>2, <5>3
      <4> QED
        BY <1>0, <3>2, <4>1 DEF Climbs, C
    <3>6. CASE new = <<>>
      <4>1. new \o rest = rest
        BY <3>3, <3>6, EmptyCalls
      <4>2. rest \in Seq(FramesOf(O))
        BY <1>0, <3>3, SeqWider
      <4> QED
        BY <1>0, <4>1, <4>2 DEF Climbs
    <3>7. CASE new = <<m>>
      <4>1. new \o rest # <<>> /\ Head(new \o rest) = m /\ Tail(new \o rest) = rest
        BY <3>3, <3>7
      <4> QED
        BY <1>0, <3>2, <3>3, <4>1 DEF Climbs, C
    <3> QED
      BY <3>1, <3>2, <3>4, <3>5, <3>6, <3>7
  <2> QED
    BY <2>2, <2>3, <2>4 DEF GoesOn, First, ClimbOps
<1> QED
  BY <1>1, <1>2 DEF Climbs

\* Who trashes neither places nor restores meanwhile, and nobody else does.
LEMMA KindOps ==
    ASSUME NEW kind \in Kinds
    PROVE  /\ kind # "trash" => "mark" \notin OpsOf[kind]
           /\ kind \notin Placers \cup {"restore"} => OpsOf[kind] \subseteq CalmOps
<1>1. kind # "trash" => "mark" \notin OpsOf[kind]
  BY KindsApart DEF TrashOnly
<1>2. OpsOf[kind] \subseteq AllOps
  <2>1. CASE kind \in {"trash", "restore"}
    BY <2>1 DEF OpsOf, AllOps, AtOps, DocOps, EachOps
  <2>2. CASE kind \in {"delete", "purge"}
    BY <2>2 DEF OpsOf, AllOps, AtOps, EachOps
  <2>3. CASE kind \in {"move", "copy"}
    BY <2>3 DEF OpsOf, AllOps, AtOps, DocOps, PlaceOps, EachOps
  <2>4. CASE kind \in {"mkdir", "upload"}
    BY <2>4 DEF OpsOf, AllOps, AtOps
  <2>5. CASE kind \in {"init", "complete"}
    BY <2>5 DEF OpsOf, AllOps, AtOps
  <2> QED
    BY <2>1, <2>2, <2>3, <2>4, <2>5 DEF Kinds
<1>3. kind \notin Placers => OpsOf[kind] \cap (DestOps \cup {"insert"}) = {}
  BY PlacersOnly
<1>4. kind # "restore" => OpsOf[kind] \cap RestoreOnly = {}
  BY KindsApart
<1> QED
  BY <1>1, <1>2, <1>3, <1>4 DEF CalmOps

LEMMA WhileTrashing ==
    ASSUME IInv, OneRequest, TrashApart, NEW p \in Procs, NEW s \in Ready(todo[p]), NEW q \in Procs
    PROVE  \E P : /\ todo[q] \in Seq(FramesOf(P)) /\ \A op \in P : MoreOps(op) \subseteq P
                  /\ Head(s).op \in Stirs => "mark" \notin P
                  /\ Head(s).op = "mark" => P \subseteq CalmOps
<1>0. WorkerOps \subseteq CalmOps /\ "mark" \notin WorkerOps /\ CalmOps \cap Stirs = {}
  BY DEF WorkerOps, CalmOps, Stirs, AllOps, AtOps, RestoreOnly, DestOps
<1>1. PICK O : /\ todo[p] \in Seq(FramesOf(O)) /\ \A op \in O : MoreOps(op) \subseteq O
               /\ \/ O \in {{}, WorkerOps}
                  \/ p \in Clients /\ \E kind \in may[p] : kind \in Kinds /\ O = OpsOf[kind]
  BY OpsOfProc
<1>2. PICK P : /\ todo[q] \in Seq(FramesOf(P)) /\ \A op \in P : MoreOps(op) \subseteq P
               /\ \/ P \in {{}, WorkerOps}
                  \/ q \in Clients /\ \E kind \in may[q] : kind \in Kinds /\ P = OpsOf[kind]
  BY OpsOfProc
<1>3. Head(s).op \in O
  <2>1. s \in Seq(FramesOf(O)) /\ s # <<>>
    BY <1>1, OpsReady, CallTail DEF Calls
  <2>2. Head(s) \in FramesOf(O)
    BY <2>1
  <2> QED
    BY <2>2 DEF FramesOf
<1>4. CASE P \in {{}, WorkerOps}
  BY <1>0, <1>2, <1>4
<1>5. ASSUME q \in Clients, NEW k \in may[q], k \in Kinds, P = OpsOf[k], q # p
      PROVE  (Head(s).op \in Stirs => "mark" \notin P) /\ (Head(s).op = "mark" => P \subseteq CalmOps)
  <2>1. ASSUME Head(s).op \in Stirs \cup {"mark"}
        PROVE  \E kind \in may[p] : p \in Clients /\ kind \in Kinds /\ O = OpsOf[kind]
    BY <1>0, <1>1, <1>3, <2>1
  <2>2. ASSUME Head(s).op \in Stirs PROVE "mark" \notin P
    <3>1. PICK kind \in may[p] : p \in Clients /\ kind \in Kinds /\ O = OpsOf[kind]
      BY <2>1, <2>2
    <3>2. kind \in Placers \cup {"restore"}
      BY <1>0, <1>3, <2>2, <3>1, KindOps
    <3>3. k # "trash"
      BY <1>5, <3>1, <3>2 DEF TrashApart
    <3> QED
      BY <1>5, <3>3, KindOps
  <2>3. ASSUME Head(s).op = "mark" PROVE P \subseteq CalmOps
    <3>1. PICK kind \in may[p] : p \in Clients /\ kind \in Kinds /\ O = OpsOf[kind]
      BY <2>1, <2>3
    <3>2. kind = "trash"
      BY <1>3, <2>3, <3>1, KindOps
    <3>3. k \notin Placers \cup {"restore"}
      BY <1>5, <3>1, <3>2 DEF TrashApart
    <3> QED
      BY <1>5, <3>3, KindOps
  <2> QED
    BY <2>2, <2>3
<1>6. ASSUME NEW k \in Kinds, O = OpsOf[k]
      PROVE  (Head(s).op \in Stirs => "mark" \notin O) /\ (Head(s).op = "mark" => O \subseteq CalmOps)
  <2>1. "trash" \in Kinds /\ "trash" \notin Placers \cup {"restore"}
    BY DEF Kinds, Placers
  <2>2. Head(s).op = "mark" => k = "trash"
    BY <1>3, <1>6, KindOps
  <2>3. OpsOf["trash"] \subseteq CalmOps
    BY <2>1, KindOps
  <2>4. k = "trash" => Head(s).op \notin Stirs
    BY <1>0, <1>3, <1>6, <2>3
  <2> QED
    BY <1>6, <2>2, <2>3, <2>4, KindOps
<1>7. CASE q = p /\ O \in {{}, WorkerOps}
  BY <1>0, <1>1, <1>7
<1>8. CASE q = p /\ \E k \in may[p] : k \in Kinds /\ O = OpsOf[k]
  BY <1>1, <1>6, <1>8
<1>9. CASE q # p /\ q \in Clients /\ \E k \in may[q] : k \in Kinds /\ P = OpsOf[k]
  BY <1>2, <1>5, <1>9
<1> QED
  BY <1>1, <1>2, <1>4, <1>7, <1>8, <1>9

\* An upload that was begun is not taken back.
LEMMA LateStays ==
    ASSUME uploads \subseteq uploads', NEW f, Late(f)
    PROVE  Late(f)'
BY DEF Late, IsFolder

\* What it takes to be sound after a step.
LEMMA SoundAfter ==
    ASSUME NEW q, NEW t, todo'[q] = t, NEW F, t \in Seq(F), F \subseteq Frame,
           \A f \in F : Steady(f)' /\ (Late(f)' \/ Goal(f) \in High' \cup Pending(t)),
           Before(t, MarkNeeds(Standing'), Marks(Standing')), Before(t, CheckNeeds(Low'), Lifts), Climbs(t)
    PROVE  Sound(todo[q])'
<1> DEFINE G == {f \in Frame : (Late(f)' \/ Goal(f) \in High' \cup Pending(t)) /\ Steady(f)'}
<1>1. F \subseteq G
  OBVIOUS
<1> HIDE DEF G
<1>2. t \in Seq(G)
  BY <1>1, SeqWider
<1>3. Seq(Fine(High \cup Pending(todo[q])))' = Seq(G)
  BY DEF Fine, G, Goal, GoalOps, DestOps, Pending, Frame, Kid, Doc
<1>4. /\ Before(todo[q], MarkNeeds(Standing), Marks(Standing))' = Before(t, MarkNeeds(Standing'), Marks(Standing'))
      /\ Before(todo[q], CheckNeeds(Low), Lifts)' = Before(t, CheckNeeds(Low'), Lifts)
      /\ Climbs(todo[q])' = Climbs(t)
  BY DEF Before, MarkNeeds, Marks, Standing, Firm, CheckNeeds, Lifts, Climbs, FramesOf, Frame, Kid, Doc
<1> QED
  BY <1>2, <1>3, <1>4 DEF Sound

\* The call a sound process stands before puts documents where they are seen.
LEMMA FineHead ==
    ASSUME IInv, NEW p \in Procs, Sound(todo[p]), NEW s \in Ready(todo[p])
    PROVE  /\ s \in Seq(Fine(High \cup Pending(s))) /\ s # <<>>
           /\ Head(s) \in Frame /\ Steady(Head(s)) /\ (Late(Head(s)) \/ Goal(Head(s)) \in High)
<1>1. s \in Seq(Fine(High \cup Pending(s))) /\ s # <<>>
  BY FineReady, CallTail DEF Sound, Calls
<1>2. Head(s) \in Fine(High \cup Pending(s))
  BY <1>1
<1>3. Late(Head(s)) \/ Goal(Head(s)) \in High
  <2>1. CASE Head(s).op = "parent"
    BY <2>1, RootHigh DEF Goal, GoalOps, DestOps
  <2>2. CASE Head(s).op # "parent"
    BY <1>2, <2>2 DEF Pending, Fine
  <2> QED
    BY <2>1, <2>2
<1> QED
  BY <1>1, <1>2, <1>3 DEF Fine

LEMMA FineKnown ==
    ASSUME NEW P
    PROVE  Fine(P) \subseteq ParentKnown /\ Fine(P) \subseteq Frame
BY DEF Fine, ParentKnown, Steady

\* The trash grows by what is marked only.
LEMMA HighStays ==
    ASSUME IInv, NEW h \in Frame, FilesEffect(h), \A i \in Low' \cap Ids : i \in Low
    PROVE  High \subseteq High' /\ Low' \cap Ids \subseteq Low
BY EffectDomain, LowAfter DEF High

LEMMA OthersSound ==
    ASSUME IInv, IInv', OneRequest, TrashApart, NEW p \in Procs, Sound(todo[p]), NEW s \in Ready(todo[p]),
           NEW new, NEW rest, GoesOn(p, s, new, rest), TreeEffect(Head(s)),
           NEW q \in Procs \ {p}, Sound(todo[q])
    PROVE  Sound(todo[q])'
<1> DEFINE h == Head(s)
<1>0. PICK t : t = todo[q]
  OBVIOUS
<1>1. todo'[q] = t
  BY <1>0 DEF GoesOn, Goto, IInv, TypeOK
<1>2. /\ t \in Seq(Fine(High \cup Pending(t)))
      /\ Before(t, MarkNeeds(Standing), Marks(Standing)) /\ Before(t, CheckNeeds(Low), Lifts) /\ Climbs(t)
  BY <1>0 DEF Sound
<1>3. /\ h \in Frame /\ Steady(h) /\ (Late(h) \/ Goal(h) \in High) /\ FilesEffect(h) /\ KindsStay
      /\ uploads \subseteq uploads'
  BY FineHead, EffectKinds DEF TreeEffect
<1>4. PICK P : /\ t \in Seq(FramesOf(P))
               /\ h.op \in Stirs => "mark" \notin P
               /\ h.op = "mark" => P \subseteq CalmOps
  BY <1>0, WhileTrashing
<1>5. Before(t, MarkNeeds(Standing'), Marks(Standing'))
  <2>1. CASE h.op \in Stirs
    <3>1. Needless(t, MarkNeeds(Standing'))
      BY <1>4, <2>1, NeedlessOps
    <3> QED
      BY <3>1, NeedlessBefore
  <2>2. CASE h.op \notin Stirs
    <3>1. Eased(Frame, MarkNeeds(Standing), Marks(Standing), MarkNeeds(Standing'), Marks(Standing'))
      BY <1>3, <2>2, MarkEased
    <3>2. t \in Seq(Frame)
      BY <1>2, FineKnown, SeqWider
    <3> QED
      BY <1>2, <3>1, <3>2, BeforeStays
  <2> QED
    BY <2>1, <2>2
<1>6. CASE h.op = "mark"
  <2> DEFINE F == Fine(High \cup Pending(t)) \cap FramesOf(P)
  <2>1. t \in Seq(F)
    BY <1>2, <1>4, Both
  <2>2. ASSUME NEW f \in F PROVE Steady(f)' /\ (Late(f)' \/ Goal(f) \in High' \cup Pending(t))
    <3>1. f \in Frame /\ f.op \in CalmOps /\ Steady(f)
      BY <1>4, <1>6 DEF Fine, FramesOf
    <3>2. Root \in High'
      <4>1. Root \in Ids' /\ Root \notin DOMAIN files'
        BY <1>3, <1>6, EffectDomain, IdFacts DEF Root
      <4> QED
        BY <4>1, LowAfter
    <3> QED
      BY <1>3, <3>1, <3>2, CalmSteady
  <2>3. F \subseteq Frame
    BY DEF Fine
  <2>4. Before(t, CheckNeeds(Low'), Lifts)
    <3>1. "restoreCheck" \notin P
      BY <1>4, <1>6 DEF CalmOps, RestoreOnly
    <3>2. \A L : Needless(t, CheckNeeds(L))
      BY <1>4, <3>1, NeedlessOps
    <3>3. Needless(t, CheckNeeds(Low'))
      BY <3>2
    <3> QED
      BY <3>3, NeedlessBefore
  <2> HIDE DEF F
  <2> QED
    BY <1>1, <1>2, <1>5, <2>1, <2>2, <2>3, <2>4, SoundAfter
<1>7. CASE h.op # "mark"
  <2>1. High \subseteq High' /\ Low' \cap Ids \subseteq Low
    <3>1. \A i \in Low' \cap Ids : i \in Low
      BY <1>3, <1>7, LowStays DEF Sound
    <3> QED
      BY <1>3, <3>1, HighStays
  <2> DEFINE F == Fine(High \cup Pending(t))
  <2>2. ASSUME NEW f \in F PROVE Steady(f)' /\ (Late(f)' \/ Goal(f) \in High' \cup Pending(t))
    <3>1. f \in Frame /\ Steady(f) /\ (Late(f) \/ Goal(f) \in High \cup Pending(t))
      BY DEF Fine
    <3>2. Late(f) => Late(f)'
      BY <1>3, LateStays
    <3> QED
      BY <1>3, <1>7, <2>1, <3>1, <3>2, SteadyStays
  <2>3. F \subseteq Frame
    BY DEF Fine
  <2>4. Before(t, CheckNeeds(Low'), Lifts)
    <3>1. t \in Seq(ParentKnown)
      BY <1>2, FineKnown, SeqWider
    <3>2. Eased(ParentKnown, CheckNeeds(Low), Lifts, CheckNeeds(Low'), Lifts)
      BY <2>1, CheckEased
    <3> QED
      BY <1>2, <3>1, <3>2, BeforeStays
  <2>5. t \in Seq(F)
    BY <1>2
  <2> HIDE DEF F
  <2> QED
    BY <1>1, <1>2, <1>5, <2>2, <2>3, <2>4, <2>5, SoundAfter
<1> QED
  BY <1>6, <1>7

\* What follows a call, and what was to follow it before.
LEMMA NextParts ==
    ASSUME IInv, IInv', NEW p \in Procs, NEW s \in Ready(todo[p]), NEW new, NEW rest, GoesOn(p, s, new, rest)
    PROVE  /\ todo'[p] = new \o rest /\ new \o rest \in Seq(Frame)
           /\ new \in Seq(Frame) /\ rest \in Seq(Frame) /\ new \in Seq(Made(p, Head(s)))
           /\ s \in Seq(Frame) /\ s # <<>> /\ Head(s) \in Frame
<1>1. s \in Seq(Frame) /\ s # <<>>
  BY CallTail DEF Calls
<1>2. Tail(s) \in Seq(Frame) /\ Head(s) \in Frame
  BY <1>1
<1>3. rest \in Seq(Frame)
  BY <1>2, NoFrames DEF GoesOn
<1>4. todo'[p] = new \o rest /\ new \o rest \in Seq(Frame) /\ new \in Seq(Made(p, Head(s)))
  BY DEF GoesOn, Goto, IInv, TypeOK
<1>5. new \in Seq(Frame)
  BY <1>3, <1>4, PartsIn
<1> QED
  BY <1>1, <1>2, <1>3, <1>4, <1>5

LEMMA RaisedAfter ==
    ASSUME IInv, IInv', NEW p \in Procs, NEW s \in Ready(todo[p]), NEW new, NEW rest, GoesOn(p, s, new, rest),
           NEW x, Has(new, Raises, x)
    PROVE  x \notin Low'
<1>1. todo'[p] = new \o rest /\ new \in Seq(Frame) /\ rest \in Seq(Frame)
  BY NextParts
<1>2. Has(new \o rest, Raises, x)
  BY <1>1, HasConcat
<1> QED
  BY <1>1, <1>2, LowAfter

LEMMA FineAfter ==
    ASSUME IInv, IInv', OneRequest, Hung, NEW p \in Procs, Sound(todo[p]), NEW s \in Ready(todo[p]),
           NEW new, NEW rest, GoesOn(p, s, new, rest), Follows(p, Head(s), new), Effect(Head(s)),
           Head(s).op # "mark"
    PROVE  new \o rest \in Seq({f \in Frame : Steady(f)' /\ (Late(f)' \/ Goal(f) \in High' \cup Pending(new \o rest))})
<1> DEFINE h == Head(s)
           X == Fine(High \cup Pending(s))
           Z == {f \in Frame : Steady(f)' /\ (Late(f)' \/ Goal(f) \in High' \cup Pending(new \o rest))}
<1>1. /\ h \in Frame /\ Steady(h) /\ (Late(h) \/ Goal(h) \in High)
      /\ TreeEffect(h) /\ FilesEffect(h) /\ KindsStay /\ uploads \subseteq uploads'
  BY FineHead, EffectKinds DEF Effect, QueueEffect, TreeEffect
<1>2. s \in Seq(X) /\ s # <<>> /\ X \subseteq Frame
  BY FineHead DEF Fine
<1>3. High \subseteq High' /\ Low' \cap Ids \subseteq Low
  <2>1. \A i \in Low' \cap Ids : i \in Low
    BY <1>1, LowStays DEF Sound
  <2> QED
    BY <1>1, <2>1, HighStays
<1>4. X \subseteq Z
  <2> SUFFICES ASSUME NEW f \in X PROVE Steady(f)' /\ (Late(f)' \/ Goal(f) \in High')
    BY <1>2
  <2>1. f \in Frame /\ Steady(f) /\ (Late(f) \/ Goal(f) \in High \cup Pending(s))
    BY DEF Fine
  <2>3. Late(f) => Late(f)'
    BY <1>1, LateStays
  <2>2. Pending(s) \subseteq High
    <3>1. h.op = "parent" => Accepts(h.id)
      BY DEF Follows, FollowsPlace, FollowsTrash, FollowsDelete, Plain
    <3>2. Live(files) \subseteq High
      BY IdFacts DEF Live, High, Low
    <3> QED
      BY <3>1, <3>2 DEF Pending, Accepts
  <2> QED
    BY <1>1, <1>3, <2>1, <2>2, <2>3, SteadyStays
<1>5. CheckNeeds(Low)[h] = {}
  <2>1. Before(s, CheckNeeds(Low), Lifts)
    BY CheckReady DEF Sound
  <2> QED
    BY <1>2, <2>1, HeadNeedless
<1>6. \A x : Has(new, Raises, x) => x \notin Low'
  BY RaisedAfter
<1>7. ASSUME NEW f \in Frame, f \in Made(p, h) PROVE f \in Z
  <2>1. Steady(f)' /\ (Late(f)' \/ Goal(f) \in High' \/ (h.op \in {"move", "copy"} /\ Goal(f) = h.to))
    BY <1>1, <1>3, <1>5, <1>6, <1>7, FineMade
  <2>2. ASSUME h.op \in {"move", "copy"}, Goal(f) = h.to
        PROVE  Goal(f) \in High' \cup Pending(new \o rest)
    <3>1. new \in Seq(Frame)
      BY NextParts
    <3>2. rest = <<>>
      BY <2>2 DEF GoesOn, First
    <3>3. new \o rest = new
      BY <3>1, <3>2, EmptyCalls
    <3>4. h.to = Root \/ Pending(new) = {h.to}
      BY <2>2, <3>1, PlaceGoes
    <3>5. Root \in High'
      BY <1>3, RootHigh
    <3> QED
      BY <2>2, <3>3, <3>4, <3>5
  <2> QED
    BY <2>1, <2>2
<1>8. new \o rest \in Seq(Frame)
  BY NextParts
<1> HIDE DEF X, Z
<1>9. new \o rest \in Seq(Z)
  BY <1>2, <1>4, <1>7, <1>8, GoesOnIn
<1> QED
  BY <1>9 DEF Z

LEMMA MarkAfter ==
    ASSUME IInv, IInv', OneRequest, TrashApart, NEW p \in Procs, Step(p) \/ WorkerStep(p), Sound(todo[p]),
           NEW s \in Ready(todo[p]), NEW new, NEW rest, GoesOn(p, s, new, rest),
           Follows(p, Head(s), new), Effect(Head(s)), rest = IF Head(s).op \in First THEN <<>> ELSE Tail(s)
    PROVE  Before(new \o rest, MarkNeeds(Standing'), Marks(Standing'))
<1> DEFINE h == Head(s)
<1>1. /\ todo'[p] = new \o rest /\ new \in Seq(Frame) /\ new \in Seq(Made(p, h))
      /\ s \in Seq(Frame) /\ s # <<>> /\ h \in Frame
  BY NextParts
<1>2. CASE h.op \in Stirs
  <2>1. PICK P : /\ todo[p] \in Seq(FramesOf(P)) /\ \A op \in P : MoreOps(op) \subseteq P
                 /\ "mark" \notin P
    BY <1>2, WhileTrashing
  <2>2. new \o rest \in Seq(FramesOf(P))
    BY <1>1, <2>1, OpsStep
  <2>3. Needless(new \o rest, MarkNeeds(Standing'))
    BY <2>1, <2>2, NeedlessOps
  <2> QED
    BY <2>3, NeedlessBefore
<1>3. CASE h.op \notin Stirs
  <2>0. TreeEffect(h) /\ KindsStay
    BY EffectKinds DEF Effect, QueueEffect, TreeEffect
  <2>1. /\ Before(new, MarkNeeds(Standing'), Marks(Standing'))
        /\ \A f \in Frame : \A x \in MarkNeeds(Standing')[f] :
             x \in Marks(Standing)[h] => Has(new, Marks(Standing'), x)
    BY <1>1, <1>3, <2>0, MarkFollows
  <2>2. CASE rest = <<>>
    <3>1. new \o rest = new
      BY <1>1, <2>2, EmptyCalls
    <3> QED
      BY <2>1, <3>1
  <2>3. CASE rest = Tail(s)
    <3>1. Eased(Frame, MarkNeeds(Standing), Marks(Standing), MarkNeeds(Standing'), Marks(Standing'))
      BY <1>1, <1>3, <2>0, MarkEased
    <3>2. Before(s, MarkNeeds(Standing), Marks(Standing))
      BY MarkReady DEF Sound
    <3>3. Before(new \o Tail(s), MarkNeeds(Standing'), Marks(Standing'))
      BY <1>1, <2>1, <3>1, <3>2, BeforeReplaced
    <3> QED
      BY <2>3, <3>3
  <2> QED
    BY <2>2, <2>3
<1> QED
  BY <1>2, <1>3

LEMMA CheckAfter ==
    ASSUME IInv, IInv', OneRequest, TrashApart, NEW p \in Procs, Step(p) \/ WorkerStep(p), Sound(todo[p]),
           NEW s \in Ready(todo[p]), NEW new, NEW rest, GoesOn(p, s, new, rest),
           Follows(p, Head(s), new), Effect(Head(s)), rest = IF Head(s).op \in First THEN <<>> ELSE Tail(s)
    PROVE  Before(new \o rest, CheckNeeds(Low'), Lifts)
<1> DEFINE h == Head(s)
<1>1. /\ todo'[p] = new \o rest /\ new \in Seq(Frame) /\ new \in Seq(Made(p, h))
      /\ s \in Seq(Frame) /\ s # <<>> /\ h \in Frame /\ FilesEffect(h)
  BY NextParts DEF Effect
<1>2. CASE h.op = "mark"
  <2>1. PICK P : /\ todo[p] \in Seq(FramesOf(P)) /\ \A op \in P : MoreOps(op) \subseteq P
                 /\ P \subseteq CalmOps
    BY <1>2, WhileTrashing
  <2>2. new \o rest \in Seq(FramesOf(P)) /\ "restoreCheck" \notin P
    BY <1>1, <2>1, OpsStep DEF CalmOps, RestoreOnly
  <2>3. \A L : Needless(new \o rest, CheckNeeds(L))
    BY <2>2, NeedlessOps
  <2>4. Needless(new \o rest, CheckNeeds(Low'))
    BY <2>3
  <2> QED
    BY <2>4, NeedlessBefore
<1>3. CASE h.op # "mark"
  <2>1. \A x \in Low' : x \in DOMAIN files' /\ ~IsLive(files'[x]) /\ ~Has(new, Raises, x)
    BY LowAfter, RaisedAfter
  <2>2. /\ Before(new, CheckNeeds(Low'), Lifts)
        /\ \A x \in Low' \cap Lifts[h] : Has(new, Lifts, x)
    BY <1>1, <2>1, CheckFollows
  <2>3. CASE rest = <<>>
    <3>1. new \o rest = new
      BY <1>1, <2>3, EmptyCalls
    <3> QED
      BY <2>2, <3>1
  <2>4. CASE rest = Tail(s)
    <3>1. new \in Seq(ParentKnown)
      <4> DEFINE M == Made(p, h)
      <4>1. ASSUME NEW f \in M \cap Frame PROVE f \in ParentKnown
        <5> SUFFICES ASSUME f.op = "restoreCheck" PROVE f.doc.parent \in Ids
          BY DEF ParentKnown
        <5>1. f.op \in MoreOps(h.op)
          BY <1>1, MadeOps
        <5>2. h.op = "restore"
          BY <1>1, <5>1, FrameOps DEF MoreOps, AllOps, AtOps, DocOps, PlaceOps, EachOps
        <5>3. h.id \in DOMAIN files
          BY <5>2 DEF Follows, FollowsPlace, FollowsTrash, FollowsDelete, Plain
        <5>4. f = Of("restoreCheck", h.id, files[h.id])
          BY <5>2 DEF Made, Of
        <5> QED
          BY <5>3, <5>4, IdFacts DEF Of
      <4> HIDE DEF M
      <4>2. new \in Seq(M \cap Frame)
        BY <1>1, Both DEF M
      <4> QED
        BY <4>1, <4>2
    <3>2. Low' \cap Ids \subseteq Low
      BY <1>1, <1>3, LowStays DEF Sound
    <3>3. Eased(ParentKnown, CheckNeeds(Low), Lifts, CheckNeeds(Low'), Lifts)
      BY <3>2, CheckEased
    <3>4. s \in Seq(ParentKnown) /\ Before(s, CheckNeeds(Low), Lifts)
      <4>1. s \in Seq(Fine(High \cup Pending(s)))
        BY FineHead
      <4>2. s \in Seq(ParentKnown)
        BY <4>1, FineKnown, SeqWider
      <4> QED
        BY <4>2, CheckReady DEF Sound
    <3>5. \A f \in ParentKnown : \A x \in CheckNeeds(Low')[f] : x \in Lifts[h] => Has(new, Lifts, x)
      <4>1. \A f \in ParentKnown : CheckNeeds(Low')[f] \subseteq Low'
        BY DEF CheckNeeds, ParentKnown
      <4> QED
        BY <2>2, <4>1
    <3>6. Before(new \o Tail(s), CheckNeeds(Low'), Lifts)
      BY <1>1, <3>1, <3>3, <3>4, <3>5, <2>2, BeforeReplaced
    <3> QED
      BY <2>4, <3>6
  <2> QED
    BY <2>3, <2>4
<1> QED
  BY <1>2, <1>3

LEMMA EmptySound ==
    ASSUME NEW q, todo'[q] = <<>>
    PROVE  Sound(todo[q])'
<1>1. PICK t : t = <<>>
  OBVIOUS
<1>2. Len(t) = 0 /\ t \in Seq({})
  BY <1>1
<1>3. \A N, G : Before(t, N, G)
  BY <1>2 DEF Before
<1>4. Before(t, MarkNeeds(Standing'), Marks(Standing')) /\ Before(t, CheckNeeds(Low'), Lifts)
  BY <1>3
<1>5. Climbs(t)
  BY <1>1, NoFrames DEF Climbs
<1>6. PICK F : F = {}
  OBVIOUS
<1>7. t \in Seq(F) /\ F \subseteq Frame /\ todo'[q] = t
  BY <1>1, <1>2, <1>6
<1>8. \A f \in F : Steady(f)' /\ (Late(f)' \/ Goal(f) \in High' \cup Pending(t))
  BY <1>6
<1> QED
  BY <1>4, <1>5, <1>7, <1>8, SoundAfter

\* The process that makes the step.
LEMMA OneSound ==
    ASSUME IInv, IInv', OneRequest, TrashApart, Hung, NEW p \in Procs, Step(p) \/ WorkerStep(p), Sound(todo[p]),
           NEW s \in Ready(todo[p]), NEW new, NEW rest, GoesOn(p, s, new, rest), TreeEffect(Head(s))
    PROVE  Hung' /\ Sound(todo[p])'
<1> DEFINE h == Head(s)
<1>1. /\ h \in Frame /\ Steady(h) /\ (Late(h) \/ Goal(h) \in High)
      /\ FilesEffect(h) /\ KindsStay /\ s # <<>>
  BY FineHead, EffectKinds DEF TreeEffect
<1>2. \A i \in Low' \cap Ids : i \in Low \/ (h.op = "mark" /\ i = h.id)
  BY <1>1, LowStays DEF Sound
<1>3. Hung'
  <2>1. CASE h.op = "mark"
    <3>1. Before(s, MarkNeeds(Standing), Marks(Standing)) /\ s \in Seq(Frame)
      BY MarkReady, NextParts DEF Sound
    <3>2. MarkNeeds(Standing)[h] = {}
      BY <1>1, <3>1, HeadNeedless
    <3>3. h.id \in DOMAIN Standing => LiveChildren(Standing, h.id) = {}
      BY <1>1, <2>1, <3>2 DEF MarkNeeds
    <3> QED
      BY <1>1, <1>2, <2>1, <3>3, HungMark
  <2>2. CASE h.op # "mark"
    BY <1>1, <1>2, <2>2, HungStays
  <2> QED
    BY <2>1, <2>2
<1>4. CASE new = <<>> /\ rest = <<>>
  <2>1. todo'[p] = <<>>
    BY <1>4, NextParts, EmptyConcat
  <2> QED
    BY <1>3, <2>1, EmptySound
<1>5. CASE /\ Follows(p, h, new) /\ Effect(h)
           /\ rest = IF h.op \in First THEN <<>> ELSE Tail(s)
  <2>1. PICK t : t = new \o rest
    OBVIOUS
  <2>2. /\ todo'[p] = t
        /\ Before(t, MarkNeeds(Standing'), Marks(Standing')) /\ Before(t, CheckNeeds(Low'), Lifts)
        /\ Climbs(t)
    <3>1. todo'[p] = t
      BY <2>1, NextParts
    <3>2. Before(new \o rest, MarkNeeds(Standing'), Marks(Standing'))
      BY <1>5, MarkAfter
    <3>3. Before(new \o rest, CheckNeeds(Low'), Lifts)
      BY <1>5, CheckAfter
    <3>4. Climbs(todo'[p])
      BY ClimbsStep DEF Sound
    <3> QED
      BY <2>1, <3>1, <3>2, <3>3, <3>4
  <2>3. CASE h.op # "mark"
    <3> DEFINE F == {f \in Frame : Steady(f)' /\ (Late(f)' \/ Goal(f) \in High' \cup Pending(t))}
    <3>1. t \in Seq(F)
      BY <1>5, <2>1, <2>3, FineAfter
    <3>2. F \subseteq Frame /\ \A f \in F : Steady(f)' /\ (Late(f)' \/ Goal(f) \in High' \cup Pending(t))
      OBVIOUS
    <3> HIDE DEF F
    <3>3. Sound(todo[p])'
      BY <2>2, <3>1, <3>2, SoundAfter
    <3> QED
      BY <1>3, <3>3
  <2>4. CASE h.op = "mark"
    <3>1. PICK P : /\ todo[p] \in Seq(FramesOf(P)) /\ \A op \in P : MoreOps(op) \subseteq P
                   /\ P \subseteq CalmOps
      BY <2>4, WhileTrashing
    <3> DEFINE X == Fine(High \cup Pending(s)) \cap FramesOf(P)
    <3>2. s \in Seq(X)
      <4>1. s \in Seq(Fine(High \cup Pending(s))) /\ s \in Seq(FramesOf(P))
        BY <3>1, FineHead, OpsReady
      <4> QED
        BY <4>1, Both
    <3>3. X \subseteq Frame /\ \A f \in X : Steady(f)' /\ (Late(f)' \/ Goal(f) \in High' \cup Pending(t))
      <4> SUFFICES ASSUME NEW f \in X PROVE f \in Frame /\ Steady(f)' /\ Goal(f) \in High'
        OBVIOUS
      <4>1. f \in Frame /\ f.op \in CalmOps /\ Steady(f)
        BY <3>1 DEF Fine, FramesOf
      <4>2. Root \in High'
        <5>1. Root \in Ids' /\ Root \notin DOMAIN files'
          BY <1>1, <2>4, EffectDomain, IdFacts DEF Root
        <5> QED
          BY <5>1, LowAfter
      <4> QED
        BY <1>1, <4>1, <4>2, CalmSteady
    <3>4. new = <<>> /\ rest = Tail(s)
      BY <1>5, <2>4 DEF Follows, FollowsPlace, FollowsTrash, FollowsDelete, First
    <3> HIDE DEF X
    <3>5. t \in Seq(X)
      <4>1. Tail(s) \in Seq(X)
        BY <1>1, <3>2
      <4> QED
        BY <2>1, <3>4, <4>1, EmptyCalls
    <3>6. Sound(todo[p])'
      BY <2>2, <3>3, <3>5, SoundAfter
    <3> QED
      BY <1>3, <3>6
  <2> QED
    BY <2>3, <2>4
<1> QED
  BY <1>4, <1>5 DEF GoesOn

LEMMA TrashStep ==
    ASSUME IInv, IInv', OneRequest, TrashApart, Hung, \A q \in Procs : Sound(todo[q]),
           NEW p \in Procs, Step(p) \/ WorkerStep(p)
    PROVE  Hung' /\ (\A q \in Procs : Sound(todo[q]))'
<1>1. PICK s \in Ready(todo[p]) : \E new : \E rest : GoesOn(p, s, new, rest)
  BY StepShape
<1>2. PICK new, rest : GoesOn(p, s, new, rest)
  BY <1>1
<1>3. TreeEffect(Head(s))
  BY <1>2 DEF GoesOn, Effect, QueueEffect, TreeEffect, FilesEffect, Quits, data
<1>4. Hung' /\ Sound(todo[p])'
  BY <1>2, <1>3, OneSound
<1>5. \A q \in Procs \ {p} : Sound(todo[q])'
  BY <1>2, <1>3, OthersSound
<1> QED
  BY <1>4, <1>5 DEF Procs

(***************************************************************************)
(* The other steps: a request begins, a worker takes a document, time      *)
(* passes, or nothing happens.                                             *)
(***************************************************************************)
\* The calls a process may begin with.
Starts == {"trash", "restore", "delete", "purge", "move", "copy", "parent", "insert", "quota", "initQuota",
           "dedup", "send"}

\* A step that only gives process p, which had nothing to do, something to do.
QuietFor(p) ==
    /\ DOMAIN files' = DOMAIN files /\ nextId' = nextId /\ uploads' = uploads
    /\ \A j \in DOMAIN files : /\ files'[j].parent = files[j].parent /\ files'[j].kind = files[j].kind
                               /\ IsLive(files'[j]) <=> IsLive(files[j])
    /\ \A q \in Procs \ {p} : todo'[q] = todo[q]
    /\ p \in Procs => todo[p] = <<>> /\ \A x : ~Has(todo'[p], Raises, x)

LEMMA QuietLow ==
    ASSUME IInv, NEW p, QuietFor(p)
    PROVE  /\ Low' = Low /\ High' = High /\ Live(files') = Live(files)
           /\ Firm(files, uploads)' = Firm(files, uploads)
           /\ \A f \in Frame : Steady(f) => Steady(f)'
           /\ MarkNeeds(Standing') = MarkNeeds(Standing) /\ Marks(Standing') = Marks(Standing)
<1>1. ASSUME NEW x PROVE (\E q \in Procs : Has(todo'[q], Raises, x)) <=> Raised(x)
  <2>1. ASSUME p \in Procs PROVE ~Has(todo[p], Raises, x)
    <3>1. Len(todo[p]) = 0
      BY <2>1 DEF QuietFor
    <3> QED
      BY <3>1 DEF Has
  <2> QED
    BY <2>1 DEF QuietFor, Raised
<1>2. Low' = Low /\ High' = High /\ Live(files') = Live(files) /\ Ids' = Ids
  <2>1. Ids' = Ids
    BY DEF Ids, QuietFor
  <2>2. Low' = Low
    BY <1>1, LowAfter DEF Low, QuietFor
  <2> QED
    BY <2>1, <2>2, LowAfter DEF High, QuietFor, Live
<1>0. Firm(files, uploads)' = Firm(files, uploads)
  BY DEF Firm, IsFolder, QuietFor
<1>3. /\ \A i : LiveChildren(Standing', i) = LiveChildren(Standing, i)
      /\ DOMAIN Standing' = DOMAIN Standing
  <2>1. /\ DOMAIN Standing' = DOMAIN Standing /\ DOMAIN Standing \subseteq DOMAIN files
        /\ \A j \in DOMAIN Standing : Standing[j] = files[j] /\ Standing'[j] = files'[j]
    BY <1>0, StandingFacts DEF Standing
  <2> QED
    BY <2>1 DEF LiveChildren, Children, QuietFor
<1>4. MarkNeeds(Standing') = MarkNeeds(Standing)
  BY <1>3 DEF MarkNeeds
<1>5. Marks(Standing') = Marks(Standing)
  BY <1>3 DEF Marks
<1>6. ASSUME NEW i PROVE (Hangs(i) => Hangs(i)') /\ (NotFolder(i) => NotFolder(i)')
  BY <1>0, <1>2 DEF Hangs, NotFolder, IsFolder, QuietFor, Firm
<1>7. ASSUME NEW f \in Frame, Steady(f) PROVE Steady(f)'
  BY <1>2, <1>6, <1>7 DEF Steady, QuietFor
<1> QED
  BY <1>0, <1>2, <1>4, <1>5, <1>7

LEMMA QuietSound ==
    ASSUME IInv, Hung, \A q \in Procs : Sound(todo[q]), NEW p, QuietFor(p),
           p \in Procs => Sound(todo[p])'
    PROVE  Hung' /\ (\A q \in Procs : Sound(todo[q]))'
<1>1. /\ Low' = Low /\ High' = High /\ Live(files') = Live(files) /\ uploads' = uploads
      /\ Firm(files, uploads)' = Firm(files, uploads)
      /\ \A f \in Frame : Steady(f) => Steady(f)'
      /\ MarkNeeds(Standing') = MarkNeeds(Standing) /\ Marks(Standing') = Marks(Standing)
  BY QuietLow DEF QuietFor
<1>2. Hung'
  BY <1>1 DEF Hung, Live, QuietFor
<1>3. ASSUME NEW q \in Procs \ {p} PROVE Sound(todo[q])'
  <2>0. PICK t : t = todo[q]
    OBVIOUS
  <2> DEFINE F == Fine(High \cup Pending(t))
  <2>1. /\ t \in Seq(F) /\ Before(t, MarkNeeds(Standing'), Marks(Standing'))
        /\ Before(t, CheckNeeds(Low'), Lifts) /\ Climbs(t)
    BY <1>1, <2>0 DEF Sound
  <2>2. F \subseteq Frame /\ \A f \in F : Steady(f)' /\ (Late(f)' \/ Goal(f) \in High' \cup Pending(t))
    <3>1. \A f \in F : Late(f) => Late(f)'
      BY <1>1, LateStays
    <3> QED
      BY <1>1, <3>1 DEF Fine
  <2>3. todo'[q] = t
    BY <2>0 DEF QuietFor
  <2> HIDE DEF F
  <2> QED
    BY <2>1, <2>2, <2>3, SoundAfter
<1> QED
  BY <1>2, <1>3 DEF Procs

\* A process that begins.
LEMMA StartSound ==
    ASSUME IInv, NEW p \in Procs, NEW s, todo'[p] = s, todo[p] = <<>>,
           DOMAIN files' = DOMAIN files, nextId' = nextId, files' = files, uploads' = uploads,
           \A q \in Procs \ {p} : todo'[q] = todo[q],
           NEW F, s \in Seq(F), F \subseteq FramesOf(Starts),
           \A f \in F : Late(f) \/ Goal(f) \in {Root} \cup Pending(s), Climbs(s)
    PROVE  QuietFor(p) /\ Sound(todo[p])'
<1>1. F \subseteq Frame /\ s \in Seq(FramesOf(Starts)) /\ \A f \in F : f.op \in Starts
  <2>1. s \in Seq(FramesOf(Starts))
    BY SeqWider
  <2> QED
    BY <2>1 DEF FramesOf
<1>2. QuietFor(p)
  <2>1. \A f \in F : Raises[f] = {}
    BY <1>1 DEF Raises, Starts
  <2>2. \A x : ~Has(s, Raises, x)
    BY <2>1, HasNone
  <2> QED
    BY <2>2 DEF QuietFor
<1>3. Root \in High'
  BY <1>2, QuietLow, RootHigh
<1>4. \A f \in F : Steady(f)' /\ (Late(f)' \/ Goal(f) \in High' \cup Pending(s))
  <2> SUFFICES ASSUME NEW f \in F PROVE Steady(f)'
    BY <1>3, LateStays
  <2>1. f.op \in Starts
    BY <1>1
  <2> QED
    BY <2>1 DEF Steady, Starts
<1>5. /\ \A lib : Needless(s, MarkNeeds(lib))
      /\ \A L : Needless(s, CheckNeeds(L))
  <2>1. "mark" \notin Starts /\ "restoreCheck" \notin Starts
    BY DEF Starts
  <2> QED
    BY <1>1, <2>1, NeedlessOps
<1>6. Needless(s, MarkNeeds(Standing')) /\ Needless(s, CheckNeeds(Low'))
  BY <1>5
<1>7. Before(s, MarkNeeds(Standing'), Marks(Standing')) /\ Before(s, CheckNeeds(Low'), Lifts)
  BY <1>6, NeedlessBefore
<1>8. Sound(todo[p])'
  BY <1>1, <1>4, <1>7, SoundAfter
<1> QED
  BY <1>2, <1>8

\* A request checks the folder it is going to put something into.
LEMMA RequestGoal ==
    ASSUME NEW kind \in Kinds, NEW s \in Requests[kind], s \in Seq(Frame)
    PROVE  /\ \E F : /\ s \in Seq(F) /\ F \subseteq FramesOf(Starts)
                     /\ \A f \in F : Late(f) \/ Goal(f) \in {Root} \cup Pending(s)
           /\ Climbs(s)
<1> DEFINE M == Frame \cap FirstMade(kind)
<1>1. s \in Seq(M)
  BY RequestMade, Both
<1>2. \A f \in M : f \in FramesOf(Starts) /\ f.op \in OpsOf[kind] /\ f.op \in AllOps
  BY FirstCalls, FirstOps, FrameOps DEF FramesOf, Starts
<1> HIDE DEF M
<1>3. Climbs(s)
  <2>1. CASE kind = "restore"
    <3>1. PICK i : s = <<At("restore", i)>>
      BY <2>1 DEF Requests
    <3>2. s # <<>> /\ Head(s) = At("restore", i) /\ Tail(s) = <<>>
      BY <3>1
    <3>3. At("restore", i).op \in ClimbOps
      BY DEF At, ClimbOps
    <3> QED
      BY <3>2, <3>3, NoFrames DEF Climbs
  <2>2. CASE kind # "restore"
    <3>1. OpsOf[kind] \cap RestoreOnly = {}
      BY <2>2, KindsApart
    <3>2. M \subseteq FramesOf(AllOps \ ClimbOps)
      BY <1>2, <3>1 DEF FramesOf, ClimbOps, RestoreOnly
    <3>3. s \in Seq(FramesOf(AllOps \ ClimbOps))
      BY <1>1, <3>2, SeqWider
    <3> QED
      BY <3>3 DEF Climbs
  <2> QED
    BY <2>1, <2>2
<1>4. CASE kind \notin {"mkdir", "upload", "complete"}
  <2>1. OpsOf[kind] \cap {"insert", "quota", "dedup"} = {}
    <3>1. CASE kind \in {"trash", "restore", "delete", "purge"}
      BY <3>1 DEF OpsOf
    <3>2. CASE kind \in {"move", "copy"}
      BY <3>2 DEF OpsOf
    <3>3. CASE kind = "init"
      BY <3>3 DEF OpsOf
    <3> QED
      BY <1>4, <3>1, <3>2, <3>3 DEF Kinds
  <2>2. \A f \in M : Goal(f) = Root
    <3> SUFFICES ASSUME NEW f \in M PROVE Goal(f) = Root
      OBVIOUS
    <3>1. f.op \in Starts \ {"insert", "quota", "dedup"}
      BY <1>2, <2>1 DEF FramesOf
    <3> QED
      BY <3>1 DEF Goal, GoalOps, DestOps, Starts
  <2> QED
    BY <1>1, <1>2, <1>3, <2>2
<1>5. CASE kind \in {"mkdir", "upload"}
  <2>1. PICK to, x : s = ParentCheck(to) \o <<x>> /\ x.op \in {"insert", "quota"} /\ Goal(x) = to
    <3>1. CASE kind = "mkdir"
      <4>1. PICK to \in {Root} \cup DOMAIN files :
              s = ParentCheck(to) \o <<Insert(NewDoc("folder", NoMessage, to), FALSE)>>
        <5>1. Requests[kind] = {ParentCheck(to) \o <<Insert(NewDoc("folder", NoMessage, to), FALSE)>> :
                                to \in {Root} \cup DOMAIN files}
          BY <3>1 DEF Requests
        <5> QED
          BY <5>1
      <4>2. /\ Insert(NewDoc("folder", NoMessage, to), FALSE).op = "insert"
            /\ Goal(Insert(NewDoc("folder", NoMessage, to), FALSE)) = to
        BY DEF Insert, NewDoc, Goal, GoalOps, DestOps
      <4> QED
        BY <4>1, <4>2
    <3>2. CASE kind = "upload"
      <4>1. PICK c \in Contents, to \in {Root} \cup DOMAIN files : s = ParentCheck(to) \o <<New("quota", c, to)>>
        BY <3>2 DEF Requests
      <4>2. New("quota", c, to).op = "quota" /\ Goal(New("quota", c, to)) = to
        BY DEF New, Goal, GoalOps, DestOps
      <4> QED
        BY <4>1, <4>2
    <3> QED
      BY <1>5, <3>1, <3>2
  <2> DEFINE y == At("parent", to)
             F == {f \in FramesOf(Starts) : Goal(f) \in {Root} \cup Pending(s)}
  <2>2. s \in Seq(FramesOf(Starts))
    BY <1>1, <1>2, SeqWider
  <2>3. Goal(y) = Root /\ y.op = "parent" /\ y.id = to
    BY DEF At, Goal, GoalOps, DestOps
  <2>4. (s = <<x>> /\ to = Root) \/ s = <<y, x>>
    <3>1. CASE to = Root
      <4>1. <<>> \o <<x>> = <<x>>
        OBVIOUS
      <4> QED
        BY <2>1, <3>1, <4>1 DEF ParentCheck
    <3>2. CASE to # Root
      <4>1. ParentCheck(to) = <<y>>
        BY <3>2 DEF ParentCheck
      <4> HIDE DEF y
      <4> QED
        BY <2>1, <4>1, PairConcat
    <3> QED
      BY <3>1, <3>2
  <2> HIDE DEF y
  <2>5. CASE s = <<x>> /\ to = Root
    <3>1. x \in FramesOf(Starts)
      BY <2>2, <2>5
    <3>2. x \in F
      BY <2>1, <2>5, <3>1
    <3> HIDE DEF F
    <3>3. s \in Seq(F)
      BY <2>5, <3>2, Single
    <3> QED
      BY <1>3, <3>3 DEF F
  <2>6. CASE s = <<y, x>>
    <3>1. x \in FramesOf(Starts) /\ y \in FramesOf(Starts)
      <4>1. 1 \in DOMAIN s /\ 2 \in DOMAIN s /\ s[1] = y /\ s[2] = x
        BY <2>6
      <4> QED
        BY <2>2, <4>1
    <3>2. Pending(s) = {to}
      BY <2>3, <2>6 DEF Pending
    <3>3. x \in F /\ y \in F
      BY <2>1, <2>3, <3>1, <3>2
    <3> HIDE DEF F
    <3>4. s \in Seq(F)
      BY <2>6, <3>3, Pair
    <3> QED
      BY <1>3, <3>4 DEF F
  <2> QED
    BY <2>4, <2>5, <2>6
<1>6. CASE kind = "complete"
  <2>1. PICK c \in Contents, to \in uploads : s = <<New("dedup", c, to)>>
    BY <1>6 DEF Requests
  <2>2. PICK f : f = New("dedup", c, to)
    OBVIOUS
  <2>3. Late(f) /\ s = <<f>>
    BY <2>1, <2>2 DEF Late, New
  <2>4. f \in M
    BY <1>1, <2>3
  <2> DEFINE F == {f}
  <2>5. s \in Seq(F) /\ F \subseteq FramesOf(Starts) /\ \A g \in F : Late(g)
    BY <1>2, <2>3, <2>4, Single
  <2> HIDE DEF F
  <2> QED
    BY <1>3, <2>5
<1> QED
  BY <1>4, <1>5, <1>6

LEMMA TrashInit == Init => TrashInv
<1> SUFFICES ASSUME Init PROVE TrashInv
  OBVIOUS
<1>1. IInv /\ faults = 0
  BY InitHolds DEF Init
<1>2. Hung
  <2> SUFFICES ASSUME NEW i \in Firm(files, uploads) \cap Live(files) PROVE files[i].parent \notin Low
    BY DEF Hung
  <2>1. files[i].parent # Root => files[i].parent \in Live(files)
    BY DEF Init, TreeClosed, Reachable
  <2>2. Root \notin DOMAIN files
    BY <1>1, IdFacts DEF Root
  <2> QED
    BY <2>1, <2>2 DEF Low, Live
<1>3. ASSUME NEW q \in Procs PROVE Sound(todo[q])
  <2>1. todo[q] = <<>> /\ Len(todo[q]) = 0
    BY DEF Init
  <2>2. \A N, G : Before(todo[q], N, G)
    BY <2>1 DEF Before
  <2>3. todo[q] \in Seq(Fine(High \cup Pending(todo[q]))) /\ Climbs(todo[q])
    BY <2>1, NoFrames DEF Climbs
  <2> QED
    BY <2>2, <2>3 DEF Sound
<1> QED
  BY <1>1, <1>2, <1>3 DEF TrashInv

LEMMA TrashNext ==
    ASSUME IInv, IInv', OneRequest, TrashInv, [Next]_vars
    PROVE  TrashInv'
<1>1. may' = may
  <2>1. ASSUME NEW p \in Procs, Step(p) \/ WorkerStep(p) PROVE may' = may
    BY <2>1, StepOfOne
  <2> QED
    BY <2>1 DEF Next, Begin, Take, Expire, Fail, Restart, Finished, vars, bounds, Procs
<1>2. faults' \in Nat /\ (faults' = 0 => faults = 0 /\ ~Restart /\ \A p \in Procs : ~Fail(p))
  <2>1. ASSUME NEW p \in Procs, Step(p) \/ WorkerStep(p) PROVE faults' = faults
    <3>1. PICK s \in Ready(todo[p]) : \E new : \E rest : GoesOn(p, s, new, rest)
      BY <2>1, StepShape
    <3> QED
      BY <3>1 DEF GoesOn, Effect, bounds
  <2>2. faults' = faults \/ (faults' = faults + 1 /\ faults \in Nat)
    BY <2>1 DEF Next, Begin, Take, Expire, Fail, Restart, Finished, vars, bounds, Procs, TrashInv
  <2>3. faults \in Nat
    BY DEF TrashInv
  <2> QED
    BY <2>2, <2>3 DEF Fail, Restart
<1> SUFFICES ASSUME faults' = 0, TrashApart, Hung, \A q \in Procs : Sound(todo[q])
             PROVE  Hung' /\ (\A q \in Procs : Sound(todo[q]))'
  BY <1>1, <1>2 DEF TrashInv, TrashApart
<1>3. ASSUME NEW c \in Clients, Begin(c) PROVE Hung' /\ (\A q \in Procs : Sound(todo[q]))'
  <2>1. PICK kind \in may[c] : \E s \in Requests[kind] : Goto(c, s)
    BY <1>3 DEF Begin
  <2>2. PICK s \in Requests[kind] : Goto(c, s)
    BY <2>1
  <2>3. /\ kind \in Kinds /\ c \in Procs /\ todo[c] = <<>> /\ UNCHANGED <<files, nextId, uploads>>
        /\ todo'[c] = s /\ \A q \in Procs \ {c} : todo'[q] = todo[q]
    BY <1>3, <2>2, MayKinds DEF Begin, data, Goto, IInv, TypeOK, Procs
  <2>4. s \in Seq(Frame)
    BY <2>3 DEF IInv, TypeOK
  <2>5. PICK F : s \in Seq(F) /\ F \subseteq FramesOf(Starts) /\ \A f \in F : Late(f) \/ Goal(f) \in {Root} \cup Pending(s)
    BY <2>3, <2>4, RequestGoal
  <2>6. Climbs(s)
    BY <2>3, <2>4, RequestGoal
  <2>7. QuietFor(c) /\ Sound(todo[c])'
    BY <2>3, <2>5, <2>6, StartSound
  <2> QED
    BY <2>7, QuietSound
<1>4. ASSUME NEW p \in Procs, Step(p) \/ WorkerStep(p) PROVE Hung' /\ (\A q \in Procs : Sound(todo[q]))'
  BY <1>4, TrashStep
<1>5. ASSUME NEW w \in Workers, Take(w) PROVE Hung' /\ (\A q \in Procs : Sound(todo[q]))'
  <2> DEFINE f == At("send", Head(queue))
  <2>1. /\ w \in Procs /\ todo[w] = <<>> /\ UNCHANGED <<files, nextId, uploads>> /\ Head(queue) \in Nat
        /\ todo'[w] = <<f>> /\ \A q \in Procs \ {w} : todo'[q] = todo[q]
    BY <1>5 DEF Take, Goto, IInv, TypeOK, Procs
  <2>2. f \in FramesOf(Starts) /\ f \in FramesOf(AllOps \ ClimbOps) /\ Goal(f) = Root
    BY <2>1 DEF At, FramesOf, Frame, AtOps, Starts, AllOps, ClimbOps, Goal, GoalOps, DestOps
  <2> HIDE DEF f
  <2>3. PICK s : s = <<f>>
    OBVIOUS
  <2>4. s \in Seq({f}) /\ s \in Seq(FramesOf(AllOps \ ClimbOps))
    BY <2>2, <2>3, Single
  <2>5. Climbs(s)
    BY <2>4 DEF Climbs
  <2>6. PICK F : F = {f}
    OBVIOUS
  <2>7. s \in Seq(F) /\ F \subseteq FramesOf(Starts) /\ \A g \in F : Late(g) \/ Goal(g) \in {Root} \cup Pending(s)
    BY <2>2, <2>4, <2>6
  <2>8. QuietFor(w) /\ Sound(todo[w])'
    BY <2>1, <2>3, <2>5, <2>7, StartSound
  <2> QED
    BY <2>8, QuietSound
<1>6. ASSUME NEW i \in DOMAIN files, Expire(i) PROVE Hung' /\ (\A q \in Procs : Sound(todo[q]))'
  <2>1. /\ files' = [j \in DOMAIN files |-> IF j = i THEN [files[i] EXCEPT !.trash = "expired"] ELSE files[j]]
        /\ UNCHANGED <<nextId, uploads, todo>> /\ files[i].trash = "trashed"
    BY <1>6 DEF Expire, SetDoc
  <2>2. files[i] \in Doc
    BY DEF IInv, TypeOK
  <2>3. \A j \in DOMAIN files : /\ files'[j].parent = files[j].parent /\ files'[j].kind = files[j].kind
                                /\ IsLive(files'[j]) <=> IsLive(files[j])
    BY <2>1, <2>2 DEF Doc, IsLive
  <2>4. PICK w : w \notin Procs
    BY NoSetContainsEverything
  <2>5. QuietFor(w)
    BY <2>1, <2>3, <2>4 DEF QuietFor
  <2> QED
    BY <2>4, <2>5, QuietSound
<1>7. CASE UNCHANGED vars
  <2>1. UNCHANGED <<files, nextId, uploads, todo>>
    BY <1>7 DEF vars, data
  <2>2. PICK w : w \notin Procs
    BY NoSetContainsEverything
  <2>3. QuietFor(w)
    BY <2>1, <2>2 DEF QuietFor
  <2> QED
    BY <2>2, <2>3, QuietSound
<1> QED
  BY <1>2, <1>3, <1>4, <1>5, <1>6, <1>7 DEF Next, Finished, Procs

\* When no request is at work, the library is a tree in which a live document
\* is not hidden: as long as no request died half-way, one client at most
\* moves, no client deletes while another one puts documents into folders, and
\* no client trashes while another one puts documents into folders or restores.
\* _recursive_trash (file_service.py:209-223) marks a folder after the live
\* documents it found in it, and restore_from_trash (226-264) restores the
\* folder a document lies in before the document.  The file of a chunked upload
\* comes, unchecked, into the folder the upload was begun for: such files are
\* excepted (Firm), and its completion is a request that puts a document into a
\* folder (Placers).
THEOREM RestsConsistent == Spec => [](faults = 0 /\ OneMover /\ Apart /\ TrashApart => Consistent)
<1>1. Init => IInv /\ OneRequest /\ CycleInv /\ LostInv /\ TrashInv
  BY InitHolds, OneRequestInit, CycleInit, LostInit, TrashInit
<1>2. /\ IInv /\ OneRequest /\ CycleInv /\ LostInv /\ TrashInv
      /\ [Next]_vars
      => (IInv /\ OneRequest /\ CycleInv /\ LostInv /\ TrashInv)'
  BY NextHolds, OneRequestNext, CycleNext, LostNext, TrashNext
<1>3. IInv /\ CycleInv /\ LostInv /\ TrashInv => (faults = 0 /\ OneMover /\ Apart /\ TrashApart => Consistent)
  <2> SUFFICES ASSUME CycleInv, LostInv, TrashInv, faults = 0, OneMover, Apart, TrashApart, Idle
               PROVE  TreeClosed(files, uploads)
    BY DEF Consistent
  <2>1. NoCycle /\ NothingLost /\ Hung
    BY DEF CycleInv, LostInv, TrashInv
  <2>2. Reachable(files, uploads)
    <3> SUFFICES ASSUME NEW i \in Firm(files, uploads) \cap Live(files), files[i].parent # Root
                 PROVE  files[i].parent \in Live(files)
      BY DEF Reachable
    <3>1. files[i].parent \in DOMAIN files /\ files[i].parent \notin Low
      BY <2>1 DEF NothingLost, Rooted, Hung, Live
    <3>2. ~Raised(files[i].parent)
      <4>1. \A q \in Procs : Len(todo[q]) = 0
        BY DEF Idle, Busy
      <4> QED
        BY <4>1 DEF Raised, Has
    <3> QED
      BY <3>1, <3>2 DEF Low, Live
  <2> QED
    BY <2>1, <2>2 DEF TreeClosed, NoCycle, NothingLost
<1> QED
  BY <1>1, <1>2, <1>3, PTL DEF Spec

(***************************************************************************)
(* What frames and documents know of the messages the library had at the   *)
(* start.                                                                  *)
(***************************************************************************)
OldMsg(m) == m \in 1 .. (FirstMsg - 1)

\* i is not a document with such a message, and will never be one.
NoOld(i) == i \in Ids /\ (i \in DOMAIN files => ~OldMsg(files[i].msg))

\* Folders have none.
Bare(d) == IsFolder(d) => ~OldMsg(d.msg)

\* What d said of document i is still true of what does not change.
Past(i, d) ==
    /\ i \in Ids
    /\ i \in DOMAIN files => /\ files[i].kind = d.kind
                             /\ OldMsg(files[i].msg) => files[i].msg = d.msg

Known(f) ==
    /\ f.op \in {"copyQuota", "copyDoc", "insert"} => Bare(f.doc)
    /\ f.op = "copyEach" => \A k \in f.kids : Bare(k.doc)
    /\ f.op = "deleteEach" => \A k \in f.kids : Past(k.id, k.doc)
    /\ f.op \in {"enqueue", "send", "record", "deleteChildren"} => NoOld(f.id)
    /\ f.op = "remove" => f.id \in Ids
    /\ f.op = "insert" => (f.send => f.doc.msg = NoMessage)
    /\ f.op = "record" => f.msg >= FirstMsg

KnownFrames == {f \in Frame : Known(f)}

Facts ==
    /\ nextMsg >= FirstMsg
    /\ \A i \in DOMAIN files : Bare(files[i])
    /\ \A k \in 1 .. Len(queue) : NoOld(queue[k])
    /\ \A p \in Procs : todo[p] \in Seq(KnownFrames)

\* A document that stays keeps its kind, and its message if that is an old one.
MsgsStay ==
    /\ KindsStay
    /\ \A j \in DOMAIN files \cap DOMAIN files' :
         files'[j].msg = files[j].msg \/ (~OldMsg(files[j].msg) /\ ~OldMsg(files'[j].msg))
    /\ \A j \in DOMAIN files' : Bare(files'[j])

LEMMA EffectMsgs ==
    ASSUME IInv, Facts, NEW p \in Procs, NEW s \in Ready(todo[p]), FilesEffect(Head(s)), Known(Head(s))
    PROVE  MsgsStay
<1> DEFINE h == Head(s)
<1>1. KindsStay /\ h \in Frame /\ nextId \notin DOMAIN files /\ \A i \in DOMAIN files : files[i] \in Doc
  BY EffectKinds, CallTail, IdFacts DEF Calls, IInv, TypeOK
<1>2. FirstMsg \in Nat
  BY LibrariesAssumption
<1>3. CASE h.op \notin {"setParent", "mark", "unmark", "record", "remove", "insert", "copyDoc"}
  BY <1>1, <1>3 DEF FilesEffect, MsgsStay, Facts
<1>4. CASE h.op \in {"setParent", "mark", "unmark"}
  <2>1. PICK d : SetDoc(h.id, d) /\ (h.id \in DOMAIN files => d.msg = files[h.id].msg /\ d.kind = files[h.id].kind)
    <3>1. CASE h.op = "mark"
      <4> DEFINE d == [files[h.id] EXCEPT !.trash = "trashed"]
      <4>1. SetDoc(h.id, d)
        BY <3>1 DEF FilesEffect
      <4> QED
        BY <1>1, <4>1 DEF Doc
    <3>2. CASE h.op = "unmark"
      <4> DEFINE d == [files[h.id] EXCEPT !.trash = "live"]
      <4>1. SetDoc(h.id, d)
        BY <3>2 DEF FilesEffect
      <4> QED
        BY <1>1, <4>1 DEF Doc
    <3>3. CASE h.op = "setParent"
      <4> DEFINE d == [files[h.id] EXCEPT !.parent = h.to]
      <4>1. SetDoc(h.id, d)
        BY <3>3 DEF FilesEffect
      <4> QED
        BY <1>1, <4>1 DEF Doc
    <3> QED
      BY <1>4, <3>1, <3>2, <3>3
  <2> QED
    BY <1>1, <2>1 DEF SetDoc, MsgsStay, Facts, Bare, IsFolder
<1>5. CASE h.op = "record"
  <2> DEFINE d == [files[h.id] EXCEPT !.msg = h.msg]
  <2>1. SetDoc(h.id, d) /\ NoOld(h.id) /\ h.msg >= FirstMsg /\ h.msg \in Nat
    BY <1>1, <1>5, FrameFields DEF FilesEffect, Known
  <2>2. ~OldMsg(h.msg)
    BY <1>2, <2>1 DEF OldMsg
  <2>3. h.id \in DOMAIN files => d.msg = h.msg /\ d.kind = files[h.id].kind
    BY <1>1 DEF Doc
  <2> HIDE DEF d
  <2> QED
    BY <1>1, <2>1, <2>2, <2>3 DEF SetDoc, MsgsStay, NoOld, Facts, Bare
<1>6. CASE h.op = "remove"
  <2>1. files' = [j \in DOMAIN files \ {h.id} |-> files[j]]
    BY <1>6 DEF FilesEffect
  <2> QED
    BY <1>1, <2>1 DEF MsgsStay, Facts
<1>7. CASE h.op \in {"insert", "copyDoc"}
  <2>1. PICK d : InsertDoc(d) /\ Bare(d)
    <3>1. CASE h.op = "insert"
      BY <3>1 DEF FilesEffect, Known
    <3>2. CASE h.op = "copyDoc"
      <4>1. Bare(h.doc) /\ h.doc \in Doc
        BY <1>1, <3>2, FrameFields DEF Known
      <4> DEFINE d == [h.doc EXCEPT !.parent = h.to, !.trash = "live"]
      <4>2. InsertDoc(d)
        BY <3>2 DEF FilesEffect
      <4>3. d.msg = h.doc.msg /\ d.kind = h.doc.kind
        BY <4>1 DEF Doc
      <4> QED
        BY <4>1, <4>2, <4>3 DEF Bare, IsFolder
    <3> QED
      BY <1>7, <3>1, <3>2
  <2> QED
    BY <1>1, <2>1 DEF InsertDoc, MsgsStay, Facts
<1> QED
  BY <1>3, <1>4, <1>5, <1>6, <1>7

LEMMA NoOldStays ==
    ASSUME IInv, MsgsStay
    PROVE  /\ \A i : NoOld(i) => NoOld(i)'
           /\ \A i, d : Past(i, d) => Past(i, d)'
<1>1. nextId \notin Ids /\ Ids \subseteq Ids'
  BY IdFacts DEF MsgsStay, KindsStay, Ids
<1>2. ASSUME NEW i, NoOld(i) PROVE NoOld(i)'
  BY <1>1, <1>2 DEF NoOld, MsgsStay, KindsStay
<1>3. ASSUME NEW i, NEW d, Past(i, d) PROVE Past(i, d)'
  BY <1>1, <1>3 DEF Past, MsgsStay, KindsStay
<1> QED
  BY <1>2, <1>3

LEMMA KnownStays ==
    ASSUME IInv, MsgsStay
    PROVE  KnownFrames \subseteq KnownFrames'
<1> SUFFICES ASSUME NEW f \in KnownFrames PROVE f \in KnownFrames'
  OBVIOUS
<1>1. Known(f) /\ f \in Frame
  BY DEF KnownFrames
<1>2. Ids \subseteq Ids'
  BY IdFacts DEF MsgsStay, KindsStay, Ids
<1>3. Known(f)'
  BY <1>1, <1>2, NoOldStays DEF Known, Bare
<1> QED
  BY <1>1, <1>3 DEF KnownFrames, Frame, Kid, Doc

\* The calls that know something.
KnowingOps == {"copyQuota", "copyDoc", "insert", "copyEach", "deleteEach", "enqueue", "send", "record",
               "deleteChildren", "remove"}

LEMMA OtherKnown ==
    ASSUME NEW f \in Frame, f.op \notin KnowingOps
    PROVE  f \in KnownFrames /\ f \in KnownFrames'
BY DEF KnownFrames, Known, KnowingOps, Frame, Kid, Doc

LEMMA IterationKnown ==
    ASSUME IInv, Facts, NEW l \in KnownFrames, l.op \in EachOps, NEW k \in l.kids, NEW f \in Frame,
           f \in IterationMade(l.op, k, l.to) \/ f = Loop(l.op, l.kids \ {k}, l.to)
    PROVE  f \in KnownFrames
<1>1. CASE l.op = "copyEach"
  <2>1. Bare(k.doc) /\ \A j \in l.kids : Bare(j.doc)
    BY <1>1 DEF KnownFrames, Known
  <2>2. f = Copy("copyDoc", k.id, k.doc, l.to) \/ f = Loop("copyEach", l.kids \ {k}, l.to)
    BY <1>1 DEF IterationMade
  <2> QED
    BY <2>1, <2>2 DEF KnownFrames, Known, Copy, Loop
<1>2. CASE l.op = "deleteEach"
  <2>1. Past(k.id, k.doc) /\ \A j \in l.kids : Past(j.id, j.doc)
    BY <1>2 DEF KnownFrames, Known
  <2>2. CASE f = Loop("deleteEach", l.kids \ {k}, l.to)
    BY <2>1, <2>2 DEF KnownFrames, Known, Loop
  <2>3. CASE f \in IterationMade(l.op, k, l.to) /\ IsFolder(k.doc)
    <3>1. f = At("deleteChildren", k.id)
      BY <1>2, <2>3 DEF IterationMade
    <3>2. NoOld(k.id)
      BY <2>1, <2>3 DEF Past, NoOld, Facts, Bare, IsFolder
    <3> QED
      BY <3>1, <3>2 DEF KnownFrames, Known, At
  <2>4. CASE f \in IterationMade(l.op, k, l.to) /\ ~IsFolder(k.doc)
    <3>1. f.op \notin KnowingOps \/ f = At("remove", k.id)
      BY <1>2, <2>4 DEF IterationMade, FileFrames, At, Add, About, KnowingOps
    <3>2. CASE f = At("remove", k.id)
      BY <2>1, <3>2 DEF KnownFrames, Known, At, Past
    <3> QED
      BY <3>1, <3>2, OtherKnown
  <2> QED
    BY <1>2, <2>2, <2>3, <2>4
<1>3. CASE l.op \notin {"copyEach", "deleteEach"}
  <2>1. f.op \in MoreOps(l.op)
    BY IterationOps
  <2>2. f.op \notin KnowingOps
    BY <1>3, <2>1 DEF EachOps, MoreOps, KnowingOps
  <2> QED
    BY <2>2, OtherKnown
<1> QED
  BY <1>1, <1>2, <1>3

LEMMA KnownMade ==
    ASSUME IInv, Facts, NEW p, NEW h \in KnownFrames, NEW new, Follows(p, h, new), FilesEffect(h), MsgsStay,
           NEW f \in Frame, f \in Made(p, h)
    PROVE  f \in KnownFrames'
<1>1. h \in Frame /\ Known(h) /\ KnownFrames \subseteq KnownFrames'
  BY KnownStays DEF KnownFrames
<1>2. DOMAIN files \subseteq Ids /\ \A i \in DOMAIN files : files[i] \in Doc /\ Bare(files[i])
  BY IdFacts DEF Facts, IInv, TypeOK
<1>3. CASE f.op \notin KnowingOps
  BY <1>3, OtherKnown
<1>4. CASE f.op \in KnowingOps
  <2>0. f.op \in MoreOps(h.op) /\ h.op \in AllOps /\ h.op \notin EachOps
    BY <1>1, MadeOps, FrameOps DEF Made, EachOps
  <2>1. CASE h.op = "copy"
    <3>1. h.id \in DOMAIN files
      BY <2>1 DEF Follows, FollowsPlace, FollowsTrash, FollowsDelete, Plain, Live
    <3>2. f = Copy("copyQuota", h.id, files[h.id], h.to)
      BY <1>4, <2>1 DEF Made, KnowingOps, At, Into, Of, Copy
    <3>3. Known(f)
      BY <1>2, <3>1, <3>2 DEF Known, Copy
    <3> QED
      BY <1>1, <3>3 DEF KnownFrames
  <2>2. CASE h.op = "copyQuota"
    <3>1. f = Copy("copyDoc", h.id, h.doc, h.to)
      BY <1>4, <2>2 DEF Made, KnowingOps, Copy, Add
    <3>2. Known(f)
      BY <1>1, <2>2, <3>1 DEF Known, Copy
    <3> QED
      BY <1>1, <3>2 DEF KnownFrames
  <2>3. CASE h.op = "copyChildren"
    <3>1. f = Loop("copyEach", Fetch(LiveChildren(files, h.id)), h.to)
      BY <2>3 DEF Made
    <3>2. \A k \in f.kids : Bare(k.doc)
      BY <1>2, <3>1 DEF Loop, Fetch, LiveChildren, Children
    <3>3. Known(f)
      BY <3>1, <3>2 DEF Known, Loop
    <3> QED
      BY <1>1, <3>3 DEF KnownFrames
  <2>4. CASE h.op = "dedup"
    <3>1. PICK m, send : f = Insert(NewDoc(h.content, m, h.to), send) /\ (send => m = NoMessage)
      BY <2>4 DEF Made
    <3>2. h.content # "folder"
      BY <1>1, <2>4, FrameFields, ContentsAssumption
    <3>3. Known(f)
      BY <3>1, <3>2 DEF Known, Bare, IsFolder, Insert, NewDoc
    <3> QED
      BY <1>1, <3>3 DEF KnownFrames
  <2>5. CASE h.op = "insert"
    <3>1. f = At("enqueue", nextId) /\ h.send
      BY <1>4, <2>5 DEF Made, KnowingOps, At, Add
    <3>2. /\ nextId' = nextId + 1 /\ files'[nextId].msg = NoMessage
      BY <1>1, <2>5, <3>1 DEF FilesEffect, InsertDoc, Known
    <3>3. PICK i : i = nextId
      OBVIOUS
    <3>4. i \in Ids'
      BY <3>2, <3>3, IdFacts DEF Ids
    <3>5. NoOld(i)'
      BY <3>2, <3>3, <3>4 DEF NoOld, OldMsg, NoMessage
    <3>6. Known(f)'
      BY <3>1, <3>3, <3>5 DEF Known, At
    <3> QED
      BY <3>6 DEF KnownFrames, Frame, Kid, Doc
  <2>6. CASE h.op = "delete"
    <3>1. h.id \in DOMAIN files
      BY <2>6 DEF Made
    <3>2. CASE IsFolder(files[h.id])
      <4>1. f = At("deleteChildren", h.id) \/ f = At("remove", h.id)
        BY <2>6, <3>1, <3>2 DEF Made
      <4>2. Known(f)
        BY <1>2, <3>1, <3>2, <4>1 DEF Known, At, NoOld, Bare
      <4> QED
        BY <1>1, <4>2 DEF KnownFrames
    <3>3. CASE ~IsFolder(files[h.id])
      <4>1. f \in FileFrames(h.id, files[h.id])
        BY <2>6, <3>1, <3>3 DEF Made
      <4>2. f = At("remove", h.id)
        BY <1>4, <4>1 DEF FileFrames, At, Add, About, KnowingOps
      <4>3. Known(f)
        BY <1>2, <3>1, <4>2 DEF Known, At
      <4> QED
        BY <1>1, <4>3 DEF KnownFrames
    <3> QED
      BY <3>2, <3>3
  <2>7. CASE h.op = "deleteChildren"
    <3>1. f = Loop("deleteEach", Fetch(Children(files, h.id)), Root) \/ f = At("remove", h.id)
      BY <2>7 DEF Made
    <3>2. CASE f = Loop("deleteEach", Fetch(Children(files, h.id)), Root)
      <4>1. \A k \in f.kids : Past(k.id, k.doc)
        BY <1>2, <3>2 DEF Loop, Fetch, Children, Past
      <4>2. Known(f)
        BY <3>2, <4>1 DEF Known, Loop
      <4> QED
        BY <1>1, <4>2 DEF KnownFrames
    <3>3. CASE f = At("remove", h.id)
      <4>1. Known(f)
        BY <1>1, <2>7, <3>3 DEF Known, At, NoOld
      <4> QED
        BY <1>1, <4>1 DEF KnownFrames
    <3> QED
      BY <3>1, <3>2, <3>3
  <2>8. CASE h.op = "send"
    <3>1. f = About("record", h.id, nextMsg) /\ nextMsg >= FirstMsg /\ NoOld(h.id)
      BY <1>1, <2>8 DEF Made, Facts, Known
    <3>2. Known(f)
      BY <3>1 DEF Known, About
    <3> QED
      BY <1>1, <3>2 DEF KnownFrames
  <2>9. CASE h.op \notin {"copy", "copyQuota", "copyChildren", "dedup", "insert", "delete", "deleteChildren", "send"}
    <3>1. f.op \notin KnowingOps
      BY <2>0, <2>9 DEF MoreOps, KnowingOps, AllOps, AtOps, DocOps, PlaceOps
    <3> QED
      BY <1>4, <3>1
  <2> QED
    BY <2>1, <2>2, <2>3, <2>4, <2>5, <2>6, <2>7, <2>8, <2>9
<1> QED
  BY <1>3, <1>4

LEMMA MsgsGrow ==
    ASSUME IInv, NEW p, NEW s, NEW new, NEW rest, GoesOn(p, s, new, rest)
    PROVE  nextMsg' \in {nextMsg, nextMsg + 1}
<1>1. CASE UNCHANGED data
  BY <1>1 DEF data
<1>2. CASE Follows(p, Head(s), new) /\ Effect(Head(s)) /\ Head(s).op # "send"
  BY <1>2 DEF Effect, MessagesEffect
<1>3. CASE Follows(p, Head(s), new) /\ Effect(Head(s)) /\ Head(s).op = "send"
  BY <1>3 DEF Follows, FollowsPlace, FollowsTrash, FollowsDelete, Plain
<1> QED
  BY <1>1, <1>2, <1>3 DEF GoesOn

\* How a process stands is made of frames that know what they must.
LEMMA KnownReady ==
    ASSUME IInv, Facts, NEW p \in Procs, NEW s \in Ready(todo[p])
    PROVE  s \in Seq(KnownFrames) /\ s # <<>> /\ Head(s) \in KnownFrames /\ Tail(s) \in Seq(KnownFrames)
<1>1. s \in Seq(Frame) /\ s # <<>> /\ todo[p] \in Seq(KnownFrames) /\ KnownFrames \subseteq Frame
  BY CallTail DEF Calls, Facts, KnownFrames
<1>2. ASSUME NEW l \in KnownFrames, l.op \in EachOps, NEW k \in l.kids, NEW f \in Frame,
             f \in IterationMade(l.op, k, l.to) \/ f = Loop(l.op, l.kids \ {k}, l.to)
      PROVE  f \in KnownFrames
  BY <1>2, IterationKnown
<1>3. s \in Seq(KnownFrames)
  BY <1>1, <1>2, ReadyIn
<1> QED
  BY <1>1, <1>3

\* Facts that a step of no process changes.
LEMMA FactsQuiet ==
    ASSUME IInv, Facts, MsgsStay, NEW p, nextMsg' = nextMsg,
           \A k \in 1 .. Len(queue') : \E j \in 1 .. Len(queue) : queue'[k] = queue[j],
           \A q \in Procs \ {p} : todo'[q] = todo[q] \/ todo'[q] = <<>>,
           p \in Procs => todo'[p] \in Seq(KnownFrames')
    PROVE  Facts'
<1>1. KnownFrames \subseteq KnownFrames'
  BY KnownStays
<1>2. ASSUME NEW q \in Procs PROVE todo'[q] \in Seq(KnownFrames')
  <2>1. CASE q = p
    BY <2>1
  <2>2. CASE todo'[q] = <<>>
    BY <2>2, NoFrames
  <2>3. CASE todo'[q] = todo[q]
    <3>1. todo[q] \in Seq(KnownFrames)
      BY DEF Facts
    <3> QED
      BY <1>1, <2>3, <3>1, SeqWider
  <2> QED
    BY <2>1, <2>2, <2>3
<1>4. ASSUME NEW k \in 1 .. Len(queue') PROVE NoOld(queue[k])'
  <2>1. PICK j \in 1 .. Len(queue) : queue'[k] = queue[j]
    OBVIOUS
  <2>2. PICK i : i = queue[j]
    OBVIOUS
  <2>3. NoOld(i)'
    BY <2>1, <2>2, NoOldStays DEF Facts
  <2> QED
    BY <2>1, <2>2, <2>3 DEF NoOld
<1>5. nextMsg' >= FirstMsg /\ \A i \in DOMAIN files' : Bare(files'[i])
  BY DEF Facts, MsgsStay
<1> QED
  BY <1>2, <1>4, <1>5 DEF Facts, Procs, KnownFrames, Frame, Kid, Doc

LEMMA FactsStep ==
    ASSUME IInv, IInv', Facts, NEW p \in Procs, NEW s \in Ready(todo[p]), NEW new, NEW rest, GoesOn(p, s, new, rest)
    PROVE  Facts' /\ MsgsStay
<1> DEFINE h == Head(s)
<1>1. s \in Seq(KnownFrames) /\ s # <<>> /\ h \in KnownFrames /\ s \in Seq(Frame)
  BY KnownReady, CallTail DEF Calls
<1>2. todo'[p] = new \o rest /\ new \o rest \in Seq(Frame) /\ \A q \in Procs \ {p} : todo'[q] = todo[q]
  BY DEF GoesOn, Goto, IInv, TypeOK
<1>3. nextMsg' >= FirstMsg
  <2>1. nextMsg' \in {nextMsg, nextMsg + 1} /\ nextMsg >= FirstMsg
    BY MsgsGrow DEF Facts
  <2>2. nextMsg \in Nat /\ FirstMsg \in Nat
    BY LibrariesAssumption DEF IInv, TypeOK
  <2> QED
    BY <2>1, <2>2
<1>4. MsgsStay
  <2>1. CASE UNCHANGED data
    BY <2>1, IdFacts DEF data, MsgsStay, KindsStay, Facts
  <2>2. CASE Effect(h)
    <3>1. FilesEffect(h) /\ Known(h)
      BY <1>1, <2>2 DEF Effect, KnownFrames
    <3> QED
      BY <3>1, EffectMsgs
  <2> QED
    BY <2>1, <2>2 DEF GoesOn
<1>5. KnownFrames \subseteq KnownFrames' /\ KnownFrames \subseteq Frame
  BY <1>4, KnownStays DEF KnownFrames
<1>6. new \o rest \in Seq(KnownFrames')
  <2>1. ASSUME Follows(p, Head(s), new), Effect(Head(s)), NEW f \in Frame, f \in Made(p, Head(s))
        PROVE  f \in KnownFrames'
    BY <1>1, <1>4, <2>1, KnownMade DEF Effect
  <2> QED
    BY <1>1, <1>2, <1>5, <2>1, GoesOnIn
<1>7. ASSUME NEW q \in Procs PROVE todo'[q] \in Seq(KnownFrames')
  <2>1. todo[q] \in Seq(KnownFrames)
    BY DEF Facts
  <2> QED
    BY <1>2, <1>5, <1>6, <2>1, SeqWider
<1>9. ASSUME NEW k \in 1 .. Len(queue') PROVE NoOld(queue[k])'
  <2>1. queue \in Seq(Nat)
    BY DEF IInv, TypeOK
  <2>2. (\E j \in 1 .. Len(queue) : queue'[k] = queue[j]) \/ (h.op = "enqueue" /\ queue'[k] = h.id)
    <3>1. CASE queue' = queue
      BY <3>1
    <3>2. CASE h.op = "enqueue" /\ queue' = Append(queue, h.id)
      BY <2>1, <3>2
    <3> QED
      BY <3>1, <3>2 DEF GoesOn, Effect, QueueEffect, data
  <2>3. PICK i : i = queue'[k]
    OBVIOUS
  <2>4. NoOld(i)
    BY <1>1, <2>2, <2>3 DEF Facts, KnownFrames, Known
  <2>5. NoOld(i)'
    BY <1>4, <2>4, NoOldStays
  <2> QED
    BY <2>3, <2>5 DEF NoOld
<1>10. \A i \in DOMAIN files' : Bare(files'[i])
  BY <1>4 DEF MsgsStay
<1> QED
  BY <1>3, <1>4, <1>7, <1>9, <1>10 DEF Facts, Procs, KnownFrames, Frame, Kid, Doc

LEMMA FirstKnown ==
    ASSUME NEW kind \in Kinds, NEW f \in Frame, f \in FirstMade(kind)
    PROVE  f \in KnownFrames
<1>1. CASE f.op = "insert"
  <2>1. CASE kind = "mkdir"
    <3>1. PICK to : f = Insert(NewDoc("folder", NoMessage, to), FALSE)
      BY <1>1, <2>1 DEF FirstMade, At, Insert
    <3>2. Known(f)
      BY <3>1 DEF Known, Bare, OldMsg, Insert, NewDoc, NoMessage
    <3> QED
      BY <3>2 DEF KnownFrames
  <2>2. CASE kind = "upload"
    BY <1>1, <2>2 DEF FirstMade, At, New
  <2>3. CASE kind \in Kinds \ {"mkdir", "upload", "init", "complete"}
    <3>1. f.op \in OpsOf[kind]
      BY FirstOps
    <3>2. "insert" \notin OpsOf[kind]
      BY <2>3 DEF Kinds, OpsOf
    <3> QED
      BY <1>1, <3>1, <3>2
  <2>4. CASE kind = "init"
    BY <1>1, <2>4 DEF FirstMade, At
  <2>5. CASE kind = "complete"
    BY <1>1, <2>5 DEF FirstMade, New
  <2> QED
    BY <2>1, <2>2, <2>3, <2>4, <2>5
<1>2. CASE f.op # "insert"
  <2>1. f.op \notin KnowingOps
    BY <1>2, FirstCalls DEF KnowingOps
  <2> QED
    BY <2>1, OtherKnown
<1> QED
  BY <1>1, <1>2

LEMMA FactsInit == Init => Facts
<1> SUFFICES ASSUME Init PROVE Facts
  OBVIOUS
<1>1. nextMsg >= FirstMsg
  BY LibrariesAssumption DEF Init
<1>2. \A i \in DOMAIN files : Bare(files[i])
  BY LibrariesAssumption DEF Init, Bare, OldMsg, NoMessage
<1>3. queue = <<>> /\ \A p \in Procs : todo[p] = <<>>
  BY DEF Init
<1>4. \A k \in 1 .. Len(queue) : NoOld(queue[k])
  BY <1>3
<1> QED
  BY <1>1, <1>2, <1>3, <1>4, NoFrames DEF Facts

\* The steps that are no step of a process at work.
Quiet(p) ==
    \/ p \in Clients /\ Begin(p)
    \/ p \in Workers /\ Take(p)
    \/ p \in Procs /\ Fail(p)
    \/ p \notin Procs /\ Restart
    \/ p \notin Procs /\ \E i \in DOMAIN files : Expire(i)
    \/ p \notin Procs /\ UNCHANGED vars

LEMMA NextCases ==
    ASSUME [Next]_vars
    PROVE  (\E p \in Procs : Step(p) \/ WorkerStep(p)) \/ (\E p : Quiet(p))
<1>1. PICK w : w \notin Procs
  BY NoSetContainsEverything
<1> QED
  BY <1>1 DEF Next, Finished, Quiet, Procs

\* What those steps leave as it was.
QuietTodo(p) ==
    \/ todo'[p] = <<>>
    \/ p \in Clients /\ UNCHANGED files /\ \E kind \in may[p] \cap Kinds : \E s \in Requests[kind] : Goto(p, s)
    \/ p \in Workers /\ todo'[p] = <<At("send", Head(queue))>> /\ queue # <<>>

QuietData(p) ==
    /\ messages' = messages /\ nextId' = nextId /\ nextMsg' = nextMsg /\ may' = may
    /\ DOMAIN files' = DOMAIN files
    /\ \A j \in DOMAIN files : files'[j].msg = files[j].msg /\ files'[j].kind = files[j].kind
    /\ \A k \in 1 .. Len(queue') : \E j \in 1 .. Len(queue) : queue'[k] = queue[j]
    /\ \A q \in Procs \ {p} : todo'[q] = todo[q] \/ todo'[q] = <<>>
    /\ faults' = faults + 1 \/ (faults' = faults /\ \A q \in Procs \ {p} : todo'[q] = todo[q])

LEMMA QuietShape ==
    ASSUME IInv, NEW p, Quiet(p)
    PROVE  QuietData(p) /\ (p \in Procs => QuietTodo(p))
<1>1. CASE p \in Clients /\ Begin(p)
  <2>1. PICK kind \in may[p] : \E s \in Requests[kind] : Goto(p, s)
    BY <1>1 DEF Begin
  <2>2. kind \in Kinds
    BY <1>1, MayKinds
  <2>3. UNCHANGED <<data, may, faults>> /\ \A q \in Procs \ {p} : todo'[q] = todo[q]
    BY <1>1, <2>1 DEF Begin, Goto, IInv, TypeOK, Procs
  <2> QED
    BY <1>1, <2>1, <2>2, <2>3 DEF data, QuietData, QuietTodo
<1>2. CASE p \in Workers /\ Take(p)
  <2>1. /\ todo'[p] = <<At("send", Head(queue))>> /\ \A q \in Procs \ {p} : todo'[q] = todo[q]
        /\ UNCHANGED <<files, messages, nextId, nextMsg, may, faults>> /\ queue # <<>> /\ queue' = Tail(queue)
    BY <1>2 DEF Take, Goto, IInv, TypeOK, Procs, bounds
  <2>2. \A k \in 1 .. Len(queue') : \E j \in 1 .. Len(queue) : queue'[k] = queue[j]
    <3> SUFFICES ASSUME NEW k \in 1 .. Len(queue') PROVE \E j \in 1 .. Len(queue) : queue'[k] = queue[j]
      OBVIOUS
    <3>1. queue'[k] = queue[k + 1] /\ k + 1 \in 1 .. Len(queue)
      BY <2>1 DEF IInv, TypeOK
    <3> QED
      BY <3>1
  <2> QED
    BY <1>2, <2>1, <2>2, ProcsAssumption DEF QuietData, QuietTodo
<1>3. CASE p \in Procs /\ Fail(p)
  <2>1. /\ todo'[p] = <<>> /\ \A q \in Procs \ {p} : todo'[q] = todo[q]
        /\ UNCHANGED <<data, may>> /\ faults' = faults + 1
    BY <1>3 DEF Fail, Abort, Goto, IInv, TypeOK
  <2> QED
    BY <2>1 DEF data, QuietData, QuietTodo
<1>4. CASE p \notin Procs /\ Restart
  <2>1. /\ UNCHANGED <<files, messages, nextId, nextMsg, may>> /\ queue' = <<>> /\ faults' = faults + 1
        /\ \A q \in Procs : todo'[q] = <<>>
    BY <1>4 DEF Restart
  <2> QED
    BY <1>4, <2>1, ProcsAssumption DEF QuietData, QuietTodo
<1>5. CASE p \notin Procs /\ \E i \in DOMAIN files : Expire(i)
  <2>1. PICK i \in DOMAIN files : Expire(i)
    BY <1>5
  <2>2. /\ files' = [j \in DOMAIN files |-> IF j = i THEN [files[i] EXCEPT !.trash = "expired"] ELSE files[j]]
        /\ UNCHANGED <<messages, nextId, nextMsg, queue, may, faults, todo>>
    BY <2>1 DEF Expire, SetDoc, bounds
  <2>3. files[i] \in Doc
    BY DEF IInv, TypeOK
  <2>4. \A j \in DOMAIN files : files'[j].msg = files[j].msg /\ files'[j].kind = files[j].kind
    BY <2>2, <2>3 DEF Doc
  <2> QED
    BY <1>5, <2>2, <2>4, ProcsAssumption DEF QuietData, QuietTodo
<1>6. CASE p \notin Procs /\ UNCHANGED vars
  BY <1>6 DEF vars, data, bounds, QuietData, QuietTodo
<1> QED
  BY <1>1, <1>2, <1>3, <1>4, <1>5, <1>6 DEF Quiet

LEMMA FactsOfQuiet ==
    ASSUME IInv, IInv', Facts, NEW p, Quiet(p)
    PROVE  Facts' /\ MsgsStay
<1>0. /\ nextMsg' = nextMsg /\ KindsStay /\ DOMAIN files' = DOMAIN files
      /\ \A j \in DOMAIN files : files'[j].msg = files[j].msg /\ files'[j].kind = files[j].kind
      /\ \A q \in Procs \ {p} : todo'[q] = todo[q] \/ todo'[q] = <<>>
      /\ \A k \in 1 .. Len(queue') : \E j \in 1 .. Len(queue) : queue'[k] = queue[j]
  BY QuietShape, IdFacts DEF QuietData, KindsStay
<1>1. MsgsStay
  BY <1>0 DEF MsgsStay, Facts, Bare, IsFolder
<1>2. KnownFrames \subseteq KnownFrames'
  BY <1>1, KnownStays
<1>3. ASSUME p \in Procs PROVE todo'[p] \in Seq(KnownFrames')
  <2>1. CASE todo'[p] = <<>>
    BY <2>1, NoFrames
  <2>2. CASE p \in Clients /\ \E kind \in may[p] \cap Kinds : \E s \in Requests[kind] : Goto(p, s)
    <3>1. PICK kind \in may[p] \cap Kinds : \E s \in Requests[kind] : Goto(p, s)
      BY <2>2
    <3>2. ASSUME NEW f \in Frame, f \in FirstMade(kind) PROVE f \in KnownFrames
      BY <3>2, FirstKnown
    <3>3. todo \in [Procs -> Seq(Frame)]
      BY DEF IInv, TypeOK
    <3>4. todo'[p] \in Seq(KnownFrames)
      BY <2>2, <3>1, <3>2, <3>3, BeginIn
    <3> QED
      BY <1>2, <3>4, SeqWider
  <2>3. CASE todo'[p] = <<At("send", Head(queue))>> /\ queue # <<>>
    <3>1. NoOld(Head(queue)) /\ Head(queue) \in Nat
      <4>1. queue \in Seq(Nat) /\ queue # <<>> /\ \A k \in 1 .. Len(queue) : NoOld(queue[k])
        BY <2>3 DEF IInv, TypeOK, Facts
      <4>2. Head(queue) = queue[1] /\ 1 \in 1 .. Len(queue) /\ Head(queue) \in Nat
        BY <4>1
      <4> QED
        BY <4>1, <4>2
    <3>2. PICK i : i = Head(queue)
      OBVIOUS
    <3>3. At("send", i) \in KnownFrames
      BY <3>1, <3>2 DEF KnownFrames, Known, At, Frame, AtOps
    <3>4. todo'[p] \in Seq(KnownFrames)
      BY <2>3, <3>2, <3>3, Single
    <3> QED
      BY <1>2, <3>4, SeqWider
  <2>4. \/ todo'[p] = <<>>
        \/ p \in Clients /\ \E kind \in may[p] \cap Kinds : \E s \in Requests[kind] : Goto(p, s)
        \/ todo'[p] = <<At("send", Head(queue))>> /\ queue # <<>>
    BY <1>3, QuietShape DEF QuietTodo
  <2> QED
    BY <2>1, <2>2, <2>3, <2>4
<1>4. Facts'
  BY <1>0, <1>1, <1>3, FactsQuiet
<1> QED
  BY <1>1, <1>4

LEMMA FactsNext ==
    ASSUME IInv, IInv', Facts, [Next]_vars
    PROVE  Facts'
<1>1. ASSUME NEW p \in Procs, Step(p) \/ WorkerStep(p) PROVE Facts'
  <2>1. PICK s \in Ready(todo[p]) : \E new : \E rest : GoesOn(p, s, new, rest)
    BY <1>1, StepShape
  <2>2. PICK new, rest : GoesOn(p, s, new, rest)
    BY <2>1
  <2> QED
    BY <2>2, FactsStep
<1>2. ASSUME NEW p, Quiet(p) PROVE Facts'
  BY <1>2, FactsOfQuiet
<1> QED
  BY <1>1, <1>2, NextCases

(***************************************************************************)
(* The order of a file's deletion: its message is counted, then deleted if *)
(* nothing shares it, then the document is removed.                        *)
(***************************************************************************)
\* Document i has a message of the library's first day.
Owes(lib, i) == i \in DOMAIN lib /\ OldMsg(lib[i].msg)

Counts(s, k) ==
    /\ s[k].msg # NoMessage
    /\ k + 1 \in 1 .. Len(s) /\ s[k + 1] = At("remove", s[k].id)

Counted(lib, s, k) ==
    /\ k - 1 \in 1 .. Len(s) /\ s[k - 1].op = "countRefs"
    /\ s[k - 1].msg = lib[s[k].id].msg

\* Every removal in s that takes the last word of a message is after the count.
Closed(lib, s) ==
    \A k \in 1 .. Len(s) :
        /\ s[k].op # "deleteMsg"
        /\ s[k].op = "countRefs" => Counts(s, k)
        /\ s[k].op = "remove" /\ Owes(lib, s[k].id) => Counted(lib, s, k)

LEMMA QuietClosed ==
    ASSUME NEW lib, NEW F, NEW s \in Seq(F),
           \A f \in F : f.op \notin {"deleteMsg", "countRefs"} /\ (f.op = "remove" => ~Owes(lib, f.id))
    PROVE  Closed(lib, s)
<1>1. ASSUME NEW k \in 1 .. Len(s)
      PROVE  s[k].op \notin {"deleteMsg", "countRefs"} /\ (s[k].op = "remove" => ~Owes(lib, s[k].id))
  <2>1. s[k] \in F
    OBVIOUS
  <2> QED
    BY <2>1
<1> QED
  BY <1>1 DEF Closed

LEMMA ClosedStays ==
    ASSUME NEW A, NEW B, NEW s, Closed(A, s),
           \A k \in 1 .. Len(s) : s[k].op = "remove" /\ Owes(B, s[k].id) =>
                                    Owes(A, s[k].id) /\ B[s[k].id].msg = A[s[k].id].msg
    PROVE  Closed(B, s)
<1>1. ASSUME NEW k \in 1 .. Len(s), s[k].op = "remove", Owes(B, s[k].id) PROVE Counted(B, s, k)
  BY <1>1 DEF Closed, Counted
<1> QED
  BY <1>1 DEF Closed

LEMMA ClosedThen ==
    ASSUME NEW lib, NEW F, NEW a \in Seq(F), NEW b \in Seq(F), Closed(lib, a), Closed(lib, b)
    PROVE  Closed(lib, a \o b)
<1> DEFINE t == a \o b
           m == Len(a)
           n == Len(b)
<1>1. m \in Nat /\ n \in Nat
  OBVIOUS
<1>2. Len(t) = m + n /\ \A i \in 1 .. m + n : t[i] = IF i <= m THEN a[i] ELSE b[i - m]
  BY ConcatProperties
<1> HIDE DEF t, m, n
<1>3. ASSUME NEW k \in 1 .. m, NEW j \in 1 .. m PROVE t[k] = a[k] /\ k \in 1 .. m + n
  BY <1>1, <1>2
<1>4. ASSUME NEW k \in 1 .. n PROVE t[k + m] = b[k] /\ k + m \in 1 .. m + n
  <2>1. k + m \in 1 .. m + n /\ ~(k + m <= m) /\ (k + m) - m = k
    BY <1>1
  <2> QED
    BY <1>2, <2>1
<1>5. ASSUME NEW k \in 1 .. m
      PROVE  /\ t[k].op # "deleteMsg"
             /\ t[k].op = "countRefs" => Counts(t, k)
             /\ t[k].op = "remove" /\ Owes(lib, t[k].id) => Counted(lib, t, k)
  <2>1. t[k] = a[k] /\ k \in 1 .. Len(a)
    BY <1>3 DEF m
  <2>2. ASSUME t[k].op = "countRefs" PROVE Counts(t, k)
    <3>1. Counts(a, k)
      BY <2>1, <2>2 DEF Closed
    <3>2. k + 1 \in 1 .. m /\ a[k + 1] = At("remove", a[k].id) /\ a[k].msg # NoMessage
      BY <3>1 DEF Counts, m
    <3>3. t[k + 1] = a[k + 1] /\ k + 1 \in 1 .. Len(t)
      BY <1>2, <1>3, <3>2
    <3> QED
      BY <2>1, <3>2, <3>3 DEF Counts
  <2>3. ASSUME t[k].op = "remove", Owes(lib, t[k].id) PROVE Counted(lib, t, k)
    <3>1. Counted(lib, a, k)
      BY <2>1, <2>3 DEF Closed
    <3>2. k - 1 \in 1 .. m
      BY <3>1 DEF Counted, m
    <3>3. t[k - 1] = a[k - 1] /\ k - 1 \in 1 .. Len(t)
      BY <1>2, <1>3, <3>2
    <3> QED
      BY <2>1, <3>1, <3>3 DEF Counted
  <2> QED
    BY <2>1, <2>2, <2>3 DEF Closed
<1>6. ASSUME NEW i \in 1 .. n
      PROVE  /\ t[i + m].op # "deleteMsg"
             /\ t[i + m].op = "countRefs" => Counts(t, i + m)
             /\ t[i + m].op = "remove" /\ Owes(lib, t[i + m].id) => Counted(lib, t, i + m)
  <2>1. t[i + m] = b[i] /\ i \in 1 .. Len(b)
    BY <1>4 DEF n
  <2>2. ASSUME t[i + m].op = "countRefs" PROVE Counts(t, i + m)
    <3>1. Counts(b, i)
      BY <2>1, <2>2 DEF Closed
    <3>2. i + 1 \in 1 .. n /\ b[i + 1] = At("remove", b[i].id) /\ b[i].msg # NoMessage
      BY <3>1 DEF Counts, n
    <3>3. t[(i + 1) + m] = b[i + 1] /\ (i + 1) + m \in 1 .. Len(t)
      BY <1>2, <1>4, <3>2
    <3>4. (i + 1) + m = (i + m) + 1
      BY <1>1
    <3> QED
      BY <2>1, <3>2, <3>3, <3>4 DEF Counts
  <2>3. ASSUME t[i + m].op = "remove", Owes(lib, t[i + m].id) PROVE Counted(lib, t, i + m)
    <3>1. Counted(lib, b, i)
      BY <2>1, <2>3 DEF Closed
    <3>2. i - 1 \in 1 .. n
      BY <3>1 DEF Counted, n
    <3>3. t[(i - 1) + m] = b[i - 1] /\ (i - 1) + m \in 1 .. Len(t)
      BY <1>2, <1>4, <3>2
    <3>4. (i - 1) + m = (i + m) - 1
      BY <1>1
    <3> QED
      BY <2>1, <3>1, <3>3, <3>4 DEF Counted
  <2> QED
    BY <2>1, <2>2, <2>3 DEF Closed
<1>7. ASSUME NEW k \in 1 .. Len(t), k \notin 1 .. m PROVE k - m \in 1 .. n /\ (k - m) + m = k
  BY <1>1, <1>2, <1>7
<1>8. ASSUME NEW k \in 1 .. Len(t)
      PROVE  /\ t[k].op # "deleteMsg"
             /\ t[k].op = "countRefs" => Counts(t, k)
             /\ t[k].op = "remove" /\ Owes(lib, t[k].id) => Counted(lib, t, k)
  <2>1. CASE k \in 1 .. m
    BY <1>5, <2>1
  <2>2. CASE k \notin 1 .. m
    <3> DEFINE i == k - m
    <3>1. i \in 1 .. n /\ i + m = k
      BY <1>7, <2>2
    <3> HIDE DEF i
    <3> QED
      BY <1>6, <3>1
  <2> QED
    BY <2>1, <2>2
<1> QED
  BY <1>8 DEF Closed, t

\* What is left after the first call.
LEMMA ClosedTail ==
    ASSUME NEW lib, NEW F, NEW s \in Seq(F), s # <<>>, Closed(lib, s), Head(s).op # "countRefs"
    PROVE  Closed(lib, Tail(s))
<1> DEFINE r == Tail(s)
           n == Len(s)
<1>1. r \in Seq(F) /\ Len(r) = n - 1 /\ \A i \in 1 .. Len(r) : r[i] = s[i + 1]
  BY HeadTailProperties
<1>2. Head(s) = s[1] /\ n \in Nat \ {0}
  OBVIOUS
<1> HIDE DEF r, n
<1>3. ASSUME NEW k \in 1 .. Len(r)
      PROVE  /\ r[k].op # "deleteMsg"
             /\ r[k].op = "countRefs" => Counts(r, k)
             /\ r[k].op = "remove" /\ Owes(lib, r[k].id) => Counted(lib, r, k)
  <2>1. r[k] = s[k + 1] /\ k + 1 \in 1 .. n
    BY <1>1, <1>2
  <2>2. ASSUME r[k].op = "countRefs" PROVE Counts(r, k)
    <3>1. Counts(s, k + 1)
      BY <2>1, <2>2 DEF Closed, n
    <3>2. (k + 1) + 1 \in 1 .. n
      BY <3>1 DEF Counts, n
    <3>3. k + 1 \in 1 .. Len(r)
      BY <1>1, <1>2, <3>2
    <3>4. r[k + 1] = s[(k + 1) + 1]
      BY <1>1, <3>3
    <3> QED
      BY <2>1, <3>1, <3>3, <3>4 DEF Counts
  <2>3. ASSUME r[k].op = "remove", Owes(lib, r[k].id) PROVE Counted(lib, r, k)
    <3>1. Counted(lib, s, k + 1)
      BY <2>1, <2>3 DEF Closed, n
    <3>2. (k + 1) - 1 = k /\ (k - 1) + 1 = k
      OBVIOUS
    <3>3. s[k].op = "countRefs" /\ s[k].msg = lib[s[k + 1].id].msg
      BY <3>1, <3>2 DEF Counted
    <3>4. k # 1
      BY <1>2, <3>3
    <3>5. k - 1 \in 1 .. Len(r)
      BY <1>1, <1>2, <3>4
    <3>6. r[k - 1] = s[k]
      BY <1>1, <3>2, <3>5
    <3> QED
      BY <2>1, <3>3, <3>5, <3>6 DEF Counted
  <2> QED
    BY <2>1, <2>2, <2>3 DEF Closed, n
<1>4. Closed(lib, r)
  BY <1>3 DEF Closed
<1> QED
  BY <1>4 DEF r

\* What is left after the count.
LEMMA ClosedCount ==
    ASSUME NEW lib, NEW F, NEW s \in Seq(F), s # <<>>, Closed(lib, s), Head(s).op = "countRefs"
    PROVE  /\ Head(s).msg # NoMessage
           /\ Tail(s) # <<>> /\ Head(Tail(s)) = At("remove", Head(s).id)
           /\ Owes(lib, Head(s).id) => lib[Head(s).id].msg = Head(s).msg
           /\ Closed(lib, Tail(Tail(s)))
<1> DEFINE r == Tail(s)
           u == Tail(r)
           n == Len(s)
<1>1. r \in Seq(F) /\ Len(r) = n - 1 /\ \A i \in 1 .. Len(r) : r[i] = s[i + 1]
  BY HeadTailProperties
<1>2. Head(s) = s[1] /\ n \in Nat \ {0}
  OBVIOUS
<1>3. Counts(s, 1)
  BY <1>2 DEF Closed
<1> HIDE DEF n
<1>4. s[1].msg # NoMessage /\ 2 \in 1 .. n /\ s[2] = At("remove", s[1].id)
  BY <1>3 DEF Counts, n
<1> HIDE DEF r
<1>5. r # <<>> /\ Head(r) = s[2]
  <2>1. 1 \in 1 .. Len(r)
    BY <1>1, <1>2, <1>4
  <2>2. r[1] = s[1 + 1] /\ r # <<>>
    BY <1>1, <2>1
  <2> QED
    BY <1>1, <2>2
<1>6. Owes(lib, s[1].id) => lib[s[1].id].msg = s[1].msg
  <2> SUFFICES ASSUME Owes(lib, s[1].id) PROVE lib[s[1].id].msg = s[1].msg
    OBVIOUS
  <2>1. s[2].op = "remove" /\ s[2].id = s[1].id
    BY <1>4 DEF At
  <2>2. Counted(lib, s, 2)
    BY <1>4, <2>1 DEF Closed, n
  <2> QED
    BY <2>1, <2>2 DEF Counted
<1>7. u \in Seq(F) /\ Len(u) = Len(r) - 1 /\ \A i \in 1 .. Len(u) : u[i] = r[i + 1]
  BY <1>1, <1>5, HeadTailProperties
<1> HIDE DEF u
<1>8. Closed(lib, u)
  <2>2. ASSUME NEW k \in 1 .. Len(u)
        PROVE  /\ u[k].op # "deleteMsg"
               /\ u[k].op = "countRefs" => Counts(u, k)
               /\ u[k].op = "remove" /\ Owes(lib, u[k].id) => Counted(lib, u, k)
    <3>1. k + 1 \in 1 .. Len(r) /\ k + 2 \in 1 .. n /\ (k + 1) + 1 = k + 2
      BY <1>1, <1>2, <1>7
    <3>2. u[k] = s[k + 2]
      <4>1. u[k] = r[k + 1] /\ r[k + 1] = s[(k + 1) + 1]
        BY <1>1, <1>7, <3>1
      <4> QED
        BY <3>1, <4>1
    <3>3. ASSUME u[k].op = "countRefs" PROVE Counts(u, k)
      <4>1. Counts(s, k + 2)
        BY <3>1, <3>2, <3>3 DEF Closed, n
      <4>2. (k + 2) + 1 \in 1 .. n
        BY <4>1 DEF Counts, n
      <4>3. k + 1 \in 1 .. Len(u) /\ k + 2 \in 1 .. Len(r) /\ (k + 1) + 1 = k + 2
        BY <1>1, <1>2, <1>7, <4>2
      <4>4. u[k + 1] = r[(k + 1) + 1] /\ r[k + 2] = s[(k + 2) + 1]
        BY <1>1, <1>7, <4>3
      <4>5. u[k + 1] = s[(k + 2) + 1]
        BY <4>3, <4>4
      <4> QED
        BY <3>2, <4>1, <4>3, <4>5 DEF Counts
    <3>4. ASSUME u[k].op = "remove", Owes(lib, u[k].id) PROVE Counted(lib, u, k)
      <4>1. Counted(lib, s, k + 2)
        BY <3>1, <3>2, <3>4 DEF Closed, n
      <4>2. (k + 2) - 1 = k + 1 /\ (k - 1) + 1 = k
        OBVIOUS
      <4>3. s[k + 1].op = "countRefs" /\ s[k + 1].msg = lib[s[k + 2].id].msg
        BY <4>1, <4>2 DEF Counted
      <4>4. k # 1
        <5>1. s[2].op = "remove"
          BY <1>4 DEF At
        <5> QED
          BY <4>3, <5>1
      <4>5. k - 1 \in 1 .. Len(u) /\ k \in 1 .. Len(r)
        BY <1>7, <3>1, <4>4
      <4>6. u[k - 1] = r[(k - 1) + 1] /\ r[k] = s[k + 1]
        BY <1>1, <1>7, <4>5
      <4>7. u[k - 1] = s[k + 1]
        BY <4>2, <4>6
      <4> QED
        BY <3>2, <4>3, <4>5, <4>7 DEF Counted
    <3> QED
      BY <3>1, <3>2, <3>3, <3>4 DEF Closed, n
  <2> QED
    BY <2>2 DEF Closed
<1> QED
  BY <1>2, <1>4, <1>5, <1>6, <1>8 DEF r, u

LEMMA CountThenRemove ==
    ASSUME NEW lib, NEW i, NEW m, m # NoMessage, Owes(lib, i) => lib[i].msg = m
    PROVE  Closed(lib, <<About("countRefs", i, m), At("remove", i)>>)
<1> DEFINE x == About("countRefs", i, m)
           y == At("remove", i)
           s == <<x, y>>
<1>1. x.op = "countRefs" /\ x.id = i /\ x.msg = m /\ y.op = "remove" /\ y.id = i
  BY DEF About, At
<1>2. Len(s) = 2 /\ s[1] = x /\ s[2] = y
  OBVIOUS
<1> HIDE DEF s, x
<1>3. ASSUME NEW k \in 1 .. Len(s)
      PROVE  /\ s[k].op # "deleteMsg"
             /\ s[k].op = "countRefs" => Counts(s, k)
             /\ s[k].op = "remove" /\ Owes(lib, s[k].id) => Counted(lib, s, k)
  <2>1. CASE k = 1
    BY <1>1, <1>2, <2>1 DEF Counts
  <2>2. CASE k = 2
    <3> HIDE DEF y
    <3>1. Owes(lib, s[2].id) => Counted(lib, s, 2)
      BY <1>1, <1>2 DEF Counted
    <3> QED
      BY <1>1, <1>2, <2>2, <3>1
  <2> QED
    BY <1>2, <2>1, <2>2
<1>4. Closed(lib, s)
  BY <1>3 DEF Closed
<1> QED
  BY <1>4 DEF s, x

LEMMA OneClosed ==
    ASSUME NEW lib, NEW x, x.op \notin {"deleteMsg", "countRefs"}, x.op = "remove" => ~Owes(lib, x.id)
    PROVE  Closed(lib, <<x>>)
<1> DEFINE s == <<x>>
<1>1. s \in Seq({x})
  OBVIOUS
<1> HIDE DEF s
<1>2. Closed(lib, s)
  BY <1>1, QuietClosed
<1> QED
  BY <1>2 DEF s

LEMMA NoneClosed == \A lib : Closed(lib, <<>>)
BY DEF Closed

LEMMA DeleteFileClosed ==
    ASSUME NEW lib, NEW i, NEW d, Owes(lib, i) => lib[i].msg = d.msg
    PROVE  Closed(lib, DeleteFile(i, d))
<1> DEFINE a == IF IsLive(d) THEN <<Add(-Bytes(d))>> ELSE <<>>
           x == About("countRefs", i, d.msg)
           y == At("remove", i)
           b == IF d.msg # NoMessage THEN <<x>> ELSE <<>>
           c == <<y>>
           F == {Add(-Bytes(d)), x, y}
<1>1. DeleteFile(i, d) = a \o b \o c
  BY DEF DeleteFile
<1>2. Closed(lib, a)
  <2>1. Add(-Bytes(d)).op = "add"
    BY DEF Add
  <2> QED
    BY <2>1, NoneClosed, OneClosed
<1>3. Closed(lib, b \o c) /\ b \o c \in Seq(F)
  <2>1. CASE d.msg # NoMessage
    <3>1. b \o c = <<x, y>>
      BY <2>1, PairConcat
    <3>2. Closed(lib, <<x, y>>)
      BY <2>1, CountThenRemove
    <3>3. <<x, y>> \in Seq(F)
      <4> HIDE DEF x, y
      <4> QED
        OBVIOUS
    <3> QED
      BY <3>1, <3>2, <3>3
  <2>2. CASE d.msg = NoMessage
    <3>1. b \o c = c
      <4>1. c \in Seq({y})
        BY Single
      <4> HIDE DEF c
      <4> QED
        BY <2>2, <4>1, EmptyCalls
    <3>2. ~Owes(lib, i)
      BY <2>2 DEF Owes, OldMsg, NoMessage
    <3>3. Closed(lib, c)
      <4>1. y.op = "remove" /\ y.id = i
        BY DEF At
      <4> QED
        BY <3>2, <4>1, OneClosed
    <3>4. c \in Seq(F)
      BY Single
    <3> QED
      BY <3>1, <3>3, <3>4
  <2> QED
    BY <2>1, <2>2
<1>4. a \in Seq(F) /\ b \in Seq(F) /\ c \in Seq(F)
  <2>1. Add(-Bytes(d)) \in F /\ x \in F /\ y \in F
    OBVIOUS
  <2> HIDE DEF x, y, F
  <2> QED
    BY <2>1, Single, Optional
<1> HIDE DEF a, b, c, F
<1>5. a \o b \o c = a \o (b \o c)
  BY <1>4, Concat3
<1>6. Closed(lib, a \o (b \o c))
  BY <1>2, <1>3, <1>4, ClosedThen
<1> QED
  BY <1>1, <1>5, <1>6

\* A loop takes its next document.
LEMMA ClosedReady ==
    ASSUME Facts, NEW s \in Seq(KnownFrames), Closed(files, s), NEW t \in Ready(s)
    PROVE  Closed(files, t)
<1>1. s # <<>> /\ (t = s \/ \E k : Takes(Head(s), k, Tail(s), t))
  BY ReadyShape
<1>2. Head(s) \in KnownFrames /\ Tail(s) \in Seq(KnownFrames)
  BY <1>1
<1>3. ASSUME NEW k, Takes(Head(s), k, Tail(s), t) PROVE Closed(files, t)
  <2> DEFINE l == Head(s)
             a == Iteration(l.op, k, l.to)
             b == Each(l.op, l.kids \ {k}, l.to)
             r == Tail(s)
             N == {Loop(l.op, l.kids \ {k}, l.to)}
             M == IterationMade(l.op, k, l.to)
             F == KnownFrames \cup M \cup N
  <2>1. l \in KnownFrames /\ k \in l.kids /\ l.op \in EachOps /\ t = a \o b \o r
    BY <1>2, <1>3 DEF Takes
  <2>2. a \in Seq(M) /\ b \in Seq(N)
    BY <2>1, IterationIn, LaterIn
  <2>3. Closed(files, b)
    <3>1. \A f \in N : f.op \notin {"deleteMsg", "countRefs", "remove"}
      BY <2>1 DEF Loop, EachOps
    <3> HIDE DEF b, N
    <3> QED
      BY <2>2, <3>1, QuietClosed
  <2>4. Closed(files, a)
    <3>1. CASE l.op # "deleteEach"
      <4>1. \A f \in M : f.op \notin {"deleteMsg", "countRefs", "remove"}
        <5> SUFFICES ASSUME NEW f \in M PROVE f.op \notin {"deleteMsg", "countRefs", "remove"}
          OBVIOUS
        <5>1. f.op \in MoreOps(l.op)
          BY <2>1, IterationOps
        <5> QED
          BY <2>1, <3>1, <5>1 DEF EachOps, MoreOps
      <4> HIDE DEF a, M
      <4> QED
        BY <2>2, <4>1, QuietClosed
    <3>2. CASE l.op = "deleteEach" /\ IsFolder(k.doc)
      <4>1. a = <<At("deleteChildren", k.id)>> /\ At("deleteChildren", k.id).op = "deleteChildren"
        BY <3>2 DEF Iteration, At
      <4> HIDE DEF a
      <4> QED
        BY <4>1, OneClosed
    <3>3. CASE l.op = "deleteEach" /\ ~IsFolder(k.doc)
      <4>1. a = DeleteFile(k.id, k.doc)
        BY <3>3 DEF Iteration
      <4>2. Past(k.id, k.doc)
        BY <2>1, <3>3 DEF KnownFrames, Known
      <4>3. Owes(files, k.id) => files[k.id].msg = k.doc.msg
        BY <4>2 DEF Owes, Past
      <4> HIDE DEF a
      <4> QED
        BY <4>1, <4>3, DeleteFileClosed
    <3> QED
      BY <3>1, <3>2, <3>3
  <2>5. Closed(files, r)
    <3>1. l.op # "countRefs"
      BY <2>1 DEF EachOps
    <3> QED
      BY <1>1, <3>1, ClosedTail
  <2>6. a \in Seq(F) /\ b \in Seq(F) /\ r \in Seq(F)
    <3>1. M \subseteq F /\ N \subseteq F /\ KnownFrames \subseteq F
      OBVIOUS
    <3> HIDE DEF a, b, M, N, F, r
    <3>2. r \in Seq(KnownFrames)
      BY <1>2 DEF r
    <3> QED
      BY <2>2, <3>1, <3>2, SeqWider
  <2> HIDE DEF a, b, r, F
  <2>7. Closed(files, a \o b) /\ a \o b \in Seq(F)
    BY <2>3, <2>4, <2>6, ClosedThen, Concat
  <2>8. Closed(files, a \o b \o r)
    BY <2>5, <2>6, <2>7, ClosedThen
  <2> QED
    BY <2>1, <2>8
<1> QED
  BY <1>1, <1>3

\* The calls that a call is followed by.
LEMMA FollowsClosed ==
    ASSUME Facts, IInv, NEW p, NEW h \in KnownFrames, NEW new \in Seq(Made(p, h)), Follows(p, h, new), FilesEffect(h),
           h.op # "countRefs"
    PROVE  Closed(files', new)
<1>1. h \in Frame /\ Known(h)
  BY DEF KnownFrames
<1>2. CASE h.op = "delete"
  <2>1. files' = files
    BY <1>2 DEF FilesEffect
  <2>2. CASE h.id \notin DOMAIN files
    <3>1. new = <<>>
      BY <1>2, <2>2 DEF Follows, FollowsPlace, FollowsTrash, FollowsDelete, Plain
    <3> QED
      BY <3>1, NoneClosed
  <2>3. CASE h.id \in DOMAIN files /\ IsFolder(files[h.id])
    <3>1. Made(p, h) = {At("deleteChildren", h.id), At("remove", h.id)}
      BY <1>2, <2>3 DEF Made
    <3>2. ~Owes(files, h.id)
      BY <2>3 DEF Facts, Bare, Owes
    <3>3. \A f \in Made(p, h) : f.op \notin {"deleteMsg", "countRefs"} /\ (f.op = "remove" => ~Owes(files, f.id))
      BY <3>1, <3>2 DEF At
    <3> QED
      BY <2>1, <3>3, QuietClosed
  <2>4. CASE h.id \in DOMAIN files /\ ~IsFolder(files[h.id])
    <3>1. new = DeleteFile(h.id, files[h.id])
      BY <1>2, <2>4 DEF Follows, FollowsPlace, FollowsTrash, FollowsDelete, Plain
    <3> QED
      BY <2>1, <3>1, DeleteFileClosed
  <2> QED
    BY <2>2, <2>3, <2>4
<1>3. CASE h.op = "deleteChildren"
  <2>1. files' = files
    BY <1>3 DEF FilesEffect
  <2>2. Made(p, h) = {Loop("deleteEach", Fetch(Children(files, h.id)), Root), At("remove", h.id)}
    BY <1>3 DEF Made
  <2>3. ~Owes(files, h.id)
    BY <1>1, <1>3 DEF Known, NoOld, Owes
  <2>4. \A f \in Made(p, h) : f.op \notin {"deleteMsg", "countRefs"} /\ (f.op = "remove" => ~Owes(files, f.id))
    BY <2>2, <2>3 DEF At, Loop
  <2> QED
    BY <2>1, <2>4, QuietClosed
<1>4. CASE h.op \notin {"delete", "deleteChildren"}
  <2>1. ASSUME NEW f \in Made(p, h) PROVE f.op \notin {"deleteMsg", "countRefs", "remove"}
    <3>1. f.op \in MoreOps(h.op) /\ h.op \in AllOps /\ h.op \notin EachOps
      BY <1>1, MadeOps, FrameOps DEF Made, EachOps
    <3> QED
      BY <1>4, <3>1 DEF MoreOps, AllOps, AtOps, DocOps, PlaceOps
  <2> QED
    BY <2>1, QuietClosed
<1> QED
  BY <1>2, <1>3, <1>4

(***************************************************************************)
(* How a process stands in the order of a deletion.                        *)
(***************************************************************************)
\* Nothing is counted; or the count is done, or the message is to go.
Ending(lib, s) ==
    \/ Closed(lib, s)
    \/ s # <<>> /\ Head(s).op = "remove" /\ Closed(lib, Tail(s))
    \/ /\ s # <<>> /\ Head(s).op = "deleteMsg" /\ Head(s).msg # NoMessage
       /\ Tail(s) # <<>> /\ Head(Tail(s)) = At("remove", Head(Tail(s)).id)
       /\ Owes(lib, Head(Tail(s)).id) => lib[Head(Tail(s)).id].msg = Head(s).msg
       /\ Closed(lib, Tail(Tail(s)))

OrderOK == \A p \in Procs : Ending(files, todo[p])

LEMMA EndingReady ==
    ASSUME Facts, NEW s \in Seq(KnownFrames), Ending(files, s), NEW t \in Ready(s)
    PROVE  (t = s /\ Ending(files, t)) \/ Closed(files, t)
<1>1. CASE Closed(files, s)
  BY <1>1, ClosedReady
<1>2. CASE ~Closed(files, s)
  <2>1. s # <<>> /\ Head(s).op \in {"remove", "deleteMsg"}
    BY <1>2 DEF Ending
  <2>2. Ready(s) = {s}
    BY <2>1, FirstCall DEF EachOps
  <2> QED
    BY <2>2
<1> QED
  BY <1>1, <1>2

\* What a document still owes, it owed before.
LEMMA OwesStays ==
    ASSUME IInv, MsgsStay, NEW i \in Ids
    PROVE  Owes(files', i) => Owes(files, i) /\ files'[i].msg = files[i].msg
<1>1. nextId \notin Ids
  BY IdFacts
<1> QED
  BY <1>1 DEF Owes, MsgsStay, KindsStay

LEMMA EndingStays ==
    ASSUME IInv, MsgsStay, NEW s \in Seq(KnownFrames)
    PROVE  /\ Closed(files, s) => Closed(files', s)
           /\ Ending(files, s) => Ending(files', s)
<1>1. ASSUME NEW f \in KnownFrames, f.op = "remove"
      PROVE  Owes(files', f.id) => Owes(files, f.id) /\ files'[f.id].msg = files[f.id].msg
  <2>1. f.id \in Ids
    BY <1>1 DEF KnownFrames, Known
  <2> QED
    BY <2>1, OwesStays
<1>2. ASSUME NEW t \in Seq(KnownFrames), Closed(files, t) PROVE Closed(files', t)
  <2>1. ASSUME NEW k \in 1 .. Len(t), t[k].op = "remove", Owes(files', t[k].id)
        PROVE  Owes(files, t[k].id) /\ files'[t[k].id].msg = files[t[k].id].msg
    <3>1. t[k] \in KnownFrames
      OBVIOUS
    <3> QED
      BY <1>1, <2>1, <3>1
  <2> QED
    BY <1>2, <2>1, ClosedStays
<1>3. ASSUME s # <<>> PROVE Tail(s) \in Seq(KnownFrames) /\ (Tail(s) # <<>> => Tail(Tail(s)) \in Seq(KnownFrames) /\ Head(Tail(s)) \in KnownFrames)
  BY <1>3
<1>4. ASSUME Ending(files, s) PROVE Ending(files', s)
  <2>1. CASE Closed(files, s)
    BY <1>2, <2>1 DEF Ending
  <2>2. CASE s # <<>> /\ Head(s).op = "remove" /\ Closed(files, Tail(s))
    BY <1>2, <1>3, <2>2 DEF Ending
  <2>3. CASE ~Closed(files, s) /\ ~(s # <<>> /\ Head(s).op = "remove" /\ Closed(files, Tail(s)))
    <3> DEFINE x == Head(Tail(s))
    <3>1. /\ s # <<>> /\ Head(s).op = "deleteMsg" /\ Head(s).msg # NoMessage
          /\ Tail(s) # <<>> /\ x = At("remove", x.id)
          /\ Owes(files, x.id) => files[x.id].msg = Head(s).msg
          /\ Closed(files, Tail(Tail(s)))
      BY <1>4, <2>3 DEF Ending
    <3>2. x \in KnownFrames /\ Tail(Tail(s)) \in Seq(KnownFrames)
      BY <1>3, <3>1
    <3>3. x.op = "remove"
      BY <3>1 DEF At
    <3>4. Owes(files', x.id) => files'[x.id].msg = Head(s).msg
      BY <1>1, <3>1, <3>2, <3>3
    <3>5. Closed(files', Tail(Tail(s)))
      BY <1>2, <3>1, <3>2
    <3> QED
      BY <3>1, <3>4, <3>5 DEF Ending
  <2> QED
    BY <2>1, <2>2, <2>3
<1> QED
  BY <1>2, <1>4

LEMMA EndingStep ==
    ASSUME IInv, IInv', Facts, OrderOK, NEW p \in Procs, NEW s \in Ready(todo[p]),
           NEW new, NEW rest, GoesOn(p, s, new, rest)
    PROVE  /\ Ending(files', new \o rest)
           /\ Head(s).op \notin {"countRefs", "deleteMsg"} => Closed(files', new \o rest)
           /\ Ending(files', s)
<1> DEFINE h == Head(s)
           F == KnownFrames \cup Made(p, h)
<1>1. s \in Seq(KnownFrames) /\ s # <<>> /\ h \in KnownFrames /\ Tail(s) \in Seq(KnownFrames)
  BY KnownReady
<1>2. MsgsStay
  BY FactsStep
<1>3. Ending(files', s)
  <2>1. Ending(files, s)
    <3>1. todo[p] \in Seq(KnownFrames) /\ Ending(files, todo[p])
      BY DEF Facts, OrderOK
    <3> QED
      BY <3>1, EndingReady DEF Ending
  <2> QED
    BY <1>1, <1>2, <2>1, EndingStays
<1>4. CASE new = <<>> /\ rest = <<>>
  BY <1>3, <1>4, EmptyConcat, NoneClosed DEF Ending
<1>5. CASE Follows(p, h, new) /\ Effect(h) /\ rest = IF h.op \in First THEN <<>> ELSE Tail(s)
  <2>0. FilesEffect(h) /\ new \in Seq(Made(p, h))
    BY <1>5 DEF Effect, GoesOn
  <2>1. new \in Seq(F) /\ Tail(s) \in Seq(F) /\ rest \in Seq(F)
    <3>1. KnownFrames \subseteq F /\ Made(p, h) \subseteq F
      OBVIOUS
    <3> HIDE DEF F
    <3>2. new \in Seq(F)
      BY <2>0, <3>1, SeqWider
    <3>3. Tail(s) \in Seq(F)
      BY <1>1, <3>1, SeqWider
    <3> QED
      BY <1>5, <3>2, <3>3, NoFrames
  <2>2. CASE Closed(files', s) /\ h.op # "countRefs"
    <3>1. Closed(files', new)
      BY <1>1, <1>5, <2>0, <2>2, FollowsClosed
    <3>2. Closed(files', rest)
      <4>1. Closed(files', Tail(s))
        BY <1>1, <2>2, ClosedTail
      <4> QED
        BY <1>5, <4>1, NoneClosed
    <3> HIDE DEF F
    <3>3. Closed(files', new \o rest)
      BY <2>1, <3>1, <3>2, ClosedThen
    <3> QED
      BY <1>3, <3>3 DEF Ending
  <2>3. CASE Closed(files', s) /\ h.op = "countRefs"
    <3> DEFINE r == Tail(s)
    <3>1. /\ h.msg # NoMessage /\ r # <<>> /\ Head(r) = At("remove", h.id)
          /\ Owes(files', h.id) => files'[h.id].msg = h.msg
          /\ Closed(files', Tail(r))
      BY <1>1, <2>3, ClosedCount
    <3>2. rest = r /\ (new = <<>> \/ new = <<[op |-> "deleteMsg", msg |-> h.msg]>>)
      BY <1>5, <2>3 DEF Follows, FollowsPlace, FollowsTrash, FollowsDelete, Plain, First
    <3>3. Head(r).op = "remove" /\ Head(r).id = h.id /\ r \in Seq(F)
      BY <2>1, <3>1 DEF At
    <3> HIDE DEF r, F
    <3>4. CASE new = <<>>
      <4>1. new \o rest = r
        BY <3>2, <3>3, <3>4, EmptyCalls
      <4> QED
        BY <1>3, <2>3, <3>1, <3>3, <4>1 DEF Ending
    <3>5. CASE new = <<[op |-> "deleteMsg", msg |-> h.msg]>>
      <4> DEFINE x == [op |-> "deleteMsg", msg |-> h.msg]
                 G == F \cup {x}
      <4>1. x.op = "deleteMsg" /\ x.msg = h.msg /\ x \in G /\ F \subseteq G
        OBVIOUS
      <4> HIDE DEF x, G
      <4>2. r \in Seq(G)
        BY <3>3, <4>1, SeqWider
      <4>3. <<x>> \o r # <<>> /\ Head(<<x>> \o r) = x /\ Tail(<<x>> \o r) = r
        BY <4>1, <4>2
      <4>4. new \o rest = <<x>> \o r
        BY <3>2, <3>5 DEF x
      <4> DEFINE u == <<x>> \o r
      <4> HIDE DEF u
      <4>5. u # <<>> /\ Head(u) = x /\ Tail(u) = r
        BY <4>3 DEF u
      <4>6. Ending(files', u)
        BY <3>1, <3>3, <4>1, <4>5 DEF Ending
      <4> QED
        BY <1>3, <2>3, <4>4, <4>6 DEF u
    <3> QED
      BY <3>2, <3>4, <3>5
  <2>4. CASE ~Closed(files', s)
    <3>1. h.op \in {"remove", "deleteMsg"}
      BY <1>3, <2>4 DEF Ending
    <3>2. new = <<>> /\ rest = Tail(s)
      BY <1>5, <3>1 DEF Follows, FollowsPlace, FollowsTrash, FollowsDelete, Plain, First
    <3> HIDE DEF F
    <3>3. new \o rest = Tail(s)
      BY <1>1, <3>2, EmptyCalls
    <3>4. Ending(files', Tail(s)) /\ (h.op = "remove" => Closed(files', Tail(s)))
      <4>1. CASE h.op = "remove"
        BY <1>3, <2>4, <4>1 DEF Ending
      <4>2. CASE h.op = "deleteMsg"
        <5>1. Tail(s) # <<>> /\ Head(Tail(s)) = At("remove", Head(Tail(s)).id) /\ Closed(files', Tail(Tail(s)))
          BY <1>3, <2>4, <4>2 DEF Ending
        <5>2. Head(Tail(s)).op = "remove"
          BY <5>1 DEF At
        <5>3. Ending(files', Tail(s))
          BY <5>1, <5>2 DEF Ending
        <5> QED
          BY <4>2, <5>3
      <4> QED
        BY <3>1, <4>1, <4>2
    <3> QED
      BY <1>3, <3>1, <3>3, <3>4
  <2> QED
    BY <2>2, <2>3, <2>4
<1> QED
  BY <1>4, <1>5 DEF GoesOn

\* A first call that is a removal is of a document that owes nothing.
LEMMA ClosedHead ==
    ASSUME NEW lib, NEW s, s # <<>>, NEW F, s \in Seq(F), Closed(lib, s)
    PROVE  /\ Head(s).op # "deleteMsg"
           /\ Head(s).op = "remove" => ~Owes(lib, Head(s).id)
<1>1. 1 \in 1 .. Len(s) /\ Head(s) = s[1] /\ 1 - 1 \notin 1 .. Len(s)
  OBVIOUS
<1> QED
  BY <1>1 DEF Closed, Counted

LEMMA OrderInit == Init => OrderOK
BY NoneClosed DEF Init, OrderOK, Ending

\* What a request begins with, and what a worker does.
LEMMA QuietBegins ==
    ASSUME IInv, IInv', NEW p \in Procs, Quiet(p), NEW lib
    PROVE  Closed(lib, todo'[p]) /\ (todo'[p] # <<>> => Head(todo'[p]).op \notin {"remove", "deleteMsg"})
<1>1. CASE todo'[p] = <<>>
  BY <1>1, NoneClosed
<1>2. CASE p \in Clients /\ \E kind \in may[p] \cap Kinds : \E s \in Requests[kind] : Goto(p, s)
  <2>1. PICK kind \in may[p] \cap Kinds : \E s \in Requests[kind] : Goto(p, s)
    BY <1>2
  <2> DEFINE Z == {f \in Frame : f.op \notin {"deleteMsg", "countRefs", "remove"}}
  <2>2. ASSUME NEW f \in Frame, f \in FirstMade(kind) PROVE f \in Z
    <3>1. f.op \in {"trash", "restore", "delete", "purge", "move", "copy", "parent", "insert", "quota",
                     "initQuota", "dedup"}
      BY <2>2, FirstCalls
    <3> QED
      BY <3>1
  <2>3. todo \in [Procs -> Seq(Frame)] /\ \A f \in Z : f.op \notin {"deleteMsg", "countRefs", "remove"}
    BY DEF IInv, TypeOK
  <2> HIDE DEF Z
  <2>4. todo'[p] \in Seq(Z)
    BY <1>2, <2>1, <2>2, <2>3, BeginIn
  <2>5. Closed(lib, todo'[p])
    BY <2>3, <2>4, QuietClosed
  <2>6. todo'[p] # <<>> => Head(todo'[p]) \in Z
    BY <2>4
  <2> QED
    BY <2>3, <2>5, <2>6
<1>3. CASE todo'[p] = <<At("send", Head(queue))>>
  <2> DEFINE x == At("send", Head(queue))
  <2>1. x.op = "send"
    BY DEF At
  <2> HIDE DEF x
  <2>2. Closed(lib, <<x>>) /\ Head(<<x>>) = x
    BY <2>1, OneClosed
  <2> QED
    BY <1>3, <2>1, <2>2 DEF x
<1> QED
  BY <1>1, <1>2, <1>3, QuietShape DEF QuietTodo

LEMMA OrderOfQuiet ==
    ASSUME IInv, IInv', Facts, OrderOK, NEW p, Quiet(p)
    PROVE  OrderOK'
<1>1. MsgsStay
  BY FactsOfQuiet
<1>2. ASSUME NEW q \in Procs PROVE Ending(files', todo'[q])
  <2>1. CASE q = p
    BY <2>1, QuietBegins DEF Ending
  <2>2. CASE todo'[q] = <<>>
    BY <2>2, NoneClosed DEF Ending
  <2>3. CASE todo'[q] = todo[q]
    <3>1. todo[q] \in Seq(KnownFrames) /\ Ending(files, todo[q])
      BY DEF Facts, OrderOK
    <3> QED
      BY <1>1, <2>3, <3>1, EndingStays
  <2> QED
    BY <2>1, <2>2, <2>3, QuietShape DEF QuietData
<1> QED
  BY <1>2 DEF OrderOK, Procs

LEMMA OrderStep ==
    ASSUME IInv, IInv', Facts, OrderOK, NEW p \in Procs, NEW s \in Ready(todo[p]),
           NEW new, NEW rest, GoesOn(p, s, new, rest)
    PROVE  OrderOK'
<1>1. MsgsStay
  BY FactsStep
<1>2. todo'[p] = new \o rest /\ \A q \in Procs \ {p} : todo'[q] = todo[q]
  BY DEF GoesOn, Goto, IInv, TypeOK
<1>3. ASSUME NEW q \in Procs PROVE Ending(files', todo'[q])
  <2>1. CASE q = p
    BY <1>2, <2>1, EndingStep
  <2>2. CASE q # p
    <3>1. todo[q] \in Seq(KnownFrames) /\ Ending(files, todo[q])
      BY DEF Facts, OrderOK
    <3> QED
      BY <1>1, <1>2, <2>2, <3>1, EndingStays
  <2> QED
    BY <2>1, <2>2
<1> QED
  BY <1>3 DEF OrderOK, Procs

LEMMA OrderNext ==
    ASSUME IInv, IInv', Facts, OrderOK, [Next]_vars
    PROVE  OrderOK'
<1>1. ASSUME NEW p \in Procs, Step(p) \/ WorkerStep(p) PROVE OrderOK'
  <2>1. PICK s \in Ready(todo[p]) : \E new : \E rest : GoesOn(p, s, new, rest)
    BY <1>1, StepShape
  <2>2. PICK new, rest : GoesOn(p, s, new, rest)
    BY <2>1
  <2> QED
    BY <2>2, OrderStep
<1>2. ASSUME NEW p, Quiet(p) PROVE OrderOK'
  BY <1>2, OrderOfQuiet
<1> QED
  BY <1>1, <1>2, NextCases

(***************************************************************************)
(* No orphan.                                                              *)
(***************************************************************************)
\* At most one client deletes.
OneDeleter ==
    \A c \in Clients : \A d \in Clients \ {c} : may[c] \cap Deleters = {} \/ may[d] \cap Deleters = {}

\* Every message of the first day has a document.
Owned == \A m \in messages : OldMsg(m) => \E i \in DOMAIN files : files[i].msg = m

\* Who is about to remove a document has dealt with its message.
Settled(lib, msgs, s) ==
    s # <<>> /\ Head(s).op = "remove" /\ Owes(lib, Head(s).id) =>
        \/ lib[Head(s).id].msg \notin msgs
        \/ \E j \in DOMAIN lib \ {Head(s).id} : lib[j].msg = lib[Head(s).id].msg

OrphanInv ==
    OneDeleter /\ ~MayRefuse => Owned /\ \A p \in Procs : Settled(files, messages, todo[p])

\* The kind of request that a call belongs to.
LEMMA CallOfKind ==
    ASSUME IInv, OneRequest, NEW p \in Procs, NEW s, s \in Ready(todo[p]) \/ s = todo[p], s # <<>>
    PROVE  \/ Head(s).op \in WorkerOps
           \/ p \in Clients /\ \E kind \in may[p] \cap Kinds : Head(s).op \in OpsOf[kind]
<1>1. PICK O : /\ todo[p] \in Seq(FramesOf(O)) /\ \A op \in O : MoreOps(op) \subseteq O
               /\ \/ O \in {{}, WorkerOps}
                  \/ p \in Clients /\ \E kind \in may[p] : kind \in Kinds /\ O = OpsOf[kind]
  BY OpsOfProc
<1>2. s \in Seq(FramesOf(O))
  BY <1>1, OpsReady
<1>3. Head(s) \in FramesOf(O)
  BY <1>2
<1>4. Head(s).op \in O
  BY <1>3 DEF FramesOf
<1> QED
  BY <1>1, <1>4

LEMMA DeleterCalls ==
    ASSUME IInv, OneRequest, NEW p \in Procs, NEW s, s \in Ready(todo[p]) \/ s = todo[p], s # <<>>,
           Head(s).op \in {"remove", "countRefs", "deleteMsg"}
    PROVE  p \in Clients /\ may[p] \cap Deleters # {}
<1>1. Head(s).op \notin WorkerOps
  BY DEF WorkerOps
<1>2. PICK kind \in may[p] \cap Kinds : p \in Clients /\ Head(s).op \in OpsOf[kind]
  BY <1>1, CallOfKind
<1>3. kind \in Deleters
  <2>1. CASE kind = "trash"
    BY <1>2, <2>1 DEF OpsOf
  <2>2. CASE kind = "restore"
    BY <1>2, <2>2 DEF OpsOf
  <2>3. CASE kind \in {"move", "mkdir"}
    BY <1>2, <2>3 DEF OpsOf
  <2>4. CASE kind \in {"copy", "upload"}
    BY <1>2, <2>4 DEF OpsOf
  <2>5. CASE kind \in {"init", "complete"}
    BY <1>2, <2>5 DEF OpsOf
  <2> QED
    BY <2>1, <2>2, <2>3, <2>4, <2>5 DEF Kinds, Deleters
<1> QED
  BY <1>2, <1>3

\* New messages are not of the first day.
LEMMA OldMessages ==
    ASSUME IInv, Facts, NEW p, NEW s, NEW new, NEW rest, GoesOn(p, s, new, rest), NEW m \in messages', OldMsg(m)
    PROVE  m \in messages
<1>1. CASE UNCHANGED data
  BY <1>1 DEF data
<1>2. CASE Follows(p, Head(s), new) /\ Effect(Head(s)) /\ Head(s).op # "send"
  BY <1>2 DEF Effect, MessagesEffect
<1>3. CASE Follows(p, Head(s), new) /\ Head(s).op = "send"
  <2>1. messages' = messages \cup {nextMsg} \/ messages' = messages
    BY <1>3 DEF Follows, FollowsPlace, FollowsTrash, FollowsDelete, Plain
  <2>2. m # nextMsg
    BY LibrariesAssumption DEF Facts, OldMsg, IInv, TypeOK
  <2> QED
    BY <2>1, <2>2
<1> QED
  BY <1>1, <1>2, <1>3 DEF GoesOn

\* Only a removal takes a document away.
LEMMA OnlyRemoveTakes ==
    ASSUME IInv, NEW p \in Procs, NEW s, NEW new, NEW rest, GoesOn(p, s, new, rest),
           NEW i \in DOMAIN files, i \notin DOMAIN files'
    PROVE  /\ Head(s).op = "remove" /\ Head(s).id = i
           /\ files' = [j \in DOMAIN files \ {i} |-> files[j]] /\ messages' = messages
<1>1. FilesEffect(Head(s)) /\ MessagesEffect(Head(s))
  BY DEF GoesOn, Effect, data
<1>2. Head(s).op = "remove" /\ files' = [j \in DOMAIN files \ {Head(s).id} |-> files[j]]
  BY <1>1 DEF FilesEffect, SetDoc, InsertDoc
<1> QED
  BY <1>1, <1>2 DEF MessagesEffect

LEMMA OwnedStep ==
    ASSUME IInv, IInv', Facts, OrderOK, Owned, NEW p \in Procs, Settled(files, messages, todo[p]),
           NEW s \in Ready(todo[p]), NEW new, NEW rest, GoesOn(p, s, new, rest)
    PROVE  Owned'
<1>1. MsgsStay
  BY FactsStep
<1>2. ASSUME NEW m \in messages', OldMsg(m) PROVE \E i \in DOMAIN files' : files'[i].msg = m
  <2>1. m \in messages
    BY <1>2, OldMessages
  <2>2. PICK i \in DOMAIN files : files[i].msg = m
    BY <1>2, <2>1 DEF Owned
  <2>3. CASE i \in DOMAIN files'
    BY <1>1, <1>2, <2>2, <2>3 DEF MsgsStay
  <2>4. CASE i \notin DOMAIN files'
    <3>1. /\ Head(s).op = "remove" /\ Head(s).id = i
          /\ files' = [j \in DOMAIN files \ {i} |-> files[j]]
      BY <2>4, OnlyRemoveTakes
    <3>2. Owes(files, i)
      BY <1>2, <2>2 DEF Owes
    <3>3. s \in Seq(KnownFrames) /\ s # <<>> /\ todo[p] \in Seq(KnownFrames) /\ Ending(files, todo[p])
      BY KnownReady DEF Facts, OrderOK
    <3>4. ~Closed(files, s)
      BY <3>1, <3>2, <3>3, ClosedHead
    <3>5. s = todo[p]
      BY <3>3, <3>4, EndingReady
    <3>6. PICK j \in DOMAIN files \ {i} : files[j].msg = m
      BY <2>1, <2>2, <3>1, <3>2, <3>3, <3>5 DEF Settled
    <3> QED
      BY <3>1, <3>6
  <2> QED
    BY <2>3, <2>4
<1> QED
  BY <1>2 DEF Owned, OldMsg

LEMMA RemovalOf ==
    ASSUME NEW x, NEW i, x = At("remove", i)
    PROVE  x.op = "remove" /\ x.id = i
BY DEF At

\* The count: if nothing else has the message, it is deleted next.
LEMMA CountStep ==
    ASSUME IInv, IInv', Facts, OrderOK, NEW p \in Procs,
           NEW s \in Ready(todo[p]), NEW new, NEW rest, GoesOn(p, s, new, rest), Head(s).op = "countRefs"
    PROVE  /\ UNCHANGED <<files, messages>>
           /\ Tail(s) # <<>> /\ Head(Tail(s)) = At("remove", Head(s).id)
           /\ Owes(files, Head(s).id) => files[Head(s).id].msg = Head(s).msg
           /\ \/ new \o rest = Tail(s) /\ Sharing(Head(s).id, Head(s).msg) # {}
              \/ /\ Sharing(Head(s).id, Head(s).msg) = {}
                 /\ new \o rest # <<>> /\ Tail(new \o rest) = Tail(s)
                 /\ Head(new \o rest).op = "deleteMsg" /\ Head(new \o rest).msg = Head(s).msg
<1> DEFINE h == Head(s)
           r == Tail(s)
<1>1. s \in Seq(KnownFrames) /\ s # <<>> /\ r \in Seq(KnownFrames)
  BY KnownReady
<1>2. Follows(p, h, new) /\ Effect(h) /\ rest = r
  BY DEF GoesOn, Quits, First
<1>3. UNCHANGED <<files, messages>>
  BY <1>2 DEF Effect, FilesEffect, MessagesEffect
<1>4. Closed(files, s)
  <2>1. todo[p] \in Seq(KnownFrames) /\ Ending(files, todo[p])
    BY DEF Facts, OrderOK
  <2>2. Ending(files, s)
    BY <2>1, EndingReady DEF Ending
  <2> QED
    BY <2>2 DEF Ending
<1>5. /\ r # <<>> /\ Head(r) = At("remove", h.id)
      /\ Owes(files, h.id) => files[h.id].msg = h.msg
  BY <1>1, <1>4, ClosedCount
<1>6. \/ Sharing(h.id, h.msg) # {} /\ new = <<>>
      \/ Sharing(h.id, h.msg) = {} /\ new = <<[op |-> "deleteMsg", msg |-> h.msg]>>
  BY <1>2 DEF Follows, FollowsPlace, FollowsTrash, FollowsDelete, Plain
<1>7. CASE Sharing(h.id, h.msg) # {} /\ new = <<>>
  <2> HIDE DEF r
  <2>1. new \o rest = r
    BY <1>1, <1>2, <1>7, EmptyCalls
  <2> QED
    BY <1>3, <1>5, <1>7, <2>1 DEF r
<1>8. CASE Sharing(h.id, h.msg) = {} /\ new = <<[op |-> "deleteMsg", msg |-> h.msg]>>
  <2> DEFINE x == [op |-> "deleteMsg", msg |-> h.msg]
             G == KnownFrames \cup {x}
  <2>1. x.op = "deleteMsg" /\ x.msg = h.msg /\ x \in G /\ KnownFrames \subseteq G
    OBVIOUS
  <2>2. new = <<x>>
    BY <1>8
  <2> HIDE DEF x, G, r
  <2>3. r \in Seq(G)
    BY <1>1, <2>1, SeqWider
  <2>4. <<x>> \o r # <<>> /\ Head(<<x>> \o r) = x /\ Tail(<<x>> \o r) = r
    BY <2>1, <2>3
  <2>5. new \o rest # <<>> /\ Head(new \o rest) = x /\ Tail(new \o rest) = r
    BY <1>2, <2>2, <2>4
  <2> QED
    BY <1>3, <1>5, <1>8, <2>1, <2>5 DEF r
<1> QED
  BY <1>6, <1>7, <1>8

\* The deletion of a message: its document goes next.
LEMMA DeleteStep ==
    ASSUME IInv, IInv', Facts, OrderOK, NEW p \in Procs,
           NEW s \in Ready(todo[p]), NEW new, NEW rest, GoesOn(p, s, new, rest), Head(s).op = "deleteMsg"
    PROVE  /\ UNCHANGED files /\ s = todo[p] /\ new \o rest = Tail(s)
           /\ messages' = messages \ {Head(s).msg} \/ (MayRefuse /\ UNCHANGED messages)
           /\ Head(s).msg # NoMessage
           /\ Tail(s) # <<>> /\ Head(Tail(s)) = At("remove", Head(Tail(s)).id)
           /\ Owes(files, Head(Tail(s)).id) => files[Head(Tail(s)).id].msg = Head(s).msg
<1> DEFINE h == Head(s)
           r == Tail(s)
<1>1. /\ s \in Seq(KnownFrames) /\ s # <<>> /\ r \in Seq(KnownFrames)
      /\ todo[p] \in Seq(KnownFrames) /\ Ending(files, todo[p])
  BY KnownReady DEF Facts, OrderOK
<1>2. Follows(p, h, new) /\ Effect(h) /\ rest = r
  BY DEF GoesOn, Quits, First
<1>3. new = <<>> /\ UNCHANGED files /\ (messages' = messages \ {h.msg} \/ (MayRefuse /\ UNCHANGED messages))
  BY <1>2 DEF Follows, FollowsPlace, FollowsTrash, FollowsDelete, Plain, Effect, FilesEffect, MessagesEffect
<1>4. ~Closed(files, s)
  BY <1>1, ClosedHead
<1>5. s = todo[p] /\ Ending(files, s)
  BY <1>1, <1>4, EndingReady
<1>6. /\ r # <<>> /\ Head(r) = At("remove", Head(r).id) /\ h.msg # NoMessage
      /\ Owes(files, Head(r).id) => files[Head(r).id].msg = h.msg
  BY <1>4, <1>5 DEF Ending
<1> HIDE DEF r
<1>7. new \o rest = r
  BY <1>1, <1>2, <1>3, EmptyCalls
<1> QED
  BY <1>3, <1>5, <1>6, <1>7 DEF r

\* The process that makes the step.
LEMMA SettledMover ==
    ASSUME IInv, IInv', Facts, OrderOK, ~MayRefuse, NEW p \in Procs,
           NEW s \in Ready(todo[p]), NEW new, NEW rest, GoesOn(p, s, new, rest)
    PROVE  Settled(files', messages', new \o rest)
<1> DEFINE h == Head(s)
           t == new \o rest
<1>1. CASE h.op \notin {"countRefs", "deleteMsg"}
  <2>1. Closed(files', t)
    BY <1>1, EndingStep
  <2>2. todo'[p] = t /\ todo' \in [Procs -> Seq(Frame)]
    BY DEF GoesOn, Goto, IInv, TypeOK
  <2> HIDE DEF t
  <2>3. t # <<>> /\ Head(t).op = "remove" => ~Owes(files', Head(t).id)
    BY <2>1, <2>2, ClosedHead
  <2>4. Settled(files', messages', t)
    BY <2>3 DEF Settled
  <2> QED
    BY <2>4 DEF t
<1>2. CASE h.op = "countRefs"
  <2> DEFINE r == Tail(s)
  <2>1. /\ UNCHANGED <<files, messages>>
        /\ Head(r) = At("remove", h.id)
        /\ Owes(files, h.id) => files[h.id].msg = h.msg
        /\ (t = r /\ Sharing(h.id, h.msg) # {}) \/ Head(t).op = "deleteMsg"
    BY <1>2, CountStep
  <2>2. Head(r).op = "remove" /\ Head(r).id = h.id
    <3>1. Head(r) = At("remove", h.id)
      BY <2>1
    <3> HIDE DEF r, t, h
    <3> QED
      BY <3>1, RemovalOf
  <2> HIDE DEF r, t
  <2>3. Settled(files', messages', t)
    <3>1. CASE Head(t).op = "deleteMsg"
      BY <3>1 DEF Settled
    <3>2. CASE t = r /\ Sharing(h.id, h.msg) # {}
      <4>1. Owes(files, h.id) => \E j \in DOMAIN files \ {h.id} : files[j].msg = files[h.id].msg
        BY <2>1, <3>2 DEF Sharing
      <4> QED
        BY <2>1, <2>2, <3>2, <4>1 DEF Settled
    <3> QED
      BY <2>1, <3>1, <3>2
  <2> QED
    BY <2>3 DEF t
<1>3. CASE h.op = "deleteMsg"
  <2>1. /\ UNCHANGED files /\ t = Tail(s) /\ messages' = messages \ {h.msg}
        /\ Owes(files, Head(Tail(s)).id) => files[Head(Tail(s)).id].msg = h.msg
    BY <1>3, DeleteStep
  <2> HIDE DEF t
  <2>2. Settled(files', messages', t)
    BY <2>1 DEF Settled
  <2> QED
    BY <2>2 DEF t
<1> QED
  BY <1>1, <1>2, <1>3

\* The other processes.
LEMMA SettledOthers ==
    ASSUME IInv, OneRequest, Facts, OneDeleter, NEW p \in Procs, NEW s \in Ready(todo[p]),
           NEW new, NEW rest, GoesOn(p, s, new, rest), MsgsStay,
           NEW q \in Procs \ {p}, Settled(files, messages, todo[q])
    PROVE  Settled(files', messages', todo[q])
<1> SUFFICES ASSUME todo[q] # <<>>, Head(todo[q]).op = "remove", Owes(files', Head(todo[q]).id)
             PROVE  \/ files'[Head(todo[q]).id].msg \notin messages'
                    \/ \E j \in DOMAIN files' \ {Head(todo[q]).id} : files'[j].msg = files'[Head(todo[q]).id].msg
  BY DEF Settled
<1> DEFINE i == Head(todo[q]).id
<1>1. i \in Ids
  <2>1. todo[q] \in Seq(KnownFrames)
    BY DEF Facts
  <2>2. Head(todo[q]) \in KnownFrames
    BY <2>1
  <2> QED
    BY <2>2 DEF KnownFrames, Known
<1>2. Owes(files, i) /\ files'[i].msg = files[i].msg
  BY <1>1, OwesStays
<1>3. CASE files[i].msg \notin messages
  BY <1>2, <1>3, OldMessages DEF Owes
<1>4. CASE \E j \in DOMAIN files \ {i} : files[j].msg = files[i].msg
  <2>1. PICK j \in DOMAIN files \ {i} : files[j].msg = files[i].msg
    BY <1>4
  <2>2. CASE j \in DOMAIN files'
    BY <1>2, <2>1, <2>2 DEF MsgsStay, Owes
  <2>3. CASE j \notin DOMAIN files'
    <3>1. Head(s).op = "remove" /\ s # <<>>
      BY <2>3, OnlyRemoveTakes, KnownReady
    <3>2. p \in Clients /\ may[p] \cap Deleters # {}
      BY <3>1, DeleterCalls
    <3>3. q \in Clients /\ may[q] \cap Deleters # {}
      BY DeleterCalls
    <3> QED
      BY <3>2, <3>3 DEF OneDeleter
  <2> QED
    BY <2>2, <2>3
<1> QED
  BY <1>2, <1>3, <1>4 DEF Settled

LEMMA OrphanInit == Init => OrphanInv
<1> SUFFICES ASSUME Init PROVE Owned /\ \A p \in Procs : Settled(files, messages, todo[p])
  BY DEF OrphanInv
<1>1. messages = {files[i].msg : i \in DOMAIN files} \ {NoMessage} /\ \A p \in Procs : todo[p] = <<>>
  BY DEF Init
<1> QED
  BY <1>1 DEF Owned, Settled

LEMMA OrphanStep ==
    ASSUME IInv, IInv', OneRequest, Facts, OrderOK, OrphanInv, NEW p \in Procs,
           NEW s \in Ready(todo[p]), NEW new, NEW rest, GoesOn(p, s, new, rest)
    PROVE  OrphanInv'
<1>1. may' = may /\ MsgsStay /\ todo'[p] = new \o rest /\ \A q \in Procs \ {p} : todo'[q] = todo[q]
  BY FactsStep DEF GoesOn, Goto, Effect, bounds, IInv, TypeOK
<1> SUFFICES ASSUME OneDeleter, ~MayRefuse
             PROVE  Owned' /\ \A q \in Procs : Settled(files', messages', todo'[q])
  BY <1>1 DEF OrphanInv, OneDeleter, Procs, Settled
<1>2. Owned /\ \A q \in Procs : Settled(files, messages, todo[q])
  BY DEF OrphanInv
<1>3. Owned'
  BY <1>2, OwnedStep
<1>4. ASSUME NEW q \in Procs PROVE Settled(files', messages', todo'[q])
  <2>1. CASE q = p
    BY <1>1, <2>1, SettledMover
  <2>2. CASE q # p
    BY <1>1, <1>2, <2>2, SettledOthers
  <2> QED
    BY <2>1, <2>2
<1> QED
  BY <1>3, <1>4

LEMMA OrphanOfQuiet ==
    ASSUME IInv, IInv', OrphanInv, NEW p, Quiet(p)
    PROVE  OrphanInv'
<1>1. /\ may' = may /\ messages' = messages /\ DOMAIN files' = DOMAIN files
      /\ \A j \in DOMAIN files : files'[j].msg = files[j].msg
      /\ \A q \in Procs \ {p} : todo'[q] = todo[q] \/ todo'[q] = <<>>
  BY QuietShape DEF QuietData
<1> SUFFICES ASSUME OneDeleter, ~MayRefuse
             PROVE  Owned' /\ \A q \in Procs : Settled(files', messages', todo'[q])
  BY <1>1 DEF OrphanInv, OneDeleter, Procs, Settled
<1>2. Owned /\ \A q \in Procs : Settled(files, messages, todo[q])
  BY DEF OrphanInv
<1>3. Owned'
  BY <1>1, <1>2 DEF Owned, OldMsg
<1>4. ASSUME NEW q \in Procs PROVE Settled(files', messages', todo'[q])
  <2>1. CASE q = p
    BY <2>1, QuietBegins DEF Settled
  <2>2. CASE todo'[q] = <<>>
    BY <2>2 DEF Settled
  <2>3. CASE todo'[q] = todo[q]
    <3>1. Settled(files, messages, todo[q])
      BY <1>2
    <3> QED
      BY <1>1, <2>3, <3>1 DEF Settled, Owes
  <2> QED
    BY <1>1, <2>1, <2>2, <2>3
<1> QED
  BY <1>3, <1>4

LEMMA OrphanNext ==
    ASSUME IInv, IInv', OneRequest, Facts, OrderOK, OrphanInv, [Next]_vars
    PROVE  OrphanInv'
<1>1. ASSUME NEW p \in Procs, Step(p) \/ WorkerStep(p) PROVE OrphanInv'
  <2>1. PICK s \in Ready(todo[p]) : \E new : \E rest : GoesOn(p, s, new, rest)
    BY <1>1, StepShape
  <2>2. PICK new, rest : GoesOn(p, s, new, rest)
    BY <2>1
  <2> QED
    BY <2>2, OrphanStep
<1>2. ASSUME NEW p, Quiet(p) PROVE OrphanInv'
  BY <1>2, OrphanOfQuiet
<1> QED
  BY <1>1, <1>2, NextCases

\* Every message the library had at the start and that still exists has a
\* document, at every moment and also after a crash, if one client at most
\* deletes or purges and Telegram deletes what it is asked to delete:
\* _delete_file_data (file_service.py:270-284) deletes the message of the
\* last document that shares it before the document itself goes.
THEOREM DeletionsLeaveNoOrphan == Spec => [](OneDeleter /\ ~MayRefuse => NoOrphanMessage)
<1>1. Init => IInv /\ OneRequest /\ Facts /\ OrderOK /\ OrphanInv
  BY InitHolds, OneRequestInit, FactsInit, OrderInit, OrphanInit
<1>2. IInv /\ OneRequest /\ Facts /\ OrderOK /\ OrphanInv /\ [Next]_vars
        => (IInv /\ OneRequest /\ Facts /\ OrderOK /\ OrphanInv)'
  BY NextHolds, OneRequestNext, FactsNext, OrderNext, OrphanNext
<1>3. IInv /\ OrphanInv => (OneDeleter /\ ~MayRefuse => NoOrphanMessage)
  <2> SUFFICES ASSUME IInv, OrphanInv, OneDeleter, ~MayRefuse, NEW m \in messages, m < FirstMsg
               PROVE  \E i \in DOMAIN files : files[i].msg = m
    BY DEF NoOrphanMessage
  <2>1. OldMsg(m)
    BY LibrariesAssumption DEF OldMsg, IInv, TypeOK
  <2> QED
    BY <2>1 DEF OrphanInv, Owned
<1> QED
  BY <1>1, <1>2, <1>3, PTL DEF Spec

(***************************************************************************)
(* The messages a frame speaks of.                                         *)
(***************************************************************************)
\* Those that a document it is going to insert points to.
Lends(f) ==
    CASE f.op \in {"copyQuota", "copyDoc", "insert"} -> {f.doc.msg}
      [] f.op = "copyEach" -> {k.doc.msg : k \in f.kids}
      [] OTHER -> {}

\* Those, and the ones it is going to count or to delete.
Names(f) ==
    CASE f.op \in {"copyQuota", "copyDoc", "insert"} -> {f.doc.msg}
      [] f.op \in {"copyEach", "deleteEach"} -> {k.doc.msg : k \in f.kids}
      [] f.op \in {"countRefs", "deleteMsg"} -> {f.msg}
      [] OTHER -> {}

NamingOps == {"copyQuota", "copyDoc", "insert", "copyEach", "deleteEach", "countRefs", "deleteMsg"}

LentMsgs == {files[i].msg : i \in DOMAIN files}

LEMMA NoNames ==
    ASSUME NEW f, f.op \notin NamingOps
    PROVE  Names(f) = {} /\ Lends(f) = {}
BY DEF Names, Lends, NamingOps

LEMMA DocNames ==
    ASSUME NEW f, f.op \in {"copyQuota", "copyDoc", "insert"}
    PROVE  Names(f) = {f.doc.msg} /\ Lends(f) = {f.doc.msg}
BY DEF Names, Lends

LEMMA FetchedNames ==
    ASSUME NEW S, S \subseteq DOMAIN files, NEW f, f.kids = Fetch(S)
    PROVE  {k.doc.msg : k \in f.kids} \subseteq LentMsgs
BY DEF Fetch, LentMsgs

LEMMA MadeNames ==
    ASSUME NEW p, NEW h \in Frame, NEW new, Follows(p, h, new), NEW f \in Made(p, h)
    PROVE  /\ Names(f) \subseteq Names(h) \cup LentMsgs \cup {NoMessage}
           /\ Lends(f) \subseteq Lends(h) \cup {NoMessage}
                                 \cup (IF h.op \in {"copy", "copyChildren", "dedup"} THEN LentMsgs ELSE {})
<1>1. CASE f.op \notin NamingOps
  BY <1>1, NoNames
<1>2. CASE f.op \in NamingOps
  <2>0. f.op \in MoreOps(h.op) /\ h.op \in AllOps /\ h.op \notin EachOps
    BY MadeOps, FrameOps DEF Made, EachOps
  <2>1. CASE h.op = "copy"
    <3>1. h.id \in DOMAIN files
      BY <2>1 DEF Follows, FollowsPlace, FollowsTrash, FollowsDelete, Plain, Live
    <3>2. f = Copy("copyQuota", h.id, files[h.id], h.to)
      BY <1>2, <2>1 DEF Made, NamingOps, At, Into, Of, Copy
    <3>3. f.op = "copyQuota" /\ f.doc = files[h.id]
      BY <3>2 DEF Copy
    <3>4. Names(f) = {files[h.id].msg} /\ Lends(f) = {files[h.id].msg}
      BY <3>3, DocNames
    <3> QED
      BY <2>1, <3>1, <3>4 DEF LentMsgs
  <2>2. CASE h.op = "copyQuota"
    <3>1. f = Copy("copyDoc", h.id, h.doc, h.to)
      BY <1>2, <2>2 DEF Made, NamingOps, Copy, Add
    <3>2. f.op = "copyDoc" /\ f.doc = h.doc
      BY <3>1 DEF Copy
    <3> QED
      BY <2>2, <3>2, DocNames
  <2>3. CASE h.op = "copyChildren"
    <3>1. f = Loop("copyEach", Fetch(LiveChildren(files, h.id)), h.to)
      BY <2>3 DEF Made
    <3>2. f.op = "copyEach" /\ f.kids = Fetch(LiveChildren(files, h.id))
      BY <3>1 DEF Loop
    <3>3. {k.doc.msg : k \in f.kids} \subseteq LentMsgs
      BY <3>2, FetchedNames DEF LiveChildren, Children
    <3>4. Names(f) = {k.doc.msg : k \in f.kids} /\ Lends(f) = {k.doc.msg : k \in f.kids}
      BY <3>2 DEF Names, Lends
    <3> QED
      BY <2>3, <3>3, <3>4
  <2>4. CASE h.op = "dedup"
    <3>1. PICK m \in LentMsgs \cup {NoMessage} : \E send : f = Insert(NewDoc(h.content, m, h.to), send)
      BY <2>4 DEF Made, LentMsgs
    <3>2. f.op = "insert" /\ f.doc.msg = m
      BY <3>1 DEF Insert, NewDoc
    <3> QED
      BY <2>4, <3>2, DocNames
  <2>5. CASE h.op = "delete"
    <3>1. h.id \in DOMAIN files /\ f \in FileFrames(h.id, files[h.id])
      BY <1>2, <2>5 DEF Made, At, NamingOps
    <3>2. f = About("countRefs", h.id, files[h.id].msg)
      BY <1>2, <3>1 DEF FileFrames, At, Add, NamingOps
    <3>3. f.op = "countRefs" /\ f.msg = files[h.id].msg
      BY <3>2 DEF About
    <3>4. Names(f) = {files[h.id].msg} /\ Lends(f) = {}
      BY <3>3 DEF Names, Lends
    <3> QED
      BY <3>1, <3>4 DEF LentMsgs
  <2>6. CASE h.op = "deleteChildren"
    <3>1. f = Loop("deleteEach", Fetch(Children(files, h.id)), Root)
      BY <1>2, <2>6 DEF Made, At, NamingOps
    <3>2. f.op = "deleteEach" /\ f.kids = Fetch(Children(files, h.id))
      BY <3>1 DEF Loop
    <3>3. {k.doc.msg : k \in f.kids} \subseteq LentMsgs
      BY <3>2, FetchedNames DEF Children
    <3>4. Names(f) = {k.doc.msg : k \in f.kids} /\ Lends(f) = {}
      BY <3>2 DEF Names, Lends
    <3> QED
      BY <3>3, <3>4
  <2>7. CASE h.op = "countRefs"
    <3>1. f.op = "deleteMsg" /\ f.msg = h.msg
      BY <2>7 DEF Made
    <3>2. Names(f) = {h.msg} /\ Lends(f) = {} /\ Names(h) = {h.msg}
      BY <2>7, <3>1 DEF Names, Lends
    <3> QED
      BY <3>2
  <2>8. CASE h.op \notin {"copy", "copyQuota", "copyChildren", "dedup", "delete", "deleteChildren", "countRefs"}
    <3>1. f.op \notin NamingOps
      BY <2>0, <2>8 DEF MoreOps, NamingOps, AllOps, AtOps, DocOps, PlaceOps
    <3> QED
      BY <1>2, <3>1
  <2> QED
    BY <2>1, <2>2, <2>3, <2>4, <2>5, <2>6, <2>7, <2>8
<1> QED
  BY <1>1, <1>2

LEMMA IterationNames ==
    ASSUME NEW l \in Frame, l.op \in EachOps, NEW k \in l.kids,
           NEW f \in IterationMade(l.op, k, l.to) \cup {Loop(l.op, l.kids \ {k}, l.to)}
    PROVE  Names(f) \subseteq Names(l) /\ Lends(f) \subseteq Lends(l)
<1>1. CASE f.op \notin NamingOps
  BY <1>1, NoNames
<1>2. CASE f.op \in NamingOps /\ f = Loop(l.op, l.kids \ {k}, l.to)
  <2>1. f.op = l.op /\ f.kids \subseteq l.kids
    BY <1>2 DEF Loop
  <2>2. l.op \in {"copyEach", "deleteEach"}
    BY <1>2, <2>1 DEF NamingOps, EachOps
  <2> QED
    BY <2>1, <2>2 DEF Names, Lends
<1>3. CASE f.op \in NamingOps /\ f \in IterationMade(l.op, k, l.to)
  <2>1. CASE l.op = "copyEach"
    <3>1. f = Copy("copyDoc", k.id, k.doc, l.to)
      BY <1>3, <2>1 DEF IterationMade
    <3>2. f.op = "copyDoc" /\ f.doc = k.doc
      BY <3>1 DEF Copy
    <3>3. Names(f) = {k.doc.msg} /\ Lends(f) = {k.doc.msg}
      BY <3>2, DocNames
    <3> QED
      BY <2>1, <3>3 DEF Names, Lends
  <2>2. CASE l.op = "deleteEach"
    <3>1. f = About("countRefs", k.id, k.doc.msg)
      BY <1>3, <2>2 DEF IterationMade, FileFrames, At, Add, NamingOps
    <3>2. f.op = "countRefs" /\ f.msg = k.doc.msg
      BY <3>1 DEF About
    <3>3. Names(f) = {k.doc.msg} /\ Lends(f) = {}
      BY <3>2 DEF Names, Lends
    <3>4. Names(l) = {j.doc.msg : j \in l.kids}
      BY <2>2 DEF Names
    <3> QED
      BY <3>3, <3>4
  <2>3. CASE l.op \notin {"copyEach", "deleteEach"}
    <3>1. f.op \in MoreOps(l.op)
      BY <1>3, IterationOps
    <3> QED
      BY <1>3, <2>3, <3>1 DEF EachOps, MoreOps, NamingOps
  <2> QED
    BY <2>1, <2>2, <2>3
<1> QED
  BY <1>1, <1>2, <1>3

LEMMA FirstNames ==
    ASSUME NEW kind \in Kinds, NEW f \in FirstMade(kind)
    PROVE  Names(f) \subseteq {NoMessage} /\ Lends(f) \subseteq {NoMessage}
<1>1. CASE f.op = "insert"
  <2>1. CASE kind = "mkdir"
    <3>1. PICK to : f = Insert(NewDoc("folder", NoMessage, to), FALSE)
      BY <1>1, <2>1 DEF FirstMade, At, Insert
    <3>2. f.doc.msg = NoMessage
      BY <3>1 DEF Insert, NewDoc
    <3> QED
      BY <1>1, <3>2, DocNames
  <2>2. CASE kind = "upload"
    BY <1>1, <2>2 DEF FirstMade, At, New
  <2>3. CASE kind \in Kinds \ {"mkdir", "upload", "init", "complete"}
    <3>1. f.op \in OpsOf[kind]
      BY FirstOps
    <3>2. "insert" \notin OpsOf[kind]
      BY <2>3 DEF Kinds, OpsOf
    <3> QED
      BY <1>1, <3>1, <3>2
  <2>4. CASE kind = "init"
    BY <1>1, <2>4 DEF FirstMade, At
  <2>5. CASE kind = "complete"
    BY <1>1, <2>5 DEF FirstMade, New
  <2> QED
    BY <2>1, <2>2, <2>3, <2>4, <2>5
<1>2. CASE f.op # "insert"
  <2>1. f.op \notin NamingOps
    BY <1>2, FirstCalls DEF NamingOps
  <2> QED
    BY <2>1, NoNames
<1> QED
  BY <1>1, <1>2

(***************************************************************************)
(* A message that a worker has just sent is in no document and no frame.   *)
(***************************************************************************)
\* What is about to be recorded.
Recorded(s) == IF s # <<>> /\ Head(s).op = "record" THEN {Head(s).msg} ELSE {}

\* m is the id of a message that is not waiting to be recorded.
Seen(m) == m \in 0 .. (nextMsg - 1) /\ \A p \in Procs : m \notin Recorded(todo[p])

SeenFrames == {f \in Frame : \A m \in Names(f) : Seen(m)}

FreshInv ==
    /\ faults \in Nat
    /\ \A p \in Procs : /\ todo[p] \in Seq(SeenFrames)
                        /\ Recorded(todo[p]) \subseteq messages
                        /\ \A q \in Procs \ {p} : Recorded(todo[p]) \cap Recorded(todo[q]) = {}
    /\ \A w \in Workers : Len(todo[w]) <= 1
    /\ \A i \in DOMAIN files : Seen(files[i].msg)

\* A client records nothing.
LEMMA RequestsRecordNothing ==
    ASSUME NEW kind \in Kinds, NEW s \in Seq(FramesOf(OpsOf[kind]))
    PROVE  Recorded(s) = {}
<1>1. CASE s = <<>>
  BY <1>1 DEF Recorded
<1>2. CASE s # <<>>
  <2>1. Head(s) \in FramesOf(OpsOf[kind])
    BY <1>2
  <2>2. "record" \notin OpsOf[kind]
    BY DEF Kinds, OpsOf
  <2> QED
    BY <2>1, <2>2 DEF FramesOf, Recorded
<1> QED
  BY <1>1, <1>2

LEMMA ClientCalls ==
    ASSUME OneRequest, IInv, NEW c \in Clients, NEW s \in Ready(todo[c])
    PROVE  Head(s).op \notin WorkerOps
<1>1. todo[c] # <<>> /\ s # <<>> /\ c \in Procs
  BY ReadyShape, CallTail DEF Procs, Calls
<1>2. PICK kind \in may[c] : todo[c] \in Seq(FramesOf(OpsOf[kind]))
  BY <1>1 DEF OneRequest
<1>3. kind \in Kinds
  BY <1>2, MayKinds
<1>4. s \in Seq(FramesOf(OpsOf[kind]))
  BY <1>1, <1>2, <1>3, OpsClosed, OpsReady
<1>5. Head(s) \in FramesOf(OpsOf[kind])
  BY <1>1, <1>4
<1> QED
  BY <1>3, <1>5 DEF FramesOf, Kinds, OpsOf, WorkerOps

\* A worker has one call to make, and no loops.
LEMMA WorkerCalls ==
    ASSUME OneRequest, IInv, NEW w \in Workers, NEW s \in Ready(todo[w])
    PROVE  s = todo[w] /\ s # <<>> /\ s \in Seq(FramesOf(WorkerOps)) /\ Head(s).op \in WorkerOps
<1>1. todo[w] # <<>> /\ todo[w] \in Seq(FramesOf(WorkerOps))
  BY ReadyShape DEF OneRequest
<1>2. Head(todo[w]) \in FramesOf(WorkerOps)
  BY <1>1
<1>3. Head(todo[w]).op \in WorkerOps
  BY <1>2 DEF FramesOf
<1> QED
  BY <1>1, <1>3, FirstCall DEF WorkerOps, EachOps

\* What a step makes its process record.
LEMMA RecordedStep ==
    ASSUME IInv, IInv', OneRequest, OneRequest', NEW p \in Procs, p \in Workers => Len(todo[p]) <= 1,
           NEW s \in Ready(todo[p]), NEW new, NEW rest, GoesOn(p, s, new, rest)
    PROVE  /\ \/ Recorded(todo'[p]) = {}
              \/ /\ Head(s).op = "send" /\ Recorded(todo'[p]) = {nextMsg}
                 /\ messages' = messages \cup {nextMsg} /\ nextMsg' = nextMsg + 1
           /\ Head(s).op = "record" => Recorded(todo'[p]) = {} /\ Recorded(todo[p]) = {Head(s).msg}
           /\ p \in Workers => Len(todo'[p]) <= 1
<1> DEFINE h == Head(s)
<1>1. todo'[p] = new \o rest
  BY DEF GoesOn, Goto, IInv, TypeOK
<1>2. CASE p \in Clients
  <2>1. Recorded(todo'[p]) = {}
    <3>1. CASE todo'[p] = <<>>
      BY <3>1 DEF Recorded
    <3>2. CASE todo'[p] # <<>>
      <4>1. PICK kind \in may'[p] : todo'[p] \in Seq(FramesOf(OpsOf[kind]))
        BY <1>2, <3>2 DEF OneRequest, FramesOf, Frame, Kid, Doc
      <4>2. kind \in Kinds
        BY <1>2, <4>1, RolesAssumption DEF IInv, TypeOK
      <4> QED
        BY <4>1, <4>2, RequestsRecordNothing
    <3> QED
      BY <3>1, <3>2
  <2>2. h.op \notin WorkerOps
    BY <1>2, ClientCalls
  <2> QED
    BY <1>2, <2>1, <2>2, ProcsAssumption DEF WorkerOps
<1>3. CASE p \in Workers
  <2>1. s = todo[p] /\ s # <<>> /\ s \in Seq(FramesOf(WorkerOps)) /\ h.op \in WorkerOps
    BY <1>3, WorkerCalls
  <2>2. Tail(s) = <<>>
    BY <1>3, <2>1
  <2>3. Follows(p, h, new) /\ rest = <<>>
    BY <2>1, <2>2 DEF GoesOn, Quits, First, WorkerOps
  <2>4. CASE new = <<>>
    <3>1. todo'[p] = <<>>
      BY <1>1, <2>3, <2>4, EmptyConcat
    <3>2. Len(todo'[p]) <= 1 /\ Recorded(todo'[p]) = {}
      BY <3>1 DEF Recorded
    <3> QED
      BY <2>1, <3>2 DEF Recorded
  <2>5. CASE new # <<>>
    <3>1. /\ h.op = "send" /\ new = <<About("record", h.id, nextMsg)>>
          /\ messages' = messages \cup {nextMsg} /\ nextMsg' = nextMsg + 1
      BY <2>1, <2>3, <2>5 DEF Follows, FollowsPlace, FollowsTrash, FollowsDelete, Plain, WorkerOps
    <3> DEFINE x == About("record", h.id, nextMsg)
    <3>2. x.op = "record" /\ x.msg = nextMsg
      BY DEF About
    <3> HIDE DEF x
    <3>3. todo'[p] = <<x>>
      <4>1. <<x>> \in Seq({x})
        BY Single
      <4>2. <<x>> \o <<>> = <<x>>
        BY <4>1, EmptyCalls
      <4> QED
        BY <1>1, <2>3, <3>1, <4>2 DEF x
    <3>4. Len(todo'[p]) <= 1 /\ Recorded(todo'[p]) = {nextMsg}
      BY <3>2, <3>3, HeadTails DEF Recorded
    <3> QED
      BY <3>1, <3>4
  <2> QED
    BY <2>4, <2>5
<1> QED
  BY <1>2, <1>3 DEF Procs

\* What was seen stays seen.
LEMMA SeenStays ==
    ASSUME IInv, IInv', nextMsg' \in {nextMsg, nextMsg + 1}, NEW m, Seen(m),
           \A q \in Procs : Recorded(todo'[q]) \subseteq Recorded(todo[q]) \cup {nextMsg}
    PROVE  Seen(m)'
<1>1. nextMsg \in Nat /\ m \in 0 .. (nextMsg - 1)
  BY DEF IInv, TypeOK, Seen
<1>2. m \in 0 .. (nextMsg' - 1) /\ m # nextMsg
  <2>1. CASE nextMsg' = nextMsg
    BY <1>1, <2>1
  <2>2. CASE nextMsg' = nextMsg + 1
    <3>1. m \in 0 .. ((nextMsg + 1) - 1) /\ m # nextMsg
      BY <1>1
    <3> QED
      BY <2>2, <3>1
  <2> QED
    BY <2>1, <2>2
<1>3. \A q \in Procs : m \notin Recorded(todo'[q])
  BY <1>2 DEF Seen
<1> QED
  BY <1>2, <1>3 DEF Seen, Recorded, Procs

\* Where the message of a document comes from.
LEMMA DocsStep ==
    ASSUME IInv, NEW p \in Procs, NEW s \in Ready(todo[p]), NEW new, NEW rest, GoesOn(p, s, new, rest),
           NEW j \in DOMAIN files'
    PROVE  \/ j \in DOMAIN files /\ files'[j].msg = files[j].msg
           \/ Head(s).op = "record" /\ files'[j].msg = Head(s).msg
           \/ Head(s).op \in {"insert", "copyDoc"} /\ files'[j].msg = Head(s).doc.msg
<1> DEFINE h == Head(s)
<1>1. h \in Frame /\ \A i \in DOMAIN files : files[i] \in Doc
  BY CallTail DEF Calls, IInv, TypeOK
<1>2. CASE UNCHANGED files
  BY <1>2
<1>3. CASE h.op \in {"setParent", "mark", "unmark"} /\ FilesEffect(h)
  <2>1. PICK d : SetDoc(h.id, d) /\ (h.id \in DOMAIN files => d.msg = files[h.id].msg)
    <3>1. CASE h.op = "mark"
      <4> DEFINE d == [files[h.id] EXCEPT !.trash = "trashed"]
      <4>1. SetDoc(h.id, d)
        BY <1>3, <3>1 DEF FilesEffect
      <4> QED
        BY <1>1, <4>1 DEF Doc
    <3>2. CASE h.op = "unmark"
      <4> DEFINE d == [files[h.id] EXCEPT !.trash = "live"]
      <4>1. SetDoc(h.id, d)
        BY <1>3, <3>2 DEF FilesEffect
      <4> QED
        BY <1>1, <4>1 DEF Doc
    <3>3. CASE h.op = "setParent"
      <4> DEFINE d == [files[h.id] EXCEPT !.parent = h.to]
      <4>1. SetDoc(h.id, d)
        BY <1>3, <3>3 DEF FilesEffect
      <4> QED
        BY <1>1, <4>1 DEF Doc
    <3> QED
      BY <1>3, <3>1, <3>2, <3>3
  <2> QED
    BY <2>1 DEF SetDoc
<1>4. CASE h.op = "record" /\ FilesEffect(h)
  <2> DEFINE d == [files[h.id] EXCEPT !.msg = h.msg]
  <2>1. SetDoc(h.id, d)
    BY <1>4 DEF FilesEffect
  <2>2. h.id \in DOMAIN files => d.msg = h.msg
    BY <1>1 DEF Doc
  <2> HIDE DEF d
  <2> QED
    BY <1>4, <2>1, <2>2 DEF SetDoc
<1>5. CASE h.op = "remove" /\ FilesEffect(h)
  BY <1>5 DEF FilesEffect
<1>6. CASE h.op = "insert" /\ FilesEffect(h)
  BY <1>6 DEF FilesEffect, InsertDoc
<1>7. CASE h.op = "copyDoc" /\ FilesEffect(h)
  <2> DEFINE d == [h.doc EXCEPT !.parent = h.to, !.trash = "live"]
  <2>1. InsertDoc(d)
    BY <1>7 DEF FilesEffect
  <2>2. d.msg = h.doc.msg
    BY <1>1, <1>7, FrameFields DEF Doc
  <2> HIDE DEF d
  <2> QED
    BY <1>7, <2>1, <2>2 DEF InsertDoc
<1>8. FilesEffect(h) \/ UNCHANGED files
  BY DEF GoesOn, Effect, data
<1>9. FilesEffect(h) =>
        h.op \in {"setParent", "mark", "unmark", "record", "remove", "insert", "copyDoc"} \/ UNCHANGED files
  BY DEF FilesEffect
<1> QED
  BY <1>2, <1>3, <1>4, <1>5, <1>6, <1>7, <1>8, <1>9

\* The frames a process comes to stand before.
LEMMA SeenReady ==
    ASSUME IInv, NEW p \in Procs, NEW s \in Ready(todo[p]), todo[p] \in Seq(SeenFrames)
    PROVE  s \in Seq(SeenFrames) /\ s # <<>> /\ Head(s) \in SeenFrames /\ Tail(s) \in Seq(SeenFrames)
<1>1. s \in Seq(Frame) /\ s # <<>> /\ SeenFrames \subseteq Frame
  BY CallTail DEF Calls, SeenFrames
<1>2. ASSUME NEW l \in SeenFrames, l.op \in EachOps, NEW k \in l.kids, NEW f \in Frame,
             f \in IterationMade(l.op, k, l.to) \/ f = Loop(l.op, l.kids \ {k}, l.to)
      PROVE  f \in SeenFrames
  BY <1>2, IterationNames DEF SeenFrames
<1>3. s \in Seq(SeenFrames)
  BY <1>1, <1>2, ReadyIn
<1> QED
  BY <1>1, <1>3

LEMMA FreshStep ==
    ASSUME IInv, IInv', OneRequest, OneRequest', FreshInv, NEW p \in Procs, NEW s \in Ready(todo[p]),
           NEW new, NEW rest, GoesOn(p, s, new, rest)
    PROVE  FreshInv'
<1> DEFINE h == Head(s)
<1>1. /\ s \in Seq(SeenFrames) /\ s # <<>> /\ h \in SeenFrames /\ Tail(s) \in Seq(SeenFrames)
      /\ h \in Frame /\ SeenFrames \subseteq Frame
  BY SeenReady DEF FreshInv, SeenFrames
<1>2. /\ todo'[p] = new \o rest /\ new \o rest \in Seq(Frame) /\ faults' = faults
      /\ \A q \in Procs \ {p} : todo'[q] = todo[q]
  BY DEF GoesOn, Goto, Effect, bounds, IInv, TypeOK
<1>3. nextMsg' \in {nextMsg, nextMsg + 1}
  BY MsgsGrow
<1>4. /\ \/ Recorded(todo'[p]) = {}
         \/ /\ h.op = "send" /\ Recorded(todo'[p]) = {nextMsg}
            /\ messages' = messages \cup {nextMsg} /\ nextMsg' = nextMsg + 1
      /\ h.op = "record" => Recorded(todo'[p]) = {} /\ Recorded(todo[p]) = {h.msg}
      /\ p \in Workers => Len(todo'[p]) <= 1
  BY RecordedStep DEF FreshInv
<1>5. \A q \in Procs : Recorded(todo'[q]) \subseteq Recorded(todo[q]) \cup {nextMsg}
  BY <1>2, <1>4
<1>6. \A m : Seen(m) => Seen(m)'
  BY <1>3, <1>5, SeenStays
<1>7. SeenFrames \subseteq SeenFrames'
  BY <1>6 DEF SeenFrames, Frame, Kid, Doc
<1>8. Seen(NoMessage) /\ \A m \in LentMsgs : Seen(m)
  <2>1. \A q \in Procs : Recorded(todo[q]) \subseteq messages
    BY DEF FreshInv
  <2>2. NoMessage \notin messages /\ NoMessage \in 0 .. (nextMsg - 1)
    BY DEF IInv, TypeOK, NoMessage
  <2> QED
    BY <2>1, <2>2 DEF Seen, FreshInv, LentMsgs
<1>9. ASSUME NEW q \in Procs PROVE todo'[q] \in Seq(SeenFrames')
  <2>1. CASE q = p
    <3>1. ASSUME Follows(p, h, new), Effect(h), NEW f \in Frame, f \in Made(p, h)
          PROVE  f \in SeenFrames'
      <4>1. Names(f) \subseteq Names(h) \cup LentMsgs \cup {NoMessage}
        BY <1>1, <3>1, MadeNames
      <4>2. f \in SeenFrames
        BY <1>1, <1>8, <3>1, <4>1 DEF SeenFrames
      <4> QED
        BY <1>7, <4>2
    <3>2. new \o rest \in Seq(SeenFrames')
      BY <1>1, <1>2, <1>7, <3>1, GoesOnIn
    <3> QED
      BY <1>2, <2>1, <3>2
  <2>2. CASE q # p
    <3>1. todo[q] \in Seq(SeenFrames)
      BY DEF FreshInv
    <3> QED
      BY <1>2, <1>7, <2>2, <3>1, SeqWider
  <2> QED
    BY <2>1, <2>2
<1>10. ASSUME NEW j \in DOMAIN files' PROVE Seen(files[j].msg)'
  <2>1. PICK m : m = files'[j].msg
    OBVIOUS
  <2>2. CASE h.op # "record"
    <3>1. h.op \in {"insert", "copyDoc"} => Seen(h.doc.msg)
      BY <1>1, DocNames DEF SeenFrames
    <3>2. Seen(m)
      BY <2>1, <2>2, <3>1, DocsStep DEF FreshInv
    <3>3. Seen(m)'
      BY <1>6, <3>2
    <3> QED
      BY <2>1, <3>3 DEF Seen
  <2>3. CASE h.op = "record"
    <3>1. Seen(m) \/ m = h.msg
      BY <2>1, <2>3, DocsStep DEF FreshInv
    <3>2. CASE m = h.msg
      <4>1. Recorded(todo[p]) = {m} /\ Recorded(todo'[p]) = {}
        BY <1>4, <2>3, <3>2
      <4>2. m \in messages /\ \A q \in Procs \ {p} : m \notin Recorded(todo[q])
        BY <4>1 DEF FreshInv
      <4>3. \A q \in Procs : m \notin Recorded(todo'[q])
        BY <1>2, <4>1, <4>2
      <4>4. m \in 0 .. (nextMsg - 1)
        BY <4>2 DEF IInv, TypeOK
      <4>5. nextMsg' = nextMsg
        BY <2>3 DEF GoesOn, Effect, MessagesEffect, Quits
      <4>6. Seen(m)'
        BY <4>3, <4>4, <4>5 DEF Seen, Recorded, Procs
      <4> QED
        BY <2>1, <4>6 DEF Seen
    <3>3. CASE Seen(m)
      <4>1. Seen(m)'
        BY <1>6, <3>3
      <4> QED
        BY <2>1, <4>1 DEF Seen
    <3> QED
      BY <3>1, <3>2, <3>3
  <2> QED
    BY <2>2, <2>3
<1>11. ASSUME NEW q \in Procs PROVE Recorded(todo'[q]) \subseteq messages'
  <2>1. ASSUME NEW m \in messages, m \in Recorded(todo[q]) PROVE m \in messages'
    <3>1. h.op = "deleteMsg" => Seen(h.msg)
      <4>1. h.op = "deleteMsg" => Names(h) = {h.msg}
        BY DEF Names
      <4> QED
        BY <1>1, <4>1 DEF SeenFrames
    <3>2. h.op = "deleteMsg" => m # h.msg
      BY <2>1, <3>1 DEF Seen
    <3>3. \/ messages \subseteq messages'
          \/ h.op = "deleteMsg" /\ messages' = messages \ {h.msg}
      BY <1>4 DEF GoesOn, Effect, MessagesEffect, data, Follows, FollowsPlace, FollowsTrash, FollowsDelete, Plain
    <3> QED
      BY <2>1, <3>2, <3>3
  <2>2. Recorded(todo[q]) \subseteq messages'
    BY <2>1 DEF FreshInv
  <2> QED
    BY <1>2, <1>4, <2>2
<1>12. ASSUME NEW q \in Procs, NEW r \in Procs \ {q} PROVE Recorded(todo'[q]) \cap Recorded(todo'[r]) = {}
  <2>1. \A o \in Procs : nextMsg \notin Recorded(todo[o])
    <3>1. nextMsg \notin messages
      BY DEF IInv, TypeOK
    <3> QED
      BY <3>1 DEF FreshInv
  <2>2. Recorded(todo[q]) \cap Recorded(todo[r]) = {}
    BY DEF FreshInv
  <2> QED
    BY <1>2, <1>4, <2>1, <2>2
<1>13. \A w \in Workers : Len(todo'[w]) <= 1
  BY <1>2, <1>4 DEF FreshInv, Procs
<1>14. faults' \in Nat
  BY <1>2 DEF FreshInv
<1>15. \A q \in Procs : /\ todo'[q] \in Seq(SeenFrames')
                        /\ Recorded(todo'[q]) \subseteq messages'
                        /\ \A r \in Procs \ {q} : Recorded(todo'[q]) \cap Recorded(todo'[r]) = {}
  BY <1>9, <1>11, <1>12
<1>16. \A i \in DOMAIN files' : Seen(files[i].msg)'
  BY <1>10
<1> QED
  BY <1>13, <1>14, <1>15, <1>16 DEF FreshInv, Recorded, Procs

LEMMA FreshInit == Init => FreshInv
<1> SUFFICES ASSUME Init PROVE FreshInv
  OBVIOUS
<1>1. /\ faults = 0 /\ \A p \in Procs : todo[p] = <<>>
      /\ nextMsg = FirstMsg /\ FirstMsg \in Nat \ {0}
  BY LibrariesAssumption DEF Init
<1>2. \A p \in Procs : Recorded(todo[p]) = {} /\ todo[p] \in Seq(SeenFrames)
  BY <1>1, NoFrames DEF Recorded
<1>3. \A i \in DOMAIN files : files[i].msg \in 0 .. (FirstMsg - 1)
  <2>1. ASSUME NEW i \in DOMAIN files PROVE files[i].msg \in Nat /\ files[i].msg < FirstMsg
    <3>1. files \in Libraries
      BY DEF Init
    <3> QED
      BY <3>1, LibrariesAssumption DEF Doc
  <2> QED
    BY <1>1, <2>1
<1>4. \A w \in Workers : Len(todo[w]) <= 1
  BY <1>1 DEF Procs
<1> QED
  BY <1>1, <1>2, <1>3, <1>4 DEF FreshInv, Seen

\* What a request begins with, and a worker, names no message.
LEMMA QuietNames ==
    ASSUME IInv, IInv', NEW p \in Procs, Quiet(p)
    PROVE  /\ todo'[p] \in Seq({f \in Frame : Names(f) \subseteq {NoMessage} /\ Lends(f) \subseteq {NoMessage}})
           /\ Recorded(todo'[p]) = {}
           /\ p \in Workers => Len(todo'[p]) <= 1
<1> DEFINE Z == {f \in Frame : Names(f) \subseteq {NoMessage} /\ Lends(f) \subseteq {NoMessage}}
<1>1. CASE todo'[p] = <<>>
  BY <1>1, NoFrames DEF Recorded
<1>2. CASE p \in Clients /\ \E kind \in may[p] \cap Kinds : \E s \in Requests[kind] : Goto(p, s)
  <2>1. PICK kind \in may[p] \cap Kinds : \E s \in Requests[kind] : Goto(p, s)
    BY <1>2
  <2> DEFINE Y == {f \in Z : f.op # "record"}
  <2>2. ASSUME NEW f \in Frame, f \in FirstMade(kind) PROVE f \in Y
    BY <2>1, <2>2, FirstNames, FirstCalls
  <2>3. todo \in [Procs -> Seq(Frame)] /\ Y \subseteq Z /\ \A f \in Y : f.op # "record"
    BY DEF IInv, TypeOK
  <2> HIDE DEF Y, Z
  <2>4. todo'[p] \in Seq(Y)
    BY <1>2, <2>1, <2>2, <2>3, BeginIn
  <2>5. todo'[p] \in Seq(Z)
    BY <2>3, <2>4, SeqWider
  <2>6. Recorded(todo'[p]) = {}
    <3>1. todo'[p] # <<>> => Head(todo'[p]) \in Y
      BY <2>4
    <3> QED
      BY <2>3, <3>1 DEF Recorded
  <2> QED
    BY <1>2, <2>5, <2>6, ProcsAssumption DEF Z
<1>3. CASE todo'[p] = <<At("send", Head(queue))>>
  <2> DEFINE x == At("send", Head(queue))
  <2>1. x.op = "send"
    BY DEF At
  <2> HIDE DEF x
  <2>2. todo'[p] = <<x>>
    BY <1>3 DEF x
  <2>3. Head(todo'[p]) = x /\ Len(todo'[p]) = 1
    BY <2>2, HeadTails
  <2>4. x \in Frame
    <3>1. todo' \in [Procs -> Seq(Frame)] /\ todo'[p] # <<>>
      BY <2>2 DEF IInv, TypeOK
    <3> QED
      BY <2>3, <3>1
  <2>5. x \in Z
    BY <2>1, <2>4, NoNames DEF NamingOps
  <2> HIDE DEF Z
  <2>6. todo'[p] \in Seq(Z)
    BY <2>2, <2>5, Single
  <2> QED
    BY <2>1, <2>3, <2>6 DEF Recorded, Z
<1> QED
  BY <1>1, <1>2, <1>3, QuietShape DEF QuietTodo

LEMMA FreshOfQuiet ==
    ASSUME IInv, IInv', FreshInv, NEW p, Quiet(p)
    PROVE  FreshInv'
<1>1. /\ messages' = messages /\ nextMsg' = nextMsg
      /\ DOMAIN files' = DOMAIN files /\ \A j \in DOMAIN files : files'[j].msg = files[j].msg
      /\ \A q \in Procs \ {p} : todo'[q] = todo[q] \/ todo'[q] = <<>>
      /\ faults' \in {faults, faults + 1}
  BY QuietShape DEF QuietData
<1>2. \A q \in Procs : Recorded(todo'[q]) = {} \/ (q # p /\ todo'[q] = todo[q])
  <2>1. p \in Procs => Recorded(todo'[p]) = {}
    BY QuietNames
  <2> QED
    BY <1>1, <2>1 DEF Recorded
<1>3. \A m : Seen(m) => Seen(m)'
  <2>1. \A q \in Procs : Recorded(todo'[q]) \subseteq Recorded(todo[q]) \cup {nextMsg}
    BY <1>2
  <2> QED
    BY <1>1, <2>1, SeenStays
<1>4. SeenFrames \subseteq SeenFrames'
  BY <1>3 DEF SeenFrames, Frame, Kid, Doc
<1>5. Seen(NoMessage)
  <2>1. \A q \in Procs : Recorded(todo[q]) \subseteq messages
    BY DEF FreshInv
  <2>2. NoMessage \notin messages /\ NoMessage \in 0 .. (nextMsg - 1)
    BY DEF IInv, TypeOK, NoMessage
  <2> QED
    BY <2>1, <2>2 DEF Seen
<1>6. ASSUME NEW q \in Procs PROVE todo'[q] \in Seq(SeenFrames') /\ (q \in Workers => Len(todo'[q]) <= 1)
  <2>1. CASE q = p
    <3> DEFINE Z == {f \in Frame : Names(f) \subseteq {NoMessage} /\ Lends(f) \subseteq {NoMessage}}
    <3>1. Z \subseteq SeenFrames'
      <4>1. Z \subseteq SeenFrames
        BY <1>5 DEF SeenFrames
      <4> QED
        BY <1>4, <4>1
    <3>2. todo'[p] \in Seq(Z) /\ (p \in Workers => Len(todo'[p]) <= 1)
      BY <2>1, QuietNames
    <3> HIDE DEF Z
    <3> QED
      BY <2>1, <3>1, <3>2, SeqWider
  <2>2. CASE todo'[q] = <<>>
    BY <2>2, NoFrames
  <2>3. CASE todo'[q] = todo[q]
    <3>1. todo[q] \in Seq(SeenFrames) /\ (q \in Workers => Len(todo[q]) <= 1)
      BY DEF FreshInv
    <3> QED
      BY <1>4, <2>3, <3>1, SeqWider
  <2> QED
    BY <1>1, <2>1, <2>2, <2>3
<1>7. ASSUME NEW j \in DOMAIN files' PROVE Seen(files[j].msg)'
  <2>1. PICK m : m = files[j].msg
    OBVIOUS
  <2>2. Seen(m)'
    BY <1>1, <1>3, <2>1 DEF FreshInv
  <2>3. files'[j].msg = m
    BY <1>1, <2>1
  <2> QED
    BY <2>2, <2>3 DEF Seen
<1>8. \A q \in Procs : /\ Recorded(todo'[q]) \subseteq messages'
                       /\ \A r \in Procs \ {q} : Recorded(todo'[q]) \cap Recorded(todo'[r]) = {}
  BY <1>1, <1>2 DEF FreshInv
<1>9. faults' \in Nat
  BY <1>1 DEF FreshInv
<1>10. \A q \in Procs : /\ todo'[q] \in Seq(SeenFrames')
                        /\ Recorded(todo'[q]) \subseteq messages'
                        /\ \A r \in Procs \ {q} : Recorded(todo'[q]) \cap Recorded(todo'[r]) = {}
  BY <1>6, <1>8
<1>11. \A w \in Workers : Len(todo'[w]) <= 1
  BY <1>6 DEF Procs
<1>12. \A i \in DOMAIN files' : Seen(files[i].msg)'
  BY <1>7
<1> QED
  BY <1>9, <1>10, <1>11, <1>12 DEF FreshInv, Recorded, Procs

LEMMA FreshNext ==
    ASSUME IInv, IInv', OneRequest, OneRequest', FreshInv, [Next]_vars
    PROVE  FreshInv'
<1>1. ASSUME NEW p \in Procs, Step(p) \/ WorkerStep(p) PROVE FreshInv'
  <2>1. PICK s \in Ready(todo[p]) : \E new : \E rest : GoesOn(p, s, new, rest)
    BY <1>1, StepShape
  <2>2. PICK new, rest : GoesOn(p, s, new, rest)
    BY <2>1
  <2> QED
    BY <2>2, FreshStep
<1>2. ASSUME NEW p, Quiet(p) PROVE FreshInv'
  BY <1>2, FreshOfQuiet
<1> QED
  BY <1>1, <1>2, NextCases

(***************************************************************************)
(* No dangling reference.                                                  *)
(***************************************************************************)
\* The kinds of request that share a message.
Sharers == {"upload", "copy", "complete"}

\* No client deletes or purges while another one copies or uploads.
SharersApart ==
    \A c \in Clients : \A d \in Clients \ {c} : may[c] \cap Deleters = {} \/ may[d] \cap Sharers = {}

\* The frames of p lend messages that are there, and only if p may share.
LentFrames(p) ==
    {f \in Frame : \A m \in Lends(f) :
        m = NoMessage \/ (m \in messages /\ p \in Clients /\ may[p] \cap Sharers # {})}

\* Who is about to delete a message holds the one document that has it.
Sole(lib, s) ==
    s # <<>> /\ Head(s).op = "deleteMsg" =>
        \A j \in DOMAIN lib : lib[j].msg = Head(s).msg => j = Head(Tail(s)).id

Refs ==
    /\ NoDanglingReference
    /\ \A p \in Procs : todo[p] \in Seq(LentFrames(p)) /\ Sole(files, todo[p])

RefInv == faults = 0 /\ SharersApart => Refs

LEMMA LentReady ==
    ASSUME IInv, NEW p \in Procs, NEW s \in Ready(todo[p]), todo[p] \in Seq(LentFrames(p))
    PROVE  /\ s \in Seq(LentFrames(p)) /\ s # <<>>
           /\ Head(s) \in LentFrames(p) /\ Tail(s) \in Seq(LentFrames(p))
<1>1. s \in Seq(Frame) /\ s # <<>> /\ LentFrames(p) \subseteq Frame
  BY CallTail DEF Calls, LentFrames
<1>2. ASSUME NEW l \in LentFrames(p), l.op \in EachOps, NEW k \in l.kids, NEW f \in Frame,
             f \in IterationMade(l.op, k, l.to) \/ f = Loop(l.op, l.kids \ {k}, l.to)
      PROVE  f \in LentFrames(p)
  <2>1. Lends(f) \subseteq Lends(l)
    BY <1>2, IterationNames DEF LentFrames
  <2> QED
    BY <1>2, <2>1 DEF LentFrames
<1>3. s \in Seq(LentFrames(p))
  BY <1>1, <1>2, ReadyIn
<1> QED
  BY <1>1, <1>3

\* A removal that is next stays next until its process makes it.
LEMMA RemovingHead ==
    ASSUME NEW p \in Procs, NEW i, Removing(p, i), NEW s \in Ready(todo[p])
    PROVE  s = todo[p] /\ Head(s).op = "remove" /\ Head(s).id = i
<1>1. Head(todo[p]) = At("remove", i) /\ todo[p] # <<>>
  BY DEF Removing
<1>2. Head(todo[p]).op = "remove" /\ Head(todo[p]).id = i
  BY <1>1, RemovalOf
<1> QED
  BY <1>1, <1>2, FirstCall DEF EachOps

\* What a request that shares messages sees is there.
LEMMA SharerSees ==
    ASSUME IInv, OneRequest, SharersApart, NoDanglingReference, NEW p \in Procs, NEW s \in Ready(todo[p]),
           Head(s).op \in {"copy", "copyChildren", "dedup"}
    PROVE  /\ p \in Clients /\ may[p] \cap Sharers # {}
           /\ LentMsgs \subseteq messages \cup {NoMessage}
<1>1. s # <<>> /\ Head(s).op \notin WorkerOps
  BY CallTail DEF Calls, WorkerOps
<1>2. PICK kind \in may[p] \cap Kinds : p \in Clients /\ Head(s).op \in OpsOf[kind]
  BY <1>1, CallOfKind
<1>3. kind \in Sharers
  <2>1. CASE kind \in {"trash", "restore", "move"}
    BY <1>2, <2>1 DEF OpsOf
  <2>2. CASE kind \in {"delete", "purge", "mkdir", "init"}
    BY <1>2, <2>2 DEF OpsOf
  <2> QED
    BY <2>1, <2>2 DEF Kinds, Sharers
<1>4. ASSUME NEW i \in DOMAIN files PROVE files[i].msg \in messages \cup {NoMessage}
  <2>1. CASE \E q \in Procs : Removing(q, i)
    <3>1. PICK q \in Procs : Removing(q, i)
      BY <2>1
    <3>2. q # p
      BY <3>1, RemovingHead
    <3>3. todo[q] # <<>> /\ Head(todo[q]).op = "remove"
      BY <3>1, RemovalOf DEF Removing
    <3>4. q \in Clients /\ may[q] \cap Deleters # {}
      BY <3>3, DeleterCalls
    <3> QED
      BY <1>2, <1>3, <3>2, <3>4 DEF SharersApart
  <2> QED
    BY <2>1 DEF NoDanglingReference
<1> QED
  BY <1>2, <1>3, <1>4 DEF LentMsgs

\* Deleters lend nothing.
LEMMA DeletersLendNothing ==
    ASSUME NEW kind \in Kinds, "deleteMsg" \in OpsOf[kind], NEW f \in FramesOf(OpsOf[kind])
    PROVE  Lends(f) = {}
<1>1. kind \in {"delete", "purge"}
  <2>1. CASE kind \in {"trash", "restore", "move"}
    BY <2>1 DEF OpsOf
  <2>2. CASE kind \in {"copy", "upload", "mkdir"}
    BY <2>2 DEF OpsOf
  <2>3. CASE kind \in {"init", "complete"}
    BY <2>3 DEF OpsOf
  <2> QED
    BY <2>1, <2>2, <2>3 DEF Kinds
<1>2. f.op \notin {"copyQuota", "copyDoc", "insert", "copyEach"}
  <2>1. CASE kind = "delete"
    BY <2>1 DEF OpsOf, FramesOf
  <2>2. CASE kind = "purge"
    BY <2>2 DEF OpsOf, FramesOf
  <2> QED
    BY <1>1, <2>1, <2>2
<1> QED
  BY <1>2 DEF Lends

\* No step takes away a message that someone else lends or points to.
LEMMA MessagesLeave ==
    ASSUME IInv, IInv', OneRequest, Facts, OrderOK, FreshInv, NEW p \in Procs,
           NEW s \in Ready(todo[p]), NEW new, NEW rest, GoesOn(p, s, new, rest)
    PROVE  \/ messages \subseteq messages'
           \/ Head(s).op = "deleteMsg" /\ messages' = messages \ {Head(s).msg}
<1>1. CASE Head(s).op = "send"
  <2>1. Follows(p, Head(s), new)
    BY <1>1 DEF GoesOn, Quits
  <2> QED
    BY <1>1, <2>1 DEF Follows, FollowsPlace, FollowsTrash, FollowsDelete, Plain
<1>2. CASE Head(s).op # "send"
  BY <1>2 DEF GoesOn, Effect, MessagesEffect, data
<1> QED
  BY <1>1, <1>2

LEMMA NoneDangles ==
    ASSUME IInv, IInv', OneRequest, Facts, OrderOK, FreshInv, SharersApart, Refs, NEW p \in Procs,
           NEW s \in Ready(todo[p]), NEW new, NEW rest, GoesOn(p, s, new, rest)
    PROVE  NoDanglingReference'
<1> DEFINE h == Head(s)
<1>1. todo'[p] = new \o rest /\ \A q \in Procs \ {p} : todo'[q] = todo[q]
  BY DEF GoesOn, Goto, IInv, TypeOK
<1>2. h \in LentFrames(p) /\ s # <<>>
  BY LentReady DEF Refs
<1>3. ASSUME NEW j \in DOMAIN files, files'[j].msg = files[j].msg, j \in DOMAIN files',
             messages \subseteq messages' \/ files[j].msg \in messages' \cup {NoMessage}
                \/ files[j].msg \notin messages \cup {NoMessage}
      PROVE  files'[j].msg \in messages' \cup {NoMessage} \/ \E q \in Procs : Removing(q, j)'
  <2>1. CASE files[j].msg \in messages \cup {NoMessage}
    BY <1>3, <2>1
  <2>2. CASE \E q \in Procs : Removing(q, j)
    <3>1. PICK q \in Procs : Removing(q, j)
      BY <2>2
    <3>2. CASE q = p
      <4>1. h.op = "remove" /\ h.id = j
        BY <3>1, <3>2, RemovingHead
      <4>2. files' = [i \in DOMAIN files \ {j} |-> files[i]]
        BY <4>1 DEF GoesOn, Effect, FilesEffect, Quits
      <4> QED
        BY <1>3, <4>2
    <3>3. CASE q # p
      BY <1>1, <3>1, <3>3 DEF Removing
    <3> QED
      BY <3>2, <3>3
  <2> QED
    BY <2>1, <2>2 DEF Refs, NoDanglingReference
<1>4. ASSUME NEW j \in DOMAIN files'
      PROVE  files'[j].msg \in messages' \cup {NoMessage} \/ \E q \in Procs : Removing(q, j)'
  <2>1. CASE h.op = "deleteMsg"
    <3>1. /\ UNCHANGED files /\ s = todo[p] /\ new \o rest = Tail(s)
          /\ messages' = messages \ {h.msg} \/ (MayRefuse /\ UNCHANGED messages)
          /\ Tail(s) # <<>> /\ Head(Tail(s)) = At("remove", Head(Tail(s)).id)
      BY <2>1, DeleteStep
    <3>2. CASE files[j].msg = h.msg
      <4>1. j = Head(Tail(s)).id
        <5>1. Sole(files, todo[p])
          BY DEF Refs
        <5> QED
          BY <1>2, <2>1, <3>1, <3>2, <5>1 DEF Sole
      <4>2. Removing(p, j)'
        BY <1>1, <3>1, <4>1 DEF Removing
      <4> QED
        BY <4>2
    <3>3. CASE files[j].msg # h.msg
      BY <1>3, <3>1, <3>3
    <3> QED
      BY <3>2, <3>3
  <2>2. CASE h.op # "deleteMsg"
    <3>1. messages \subseteq messages'
      BY <2>2, MessagesLeave
    <3>2. CASE j \in DOMAIN files /\ files'[j].msg = files[j].msg
      BY <1>3, <3>1, <3>2
    <3>3. CASE h.op = "record" /\ files'[j].msg = h.msg
      <4>1. Recorded(todo[p]) = {h.msg}
        <5>1. p \in Workers
          BY <3>3, ClientCalls DEF WorkerOps, Procs
        <5>2. s = todo[p] /\ s # <<>>
          BY <5>1, WorkerCalls
        <5> QED
          BY <3>3, <5>2 DEF Recorded
      <4> QED
        BY <3>1, <3>3, <4>1 DEF FreshInv
    <3>4. CASE h.op \in {"insert", "copyDoc"} /\ files'[j].msg = h.doc.msg
      <4>1. h.doc.msg \in messages \cup {NoMessage}
        BY <1>2, <3>4, DocNames DEF LentFrames
      <4> QED
        BY <3>1, <3>4, <4>1
    <3> QED
      BY <3>2, <3>3, <3>4, DocsStep
  <2> QED
    BY <2>1, <2>2
<1> QED
  BY <1>4 DEF NoDanglingReference, Removing, Procs

LEMMA LentStep ==
    ASSUME IInv, IInv', OneRequest, Facts, OrderOK, FreshInv, SharersApart, Refs, NEW p \in Procs,
           NEW s \in Ready(todo[p]), NEW new, NEW rest, GoesOn(p, s, new, rest), NEW q \in Procs
    PROVE  todo'[q] \in Seq(LentFrames(q)')
<1> DEFINE h == Head(s)
<1>1. /\ todo'[p] = new \o rest /\ new \o rest \in Seq(Frame) /\ may' = may
      /\ \A r \in Procs \ {p} : todo'[r] = todo[r]
  BY DEF GoesOn, Goto, Effect, bounds, IInv, TypeOK
<1>2. todo[q] \in Seq(LentFrames(q)) /\ LentFrames(q) \subseteq Frame
  BY DEF Refs, LentFrames
<1>3. CASE h.op = "deleteMsg"
  <2>0. p \in Clients /\ may[p] \cap Deleters # {}
    BY <1>3, DeleterCalls, LentReady DEF Refs
  <2>1. CASE q # p
    <3>1. LentFrames(q) \subseteq LentFrames(q)'
      <4>1. q \in Clients => may[q] \cap Sharers = {}
        BY <2>0, <2>1 DEF SharersApart
      <4> QED
        BY <4>1 DEF LentFrames, Frame, Kid, Doc
    <3> QED
      BY <1>1, <1>2, <2>1, <3>1, SeqWider
  <2>2. CASE q = p
    <3>1. PICK kind \in may[p] : todo[p] \in Seq(FramesOf(OpsOf[kind]))
      BY <2>0, ReadyShape DEF OneRequest
    <3>2. kind \in Kinds
      BY <2>0, <3>1, MayKinds
    <3>3. s = todo[p] /\ new \o rest = Tail(s) /\ s # <<>>
      BY <1>3, DeleteStep, ReadyShape
    <3>4. Head(s) \in FramesOf(OpsOf[kind]) /\ Tail(s) \in Seq(FramesOf(OpsOf[kind]))
      <4> DEFINE X == FramesOf(OpsOf[kind])
      <4>1. s \in Seq(X) /\ s # <<>>
        BY <3>1, <3>3
      <4> HIDE DEF X
      <4>2. Head(s) \in X /\ Tail(s) \in Seq(X)
        BY <4>1
      <4> QED
        BY <4>2 DEF X
    <3>5. \A f \in FramesOf(OpsOf[kind]) : Lends(f) = {}
      BY <1>3, <3>2, <3>4, DeletersLendNothing DEF FramesOf
    <3>6. FramesOf(OpsOf[kind]) \subseteq LentFrames(q)'
      BY <3>5 DEF LentFrames, FramesOf, Frame, Kid, Doc
    <3> QED
      BY <1>1, <2>2, <3>3, <3>4, <3>6, SeqWider
  <2> QED
    BY <2>1, <2>2
<1>4. CASE h.op # "deleteMsg"
  <2>1. messages \subseteq messages'
    BY <1>4, MessagesLeave
  <2>2. LentFrames(q) \subseteq LentFrames(q)'
    BY <1>1, <2>1 DEF LentFrames, Frame, Kid, Doc
  <2>3. CASE q # p
    BY <1>1, <1>2, <2>2, <2>3, SeqWider
  <2>4. CASE q = p
    <3>1. s \in Seq(LentFrames(p)) /\ s # <<>> /\ h \in LentFrames(p) /\ h \in Frame
      BY LentReady DEF Refs, LentFrames
    <3>2. ASSUME Follows(p, h, new), Effect(h), NEW f \in Frame, f \in Made(p, h)
          PROVE  f \in LentFrames(p)'
      <4>1. Lends(f) \subseteq Lends(h) \cup {NoMessage}
                               \cup (IF h.op \in {"copy", "copyChildren", "dedup"} THEN LentMsgs ELSE {})
        BY <3>1, <3>2, MadeNames
      <4>2. h.op \in {"copy", "copyChildren", "dedup"} =>
              /\ p \in Clients /\ may[p] \cap Sharers # {}
              /\ LentMsgs \subseteq messages \cup {NoMessage}
        BY SharerSees DEF Refs
      <4>3. f \in LentFrames(p)
        BY <3>1, <3>2, <4>1, <4>2 DEF LentFrames
      <4> QED
        BY <2>2, <2>4, <4>3
    <3>3. new \o rest \in Seq(LentFrames(p)')
      BY <1>1, <1>2, <2>2, <2>4, <3>1, <3>2, GoesOnIn
    <3> QED
      BY <1>1, <2>4, <3>3
  <2> QED
    BY <2>3, <2>4
<1> QED
  BY <1>3, <1>4

LEMMA SoleStep ==
    ASSUME IInv, IInv', OneRequest, Facts, OrderOK, OrderOK', FreshInv, SharersApart, Refs, NEW p \in Procs,
           NEW s \in Ready(todo[p]), NEW new, NEW rest, GoesOn(p, s, new, rest), NEW q \in Procs
    PROVE  Sole(files', todo'[q])
<1>0. ASSUME Head(s).op = "countRefs"
      PROVE  /\ UNCHANGED files /\ Head(Tail(s)) = At("remove", Head(s).id)
             /\ \/ new \o rest = Tail(s)
                \/ /\ Sharing(Head(s).id, Head(s).msg) = {}
                   /\ new \o rest # <<>> /\ Tail(new \o rest) = Tail(s)
                   /\ Head(new \o rest).op = "deleteMsg" /\ Head(new \o rest).msg = Head(s).msg
  <2>1. UNCHANGED <<files, messages>> /\ Head(Tail(s)) = At("remove", Head(s).id)
    BY <1>0, CountStep
  <2>2. \/ new \o rest = Tail(s) /\ Sharing(Head(s).id, Head(s).msg) # {}
        \/ /\ Sharing(Head(s).id, Head(s).msg) = {}
           /\ new \o rest # <<>> /\ Tail(new \o rest) = Tail(s)
           /\ Head(new \o rest).op = "deleteMsg" /\ Head(new \o rest).msg = Head(s).msg
    <3> SUFFICES ASSUME ~(new \o rest = Tail(s) /\ Sharing(Head(s).id, Head(s).msg) # {})
                 PROVE  /\ Sharing(Head(s).id, Head(s).msg) = {}
                        /\ new \o rest # <<>> /\ Tail(new \o rest) = Tail(s)
                        /\ Head(new \o rest).op = "deleteMsg" /\ Head(new \o rest).msg = Head(s).msg
      OBVIOUS
    <3>1. Sharing(Head(s).id, Head(s).msg) = {}
      BY <1>0, CountStep
    <3>2. new \o rest # <<>>
      BY <1>0, CountStep
    <3>3. Tail(new \o rest) = Tail(s)
      BY <1>0, CountStep
    <3>4. Head(new \o rest).op = "deleteMsg"
      BY <1>0, CountStep
    <3>5. Head(new \o rest).msg = Head(s).msg
      BY <1>0, CountStep
    <3> QED
      BY <3>1, <3>2, <3>3, <3>4, <3>5
  <2> QED
    BY <2>1, <2>2
<1> DEFINE h == Head(s)
           t == new \o rest
<1>1. todo'[p] = t /\ t \in Seq(Frame) /\ \A r \in Procs \ {p} : todo'[r] = todo[r]
  BY DEF GoesOn, Goto, IInv, TypeOK
<1>2. CASE q = p
  <2>1. CASE h.op \notin {"countRefs", "deleteMsg"}
    <3>1. Closed(files', t)
      BY <2>1, EndingStep
    <3> HIDE DEF t
    <3>2. t # <<>> => Head(t).op # "deleteMsg"
      BY <1>1, <3>1, ClosedHead
    <3> QED
      BY <1>1, <1>2, <3>2 DEF Sole
  <2>2. CASE h.op = "countRefs"
    <3>1. /\ UNCHANGED files /\ Head(Tail(s)) = At("remove", h.id)
          /\ \/ t = Tail(s)
             \/ /\ Sharing(h.id, h.msg) = {} /\ t # <<>> /\ Tail(t) = Tail(s)
                /\ Head(t).op = "deleteMsg" /\ Head(t).msg = h.msg
      BY <1>0, <2>2
    <3>2. Head(Tail(s)).op = "remove" /\ Head(Tail(s)).id = h.id
      <4>1. Head(Tail(s)) = At("remove", h.id)
        BY <3>1
      <4> HIDE DEF h, t
      <4> QED
        BY <4>1, RemovalOf
    <3> HIDE DEF t
    <3>3. CASE t = Tail(s)
      BY <1>1, <1>2, <3>2, <3>3 DEF Sole
    <3>4. CASE /\ Sharing(h.id, h.msg) = {} /\ Tail(t) = Tail(s) /\ Head(t).msg = h.msg
      BY <1>1, <1>2, <3>1, <3>2, <3>4 DEF Sole, Sharing
    <3> QED
      BY <3>1, <3>3, <3>4
  <2>3. CASE h.op = "deleteMsg"
    <3>1. t = Tail(s) /\ Head(Tail(s)) = At("remove", Head(Tail(s)).id)
      BY <2>3, DeleteStep
    <3> HIDE DEF t
    <3>2. Head(t) = At("remove", Head(t).id)
      BY <3>1
    <3>3. Head(t).op = "remove"
      <4> DEFINE x == Head(t)
      <4>1. x = At("remove", x.id)
        BY <3>2
      <4> HIDE DEF x
      <4>2. x.op = "remove"
        BY <4>1, RemovalOf
      <4> QED
        BY <4>2 DEF x
    <3> QED
      BY <1>1, <1>2, <3>3 DEF Sole
  <2> QED
    BY <2>1, <2>2, <2>3
<1>3. CASE q # p
  <2> DEFINE u == todo[q]
  <2>1. Sole(files, u) /\ todo'[q] = u /\ u \in Seq(SeenFrames) /\ Ending(files, u) /\ u \in Seq(KnownFrames)
    BY <1>1, <1>3 DEF Refs, FreshInv, OrderOK, Facts
  <2> SUFFICES ASSUME u # <<>>, Head(u).op = "deleteMsg", NEW j \in DOMAIN files', files'[j].msg = Head(u).msg
               PROVE  j = Head(Tail(u)).id
    BY <2>1 DEF Sole
  <2>2. Seen(Head(u).msg)
    <3>1. Head(u) \in SeenFrames
      <4> HIDE DEF u
      <4> QED
        BY <2>1
    <3>2. Names(Head(u)) = {Head(u).msg}
      BY DEF Names
    <3> QED
      BY <3>1, <3>2 DEF SeenFrames
  <2>3. Head(u).msg # NoMessage
    <3>1. ~Closed(files, u)
      BY <2>1, ClosedHead
    <3> QED
      BY <2>1, <3>1 DEF Ending
  <2>4. q \in Clients /\ may[q] \cap Deleters # {}
    BY DeleterCalls
  <2>5. CASE j \in DOMAIN files /\ files'[j].msg = files[j].msg
    BY <2>1, <2>5 DEF Sole
  <2>6. CASE h.op = "record" /\ files'[j].msg = h.msg
    <3>1. p \in Workers
      BY <2>6, ClientCalls DEF WorkerOps, Procs
    <3>2. s = todo[p] /\ s # <<>>
      BY <3>1, WorkerCalls
    <3>3. Recorded(todo[p]) = {h.msg}
      BY <2>6, <3>2 DEF Recorded
    <3> QED
      BY <2>2, <2>6, <3>3 DEF Seen
  <2>7. CASE h.op \in {"insert", "copyDoc"} /\ files'[j].msg = h.doc.msg
    <3>1. h \in LentFrames(p)
      BY LentReady DEF Refs
    <3>2. Lends(h) = {h.doc.msg}
      BY <2>7, DocNames
    <3>3. h.doc.msg = Head(u).msg
      BY <2>7
    <3>4. h.doc.msg # NoMessage
      BY <2>3, <3>3
    <3>5. p \in Clients /\ may[p] \cap Sharers # {}
      <4>1. Lends(h) \subseteq {NoMessage} \/ (p \in Clients /\ may[p] \cap Sharers # {})
        BY <3>1 DEF LentFrames
      <4>2. PICK m : m = h.doc.msg
        OBVIOUS
      <4> QED
        BY <3>2, <3>4, <4>1, <4>2
    <3> QED
      BY <1>3, <2>4, <3>5 DEF SharersApart
  <2> QED
    BY <2>5, <2>6, <2>7, DocsStep
<1> QED
  BY <1>2, <1>3

LEMMA RefStep ==
    ASSUME IInv, IInv', OneRequest, Facts, OrderOK, OrderOK', FreshInv, RefInv, NEW p \in Procs,
           NEW s \in Ready(todo[p]), NEW new, NEW rest, GoesOn(p, s, new, rest)
    PROVE  RefInv'
<1>1. may' = may /\ faults' = faults
  BY DEF GoesOn, Effect, bounds
<1> SUFFICES ASSUME faults = 0, SharersApart
             PROVE  Refs'
  BY <1>1 DEF RefInv, SharersApart
<1>2. Refs
  BY DEF RefInv
<1>3. NoDanglingReference'
  BY <1>2, NoneDangles
<1>4. ASSUME NEW q \in Procs PROVE todo'[q] \in Seq(LentFrames(q)') /\ Sole(files', todo'[q])
  BY <1>2, LentStep, SoleStep
<1>5. \A q \in Procs : todo'[q] \in Seq(LentFrames(q)') /\ Sole(files', todo'[q])
  BY <1>4
<1> QED
  BY <1>3, <1>5 DEF Refs, Procs, Sole

\* A request begins, and a worker takes, when it has nothing to do.
LEMMA QuietIdle ==
    ASSUME IInv, faults \in Nat, NEW p \in Procs, Quiet(p), faults' = faults
    PROVE  todo[p] = <<>>
<1>1. CASE Fail(p)
  BY <1>1 DEF Fail
<1> QED
  BY <1>1 DEF Quiet, Begin, Take

LEMMA RefOfQuiet ==
    ASSUME IInv, IInv', FreshInv, RefInv, NEW p, Quiet(p)
    PROVE  RefInv'
<1>1. /\ messages' = messages /\ may' = may
      /\ DOMAIN files' = DOMAIN files /\ \A j \in DOMAIN files : files'[j].msg = files[j].msg
      /\ faults' = faults + 1 \/ (faults' = faults /\ \A q \in Procs \ {p} : todo'[q] = todo[q])
  BY QuietShape DEF QuietData
<1> SUFFICES ASSUME faults' = 0, SharersApart
             PROVE  Refs'
  BY <1>1 DEF RefInv, SharersApart
<1>2. faults = 0 /\ faults' = faults
  BY <1>1 DEF FreshInv
<1>3. Refs /\ \A q \in Procs \ {p} : todo'[q] = todo[q]
  BY <1>1, <1>2 DEF RefInv
<1>4. p \in Procs => todo[p] = <<>>
  BY <1>2, QuietIdle
<1>5. ASSUME NEW j \in DOMAIN files'
      PROVE  files'[j].msg \in messages' \cup {NoMessage} \/ \E q \in Procs : Removing(q, j)'
  <2>1. CASE files[j].msg \in messages \cup {NoMessage}
    BY <1>1, <2>1
  <2>2. CASE \E q \in Procs : Removing(q, j)
    <3>1. PICK q \in Procs : Removing(q, j)
      BY <2>2
    <3>2. q # p
      BY <1>4, <3>1 DEF Removing
    <3> QED
      BY <1>3, <3>1, <3>2 DEF Removing
  <2> QED
    BY <1>1, <1>3, <2>1, <2>2 DEF Refs, NoDanglingReference
<1>6. ASSUME NEW q \in Procs PROVE todo'[q] \in Seq(LentFrames(q)') /\ Sole(files', todo'[q])
  <2>1. CASE q = p
    <3> DEFINE Z == {f \in Frame : Names(f) \subseteq {NoMessage} /\ Lends(f) \subseteq {NoMessage}}
    <3>1. Z \subseteq LentFrames(q)'
      BY DEF LentFrames, Frame, Kid, Doc
    <3>2. todo'[p] \in Seq(Z) /\ (todo'[p] # <<>> => Head(todo'[p]).op # "deleteMsg")
      BY <2>1, QuietNames, QuietBegins
    <3> HIDE DEF Z
    <3>3. todo'[q] \in Seq(LentFrames(q)')
      BY <2>1, <3>1, <3>2, SeqWider
    <3> QED
      BY <2>1, <3>2, <3>3 DEF Sole
  <2>2. CASE q # p
    <3>1. todo[q] \in Seq(LentFrames(q)) /\ Sole(files, todo[q]) /\ todo'[q] = todo[q]
      BY <1>3, <2>2 DEF Refs
    <3>2. LentFrames(q) \subseteq LentFrames(q)'
      BY <1>1 DEF LentFrames, Frame, Kid, Doc
    <3>3. todo'[q] \in Seq(LentFrames(q)')
      BY <3>1, <3>2, SeqWider
    <3> QED
      BY <1>1, <3>1, <3>3 DEF Sole
  <2> QED
    BY <2>1, <2>2
<1>7. NoDanglingReference'
  BY <1>5 DEF NoDanglingReference, Removing, Procs
<1>8. \A q \in Procs : todo'[q] \in Seq(LentFrames(q)') /\ Sole(files', todo'[q])
  BY <1>6
<1> QED
  BY <1>7, <1>8 DEF Refs, Procs, Sole

LEMMA RefInit == Init => RefInv
<1> SUFFICES ASSUME Init PROVE Refs
  BY DEF RefInv
<1>1. messages = {files[i].msg : i \in DOMAIN files} \ {NoMessage} /\ \A p \in Procs : todo[p] = <<>>
  BY DEF Init
<1>2. NoDanglingReference
  BY <1>1 DEF NoDanglingReference
<1> QED
  BY <1>1, <1>2, NoFrames DEF Refs, Sole

LEMMA RefNext ==
    ASSUME IInv, IInv', OneRequest, Facts, OrderOK, OrderOK', FreshInv, RefInv, [Next]_vars
    PROVE  RefInv'
<1>1. ASSUME NEW p \in Procs, Step(p) \/ WorkerStep(p) PROVE RefInv'
  <2>1. PICK s \in Ready(todo[p]) : \E new : \E rest : GoesOn(p, s, new, rest)
    BY <1>1, StepShape
  <2>2. PICK new, rest : GoesOn(p, s, new, rest)
    BY <2>1
  <2> QED
    BY <2>2, RefStep
<1>2. ASSUME NEW p, Quiet(p) PROVE RefInv'
  BY <1>2, RefOfQuiet
<1> QED
  BY <1>1, <1>2, NextCases

LEMMA RefInvariant == Spec => []RefInv
<1>1. Init => IInv /\ OneRequest /\ Facts /\ OrderOK /\ FreshInv /\ RefInv
  BY InitHolds, OneRequestInit, FactsInit, OrderInit, FreshInit, RefInit
<1>2. IInv /\ OneRequest /\ Facts /\ OrderOK /\ FreshInv /\ RefInv /\ [Next]_vars
        => (IInv /\ OneRequest /\ Facts /\ OrderOK /\ FreshInv /\ RefInv)'
  BY NextHolds, OneRequestNext, FactsNext, OrderNext, FreshNext, RefNext
<1> QED
  BY <1>1, <1>2, PTL DEF Spec

\* At every moment the message a document points to exists, or the removal of
\* the document is a process's next call, as long as no coroutine died and if
\* no client deletes or purges while another one copies or uploads:
\* permanent_delete (file_service.py:279-284) deletes a message only if no
\* other document has it, and none can get it before its own document goes.
THEOREM DeletionsDangleNothing == Spec => [](faults = 0 /\ SharersApart => NoDanglingReference)
<1>1. RefInv => (faults = 0 /\ SharersApart => NoDanglingReference)
  BY DEF RefInv, Refs
<1> QED
  BY <1>1, RefInvariant, PTL

\* The same for clients that trash, restore, delete, purge, move and make
\* folders, any number of them at the same time in the same subtree.
THEOREM SweepsDangleNothing == Spec => [](faults = 0 => SweptReferences)
<1>1. RefInv => (faults = 0 => SweptReferences)
  BY DEF RefInv, Refs, SweptReferences, SharersApart, Sharers
<1> QED
  BY <1>1, RefInvariant, PTL
=============================================================================
