---------------------------- MODULE ServerProofs ----------------------------
(***************************************************************************)
(* That nothing is used after it was closed, that the avatar is a picture  *)
(* in the channel, and that the rate limit holds: for any number of        *)
(* emails, addresses, avatars and workers, and any limits and timeouts.    *)
(***************************************************************************)
EXTENDS Server, FunctionTheorems, FiniteSetTheorems, TLAPS

LEMMA PillsType == Pills \in Seq(Emails \cup {"None"})
BY WorkersAssumption, FS_CardinalityType DEF Pills

(***************************************************************************)
(* The order of the shutdown.                                              *)
(***************************************************************************)
AfterEmail == {"sweep", "telegram", "db", "down"}

Parts ==
    /\ worker \in [Workers -> Emails \cup {"get", "ended"}]
    /\ http \in {"unset", "open", "closed"}
    /\ request \in [Avatars -> {"new", "polling", "completed", "ok", "failed", "timeout"}]
    /\ sender \in [Senders -> [op : {"get", "thumbnail", "send", "ended"}, v : Avatars \cup {"None"}]]
    /\ queue \in Seq(Emails \cup {"None"})
    /\ uploads \in Seq(Avatars)
    /\ loops \subseteq {"purge", "sweep"}

\* What each stage leaves behind stays so in the stages after it.
Ordered ==
    /\ stage # "up" => AtWork = {}
    /\ stage \in {"email", "emailWorkers"} \cup AfterEmail => "purge" \notin loops
    /\ stage \in AfterEmail => Stopped
    /\ http = "closed" => stage \in AfterEmail
    /\ stage \in {"telegram", "db", "down"} => "sweep" \notin loops
    /\ stage \in {"db", "down"} => \A w \in Senders : sender[w].op = "ended"
    /\ ~db => stage = "down"

ShutdownInv == Parts /\ Ordered

LEMMA ShutdownInit == Init => ShutdownInv
BY DEF Init, MailInit, TelegramInit, ShutdownInv, Parts, Ordered, AtWork, AfterEmail, NotSending

\* The queue and the workers of the emails: a worker that has ended stays so.
LEMMA MailKeepsOrder ==
    ASSUME ShutdownInv, UNCHANGED <<tg, load, stage, loops, db>>,
           MailStep \/ MailTick \/ \E m \in Emails : EnqueueEmail(m)
    PROVE  ShutdownInv'
<1>1. /\ worker' \in [Workers -> Emails \cup {"get", "ended"}]
      /\ queue' \in Seq(Emails \cup {"None"})
      /\ http' = http
      /\ \A w \in Workers : worker[w] = "ended" => worker'[w] = "ended"
  <2>1. CASE MailTick \/ \E m \in Emails : EnqueueEmail(m) \/ Requeue(m)
    <3>1. UNCHANGED <<worker, http>>
      BY <2>1 DEF MailTick, EnqueueEmail, Requeue
    <3>2. queue' = queue \/ \E m \in Emails : queue' = Append(queue, m)
      BY <2>1 DEF MailTick, EnqueueEmail, Requeue, Put
    <3>3. QED
      BY <3>1, <3>2 DEF ShutdownInv, Parts
  <2>2. ASSUME NEW w \in Workers, Get(w)
        PROVE  <1>1
    <3>1. queue \in Seq(Emails \cup {"None"}) /\ queue # <<>> /\ queue' = Tail(queue)
      BY <2>2 DEF Get, ShutdownInv, Parts
    <3>2. Head(queue) \in Emails \cup {"None"} /\ queue' \in Seq(Emails \cup {"None"})
      BY <3>1
    <3>3. worker' = [worker EXCEPT ![w] = worker'[w]] /\ worker'[w] \in Emails \cup {"get", "ended"}
      BY <2>2, <3>2 DEF Get, Loop, ShutdownInv, Parts
    <3>4. worker[w] = "get" /\ http' = http
      BY <2>2 DEF Get
    <3>5. QED
      BY <3>2, <3>3, <3>4 DEF ShutdownInv, Parts
  <2>3. ASSUME NEW w \in Workers, Sent(w) \/ NotSent(w)
        PROVE  <1>1
    BY <2>3, EmailsAssumption DEF Sent, NotSent, Loop, ShutdownInv, Parts
  <2>4. QED
    BY <2>1, <2>2, <2>3 DEF MailStep
<1>2. QED
  BY <1>1 DEF ShutdownInv, Parts, Ordered, AtWork, Stopped, tg

\* Avatars: no request comes in during the shutdown, and a Telegram worker
\* that has ended stays so.
LEMMA AvatarsKeepOrder ==
    ASSUME ShutdownInv, UNCHANGED <<mail, load, stage, loops, db>>,
           \/ stage = "up" /\ (DeleteAvatar \/ \E v \in Avatars : UploadAvatar(v))
           \/ \E v \in Avatars : RequestStep(v) \/ ForgetTask(v)
           \/ \E w \in Senders : SenderStep(w)
    PROVE  ShutdownInv'
<1>1. UNCHANGED <<worker, http, queue>>
  BY DEF mail
<1>2. /\ request' \in [Avatars -> {"new", "polling", "completed", "ok", "failed", "timeout"}]
      /\ stage # "up" => AtWork' \subseteq AtWork
  <2>1. CASE stage = "up" /\ (DeleteAvatar \/ \E v \in Avatars : UploadAvatar(v))
    BY <2>1 DEF DeleteAvatar, UploadAvatar, ShutdownInv, Parts
  <2>2. ASSUME NEW v \in Avatars, RequestStep(v) \/ ForgetTask(v)
        PROVE  <1>2
    BY <2>2 DEF RequestStep, PollTask, SetAvatar, ForgetTask, Answer, ShutdownInv, Parts, AtWork
  <2>3. ASSUME NEW w \in Senders, SenderStep(w)
        PROVE  <1>2
    BY <2>3 DEF SenderStep, TakeTask, OpenTemp, SendCompletes, SendFails, TaskDone, ShutdownInv, Parts, AtWork
  <2>4. QED
    BY <2>1, <2>2, <2>3
<1>3. /\ uploads' \in Seq(Avatars)
      /\ sender' \in [Senders -> [op : {"get", "thumbnail", "send", "ended"}, v : Avatars \cup {"None"}]]
      /\ \A w \in Senders : sender[w].op = "ended" => sender'[w].op = "ended"
  <2>1. CASE UNCHANGED <<uploads, sender>>
    BY <2>1 DEF ShutdownInv, Parts
  <2>2. ASSUME NEW v \in Avatars, UploadAvatar(v)
        PROVE  <1>3
    BY <2>2 DEF UploadAvatar, ShutdownInv, Parts
  <2>3. ASSUME NEW w \in Senders, TakeTask(w)
        PROVE  <1>3
    <3>1. uploads \in Seq(Avatars) /\ uploads # <<>> /\ uploads' = Tail(uploads)
      BY <2>3 DEF TakeTask, ShutdownInv, Parts
    <3>2. Head(uploads) \in Avatars /\ uploads' \in Seq(Avatars)
      BY <3>1
    <3>3. QED
      BY <2>3, <3>2 DEF TakeTask, ShutdownInv, Parts
  <2>4. ASSUME NEW w \in Senders, OpenTemp(w)
        PROVE  <1>3
    BY <2>4 DEF OpenTemp, ShutdownInv, Parts
  <2>5. ASSUME NEW w \in Senders, SendCompletes(w) \/ SendFails(w)
        PROVE  <1>3
    <3>1. sender[w].op # "ended" /\ uploads' = uploads /\ sender' = [sender EXCEPT ![w] = NotSending]
      BY <2>5 DEF SendCompletes, SendFails, TaskDone
    <3>2. QED
      BY <3>1 DEF NotSending, ShutdownInv, Parts
  <2>6. ASSUME NEW v \in Avatars, RequestStep(v) \/ ForgetTask(v)
        PROVE  UNCHANGED <<uploads, sender>>
    BY <2>6 DEF RequestStep, PollTask, SetAvatar, ForgetTask, Answer
  <2>7. DeleteAvatar => UNCHANGED <<uploads, sender>>
    BY DEF DeleteAvatar
  <2>8. QED
    BY <2>1, <2>2, <2>3, <2>4, <2>5, <2>6, <2>7 DEF SenderStep
<1>4. QED
  BY <1>1, <1>2, <1>3 DEF ShutdownInv, Parts, Ordered, Stopped

\* The shutdown itself: a stage is only left when its service has stopped.
LEMMA StagesKeepOrder ==
    ASSUME ShutdownInv, Shutdown \/ Lifespan
    PROVE  ShutdownInv'
<1>1. CASE Shutdown
  BY <1>1 DEF Shutdown, ShutdownInv, Parts, Ordered, AtWork, AfterEmail, Stopped, mail, tg
<1>2. CASE StopLoop("purge", "email") \/ StopLoop("sweep", "telegram")
  BY <1>2 DEF StopLoop, ShutdownInv, Parts, Ordered, AtWork, AfterEmail, Stopped, mail, tg
<1>3. CASE StopEmail
  BY <1>3, PillsType DEF StopEmail, StopWorkers, ShutdownInv, Parts, Ordered, AtWork, AfterEmail, Stopped, tg
<1>4. CASE DisconnectEmail
  BY <1>4 DEF DisconnectEmail, Disconnect, ShutdownInv, Parts, Ordered, AtWork, AfterEmail, Stopped, tg
<1>5. CASE StopTelegram
  BY <1>5 DEF StopTelegram, StopSenders, ShutdownInv, Parts, Ordered, AtWork, AfterEmail, Stopped, mail
<1>6. CASE DisconnectDb
  BY <1>6 DEF DisconnectDb, ShutdownInv, Parts, Ordered, AtWork, AfterEmail, Stopped, mail, tg
<1>7. QED
  BY <1>1, <1>2, <1>3, <1>4, <1>5, <1>6 DEF Lifespan

LEMMA ShutdownNext == ShutdownInv /\ [Next]_vars => ShutdownInv'
<1> SUFFICES ASSUME ShutdownInv, [Next]_vars
             PROVE  ShutdownInv'
  OBVIOUS
<1>1. CASE Next
  BY <1>1, MailKeepsOrder, AvatarsKeepOrder, StagesKeepOrder DEF Next, Request
<1>2. CASE UNCHANGED vars
  BY <1>2 DEF vars, mail, tg, ShutdownInv, Parts, Ordered, AtWork, Stopped
<1>3. QED
  BY <1>1, <1>2

\* lifespan closes nothing that is still used: for any number of workers, and
\* whatever is in the queues when it begins.
THEOREM NothingClosedIsUsed == Spec => []ClosedUnused
<1>1. ShutdownInv => ClosedUnused
  BY DEF ShutdownInv, Parts, Ordered, AfterEmail, Stopped, ClosedUnused
<1>2. Spec => []ShutdownInv
  BY ShutdownInit, ShutdownNext, PTL DEF Spec
<1>3. QED
  BY <1>1, <1>2, PTL

(***************************************************************************)
(* The avatar.                                                             *)
(***************************************************************************)
AvatarInv ==
    /\ task \in [Avatars -> {"none", "queued", "processing", "completed", "failed"}]
    /\ \A v \in Avatars : task[v] = "completed" \/ request[v] = "completed" => v \in messages
    /\ avatar \in Avatars \cup {"None"}
    /\ AvatarStored

LEMMA AvatarNext == AvatarInv /\ ShutdownInv /\ [Next]_vars => AvatarInv'
<1> SUFFICES ASSUME AvatarInv, ShutdownInv, [Next]_vars
             PROVE  AvatarInv'
  OBVIOUS
<1> USE AvatarsAssumption
<1>1. /\ request \in [Avatars -> {"new", "polling", "completed", "ok", "failed", "timeout"}]
      /\ sender \in [Senders -> [op : {"get", "thumbnail", "send", "ended"}, v : Avatars \cup {"None"}]]
      /\ uploads \in Seq(Avatars)
  BY DEF ShutdownInv, Parts
<1>2. CASE UNCHANGED <<task, request, messages, avatar>>
  BY <1>2 DEF AvatarInv, AvatarStored
<1>3. CASE DeleteAvatar
  BY <1>3 DEF DeleteAvatar, AvatarInv, AvatarStored
<1>4. ASSUME NEW v \in Avatars, UploadAvatar(v)
      PROVE  AvatarInv'
  BY <1>1, <1>4 DEF UploadAvatar, AvatarInv, AvatarStored
<1>5. ASSUME NEW v \in Avatars, RequestStep(v)
      PROVE  AvatarInv'
  <2>1. CASE PollTask(v)
    <3>1. request[v] = "polling" /\ UNCHANGED <<task, messages, avatar>>
      BY <2>1 DEF PollTask
    <3>2. \/ request' = request
          \/ \E a \in {"failed", "timeout"} : request' = [request EXCEPT ![v] = a]
          \/ task[v] = "completed" /\ request' = [request EXCEPT ![v] = "completed"]
      BY <2>1 DEF PollTask, Answer
    <3>3. QED
      <4>1. \A u \in Avatars : request'[u] = "completed" => request[u] = "completed" \/ u \in messages
        BY <1>1, <3>1, <3>2 DEF AvatarInv
      <4>2. avatar # "None" => request'[avatar] = "ok"
        BY <1>1, <3>1, <3>2 DEF AvatarInv, AvatarStored
      <4>3. QED
        BY <3>1, <4>1, <4>2 DEF AvatarInv, AvatarStored
  <2>2. CASE SetAvatar(v)
    BY <1>1, <2>2 DEF SetAvatar, Answer, AvatarInv, AvatarStored
  <2>3. QED
    BY <1>5, <2>1, <2>2 DEF RequestStep
<1>6. ASSUME NEW w \in Senders, TakeTask(w)
      PROVE  AvatarInv'
  BY <1>1, <1>6 DEF TakeTask, AvatarInv, AvatarStored
<1>7. ASSUME NEW w \in Senders, SendCompletes(w)
      PROVE  AvatarInv'
  BY <1>1, <1>7 DEF SendCompletes, TaskDone, AvatarInv, AvatarStored
<1>8. ASSUME NEW w \in Senders, SendFails(w)
      PROVE  AvatarInv'
  BY <1>1, <1>8 DEF SendFails, TaskDone, AvatarInv, AvatarStored
<1>9. \/ UNCHANGED <<task, request, messages, avatar>>
      \/ DeleteAvatar
      \/ \E v \in Avatars : UploadAvatar(v) \/ RequestStep(v)
      \/ \E w \in Senders : TakeTask(w) \/ SendCompletes(w) \/ SendFails(w)
  <2>1. \/ UNCHANGED tg
        \/ Request
        \/ \E v \in Avatars : RequestStep(v) \/ ForgetTask(v)
        \/ \E w \in Senders : SenderStep(w)
        \/ StopTelegram
    BY DEF Next, Shutdown, Lifespan, StopLoop, StopEmail, DisconnectEmail, DisconnectDb, vars
  <2>2. UNCHANGED tg \/ StopTelegram => UNCHANGED <<task, request, messages, avatar>>
    BY DEF tg, StopTelegram, StopSenders
  <2>3. ASSUME NEW v \in Avatars, ForgetTask(v)
        PROVE  UNCHANGED <<task, request, messages, avatar>>
    BY <2>3 DEF ForgetTask
  <2>4. ASSUME NEW w \in Senders, OpenTemp(w)
        PROVE  UNCHANGED <<task, request, messages, avatar>>
    BY <2>4 DEF OpenTemp
  <2>5. Request => UNCHANGED tg \/ DeleteAvatar \/ \E v \in Avatars : UploadAvatar(v)
    BY DEF Request
  <2>6. QED
    BY <2>1, <2>2, <2>3, <2>4, <2>5 DEF SenderStep
<1>10. QED
  BY <1>2, <1>3, <1>4, <1>5, <1>6, <1>7, <1>8, <1>9

\* The avatar is a picture that is in the channel and whose request was
\* answered with success, whatever Telegram, timeouts and the cache of tasks do.
THEOREM AvatarIsStored == Spec => []AvatarStored
<1>1. Init => AvatarInv
  BY DEF Init, TelegramInit, AvatarInv, AvatarStored
<1>2. AvatarInv => AvatarStored
  BY DEF AvatarInv
<1>3. QED
  BY <1>1, <1>2, ShutdownInit, ShutdownNext, AvatarNext, PTL DEF Spec

(***************************************************************************)
(* The rate limit.                                                         *)
(***************************************************************************)
\* The workers that send to a, and the emails a got within RateLimit.
Sending(a) == {w \in Workers : worker[w] \in Emails /\ To[worker[w]] = a}
Recent(a) == {m \in Emails : To[m] = a /\ since[m] > 0}

Bounded(a) ==
    /\ IsFiniteSet(Recent(a))
    /\ Cardinality(Sending(a)) + Cardinality(Recent(a)) <= Cardinality(Workers)

\* The entry of an address outlasts what it stands for, and a worker that has
\* passed the check counts like an email already sent: without it, the number
\* of emails says nothing about what the workers still send.
LimitInv ==
    /\ limit \in [Addresses -> 0 .. RateLimit]
    /\ since \in [Emails -> Nat]
    /\ \A m \in Emails : since[m] <= limit[To[m]]
    /\ \A a \in Addresses : Bounded(a)

LEMMA SendingFinite ==
    ASSUME NEW a
    PROVE  IsFiniteSet(Sending(a)) /\ Cardinality(Sending(a)) \in Nat /\ Cardinality(Sending(a)) <= Cardinality(Workers)
BY FS_Subset, FS_CardinalityType, WorkersAssumption DEF Sending

\* Fewer workers and fewer emails keep the bound.
LEMMA Shrinks ==
    ASSUME NEW a, Bounded(a), Sending(a)' \subseteq Sending(a), Recent(a)' \subseteq Recent(a)
    PROVE  Bounded(a)'
<1>1. /\ IsFiniteSet(Recent(a)') /\ Cardinality(Recent(a)') <= Cardinality(Recent(a))
      /\ IsFiniteSet(Sending(a)') /\ Cardinality(Sending(a)') <= Cardinality(Sending(a))
  BY SendingFinite, FS_Subset DEF Bounded
<1>2. /\ Cardinality(Recent(a)) \in Nat /\ Cardinality(Recent(a)') \in Nat
      /\ Cardinality(Sending(a)) \in Nat /\ Cardinality(Sending(a)') \in Nat
      /\ Cardinality(Workers) \in Nat
  BY <1>1, SendingFinite, FS_CardinalityType, WorkersAssumption DEF Bounded
<1>3. QED
  BY <1>1, <1>2 DEF Bounded

\* A worker passes the check when nothing was sent within RateLimit.
LEMMA GetKeepsLimit ==
    ASSUME LimitInv, ShutdownInv, NEW w \in Workers, Get(w)
    PROVE  LimitInv'
<1>1. queue \in Seq(Emails \cup {"None"}) /\ queue # <<>> /\ worker \in [Workers -> Emails \cup {"get", "ended"}]
  BY DEF Get, ShutdownInv, Parts
<1>2. UNCHANGED <<limit, since>>
  BY DEF Get
<1>3. Head(queue) \in Emails \cup {"None"}
  BY <1>1
<1>4. ASSUME NEW a \in Addresses
      PROVE  Bounded(a)'
  <2>1. Recent(a)' = Recent(a)
    BY <1>2 DEF Recent
  <2>2. CASE worker'[w] \in {"get", "ended"} /\ worker' = [worker EXCEPT ![w] = worker'[w]]
    <3>1. Sending(a)' \subseteq Sending(a)
      BY <1>1, <2>2, EmailsAssumption DEF Sending
    <3>2. QED
      BY <2>1, <3>1, Shrinks DEF LimitInv
  <2>3. CASE /\ Head(queue) \in Emails /\ ~Limited(To[Head(queue)])
             /\ worker' = [worker EXCEPT ![w] = Head(queue)]
    <3>1. CASE To[Head(queue)] = a
      <4>1. limit[a] = 0
        BY <2>3, <3>1 DEF Limited, LimitInv
      <4>2. Recent(a) = {}
        BY <4>1 DEF Recent, LimitInv
      <4>3. Cardinality(Sending(a)') <= Cardinality(Workers) /\ Cardinality(Sending(a)') \in Nat
        BY FS_Subset, FS_CardinalityType, WorkersAssumption DEF Sending
      <4>4. QED
        BY <2>1, <4>2, <4>3, FS_EmptySet DEF Bounded
    <3>2. CASE To[Head(queue)] # a
      <4>1. Sending(a)' \subseteq Sending(a)
        BY <1>1, <2>3, <3>2 DEF Sending
      <4>2. QED
        BY <2>1, <4>1, Shrinks DEF LimitInv
    <3>3. QED
      BY <3>1, <3>2
  <2>4. QED
    BY <1>1, <1>3, <2>2, <2>3 DEF Get, Loop
<1>5. QED
  BY <1>2, <1>4 DEF LimitInv

\* A worker that has sent its email no longer counts, the email does.
LEMMA SentKeepsLimit ==
    ASSUME LimitInv, ShutdownInv, NEW w \in Workers, Sent(w)
    PROVE  LimitInv'
<1> DEFINE m == worker[w]
<1>1. /\ m \in Emails /\ To[m] \in Addresses
      /\ limit' = [limit EXCEPT ![To[m]] = RateLimit]
      /\ since' = [since EXCEPT ![m] = RateLimit]
      /\ worker' = [worker EXCEPT ![w] = worker'[w]] /\ worker'[w] \in {"get", "ended"}
      /\ worker \in [Workers -> Emails \cup {"get", "ended"}]
  BY ToAssumption DEF Sent, Loop, ShutdownInv, Parts
<1>2. limit' \in [Addresses -> 0 .. RateLimit] /\ since' \in [Emails -> Nat]
  BY <1>1, LimitsAssumption DEF LimitInv
<1>3. ASSUME NEW n \in Emails
      PROVE  since'[n] <= limit'[To[n]]
  BY <1>1, LimitsAssumption, ToAssumption DEF LimitInv
<1>4. ASSUME NEW a \in Addresses
      PROVE  Bounded(a)'
  <2>1. CASE To[m] # a
    <3>1. Sending(a)' \subseteq Sending(a) /\ Recent(a)' \subseteq Recent(a)
      BY <1>1, <2>1, EmailsAssumption DEF Sending, Recent, LimitInv
    <3>2. QED
      BY <3>1, Shrinks DEF LimitInv
  <2>2. CASE To[m] = a
    <3>1. w \in Sending(a) /\ Sending(a)' = Sending(a) \ {w}
      BY <1>1, <2>2, EmailsAssumption DEF Sending
    <3>2. Recent(a)' = Recent(a) \cup {m}
      BY <1>1, <2>2, LimitsAssumption DEF Recent, LimitInv
    <3>3. Cardinality(Sending(a)') = Cardinality(Sending(a)) - 1
      BY <3>1, SendingFinite, FS_RemoveElement
    <3>4. /\ IsFiniteSet(Recent(a)') /\ Cardinality(Recent(a)) \in Nat
          /\ Cardinality(Recent(a)') \in Nat /\ Cardinality(Recent(a)') <= Cardinality(Recent(a)) + 1
      <4>1. IsFiniteSet(Recent(a))
        BY DEF LimitInv, Bounded
      <4>2. QED
        <5>1. IsFiniteSet(Recent(a) \cup {m}) /\ Cardinality(Recent(a)) \in Nat
          BY <4>1, FS_AddElement, FS_CardinalityType
        <5>2. Cardinality(Recent(a) \cup {m}) \in {Cardinality(Recent(a)), Cardinality(Recent(a)) + 1}
          BY <4>1, FS_AddElement
        <5>3. QED
          BY <3>2, <5>1, <5>2
    <3>5. QED
      BY <3>3, <3>4, SendingFinite, FS_CardinalityType, WorkersAssumption DEF LimitInv, Bounded
  <2>3. QED
    BY <2>1, <2>2
<1>5. QED
  BY <1>2, <1>3, <1>4 DEF LimitInv

LEMMA TickKeepsLimit == LimitInv /\ MailTick => LimitInv'
<1> SUFFICES ASSUME LimitInv, MailTick
             PROVE  LimitInv'
  OBVIOUS
<1>1. /\ limit' = [a \in Addresses |-> Down(limit[a])]
      /\ since' = [m \in Emails |-> Down(since[m])]
      /\ worker' = worker
  BY DEF MailTick
<1>2. limit' \in [Addresses -> 0 .. RateLimit] /\ since' \in [Emails -> Nat]
  BY <1>1, LimitsAssumption DEF LimitInv, Down
<1>3. ASSUME NEW m \in Emails
      PROVE  since'[m] <= limit'[To[m]]
  BY <1>1, ToAssumption DEF LimitInv, Down
<1>4. ASSUME NEW a \in Addresses
      PROVE  Bounded(a)'
  <2>1. Recent(a)' \subseteq Recent(a) /\ Sending(a)' \subseteq Sending(a)
    BY <1>1 DEF Recent, Sending, LimitInv, Down
  <2>2. QED
    BY <2>1, Shrinks DEF LimitInv
<1>5. QED
  BY <1>2, <1>3, <1>4 DEF LimitInv

LEMMA LimitNext == LimitInv /\ ShutdownInv /\ [Next]_vars => LimitInv'
<1> SUFFICES ASSUME LimitInv, ShutdownInv, [Next]_vars
             PROVE  LimitInv'
  OBVIOUS
<1>1. CASE UNCHANGED <<limit, since, worker>>
  BY <1>1 DEF LimitInv, Bounded, Sending, Recent
<1>2. ASSUME NEW w \in Workers, NotSent(w)
      PROVE  LimitInv'
  <2>1. /\ UNCHANGED <<limit, since>>
        /\ worker' = [worker EXCEPT ![w] = worker'[w]] /\ worker'[w] \in {"get", "ended"}
    BY <1>2 DEF NotSent, Loop, ShutdownInv, Parts
  <2>2. ASSUME NEW a \in Addresses
        PROVE  Bounded(a)'
    <3>1. Recent(a)' \subseteq Recent(a) /\ Sending(a)' \subseteq Sending(a)
      BY <2>1, EmailsAssumption DEF Recent, Sending, ShutdownInv, Parts
    <3>2. QED
      BY <3>1, Shrinks DEF LimitInv
  <2>3. QED
    BY <2>1, <2>2 DEF LimitInv
<1>3. \/ UNCHANGED <<limit, since, worker>>
      \/ MailTick
      \/ \E w \in Workers : Get(w) \/ Sent(w) \/ NotSent(w)
  BY DEF Next, Request, MailStep, EnqueueEmail, Requeue, Shutdown, Lifespan, StopLoop, StopEmail, StopWorkers,
         DisconnectEmail, Disconnect, StopTelegram, DisconnectDb, vars, mail
<1>4. QED
  BY <1>1, <1>2, <1>3, GetKeepsLimit, SentKeepsLimit, TickKeepsLimit

\* Within RateLimit an address gets at most one email per worker: for any
\* number of workers, emails and addresses, and through retries and requeues.
THEOREM RateIsLimited == Spec => []RateLimited
<1>1. Init => LimitInv
  <2> SUFFICES ASSUME Init
               PROVE  LimitInv
    OBVIOUS
  <2>1. limit \in [Addresses -> 0 .. RateLimit] /\ since \in [Emails -> Nat] /\ \A m \in Emails : since[m] <= limit[To[m]]
    BY ToAssumption, LimitsAssumption DEF Init, MailInit
  <2>2. ASSUME NEW a \in Addresses
        PROVE  Sending(a) = {} /\ Recent(a) = {}
    BY EmailsAssumption DEF Init, MailInit, Sending, Recent
  <2>3. ASSUME NEW a \in Addresses
        PROVE  Bounded(a)
    <3>1. Sending(a) = {} /\ Recent(a) = {}
      BY <2>2
    <3>2. Cardinality({}) = 0 /\ IsFiniteSet({}) /\ Cardinality(Workers) \in Nat
      BY FS_EmptySet, FS_CardinalityType, WorkersAssumption
    <3>3. QED
      BY <3>1, <3>2 DEF Bounded
  <2>4. QED
    BY <2>1, <2>3 DEF LimitInv
<1>2. LimitInv => RateLimited
  <2> SUFFICES ASSUME LimitInv, NEW a \in Addresses
               PROVE  Cardinality({m \in Emails : To[m] = a /\ since[m] > 0}) <= Cardinality(Workers)
    BY DEF RateLimited
  <2>1. Bounded(a)
    BY DEF LimitInv
  <2>2. Cardinality(Recent(a)) \in Nat /\ Cardinality(Sending(a)) \in Nat /\ Cardinality(Workers) \in Nat
    BY <2>1, SendingFinite, FS_CardinalityType, WorkersAssumption DEF Bounded
  <2>3. QED
    BY <2>1, <2>2 DEF Bounded, Recent
<1>3. QED
  BY <1>1, <1>2, ShutdownInit, ShutdownNext, LimitNext, PTL DEF Spec

(***************************************************************************)
(* Where an email is.                                                      *)
(***************************************************************************)
Queued(q, m) == {i \in DOMAIN q : q[i] = m}
Held(m) == {w \in Workers : worker[w] = m}
Slept(m) == IF delay[m] = NoDelay THEN 0 ELSE 1
One(condition) == IF condition THEN 1 ELSE 0

Placed(m) == Cardinality(Queued(queue, m)) + Cardinality(Held(m)) + Slept(m)

TaskInv ==
    /\ delay \in [Emails -> Nat \cup {NoDelay}]
    /\ retries \in [Emails -> 0 .. MaxRetries]
    /\ outcome \in [Emails -> {"new", "accepted", "sent", "dropped"}]
    /\ \A m \in Emails : Placed(m) = One(outcome[m] = "accepted")

LEMMA QueuedFinite ==
    ASSUME NEW S, NEW q \in Seq(S), NEW m
    PROVE  IsFiniteSet(Queued(q, m)) /\ Cardinality(Queued(q, m)) \in Nat
<1>1. IsFiniteSet(1 .. Len(q))
  BY FS_Interval
<1>2. Queued(q, m) \in SUBSET (1 .. Len(q))
  BY DEF Queued
<1>3. QED
  BY <1>1, <1>2, FS_Subset, FS_CardinalityType

\* put() adds one place.
LEMMA QueuedPut ==
    ASSUME NEW S, NEW q \in Seq(S), NEW e \in S, NEW m
    PROVE  Cardinality(Queued(Append(q, e), m)) = Cardinality(Queued(q, m)) + One(e = m)
<1>1. Len(q) + 1 \notin Queued(q, m)
  BY DEF Queued
<1>2. CASE e = m
  <2>1. Queued(Append(q, e), m) = Queued(q, m) \cup {Len(q) + 1}
    BY <1>2 DEF Queued
  <2>2. QED
    BY <1>1, <1>2, <2>1, QueuedFinite, FS_AddElement DEF One
<1>3. CASE e # m
  <2>1. Queued(Append(q, e), m) = Queued(q, m)
    BY <1>3 DEF Queued
  <2>2. QED
    BY <1>3, <2>1, QueuedFinite DEF One
<1>4. QED
  BY <1>2, <1>3

\* get() takes the place of the head.
LEMMA QueuedGet ==
    ASSUME NEW S, NEW q \in Seq(S), q # <<>>, NEW m
    PROVE  Cardinality(Queued(q, m)) = Cardinality(Queued(Tail(q), m)) + One(Head(q) = m)
<1> DEFINE Rest == Queued(q, m) \ {1}
           Next1 == [i \in Queued(Tail(q), m) |-> i + 1]
<1>1. Tail(q) \in Seq(S) /\ Len(Tail(q)) = Len(q) - 1 /\ Len(q) \in Nat \ {0}
      /\ \A i \in 1 .. Len(q) - 1 : Tail(q)[i] = q[i + 1]
  OBVIOUS
<1>2. Next1 \in Bijection(Queued(Tail(q), m), Rest)
  <2>1. Next1 \in [Queued(Tail(q), m) -> Rest]
    BY <1>1 DEF Queued
  <2>2. \A i, j \in Queued(Tail(q), m) : Next1[i] = Next1[j] => i = j
    BY <1>1 DEF Queued
  <2>3. ASSUME NEW k \in Rest
        PROVE  \E i \in Queued(Tail(q), m) : Next1[i] = k
    <3>1. k - 1 \in Queued(Tail(q), m)
      BY <1>1 DEF Queued
    <3>2. Next1[k - 1] = k
      BY <1>1, <3>1 DEF Queued
    <3>3. QED
      BY <3>1, <3>2
  <2>4. QED
    <3> HIDE DEF Next1, Rest
    <3> QED
      BY <2>1, <2>2, <2>3, Fun_IsBij
<1>3. Cardinality(Rest) = Cardinality(Queued(Tail(q), m))
  <2>1. ExistsBijection(Queued(Tail(q), m), Rest)
    BY <1>2 DEF ExistsBijection
  <2>2. IsFiniteSet(Queued(Tail(q), m))
    BY <1>1, QueuedFinite
  <2> HIDE DEF Next1, Rest
  <2>3. QED
    BY <2>1, <2>2, FS_Bijection
<1>4. Head(q) = m <=> 1 \in Queued(q, m)
  BY <1>1 DEF Queued
<1>5. IsFiniteSet(Queued(q, m)) /\ Cardinality(Queued(q, m)) \in Nat
  BY QueuedFinite
<1>6. Cardinality(Rest) = IF 1 \in Queued(q, m) THEN Cardinality(Queued(q, m)) - 1 ELSE Cardinality(Queued(q, m))
  BY <1>5, FS_RemoveElement
<1>7. QED
  BY <1>3, <1>4, <1>5, <1>6 DEF One

\* One worker moves on from an email, or to one.
LEMMA HeldMoves ==
    ASSUME ShutdownInv, NEW w \in Workers, worker' = [worker EXCEPT ![w] = worker'[w]], NEW m
    PROVE  /\ Cardinality(Held(m)) \in Nat /\ Cardinality(Held(m)') \in Nat
           /\ Cardinality(Held(m)') = Cardinality(Held(m)) - One(worker[w] = m) + One(worker'[w] = m)
<1>1. IsFiniteSet(Held(m)) /\ IsFiniteSet(Held(m)')
  BY FS_Subset, WorkersAssumption DEF Held
<1>2. Cardinality(Held(m)) \in Nat /\ Cardinality(Held(m)') \in Nat
  BY <1>1, FS_CardinalityType
<1>3. worker[w] = m <=> w \in Held(m)
  BY DEF Held
<1>4. worker \in [Workers -> Emails \cup {"get", "ended"}]
  BY DEF ShutdownInv, Parts
<1>5. CASE worker'[w] = m
  <2>1. Held(m)' = Held(m) \cup {w}
    BY <1>4, <1>5 DEF Held
  <2>2. QED
    BY <1>1, <1>2, <1>3, <1>5, <2>1, FS_AddElement DEF One
<1>6. CASE worker'[w] # m
  <2>1. Held(m)' = Held(m) \ {w}
    BY <1>4, <1>6 DEF Held
  <2>2. QED
    BY <1>1, <1>2, <1>3, <1>6, <2>1, FS_RemoveElement DEF One
<1>7. QED
  BY <1>5, <1>6

\* The parts of Placed are numbers.
LEMMA PlacedIsNat ==
    ASSUME ShutdownInv, NEW m
    PROVE  /\ Cardinality(Queued(queue, m)) \in Nat /\ Cardinality(Held(m)) \in Nat
           /\ Slept(m) \in {0, 1}
BY QueuedFinite, FS_Subset, FS_CardinalityType, WorkersAssumption DEF ShutdownInv, Parts, Held, Slept

\* An email that stays where it is.
LEMMA Untouched ==
    ASSUME TaskInv, UNCHANGED <<worker, outcome, delay, retries>>, queue' = queue \/ queue' = queue \o Pills,
           ShutdownInv
    PROVE  TaskInv'
<1>1. ASSUME NEW m \in Emails
      PROVE  Queued(queue', m) = Queued(queue, m)
  <2>1. CASE queue' = queue
    BY <2>1
  <2>2. CASE queue' = queue \o Pills
    <3>1. Pills \in Seq({"None"}) /\ queue \in Seq(Emails \cup {"None"}) /\ m # "None"
      BY EmailsAssumption, WorkersAssumption, FS_CardinalityType DEF ShutdownInv, Parts, Pills
    <3>2. DOMAIN queue' = 1 .. Len(queue) + Len(Pills)
      BY <2>2, <3>1
    <3>3. \A i \in 1 .. Len(queue) + Len(Pills) : queue'[i] = IF i <= Len(queue) THEN queue[i] ELSE "None"
      BY <2>2, <3>1
    <3>4. QED
      BY <3>1, <3>2, <3>3 DEF Queued
  <2>3. QED
    BY <2>1, <2>2
<1>2. QED
  BY <1>1 DEF TaskInv, Placed, Held, Slept

LEMMA EnqueuePlaces ==
    ASSUME TaskInv, ShutdownInv, NEW n \in Emails, EnqueueEmail(n)
    PROVE  TaskInv'
<1>1. /\ outcome[n] = "new" /\ outcome' = [outcome EXCEPT ![n] = "accepted"]
      /\ queue' = Append(queue, n) /\ UNCHANGED <<worker, delay, retries>>
      /\ queue \in Seq(Emails \cup {"None"})
  BY DEF EnqueueEmail, Put, ShutdownInv, Parts
<1>2. ASSUME NEW m \in Emails
      PROVE  Placed(m)' = One(outcome'[m] = "accepted")
  <2>1. Cardinality(Queued(queue', m)) = Cardinality(Queued(queue, m)) + One(n = m)
    BY <1>1, QueuedPut
  <2>2. Held(m)' = Held(m) /\ Slept(m)' = Slept(m)
    BY <1>1 DEF Held, Slept
  <2>3. outcome'[m] = IF n = m THEN "accepted" ELSE outcome[m]
    BY <1>1 DEF TaskInv
  <2>4. Placed(m)' = Placed(m) + One(n = m) /\ Placed(m) = One(outcome[m] = "accepted")
    BY <2>1, <2>2, PlacedIsNat DEF Placed, TaskInv, One
  <2>5. QED
    BY <1>1, <2>3, <2>4 DEF One
<1>3. QED
  BY <1>1, <1>2 DEF TaskInv

LEMMA RequeuePlaces ==
    ASSUME TaskInv, ShutdownInv, NEW n \in Emails, Requeue(n)
    PROVE  TaskInv'
<1>1. /\ delay[n] = 0 /\ delay' = [delay EXCEPT ![n] = NoDelay]
      /\ queue' = Append(queue, n) /\ UNCHANGED <<worker, outcome, retries>>
      /\ queue \in Seq(Emails \cup {"None"})
  BY DEF Requeue, Put, Delay, ShutdownInv, Parts
<1>2. ASSUME NEW m \in Emails
      PROVE  Placed(m)' = Placed(m)
  <2>1. Cardinality(Queued(queue', m)) = Cardinality(Queued(queue, m)) + One(n = m)
    BY <1>1, QueuedPut
  <2>2. Held(m)' = Held(m)
    BY <1>1 DEF Held
  <2>3. Slept(m)' = Slept(m) - One(n = m)
    BY <1>1 DEF TaskInv, Slept, One, NoDelay
  <2>4. QED
    BY <2>1, <2>2, <2>3, PlacedIsNat DEF Placed, One
<1>3. QED
  BY <1>1, <1>2 DEF TaskInv, NoDelay

LEMMA GetPlaces ==
    ASSUME TaskInv, ShutdownInv, NEW w \in Workers, Get(w)
    PROVE  TaskInv'
<1> DEFINE h == Head(queue)
<1>1. /\ queue \in Seq(Emails \cup {"None"}) /\ queue # <<>> /\ queue' = Tail(queue)
      /\ worker \in [Workers -> Emails \cup {"get", "ended"}] /\ worker[w] = "get"
      /\ UNCHANGED <<outcome, retries>>
  BY DEF Get, ShutdownInv, Parts
<1>2. h \in Emails \cup {"None"}
  BY <1>1
<1>3. ASSUME NEW m \in Emails
      PROVE  Cardinality(Queued(queue, m)) = Cardinality(Queued(queue', m)) + One(h = m)
  BY <1>1, QueuedGet
<1>4. ASSUME NEW m \in Emails
      PROVE  Cardinality(Queued(queue', m)) \in Nat
  <2>1. queue' \in Seq(Emails \cup {"None"})
    BY <1>1
  <2>2. QED
    BY <2>1, QueuedFinite
<1> HIDE DEF h
<1>5. CASE h = "None" /\ worker' = [worker EXCEPT ![w] = "ended"] /\ UNCHANGED delay
  <2>1. ASSUME NEW m \in Emails
        PROVE  Placed(m)' = Placed(m)
    <3>1. m \notin {"None", "get", "ended"}
      BY EmailsAssumption
    <3>2. Cardinality(Held(m)') = Cardinality(Held(m)) /\ Slept(m)' = Slept(m)
      <4>1. worker'[w] = "ended"
        BY <1>1, <1>5
      <4>2. Cardinality(Held(m)') = Cardinality(Held(m)) - One(worker[w] = m) + One(worker'[w] = m)
        BY <1>5, <4>1, HeldMoves
      <4>3. QED
        BY <1>1, <1>5, <3>1, <4>1, <4>2, PlacedIsNat DEF One, Slept
    <3>3. QED
      BY <1>3, <1>4, <1>5, <3>1, <3>2 DEF Placed, One
  <2>2. QED
    BY <1>1, <1>5, <2>1 DEF TaskInv
<1>6. CASE h \in Emails /\ delay' = [delay EXCEPT ![h] = RateLimit] /\ Loop(w)
  <2>1. worker' = [worker EXCEPT ![w] = worker'[w]] /\ worker'[w] \in {"get", "ended"}
    BY <1>1, <1>6 DEF Loop
  <2>2. Placed(h) = One(outcome[h] = "accepted") /\ Cardinality(Queued(queue, h)) >= 1
    BY <1>3, <1>4, <1>6 DEF TaskInv, One
  <2>3. Slept(h) = 0
    BY <2>2, PlacedIsNat DEF Placed, One
  <2>4. ASSUME NEW m \in Emails
        PROVE  Placed(m)' = Placed(m)
    <3>1. m \notin {"None", "get", "ended"}
      BY EmailsAssumption
    <3>2. Cardinality(Held(m)') = Cardinality(Held(m)) /\ Cardinality(Held(m)) \in Nat
      <4>1. Cardinality(Held(m)') = Cardinality(Held(m)) - One(worker[w] = m) + One(worker'[w] = m)
        BY <2>1, HeldMoves
      <4>2. QED
        BY <1>1, <2>1, <3>1, <4>1, PlacedIsNat DEF One
    <3>3. Slept(m)' = Slept(m) + One(h = m)
      BY <1>6, <2>3, LimitsAssumption DEF TaskInv, Slept, One, NoDelay
    <3>4. QED
      BY <1>3, <1>4, <3>2, <3>3, PlacedIsNat DEF Placed, One
  <2>5. QED
    BY <1>1, <1>6, <2>4, LimitsAssumption DEF TaskInv
<1>7. CASE h \in Emails /\ worker' = [worker EXCEPT ![w] = h] /\ UNCHANGED delay
  <2>1. ASSUME NEW m \in Emails
        PROVE  Placed(m)' = Placed(m)
    <3>1. m # "get"
      BY EmailsAssumption
    <3>2. /\ Cardinality(Held(m)') = Cardinality(Held(m)) + One(h = m) /\ Cardinality(Held(m)) \in Nat
          /\ Slept(m)' = Slept(m)
      <4>1. worker'[w] = h
        BY <1>1, <1>7
      <4>2. Cardinality(Held(m)') = Cardinality(Held(m)) - One(worker[w] = m) + One(worker'[w] = m)
        BY <1>7, <4>1, HeldMoves
      <4>3. QED
        BY <1>1, <1>7, <3>1, <4>1, <4>2, PlacedIsNat DEF One, Slept
    <3>3. QED
      BY <1>3, <1>4, <3>2, PlacedIsNat DEF Placed, One
  <2>2. QED
    BY <1>1, <1>7, <2>1 DEF TaskInv
<1>8. QED
  BY <1>2, <1>5, <1>6, <1>7 DEF Get, Delay, h

LEMMA SentPlaces ==
    ASSUME TaskInv, ShutdownInv, NEW w \in Workers, Sent(w) \/ NotSent(w)
    PROVE  TaskInv'
<1> DEFINE n == worker[w]
<1>1. /\ n \in Emails /\ queue' = queue
      /\ worker \in [Workers -> Emails \cup {"get", "ended"}]
      /\ worker' = [worker EXCEPT ![w] = worker'[w]] /\ worker'[w] \in {"get", "ended"}
  BY DEF Sent, NotSent, Loop, ShutdownInv, Parts
<1> HIDE DEF n
<1>2. ASSUME NEW m \in Emails
      PROVE  /\ Cardinality(Held(m)') = Cardinality(Held(m)) - One(n = m)
             /\ Cardinality(Held(m)) \in Nat /\ Cardinality(Held(m)') \in Nat
  <2>1. m \notin {"get", "ended"}
    BY EmailsAssumption
  <2>2. /\ Cardinality(Held(m)) \in Nat /\ Cardinality(Held(m)') \in Nat
        /\ Cardinality(Held(m)') = Cardinality(Held(m)) - One(worker[w] = m) + One(worker'[w] = m)
    BY <1>1, HeldMoves
  <2>3. QED
    BY <1>1, <2>1, <2>2 DEF n, One
<1>3. outcome[n] = "accepted" /\ Slept(n) = 0 /\ Placed(n) = 1
  <2>1. Cardinality(Held(n)) >= 1
    BY <1>1, <1>2 DEF One
  <2>2. QED
    BY <1>1, <2>1, PlacedIsNat DEF TaskInv, Placed, One
<1>4. CASE /\ UNCHANGED <<delay, retries>>
           /\ outcome' = [outcome EXCEPT ![n] = "sent"] \/ outcome' = [outcome EXCEPT ![n] = "dropped"]
  <2>1. ASSUME NEW m \in Emails
        PROVE  Placed(m)' = One(outcome'[m] = "accepted")
    <3>1. Placed(m)' = Placed(m) - One(n = m)
      BY <1>1, <1>2, <1>4, PlacedIsNat DEF Placed, Slept, One
    <3>2. CASE n = m
      BY <1>1, <1>3, <1>4, <3>1, <3>2 DEF One, TaskInv
    <3>3. CASE n # m
      BY <1>1, <1>4, <3>1, <3>3, PlacedIsNat DEF One, TaskInv, Placed
    <3>4. QED
      BY <3>2, <3>3
  <2>2. QED
    BY <1>1, <1>4, <2>1 DEF TaskInv
<1>5. CASE /\ retries[n] < MaxRetries /\ retries' = [retries EXCEPT ![n] = @ + 1]
           /\ delay' = [delay EXCEPT ![n] = Backoff[retries[n] + 1]] /\ outcome' = outcome
  <2>1. retries[n] \in 0 .. MaxRetries /\ Backoff[retries[n] + 1] \in Nat
    BY <1>1, <1>5, BackoffAssumption, LimitsAssumption DEF TaskInv
  <2>2. ASSUME NEW m \in Emails
        PROVE  Placed(m)' = Placed(m)
    <3>1. Slept(m)' = Slept(m) + One(n = m)
      BY <1>1, <1>3, <1>5, <2>1 DEF TaskInv, Slept, One, NoDelay
    <3>2. QED
      BY <1>1, <1>2, <3>1, PlacedIsNat DEF Placed, One
  <2>3. QED
    BY <1>1, <1>5, <2>1, <2>2, LimitsAssumption DEF TaskInv
<1>6. QED
  BY <1>4, <1>5 DEF Sent, NotSent, Delay, n

LEMMA TaskNext == TaskInv /\ ShutdownInv /\ [Next]_vars => TaskInv'
<1> SUFFICES ASSUME TaskInv, ShutdownInv, [Next]_vars
             PROVE  TaskInv'
  OBVIOUS
<1>1. CASE MailTick
  <2>1. /\ UNCHANGED <<queue, worker, outcome, retries>>
        /\ delay' = [m \in Emails |-> Down(delay[m])]
    BY <1>1 DEF MailTick
  <2>2. delay' \in [Emails -> Nat \cup {NoDelay}] /\ \A m \in Emails : delay'[m] = NoDelay <=> delay[m] = NoDelay
    BY <2>1 DEF TaskInv, Down, NoDelay
  <2>3. QED
    BY <2>1, <2>2 DEF TaskInv, Placed, Held, Slept
<1>2. \/ /\ UNCHANGED <<worker, outcome, delay, retries>>
         /\ queue' = queue \/ queue' = queue \o Pills
      \/ MailTick
      \/ \E m \in Emails : EnqueueEmail(m) \/ Requeue(m)
      \/ \E w \in Workers : Get(w) \/ Sent(w) \/ NotSent(w)
  BY DEF Next, Request, MailStep, Shutdown, Lifespan, StopLoop, StopEmail, StopWorkers,
         DisconnectEmail, Disconnect, StopTelegram, DisconnectDb, vars, mail
<1>3. QED
  BY <1>1, <1>2, Untouched, EnqueuePlaces, RequeuePlaces, GetPlaces, SentPlaces

\* An email that was accepted and is neither sent nor dropped is in exactly
\* one place: for any number of workers and emails, any limits and back-off.
THEOREM EveryEmailIsOneTask == Spec => []OneTask
<1>1. Init => TaskInv
  <2> SUFFICES ASSUME Init
               PROVE  TaskInv
    OBVIOUS
  <2>1. /\ queue = <<>> /\ worker = [w \in Workers |-> "get"] /\ delay = [m \in Emails |-> NoDelay]
        /\ retries = [m \in Emails |-> 0] /\ outcome = [m \in Emails |-> "new"]
    BY DEF Init, MailInit
  <2>2. ASSUME NEW m \in Emails
        PROVE  Placed(m) = 0
    <3>1. m # "get"
      BY EmailsAssumption
    <3>2. Queued(queue, m) = {} /\ Held(m) = {} /\ Slept(m) = 0
      BY <2>1, <3>1 DEF Queued, Held, Slept
    <3>3. QED
      BY <3>2, FS_EmptySet DEF Placed
  <2>3. QED
    BY <2>1, <2>2, LimitsAssumption DEF TaskInv, One
<1>2. TaskInv => OneTask
  BY DEF TaskInv, Placed, Queued, Held, Slept, One, OneTask
<1>3. QED
  BY <1>1, <1>2, ShutdownInit, ShutdownNext, TaskNext, PTL DEF Spec

(***************************************************************************)
(* The types of the three modules.                                         *)
(***************************************************************************)
\* The emails, a second, and the end of the email service.
LEMMA MailKeepsType ==
    ASSUME ShutdownInv, ShutdownInv', MailTypeOK,
           \/ MailStep \/ MailTick \/ StopWorkers \/ Disconnect
           \/ \E m \in Emails : EnqueueEmail(m)
    PROVE  MailTypeOK'
<1> USE DEF MailTypeOK
<1>1. /\ queue' \in Seq(Emails \cup {"None"}) /\ http' \in {"unset", "open", "closed"}
      /\ worker' \in [Workers -> Emails \cup {"get", "ended"}]
  BY DEF ShutdownInv, Parts
<1>2. CASE MailTick
  BY <1>1, <1>2, LimitsAssumption DEF MailTick, Down, NoDelay
<1>3. CASE StopWorkers \/ Disconnect
  BY <1>1, <1>3 DEF StopWorkers, Disconnect
<1>4. ASSUME NEW m \in Emails, EnqueueEmail(m) \/ Requeue(m)
      PROVE  MailTypeOK'
  <2>1. UNCHANGED <<running, retries, limit, since>>
    BY <1>4 DEF EnqueueEmail, Requeue
  <2>2. delay' = delay \/ delay' = [delay EXCEPT ![m] = NoDelay]
    BY <1>4 DEF EnqueueEmail, Requeue, Delay
  <2>3. outcome' = outcome \/ outcome' = [outcome EXCEPT ![m] = "accepted"]
    BY <1>4 DEF EnqueueEmail, Requeue
  <2> QED
    BY <1>1, <2>1, <2>2, <2>3
<1>5. ASSUME NEW w \in Workers, Get(w)
      PROVE  MailTypeOK'
  <2>1. UNCHANGED <<running, http, retries, limit, outcome, since>>
    BY <1>5 DEF Get
  <2>2. Head(queue) \in Emails \cup {"None"}
    BY <1>5 DEF Get
  <2>3. delay' = delay \/ \E m \in Emails : delay' = [delay EXCEPT ![m] = RateLimit]
    BY <1>5, <2>2 DEF Get, Delay
  <2>4. delay' \in [Emails -> Nat \cup {NoDelay}]
    BY <2>3, LimitsAssumption
  <2> QED
    BY <1>1, <2>1, <2>4
<1>6. ASSUME NEW w \in Workers, Sent(w)
      PROVE  MailTypeOK'
  <2> DEFINE m == worker[w]
  <2>1. /\ m \in Emails /\ UNCHANGED <<running, http, queue, delay, retries>>
        /\ limit' = [limit EXCEPT ![To[m]] = RateLimit]
        /\ since' = [since EXCEPT ![m] = RateLimit]
        /\ outcome' = [outcome EXCEPT ![m] = "sent"]
    BY <1>6 DEF Sent
  <2>2. RateLimit \in 0 .. RateLimit
    BY LimitsAssumption
  <2> HIDE DEF m
  <2> QED
    BY <1>1, <2>1, <2>2
<1>7. ASSUME NEW w \in Workers, NotSent(w)
      PROVE  MailTypeOK'
  <2> DEFINE m == worker[w]
  <2>1. m \in Emails /\ retries[m] \in 0 .. MaxRetries /\ UNCHANGED <<running, http, limit, since>>
    BY <1>7 DEF NotSent
  <2>2. CASE /\ retries[m] < MaxRetries /\ retries' = [retries EXCEPT ![m] = @ + 1]
             /\ Delay(m, Backoff[retries[m] + 1]) /\ UNCHANGED outcome
    <3>1. retries[m] + 1 \in 1 .. MaxRetries
      BY <2>1, <2>2, LimitsAssumption
    <3>2. Backoff[retries[m] + 1] \in Nat
      BY <3>1, BackoffAssumption
    <3>3. delay' \in [Emails -> Nat \cup {NoDelay}]
      BY <2>2, <3>2 DEF Delay
    <3>4. retries' \in [Emails -> 0 .. MaxRetries]
      <4>1. retries[m] + 1 \in 0 .. MaxRetries
        BY <3>1
      <4>2. retries' = [retries EXCEPT ![m] = retries[m] + 1]
        BY <2>2
      <4> HIDE DEF m
      <4> QED
        BY <4>1, <4>2
    <3> QED
      BY <1>1, <2>1, <2>2, <3>3, <3>4
  <2>3. CASE outcome' = [outcome EXCEPT ![m] = "dropped"] /\ UNCHANGED <<retries, delay>>
    BY <1>1, <2>1, <2>3
  <2> QED
    BY <1>7, <2>2, <2>3 DEF NotSent
<1> QED
  BY <1>2, <1>3, <1>4, <1>5, <1>6, <1>7 DEF MailStep

\* The type alone is not inductive: it lets a worker send for no request, and
\* the messages in the channel would not be pictures.
SendersBusy == \A w \in Senders : sender[w].op \in {"thumbnail", "send"} => sender[w].v \in Avatars

\* A temporary file is there as long as its request is polled, and goes with
\* the answer: what the workers do leaves both alone.
LEMMA AvatarsKeepType ==
    ASSUME ShutdownInv, ShutdownInv', TelegramTypeOK, SendersBusy,
           \/ DeleteAvatar \/ StopSenders
           \/ \E v \in Avatars : UploadAvatar(v) \/ RequestStep(v) \/ ForgetTask(v)
           \/ \E w \in Senders : SenderStep(w)
    PROVE  TelegramTypeOK' /\ SendersBusy'
<1> USE DEF TelegramTypeOK, SendersBusy
<1>1. /\ uploads' \in Seq(Avatars)
      /\ sender' \in [Senders -> [op : {"get", "thumbnail", "send", "ended"}, v : Avatars \cup {"None"}]]
      /\ request' \in [Avatars -> {"new", "polling", "completed", "ok", "failed", "timeout"}]
  BY DEF ShutdownInv, Parts
<1>2. CASE DeleteAvatar
  BY <1>1, <1>2 DEF DeleteAvatar, AtWork
<1>3. CASE StopSenders
  BY <1>1, <1>3 DEF StopSenders, AtWork
<1>4. ASSUME NEW v \in Avatars, UploadAvatar(v)
      PROVE  TelegramTypeOK' /\ SendersBusy'
  BY <1>1, <1>4 DEF UploadAvatar, AtWork
<1>5. ASSUME NEW v \in Avatars, PollTask(v)
      PROVE  TelegramTypeOK' /\ SendersBusy'
  <2>1. request[v] = "polling" /\ UNCHANGED <<telegram, task, known, messages, avatar>>
    BY <1>5 DEF PollTask
  <2>2. UNCHANGED <<uploads, sender>>
    BY <1>5 DEF PollTask
  <2>3. CASE UNCHANGED waited /\ \E a \in {"failed", "timeout"} : Answer(v, a)
    <3>1. temp' = temp \ {v} /\ \E a \in {"failed", "timeout"} : request' = [request EXCEPT ![v] = a]
      BY <2>3 DEF Answer
    <3>2. AtWork' = AtWork \ {v}
      BY <3>1 DEF AtWork
    <3> QED
      BY <1>1, <2>1, <2>2, <2>3, <3>1, <3>2
  <2>4. CASE request' = [request EXCEPT ![v] = "completed"] /\ UNCHANGED <<temp, waited>>
    <3>1. AtWork' = AtWork
      BY <2>1, <2>4 DEF AtWork
    <3> QED
      BY <1>1, <2>1, <2>2, <2>4, <3>1
  <2>5. CASE waited[v] < Timeout /\ waited' = [waited EXCEPT ![v] = Wait(@)] /\ UNCHANGED <<request, temp>>
    <3>1. AtWork' = AtWork
      BY <2>5 DEF AtWork
    <3>2. waited[v] + 1 \in 0 .. Timeout
      BY <2>5, TimeoutAssumption
    <3>3. waited' \in [Avatars -> 0 .. Timeout]
      BY <2>5, <3>2 DEF Wait
    <3> QED
      BY <1>1, <2>1, <2>2, <2>5, <3>1, <3>3
  <2>6. waited[v] >= Timeout \/ waited[v] < Timeout
    BY TimeoutAssumption
  <2> QED
    BY <1>5, <2>3, <2>4, <2>5, <2>6 DEF PollTask
<1>6. ASSUME NEW v \in Avatars, SetAvatar(v)
      PROVE  TelegramTypeOK' /\ SendersBusy'
  BY <1>1, <1>6 DEF SetAvatar, Answer, AtWork
<1>7. ASSUME NEW v \in Avatars, ForgetTask(v)
      PROVE  TelegramTypeOK' /\ SendersBusy'
  BY <1>1, <1>7 DEF ForgetTask, AtWork
<1>8. ASSUME NEW w \in Senders, TakeTask(w)
      PROVE  TelegramTypeOK' /\ SendersBusy'
  BY <1>1, <1>8 DEF TakeTask, AtWork
<1>9. ASSUME NEW w \in Senders, OpenTemp(w)
      PROVE  TelegramTypeOK' /\ SendersBusy'
  BY <1>1, <1>9 DEF OpenTemp, AtWork
<1>10. ASSUME NEW w \in Senders, SendFails(w)
       PROVE  TelegramTypeOK' /\ SendersBusy'
  <2> DEFINE v == sender[w].v
  <2>1. /\ sender[w].op \in {"thumbnail", "send"} /\ sender' = [sender EXCEPT ![w] = NotSending]
        /\ task' \in {[task EXCEPT ![v] = "completed"], [task EXCEPT ![v] = "failed"]}
        /\ messages' \in {messages, messages \cup {v}}
        /\ UNCHANGED <<telegram, uploads, known, temp, request, waited, avatar>>
    BY <1>10 DEF SendFails, TaskDone
  <2>2. AtWork' = AtWork /\ v \in Avatars
    BY <2>1 DEF AtWork
  <2> HIDE DEF v
  <2> QED
    BY <1>1, <2>1, <2>2 DEF NotSending
<1>11. ASSUME NEW w \in Senders, SendCompletes(w)
       PROVE  TelegramTypeOK' /\ SendersBusy'
  <2> DEFINE v == sender[w].v
  <2>1. /\ sender[w].op \in {"thumbnail", "send"} /\ sender' = [sender EXCEPT ![w] = NotSending]
        /\ task' \in {[task EXCEPT ![v] = "completed"], [task EXCEPT ![v] = "failed"]}
        /\ messages' \in {messages, messages \cup {v}}
        /\ UNCHANGED <<telegram, uploads, known, temp, request, waited, avatar>>
    BY <1>11 DEF SendCompletes, TaskDone
  <2>2. AtWork' = AtWork /\ v \in Avatars
    BY <2>1 DEF AtWork
  <2> HIDE DEF v
  <2> QED
    BY <1>1, <2>1, <2>2 DEF NotSending
<1> QED
  BY <1>2, <1>3, <1>4, <1>5, <1>6, <1>7, <1>8, <1>9, <1>10, <1>11 DEF RequestStep, SenderStep

LEMMA TypeNext ==
    ASSUME ShutdownInv, ShutdownInv', TypeOK, SendersBusy, [Next]_vars
    PROVE  TypeOK' /\ SendersBusy'
<1>1. MailTypeOK /\ TelegramTypeOK /\ load \in Loads /\ db \in BOOLEAN
      /\ stage \in {"up", "purge", "email", "emailWorkers", "sweep", "telegram", "db", "down"}
  BY DEF TypeOK
<1>2. MailTypeOK'
  <2>1. CASE UNCHANGED mail
    BY <1>1, <2>1 DEF mail, MailTypeOK
  <2>2. \/ UNCHANGED mail \/ MailStep \/ MailTick \/ StopWorkers \/ Disconnect
        \/ \E m \in Emails : EnqueueEmail(m)
    BY DEF Next, Request, Shutdown, Lifespan, StopLoop, StopEmail, DisconnectEmail, StopTelegram, DisconnectDb, vars
  <2> QED
    BY <1>1, <2>1, <2>2, MailKeepsType
<1>3. TelegramTypeOK' /\ SendersBusy'
  <2>1. CASE UNCHANGED tg
    BY <1>1, <2>1 DEF tg, TelegramTypeOK, SendersBusy, AtWork
  <2>2. \/ UNCHANGED tg \/ DeleteAvatar \/ StopSenders
        \/ \E v \in Avatars : UploadAvatar(v) \/ RequestStep(v) \/ ForgetTask(v)
        \/ \E w \in Senders : SenderStep(w)
    BY DEF Next, Request, Shutdown, Lifespan, StopLoop, StopEmail, DisconnectEmail, StopTelegram, DisconnectDb, vars
  <2> QED
    BY <1>1, <2>1, <2>2, AvatarsKeepType
<1>4. load' = load
  BY DEF Next, Shutdown, Lifespan, StopLoop, StopEmail, DisconnectEmail, StopTelegram, DisconnectDb, vars
<1>5. stage' \in {"up", "purge", "email", "emailWorkers", "sweep", "telegram", "db", "down"} /\ db' \in BOOLEAN
  BY <1>1 DEF Next, Shutdown, Lifespan, StopLoop, StopEmail, DisconnectEmail, StopTelegram, DisconnectDb, vars
<1>6. loops' \subseteq {"purge", "sweep"}
  BY DEF ShutdownInv, Parts
<1> QED
  BY <1>1, <1>2, <1>3, <1>4, <1>5, <1>6 DEF TypeOK

\* Every variable of the services of main.py keeps its type, and the temporary
\* file of an avatar is there exactly as long as its request is at work
\* (user.py's finally), whatever the worker does with the picture meanwhile.
THEOREM TypeCorrect == Spec => []TypeOK
<1>1. Init => TypeOK /\ SendersBusy
  <2> SUFFICES ASSUME Init
               PROVE  TypeOK /\ SendersBusy
    OBVIOUS
  <2>1. MailTypeOK
    BY LimitsAssumption DEF Init, MailInit, MailTypeOK, NoDelay
  <2>2. TelegramTypeOK /\ SendersBusy
    BY TimeoutAssumption DEF Init, TelegramInit, TelegramTypeOK, SendersBusy, AtWork, NotSending
  <2> QED
    BY <2>1, <2>2 DEF Init, TypeOK
<1>2. QED
  BY <1>1, ShutdownInit, ShutdownNext, TypeNext, PTL DEF Spec
=============================================================================
