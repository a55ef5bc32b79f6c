------------------------------ MODULE Avatars ------------------------------
(***************************************************************************)
(* The avatar of one user (user.py) and the part of telegram_service.py it *)
(* is sent with: the tasks a request can ask about, the upload queue and   *)
(* its workers.  A request sends its picture as a task without a file id,  *)
(* polls the task once a second, and gives up after a minute; the worker   *)
(* does not know that it gave up.                                          *)
(***************************************************************************)
EXTENDS Integers, Sequences

CONSTANTS Avatars,  \* the requests to upload one
          Senders,  \* coroutines of TelegramService._upload_worker
          Timeout   \* AVATAR_UPLOAD_TIMEOUT_SECONDS

ASSUME AvatarsAssumption == "None" \notin Avatars
ASSUME TimeoutAssumption == Timeout \in Nat

VARIABLES telegram,  \* how far TelegramService.start() came
          uploads,   \* upload_queue
          task,      \* per request: the status of its task
          known,     \* the tasks the cache of tasks still has
          sender,    \* per worker: what it does, and for which request
          temp,      \* the temporary files that exist
          request,   \* per request: where it is, or how it was answered
          waited,    \* per request: waited_seconds
          messages,  \* the pictures in the Telegram channel, each a message
          avatar     \* avatar_message_id

tg == <<telegram, uploads, task, known, sender, temp, request, waited, messages, avatar>>

NotSending == [op |-> "get", v |-> "None"]

\* Mutant of Answer: the file stays.
AnswerOnly(v, a) == request' = [request EXCEPT ![v] = a] /\ UNCHANGED temp

\* The answer to request v, and the finally block of upload_avatar.
Answer(v, a) ==
    /\ request' = [request EXCEPT ![v] = a]
    /\ temp' = temp \ {v}

\* upload_avatar: the picture is written to a file no one else knows yet,
\* and its task put into the queue.  Being connected does not say that there
\* are workers.
UploadAvatar(v) ==
    /\ request[v] = "new" /\ telegram # "off"
    /\ request' = [request EXCEPT ![v] = "polling"]
    /\ temp' = temp \cup {v}
    /\ task' = [task EXCEPT ![v] = "queued"]
    /\ known' = known \cup {v}
    /\ uploads' = Append(uploads, v)
    /\ UNCHANGED <<telegram, sender, waited, messages, avatar>>

\* Mutant of Wait: the seconds are not counted.
WaitUncounted(n) == n

\* waited_seconds += 1
Wait(n) == n + 1

\* One look at the task, and another second of waiting.
PollTask(v) ==
    /\ request[v] = "polling"
    /\ \/ /\ v \notin known \/ task[v] = "failed"
          /\ Answer(v, "failed")
          /\ UNCHANGED waited
       \/ /\ v \in known /\ task[v] = "completed"
          /\ request' = [request EXCEPT ![v] = "completed"]
          /\ UNCHANGED <<temp, waited>>
       \/ /\ v \in known /\ task[v] \in {"queued", "processing"}
          /\ IF waited[v] >= Timeout
               THEN Answer(v, "timeout") /\ UNCHANGED waited
               ELSE waited' = [waited EXCEPT ![v] = Wait(@)] /\ UNCHANGED <<request, temp>>
    /\ UNCHANGED <<telegram, uploads, task, known, sender, messages, avatar>>

SetAvatar(v) ==
    /\ request[v] = "completed"
    /\ avatar' = v
    /\ Answer(v, "ok")
    /\ UNCHANGED <<telegram, uploads, task, known, sender, waited, messages>>

\* delete_avatar: the message stays in the channel.
DeleteAvatar ==
    /\ avatar # "None"
    /\ avatar' = "None"
    /\ UNCHANGED <<telegram, uploads, task, known, sender, temp, request, waited, messages>>

\* The cache of tasks drops a task: an hour went by, or 5000 newer ones came.
ForgetTask(v) ==
    /\ v \in known
    /\ known' = known \ {v}
    /\ UNCHANGED <<telegram, uploads, task, sender, temp, request, waited, messages, avatar>>

\* queue.get(); then the thumbnail is made in a thread.
TakeTask(w) ==
    /\ sender[w].op = "get" /\ uploads # <<>>
    /\ sender' = [sender EXCEPT ![w] = [op |-> "thumbnail", v |-> Head(uploads)]]
    /\ task' = [task EXCEPT ![Head(uploads)] = "processing"]
    /\ uploads' = Tail(uploads)
    /\ UNCHANGED <<telegram, known, temp, request, waited, messages, avatar>>

\* send_file opens the file, which can be removed from then on.
OpenTemp(w) ==
    /\ sender[w].op = "thumbnail" /\ sender[w].v \in temp
    /\ sender' = [sender EXCEPT ![w].op = "send"]
    /\ UNCHANGED <<telegram, uploads, task, known, temp, request, waited, messages, avatar>>

TaskDone(w, status) ==
    /\ task' = [task EXCEPT ![sender[w].v] = status]
    /\ sender' = [sender EXCEPT ![w] = NotSending]
    /\ UNCHANGED <<telegram, uploads, known, temp, request, waited, avatar>>

SendCompletes(w) ==
    /\ sender[w].op = "send"
    /\ messages' = messages \cup {sender[w].v}
    /\ TaskDone(w, "completed")

\* Mutant of SendFails: the status is the same on both ways out.
SendFailsUnnoticed(w) ==
    /\ sender[w].op \in {"thumbnail", "send"}
    /\ TaskDone(w, "completed")
    /\ UNCHANGED messages

\* The file was removed, or Telegram refused three times.
SendFails(w) ==
    /\ sender[w].op \in {"thumbnail", "send"}
    /\ TaskDone(w, "failed")
    /\ UNCHANGED messages

\* Mutant of StopSenders: the workers are not cancelled.
LeaveSenders ==
    /\ telegram' = "off"
    /\ UNCHANGED <<uploads, task, known, sender, temp, request, waited, messages, avatar>>

\* stop(): a cancelled worker ends at the await it is in; its own cleanup only
\* removes files below TEMP_STORAGE_PATH, and an avatar's is not.
StopSenders ==
    /\ telegram' = "off"
    /\ sender' = [w \in Senders |-> [op |-> "ended", v |-> "None"]]
    /\ UNCHANGED <<uploads, task, known, temp, request, waited, messages, avatar>>

\* Without API keys there is no client, and without a valid session a client
\* that is connected but no worker.
TelegramInit ==
    /\ telegram \in {"off", "unauthorised", "on"}
    /\ uploads = <<>>
    /\ task = [v \in Avatars |-> "none"]
    /\ known = {}
    /\ sender = [w \in Senders |-> IF telegram = "on" THEN NotSending ELSE [op |-> "ended", v |-> "None"]]
    /\ temp = {}
    /\ request = [v \in Avatars |-> "new"]
    /\ waited = [v \in Avatars |-> 0]
    /\ messages = {}
    /\ avatar = "None"

RequestStep(v) == PollTask(v) \/ SetAvatar(v)
SenderStep(w) == TakeTask(w) \/ OpenTemp(w) \/ SendCompletes(w) \/ SendFails(w)

(***************************************************************************)
(* Properties.                                                             *)
(***************************************************************************)
AtWork == {v \in Avatars : request[v] \in {"polling", "completed"}}

TelegramTypeOK ==
    /\ telegram \in {"off", "unauthorised", "on"}
    /\ uploads \in Seq(Avatars)
    /\ task \in [Avatars -> {"none", "queued", "processing", "completed", "failed"}]
    /\ known \subseteq Avatars /\ messages \subseteq Avatars
    /\ sender \in [Senders -> [op : {"get", "thumbnail", "send", "ended"}, v : Avatars \cup {"None"}]]
    /\ temp = AtWork
    /\ request \in [Avatars -> {"new", "polling", "completed", "ok", "failed", "timeout"}]
    /\ waited \in [Avatars -> 0 .. Timeout]
    /\ avatar \in Avatars \cup {"None"}

\* The avatar is a picture that is in the channel, and one whose request was
\* answered with success: a request that timed out while its picture was on
\* its way never becomes the avatar later.
AvatarStored == avatar # "None" => avatar \in messages /\ request[avatar] = "ok"

\* Every request is answered within its minute, also when no worker is there,
\* all are stuck, or the task was forgotten.
Answered == \A v \in Avatars : v \in AtWork ~> v \notin AtWork
=============================================================================
