------------------------------- MODULE Server -------------------------------
(***************************************************************************)
(* The background services of one server process under the lifespan of     *)
(* main.py: emails and avatars are asked for while the server is up, and   *)
(* the services are stopped one after the other when it shuts down.        *)
(***************************************************************************)
EXTENDS EmailService, Avatars

CONSTANT Loads  \* what the requests of a behaviour may ask for

ASSUME LoadsAssumption == Loads \subseteq SUBSET (Emails \cup Avatars)

VARIABLES load,   \* the emails and avatars asked for in this behaviour
          stage,  \* "up", or what lifespan does next
          loops,  \* the hourly loops that run: of the purge, and of the sweep
          db      \* whether MongoDB is connected

vars == <<mail, tg, load, stage, loops, db>>

(***************************************************************************)
(* The shutdown phase of lifespan, one action per service.                 *)
(***************************************************************************)
\* Requests that were accepted are answered before it begins.
Shutdown ==
    /\ stage = "up" /\ AtWork = {}
    /\ stage' = "purge"
    /\ UNCHANGED <<mail, tg, load, loops, db>>

\* _cancel_task(trash_cleanup_task), and UploadService.stop.
StopLoop(loop, next) ==
    /\ stage = loop
    /\ loops' = loops \ {loop}
    /\ stage' = next
    /\ UNCHANGED <<mail, tg, load, db>>

StopEmail ==
    /\ stage = "email"
    /\ StopWorkers
    /\ stage' = "emailWorkers"
    /\ UNCHANGED <<tg, load, loops, db>>

\* stop() has awaited its workers; the email client is next.
DisconnectEmail ==
    /\ stage = "emailWorkers" /\ Stopped
    /\ Disconnect
    /\ stage' = "sweep"
    /\ UNCHANGED <<tg, load, loops, db>>

StopTelegram ==
    /\ stage = "telegram"
    /\ StopSenders
    /\ stage' = "db"
    /\ UNCHANGED <<mail, load, loops, db>>

DisconnectDb ==
    /\ stage = "db"
    /\ db' = FALSE
    /\ stage' = "down"
    /\ UNCHANGED <<mail, tg, load, loops>>

Lifespan ==
    \/ StopLoop("purge", "email") \/ StopEmail \/ DisconnectEmail
    \/ StopLoop("sweep", "telegram") \/ StopTelegram \/ DisconnectDb

(***************************************************************************)
(* The specification.                                                      *)
(***************************************************************************)
\* The server after a startup that succeeded.
Init ==
    /\ MailInit
    /\ TelegramInit
    /\ load \in Loads
    /\ stage = "up"
    /\ loops = {"purge", "sweep"}
    /\ db = TRUE

Request ==
    \/ stage = "up" /\ \E m \in load \cap Emails : EnqueueEmail(m) /\ UNCHANGED tg
    \/ stage = "up" /\ \E v \in load \cap Avatars : UploadAvatar(v) /\ UNCHANGED mail
    \/ stage = "up" /\ DeleteAvatar /\ UNCHANGED mail

Next ==
    \/ /\ \/ Request
          \/ (MailStep \/ MailTick) /\ UNCHANGED tg
          \/ (\E v \in Avatars : RequestStep(v) \/ ForgetTask(v)) /\ UNCHANGED mail
          \/ (\E w \in Senders : SenderStep(w)) /\ UNCHANGED mail
       /\ UNCHANGED <<load, stage, loops, db>>
    \/ Shutdown
    \/ Lifespan

\* Coroutines that can run do and time passes.  Nothing is assumed of the
\* Telegram workers: sending may take for ever.
Fairness ==
    /\ \A w \in Workers : WF_mail(Get(w) \/ Sent(w) \/ NotSent(w))
    /\ \A m \in Emails : WF_mail(Requeue(m))
    /\ WF_mail(MailTick)
    /\ \A v \in Avatars : WF_tg(RequestStep(v))
    /\ WF_vars(Lifespan)

Spec == Init /\ [][Next]_vars
FairSpec == Spec /\ Fairness

(***************************************************************************)
(* Properties.                                                             *)
(***************************************************************************)
\* Every service has its type; a temporary file is there exactly as long as
\* its request is at work.
TypeOK ==
    /\ MailTypeOK
    /\ TelegramTypeOK
    /\ load \in Loads
    /\ stage \in {"up", "purge", "email", "emailWorkers", "sweep", "telegram", "db", "down"}
    /\ loops \subseteq {"purge", "sweep"}
    /\ db \in BOOLEAN

\* What is closed is used no more: no worker has an email to send when the
\* HTTP client is closed, and no loop, request or Telegram worker is left that
\* could call MongoDB when that is disconnected.
ClosedUnused ==
    /\ http = "closed" => \A w \in Workers : worker[w] = "ended"
    /\ ~db => loops = {} /\ AtWork = {} /\ \A w \in Senders : sender[w].op = "ended"

\* Shutting down ends, whatever is in the queues and being sent.
ShutdownEnds == stage # "up" ~> stage = "down"
=============================================================================
