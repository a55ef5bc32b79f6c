---------------------------- MODULE EmailService ----------------------------
(***************************************************************************)
(* email_service.py and the Brevo client of database.py: the in-memory     *)
(* queue of one server process, the coroutines that send from it, the rate *)
(* limit per address and the delayed retries.                              *)
(*                                                                         *)
(* asyncio.sleep and the TTLCache count seconds; here they are timers that *)
(* Tick advances together.  A coroutine may run later than its timer says. *)
(***************************************************************************)
EXTENDS Integers, FiniteSets, Sequences

CONSTANTS Workers,     \* coroutines of EmailService._worker
          Emails,      \* the emails request handlers enqueue, each of them once
          Addresses,   \* where they go
          To,          \* To[m]: task["to_email"]
          MaxRetries,  \* MAX_RETRIES
          Backoff,     \* Backoff[n]: the delay before retry n, 2 ** n
          RateLimit    \* EMAIL_RATE_LIMIT_SECONDS

ASSUME ToAssumption == To \in [Emails -> Addresses]
ASSUME EmailsAssumption == Emails \cap {"None", "get", "ended"} = {}
ASSUME WorkersAssumption == IsFiniteSet(Workers)
ASSUME LimitsAssumption == MaxRetries \in Nat /\ RateLimit \in Nat \ {0}
ASSUME BackoffAssumption == Backoff \in [1 .. MaxRetries -> Nat]

VARIABLES running,   \* _is_running
          http,      \* the HTTP client of BrevoEmailClient
          queue,     \* the queue: emails, and None for a worker to end
          worker,    \* per worker: the email it sends, or where it is otherwise
          delay,     \* per email: what is left of the sleep of _delay_requeue
          retries,   \* per email: task["retries"]
          limit,     \* _rate_limits: what is left of the entry of an address
          outcome,   \* per email: what became of it
          since      \* per email that was sent: what is left of its RateLimit

mail == <<running, http, queue, worker, delay, retries, limit, outcome, since>>

NoDelay == -1

\* asyncio.sleep(n) begun now for email m.
Delay(m, n) == delay' = [delay EXCEPT ![m] = n]

\* The worker of a task that is done tests _is_running before the next get().
Loop(w) == worker' = [worker EXCEPT ![w] = IF running THEN "get" ELSE "ended"]

Put(m) == queue' = Append(queue, m)

EnqueueEmail(m) ==
    /\ outcome[m] = "new"
    /\ outcome' = [outcome EXCEPT ![m] = "accepted"]
    /\ Put(m)
    /\ UNCHANGED <<running, http, worker, delay, retries, limit, since>>

\* Mutants of Limited: the check is gone; an entry never expires.
NeverLimited(a) == FALSE
LimitedForEver(a) == \E m \in Emails : To[m] = a /\ outcome[m] = "sent"

\* An address is limited as long as the cache has it.
Limited(a) == limit[a] > 0

\* queue.get(), and what the worker does up to the send.
Get(w) ==
    /\ worker[w] = "get" /\ queue # <<>>
    /\ queue' = Tail(queue)
    /\ LET m == Head(queue)
       IN  \/ /\ m = "None"
              /\ worker' = [worker EXCEPT ![w] = "ended"]
              /\ UNCHANGED delay
           \/ /\ m # "None" /\ Limited(To[m])
              /\ Delay(m, RateLimit)
              /\ Loop(w)
           \/ /\ m # "None" /\ ~Limited(To[m])
              /\ worker' = [worker EXCEPT ![w] = m]
              /\ UNCHANGED delay
    /\ UNCHANGED <<running, http, retries, limit, outcome, since>>

\* send_email returned True.
Sent(w) ==
    LET m == worker[w]
    IN  /\ m \in Emails /\ http = "open"
        /\ limit' = [limit EXCEPT ![To[m]] = RateLimit]
        /\ since' = [since EXCEPT ![m] = RateLimit]
        /\ outcome' = [outcome EXCEPT ![m] = "sent"]
        /\ Loop(w)
        /\ UNCHANGED <<running, http, queue, delay, retries>>

\* send_email returned False: not configured, an HTTP error, or a status
\* other than 200 and 201.
NotSent(w) ==
    LET m == worker[w]
    IN  /\ m \in Emails
        /\ \/ /\ retries[m] < MaxRetries
              /\ retries' = [retries EXCEPT ![m] = @ + 1]
              /\ Delay(m, Backoff[retries[m] + 1])
              /\ UNCHANGED outcome
           \/ /\ retries[m] = MaxRetries
              /\ outcome' = [outcome EXCEPT ![m] = "dropped"]
              /\ UNCHANGED <<retries, delay>>
        /\ Loop(w)
        /\ UNCHANGED <<running, http, queue, limit, since>>

\* Mutant of Requeue: the task is put back again and again.
RequeueRepeatedly(m) ==
    /\ delay[m] = 0
    /\ Delay(m, RateLimit)
    /\ Put(m)
    /\ UNCHANGED <<running, http, worker, retries, limit, outcome, since>>

\* The rest of _delay_requeue, which stop() neither awaits nor cancels.
Requeue(m) ==
    /\ delay[m] = 0
    /\ Delay(m, NoDelay)
    /\ Put(m)
    /\ UNCHANGED <<running, http, worker, retries, limit, outcome, since>>

\* Mutant of Pills: one for all.
OnePill == <<"None">>

\* What ends the workers that wait for an email: one None for each.
Pills == [i \in 1 .. Cardinality(Workers) |-> "None"]

\* stop(), up to its awaits of the workers.
StopWorkers ==
    /\ running
    /\ running' = FALSE
    /\ queue' = queue \o Pills
    /\ UNCHANGED <<http, worker, delay, retries, limit, outcome, since>>

Stopped == \A w \in Workers : worker[w] = "ended"

\* email_client.disconnect()
Disconnect ==
    /\ http' = IF http = "open" THEN "closed" ELSE http
    /\ UNCHANGED <<running, queue, worker, delay, retries, limit, outcome, since>>

Down(n) == IF n > 0 THEN n - 1 ELSE n

\* A second passes.
MailTick ==
    /\ (\E m \in Emails : delay[m] > 0) \/ (\E a \in Addresses : limit[a] > 0)
    /\ delay' = [m \in Emails |-> Down(delay[m])]
    /\ limit' = [a \in Addresses |-> Down(limit[a])]
    /\ since' = [m \in Emails |-> Down(since[m])]
    /\ UNCHANGED <<running, http, queue, worker, retries, outcome>>

\* connect() and start(): without an API key there is no HTTP client.
MailInit ==
    /\ running = TRUE
    /\ http \in {"unset", "open"}
    /\ queue = <<>>
    /\ worker = [w \in Workers |-> "get"]
    /\ delay = [m \in Emails |-> NoDelay]
    /\ retries = [m \in Emails |-> 0]
    /\ limit = [a \in Addresses |-> 0]
    /\ outcome = [m \in Emails |-> "new"]
    /\ since = [m \in Emails |-> 0]

MailStep ==
    \/ \E w \in Workers : Get(w) \/ Sent(w) \/ NotSent(w)
    \/ \E m \in Emails : Requeue(m)

(***************************************************************************)
(* Properties.                                                             *)
(***************************************************************************)
MailTypeOK ==
    /\ running \in BOOLEAN
    /\ http \in {"unset", "open", "closed"}
    /\ queue \in Seq(Emails \cup {"None"})
    /\ worker \in [Workers -> Emails \cup {"get", "ended"}]
    /\ delay \in [Emails -> Nat \cup {NoDelay}]
    /\ retries \in [Emails -> 0 .. MaxRetries]
    /\ limit \in [Addresses -> 0 .. RateLimit]
    /\ outcome \in [Emails -> {"new", "accepted", "sent", "dropped"}]
    /\ since \in [Emails -> 0 .. RateLimit]

\* Every email that was accepted and is neither sent nor dropped is in exactly
\* one place, so none is forgotten and none is sent again after it was sent,
\* whatever the limits, the retries and stop() do.
OneTask ==
    \A m \in Emails :
        Cardinality({i \in DOMAIN queue : queue[i] = m}) + Cardinality({w \in Workers : worker[w] = m})
            + (IF delay[m] = NoDelay THEN 0 ELSE 1) = IF outcome[m] = "accepted" THEN 1 ELSE 0

\* Within RateLimit seconds an address gets at most one email per worker: two
\* workers may pass the check at once, but no one passes it afterwards.
RateLimited ==
    \A a \in Addresses :
        Cardinality({m \in Emails : To[m] = a /\ since[m] > 0}) <= Cardinality(Workers)

\* An email that was accepted is sent or given up in the end, unless the
\* server stops first: the rate limit puts it off, but not for ever.
Settled == \A m \in Emails : outcome[m] = "accepted" ~> outcome[m] # "accepted" \/ ~running
=============================================================================
