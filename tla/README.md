# Cloud storage API: TLA+ models, model checks and proofs

The program is a FastAPI server that keeps users' files as messages in a
Telegram channel and everything else in MongoDB. It runs as several worker
processes of one asyncio event loop each (`Dockerfile:47-53`), without
transactions: every `await` is one call to MongoDB or Telegram, and between two
of them any other request may run, in this process or another one. Nearly all
that can go wrong lies in these gaps, so **in every module an action is one
such call together with the code up to the next one**.

## 1. Inventory

| Component | State | Operations | Talks to |
|---|---|---|---|
| **FileService** (`services/file_service.py`, `api/v1/files.py`, `folders.py`) | collection `files`: a tree by `parent_id`, `deleted_at`/`deleted_expires_at`, `telegram_message_id`; `users.storage_used_bytes` | create folder, move, copy, trash, restore, permanent delete, hourly purge, lists | MongoDB, Telegram (delete message), uploads (records, shared messages) |
| **UploadService** (`services/upload_service.py`, `api/v1/uploads.py`) | collection `uploads` (sessions), a directory per upload on disk, background tasks | begin, chunk, pause, resume, complete, small upload, hourly sweep of directories | `files`, Telegram queue, TTL index on `last_activity_at` |
| **TelegramService** (`services/telegram_service.py`) | in-memory upload queue, cache of tasks, message cache | start, enqueue, worker (send, record, clean up), stream, stop | Telegram; writes `files` and `uploads` |
| **Shares and downloads** (`api/v1/shares.py`, stream in `files.py`, `utils/helpers.py`) | collection `shares`: active, expiry, `max_downloads`, `download_count` | create, preview, download (claims a slot), revoke, range parsing, streaming | `files`, Telegram, TTL index on `expires_at` |
| **Authentication** (`api/v1/auth.py`, `user.py`, `security.py`, `core/security.py`, `dependencies.py`) | user's password, one pending one-time code with a purpose, `sessions`, `blacklist` of JWT ids | register, verify, login, 2FA, refresh, logout, logout everywhere, change/reset password, change email, delete account | MongoDB, TTL indexes, email |
| **Backup** (`api/v1/backup.py`) | the whole database | export, import in three passes with a revert | every collection |
| **EmailService** (`services/email_service.py`, Brevo client in `core/database.py`) | in-memory queue, rate limit per address, sleeping retries, HTTP client | enqueue, two workers, delayed requeue, start, stop | email provider; called by authentication and shares |
| **Avatar upload** (`api/v1/user.py:84-144`) | `avatar_message_id`, temporary file | upload (enqueue, poll, give up), delete | Telegram queue and cache of tasks |
| **Application** (`main.py`) | which services run | lifespan: start and stop them in order, purge loop | every service |
| **Administration** (`api/v1/admin.py`) | none of its own | delete a file, disable, enable or update a user | FileService, the user's document |
| Notifications, search, storage and system information, configuration, middleware, schemas | single documents, or none | single updates, reads | |

How they interact: an upload creates a document in `files`, charges the owner
and queues a task; a worker sends the content and writes the message id back
into `files` and `uploads`. A copy or an upload of equal content shares the
message, so a deletion counts the references before it deletes a message. A
share link reads the document and streams the message. Each process has its own
purge loop, queues and sweep; `lifespan` starts them, and stops them one after the
other. A request for an avatar gives its picture to the same Telegram queue and
asks the cache of tasks once a second what became of it. An administrator deletes a
file with `permanent_delete`, and disables an account by one field, which only
`get_current_user` reads: a login and a refresh go on, and what they issue is refused
with every use.

What is hard, and what makes each part correct:

* **FileService**: recursions over lists read earlier, counters changed apart
  from the documents, several requests in one subtree, a crash half-way.
  Correct means: the counter equals the bytes of the live files once nothing is
  at work; the tree has no cycle and loses nothing; a message exists as long as a
  document points to it; each request amounts to one step on whole subtrees.
* **Uploads**: a folder and a quota checked in one request and used in a later
  one, chunks written concurrently, a background finaliser, a worker,
  two clocks (directory mtime and session activity), a queue lost at restart.
  Correct means: a session claims no more than was stored, what is recorded and
  sent is the whole content, directories are reclaimed.
* **Shares**: a limit read in one call and claimed in another, revocation and
  expiry meanwhile, ranges at the edges of the file. Correct means: the limit
  holds, and the bytes sent are the bytes asked for and announced.
* **Authentication**: rotation in three calls, of which the last may fail, a logout
  that answers success whatever failed, codes compared and cleared apart,
  TTL indexes that forget. Correct means: revoked stays revoked, active sessions
  can be refreshed, a password change ends older sessions, codes keep their
  purpose and are not left pending once used.
* **Backup**: an import without a transaction whose calls may fail with part of
  their work done. Correct means: all or nothing, nothing else touched, and an
  export can be imported back.
* **EmailService**: workers that test a limit before they send and set it
  afterwards, tasks that sleep in coroutines nobody holds, a stop that waits for
  workers in any state. Correct means: an accepted email is one task, in one place,
  until it is sent or dropped; an address is not flooded; none waits for ever.
* **Avatar**: a request that gives up while its worker goes on, a cache that
  forgets. Correct means: the avatar exists in the channel and is one the user was
  told about; the request is answered, and its file removed unless the process is
  killed meanwhile.
* **Start and stop**: six services that use one another. Correct means: nothing
  that was closed is used, and the shutdown ends.

`PROJECT.json` lists the hazards one by one, each at its line, with the
properties that cover it or the reason none does.

## 2. Modules

```
FileTree ── Library (abstract) ◄─┐ implements, one request at a time
   └─────── FileStore ── FileStoreHistory ── MCFileStoreHistory
               ├─ MCFileStore ───────────────────┘
               └─ FileStoreProofs ── TreeProofs ── AccountingProofs
Uploads ── MCUploads                          Backup ── MCBackup
   └─ UploadsProofs                              └─ BackupProofs
ByteRange ── Downloads ── MCDownloads         Accounts ── MCAccounts
                 └─ DownloadsProofs               └─ AccountsProofs
EmailService ┐
Avatars ─────┴ Server ── MCServer
                  └─ ServerProofs
```

**FileTree** – documents, the tree they form, and what makes it a tree. A
library is a function from ids to documents. A document keeps its folder, its
content (one value per `file_hash`) or that it is a folder, its place in the
trash and its message. Names, MIME types and times are left out.

**FileStore** – `file_service.py`, and of uploads and the worker all that
creates documents and messages. `todo[p]` is the sequence of calls that process
`p` still has to make, so a recursion or a loop of the code is a sequence whose
head is replaced by what the code does next; a loop over a fetched list keeps the
documents *as they were fetched*. Each action is named for the handler or the
call: `Trash`/`TrashChildren`/`Mark`, `Restore`/`RestoreParent`/`RestoreCheck`/
`Unmark`/`RestoreChildren`, `Delete`/`DeleteChildren`/`CountRefs`/`DeleteMsg`/
`Remove`, `Move`/`Walk`/`SetParent`, `CopyFile`/`SubtreeSize`/`CopyQuota`/
`CopyDoc`/`CopyChildren`, `UploadQuota`/`Dedup`/`InsertNew`/`Enqueue`,
`Purge`, and `Take`/`Send`/`Record` of the worker. `AddUsed` is the `$inc` of the
counter wherever it stands. `Fail` ends a coroutine at any call, `Restart` ends
them all and empties the queue, `Expire` lets thirty days pass.

A chunked upload is two requests of a client, with any others in between. `init`
compares the quota with the announced size (at least one byte, by the schema) and checks
the folder (`InitQuota`, `ParentCheck`, `OpenUpload`); `complete` stands for the background
task that the last request starts, which looks for equal content and makes the record in
the folder of the session, with no check (`upload_service.py:312-334`). `uploads` is the set of
folders for which a chunked upload was begun. It never shrinks: a session that was
completed or expired may be completed again, which allows more than the program does, and
its content need not have the announced size, which the program does not compare either. A
folder that is trashed or deleted between the two requests gets its file all the same, and
the quota may be exceeded. `Sessions` gives uploads that were under way at the start.

A behaviour fixes at its start which kinds of request each client issues (`may`, one of
`Roles`), so one run can hold several casts and a property can say for which it
holds.

**Library** – what the API promises: each request is one step on whole
subtrees and the counter is always exact; only a chunked upload is two, `BeginUpload`,
which checks place and quota, and `CompleteUpload`, which puts the file into that place whatever
has become of it. **FileStoreHistory** records the store
as it was when last idle: the refinement mapping to Library.

**Uploads** – the sessions, the directories and the files in them, chunk by
chunk, the background finaliser, the records, the queue and the worker. What is
on disk is abstracted to missing, partial or full; a coroutine that lost its file
(someone truncated or removed it) goes on writing into nowhere (`Cut`).

**ByteRange** – `parse_range_header` (`ParseRange`) beside what RFC 7233 asks
for (`Requested`). **Downloads** – one link and its file: create, preview, download,
claim, revoke, expire, and the stream, in pieces of any length.

**Accounts** – one account. A request is the plan of calls its handler makes
(`Plan`); a failed check drops the rest, and so does `Fail`: a call that raises, or the end
of the process, after some calls were made. That is answered with an error, except by
logout, which swallows it and answers success (`auth.py:219-229`). `failed` keeps what such a
request still had to do, so that a property can except just what it left behind. A call
fails with nothing done or, if it fails after its work, as the one after it; an `update_many`
of sessions that fails in between counts as not done. Where a new
password is set it may be refused as too weak, after the other checks: at reset the code was
accepted by then, and stays pending. Tokens are numbered as they are issued; a code is its
number, a password is its number.

**Backup** – collections as sets of documents; `phase` and `left` say where the
request is. A failing call may have done part of its work. A document stands for
its `_id` and content, so an insertion of one that is there raises.

**EmailService** – the queue with the `None`s that end workers, the workers, the
sleeping requeues and the rate limit. Emails are model values with an address;
`asyncio.sleep` and the expiry of a limit are timers that `MailTick` advances
together, and a coroutine may run later than its timer says. `since` is history:
which emails went out less than the limit ago. `Sent`/`NotSent` are the two answers of
`send_email`; `NotSent` also stands for an email that went out and whose answer was lost.

**Avatars** – the requests that upload an avatar, with their temporary files, the
cache of tasks, which may forget any (`ForgetTask`), and the workers as an avatar
meets them: take, thumbnail, open, send. **Server** composes both under `lifespan`:
`stage` is the next thing the shutdown does. A startup that succeeded may have found
an email key or not, Telegram keys or not, and a Telegram session that is valid or
not; in the last case there is a connected client and no worker.

### Plan

Done in this order, the most important behaviour first: FileTree, Library,
FileStore and its history, its runs and the proof of its typing and of
`ParentIsFolder`; Uploads; ByteRange and Downloads with the proofs of the limit
and of streams; Accounts; Backup; EmailService, Avatars and Server with the proofs
of their invariants; the proofs of Accounts, of Backup and of Uploads; the drift of the
counter after crashes, and what holds of sweeps that meet; the proofs that moves close
no cycle, that deletions lose no document, leave no message and dangle no reference, that
the trash hides no live document, and of the types of Server; the proof that sweeps, and
copies of a client that is alone, keep storage_used_bytes exact, and that a fault leaves it
off by a bounded amount. What could follow:

1. *FileStore*: the concurrent copy with a move below its source (an abstraction
   of the ids is needed to keep it finite).
2. *Server with Uploads*: what a stop leaves of finalisations that run in the
   background, which nothing awaits.

## 3. What the runs check

| Run | Question | States |
|---|---|---|
| `serial` | Does each request do what Library says, with every nesting of folders, trash and shared messages, and chunked uploads completed into folders that were trashed or deleted meanwhile? | 408 thousand |
| `sweeps` | Do two sweeps, moves and purges keep messages, tree and termination, even if Telegram refuses; is the counter exact when one client sweeps while the other adds? | 480 thousand |
| `crash` | Is anything lost when a request dies at any call, and how wrong does the counter get? | 4.2 million |
| `restores` | *Violated:* is a size credited once when two requests restore? | |
| `moves` | *Violated:* can two moves tie a cycle? | |
| `uploads_once` | Do sessions, records, messages and directories agree under pauses, failures, sweeps, restarts? | 678 thousand |
| `uploads_race` | *Violated:* does "processing" end when the worker finishes? | |
| `uploads_pause` | *Violated:* are only abandoned directories swept? | |
| `downloads` | Do limit, bytes and refusals (416) hold for two requests and every range? | 1.3 million |
| `accounts` | Do sessions, codes and revocations hold for any four interleaved requests, or three of which one dies at any call? | 5.1 million |
| `backup` | Is an import all or nothing under partial failures and concurrent writes? | 3.8 million |
| `server` | Is every email one task, sent in the end and within the limit; is every avatar answered; does a shutdown at any moment end, in the right order? | 447 thousand |

Each property states the code behaviour it is about where it is defined. In
short:

* `Accounting`, `Consistent`: at rest, the counter is exact and the library is a
  closed tree. `Consistent` and `NothingLost` except files in folders for which a
  chunked upload was begun (`Firm`): such a file may come after its folder went to
  the trash or for good, even with one request at a time, and no text of the repository says
  otherwise. They do not except folders, nor the counter, nor messages.
  `SweepExactly`: the counter is exact, too, when one client sweeps next to uploads and new folders. It is **not** for two overlapping sweeps: see the
  findings.
* `DriftBounded`: nothing recomputes the counter, so what a request that died left
  behind stays; but one fault leaves it at most one file too high (a document
  marked or removed before its bytes were taken off, or the reverse), and too low
  by at most what an uncharged copy holds, which passed the quota. The run comes up to
  the upper bound; a copy of its libraries never leaves more than three bytes
  uncharged, one less than the quota, so of the lower bound it shows little: that it
  holds, for libraries and quotas of any size, is `DriftIsBounded`.
* `NoCycle`, `NothingLost`, `ParentIsFolder`, `NoDanglingReference`: at every
  moment, in the middle of requests. `NoDanglingReference` excepts the document
  whose removal is the next call; `SweptReferences` is the same for two clients
  neither of which shares a message meanwhile. `NoOrphanMessage`: a message a document had at
  the start is not left in the channel without one, even after a crash.
* `Termination`: walks and recursions end. `ImplementsLibrary`: the refinement.
* `CompletedMeansStored`: a completed session that is not a duplicate names a file
  with a message. Duplicates are excepted because the code really lets one
  complete as the copy of a file that has no message. `WholeContent`: records and
  messages are whole, as long as each upload is completed once and no chunk is
  sent again; the code compares neither the status nor what was done before, so
  beyond that it does not hold. `DirsReclaimed`: no directory stays for ever.
* `LimitKept`, `StreamExact`: the limit, and the bytes: a stream that ended sent those
  that were asked for, and a header that is refused asked for none. The specification has no
  fairness: nothing is promised about a client that stops reading.
* `RevokedStaysRevoked`, `SessionsRefreshable`, `OldSessionsEnded`, `PurposeKept`,
  `UsedCodesGone`. The second, third and fifth except what a request that died half-way
  was just about to put right: the session whose token it had revoked and was to replace or
  end (`Replacing`), the sessions it was to end for the password it had set (`Ending`), the
  code it was accepted for and was to clear (`Redeeming`). The code does leave these
  behind; the properties say that nothing else does, and that a request that dies
  anywhere else leaves none. `OldSessionsEnded` is about sessions inserted under an older
  password: a login that checked the old password and inserts its session after
  the change is not covered by it, and the code does let it in.
* `AllOrNothing` excepts collections someone else wrote to and those the answer
  reports it could not revert. `OthersUntouched` has no exception but writes.
  `RoundTrip` is about collections within the export limit, and the run has no larger
  ones: what an export cuts off (`backup.py:38`), its import removes.
* `OneTask`, `RateLimited`, `Settled`: an accepted email is in exactly one of the queue, a
  worker's hands and a sleep; an address gets at most one email per worker within
  the limit's seconds (not one: both workers may pass the check before either has
  sent); and it is sent or given up in the end.
* `AvatarStored`, `Answered`: a request that timed out never changes the avatar
  later, and every request is answered, whatever Telegram does.
* `ClosedUnused`, `ShutdownEnds`: the order of the shutdown, and its end.

### Findings

1. `restores`: two concurrent restores of one file both pass the re-check and both
   credit its size (`file_service.py:253-259`).
2. `moves`: two concurrent moves make two folders each other's parent
   (`file_service.py:87-93`); `move_folders` even gathers its moves.
3. `uploads_race`: the worker may finish before the session knows its file; the
   session then stays `processing` (`upload_service.py:335-344`).
4. `uploads_pause`: pausing and resuming refresh the session but not the
   directory, which the sweep removes under an active upload
   (`upload_service.py:91-97`, `265-281`).

### Bounds

* *FileStore*: libraries of up to three documents are enough for a folder in a
  folder with a file, for two files that share a message, for a trashed document
  in a trashed or live folder; the runs with two clients use all libraries of two
  documents and those in which a document lies below two folders, where two
  requests can meet in a recursion. Contents are one value and the quota four
  times its size, so a copy can reach it. `FirstId`, `FirstMsg` are the first
  unused numbers. In `serial` a chunked upload was begun before for one
  place, any folder or the root, in `crash` and `sweeps` for the root or the folder with id
  2, which a library has below another folder, at the root, or not any more; in the last case
  its documents may lie in it. One may be begun besides. `MaxRequests` is 1 or 2: two requests are the least that
  interleave, and in `crash` the least that retry. `MaxActive` limits the
  coroutines at work (1 = one request after the other).
* *Uploads*: one chunked upload of two chunks and one small upload with the same
  content, two client coroutines (a request and a background task, or two
  requests) and one worker, one restart, two requests to complete. The violation
  runs need one chunk and no fault. A schema admits only `file_size > 0`, hence
  at least one chunk.
* *Downloads*: a file of two bytes, every header with numbers up to two (beyond the
  end, backwards, empty suffix) and a suffix of three, limit one or none, two requests; no request
  begins after two claims. What is true of larger numbers is proved.
* *Accounts*: access tokens live one tick, refresh tokens two, time stops at two:
  each can expire, alone and together with its blacklist entry. Four requests on
  two coroutines: a login, a refresh and two more. One
  request may die (`MaxFaults`), and then there are three: a login, a refresh or logout
  that dies, and another.
* *Backup*: two documents, two allowed collections and one unknown, all databases and
  all files over {absent, malformed, empty, one document} and whatever was
  exported, two failing calls (the import's and its revert's), one write.
* *Server*: two email workers as in the code, one Telegram worker, one retry.
  Four loads: three emails to one address (one more than there are workers), one to
  each of two addresses, an email with an avatar, two avatars on one worker. The limit
  is three ticks and the backoff of the only retry two, so a retry may come back
  to a limited address. The timeout of an avatar is one poll.

Symmetry is declared for the interchangeable coroutines of `downloads` and
`accounts` only, which check invariants. Deadlock is checked where a run has a
`Finished` step or never stops (FileStore, Backup); the others reach their bound
and stop, and a server that was shut down is at its end.

### Fairness

An event loop runs every coroutine that can run, and every call to MongoDB and
Telegram returns or raises; hence weak fairness of each coroutine's next step in
FileStore and Uploads, of the hourly sweep (`_cleanup_loop`, `upload_service.py:
66-74`) and of the passing of days. Nothing is assumed fair about clients: no
request has to come, no paused upload has to be resumed. In Server the email
workers (their HTTP client has a timeout of its own), the sleeping requeues, time, the
polling requests and the shutdown are weakly fair. Nothing is assumed of the Telegram
workers, since sending a picture may take for ever, nor of the start of a shutdown.

## 4. What is proved

All for every value of the constants.

**FileStoreProofs** – assumes that `Size` gives naturals, that the initial libraries
use ids and messages below `FirstId` and `FirstMsg`, that folders have no message (`create_folder`
gives them none), that no content is called "folder" and that no process is both client and worker (the named assumptions of
FileTree and FileStore).

* `TypeCorrect`: `Spec => []TypeOK`, out of `Invariance`: `Spec => []IInv`.
  `ParentIsFolder` is not inductive: it says nothing of the destinations that
  requests have validated and not used yet. `IInv` therefore says three things: the
  types; every document's parent is *safe*, that is an id that is no file's and
  never will be (the root, the id of a folder, or an id that was handed out and is
  gone); and every destination a process still carries in a frame is safe too,
  unless it is the one whose check is the very next call. Ids are handed out
  once and a folder never becomes a file, so what is safe stays safe, and each
  action leaves only frames with safe destinations. The proof has one lemma per
  action (`MoveKeeps`, `InsertNewKeeps`, ...), on lemmas about frames and
  sequences of frames.
* `ParentsAreFolders`: `Spec => []ParentIsFolder` follows.

**TreeProofs** – from the same assumptions, on top of `IInv`. The invariants below are about
frames and their order, so the actions are first brought to one form: `StepShape` says
that a step of a process replaces its first call `h` by the calls `Follows(p, h, new)` allows,
and changes the collections by `Effect(h)`. The proofs then split on the kind of call.
`OneRequest` says which calls a request of each kind can still make. (That part stands at the
end of FileStoreProofs.)

* `MovesCloseNoCycle`: `NoCycle` at every moment, also after crashes, while at most one
  client moves (`OneMover`). `move_file` reads the ancestors of the destination one per
  `await`, and others trash, restore, delete, copy and upload in between. `CycleInv` says
  what the answers so far are worth: there is a set of ids that holds the destination but not what
  is moved, and with each document its parent, as far up as the walk has come (`Climbing`); once
  the walk is over, up to the top (`Clear`). It stays so until `SetParent`, since
  only a move changes a parent and ids are not used twice. The premise cannot go:
  two moves do close a cycle (run `moves`).
* `DeletionsLoseNothing`: `NothingLost` at every moment, if no client deletes or purges while
  another puts documents into folders (`Apart`; the completion of a chunked upload is such a
  request). Files in places that chunked uploads were begun for are excepted by `NothingLost`
  itself, as they are by `Consistent` below: `uploads` only grows, so what is excepted stays so. `LostInv`: whatever lies in a
  folder that some frame is about to remove is removed by a frame before it. A document
  placed between the listing of a folder and its removal breaks this, which is the
  listed hazard at `file_service.py:217`.
* `RestsConsistent`: `Consistent`, the two above and that no live document is hidden in a
  trashed folder, whenever no request is at work; if no request died half-way, and if
  no client trashes while another puts documents into folders or restores (`TrashApart`).
  In the middle of a restore a live document may lie in a trashed folder, so
  `TrashInv` looks ahead: `Low` is what is in the trash *and* stays there, that is without what
  some call still to come takes out (`Raised`); no live document lies in a folder of `Low`
  (`Hung`). What a process has yet to do keeps it so (`Sound`): before a folder is marked, earlier
  calls mark all that is live in it (`MarkNeeds`); before a document is taken out of the
  trash, earlier calls take out its folder, if that is in `Low` (`CheckNeeds`); every folder
  that a call is going to put something into has been checked and is not in `Low` (`Fine`); and a
  restore that still climbs has raised nothing, so it may end early (`Climbs`). "Earlier calls
  give what later calls need" is `Before`, about any sequence, with lemmas for what
  a step does to it. None of the premises can go: two moves close a cycle; a restore that dies
  between a subfolder's content and the subfolder, and a document that is put or restored into a
  folder after its listing, leave something live in a folder of the trash.

The second half of TreeProofs is about messages. `Facts` says what frames know of the messages of the
start, `OrderOK` that the calls of one deletion come in the order `countRefs`, `deleteMsg`,
`remove`, so that no copy of a message is decided upon while another is half done.

* `DeletionsLeaveNoOrphan`: `NoOrphanMessage`, for one client that deletes (`OneDeleter`) and a
  Telegram that deletes what it is asked to. `OrphanInv`: when a document
  is about to be removed (`Settled`), its message was deleted or another document has it.
* `DeletionsDangleNothing`: `NoDanglingReference`, if no client deletes while another copies or
  uploads (`SharersApart`) and no coroutine died: one that dies between `deleteMsg` and `remove`
  leaves a document without its message. `RefInv` adds that a message which a frame carries
  to a new document exists, and that the count on which a deletion acts is still true
  (`Sole`: nobody else has the message). `FreshInv` is needed for the worker: a message that is sent and
  not recorded yet is in no document and no frame.
* `SweepsDangleNothing`: the same, with no premise but that no coroutine died, for any number of clients
  that trash, restore, delete, purge, move and make folders in the same subtree
  (`SweptReferences`).

**AccountingProofs** – from the same assumptions, on top of `IInv`, `OneRequest` and `CycleInv`.

* `SweepsExact`: `SweepExactly`, if no request died and nobody works beside a client that may copy
  (`CopiesAlone`): one client trashes, restores, moves, deletes and purges, the others add
  documents. At every moment the counter plus what all processes still owe it (`Owed`) is the
  bytes of the live files (`Drift` is 0). What a process owes (`Debt`) is the sum of its
  frames' debits: the bytes of an `$inc` to come, what a `mark` or `remove` will take from the
  live files, what an `unmark` will add to them. For a step to keep it, the frames must stay what
  they were when they were made (`Tidy`): a document that was fetched is still there, of the same
  kind and in the same state of the trash (`Fresh`), no other frame works on it or below it
  (`Ahead`: their `Region`s are disjoint), and what is live in a folder is dealt with before
  the folder is. `Turns` says that a frame gives way to frames that owe as much; there is a
  lemma for each kind of call, and one for each change of the library about the frames it leaves
  alone (`ShiftInsert`, `ShiftChange`, `ShiftRemove`).
* `AloneExact`: `Accounting` for a client that works alone (`OneWorks`), copies among its requests. A
  copy measures, checks the quota, writes and books, so its frames are not `Tidy` but have one of
  four shapes (`CopyShape`). While it measures, the total and the live bytes below what is still
  on the list are the live bytes below the source. While it writes, what it has still to
  copy lies in a set of documents closed under children in which no destination lies, so
  that no insertion changes it; what it books at the end, less the live bytes that are still to be
  copied, is what it owes.
  That needs the walk over the ancestors and `NoCycle`. Beside a copy nobody may work: an upload into
  the folder that is being copied may be inserted into the copy, which measured it too
  early to pay for it.
* `DriftIsBounded`: `DriftBounded` for a client that works alone, if there is a content and none is
  larger than the quota (`Modest`: restoring a file is not checked against it). Whether a
  request dies or the process is restarted, `Drift` becomes minus what the client owed at that await,
  and for good; so at every await what it owes must be small (`Small`: no
  more than the quota, and no less than what one file takes away). That is not inductive: the frame
  at the head may hide a large debt further down. `Slight` says it of a stack at every turn of the
  way down, and that what follows a frame owes nothing unless the frame is one of the
  few that deal with one document, its message and the counter (`Handling`: `mark`, `unmark`, `remove`,
  `add`, `countRefs`, `deleteMsg`). A recursion over a folder is then a sequence of documents
  each of which is paid for before the next is taken. A copy is bounded by what it passed the
  quota with: what is still to be copied is only ever subtracted (`TallyDown`).
* Sums over sets and over sequences of frames, and what lies below a document, come by
  recursion or as a least set; the library's induction theorems cannot be used, so
  `Counting` and `Growing` get induction out of the fact that a finite set has no bijection with
  a proper subset. The lemmas on `SumOf`, `Tally` and `Span` rest on them. (They, and the lemmas about
  what single calls owe and change, are at the end of FileStoreProofs.)

**DownloadsProofs** – assumes a file of at least one byte, headers of the type
`Header` and limits that are naturals.

* `RangeIsWhatWasAsked`: for any header and size, the interval `ParseRange` answers is
  the set of bytes `Requested` names, and it answers `NoRange` (416) exactly when that is
  empty. `Requested` is RFC 7233, which the function names: a span that ends before it
  begins is invalid (section 2.1), a range beyond the file unsatisfiable, and for both section
  3.1 has the server answer 416. (RFC 2616 had invalid ranges ignored.) What is no
  byte range by its grammar, and so `bytes=-`, is served as the whole file.
* `LimitIsKept`: the inductive invariant adds to `LimitKept` that a link without
  status has no count, and that the limit a request carries to its claim is the
  link's. The limit of a link never changes, and the claim compares and counts
  in one step.
* `StreamsAreExact`: the invariant says of a request that streams that its range is the
  answer to its header, lies in the file, and that the position lies in the
  range; at the end the position is just beyond it.
* `TypeCorrect`.

**UploadsProofs** – assumes that there is an upload, that none is both chunked and small,
that no process is both client and worker, and that no content is called "none" or
"part". Four invariants, each on top of those before it:

* `TypeCorrect`, `CompletedIsStored` (`StoredInv`): only what lies in a directory is on
  disk, each call is made by the kind of process that makes it, about a file record that
  is there, and a worker whose next call tells the sessions has written the message to
  the record (`Carries`). Records are never removed and never lose a message.
* `BegunInv`: sessions, jobs and tasks are of uploads that were begun, so that a new
  upload meets nothing of an earlier one.
* `ChunksInv`, for clients that do not resend: a chunk that is received has one writer and
  was not received yet; a chunk whose request is done with it is whole or gone; and an
  assembly is of an upload whose chunks were all received, with none on its way. So
  no chunk is read half written. `Progress` says what a step of one process leaves
  alone on disk and in sessions; every step but a new request or a restart is one.
* `RecordsAreWhole` (`WholeInv`), for uploads completed at most once: one process at a time
  assembles an upload; until its file is closed nothing is pending for it, and from then on
  nobody opens it again, so what a worker finds at the final path is whole or gone; a
  record has the content of its upload, and a lookup finds a message of the same
  content (`Placed`, `Described`). `Carried` says what a step of one process
  leaves alone of this.

**AccountsProofs** – assumes lifetimes in `Nat \ {0}` and that no kind of request is
unknown.

* `TypeCorrect`, `RevokedStays`, `CodesKeepTheirPurpose`, out of one invariant in six parts
  (`IInv`). The parts that are more than types: an access token expires no later
  than `AccessLife` from now, so the entry `RevokeAccess` writes outlives it; an entry of
  the blacklist outlives its token, so `ForgetRevoked`, which waits for the entry to
  expire, never frees a token that decodes; a request whose plan still contains a
  revocation carries a token that was issued, of the type revoked; and the pending
  code is one that was sent with the pending purpose.

The other three hold when no request is at work and fail in the middle of requests. Their
invariants say at every moment *who* will restore what does not hold: some request still
has the call to make that does, or had it to make when it died (`failed`). For that, `Shapes` says what is left of the plans
behind a call (`Ends`): a request that sets the password ends the sessions next, one that
revokes the token of a session replaces it or ends the session next.

* `OlderSessionsEnd` (`PasswordInv`): if a session was inserted under an earlier password
  and is active, some request that is at work, or died, had `endSessions` next.
* `CodesAreUsedUp` (`CodeInv`): if the pending code was accepted, some request that
  accepted it still has the call to make that clears it, or died before.
* `SessionsCanBeRefreshed` (`RefreshInv`): the refresh token of a session was issued for it
  and lasts as long, no two sessions have the same one, and if it is revoked while the
  session is active, some request has `rotate` next for this session or `endSession`
  for this token, or had when it died.

**BackupProofs** – assumes that `ALLOWED_COLLECTIONS` is not empty and names
collections, and that the limit of an export is a natural.

* `ImportIsAtomic`, `OthersStay`, `TypeCorrect`, out of one `IInv`: what is done and what is left
  make up the collections of the file; and of each collection nobody else writes to,
  a snapshot is what it was before, one that was not reached yet or was reverted is
  as it was, and one that was completed is as in the file. A call that fails
  with part of its work done leaves its collection among those to revert, which
  is what `AllOrNothing` needs to be inductive.
* `ExportsComeBack`: in addition that an export within the limit is the whole collection.
  It assumes finitely many documents, no more than the limit.

**ServerProofs** – assumes that there are finitely many workers (`stop` puts one `None` per
worker), that no email or avatar has a reserved name and that timers are naturals.

* `NothingClosedIsUsed`: `ShutdownInv` says what each stage has left behind (loops
  cancelled, `_is_running` false, workers ended, no request at work), and that it stays
  so: an ended worker never gets a task, and no request begins after `"up"`.
* `EveryEmailIsOneTask`: `TaskInv` is `OneTask` with the types it needs; each action takes an
  email from one place to one other, which is a lemma on occurrences in a sequence
  for each of `Append`, `Tail` and the `None`s put behind.
* `RateIsLimited`: `LimitInv` says that the workers which are sending to an address, together
  with the emails it got within the limit, are no more than there are workers (without
  the former, the number of emails says nothing of what is still to be sent), and that
  an email counts as recent no longer than its address is limited.
* `AvatarIsStored`: `AvatarInv` adds that a task that is completed, and a request that
  saw it completed, have their picture in the channel.
* `TypeCorrect`: the types alone are not inductive, since what a Telegram worker sends joins
  the pictures in the channel; `SendersBusy` says that a worker which is sending has an avatar.

**Only model-checked**: `Termination`, `DirsReclaimed`, `Settled`, `Answered` and
`ShutdownEnds` (liveness is out of the prover's reach); `ImplementsLibrary` (whole subtrees change in
one step of Library). `Accounting` and `SweepExactly` are proved for clients one of
which at most copies, and then alone; `DriftBounded` for one client.

## 5. What is not modelled, and why

* `rename_file`, `toggle_favorite`, profile fields, notifications, and an administrator
  changing role, quota or the verified flag: single updates of a field nothing else
  in the models reads.
* Lists, search, statistics, health, storage information: they only read.
* Thumbnails of files, progress, the health monitor, the download queue (nothing feeds
  it) and the retry loop within a call to Telegram, which is one step that succeeds or
  fails.
* The text of emails; codes are modelled as delivered to their owner, though a retried
  email may arrive after a later one.
* `email_share`: it checks like `access_share` and enqueues an email.
* Hashing, JWT encoding, passwords of links, request rate limits, JSON conversion, schemas
  and validators, logging and headers.
* That `file_size` of a chunked upload is what its chunks add up to: the code does
  not compare them, and the models do not relate them.
* Several owners: every query is scoped to its owner; only the count of
  references is not, and there the other owners' documents never have the message.
* A startup that fails: it ends the process before any request. Answering the requests
  that were accepted before `lifespan` shuts down is uvicorn's, and `Shutdown` waits for it.

A few things the models show, or leave open, that no text of the repository promises
otherwise: emails that sleep or are queued when the server stops are lost; an email
whose answer was lost is sent again; a rate-limited email may be put off as long as new
ones to its address keep coming (`Emails` is finite); the caches of rate limits and
tasks have a size (10000 and 5000) beyond which the oldest entry goes early, which
`ForgetTask` covers for tasks and nothing does for limits; a background finalisation
is not awaited at the stop; a 2FA toggle writes the negation of what it read, so two at
once amount to one; a slot of a link is spent before its stream begins.
