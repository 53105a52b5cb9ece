# Verification of jitong

jitong is an instant messenger: a C++ server (`src/im_server`), a C++ client
kernel (`src/client_core`) and an Android app (`src/jitong_android`) that runs
the kernel through JNI. This directory holds TLA+ models of the parts of it
whose correctness depends on the order of events, the TLC runs that check them
on small instances, and theorems about them proved with TLAPS.

The models:

| Module | Part of the system | Checked | Proved |
|---|---|---|---|
| `ChatServer` | the server's message path | numbering, final rows, presence, delivery flag | types, numbering, final rows, presence, storage before sending, delivery flag |
| `AuthTokens` | the server's tokens and a device that refreshes | exchange once, revocation, no false replay, the device's way back | types, history, revocation, no false replay, the device's way back |
| `UploadServer` | upload sessions, files, records and collector of the HTTP server | with `MediaUpload` | with `MediaUpload` |
| `MediaUpload` | the client's upload of a message's file, together with `UploadServer` | complete files, the card, an attempt that succeeds | types, complete files, finalized files, the card with one pump and with many, final drafts |
| `SecureConnection` | a connection of the client: threads, transport, secure channel, heartbeat, and the server's session | frames in step, refusals, report of the end | types, frames in step, refusals |
| `AccountSession` | the client's login, refresh and reconnect | kick is final, no credentials after the end, bound login | types, kick, no credentials after the end, bound login |
| `Outbox` | the client's sending side | no loss, one settlement, backoff, retry at the alarm | types, no loss, status, settlement, backoff |
| `GapSync` | the client's repair of holes in a conversation | water mark, filling of a gap that was asked for | types, rows below the mark, monotonic mark |
| `NativeStore` | the client's database: opening, closing, write queue, read pool, lock file | with `KernelHost` | with `KernelHost` |
| `KernelHost` | the Android host, the runtime's life cycle, commands, invalidations and the list of conversations, over `NativeStore` | true answers, nothing hangs, the list catches up | types, one writer, no use after close, true answers, implements `NativeStore` |
| `OneSource` | what the cutover promises (abstract) | – | – |
| `Cutover` | the move from the old store to the native one | implements `OneSource`, ends | types, implements `OneSource`, who may write |

`PROJECT.json` names the module of each run; for example
`tlc -config GapSync.cfg MCGapSync` or `tlc -config KernelHost.cfg KernelHost`, and
`tlapm` on the `*Proofs` modules.

## 1. The system

### Server

| Component | State | Operations | Interacts with |
|---|---|---|---|
| Connection (`session/Session.cpp`) | security state, counters of the secure channel, write queue, user and auth session | read, deliver, close, closeAfterWrite, handshake and its deadline | posts packets to its business strand; tells Server when it closes |
| Server (`core/Server.cpp`) | acceptor, pool of strands, heartbeat thread | accept, dispatch (with the test of token expiry), closed session, stop | Presence, Dispatcher |
| Presence (`session/Presence.cpp`) | user id to session (weak) | online, offline, get, touch, scanStale | all handlers |
| Messages (`handlers/MessageHandler.cpp`) | – | onChat: checks, number and save, push, answer | Presence, Database, upload records |
| Login (`handlers/AuthHandler.cpp`) | – | login, token login, refresh, logout, activateSession (takeover, pull of undelivered messages) | TokenService, Presence, Database |
| Tokens (`auth/TokenService.cpp`) | cache of recent refreshes, rotation mutex | issue, validate, rotate, revoke | `auth_sessions`, `auth_refresh_history` |
| Friends (`handlers/FriendHandler.cpp`) | – | request, answer, list, delete | Database, Presence |
| History (`handlers/RoamHandler.cpp`) | – | conversation list, page of history | Database |
| Media (`media/HttpFileServer.cpp`) | upload records and challenges in memory, sessions in the database, files | create, chunk, finalize, cancel, instant upload, download, collect | Database, onChat |
| Database (`db/Database.cpp`, `db/DbWriteQueue.cpp`) | SQLite tables; one write thread | one transaction per call | all handlers |
| AI (`handlers/AiHandler.cpp`, `ai/`) | active and cancelled requests, limiter | reply, cancel | model provider over HTTPS |

Threads: an I/O pool with a strand per connection, a pool for handlers with a
fixed set of business strands, HTTP threads, the database writer, the heartbeat
thread and the collector of uploads.

### Client kernel

| Component | State | Operations | Interacts with |
|---|---|---|---|
| AccountSession (`account/`) | state machine, credentials, reconnect policy, generation | login, start with tokens, logout, cancel, kick, answers, reconnect | ClientCore through ClientCoreAuthTransport |
| Connection (`TcpTransport.cpp`, `ClientCore.cpp`) | socket, I/O thread, write queue | connect, send, close, report of a close | sinks of the account and of the runtime |
| Secure channel (`transport/`) | keys, counters | handshake, encrypt, decrypt, reset | connection |
| ClientRuntime (`runtime/ClientRuntime.cpp`) | life-cycle state, outbox pump, gap machinery, sync timer | start, stop, sendText, handlers of incoming packets | MessageService, SyncService, database |
| SyncService, SyncTracker (`sync/`) | arrived ranges, gap attempts | observe, pending gaps, charge an attempt, restore | `messages`, `sync_gaps` |
| MessageService, NativeRepository | `messages`, `outbox` | commit a draft, claim, finish an attempt, commit an answer, merge | command queue |
| Storage (`storage/`) | command queue and its thread, read pool, process lock, keys | submit, read, open, close | SQLCipher |
| Media (`media/MediaService.cpp`) | `upload_drafts` | enqueue, pump, resume, cancel | HTTP transport, outbox |
| CompletionRegistry, InvalidationBus | ends of operations, changed domains | complete, consume, evict, publish | observers in Kotlin |

Threads: the caller's (JNI), the I/O thread, the connect and reconnect threads,
the outbox pump, the sync timer, the database writer, the completion executor.

### Android

`NativeKernelHost` opens the account's database and starts the runtime when the
account layer reports a login, and tears both down on a kick or a logout. The
cutover classes move an installation from the old Room database to the native
store, with a journal in the database and an authenticated mirror of it. The
rest is JNI conversion, presentation, and the old Kotlin client.

### What is hard

* Handlers of different connections interleave between their calls of presence,
  database and sessions (server).
* A connection can be replaced, and its close arrives late (server and client).
* Every answer can be lost, and the client retries with the same identifier.
* Three threads of the client ask for the same gap; two locks and a database
  call lie between the decision and the request.
* Threads are joined under a mutex that they may be about to take.
* The process may die between any two transactions; some state is in memory
  only.

### What makes each part correct

* *Message path*: numbers of a conversation are 1, 2, 3, …; a message is stored
  before anyone hears of it; a retry gets the first number; an online user is
  reachable; a message not read stays to be delivered.
* *Tokens*: a refresh token is exchanged once; a revoked family stays revoked;
  an honest retry is not taken for a replay and gets the same pair.
* *Account session*: credentials that are gone stay gone until the next
  operation; a kicked account stays out; "authenticated" agrees with the server;
  no thread waits for itself.
* *Outbox*: a message sent by the user is never dropped, settles once, and is
  retried when its time has come.
* *Gaps*: the water mark passes stored messages only, never goes back, and
  a gap that was asked for is filled in the end.
* *Media*: a finished upload has the bytes its hash names; a card is sent once;
  whatever went wrong before, the next attempt can finish the upload.
* *Storage*: every command ends once; close waits for readers and cannot wait
  for itself.
* *Cutover*: whatever step the process dies in, at most one store accepts
  writes, and the switch keeps every message and every conversation.

## 2. The models

Each module begins with what it models and how. `PROJECT.json` maps every
definition to its lines. Common conventions: an action is one section of the
code that no other thread can interleave with (a section under a mutex, a task
of the database writer, a call of another object's locked operation); a
transaction that may fail has an outcome chosen by the environment; bounds are
constants and are marked `bound` where they are declared.

### ChatServer

State: connections and their sessions, frames on the business strand, the step
of the running handler and its local variables, Presence, the `messages` rows
(`seq`, `delivered`), friendships, upload records, packets on their way, and
what the clients have read. `StartChat`, `ChatGet`, `ChatSave`, `ChatPush` are
the steps of `onChat`; `StartLogin`, `ActReplace`, `ActPull`, `ActResend`,
`ActMark` those of a login's `activateSession`; `Close` is `onSessionClosed`;
`GcUpload` the collector; `Restart` an orderly or sudden end of the process.

Left out: FriendStatus packets, the text of messages, and authentication (a
login frame names its user). Two connections of one strand are modelled as two
strands, which only adds interleavings.

### Outbox

State: the outbox row and message status of each message, the pump's place in
its loop and its wake-up time, the attempt noted in `m_inflightMessages`, the
gate and the life-cycle state, requests and answers on their way. A
transaction can fail, or be done although its caller was told that it failed:
the claim, the record of an attempt, the commit of an answer. The writer works
first in, first out, and the times in a transaction are those of its call, so
one that is done late looks to every other step like one done at once. Points in
time are kept as the time left, so no clock grows. `PumpWait` to `FlushEnd` are
the pump; `Draft`, `Register`, `WakePump` are `sendText` on the caller's
thread; `AckRead` and `Ack*` are `handleChatAck` on the I/O thread.

### AccountSession

One action per entry of `AccountSession` (all run under one mutex). `cth`,
`rth` and `io` say where the connect, reconnect and I/O threads are; an entry
that joins a thread which needs the mutex sets `stuck`. `world` fixes for a
behaviour whether the token store and the device key may fail and whether
somebody calls `tick()`; nothing but the tests does. One account is modelled,
and the heartbeat's close is the loss of the connection (`Lost`). `crossed` is a
history variable: the newest operation was begun while the connect of an
earlier one, or the timer of a reconnect, was still running.

### AuthTokens

A token pair is a session and the generation of its row. `job` is the step of
the handler of each connection: look-up of the device's key, replay cache and
history, the transaction, the binding of the session. The mutex of
`rotateRefresh` is `lock`. The device keeps its pending `request_id` until an
answer and retries on a new connection. A kept result goes when it is 120
seconds old (`CacheExpires`), when the server restarts, and when a new one is
kept while 1024 are there already: then an arbitrary one is erased
(`RotateCommit` may erase any, for the number of other devices is not bounded).
None of these looks at handlers that wait. `gone` is a history variable: the
request ids whose result was erased.

### GapSync

State: the server's newest number, the client's rows, the tracker (`arrived`),
the retry state of a gap, the single-flight flag, page budget and the one timer
entry of the conversation, where each of three threads is in
`maybeRequestGap`, and the packets between client and server. `Look`, `Clear`,
`Later`, `Claim`, `Arm`, `Charge` are its sections; `FireRetry`, `FireTimeout`,
`Lapse` the sync timer; `ReadPush`, `ReadConvs`, `ReadPage`, `ChargePage` the
handlers; `Serve` the server's answer; `Restart` loses everything but rows and
`sync_gaps`.

Several holes can be open at a time, each with its retry state; the flag, the
budget and the timer are the conversation's.

Abstractions: one conversation; attempt counts and backoff lengths become
"waits" or "due"; the send gate and the connection are one flag; the messages of
a page are stored in one step; the answers to own messages, which take the same
path as a push, and a failing `persistGaps` are left out. The constant `MaxWire` bounds the packets
that are under way when another is caused; `MaxFaults` bounds the faults by the
number of messages.

### UploadServer and MediaUpload

`UploadServer` has the `upload_sessions` and `upload_chunks` rows, the `.part`
and finished files with the chunks whose bytes they really hold, the records
and challenges that are kept in memory, and a `job` for each HTTP thread. A
request is a sequence of steps, one for each lock, transaction or file
operation of its handler: a chunk is `ChunkAccepted`, `StoreChunk`, `OpenPart`,
`TruncatePart`, `WriteChunk`; finalize is `FinalizeStart`, `Verify`,
`RenamePart`, `RecordFinal`, `Register`, `KeepRecord`; the collector is
`CollectRecords`, `CollectFile`, `ListExpired`, `UnlinkExpired`, `DeleteExpired`.
`MediaUpload` extends it by the client: `draft` is the row of `upload_drafts`,
`pump` the place of a `pumpMessage` and `cur` its copy of the draft, which it
goes on with while another pump or the user's `cancel` changes the row. One
request is under way for a pump; it can be lost before or after it was handled
(`RequestLost`, `GivesUp`), and either side can die. A second device uploads
the same bytes (`ForeignUpload`). The message that names the file takes its
record in the steps of onChat: `FindRecord`, `SaveMedia`, `EraseRecord`.

`RenamePart` follows `HttpFileServer.cpp:351-366` to the letter: when the rename
fails, the file is copied, the copy's error is ignored, the `.part` file is
removed and the session is recorded as finalized. The history variable
`spoiled` has the names under which such a copy failed.

`quiet` is a history variable too: the pumps whose attempt began on good terms
(`GoodTerms`) and met no fault since.

Left out: sizes, digests and authentication of a request, the second variant of
a picture (it takes the same path), and downloads.

### SecureConnection

Threads: `C` connects, `H` beats, `B` sends for the rest of the program, `U`
disconnects, and the I/O thread takes tasks from `ioq` and reads. A frame is
its kind, the epoch of its keys and its number. `chan` is the client's channel,
`srv` the server's session, which refuses what its state does not allow and
closes. `sendPacket` is `Check` (is the channel established?) and `Post`;
`encrypt` on the I/O thread is split in `Seal` and `Number` because `reset()`
on the caller's thread is not synchronised with it; `past.intruded` records
that such a thing has happened on this connection. `TcpTransport::close` is
`CloseStart` to its join; joining one `std::thread` twice and assigning to one
that is joinable end the program, which is what the C++ library does
(`Terminate`).

Left out: the bytes of frames, the key exchange, TLS, the write queue (a failed
write is seen as the end of the reads), a disconnect before the first connect.

### NativeStore and KernelHost

`NativeStore` has the status of every `NativeDatabase`, the steps of
`closeInternal` (`ClosingSteps`), the lock file, the queue and writer thread,
and the place of every caller and reader. A caller fetches the queue under the
database's lock and submits to it outside (`Fetch`, `Submit`), so that a close
falls in between. A wait may time out while its command still runs.
`KernelHost` adds the host's phase and its running method, the runtime and its
admission (`m_admitted`, `CompletionRegistry`), the version counter, the
invalidation bus and the list of conversations, which reloads itself on a new
version (`NativeMessageController.kt:52-57`) and is empty when that read fails
(`blank`). `DrawVersion` and `Publish` are two steps, as they are in `markRead`.
Events of an earlier runtime can arrive after the next one has started; `strays`
is a history variable that says whether one was taken for an event of the new
runtime, and whether it hid one. Activation after a
login, an account that is left, and a failed activation run `destroy` and
`close` step by step.

Left out: other commands of the runtime (they are in `Outbox`), cancel tokens,
and media. Other readers read once and begin while no command is under way, a
bound on the state space.

### Cutover and OneSource

Every durable thing is a variable of its own (Room's rows, change log and
fence; the request and the mirror in the preferences; rows, import state and
journal of the native database), and every call that changes one is a step, so
that the process can be killed in between (`Kill`) or a call can fail, with or
without its effect. `Decide` is the choice a starting process makes. `online`
distinguishes two callers: the application, whose migrating process never
starts the old client, and the coordinator's own contract, with an old client
that writes until `stopAndDrain` and a caller that tries again.

The importer writes the conversation of a message with the message: it inserts
one that is not there and rewrites the preview of one that is
(`MigrationImporter.cpp:322-332`, `:652-658`; `PutMessage`). A message can be
without a conversation in Room: the code saves it in a transaction of its own,
and history saves no conversation at all.

`OneSource` is the promise: one owner of the data at a time, a switch that
keeps every message as it is, neither adds nor drops a conversation, and is
never undone. What a conversation shows is not promised: the preview in the
native store is the one of the last imported change of a message, which need
not be Room's. The refinement mapping makes "nobody" the
owner while the fence stands without `NO_WRITE`, and "both", which `OneSource`
does not know, of a Room that accepts writes after `NO_WRITE`.

Left out: full-text search, the parts of the evidence that agree
when state and high water do, a damaged mirror, a change of account. Pages hold
one row, and Room never deletes a row.

## 3. The runs

| Run | Instance | Distinct states | Shows |
|---|---|---|---|
| `chat_server` | two friends, three connections, a text and a media message, one retry each, one restart | 518 000 | `TypeOK`, `SeqDense`, `OnlineReachable`, `RowsAreFinal` |
| `chat_lost_push` | the same | 12 000 until found | **violated**: `KeptForCatchUp` |
| `auth_tokens` | one session, two connections, two request ids, three pairs | 500 000 | all properties of `AuthTokens` but `RetryGetsSamePair` |
| `media_upload` | two chunks, two sessions, two challenges, two HTTP threads, one pump, a cancel, a second device, one fault | 1 682 000 | `WholeFiles`, `FinalizedHasFile`, `SentHasCard`, `AttemptSucceeds` |
| `connection` | two connections, three packets, disconnects or faults in all, fairness | 471 000 | `ConnectionTypeOK`, `InStep`, `RefusedOnlyIfIntruded`, `CloseReported` |
| `account_session` | four operations, three platforms | 752 000 | all properties of `AccountSession` but `NeverStuck` |
| `account_stuck` | everything works | 62 until found | **violated**: `NeverStuck` |
| `outbox` | one message, every answer, retry times before, at and after the lease, one answer handled while another is under way, one fault, fairness | 485 000 | all properties of `Outbox` |
| `gap_sync` | four messages, pages of two, a budget of two, one cursor; two holes at a time without faults, one hole with two faults; fairness | 281 000 | all properties of `GapSync` but `BackedOffGapHasWaker` |
| `kernel_host` | two commands, the list of conversations and another reader, two openings of the database, one fault, fairness | 706 000 | all properties of `NativeStore` and `KernelHost` but the three violated ones |
| `host_reconnect` | one command, two login events, no fault | 540 until found | **violated**: `ReconnectKeepsKernel` |
| `cutover` | two messages, one conversation, four writes, two faults, fairness | 845 000 | `TypeOK`, `LegacyCanWrite`, `OneSourceSpec`, `UndisturbedCompletes` |

Deadlock is checked for `cutover` only, where a user can always do something:
in the others clients may stop asking, and every bound is a guard, so the
models may really stop.

Some properties are stated in the modules and belong to no run. Seven of them
do not hold, and section 4 says why (`RetryGetsFirstSeq`, `MessageFileKept`,
`RetryGetsSamePair`, `BackedOffGapHasWaker`, `RoomForCommands`,
`OldEventsStayOut`, `RetryableBeforePrepared`). The others hold and can be
added to a configuration: `StoredBeforeSent` and `DeliveredWasPushed`
(`ChatServer`), `TerminalStays` and `TypeOK` (`MediaUpload`),
`TypeOK` (`Outbox`, `AccountSession`). All of these are theorems.

### Why the bounds are enough

* `chat_server`: a conversation with one message in each direction is the
  smallest in which numbers compete, one of the messages is a media message,
  and a receiver with two connections is the smallest with a takeover. The
  constraint `Scenario` splits the instance, which is too large as a whole: a
  behaviour has either one connection for each user, or a second connection and
  a restart but no media message. Numbering, final rows and presence hold for
  every size by the theorems below.
* `outbox`: messages share no state but the batch and the wake-up time, and the
  conditions on a row do not name other rows; one message with an answer read
  while another is under way reaches duplicates and answers of an older attempt.
  The safety properties hold for every number of messages by the theorems
  below. `AlarmBringsRetry` is checked for one message: that a claim takes the
  oldest 32 is part of its hypothesis (`Alarmed`), starvation by older rows
  (section 4) is not something it denies.
* `account_session`: the three platforms are those on which the properties say
  something: tokens refreshed by `tick()` while store and key may fail (`Rough`),
  a store that works and a key that may fail (`Keyless`), both failing without
  `tick()` (`Plain`). Four operations allow a login to be cancelled, repeated,
  kicked and logged out, which is more than any path in `AuthStateMachine`
  needs to come back to a state it was in. The safety properties hold for every
  number of operations by the theorems below.
* `auth_tokens`: a third pair is needed for a token that is two generations
  old, a second connection for a retry that overtakes, a second request id for
  a new refresh after a retry. Symmetry permutes connections and request ids.
* `gap_sync`: the fourth message is the smallest above two separate holes, when
  the first and the third did not arrive. Two pages for a hole of up to three
  messages make the budget and the limit of a page bite. A hole needs no fault:
  the server may store a message without a push (`NewMessage`). Faults (a lost packet, a restart of the
  process or the runtime, a failing or late transaction) multiply the states:
  `FaultsBySeq` allows two as long as there are no more than two messages, hence
  one hole, and none after that. The safety theorems cover every number of both.

* `media_upload`: two chunks are the smallest file of which a part can be
  missing, two threads the smallest number that meet in one session, a second
  session is what a lost one is replaced by. A collected session's number is
  used again (`Recycle`), so that expiry has no bound of its own; the number then
  stands for a session without a `.part` file, as the server's random names
  provide. One fault at any step; that a session expires which can no longer
  verify (`Stalled`) is not counted as one. Two faults, or a second pump, multiply the
  states beyond what TLC does in minutes. The invariants hold without these
  bounds by the theorems below; `AttemptSucceeds` is checked for this size and one
  pump.
* `connection`: two connections for everything that outlives the first. Three
  events are enough for a disconnect, a packet and a fault to meet; the safety
  properties were also run with four (2.4 million states).
* `kernel_host`: two commands are the smallest number that can draw and
  publish versions in different orders and fill a queue of one; two openings
  the smallest for the lock file and for commands of an earlier opening; one
  read connection makes readers wait. What is proved of the store and the host
  holds for every number of them.
* `cutover`: four writes reach a change before, during and after the snapshot
  and one on the native side; two faults allow a fault in the process that
  recovers from a fault. Only `UndisturbedCompletes` depends on these bounds, the
  rest is proved.

### Fairness

`FairSpec` of `Outbox` asks that the pump and the I/O thread go on, that time
passes, that a `sendText` that has begun ends, and that the server answers what
reaches it. `FairSpec` of `GapSync` asks
that the three threads go on with what they have begun, that time passes, that
a request which reached the server is answered, and that the account layer
starts and opens again what was stopped and closed. `FairSpec` of `KernelHost`,
`SecureConnection` and `Cutover` asks that a thread goes on with what it has
begun, and in `Cutover` that an application which was ended is started again. No
call of the user is fair: nobody has to scroll, to send a message, to log in or
to try an upload again. None of them assumes that a packet is not lost,
that the network comes back, or that a fault ends: faults are bounded in number
instead.

Therefore the liveness properties promise what the code's own timers do, and
name the ways in which the code has none:

* `AlarmBringsRetry` (`Outbox`): while the runtime is up, logged in and connected
  and nothing fails, a row among the oldest that is due when the alarm rings is
  sent again or ends, unless an answer moves the alarm before the row's time.
* `AskedGapsFilled` (`GapSync`): a gap that `maybeRequestGap` was called for is
  filled, or one of the ways listed in `Astray` was taken.

`AttemptSucceeds` (`MediaUpload`) is no liveness property and needs no fairness:
an attempt that began on good terms and met no fault does not end before the
upload. The code makes four attempts and then waits for the next login, so that
"every upload ends" would be a statement about the user.

## 4. Disagreements with the documents

Three have a run whose counterexample shows them.

| Run | The code | What is said of it |
|---|---|---|
| `chat_lost_push` | the delivered flag is stored before the push; if the connection then drops, catch-up skips the message | `README.md:12`, stored, pushed, re-sent after reconnecting |
| `account_stuck` | a thread is joined under the mutex it is about to take | the comment at the join, that this cannot happen |
| `host_reconnect` | the login of a reconnection opens the database again, is refused by its own lock file and destroys the working kernel | the comment at `NativeKernelHost.kt:172`, that later reconnections converge |

Seven more are stated as properties of the modules, which TLC finds violated
when they are added to a configuration:

| Property | The code | What is said of it |
|---|---|---|
| `ChatServer!RetryGetsFirstSeq` | the upload record is erased with the first processing and tested before the look-up of the msg_id (`MessageHandler.cpp:67`): the retry is refused | `README.md:113`, a retry gets the number of the first time |
| `MediaUpload!MessageFileKept` | images of the same bytes share one path, and the collector removes the path of every unclaimed record (`HttpFileServer.cpp:751`): a stored message loses its image | the comment at `HttpFileServer.cpp:723`, that it removes orphans |
| `AuthTokens!RetryGetsSamePair` | the device's key is looked up by the row that already holds the next token (`AuthHandler.cpp:251`): only a retry that passed this look-up before the exchange reaches the replay cache | the comment at `TokenService.cpp:155`, the same pair for the same request id |
| `GapSync!BackedOffGapHasWaker` | after a restart nothing sets the timer of a gap that waits | the comment at `ClientRuntime.cpp:596`, a waker after a restart too |
| `KernelHost!RoomForCommands` | only `consumeOperation` makes room for operations (`ClientRuntime.cpp:809`), and the app does not call it: after 256 commands every further one is refused | `JitongSdk.kt:36`, the UI need not poll it |
| `KernelHost!OldEventsStayOut` | every runtime begins with generation 1 and version 0: an event of the runtime before passes the filter of `JitongSdk.kt:47` and hides the new one's | `JitongSdk.kt:549`, old events become invalid |
| `Cutover!RetryableBeforePrepared` | a seed of the log after the checkpoint has moved is refused (`MigrationImporter.cpp:816`), and so is a second snapshot after a row has changed | `CutoverMigrationCoordinator.kt:44`, what fails before PREPARED can be tried again |

Others were met while reading and modelling:

* `onChat` looks presence up before it saves: a receiver who logs in between
  the two, and whose pull of undelivered messages runs before the save, is
  online and gets the message only at his next login.
* `tick()` starts a refresh, and a lost connection during it leaves the session
  "authenticated" on a connection the server has not logged in
  (`AuthStateMachine.cpp:185`). Only the tests call `tick()`.
* The flag that asks for a new login after a reconnect can be consumed by a
  connect of a later operation, whose own login is then not sent
  (`AccountSession.cpp:201`).
* The late close of an old connection ends a login on the next one
  (`TcpTransport.cpp:126`).
* `AuthStateMachine.cpp:145` says that a logout makes the answers of a login
  and a refresh under way invalid. Two paths store credentials for an account
  that is logged out; `OutStaysOut` leaves both out (`crossed`). A logout while
  the connection of a login is being set up: the result of the connect sends the
  login under the logout's generation, `LogoutDone` ends the session, and then
  the login's answer is taken. And a reconnect timer that `startWithPassword`
  does not cancel: its refused connect ends the login that is running, whose
  answer comes afterwards. With `tick()` there are more.
* A logout that is never answered never ends (`AuthStateMachine.cpp:143`).
* A failed save of the tokens in the refresh at start leaves the account
  "authenticated" without a token login.
* A refresh token that was used before is refused by the look-up at
  `AuthHandler.cpp:251` and does not revoke its family; `README.md:84` says it
  does.
* *Refreshes.* A refresh that passed the look-up and waits for the mutex finds
  its own result gone when it was erased in the meantime, by age or because
  1024 are kept (`TokenService.cpp:157`, `:196`); it is then taken for a
  replay and the family is revoked. `NoSelfRevocation` names this one way.
* *Outbox.* `runOutboxPump` waits without testing `m_outboxWake`
  (`ClientRuntime.cpp:403`): a wake-up that comes before the wait is lost, and
  the message waits for the alarm, the next login or the next message. The
  alarm is missing, or too early, in four cases, which is why
  `AlarmBringsRetry` speaks of rows that are due when it rings: rows claimed by a
  process that died before it sent them, or by a claim that was done though its
  caller gave up; a SERVER_ERROR answer that is repeated or late and moves the
  alarm before the time of another attempt; a backoff, of up to 75 seconds,
  that is longer than the lease of 30 and so behind the alarm of the attempt;
  and more than 32 older rows.
* *Gaps.* `markGapAttemptFailed` charges the first gap even if another was asked
  for, and a charge resets the page budget; with two gaps and a failing store,
  requests repeat at once. A page of history that the user asked for clears the
  flag and the timer of a gap request.
  A gap loses its timers in these ways (`Astray`): the deadline of a request is
  set after its answer was handled, in the place of a retry timer, and does
  nothing when it passes; a retry timer takes the place of a deadline, and when
  the request is lost the flag stays set until the next page of history; the
  send gate opens between the look at it and the note that the conversation
  waits for it; a gap opens between the look for gaps and the erasing of the
  notes (`ClientRuntime.cpp:589`), and the connection is lost as well; the
  runtime is stopped with a request under way, keeps the flag in
  `m_gapInFlight`, and does not ask after it has started again until some
  page arrives. After a restart of the process a gap is only looked at when its
  conversation is visited.
* *Uploads.* A draft that lost its session is offered an instant upload when the
  server knows the bytes, and fails each time (`MediaService.cpp:151`, `:175`).
  A cancel can fall between the last read of a
  draft and its card (`:235`, `:309`, `:399`): the card is sent and the draft
  is cancelled. `failDraft` can set a finalized draft back to failed.
  Nothing keeps two pumps off one draft (`resumeUploads` after a login and
  `pumpWithRetry` of the user run on threads of their own): one that has a file
  id and is about to send the card can be overtaken by one that failed, began
  again and put another file id in the row, so that the card and the row name
  different files of the same bytes. `SentHasCard` therefore compares the two
  file ids only if there is one pump (`Alone`).
  `findOpenUploadSession` hands out a session that has expired. After a restart
  the server refuses a card whose upload record it has forgotten: a finalize
  that is repeated returns the file id, but makes no new record. When the rename
  of a finished file fails, a copy stands in for it, whose error is ignored
  (`HttpFileServer.cpp:354`); the `.part` file is removed and the session is
  finalized with part of the file, or none (`spoiled`). The row of a chunk is
  stored before its bytes, so a write that fails leaves a session that never
  verifies. `AttemptSucceeds` begins from states without these traps; each
  conjunct of `GoodTerms` is one of them.
* *Connection.* `ClientCore.cpp:181` says that the handshake comes before the
  heartbeat; the heartbeat thread of an earlier connection still runs over a
  reconnect, and its packet in the handshake makes the server close.
  `TcpTransport.h:16` calls `close()` idempotent and callable from any thread;
  two threads in it join one thread twice. `TcpTransport.h:19` promises one
  report of every end; `close()` on the I/O thread (`TcpTransport.cpp:375`)
  tells nobody until the next connect, and a failed connect causes a report at
  the next. A stale time of the last packet lets the heartbeat close a new
  connection. A handshake that fails on the I/O thread is noticed by its
  15-second timeout only. A disconnect in a callback waits for the heartbeat
  thread, which may be waiting for the callback's thread. A connect begun while
  the heartbeat is inside `close()` gives that close the new thread to join.
* *Kernel.* A read that fails leaves the list of conversations empty, with no
  error and no other attempt until the next change
  (`NativeMessageController.kt:56`). Every runtime begins with generation 1, so
  that a late event of the one before can be taken for one of the new runtime
  and hide the one with the same version. The collectors of an old page are not cancelled by `close()`. A write whose wait
  timed out may commit, and nobody is told. The records of operations cancelled
  by `stop` are not sent to the observer.
* *Cutover.* A process that dies after it created the native file and before
  both LEGACY records needs repair at every start. PREPARED in both places with
  a failing self-test is answered with the old store first and repair
  afterwards. The first native write marks the journal in its own transaction;
  when its wait times out, or the process dies before the mirror follows, the
  next start needs repair. With an old client in the process (the
  coordinator's own contract), a crash behind the fence starts that client on a
  Room that refuses its writes; the application does not do this
  (`LegacyCanWrite`). A message whose conversation Room does not have gets one in
  the native store, so that `finish` counts one more than Room has
  (`MigrationImporter.cpp:742`) and refuses, this time and every other
  (`NoLoneMessage` in `UndisturbedCompletes`). A change of an old message that
  is imported after its conversation, its status for instance, puts that message
  into the preview.

## 5. The proofs

TLAPS checks every theorem for all values of the constants that satisfy the
assumption named in each module (`ChatAssumption`, `TokensAssumption`,
`GapSyncAssumption`, `CutoverAssumption`, `OutboxAssumption`, `StoreAssumption`,
`HostAssumption`, `ConnectionAssumption`, `AccountAssumption`,
`UploadAssumption`, `PumpAssumption`): finite sets where a maximum or a
number of elements is taken, bounds that are numbers, and null values that are
not members of the sets. `Cmds`, the commands of the kernel, is a finite set of
numbers, since each draws a version.

Every proof has the same shape: an inductive invariant `IInv`, one lemma for
each of its conjuncts and within it one step for each action, then the theorems
from `[]IInv`. Before a proof was begun TLC checked `IInv` on the instance of
the component's run (for `account_session` up to seven operations and three
platforms, for `media_upload` also with images, and on random behaviours with
two pumps; `FileInv` and `CardNamesFile`, which no run has, in the same way).

**`ChatServerProofs`.** `TypeCorrect`, `NumberingDense`, `RowsFinal`,
`WorkingConnectionReachable`, `SentIsStored`, `DeliveredIsPushed`. `SeqDense` is
not inductive in the form a reader wants: "no hole below a number" says nothing
about the largest one, which the next number is made from. The proof uses
`ConvInv`: the numbers are injective within a conversation and form an interval
`1..n`. `SaveKeepsConv` shows that `Max + 1` extends the interval. Presence
needs that a connection not yet accepted has no user and no frames
(`NewIsFresh`), so that nobody can log in on it before it is open; the steps
that matter are takeover and close. `SentIsStored` (`StoredBeforeSent`) follows
the message through the handlers: the session onChat has found serves the
receiver although its user was looked up steps before (`BoundTo`: a connection
is bound to a user once), what a handler is about to push has a row
(`WorkStored`), and what is queued agrees with the table (`AllBacked`), which
only gains rows (`RowsStep`). `DeliveredIsPushed` (`DeliveredWasPushed`) needs
that the catch-up loop has pushed what it no longer has to do (`PulledPushed`),
for `markDelivered` marks the whole list at its end; its hypothesis
`restarts = 0` is needed: a restart between the two steps of onChat leaves the mark
without the push.

**`AuthTokensProofs`.** `TokensTypeCorrect`, `TokensExchangedOnce`,
`RevocationFinal`, from the inductive invariant `IInv`: types, mutual exclusion
(`OneRotation`), the history, and that a revoked session has a row. The
last conjunct is what keeps a login from filling the row of a revoked session.
`RowStep` classifies what a step may do to the tables (new row, rotation,
revocation, nothing); the properties follow from that classification alone.

`RetryIsNoReplay` (`NoSelfRevocation`) needs `RetryInv` besides. A revocation by
the reuse detection would need a handler that has passed the look-up of the key
and then finds neither its token in the row nor the result of its request in the
cache. Somebody else must have exchanged the token in between, and `SameId` says
that he did so under the same request id, so that the result was kept, and is
there or was erased since (`FoundInv`). That every token is asked for under one
id is the work of the device: it keeps the pending id as long as it keeps the
token, and takes a new one only with a token that nobody has asked to exchange.
The latter is why the invariant follows what is under way on the device's
connection (`DeviceInv`) and the age of every token that anybody holds
(`IssuedInv`). The transaction itself still finds the token because the mutex
keeps others out (`CommitInv`). Nothing is assumed of the cache: its results may
go at any time.

`RetryFindsResult` (`RetryWillDo`) is about the device: the tokens it has stored
are those of the row, or the ones before them, and then the exchange was
made under the id that is still pending. It needs that this id goes with no
other token and is given out once (`PendingInv`), and that the tokens of a login
are still in their row when the device stores them (`LoginInv`); `ReachStep`
goes through the exchanges and the answers.

**`GapSyncProofs`.** `GapTypeCorrect`, `TrackerCoversRows`,
`WaterMarkNeverBack`. `IInv` strengthens the types so that every gap a thread
holds is a real interval, and has `ArrivedIsStored` as a conjunct. The only
steps that add to `arrived` are the handlers, after the commit (`StoreSafe`),
and the first use of the tracker, which copies rows (`FindsStored`). The mark
is monotonic because it is determined by a set that only grows
(`ContiguousMonotonic`), until a restart, which replaces the set by the rows
and so by a larger one: this is where `ArrivedIsStored` is needed.

**`CutoverProofs`.** `TypeCorrect`, `OldClientCanWrite`, `ImplementsOneSource`.
That a switch keeps messages and conversations needs the two stores to be alike
(`Alike`) at the moment the journal says NO_WRITE, which no single step
establishes. `RowsInv` follows the copy: below `cursor` (in the snapshot), then
everywhere, a native message is what Room held at the checkpoint and a
conversation of Room is there (`Held`), or the log still has the change that
made the difference (`Same`, with `LogInv` for the log and its numbers). When
the fence stands and the log is drained, all that can still differ is a
conversation that the import made for a message and Room does not have; the
counts that `finish` compares exclude it (`CountsAgree`: a set that contains
another of the same size is that set). `EvidenceInv`
and `StepInv` tie the durable records to the step, which is what makes a restart
from any of them safe; `PendingInv` is what `LegacyCanWrite` rests on: behind a
fence that is not yet a switch, the application still has its request and
migrates again. In the refinement only the fence, its removal, the commit and
the writes of the two clients are steps of `OneSource`; all others stutter.

**`OutboxProofs`.** `TypeCorrect`, `NothingIsLost`, `StatusMatchesRow`,
`SettledForGood`, `BackoffIsKept`. `NothingLost` and `StatusMatches` alone are not
inductive: an answer on its way must be about a message that was sent, and one
that accepts it must be about a message that the server has stored (`KnownInv`,
`AnswerInv`), the one the I/O thread has just read included. `AckFailsDoes`
says what an answer may have done whose commit was reported as failed.

**`KernelHostProofs`.** `ImplementsStore`, `TypeCorrect`, `LockedWhileWriting`,
`NeverClosedInUse`, `AnswersAreTrue`. `StoreInv` is about the database alone.
`LifeInv` says for every step of a close which of the lock, the writer, the
readers' leases and the two kinds of connections are still there; mutual
exclusion and use while open follow from the order of these steps.
`TruthfulAnswer` needs that a command is in at most one place (`QueueInv`), and
`CallInv` and `DoneInv`, which relate what a caller was told, the record the
writer left for it, and what is committed, also after a wait timed out. The
host's own conjuncts say that it stops and closes what it opened, and that
versions are drawn once (`VersionInv`). That `KernelHost` implements `NativeStore`
is one step for each of its actions.

The second part of `KernelHostProofs` is about `SecureConnection`, which shares no
variable with the kernel; the names of its specification carry the prefix
`Connection` so that one module can hold both. `ConnectionTypeCorrect`,
`EndsInStep` (`InStep`) and `RefusalsExplained` (`RefusedOnlyIfIntruded`) follow
from `ConnectionInv`. `InStep` alone is far from inductive: it speaks of
established channels only, and what makes them agree happened before.

* `OpenInv`, `TaskInv`: `open` is true on one socket only, that of a connection
  nobody has closed; while `C` waits for its dial no frame is queued, there is one
  dial at most, and every drain is queued before it. Hence no task of the old
  connection sends on, or drains, the socket of the new one.
* `HelloInv`: the keys are those of the last hello, and until `C` sends the hello
  of this connection they belong to an earlier one.
* `SpoilInv`, `ServerInv`: without an intrusion the channel of this connection has
  not failed, and what is on its way to the session is what its stage waits
  for: the hello, the finished frame, or sealed frames from `srv.rcv + 1` on.
* `ClientInv`: a connection nobody intruded on is in one of six phases
  (`BeforeHello`, `HelloQueued`, `HelloGone`, `FinishedQueued`, `FinishedGone`,
  `Secured`), each of which says what the channel, the tasks, both directions of
  the wire and the session are. In the last one the tasks form a `Chain`: among
  packets in the clear, the sealed frames follow those on the wire, in order and
  without a hole, up to `chan.snd`. `ChainKept` is the FIFO argument.

`ReadsAgree` and `SentFrame` say for a frame that arrives, or is sent, in which
phase that can be; `ClientStep` goes through the actions phase by phase. The type of
`conn` needs that `C` aims at a dial only while one is left (`CountType`). TLC
checked `ConnectionInv` on the instance of the run.

**`AccountSessionProofs`.** `TypeCorrect`, `LoggedInMeansBound`,
`KickedLosesCredentials`, `KickedUntilLogin`, `CredentialsStayGone`.
`AuthenticatedIsBound` is broken by a connection that ends and by one that opens.
`ReauthInv` says that the loss of a connection leaves the mark that makes the
next one log in, and that a connect under way without the mark has no login of
ours to wait for; `OnceInv` that an answer cannot be read twice and that a
password login excludes the others; `RefreshInv` what a refresh under way will do
when it ends. A kicked account has no tokens because the answers still under way
belong to an older operation (`KickedInv`).
`CredentialsStayGone` (`OutStaysOut`) follows the answers of a login, a token
login and a refresh. Without `tick()` one of them is under way at a time, with
its generation (`AskInv`). `StraightInv` says for operations that crossed nothing
that an answer which still counts finds the account waiting for it, in
`Authenticating` or `Refreshing`; so an account that is out takes none of them
(`StoredWhenAwaited`).

**`MediaUploadProofs`.** `TypeCorrect`, `FilesAreWhole`, `FinalizedKeepsFile`,
`SentMeansCard`, `TerminalIsFinal`, `CardIsGiven`, for any number of chunks,
sessions, HTTP threads and pumps, for images and other files. `FilesAreWhole`: a
handler that is about to write has a chunk that the `.part` file does not have,
no other handler writes the same one, and the row of the chunk is already in the table unless the
session is gone (`WriterInv`); the file has only chunks whose rows exist
(`PartInv`). Whoever has verified the file saw all rows and all bytes, so nobody
can be about to write to it, and nobody can begin while the rows are there
(`VerifiedInv`); hence the truncation of a `.part` file and a late write never
meet a rename. What is left is the copy that stands in for a rename that failed:
the only step that can put part of a file under a final name, which then is in
`spoiled`. `FinalizedKeepsFile`: the `.part` file of a session that is open
and has not expired is gone only if a rename moved it, the path was already
taken, or such a copy failed (`RenamedInv`), and the collector and a cancel
touch sessions of other states (`DroppedInv`). On the client, `CardInv` follows the file id from the row
into the card; `AloneInv` is the part that holds for one pump only. `HandlerDoes`
and `PumpLeaves` classify the many small steps once, for all lemmas.

`CardIsGiven` is about any number of pumps on one draft: the file id in a card,
once there is one, is one the server gave out for these bytes, granted for a
proof or that of a finalized session, whose file is there until the session
expires or the collector of records takes it, unless its copy failed
(`CardNamesFile`). It needs a second invariant, `FileInv`, on top of
`IInv`: every file id in an answer on its way, in the row, in the copy a pump
works with and in the card is `Given`; a handler that registers a file has a
session that was finalized (`NamedInv`); and the collector deletes only what it
listed as expired (`ExpiredInv`). An answer is read by the pump that asked, but
it may be acted on after another pump has begun a new session: the id is then
another one than the row's, and a finished file all the same.

Every invariant and every action property of the runs that hold is a theorem,
except `AttemptSucceeds`. Model-checked only are that one and the liveness
properties (`AlarmBringsRetry`, `AskedGapsFilled`, `UndisturbedCompletes`,
`CloseReported` and those of the kernel): the prover does not treat fairness and
ENABLED here.

## 6. Plan

With two pumps a sent card need not name the file of the draft's row; it names a
finished file (`CardIsGiven`). Under which condition the two are the same is not
stated (`MediaUpload`).

A further model worth writing is the pair of presence notices and friend
requests (`Server.cpp:300`, `FriendHandler.cpp:38`): the notice that a replaced
connection went offline is posted to another strand than its user's.

Places where steps of several actors meet and that no model has:

* the handshake's deadline against a message already queued
  (`Session.cpp:426`);
* a cancel before an AI request is active or after the last test of the flag
  (`AiHandler.cpp:228`), and the slot of a user that is still taken when he has
  the answer (`AiHandler.cpp:202`);
* after a block, the failures that led to it are still in the window
  (`LoginRateLimiter.cpp:55`);
* 256 terminal records, whose eviction lets an operation end again
  (`CompletionRegistry.h:68`): a limit far above what TLC reaches;
* the requests that repeat at once when the wrong one of two gaps is charged
  (`SyncTracker.h:83`): the model has the charge, no property counts requests.

## 7. Not modelled

Vendored libraries (`client_core/third_party`), generated protocol code, build
files, scripts and design documents; cryptography (a signature or a decryption
succeeds or not); SQL text, schema upgrades and cipher settings; parsing and
formatting of packets; full-text search; the HTTP clients of the AI providers;
JNI conversion and the user interface; the old Kotlin client; and
`AiSuggestionService`, which nothing but its tests calls.

Also left out are components whose operations are single statements or
sections under one mutex: friends and their notices, the login rate limit, the
slots of AI replies, the server's write queue (the models take what it
provides, one transaction at a time), the key of the database, and downloads
of files. Of these only the notices have an order between actors that can go
wrong for long (section 6). `PROJECT.json` lists
every component with its status.
