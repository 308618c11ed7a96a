# LinkTracker in TLA+

LinkTracker is two Go services. The **scrapper** keeps chats and tracked links
in PostgreSQL and runs, per tracked link, a goroutine that polls GitHub or
StackOverflow. The **bot** talks to Telegram users, calls the scrapper over HTTP
and receives updates through Kafka or HTTP. This directory holds TLA+ models of
the scrapper's core over both of its access types, of the way of an update from
a monitor through Kafka to Telegram, of the bot's dialogs and of the HTTP client
the services share, the TLC runs that check them and TLAPS proofs about them.
Paths below are relative to `src/`; `scrapper/` stands for `internal/scrapper/`.

## Inventory

| component | state | operations | hard about it | what makes it correct |
|---|---|---|---|---|
| scheduler (`scrapper/application/scheduler`) | `cancelFuncs`, `latestCommitSHA`, `latestPR`, `latestSOAnswer` (sync.Maps by link), three channels of ten, a context and a goroutine per `AddLink` | `AddLink`, `RemoveLink`, `Stop`, `MonitorRepo`, `HandleCommits`, `HandlePullRequests`, `MonitorStackOverflow` | check-then-store on shared maps, cancel against a monitor in flight, blocking sends, timeout | what is remembered was announced; nothing repeated; a cancel ends the monitor; a live monitor can be cancelled |
| link and chat service (`scrapper/application/service`, `controllers/http`) | none of its own; a transaction per request | `AddLink`, `DeleteLink`, `GetAllLinks`, `RegisterChat`, `DeleteChat` | read committed, scheduler called inside the transaction, commit that fails | rows and monitors match; one owner per link; scheduler calls for a link exclude each other |
| sql repositories, `txManager`, tables (`repository/sql`, `migrations`) | tables `chats`, `links` with unique `url` and a foreign key | one statement each, `Do` | row and key locks, lost connections, endless `Rollback` | every request ends |
| pgxpool repositories (`repository/pgxpool`) | the same tables | the same | `RegisterChat` and `AddLink` commit inside the repository, then `Do` commits again; `rows.Err` is not looked at | rows and monitors match; what is added is acknowledged |
| Kafka producer (`producer/kafka`) | `updateChan`, sarama's queues, `stopCh`, `doneCh` | `Run`, `produceUpdate`, `handleDeliveryResults`, `retryMessage`, `Stop` | sarama's retries and those of the program reorder, repeat and drop; two `AsyncClose`, closed channels, order of a shutdown | an update is written or dropped as a failure accounts for; a shutdown ends |
| HTTP producer, GitHub and StackOverflow clients | none | `SendUpdate`, `GetLatest*` | a bot that does not answer: the producer's client has no timeout | a monitor announces or goes on |
| reliability (`pkg/reliability`) | limiter, breaker with its counts and generations | `Do` | attempts and sleeps inside the breaker, a body that the first attempt has read, calls that return in a later generation | the breaker opens and decides; when a body can arrive twice |
| application, closer, HTTP server (`scrapper/app`, `pkg/http_server`) | closing functions | `New`, `Start`, `Close` | close of a channel others send to, all closers at once | a shutdown ends without a panic |
| rate limit middleware (`pkg/middleware`) | limiters by address | `GetLimiter`, `cleanupLoop` | cleanup against use | no address exceeds its rate |
| bot dialogs, state manager, storage, cache (`internal/bot`) | registration and tracking states, local links, Redis list | `/start`, `/track`, `/untrack`, `/list`, messages | handlers run in goroutines, two stores and a cache updated one after the other | bot and scrapper agree on a user's links |
| bot Kafka consumer (`internal/bot/infrastructure/kafka`, `internal/bot/app`) | session with its marks, committed offset, `updateChan` | `Run`, `ConsumeClaim`, `KafkaMessageHandler`, `handleShutdown`, `Stop`, `Wait` | offset marked before the message is sent; sessions and processes that end before the commit | an update reaches Telegram; what is committed is not repeated |
| outbox, configuration, patterns, DTOs | – | – | – | nothing implements the outbox; the rest parses files |

Interaction: handler → service → `txManager.Do` → repository statements and, in
the middle of the transaction, `scheduler.AddLink` / `RemoveLink`; monitors →
site clients, and → `updateChan` → Kafka producer → Kafka → bot consumer →
Telegram, or → `SendUpdate` → the bot's `/updates`; bot handlers → scrapper over
HTTP.

`PROJECT.json` lists the components with their status, and under `hazards` what
is hard to test, each at its line.

## Modules

| module | models |
|---|---|
| `Scheduler` | `scheduler.go`, complete |
| `SchedulerProofs` | its theorems |
| `MCScheduler` | constants for its runs |
| `Subscriptions` | abstract: what the scrapper promises about chats and links |
| `LinkService` | handlers, services, sql repositories, transactions and tables, composed with `Scheduler` by `INSTANCE`; implements `Subscriptions` |
| `LinkServiceProofs` | its theorems |
| `MCLinkService` | constants for its runs |
| `PgxService` | the requests of `LinkService` over the pgxpool repositories (EXTENDS `LinkService`, with its own statements and its own end of `Do`) |
| `PgxServiceProofs` | its theorems (EXTENDS `LinkServiceProofs`) |
| `MCPgxService` | constants for its runs |
| `UpdateChannel` | abstract: what the Kafka producer promises about the topic |
| `UpdateProducer` | `kafka_producer.go`, the producer's part of the shutdown, sarama's `AsyncProducer`; implements `UpdateChannel` |
| `UpdateProducerProofs` | its theorems |
| `UpdateConsumer` | the bot's Kafka consumer, its reader, shutdown, crash and restart |
| `KafkaPipeline` | `UpdateConsumer` on the topic of `UpdateChannel` |
| `KafkaPipelineProofs` | its theorems |
| `Reliability` | `HTTPClientWithReliability.Do`, gobreaker, a clock |
| `ReliabilityProofs` | its theorems |
| `MCReliability` | constants for its run: the configurations |
| `BotDialog` | the bot's dialogs, memory, cache and requests; its scrapper is `Subscriptions` |
| `BotDialogProofs` | its theorems |
| `MCBotDialog` | constants for its runs |

### Scheduler

A *context* is the one `AddLink` makes; it identifies the call, its monitor, and
the `userID` and `linkID` of the monitor's updates. `ctx` says whether it is
live, `linkOf` which link it was made for. `cancelFuncs` maps a link to the
context whose cancel function is filed; `latest[kind]` is one of the three maps.
The channels are represented by their length, because nothing receives from
them. `monitor[c]` and `caller[p]` are the goroutines with a program counter and
locals. One action is one access to shared state:

| Go | action |
|---|---|
| `AddLink` | `FileCancel`, `Start` |
| `RemoveLink` | `Cancel`, `DropCancel`, `Forget` (three times) |
| `Stop` | `StopBegin`, `StopVisit`, `StopEnd` |
| the two cases of `select` | `Tick`, `Return` |
| `GetLatest*` | `FetchOk`, `FetchFail` |
| `latest*.Load` and the comparison, `latest*.Store` | `Load`, `Store` |
| `commitChan <-`, `prChan <-`, `answerChan <-` | `Put` |
| `updateChan <-`, `SendUpdate`, `SendUpdatePR` | `Send` |
| the timeout of one hour | `Expire` |

`Cancel` is the load of the cancel function and its call in one step. Between the two
another `AddLink` can file a new entry, whose context the call does not reach: a
link added twice, which the properties exempt, and no property depends on which of
the two comes first.

Links come in four classes, the outcomes of `AddLink`'s switch: a repository, a
question, one refused after its entry was filed, and one whose path is too short
and panics. Items are values that can be compared for equality, as the structs
of the sites are. `Publish` lets a site list any other item first, an older one
included. `told`, `lost`, `handed` and `late` record what was handed over; no
action reads them.

Left out: a link of fewer than four parts (refused before anything changes), a
scheduler without a client for the site, an unknown transport (`config.Load`
accepts two), the text of updates. On the other side of `updateChan` the Kafka
producer is taken to receive what is sent; `UpdateProducer` is about when it does.
Over HTTP a monitor waits in `SendUpdate` for the bot's answer (`Waiting`), with no
timeout of any kind.

### LinkService

A request of `Callers` has a program counter, its parameters, the ids of the
rows it works on and `tx`, the state of its transaction. `chats` and `rows` are
the committed tables. A statement reads what is committed; a request that
`wrote` holds the unique key of the link it inserts, or the rows it deletes, and
others wait for it (`Inserting`, `Registering`, `Deleting`). `DropConnection`
ends a transaction on the server, which frees the locks while the request runs
on; `StatementFails` and `CommitFails` are the error paths, the latter with the
commit done or not done. `Restart` ends the process: the tables stay, the
scheduler starts empty. `parted` and `severed` record why a row and its monitor
may disagree.

The id of a row is the context that `scheduler.AddLink` makes for it; a context
that was never made belongs to no row. The model is of the `sql` access type.

### PgxService

The pgxpool repositories have the same interface and other habits.
`RegisterChat` and `AddLink` commit the transaction they were given
(`OwnCommit`), `AddLink` in a deferred function that drops the result. `Do` then
works on a closed transaction: its `Commit` fails (`DoCommitClosed`), and its loop
around `Rollback` never ends (`DoRollback` to `spin`). `GetAllLinks` does not look at
`rows.Err`, so a query that breaks off counts as an answer (`GetAllLinksFails`);
`DeleteAllLinks` is content without rows, `RegisterChat` with a chat that exists.
What is the same is taken from `LinkService`: `Begin`, the reads, `DeleteRow`, the
calls of the scheduler, `Applied`, `Restart`. A `tx` can here also be `failed`
(PostgreSQL refuses what follows) or `closed`.

`disturbed` has the links on which a connection was lost, or a row was deleted
between its commit and the scheduler's `AddLink`: nothing holds a lock then.
`refused` has the rows of add requests that were answered with an error.

### UpdateProducer, UpdateChannel

Updates are numbered as Run receives them.

| Go | action |
|---|---|
| `Run`: the receive, `Input() <- msg`, its return with the deferred `Close` | `Receive`, `Produce`, `RunReturns` |
| `handleDeliveryResults`: `Successes`, `Errors`, `stopCh` | `Delivered`, `Failed` and `GivenBack` (with `ReadError`), `HandlerReturns` |
| the same on a closed channel | `HandlerPanics` |
| `retryMessage`: the two cases of its select | `RetryPut`, `RetryBusy` |
| `close(updateChan)` in the closer, `Stop` | `CloseUpdates`; `StopAsyncClose`, `StopClose`, `StopReturns` |
| a monitor's send on the closed channel | `SendOnClosed` |
| the end of `main` | `Exit` |

Of sarama there is what the program meets: `Input` takes a message while the
dispatcher runs (`Put`); an attempt fails (`AttemptFails`) before the broker wrote the
message or after (`unacked`); `sarama.NewConfig()` then has it tried again, with no
report on `Errors`, with other requests open and without idempotence (`Retried`), so
that a message can be written twice, and after later ones, by sarama alone; or
sarama tries no more and reports it (`Failed`). First attempts are written in the
order of `Input`, and a message can pass those before it that wait for a retry
(`Write`). sarama's three retries are not counted, nor that it holds back what
comes after a failed message in some of these cases: both allow the model more
than sarama does. The topic is one partition. Each `AsyncClose` starts a
goroutine (`ShutdownCounts`, `ShutdownTells`, `ShutdownCloses`) that gives back what
comes late, waits for what is in flight and closes the four channels. `Stop` and
Run's `Close` both call it, so a close of a closed channel is a behaviour of the
model, as is every panic the code can meet on the way.

`UpdateChannel` has no goroutines and no sarama: an update is taken in its turn,
is pending until it is written or dropped, and all pending ones go with the
process. The refinement maps `pending` to what is in Run's hand, in flight, given
back or in a retry.

### UpdateConsumer, KafkaPipeline

`ConsumeClaim` is `NextMessage`, `HandOver`, `Mark`; the goroutine of `App.Run` that
reads `Messages()` is `Show` and `ShowFails`. A session starts at the committed offset
(`Join`) and ends in its range (`SessionEnds`), with a commit of the marks or
without. `Signal`, `Leave` are the shutdown, in which `Wait` is for the consumer and
not for the reader; `Crash` and `Restart` are what they say. There is one
partition; messages of another partition share only the reader.
`KafkaPipeline` puts the consumer on the topic of `UpdateChannel`, of which the run
`producer` shows that the producer implements it.

### Reliability

One action per attempt, sleep and answer: `Enter` (limiter and `Execute`), `Answered`,
`Retryable` (an answer with a retryable code), `Failed` (an error of `client.Do`), `Retry`,
`Return`. The breaker of gobreaker is a record with the operators
of its source: `NewGeneration`, `Current` (which lets a generation expire), `Admits`,
`OnSuccess`, `OnFailure`, `After` (which ignores results of an older generation).
`Tick` counts down what is left of the generation and of each sleep; an attempt
takes any time. A request with a body has it in a buffer that the first attempt
reads (`spent`); what the server has had whole is `received`. A later attempt with the
drained buffer fails on a fresh connection, because the length announced does not
come. `http.NewRequest` has set `GetBody`, though, and over a connection left open by
an earlier answer (`kept`) net/http rewinds the buffer and sends it whole again
(`Sendable`). An answer may leave its connection open or not, and an open one may
be used or not; that it is closed in the end is not modelled, as it adds no
behaviour. The configuration is
part of the state and never changes, so that one run covers several.

### BotDialog

`users`, `regData`, `trackState`, `untrackState` and `trackData` are the bot's maps,
`local` counts how often a link is in a user's list, `cache` is the list in
Redis. A handler has a program counter, the text it was sent, the request it
waits for and the list it is to show; a handler without a wait between its
accesses is one action (`Track`, `Untrack`, `Email`). `Message` chooses by guard: the
registration dialog before `/track`, `/track` before `/untrack`.

| Go | actions |
|---|---|
| `Start` | `Start`, `Greet` |
| `HandleRegistrationEmail`, `HandleRegistrationPassword` | `Email`; `Password`, `Registered` |
| `Track`, `HandleTrackLink` | `Track`; `TrackLink`, `Added`, `Purge` |
| `Untrack`, `HandleUntrackLink` | `Untrack`; `UntrackLink`, `Removed`, or `UntrackOther`, `NoSuchLink` |
| `List` | `List`, `Fetch`, `Store`, `Show` |
| a request in `ScraperHTTPClient` | `Serve`, `Refuse`, `Resend`, `GiveUp` |
| the minute of `cache.Set` | `CacheExpires` |
| the process ends and `New` runs again | `Restart` |

A request stays in `net` until the scrapper serves or refuses it, whether the
handler still waits or not (`forgotten` has the links whose `AddLink` took effect unheard,
whose `RemoveLink` was given up, or that were tracked when the bot restarted); served, it does one atomic step of `Subscriptions`,
which `LinkService` implements, and its answer can still be an error. `Resend` is
not counted: the client's four attempts are fewer than what is checked. When
`Overlap` is false, as in the run, a user writes only after the answer; the text of a message is
then all that matters about it. The search in the local list is one step, which
with two links is what the lock in `GetLinks` gives; a `DeleteLink` that shifts
the slice under a reader needs three links to be seen and is not modelled.

Definitions whose comment begins with "Mutant of" are not part of the models:
each is a definition with a plausible mistake in it, and a property is worth its
run because it fails when the mistake is put in.

## Properties

`Scheduler`:

- `StoredIsAnnounced` – an item remembered for a link was announced by a monitor
  of the link, or is about to be. `latest*.Store` comes before the send, so this
  is what keeps an item from being suppressed for everybody.
- `NoRepeat` – a monitor that never shared its link does not announce an item
  twice running.
- `AtMostOneLate` – after a cancel or the timeout a context hands over at most
  one update.
- `UpdateBudget` – a process announces at most as many items of a kind as the
  channel holds. This is a property of the code and not one to be proud of: ten
  commits, ten pull requests, ten answers per process.
- `SoleIsCancellable` – a live monitor of a link added once is the one filed.
- `CancelledMonitorEnds`, `SettledItemIsTold` (liveness) – a cancelled monitor
  ends; an item that stays first in the feed is announced; both unless a full
  channel holds the monitor, or a bot that does not answer.

`LinkService`:

- `SchedulerCallsExclusive` – the scheduler has no lock; the database's locks
  keep requests for one link from being inside it at once.
- `LiveIsTracked`, `TrackedIsFiled` – a polling monitor has a committed row (or a
  request that is to commit it), and a committed row a cancel function. The
  exceptions are named: chats deleted, restarts, lost connections.
- `ImplementsSubscriptions` – statements, locks and failures implement the atomic
  operations of `Subscriptions`.
- `RequestEnds` (liveness) – every request is answered, spins in `Rollback`, or
  waits for a transaction left open by a panic. Requests that add, delete or delete
  the chat wait for each other's keys and row locks, and for one that spins.

`BotDialog`, for a user who waits for answers:

- `ListedIsTracked` – what the bot lists for a user is tracked for that user, once,
  however late a request is served that was given up. It rests on the order in
  `HandleUntrackLink` (local first): that order is also why a failed `/untrack`
  cannot be repeated. A `RemoveLink` that the client sent
  twice is the exception.
- `CachedHasListed` – a cached list lacks no link the bot lists, unless Redis failed.
- `KnownHasRegistered` – a known user is registered at the scrapper and out of the
  registration dialog, which would take every text for itself.
- `TrackedIsListed` – the converse of `ListedIsTracked`: a link that the scrapper
  tracks for a user is in the local list, or in the hand of the handler that is
  about to write it there or has just taken it out. The handler reads
  `UserTrackData` again after the request, so this is also that it lists the link it
  asked for, whatever failed requests left there. `forgotten` has the exceptions.

`PgxService`:

- `PgxLiveIsTracked`, `PgxTrackedIsFiled` – as for `LinkService`, with one more
  exception: a row that was deleted after its repository committed it and before
  the scheduler heard of it.

`UpdateProducer`:

- `ImplementsChannel` – no update is forgotten between goroutines, written when it is
  not on its way, or settled unwritten, except when it is dropped by
  `retryMessage` or read by the `Close` of a shutdown.
- `OvertakenHasFailed`, `TwiceWasUnacked` – a retry is a goroutine of its own, and
  sarama retries by itself with other requests open. Still only an update that
  failed at an attempt or was given back is overtaken; only one whose
  acknowledgement was lost is written twice; and the two kinds of retry never have
  an update on its way at once.
- `StopEnds` (liveness) – a shutdown that has begun ends the process, by exit or by
  panic, whatever channels are closed first.
- `TakenIsWritten` (liveness) – while nobody stops the scrapper an update is written
  or dropped, or goes round for ever between sarama, the handler and `retryMessage`:
  that is what the code does with a broker out of reach, because each report starts
  a `retryMessage` with all its attempts. What does not happen is that an update is
  left lying.

`KafkaPipeline`:

- `CommittedIsHandled` – the mark comes before the Telegram message, so at-least-once
  is not what the code gives; what it gives is that the messages lost are those
  Telegram refused and the one in the reader's hand when the bot ended.
- `CommittedIsNotRepeated` – a committed offset is not handed over again.
- `TakenIsHandled` (liveness) – from `updateChan` of the scrapper to Telegram.

`Reliability`:

- `NeverTrips` – under `config.yaml` (interval one second, three retries with a
  second between them) a failing call outlasts the window that counts it: the
  breaker never opens. A property of the code and not one to be proud of.
- `RepeatNeedsAnswer` – the server has a POST or DELETE whole a second time only if
  some answer has left a connection open: with a server that takes requests and
  answers none, each arrives once at most, though `Do` sends four times.
- `OpensUnanimously` – with a threshold of 100 the breaker opens on a generation of
  failures only, when its last call returns.
- `HalfOpenDecides` (liveness) – a half-open breaker that admits no more leaves that
  state: the calls it let in return and are counted.

## Runs

| run | bounds | shows |
|---|---|---|
| `calls` | links q (question) and b (refused), 2 contexts, 2 callers, 2 items, channels of 2, kafka | the scheduler's safety when calls interleave and two monitors share a link and its maps; the inductive invariant |
| `live` | a repository, 1 context, 2 items, channels of 2, http, fairness | liveness of a monitor of two kinds, with hand-overs that fail |
| `life` | 1 user, 1 link, 2 contexts, 2 requests, no items | rows against monitors and locks under every failure |
| `refine` | 2 users, 2 questions and a refused link, 2 contexts, 2 requests, 1 item | refinement of `Subscriptions` |
| `requests_live` | 1 user, a question and a link whose `AddLink` panics, 2 contexts, 2 requests, no restart, fairness | progress of requests that add, delete and wait for each other |
| `dialog` | 1 user, 2 links, 1 handler, 2 requests under way | the dialogs of a user against cache and scrapper |
| `orm` | 1 user, 1 link, 2 contexts, 2 requests, no items | rows against monitors over the pgxpool repositories |
| `producer` | 2 updates, 2 lost acknowledgements, any number of other failures, 3 attempts of `retryMessage`, fairness | refinement of `UpdateChannel`, order, duplicates, shutdown |
| `pipeline` | 2 updates, a topic of 3, 2 ends of sessions or of the bot, fairness | from `updateChan` to Telegram |
| `breaker` | 3 goroutines, one with bodies, 3 configurations, 3 calls counted in a generation, fairness | the breaker's decisions, the attempts |

Two monitors of one link are enough for a race over the shared maps, since a
step reads one entry and an entry has one last writer. Two callers are enough
for a race between calls. Two items suffice for "the same" and "another", and
let the first return. Channels of two are full after two items as those of ten
are after ten; the theorems hold for every capacity, number of contexts and
class of link, repositories included. `life` has no items, because what its
properties relate, rows and cancel functions, no monitor reads or writes; its
monitors poll, end and time out. `SYMMETRY` is used for safety only, and between
links only where they are of one class. `refine`
uses a `VIEW` without the monitors: neither the tables nor any guard of a
request depends on them. Nothing ever deadlocks by TLC's definition, since a
feed can always change, a context expire or the process restart; waiting
requests are the subject of `RequestEnds`.

In `BotDialog` two requests under way are a late one and the one that overtakes
it; a third adds another late copy of either. Memory and cache are kept by user, and
users share only the scrapper's tables, which `refine` checks with two.

In `requests_live` only requests take steps (`OfRequests`): monitors poll without
touching what a request waits for, a restart answers every request by ending it,
and contexts are used in one order. Two links let one request hold a transaction
open behind a panic while another runs to its end.

Two updates and two lost acknowledgements are enough for an update to overtake
another and to be written twice and three times, by sarama's retries and by the
program's; failures of messages that were not written leave no trace but
`failed` and are not bounded; a third update meets a queue in the same
states. In `pipeline` a topic of three holds a repeated writing, and two breaks
are an end of a session followed by an end of the process, or by another
session. Both runs say `CHECK_DEADLOCK FALSE`, since a scrapper that has ended and
a topic that is read to its end take no more steps. In `breaker` the third
goroutine is the one whose call returns in a generation it did not begin in; the
theorems hold for any number. Configurations: `Repository` has the values of
`config.yaml` in seconds, `Tests` those of `TestRetryPattern`, and `Wide` a window that
outlasts the calls and two trial calls, so that the breaker can open from several
failures and half-open admits more than one.

Runs that are expected to fail, each a place where the code departs from what
the repository says (the quotations are in `PROJECT.json`, `findings`):

| run | property | what happens |
|---|---|---|
| `fullchannel` | `EveryItemIsTold` | the channels are never drained: after ten items of a kind every monitor of that kind blocks |
| `acknowledged` | `AddedIsAcknowledged` | over pgxpool a link that is added and polled is answered with an error |

Further departures, which follow from the models and which no run checks:

- a link stays tracked in the table when its polling ends, after an hour or with
  a restart (`Expire`, `Restart` of `LinkService`);
- the monitors of a deleted chat go on (`DeleteRows` does not touch the scheduler);
- of two links sent after one `/track` the bot can list the wrong one. With
  `Overlap = TRUE` and two handlers TLC refutes `ListedIsTracked` and
  `TrackedIsListed` (the first link's success is written down for the second),
  `CachedHasListed` (a `/list` that was fetched before a `/track` is stored after it) and
  `KnownHasRegistered` (a second `/start` opens the registration again); a user who
  waits for each answer is a condition of what is said about the dialogs;
- a link that the local list of the bot lacks, after a restart or a failed
  `/untrack`, cannot be untracked; and a user whom the scrapper has and the bot
  lacks cannot register;
- `patterns_test.go:71` expects a breaker that is open, and the client's timeout of two
  seconds is longer than the window of one, so that it is not; a call that failed
  is nevertheless answered "circuit breaker is open" (`patterns.go:117`);
- the sleeps between attempts do not look at the request's context;
- `config.yaml` enables a fallback from Kafka to HTTP, which only the integration test
  implements.

## Fairness

`Scheduler`: a goroutine that can run does (`WF` of a call's and of a monitor's
steps), as the Go scheduler is preemptive. `select` draws uniformly among ready
cases, so `Return` is not passed over forever (`SF`). A site polled forever
answers each feed's request now and then (`SF` of `FetchOk` per kind); without
this nothing can be said about announcing. The bot's answer to `SendUpdate`,
calls, the timeout and new items are not bound to happen.

`LinkService`: a request's own steps are weakly fair. Writes are strongly fair:
PostgreSQL queues the waiters for a lock. A statement on a lost connection
fails. Failures, restarts and requests are not bound to happen.

`UpdateProducer`: goroutines that can run do, sarama works on, and every message
sarama keeps is answered in the end, as its own timeouts make sure; the answer can be a
failure for ever. No monitor has to send and nobody has to stop the scrapper.

`KafkaPipeline`: the fairness of `UpdateChannel`, that an update pending is written or
dropped and settled. That is more than `UpdateProducer` gives, whose broker may fail
an update for ever: `TakenIsHandled` is about brokers that do not. the consumer's goroutines run and Telegram answers. The bot
need not come back; `TakenIsHandled` says what holds if it does.

`Reliability`: time passes, and `http.Client.Timeout` ends every attempt.

## Proofs

Every safety invariant and every action property that a passing run checks is
proved, for every value of the constants that the named assumptions allow, and
so are the two refinements. TLC checks each on a small instance.

### SchedulerProofs

For every set of links, callers and items, every finite set of contexts, every
capacity and either transport:

| theorem | property |
|---|---|
| `TypeCorrectness` | `TypeOK` |
| `Invariance` | `IInv`, the inductive invariant |
| `BoundedUpdates` | `UpdateBudget` |
| `OneLateUpdate` | `AtMostOneLate` |
| `NothingRepeated` | `NoRepeat` |
| `Cancellable` | `SoleIsCancellable` |
| `NothingHidden` | `StoredIsAnnounced`, over Kafka |

None of the properties is inductive. `IInv` adds what the argument needs:
`Wiring` (a context not yet made is unknown to everything; an entry's context was
made for that link; a call that forgets a link has cancelled one of its
contexts), `Handling` (a monitor past its fetch has a kind and an item),
`LateOnce` (a context that was late once is past its last fetch), `Budget` (each
update, sent or past `Put`, has its own item in a channel), `Remembered` (for a
sole live context the map holds what it told last or is about to tell: nobody
else stores for the link, and `RemoveLink` forgets only links it has cancelled),
`StoredByAnnouncer` (the monitor that stored last is the one that tells) and
`NoneLost`. `Wiring` is where `Remembered` gets that a `Forget` of a link excludes a
sole live context. One lemma per part has one step per action.

The assumptions are those of `Scheduler`: `None` is not a link, context or item,
contexts are finitely many, the capacity is a natural number, the transport is
one of the two, and every link has a class. `LinkService` assumes the same, and
that no chat is `None`.

### LinkServiceProofs

For any numbers of chats, links, requests and contexts, with every failure,
restart and panic of the model:

| theorem | property |
|---|---|
| `TypeCorrect` | `TypeOK` |
| `CallsExclusive` | `SchedulerCallsExclusive` |
| `LiveTracked` | `LiveIsTracked` |
| `TrackedFiled` | `TrackedIsFiled` |
| `SubscriptionsImplemented` | `ImplementsSubscriptions` |

The scheduler inside the service is not proved about again: `Proved` is
`SchedulerProofs` with the service's variables, each call of a request and each
step of a monitor is one of its steps (`CallsProved`, `MonitorsProved`), and its
lemmas `TypeStep`, `WiringStep`, `HandlingStep` give that `Wired` is kept. Only the
restart, which the scheduler alone does not have, is a step of its own; `Wiring`
is stated so that it holds after one, when a used context can belong to no link.

The invariant `Inv` is the types, `Wired`, `Sound` for each request, `Locks`, `Table` and
`LiveIsTracked`. `Sound` says where a request can be and what its transaction is
there (`Stages`), that its call of the scheduler is for its own link (`Calling`),
that the row of an add is its own until the commit and `cancelFuncs` has it
(`Adds`), and that a delete past the scheduler has had its monitor cancelled
(`Deletes`). `Locks` is what the unique index and the row locks keep apart, and
`CallsExclusive` is a consequence of it: both requests would hold the lock.
`Table` has one row per link and the entry of each row. What links them is that
a step of one request leaves the others alone (`OthersSound`), because a row it
takes is locked and a context it makes is new; so each action is shown to keep
`Sound` of its own request, the locks and the table.

For the refinement a request that commits is `Register`, `Track` or `Untrack` of its
chat, all else a stutter; it needs that the rows a request found are still
those of its chat, since no link changes hands while its id is in use.

### PgxServiceProofs

| theorem | property |
|---|---|
| `PgxTypeCorrect` | `PgxTypeOK` |
| `PgxLiveTracked` | `PgxLiveIsTracked` |
| `PgxTrackedFiled` | `PgxTrackedIsFiled` |
| `PgxSubscriptionsImplemented` | that `PgxSpec` implies `ImplementsSubscriptions` |

`PgxInv` has the parts of `Inv` in the form that commits inside a repository leave:
the row of an add request is committed from `file` on, so another request can
find it and delete it before the scheduler has heard of it, and `PgxFiled` has
the requests that are about to file an entry. The key that `Inv` rests on is free
by then; what takes its place is that a row deleted in that window makes its
link `disturbed`. `Wired`, `Calling` and `Locks`, and what calls of the scheduler
leave in its variables, are taken from `LinkServiceProofs`.
`PgxSubscriptionsImplemented` (with `PgxOfChats`: an add that has written belongs to a
chat, the rows a delete found are of its chat) is proved only: no run checks it,
because with two chats the state space is beyond five minutes, and with one
chat no link can be taken over. It says that what departs over pgxpool is the
answer (`AddedIsAcknowledged`) and not the tables.

### UpdateProducerProofs

For any number of updates, attempts of `retryMessage`, failures and lost
acknowledgements:

| theorem | property |
|---|---|
| `TypeCorrect` | `TypeOK` |
| `TwiceUnacked` | `TwiceWasUnacked` |
| `OvertakenFailed` | `OvertakenHasFailed` |
| `ChannelImplemented` | `ImplementsChannel` |

`OnePlace`: an update on its way is in Run's hand, given back, in one retry or once
in flight. `Flags`: what is in flight and written is in the topic, and what is to
be written again failed although written. `InTurn`: whoever is behind a
later update, in flight or in the topic, failed at an attempt. `Room`: topic and unwritten
updates are at most as many as updates taken and lost acknowledgements, which is the bound
that `UpdateChannel` puts on the topic. Steps that move an update (`Receive`, `Hands`
for everything that puts one into `Input`, `Failed`, `Delivered`, `GivenBack`,
`RetryBusy`, `Write`) have a lemma each; all others leave these variables alone
(`Quiet`). Assumed is that the bounds are natural numbers and `Attempts` is not zero.

### KafkaPipelineProofs

For any number of updates, failures, ends of sessions and ends of the process:

| theorem | property |
|---|---|
| `TypeCorrect` | `TypeOK` |
| `CommittedHandled` | `CommittedIsHandled` |
| `CommittedNotRepeated` | `CommittedIsNotRepeated` |

The invariant behind the last two is `Session`: while there is one, committed ≤
marked ≤ position, and every offset up to the position is settled, since the
reader must be free before it is handed the next. It holds whatever the
topic is, so the producer's half does not enter. The types need `Taken`: the offset a
claim is about to hand over is within the log.

### ReliabilityProofs

For every set of goroutines and of configurations:

| theorem | property |
|---|---|
| `TypeCorrect` | `TypeOK` |
| `RepeatAfterAnswer` | `RepeatNeedsAnswer` |
| `SlowNeverTrips` | `NeverTrips` |
| `OpensOnFailuresOnly` | `OpensUnanimously` |

`BodyInv` adds, while no answer has left a connection open, that a body received is a
body spent. `SlowInv` is an argument about
time: for a call that began in the present generation and may still fail, the
sleeps it has ahead of it (`Ahead`) outlast what is left of the generation. A call
that returns has none ahead, so its generation is past and its failure is not
counted. It
needs `Slow`: an interval that is not zero and shorter than `retries * backoff`.
`Counted`: the failures of a generation and its calls on their way are together at most
its requests; when all requests have failed, which a threshold of 100 asks for,
no call is on its way. The assumptions are that a configuration has natural
numbers, at least one trial call, and that the calls with bodies are calls.

### BotDialogProofs

For any numbers of users, links, goroutines and requests:

| theorem | property | for |
|---|---|---|
| `TypeCorrect` | `TypeOK` | all users |
| `ListedTracked` | `ListedIsTracked` | users who wait for answers |
| `CachedListed` | `CachedHasListed` | users who wait for answers |
| `KnownRegistered` | `KnownHasRegistered` | users who wait for answers |
| `TrackedListed` | `TrackedIsListed` | users who wait for answers |

The last four assume `~Overlap`, as the run does, and are false without it (see
"Runs"). `OneHandler`: a user who waits has one message in work. `Relies`: what a
handler has seen is still so when it goes on, a link it adds is not listed yet,
and one it was told is added is tracked. `Consistent`: the properties for one user. `Removes` is
the heart: a `RemoveLink` on its way that was sent once is the only one for its
link, the scrapper still tracks the link and the bot does not list it. So it
cannot be served after an `AddLink` that came later: that one is refused while
the link is tracked. It is here that the order in `HandleUntrackLink` is needed.
`Sees` is `TrackedIsListed` as the steps keep it: most leave a link that is on its
way where it is (`Carried`, `SeesKept`), `Added` needs from `Relies` that `UserTrackData`
has the link that was asked for, and a served `AddLink` either has a handler that
waits for it or goes to `forgotten`.
Assumed is that `None` is no user, link or request.

### What the proofs changed in the models

- `Wiring` of `Scheduler` was false after a restart inside the service; it now
  says that a used context without a link is done and its monitor stopped.
- `OwnCommitFails` of `PgxService` let every request on a lost connection go through a
  repository's own commit, those too that have not sent their `INSERT` or that
  delete; its guard now asks for an `AddLink` that has written its row. A
  `RegisterChat` on a lost connection ends the same way by `StatementRefused`.
- `Answered` of `BotDialog` chose the next place with a `CASE` whose cases overlapped; it
  is now the function `Success`.

### What stays with TLC

The liveness properties (`CancelledMonitorEnds`, `SettledItemIsTold`, `RequestEnds`,
`StopEnds`, `TakenIsWritten`, `TakenIsHandled`, `HalfOpenDecides`): they rest on
fairness and `ENABLED`, which are outside the prover's reach. And the two
runs that end in a violation.

## Not modelled, and the plan

Planned:

1. `LinkTracker`: `BotDialog` on `LinkService` in one state space, with the abstract
   promise to a user who tracks and untracks. Both halves are proved against
   `Subscriptions` now, so what it would add is the composition of the two
   theorems with the names of the requests matched.
2. `KafkaPipeline` on `UpdateProducer` instead of `UpdateChannel`, in the same way.

Not modelled:

- the rate limit middleware: a map of limiters that decides whether a request is
  answered 429, which the clients' models have as a refusal. What its cleanup can
  do is let an address start with a full limiter again;
- the bot's `/updates` endpoint: stateless, one Telegram message for one request;
- `GetAllLinks` and its handler as operations of their own: they read one statement's
  result and change nothing;
- the two functions of the closer that close the pools, and those of the HTTP
  servers beyond their place before `close(updateChan)`;
- the text of messages and updates, JSON, configuration files;
- the outbox: interfaces and a table without columns, which nothing implements or
  calls;
- code no part of the program calls: `WithTimeout`, `ChatExists`, `GetLink` and
  `DeleteChat` of the repositories.
