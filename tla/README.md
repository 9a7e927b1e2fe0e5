# express-botx in TLA+

A verification project for `express-botx` (Go): TLA+ modules translated from
`src/internal/`, TLC configurations that model-check them on small instances,
and theorems about them with proofs that TLAPS checks.

* [The system](#the-system) — components, state, operations, hard behaviours
* [The modules](#the-modules) — what models what
* [The runs](#the-runs) — questions, bounds, fairness
* [The proofs](#the-proofs)
* [Where the code and its documentation disagree](#where-the-code-and-its-documentation-disagree)
* [What else the models brought out](#what-else-the-models-brought-out)
* [What is not modelled, and the plan](#what-is-not-modelled-and-the-plan)

## The system

`express-botx` sends notifications to eXpress chats through the BotX API. It is
one binary with these roles:

| role | what it does | concurrency |
|---|---|---|
| `send` | one-shot CLI: authenticate, resolve chats, send | sequential |
| `serve` | HTTP server that sends synchronously: `/send`, Alertmanager, Grafana and GitLab webhooks, BotX callbacks | a goroutine per request, background callbacks, a certificate reloader |
| `serve --enqueue` | the same HTTP API, but a request becomes a message on a work queue | as above, and a catalog consumer |
| `enqueue` | one-shot CLI producer for the work queue | sequential |
| `worker` | consumes the work queue, sends to BotX, publishes results and the routing catalog | one handler at a time per process, a catalog ticker; several processes |

### Components

| component (source) | state it keeps | operations | properties that make it correct |
|---|---|---|---|
| worker handler (`cmd/worker.go`, `cmd/cmd.go`, `botapi/client.go`) | per process: a client with a token per bot, context; per message: attempt, last error | `handleMessage`: look up the bot, authenticate lazily, send, back off, refresh on 401, publish the result | what it reports and returns is true; never resends what it knows was accepted; terminates |
| RabbitMQ driver (`queue/rabbitmq`) | connection, channel; the broker's ready and unacknowledged messages | `PublishWork`, `ConsumeWork` with manual ack at prefetch 1, catalog fan-out | no ack before the work is done; shutdown drops nothing; settled is final |
| Kafka driver (`queue/kafka`) | writers, readers; the group's committed offset, the assignment | `PublishWork`, `ConsumeWork` with manual commits, catalog reads from the end | the offset never passes undone work |
| token caches (`token`) | a file or Vault secret with a token per bot | `Get`, `Set`, `Delete` | one bot's token never costs another's; a refused token is replaced |
| catalog (`queue/catalog.go`, `worker.go`, `serve.go`) | snapshot in memory, file on disk | publish, consume, `Update`, `Get`, resolve | a request is routed by one snapshot; stale snapshots expire; new ones arrive |
| asynchronous send (`runServeEnqueue`) | none of its own | choose a routing mode, resolve, check the key's scope, publish | the chat authorized is the chat addressed |
| HTTP server (`server`) | keys and scopes, wait group and context of callbacks | authenticate, authorize, fan out, answer; `Run` and shutdown | no send before every target is authorized; answers agree with what was sent; shutdown waits |
| synchronous senders (`cmd/serve.go`) | a token per bot, shared by requests | `Send` with a 401 refresh | a refresh is seen by later requests |
| certificate reloader (`server/tls.go`) | current pair, fingerprints | `reload`, `GetCertificate` | what stays on disk is what is served; the last good pair stays until then |
| GitLab routing (`server/gitlab_routing.go`, `handler_gitlab.go`) | compiled rules | `evaluateRoutes`, `passesFilter` | first match or union exactly as configured |
| configuration (`config`) | the loaded file | layering, validation, bot and chat resolution | a command gets the bot its file, environment and flags say, complete and with one kind of credentials |
| configuration editing (`cmd/chats.go`, `bot.go`, `config.go`, `server_apikey.go`) | the file on disk | `chat set/rm/add/import`, `bot add/rm`, `apikey add/rm`, `edit` | one default chat, no bot twice; nobody's change is lost to a wait |
| CLI producers (`cmd/send.go`, `enqueue.go`) | clients by bot, resolved targets | load, resolve, send or publish target by target, report | each target once, by its bot, by one snapshot |

### How they interact

A producer (`enqueue` or `serve --enqueue`) resolves aliases through its catalog
cache, checks the API key's chat scope and publishes a `WorkMessage`. The broker
hands it to one worker process; the driver calls `handleMessage`, which calls
the BotX API (through `authenticate` and the token cache), publishes a
`WorkResult` and returns; the return value decides between acknowledgement,
requeue, drop (RabbitMQ) and commit or no commit (Kafka). Workers publish
catalog snapshots from their configuration, which producers consume. `serve`
without a queue and `send` call the BotX API themselves, with tokens from the
cache they share with every other process on the machine. The configuration file
is read once by each command; the editing commands rewrite it. All calls
that leave a process may fail, be answered late, or have their answer lost.

### Hard behaviours

The hazards are listed with their lines in `PROJECT.json`; the main ones are:
crashes and lost connections between "BotX accepted" and "the broker knows";
lost answers that make the retry loop send again; a SIGTERM between any two
steps; Kafka's cumulative offset against failed messages, rebalances and late
commits; a token that is refused while it is still cached; snapshots that
overwrite newer ones; shutdown against background callbacks; a certificate
renewed between two reads; a shared token written by several requests without
synchronization, a cache file and a configuration file by several processes; two
translations of the same rules, one for startup and one for offline validation.

## The modules

    Delivery                  the promise of the asynchronous path, abstractly
      ^ refined by
    RabbitWorker  KafkaWorker   broker and driver around the handler
      ^ EXTENDS
    WorkerHandler             handleMessage, BotX API, token cache
    HandlerProofs             lemmas about WorkerHandler
    RabbitProofs, KafkaProofs theorems about the two systems
    MCRabbit, MCKafka         instances for TLC

    Fanout                    the promise of a send request, abstractly
      ^ refined by              ^ refined by
    AsyncSend                 SyncSend
    serve --enqueue           serve: requests, authorization, shared tokens
      ^ EXTENDS               SyncProofs, MCSyncSend
    Catalog                   snapshots from the workers to the server's cache
    AsyncProofs, MCCatalog, MCAsync

    ServerLifecycle           Run, shutdown, callbacks
      ^ EXTENDS
    CertReloader              two files, read while they are rewritten
    MCLifecycle

    TokenCache                file, Vault or none, under several processes
    TokenProofs, MCToken

    Cli                       send and enqueue, run and run again
      ^ EXTENDS
    ConfigLoad                what each command loads (pure operators)
    MCCli

    Gitlab                    startup, an event, its fan-out
      ^ EXTENDS
    GitlabRules               filters, routes, scopes, validation (pure operators)
    MCGitlab

    ConfigFile                the editing commands, side by side
    MCConfig

    ServerProofs              theorems about ServerLifecycle and Gitlab
    CliProofs                 theorems about Cli and ConfigFile

### WorkerHandler

The state and steps of `handleMessage` in each worker process. `pc[w]` is the
place of the process: `idle` in the driver's loop; `attempt` at the top of a
retry iteration; `sending` with a request on its way; `refresh` after a 401;
`backoff`; `report` before `publishResult`; `return` when the driver looks at
the returned error. The actions are the calls that leave the process:

| action | code |
|---|---|
| `Enter` | entry, `BotByID`, dry run (`worker.go:231-279`) |
| `EnsureToken`, `AuthFails` | lazy `authenticate` (`:299-307`) |
| `BeginSend`, `SendOK`, `SendUnauthorized`, `SendError` | `SendWithSyncID` and its outcomes (`:309-336`) |
| `Refresh`, `RefreshFails` | `authenticate` after a 401 (`:320-328`) |
| `BackoffElapses`, `BackoffCancelled` | the timer against `ctx.Done` (`:285-297`) |
| `Report` | `publishResult` (`:383-397`), whose failure is ignored |

Tokens are generations: the API accepts a bot's current `epoch`; `Revoke`
starts the next one. `AuthToken` is `authenticate`: a static token, else
whatever the cache holds, else a new token; after a 401 it is the same function
(`RefreshesAnew` is what may come of that). A request under a cancelled context
is not sent; one that is on its way may still be answered. `SendError` covers a
refused request as well as an accepted one whose answer was lost.

Mention parsing rewrites the payload in memory and uses a client of its own
without a cache (`worker.go:257`), so it changes no state of the model.
History variables (`delivered`, `gaveUp`, `declined`, ...) are written and never
read by the actions.

### RabbitWorker and KafkaWorker

`RabbitWorker` adds the queue: `ready`, the delivery each consumer owes an
answer for (`held`), the delivery in the client library's channel (`buffer`),
and the two ways a message leaves (`acked`, `dead`: dropped, or dead-lettered
when the queue has a DLX). Losing a connection requeues what it held while the
process may still be working on the message. `Settle` is the end of the loop
body: `Ack`, `Nack` with requeue when the context is done, `Nack` without.

`KafkaWorker` adds one partition: `log`, the group's `committed` offset, the
`owner`, its read position, and the offset in each handler. A rebalance gives
the partition to any running worker, the present owner included, which reads
again from the committed offset; a worker that lost the partition still commits
when its handler returns. `Republish` is the writer's retry of a write that
reached the broker.

### Delivery

The abstract promise: a message submitted stays in the broker's custody until
BotX accepted it, a worker gave it up or declined it, or it cannot be read. A
broker with a log may go back (`Reclaim`). Both systems implement it under the
refinement mapping at the end of their modules (`KeepsPromise == D!Spec`).

### Catalog

A snapshot is abstracted to the configuration `version` it was built from. Each
publisher keeps the version it was started with until a roll-out restarts it
(`Restart`), and publishes it at the start and on a ticker (`Publish`); a failed
publication only leaves a log line, so it is no step. `topic` is what the broker
keeps, at most `MaxLog` entries (compaction by the fixed key drops older ones);
on RabbitMQ (`Durable = FALSE`) nothing published before the reader bound its
queue can be read, so the only start is the end. `Seek` is the decision of
`ConsumeCatalog`, between a look at the offsets and the opening of the reader,
during which snapshots may arrive; `Attach` opens it; `Consume` is
`CatalogCache.Update`, which overwrites the memory unconditionally and may or
may not reach the disk. `FeedDies` is the end of `ConsumeCatalog`; nothing
restarts it. `RestartServer` begins with what is on disk.

### AsyncSend

One request: `Arrive` (authorization of UUID targets, routing validation, all
or nothing), then for each target `Look` (one `CatalogCache.Get`), `Resolve`
(chat alias, bot bound to the chat, bot, and the key's scope on the resulting
chat), `PublishOK` or `PublishFails`, and at the end `Answer`. A request's
payload and scope are constants (`Req`), its progress the variables. The
catalog's contents are `ChatsOf` and `BotsOf` of a version. `Look` may find the
snapshot expired at any time, which is `max_age` without a clock. A failed
publication may have put the message on the queue (a lost answer), a successful
one on RabbitMQ may not have. The size limit (413) and the parsing errors before
`Arrive` end a request without a step. A server without a cache file is one
whose snapshot is never there.

### Fanout

The abstract send request: refused as a whole before anything is tried, or each
target gets one outcome and the answer sums them up; nothing gets out for a
denied target. `AsyncSend` and `SyncSend` implement it (`KeepsFanout`), with what
is on the queue, or accepted by BotX, as what got out.

### SyncSend

Concurrent requests on `serve` without a queue: `POST /send` and the two alert
webhooks, which differ in where the targets come from. `Arrive` is everything up
to the first call: the credential, the default or only chat, and
`authorizeTargets` over all of them. Then target by target: `BeginTarget` (chat
and bot of the target, the sender's token or a first login), `Call` and the four
ways it ends, `Refresh` and `Store` after a 401, `GiveUp`, and `Answer` at the
end. The token of a bot is one variable that all requests read and write; its
write is a step of its own (`Store`), and a call that reads the token while another
request is about to write it may find the value before, the one after, or a mix of the
two (`Torn`): a Go string is two words, and nothing synchronizes them. The test for an
empty token reads the length alone (`AfterTokenTest`) and may take a token for there that
is still being written: the call that follows may then find the new length on the nil
pointer of an empty string, which is a panic (`aborted`).
What the server may have been started with (`Servers`) covers a bot without a
name, one named bot, and several. The body's text and file change no step.

### CertReloader and ServerLifecycle

`CertReloader`: a renewal writes the certificate file and the key file in either
order, each first torn; the reader is `readStablePair` with one step per file
read: certificate, key, certificate again, and up to three attempts; a read may
fail. What was read is loaded if key and certificate match and it is not what was
loaded before. That a pair which does not match is never loaded is the one guard of
`Load` and no property; `SettledPairServed` says what the attempts are for, with the
history variable `still`: nothing was written since the present attempt began.

`ServerLifecycle` adds `Run`: the goroutines it starts, the signal, `Shutdown`
with its ten seconds, the cancelling of the callbacks' context, the wait with what
is left of the ten seconds, and the deferred calls; the process that panics when
the wait group is used again (`crashed`); and callbacks: `Arrive` verifies the token
and the bot, `Dispatch` goes through the matching rules in order, `Begin` and `End`
are a handler's, within the request or in the background. A goroutine that was
started is not yet one that runs, which is what the wait group is about.

### TokenCache

Processes that run `authenticate`, `config bot token refresh` and `clear`: `Get`, a call
to the API, and `Set` or `Delete`, which read all entries (`ReadAll`), then write them
all: the Vault secret at once (`PostSecret`), the file in two steps (`Truncate`,
`WriteFile`) with `Die` possible in between. `dirty` says that another process wrote the
file since it was truncated, and what is left of two such writes may not parse. A write
may fail (`WriteFails`), before the file is opened or in the middle of it;
`authenticate` and `refresh` ignore the error, `clear` reports it. `ideal` and `calm`
are history: the cache as the `Set`s and `Delete`s would leave it one after the other,
and whether they did come so.

### ConfigLoad and Cli

`ConfigLoad` has each command's loader as an operator over file, environment and flags:
`Load`, `LoadForServe`, `LoadForAPI`, `LoadForEnqueue`, `LoadForWorker`, with the bot's
layers (`Layer`) in which a secret drops a token and the other way round. The loaders
refuse a secret with a token in the environment; of the flags only `send`, plain `serve`
and `api` do (`RefusesBoth`), in all other commands the token wins. `Cli` runs a
command: loading for all kinds, `serve --enqueue` among them, then `send` (a client per
bot, built when first needed; login, post, refresh) or `enqueue` (all targets resolved,
each reading the catalog cache file again, then all published). Calls fail with or
without effect. `RunAgain` is the caller: the same command for the targets reported as
failed, or for all if the command stopped before it reported any.

### GitlabRules and Gitlab

`GitlabRules` has the pure part: event keys, filters, template choice, patterns (globs
as sequences of literal parts, regular expressions as the set of values they match),
routes, the built-in templates (`BuiltIn`), which a sender's own ones overlay, and the
two translations of the configuration's rules, `Starts` (`serve.go`) and `Rejected` /
`Warned` (`config.go`, `validateCrossReferences`). A sender's templates are keys, some
of which are `broken` (not to be read or parsed: serve does not start), `failing` (not
to be executed: 400) or `blank` (the event is ignored). `Gitlab` boots a configuration
and takes one event: `Receive` (sender by its token, a body that may be no JSON, filter,
template, targets), `Deliver` per target, `Respond`. The references to test against are
definitions of their own: `Globbed` places the parts of a pattern instead of searching
for them, `Asked` is a set comprehension over the rules. `IsConf` is what the parser and
`Validate` leave of a configuration: ids are UUIDs, lists are lists, a pattern has
parts, and a server of several bots has a file of several.

### ConfigFile

Each process runs one editing command: `List` (the call to BotX, before or after
the read, as in the code), `LoadMinimal`, `SaveConfig` (truncates the file) and
`Write`; `Die` in between; for `edit`: `OpenEditor`, `Edited`, `Check` (the file is still
what was opened) and `Replace` (rename). The commands themselves are operators from
a content to the contents they may make of it (`SetChat`, `RemoveChat`, `Import`,
`AddBot`, ...), none if they refuse. `has` names the commands whose change a content
contains; it is what a lost update loses. `Imported` goes through the list of chats one
by one (`ImportOne`), as `import` does.

## The runs

| run | question | bounds |
|---|---|---|
| `rabbit` | safety, refinement and liveness of the RabbitMQ system | 2 workers (one `--dry-run`), 1 bot, a normal and an unreadable message, 1 retry, 2 token generations, 2 disruptions |
| `kafka` | safety and refinement of the Kafka system | 2 workers, 2 bots (one with a static token), 2 messages (one for a bot the workers do not know), 1 retry, 2 disruptions |
| `kafka_live` | is every message dealt with? does a refresh give a new token where a cache is shared? | 1 worker, shared cache, 3 messages (one of them unreadable), 2 token generations, 1 disruption |
| `kafka_failed` | does a failed message stay redeliverable? (violated) | as `kafka`, 2 token generations |
| `catalog` | does a reader that caught up have the latest snapshot, and does the last configuration arrive? | 2 publishers, 3 configurations, a topic of 2 entries, 2 disruptions |
| `async` | scope, consistent routing, truthful answers, the fan-out | 1 request of 5 kinds, 2 configurations that give an alias another chat and a bot another id, RabbitMQ, 1 disruption |
| `sync` | scope, bots, duplicates, refresh, the fan-out | 2 concurrent requests out of 6, 3 kinds of server, 2 bots (one with a static token), 2 tokens |
| `lifecycle` | what a shutdown leaves, whom a handler runs for, is a settled pair served, and does it end? | 1 callback out of 6, 3 rules (within the request and in the background), 2 certificates with their own keys |
| `tokens` | is a command's token right, is the cache exact? | 2 processes, 2 bots with one id on two hosts, 2 tokens per bot, 3 commands, 3 backends; symmetric in processes |
| `cli` | loaded configurations; each target once, by its bot and by one snapshot | every kind of command under the files, environments and flags of `MCCli`; `send` and `enqueue` run twice, 2 faults |
| `gitlab` | do startup and offline validation agree, is an event routed as configured? | about 11 000 configurations, the events that tell their rules apart |
| `config` | is the file sound, is a change lost to a wait? | 3 processes, one of them an editor, 1 death |

A *disruption* (`MaxDisruptions`) is a signal, a crash, a lost connection, a
rebalance, a failed commit or a duplicated publication. Two of them are enough
for every pair the code has to survive (say, a rebalance and then a crash of the
new owner); one retry is enough to go round the retry loop and out of it at its
limit; two token generations make every token refusable once; with two messages
a commit can pass another message. Messages are published in any order and at
any time. In the catalog two publishers are enough for an old snapshot to overwrite a
new one during a roll-out; a topic of one or two entries makes the reader meet
compaction. The Kafka reader can do all that the RabbitMQ one can, so the catalog run
covers both. Asynchronous requests share nothing but the cache, which the environment
changes anyway: one at a time shows what several would, and the theorems hold for any
number, on both brokers.

Synchronous requests share the tokens: two of them are enough for one to overwrite,
or to send with, what the other refreshed. One callback with a handler of each sort is
enough to be open, started, running or ended at any point of the shutdown; two
certificates are enough for a mixed pair. Two bots with one id on two hosts are the
pair a wrong cache key would confuse. Two runs of a command are a run and its repetition.
Three editing commands give a first, a second that overwrites it, and one that looks
at either. In `gitlab` the configurations are all senders of up to two chats and one
route of up to two over tables in which two aliases name one chat or two, under one bot
or two or none, or cannot be decided offline; and senders of three routes for the patterns.

Deadlock is checked in `catalog` and `async`. The others may really stop: a consumer with
nothing to settle waits, a synchronous request is answered and no other comes, a server
that returned is over, a command ends.

Fairness (`FairSpec`): weak fairness of a running process (its goroutine is
scheduled, calls have timeouts and so end), of the broker's delivery or the
group's assignment, and of the restart of a worker that exited (the code exits
so that "the process restarts", `worker.go:133`). Strong fairness of a RabbitMQ
worker's `Stop`: with the context done and a delivery ready, Go's `select`
chooses at random, and a shutting-down worker that requeues its message may find
it there again; the loop ends with probability one. No fairness for failures,
revocations or signals. In the catalog: weak fairness of each roll-out restart,
of publication (the ticker, some attempts of which succeed) and of the reader's
goroutine; none for its death or for restarts. In the lifecycle: weak fairness of
`Run`'s steps, of the ten seconds, of the goroutine that waits, of the ticker and the
reader, and of a renewal once begun; strong fairness of the poller's stop, because its
`select` between the ticker and the stop channel chooses at random. No handler has to
end, no callback to come, nobody to send a signal; `ShutdownEnds` holds all the same.

Each property has a mutant: a plausible bug (acknowledge whatever the handler
returned, requeue never or always, start at the end of the topic, one attempt
too many, look for a new token among the old ones, let the bot default to
the one that signed, count a background handler only when it runs, ...) under which TLC finds
the property violated. The mutants are the definitions marked `MUTANT` in the
modules.

## The proofs

For any number of workers, messages, bots, retries, requests, publishers, callbacks,
renewals, processes and so on, from the assumptions each module states about its
constants (`HandlerAssumption`, `CatalogAssumption`, `AsyncAssumption`,
`SyncAssumption`, `CertAssumption`, `LifecycleAssumption`, `TokenAssumption`,
`CliAssumption`, `FileAssumption`, `GitlabAssumption`, all evaluated by TLC on the runs):

| theorem | says |
|---|---|
| `RabbitProofs!TypeCorrect`, `KafkaProofs!TypeCorrect` | `Spec => []TypeOK` |
| `RabbitProofs!AckSafe` | what was acknowledged was accepted by BotX or declined on purpose |
| `RabbitProofs!DeadSafe` | what was dropped was unreadable or given up while not shutting down |
| `RabbitProofs!DuplicateSafe`, `KafkaProofs!DuplicateSafe` | a duplicate had a lost answer or a redelivery |
| `RabbitProofs!ResultSafe` | a "sent" result is true |
| `RabbitProofs!RefreshSafe`, `KafkaProofs!RefreshSafe` | the resend after a 401 has another token than the one refused, unless a shared cache still held that one |
| `KafkaProofs!CommitSafe` | the group's offset never passes a message nobody dealt with |
| `RabbitProofs!ImplementsDelivery`, `KafkaProofs!ImplementsDelivery` | each broker with its driver implements `Delivery` |
| `AsyncProofs!CatchesUp` | a reader that caught up cached the latest snapshot |
| `AsyncProofs!TypeCorrect` | `Spec => []TypeOK` of the asynchronous send |
| `AsyncProofs!ScopeSafe` | a scoped key's messages go to its chats only |
| `AsyncProofs!SnapshotSafe` | chat and bot of a message come from one snapshot |
| `AsyncProofs!AnswerSafe` | 403 and 400 mean that nothing was queued; on Kafka, reported means queued |
| `AsyncProofs!ImplementsFanout` | the asynchronous send implements `Fanout` |
| `SyncProofs!TypeCorrect` | `Spec => []TypeOK` of the synchronous server |
| `SyncProofs!ScopeSafe` | a scoped key's request with one target outside the scope reaches no chat |
| `SyncProofs!BotSafe` | a message is sent by the bot that signature, request and chat agree on |
| `SyncProofs!OnceSafe` | BotX accepts at most one message per target of a request |
| `SyncProofs!HealSafe` | a resend has a token the API accepts, unless it was disturbed |
| `SyncProofs!ImplementsFanout` | the synchronous server implements `Fanout` |
| `ServerProofs!SettledSafe` | a reload whose last attempt met a finished, untouched pair ends with that pair served |
| `ServerProofs!GenuineSafe` | handlers run only for verified callbacks of the bot that signed them |
| `ServerProofs!OrderSafe` | handlers are cancelled only after the requests had their time |
| `ServerProofs!CleanSafe` | a shutdown reported as clean left nothing running |
| `ServerProofs!OfflineSafe` | `config validate` and the startup of `serve` agree, for every configuration, but for what `config validate` does not know or read (secrets, hidden ids, templates) |
| `ServerProofs!RoutedSafe` | an event reaches the chats it is for, each once, in scope, from the right bot |
| `TokenProofs!TypeCorrect` | `Spec => []TokenTypeOK` |
| `TokenProofs!RightSafe` | a command's token is its bot's, and a refreshed one is new |
| `TokenProofs!ExactSafe` | undisturbed, the cache holds what `Set` and `Delete` left in it |
| `CliProofs!LoadedCoherently` | a command that goes on has the bot its file, environment and flags say, the token where secret and token were given last together |
| `CliProofs!SentFromOwnBot` | `send` posts with the client of the target's bot |
| `CliProofs!RoutedBySnapshot` | chat, bot and revision of an enqueued message are of one snapshot |
| `CliProofs!SentOnce` | one message per target over a command and its repetition, but for lost answers |
| `CliProofs!FileStaysSound` | a file that parses has at most one default chat, and no bot twice unless a hand-edited text is in it |
| `CliProofs!WaitsLoseNothing` | no write undoes what was saved while its command waited, with the exceptions named there |

and an `InvariantHolds` in most modules.

The argument. None of these is inductive. What makes them so:

* `HandlerInv`: a handler that has decided has a *justified* verdict ("sent"
  only for a message in `delivered`, "failed" only if given up or shutting
  down), and works on a message that decodes.
* `OnceInv`: two handlers with the same message know it was handed out twice,
  and a handler still trying a message that BotX already accepted knows of a
  lost answer or a redelivery. This is what rules out an unexplained duplicate.
* `TokenInv`: no token, in a worker or in the cache, is ahead of what the API accepts, and
  a refused one is behind it. So a token the API gives is another one; what else
  `authenticate` can give is the cache's, which `RefreshedTokenIsNew` excepts if it is the
  one refused. (With a static token there is no refresh.)
* `DeliveryInv` (RabbitMQ): while the connection is open, broker, client and
  handler speak of the same message, so the answer is for the message handled.
* `OffsetInv` (Kafka): below the place of *every* handler, owner or not, and
  below the owner's read position except for its own message, everything was
  dealt with. This covers the late commit of a worker that lost the partition.
* `PlaceInv` (catalog): between the look at the offsets and the opening of the
  reader, the last snapshot stays at or after the reader's place.
* `RouteInv` (asynchronous send): a routed message agrees with the snapshot its
  request still holds, and its chat was tested against the scope.
* `CountInv`: a request that queued something has an unrefused target behind it
  (`denied + 1 < i`), so the counter cannot reach the number of targets.
* `AdmittedInv`, `RouteInv`, `DeliveredInv` (synchronous send): past its arrival a
  request is authorized as a whole; on its way to BotX it is at one target with that
  target's chat and bot; what it delivered was for targets *behind* the present one,
  which is why the resend cannot be a second message. `HealInv` follows the
  token of a refresh from its issue to the resend.
* `SettleInv` (certificates): while `still` holds, what the reload has read so far is what
  is in the files; so the pair it ends with is theirs.
* `GenuineInv`, `WithinInv`, `RunInv`, `WaitInv` (lifecycle): an open callback has
  passed the checks; a handler within a request keeps it open; and when the requests
  ended in time, none is open once the handlers are waited for, so none is added
  and the waiter that was woken leaves none behind.
* `RightInv`, `EntryInv`, `ExactInv` (tokens): every entry, also in a writer's hands,
  is under the key of its token's bot; while all is calm at most one process is
  between its read and its write, and it is about to write what should be there.
* `CustodyInv` (RabbitMQ): there is one copy of a message, on the queue or with one
  consumer, and no worker works on one that was not published; so an answer removes that
  message from the broker's custody and no other. On Kafka custody is what lies at or above the committed offset, and a
  rebalance, which may set the offset back, takes custody up again (`D!Reclaim`).
* `FanInv` (asynchronous send): the targets behind a request have exactly one outcome,
  those before it none, and `denied + 1 = i` exactly when all behind it were refused.
* `LoadInv`, `PlaceInv` (CLI): what is loaded is what this command loads, in both runs; as
  many targets are reported, or resolved, as the loop has passed, and those. `SendInv`: a
  client is kept under the name of its bot. `RouteInv`: a message keeps the revision it was
  routed by until it is published. `OpenInv`: whoever may still be sent to has got nothing
  but messages whose answers were lost; counting these carries `SentOnce` over the
  repetition.
* `ContentInv` (configuration file): the file, what a loaded command has read and what a
  writer is about to write are sound. `WaitInv`: what a process would undo was written, or
  brought back, by somebody in its `late` set.
* `BootInv`, `EventInv` (GitLab): the server is up exactly if `serve` starts with the
  configuration; what is delivered is for targets already passed, none twice.

`HandlerProofs` shows that each step of the shared part preserves `BaseInv` and
`TokenInv` (one lemma per step of the handler, entry, exit, boot and environment); the
two driver modules add one case per action of `Next`. TLC checked each of these
invariants on the runs' instances (`OpenInv` and `Counted` over the targets of the command,
where the theorem speaks of every value).

Three arguments are about computations rather than steps:

* *Patterns.* `GlobMatch` looks for each middle part in what the one before it left, as the
  code does; `Globbed` asks whether the parts can be placed at all. `GlobIsRight` shows
  them equal: the search's places are at or before those of any other placement
  (`GreedyCovers`), and the search's own places are one (`CoverIsFound`).
* *Targets.* What `Receive` decides *stands for* what is asked (`StandsFor`): each target
  serves something asked, each thing asked has a target, no target comes twice. As two
  targets in scope never have the same chat, this is a bijection between targets and chats,
  and so as many messages are tried as chats are asked for (`StandingForIsOnce`).
* *Two translations.* `OfflineSafe` relates the checks of `validateCrossReferences` to those
  of `buildGitlabSender` one by one, under the hypothesis that nothing only `serve` can
  know is involved.

Lists are walked by recursive functions (`s[k \in 0..n]`), and by numbers or sets instead
of folds, so that their unfolding is a fact the provers can be given. The inductions this
needs are over natural numbers: `Least` (every nonempty set of naturals has a least
element, from the well-foundedness of `<`) and `UpTo` (a *set* that contains 0 and the
successor of each of its members up to a bound contains everything up to that bound);
neither has an operator as a parameter.

Every invariant of the runs is a theorem, and so are the action properties
(`RefreshedTokenIsNew`, `SettledPairServed`, `WaitLosesNothing`) and the four refinements. Only model-checked: the liveness properties (`EventuallySettled`,
`EventuallyHandled`, `EventuallyCurrent`, `ShutdownEnds`, `NewestServed`), which need
fairness and `ENABLED` and so are beyond the prover. What the theorems take from the
outside is stated as an assumption on constants: what the API, the brokers and
the libraries do is an action or an operator of the models (marked external in
`PROJECT.json`), and the theorems are about the models.

## Where the code and its documentation disagree

* `kafka_failed`: the comment at `queue/kafka/driver.go:197-199` says a failed
  message is not committed "so the message can be redelivered or routed to a
  DLQ". Offsets are cumulative: the next successful message's commit passes it,
  and it is lost without a trace unless a rebalance or restart comes first.

## What else the models brought out

What the code does and no document denies plainly; the models follow the code.

* A worker whose cache is shared gets the refused token back after a 401
  (`cmd/worker.go:320` calls `authenticate`, which asks the cache first), while
  `docs/configuration.md:170` speaks of an automatic refresh. The default cache is a file
  and so a shared one. `RefreshedTokenIsNew` says that this is the only way for it to come
  back: not from another worker, a revocation or an expiry in between.
* The catalog consumer "to keep cache fresh from broker" (`cmd/serve.go:1026`) ends with
  its first error, or with a closed RabbitMQ channel, and is not started again:
  `EventuallyCurrent` excepts a reader that is gone.
* RabbitMQ is not asked for publisher confirms: a 202 (`server/multisend.go:35`) may stand
  for a message the broker never stored. `AnswerIsTrue` claims it of Kafka only.
* `server/server.go:563` waits on a wait group that callbacks on connections older than the
  deadline may still add to; Go may panic then (`crashed`). `ShutdownOrder` says it is the
  only way.
* `docs/integrations.md:692-694` says that a graceful shutdown waits until the background
  handlers have ended. It waits for them after it cancelled their context, which stops a
  command or a webhook call that is under way.
* `config bot token clear` says "cleared" also where a concurrent writer puts the entry back.
* The sender's token (`cmd/serve.go:797`) is a string written and read by several goroutines
  without a lock: a call may go out with neither of two tokens, or panic, which `net/http`
  turns into a connection closed without a response. No duplicate comes of it (`OnceSafe`).
* In multi-bot mode a chat's own bot overrides flags, though `config.go:311` gives flags the
  highest priority: `LastWord` excepts a bot that came by its chat.
* `enqueue` and `send` drop repeated targets by their text: an alias and the id of the same
  chat are two targets, and each gets its message.
* The configuration file is truncated before it is written. A command that reads it in
  between finds no bots and no chats and saves that (`blurred` in `WaitLosesNothing`).
  `import --all` and `bot add --secret` save what they read before they called BotX.
* A lost change can come back and be lost again: one command reads a file with the change,
  another, which had read it before, undoes the change, a third reads what is left, then the
  first writes the change again and the third undoes it. Who made the change is not who
  wrote late. `WaitLosesNothing` therefore counts as late all that a late writer's text
  contains. The narrower statement holds of three processes and is false of four.
* `bot add --name` refuses a host and id that another name has, also where the name given
  exists already (`cmd/bot.go:466`): a bot cannot be updated into a copy of another.
* `--secret` with `--token` is refused by `send`, plain `serve` and `api` (and of the bot to
  be added by `bot add`) only. In all other commands, `serve --enqueue` among them, the
  token wins and nothing is said of the secret (`config.go:2140-2147`). `LoadedIsCoherent`
  claims the token in that case.
* `import --overwrite` may give away the alias of a chat it has just reported as present.
* `chat rm` and `bot rm` leave references to what they removed.
* `config validate` cannot know what only a running server resolves: ids that are secrets,
  two senders whose secrets resolve to one value or to nothing. Nor does it read or parse
  templates: a file that is not there or a template that does not parse passes, and `serve`
  refuses it (`serve.go:710-725`, `handler_gitlab.go:544-547`). `OfflineAgrees` names these.
* A GitLab sender's template for a whole kind (`merge_request`) does not replace the
  built-in ones of single events (`merge_request.open`): these are found first.

## What is not modelled, and the plan

Abstracted from what is modelled: message payloads, formatting of errors and
logs, the duration of timers (a timer may fire at any time after it was set),
the sync id, publication of results beyond the set of results, partitions
other than one (they are independent logs), text of alerts and of templates.

Not modelled: the inline mentions parser (a scanner over the characters of one
message, without state), signature computation and the reading of secrets, logging,
tracing and error reporting, static pages, the checks of `Validate` that look at
one field (timeouts, cache settings, formats), collisions of API keys, the handlers of
the worker's `/healthz` and `/readyz` and the flags they read (`worker.go:431-451`), on which
no step of the worker depends, and the commands that make one call and print the answer.

The plan, in order of importance:

1. Worker delivery, catalog and asynchronous send, synchronous send, lifecycle, token
   caches, CLI producers, GitLab routing, configuration file: *modelled and checked.*
2. Every safety property of the runs, and the refinements of `Delivery` and `Fanout`, as
   theorems: *done.*
3. Lemmas that relate the loaders of `ConfigLoad` to one another (`serve` and `send` resolve
   the same bot from the same layers).
4. `CallbackGenuine` and `ShutdownOrder` composed with the synchronous requests of
   `SyncSend` in one server.
