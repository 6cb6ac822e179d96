# Verification of moderation-service

TLA+ specifications, TLC model checking and TLAPS proofs for the C++ moderation
service in `src/`. Source paths below are relative to `src/moderationservice/`
unless they start otherwise.

## 1. The system

A process with one gRPC method. `ModerateObject` puts the text on a Kafka
*request topic* and answers at once. A consumer thread of the same process reads
the request topic, decides whether the text is flagged, puts the verdict on a
*result topic*, and writes flagged texts to the PostgreSQL table
`moderation_records`.

```
 gRPC callers                      other producers
      |                                   |
 handler threads --produce-->  queue  --> request topic
                               (librdkafka)   |
                      ^                  consume (consumer thread)
                      |                       |
                      +---- answer -----------+--- row ---> moderation_records
                      |
                  result topic
```

### Inventory

| component | source | state | operations | correct when |
|---|---|---|---|---|
| gRPC handler | `handler/handler.cpp` | none | `ModerateObject` (many threads) | an OK means the request was taken; invalid requests are refused |
| service | `service/service.cpp` | shared pointers | `ProcessModerationRequest`, `HandleModerationResult`, `SaveResultToDatabase`, the consumer's callback | what is forwarded can be moderated; a flagged text is saved once per processing |
| Kafka producer | `kafka/kafkaclient.cpp` | librdkafka's queue, a mutex | `SendRequestAsync`, `SendResponseAsync`, `Flush`, delivery reports | a queued message is delivered or reported; the queue recovers from being full |
| Kafka consumer | `kafka/kafkaclient.cpp` | `running_`, the thread, position and stored offset | `Start`, `Stop`, `ConsumeLoop`, `ProcessMessage`, auto-commit | every well-formed message has one verdict; no bad message stops the thread |
| Kafka client | `kafka/kafkaclient.cpp` | `producer_`, `consumer_`, `initialized_` | `Initialize`, `StartConsumer`, `StopConsumer`, `Flush`, `Shutdown`, `isHealthy` | shutdown joins, flushes, then destroys |
| repository | `repository/repository.cpp` | one connection | `SaveModerationResult` | a failed save is reported |
| process | `main.cpp`, `server/server.cpp` | `global_server_ptr`, `shutdown_requested` | `main`, `signalHandler`, `Server::Start`, `Server::Stop` | a signal always ends the process, in order |
| text pipeline | `service/text_*.cpp`, `service/leetspeak_*.cpp`, `service/word_checker.cpp`, `model/constants.cpp` | forbidden-word set | `TextProcessing` and its stages | obvious variants of a forbidden word are caught |
| configuration | `include/config/config.hpp` | environment | `New` | a missing variable ends the process |
| logging | `include/interceptors/*` | none | sinks, gRPC interceptor | - |

Other actors: librdkafka's sender thread, the brokers, the consumer group's
coordinator, other producers of the request topic, the database server, and
whoever stops, kills and restarts the process.

### What is hard about it

* An OK reply precedes delivery; a failed delivery is only logged.
* The consumed offset is stored before the message is processed and committed by
  a timer (`enable.auto.commit`), so a crash can lose a message or repeat one.
* Answer and row are produced independently, each may fail, neither is retried.
* A failed `produce()` does not poll, so the queue may stay full for ever.
* Retries without idempotence duplicate messages.
* A stop must drain RPCs, join the consumer, flush the producer, and only then
  destroy them; a signal may come at any time, on any thread.
* `signalHandler` runs on top of an arbitrary thread and takes locks there.
* Every statement of the start may throw, and who takes the objects apart then
  depends on who holds the last `shared_ptr`.
* The stages of the text pipeline rely on one another's order, and each is a loop
  that steps by hand and carries what it wrote last.
* The key of a message is text that anybody may have written; it is read by a
  check of its first character and `stoll`.
* Instances of the service share a consumer group. A partition may change hands
  while its owner still owes answers, and the next owner reads again from the
  committed offset.

## 2. The modules

| module | models | implements / uses |
|---|---|---|
| `ModerationMessages` | requests, messages, answers, rows, and the pure decisions on them | - |
| `ModerationPromise` | what readers of the result topic and the table may rely on | `ModerationMessages` |
| `ModerationFlow` | handler threads, producer queue, brokers, consumer thread, repository, life of the process | implements `ModerationPromise` and `ProcessModes` |
| `ProcessModes` | the order of start, stop and restart as the message path needs it | - |
| `Lifecycle` | one life thread by thread: `main()`, signal handlers, RPC threads, consumer thread, the two mutexes | implements `ProcessModes` |
| `Startup` | `main()` up to `Wait()` with a failure at any statement: configuration, objects and their owners, `~KafkaClient` | - |
| `TextVerdict` | the verdict on a text, in one step | - |
| `TextPipeline` | `TextProcessing`, turn by turn of its loops | implements `TextVerdict` |
| `TextTables` | the tables, the vocabulary and the threshold of the code | - |
| `MessageKey` | `to_string` and `stoll` on keys, and what `ProcessMessage` accepts | - |
| `ProcessMessage` | one call of `KafkaConsumer::ProcessMessage`, statement by statement | composes `MessageKey` and `TextPipeline`; agrees with `ModerationMessages` |
| `AnswerOrder` | several instances and one partition that moves between them | - |
| `MCModerationFlow`, `MCLifecycle`, `MCStartup`, `MCProcessMessage`, `MCAnswerOrder` | instances for TLC | |
| `ModerationFlow_proofs`, `ModerationFlow_promises`, `Lifecycle_proofs`, `Startup_proofs`, `TextPipeline_proofs`, `TextVerdict_proofs`, `ProcessMessage_proofs`, `AnswerOrder_proofs` | theorems and proofs | |

How they fit together: `ModerationFlow` and `Lifecycle` look at the same process
from two sides, with the messages and with the threads. They meet in
`ProcessModes`: both implement it, so the order of a stop that the message path is
modelled with (no RPC begins after the signal, the consumer is stopped when the
last RPC has ended) is one that the threads and locks really produce.
`ModerationFlow` processes a message in few steps, over ids and a set of flagged
texts, with the operators of `ModerationMessages`; `ProcessMessage` takes the same
call apart, over the bytes of the key and the characters of the text, and shows
that these operators say what the call does. `AnswerOrder` puts several such
processes into one consumer group and keeps of each its consumer thread and its
producer queue. It is a model of its own: what the two take the group coordinator to
do (an assignment starts at the committed offset) is written down in each.

Operators named `X_Something`, marked "Mutant:", are mutated forms of `X`, kept
beside it; no specification uses them. Each checked property has one that breaks
it.

### ModerationFlow: state and actions

| variables | code |
|---|---|
| `mode`, `sessions`, `crashes` | where the process is in its life; assignments of the topic so far; history |
| `call`, `accepted` | per handler thread, the RPC it serves; history of the requests answered OK |
| `outbox`, `lost` | librdkafka's queue, one place per message until its report is served; history of what was given up |
| `requests`, `results` | the request topic (one partition), the set of answers on the result topic |
| `pc`, `current` | where the consumer thread stands, and the offset of the message it holds |
| `position`, `committed` | the stored offset and the committed one |
| `handled` | history: offsets whose processing ended |
| `table`, `saved`, `dbOpen` | rows, how often each offset was recorded, `pqxx::connection::is_open()` |

| action | code |
|---|---|
| `ModerateObject`, `SendRequestAsync`, `ReplyToCaller` | `handler.cpp:9-34` around `service.cpp:31-55` and `kafkaclient.cpp:93-133` |
| `Deliver`, `Expire`, `AckLost` | librdkafka and the broker; `dr_cb` only logs (`kafkaclient.cpp:44-62`) |
| `LoopHead`, `Consume`, `ConsumeNothing` | `kafkaclient.cpp:352-375` |
| `ProcessMessage`, `SendResponse`, `HandleModerationResult` | `kafkaclient.cpp:213-302`, `service.cpp:14-28,56-96`, `repository.cpp` |
| `AutoCommit`, `Rejoin` | librdkafka's commit timer and the group coordinator |
| `Signal`, `StopConsumer`, `Shutdown`, `Crash`, `Restart` | `main.cpp:48-60`, `kafkaclient.cpp:384-434` |

Steps are split where another actor can come in between. `KafkaProducer::mutex_`
makes produce-and-poll one step. When `produce()` fails, `poll(0)` is not
reached, so reports that wait keep their places: `Poll` is part of a successful
`Produce` only.

### Lifecycle: state and actions

`main` is the statement `main()` executes next, `frames[t]` the signal handlers
on top of thread `t` (the thread stands still below them), `server` and
`serverMu` the state and the mutex of `grpc::Server`, `rpc` and `worker` the
program counters of the RPC threads and of the consumer thread, `mutex` is
`KafkaProducer::mutex_`, `client` what is left of the Kafka client. The actions
follow `main.cpp`, `server.cpp` and `kafkaclient.cpp` statement by statement;
`Drained` is the return of `grpc::Server::Shutdown`, which waits, with the
server's mutex held, for every RPC and every thread of the pool.

### Startup: state and actions

`pc` is the statement of `main()` and `nread` the environment variables read.
`held` are the locals of `main()` that are still there, `published` says whether
`global_server_ptr` is set; `ServerAlive`, `HandlerAlive`, `ServiceAlive`,
`ClientAlive` and `RepositoryAlive` follow the chain of `shared_ptr`s from these.
`parts` is what the Kafka client has built (`producer_`, `consumer_`), `running`
and `initialized` are its flags, `worker` is the consumer thread, and `self` says
that it holds the service in its callback. `Throw` leaves the statement at hand for
the catch block; `DropLocal` and `DropServer` let go of a reference, and whoever
lets go of the last one runs `~KafkaClient` (`Destroy`, `StopConsumer`, `Join`,
`Flush`, `ResetConsumer`, `ResetProducer`), be it `main()` or the consumer thread.
RPCs are served from `BuildAndStart` on: `LogListening` is the statement between it
and `Wait()`, and what it throws unwinds `main()` while they go on (`Listening`).

### ProcessMessage, TextPipeline, MessageKey: state and actions

`at` is the statement of `ProcessMessage`, `message` its argument, `request_id`
its local, `answer` and `row` what it handed to `SendResponseAsync` and to the
callback. `ReadKey`, `RefuseKey`, `ParsePayload`, `CheckType`, `TextReturns`,
`Respond` and `Callback` are `kafkaclient.cpp:213-302` in order, each with its
early return. At statement `"text"` the actions of `TextPipeline` run: `stage` is
the function (`normalize`, `invisible`, `whitespace`, `repetition`, `orient`,
`leet`, `tokenize`, `check`), `text`, `i` and `result` what its loop reads, where
it is and what it has written. `prev_space` and `prevChar` are functions of
`result` (`PrevSpace`, `PrevChar`). `Throws` is an allocation that fails, which is
caught at `kafkaclient.cpp:272`. `MessageKey` is operators only: `Spell` is
`to_string`, `Parses` and `Number` are `stoll` with its prefix and its range,
`MayStart` is the check of the first character.

### AnswerOrder: state and actions

A request is its offset. `owner`, `position` and `committed` are of the partition,
`stray[i]` is the position of an instance that was expelled and does not know it yet;
`mode`, `busy` and `due` of an instance: its life, whether its consumer thread is
in `ProcessMessage`, and the answers it owes (the producer's queue, and the request
in hand). The instance does `Consume`, `Respond` or `RespondFails`, `AutoCommit`,
`Stop`, `FlushTimesOut`, `Close` and `Restart`, and `ConsumeUnaware` while it reads
on after an expulsion; its producer and the broker do
`Deliver`, `AckLost`, `Overtake` (requests in flight and no idempotence,
`kafkaclient.cpp:76-78`) and `Expire`; the coordinator does `Assign`, `Revoke`,
`Expel` and `Bury` (`Revoke` and `Expel` at any moment, also during `ProcessMessage`,
since no rebalance callback is registered, `kafkaclient.cpp:311-321`); anything may `Crash`. `past` remembers what may spoil the order
of the answers.

## 3. What is checked

| run | question | instance | distinct states |
|---|---|---|---|
| `flow_faults` | under every fault, does the service implement `ModerationPromise`, does a processed message have all its consequences, does an accepted request vanish, how often is a message recorded, how many are forgotten? | 1 handler, 2 places, 2 messages, 2 sessions, all nine faults | 512,428 |
| `flow_handlers` | does an accepted request ever vanish? does an orderly stop lose anything? is the order of `ProcessModes` kept? | 2 handlers, 2 places, 2 messages, 2 lives | 380,182 |
| `flow_live` | does the consumer get on, does an accepted request settle, does a stop end, is every well-formed message answered in the end or its answer given up? | 1 handler, 2 places, 2 messages, 2 sessions; rebalances, expired deliveries, throwing texts, refused commits | 214,194 |
| `life_order` | is anything released while somebody uses it? is `ProcessModes` implemented? can a lock or a flag be in the way of a stop? does a signal that reaches `Wait()` end the process in order? | 2 RPC threads, 2 signals on any thread at any moment | 74,467 |
| `start_failures` | whatever statement of the start throws: is a released object used, do RPCs find their handler, does an early failure end cleanly, does the start end? | every environment with at most two variables absent and one malformed, eleven statements that may throw | 2,197 |
| `process_message` | does one call do, statement by statement and turn by turn, what `ModerationMessages` and `TextVerdict` say in one step, in a bounded number of steps, and drop what it should? | 7,002 messages (below), the tables and the threshold of the code | 330,206 |
| `answer_order` | is the last answer about an object the one to its newest request, across handovers? is any request forgotten? | 2 instances, 2 objects, 2 requests, 2 stops, crashes or lost assignments | 581,638 |

What the properties of the newer modules say:

* `ImplementsVerdict`: the loops decide what `TextVerdict` decides over the whole
  text: the words between characters that are no letters, in the visible, lower
  case, squeezed text, with signs read in the alphabet that has more letters.
  `NothingUndone`: no stage brings back what an earlier one removed, which each of
  them relies on. `SeenThrough`: with the real tables, words in capitals,
  stretched, split by invisible characters, or spelled with signs or foreign
  letters count, and words that only resemble one do not.
* `RoundTrip`: an id the service publishes is read back as itself, the smallest
  int64 included, and its answer goes out under the same key. `DropsAsPromised`: a
  message with a proper key (none, or the number of an object, signed or not), a
  payload and a type is dropped only when its text threw, and a message without them
  never reaches its text, but for a *ragged* key, a number with something behind it;
  that one is what `key_digits` shows. `AnswersAsPromised`: answer and row are the
  `Response` and the `ModerationRecord` of the message; the answer's key reads back
  as the object that was moderated.
* `CountsDown`: the steps a call may still take are bounded from its start, by six
  turns for each character of the text after NFC and `toLower()` and fourteen, and
  whatever changes uses one up. Those two may lengthen a text (U+0130 is two code
  points in lower case, and is among the characters of the run); no loop after them
  goes back, and no later stage makes the text longer for the next.
* `NothingBlocksTheStop`: the handler of the only signal, on top of `main()` in
  `Wait()`, finds a server that serves and a mutex nobody holds; however many
  signals there were, `Wait()` gets the mutex back once notified, and `main()`
  finds the flag set behind it. The first part is what `life_early` and
  `life_twice` lose when a signal comes earlier or twice.
* `CallsFindTheirHandler`: what `Server::Start` throws after `BuildAndStart`
  destroys `main()`'s locals while RPCs are served; `global_server_ptr` alone keeps
  the handler, and all that is behind it, until `exit()`.
* `AskedIsAnswered`: across orderly stops, restarts, rebalances and refused commits,
  a well-formed message is answered although its offset is stored before it is
  processed. The answer may be missing only when it was given up (a throwing text, an
  expired delivery, a full queue); a crash is excluded, since a crash forgets.
* `NothingUsedAfterFree`, `ServesWhole`, `CleanFailure`, `StartEnds`: section 2,
  `Startup`. `CleanFailure` stops at the consumer thread: what throws after
  `StartConsumer` may leave that thread with the last reference to the service, and
  `~KafkaClient` then joins the thread with itself and aborts.
* `LastAnswerIsNewest`: holds through rereading from old offsets, duplicates and
  crashes. Its exceptions are the members of `Spoilers`: an answer was lost, was
  overtaken by a resent one, or owners overlapped. They overlap when an earlier one
  still owes answers as the next begins, which needs no fault at all, only a
  rebalance (nothing flushes the producer before the partition goes), or when an
  owner that was expelled and has not heard of it reads on. `NoneLeftOut`: once all
  is read and nobody owes anything, every request has its answer or a younger one
  about its object; of the three only the loss spoils that. `NobodyForgotten`: it
  comes to that.

Five runs end in a counterexample, each a disagreement between the code and what
the repository says of it:

* `flow_unmoderated`: `ProcessModerationRequest` does not copy the type
  (`service.cpp:39-41`), so the consumer drops every request the service itself
  publishes (`kafkaclient.cpp:256-260`). An accepted request is never moderated.
* `flow_wedged`: a failed `produce()` skips `poll(0)` (`kafkaclient.cpp:123-127`).
  With all delivered reports unserved, the queue stays full and every request is
  refused until the process is restarted.
* `life_early`: a signal that is handled between `std::signal` and
  `global_server_ptr = server` (`main.cpp:28-48`) is lost: the handler finds no
  server and sets the flag only, and `main()` goes on to sleep in `Wait()` for ever.
  (Two neighbours of it are in the model and not in this run: between line 48 and
  `server.cpp:26` the handler dereferences a null `server_`, the step to `"crashed"`
  in `StopServer`; and a handler on top of `main()` inside the locked step of
  `Wait()` waits for the mutex below it.)
* `life_twice`: SIGTERM during the drain that SIGINT began (or the other way
  round) nests two calls of `Shutdown()` on one thread; the second waits for the
  mutex of the first, for ever.
* `key_digits`: "Validate that key_str contains only digits (and optional leading
  +/-)" (`kafkaclient.cpp:221`), but only the first character is looked at and `stoll`
  reads a prefix: the message with the key "3b" is moderated as object 3.

### Bounds

* Two handlers are enough for two RPCs to compete with the consumer for the
  queue; two places are enough for it to be full of undelivered messages, of
  reports, or of one of each. `flow_wedged` needs one.
* `MaxRequests` bounds the topic through `Demand`, which counts what may still be
  appended, so that the bound never blocks a delivery that the code would make.
  Two messages are a loss and a survivor, or a refused and an accepted one.
* `MaxSessions` bounds restarts and rebalances together. Two are a failure and
  its aftermath; that the counts of rows and losses hold for any number is proved.
* Messages of other producers: flagged, clean, without a key, with a bad key.
  Requests: one that is forwarded and one with id 0. Kinds that the code treats
  alike are represented once.
* `MaxId = 31` in `process_message`: ids from -32 to 31, so keys of three characters
  are below, at and beyond both ends, signed or not, with leading zeros, or with
  something behind the number.
* Texts: every text of at most three characters over twelve kinds of character
  (letters of both alphabets, a capital, one that is two characters in lower case, a
  sign, a letter and a mark that compose, invisible, a line separator, white space, code point 0); a word of three or four
  signs written four times, so that it passes the threshold, and texts with as many
  Cyrillic as Latin letters or one more; disguised words, three to five of them,
  with four separators. Some texts the normalizer cannot read, on some memory runs
  out.
* `answer_order`: two requests about one object are an older and a younger answer;
  two instances are an earlier and a later owner; two moves are, say, a lost
  assignment and a crash of the next owner. Three requests about one object hold
  as well (2.0 million states). `MaxResults` bounds only the duplicates of
  `AckLost`.
* Symmetry over handlers and places is used in runs without liveness only.
* `Lifecycle` is finite but for the number of signals: each arrives once.
* `CHECK_DEADLOCK FALSE`: in `life_order`, since with handlers on RPC and consumer
  threads every thread may wait for another, and does (section 1); in
  `process_message` and `key_digits`, since a call returns; in `answer_order`, since the requests
  and moves of the model end.

### Fairness

`FairSpec` of `ModerationFlow`: every ready thread runs (weak fairness of the
handler's steps, of the consumer's steps, of `main()`'s stop); `consume()`
returns messages that are waiting rather than timing out for ever (strong
fairness of `Consume`, which a time-out disables for a moment); librdkafka
settles each queued message in the end, delivered or expired
(`message.timeout.ms`), so only the disjunction is fair. Nobody has to call, to
send a signal, to restart, and no fault has to happen. `Lifecycle`: weak fairness
of every thread, strong fairness of obtaining `KafkaProducer::mutex_`, which
others take and release again and again. `Startup`: weak fairness of `main()` and
of the consumer thread. `ProcessMessage`: weak fairness of the statements that
return, `CallForward`; an exception need not happen. `AnswerOrder`: the threads and
the broker run, an owner that is gone is taken off the group
(`session.timeout.ms`), an instance that is gone is started again, and a free
partition is assigned to somebody; no stop, crash, rebalance or commit has to
happen.

## 4. What is proved

For every number of handlers, places, messages, sessions, RPC threads, signals,
instances, objects and moves, every environment, every alphabet and table, and
every text and key, from the assumptions named in the modules
(`MessagesAssumption`, `FlowAssumption`, `LifecycleAssumption`,
`StartupAssumption`, `TextAssumption`, `KeyAssumption`, `MessageAssumption`,
`OrderAssumption`: typing of the constants, finiteness of the threads and places,
that the markers differ from data, and what the code's tables and the Unicode
character classes have in common: the substitution tables neither read nor write
white space, write nothing invisible and do not read code point 0; white space, the
letters and digits, and code point 0 have no character in common; the space is
visible; the two counted alphabets are disjoint). TLC evaluates them on the real
tables in `process_message`.

| theorem | states | argument |
|---|---|---|
| `TypeCorrect` | `[]TypeOK` | `TypeOK` needs `AtHand`: the consumer holds a message exactly in the steps that work on one, it passed the checks before it is answered, a dead process holds none |
| `RowsBounded` | `[]RowsBoundedBySessions` | `TurnsLeft`: rows written, plus one while the message is at hand, plus one while the position is not past it, never exceed the assignments |
| `LossBounded` | `[]LossBoundedByCrashes` | the same count for everything below the *position*: what is committed is part of it |
| `AcceptedAccountedFor`, `HandledAccountedFor` | `[]AcceptedAccounted`, `[]HandledAccounted` | `NothingDropped`: an entry that is in the queue, on its topic or given up stays so; added are the RPC about to answer OK and the consumer about to save |
| `PromiseKept` | `Spec => ImplementsPromise` | `AnswersJustified`: every answer in the queue belongs to an acceptable message of the topic; then each step is a step of the promise or none |
| `FlowKeepsModes`, `OrderlyStop` | `Spec => ImplementsModes`, `Spec => OrderlyStopLosesNothing` | `Quiet`: no RPC while stopping or down |
| `LifecycleTypeCorrect` | `[]TypeOK`, which includes that the mutex is held by the thread in `produce()` | needs `BeforeStart`: no consumer thread before it is started |
| `ClientOutlivesItsUsers` | `[]ClientServesItsUsers` | `Order`: how far `main()` must be for server, worker and client to be as they are. The handlers' frames do not occur in it |
| `ModesKept` | `Spec => ImplementsModes` of `Lifecycle` | the same `Order` |
| `StopIsNotBlocked` | `[]NothingBlocksTheStop` | `Held`, below |
| `StartTypes`, `WorkerFindsItsObjects`, `OnlyWholeProcessesServe`, `CallsAreServed`, `EarlyFailuresAreClean` | the safety properties of `Startup` | `Building`: what is built before each statement; `Unwinding`: what is left while the catch block and the destructors run, and that the worker's reference keeps the chain below the service alive |
| `TextTypes` | `[]TypeOK` of `TextPipeline` | `Loops`: each loop stands within its text |
| `StagesRelyOnOneAnother` | `[]NothingUndone` | `Written`: the same of the text each stage is writing, character by character, and of the last one written |
| `TurnsAreBounded` | every turn of `TextPipeline` uses up one of `TurnsLeft`, at first six for each character of the text after NFC and `toLower()` and eight; nothing is assumed of what those two do to its length | what a loop has written and what it has not read together never grow (`OneReadOneWritten`), trimming makes no text longer |
| `CallIsBounded` | `CallSpec => CountsDown` | a statement uses up one of `StatementsLeft`, a turn one of `TurnsLeft` |
| `CallRunsTheStages`, `StagesWithinTheCall` | `CallSpec => TextPipeline!Spec`, and so `CallSpec => []NothingUndone` | each statement is a step of the pipeline or leaves it alone |
| `DropsForAReason` | `CallSpec => []DropsAsPromised` | `Passed`: which checks a message has passed at each statement; `VerdictInTime`: there is no verdict before the text is processed; `ProperIsReadable`, `ReadableIsNumber`: the code accepts every proper key, and what it accepts besides is ragged |
| `StagesImplementTheVerdict` | `Spec => ImplementsVerdict` of `TextPipeline` | `Computed`: at every turn the loop of a stage has written its recursive function of what it has read; `Decided`: the verdict follows from the last of these functions. See below |
| `CallTypes` | `CallSpec => []CallTypeOK` | `Sent`: the identifier is that of the key from the second statement on, and what is sent and written is a function of it and of the verdict |
| `OneKeyPerObject` | `CallSpec => []RoundTrip` | `Sent`, with the lemma `SpellLaw`: the characters of any number of the width are a key that is accepted and reads back as the number |
| `AnswersFollowTheMessage` | `CallSpec => []AnswersAsPromised` | `Sent`, `Passed` and `Decided`: the flagged texts of the one-step account are those on which the stages' count passes the threshold |
| `CallImplementsTheVerdict` | `CallSpec => ImplementsVerdict` | from `CallRunsTheStages` |
| `OrderTypes` | `[]TypeOK` of `AnswerOrder` | by itself |
| `NewestAnswerLast` | `[]LastAnswerIsNewest` | `Kept`: every offset below the position has its last answer on the topic or is owed; `ReadOn`: whoever owes an old one owes, behind it, all read after it; `OneOwes`, `Unowned`: one instance owes, and the next owner starts at the committed offset; `ReadAlone`, `UnawareStep`: an expelled owner that reads on while nobody else owns or owes keeps all of these, and any other leaves `overlap` in `past` |
| `NobodyLeftOut` | `[]NoneLeftOut` | `NoneDropped`: what is committed is answered or owed by somebody; what was read since is answered or owed by the owner, so that the crash of anybody else takes none of it, and the crash of the owner only what will be read again |

Every invariant and every safety action property of the passing runs is a theorem,
but for `SeenThrough`. Of two liveness properties the safety half is among them:
`CountsDown` of `Returns` (what it adds is that the thread runs and is never without
a next statement), `NothingBlocksTheStop` of `SignalEndsInOrder`.

### The handlers' frames

`NothingBlocksTheStop` is about frames on top of threads, and is far from inductive.
`Held` adds what the frames have to do with the mutex and the flag: `Alone`, a signal
has one frame at most, on one thread; `AllHonest`, the signal of a frame has come, a
handler beyond its first step has set the flag, and one that drains, and no other,
holds the mutex of `grpc::Server`; `Locks`, otherwise `main()` holds it exactly in
`Wait()`'s locked step, the server drains exactly while a handler holds it, and a
server that was notified has a signal whose handler has returned. The last is what
makes the only signal find a server that serves: had it been notified before, that
signal would be another one. A frame that is pushed or popped moves the others
(`Pushed`, `Popped`), and one that takes a step leaves them (`Stepped`).

### Induction

What a recursive function computes of every text or number is proved by least
counterexample, without the library's induction theorems, whose parameter is an
operator. `TextVerdict_proofs` shows once that a *set* of numbers, or of sequences,
that is closed under the steps that build them has them all (`Induction`,
`CompleteInduction`, `SeqInduction`: the numbers up to the first one missing are a
finite set and have a least member), and that a recursive definition by a lesser
rank defines a function (`Recursion`: the approximations below a rank exist and
agree; `SeqRecursion`, `FoldLaw` for functions of the end of a sequence). Each
function of the models gets from these its type and its equations
(`VisibleLaw`, `SqueezedLaw`, `DecimalLaw`, `ValueLaw`), and only the equations
are used from there on.

### The verdict

The loops and `TextVerdict` do not compute the same text. `TextNormalization` trims
the text before the invisible characters are taken out, `JoinWhite` joins all
white space of which `TextVerdict` squeezes a run, and `RepetitionNormalization`
begins as if code point 0 had been written, so that it drops those the text begins
with. What the two sides hold differs by blanks (spaces and code point 0) at the
beginning and spaces at the end, and by nothing else:

1. `PlainIsLooped`: the plain text of `TextVerdict` is `pre`, the text the loops
   leave, and `post`, with blanks in `pre` and `post`. `Matches` is the relation
   that survives one more character on both sides (`MatchesStep`); it says what the
   loops wrote last and what is dropped. `TrimmedSplit` accounts for what was cut
   off.
2. Blanks are in neither alphabet, so both sides are oriented alike
   (`BlanksUncounted`), and the tables leave blanks alone (`ReadLaw`).
3. `ScannedMeans`: the words that `Tokenize` closes, one character at a time, are
   those of the longest intervals of letters and digits: a word that has ended stays
   one when the text goes on (`ForbiddenStays`), and the last one is the only one
   that may still grow (`ForbiddenLast`). `BlanksScanned`: blanks at the ends close
   and open no word.
4. `FlaggedMeans` puts the three together; `VInv`, that is `Computed` and `Decided`
   with the invariant of `StagesRelyOnOneAnother`, relates it to the state.

### The key

`DecimalLaw`: `to_string` writes one digit at least, and digits only. `ValueLaw` and
`ValueOfDecimal`: `stoll` adds the digits up again. `LeadingLaw`: it reads, behind
the sign, up to the first character that is no digit, and so the whole of such a
text. So `OneKeyPerObject` holds for every
width, and for the smallest identifier, whose magnitude is not one, as well.

### Only model-checked

The liveness properties (`ConsumerProgress`, `AcceptedSettles`, `StopCompletes`,
`AskedIsAnswered`, `SignalEndsInOrder`, `StartEnds`, `Returns`, `NobodyForgotten`),
since fairness and `ENABLED` are outside what the proof system handles;
`SeenThrough`, which is about the code's own tables and vocabulary and a family of
texts made of them, and so a statement about one instance; and the
counterexamples.

## 5. What is not modelled, and assumptions

* External, modelled from how the code uses them: librdkafka (queue, reports,
  background delivery, auto-commit, rebalance), the brokers, the group coordinator,
  `grpc::Server` (`Wait` and `Shutdown` share a mutex; `Shutdown` waits for its
  threads), PostgreSQL, ICU, the delivery of signals.
* The request topic has one partition. With more, the statements hold of each:
  requests with one key stay in one partition.
* `Startup` has no signals and `Lifecycle` no exceptions: each covers one kind of
  disturbance.
* The inside of `~Server` at `exit()`: it lets the handler go before `grpc::Server`
  (`server.hpp:22-23`), so when `Server::Start` threw after `BuildAndStart`, an RPC
  may meet a handler that is gone. `CallsFindTheirHandler` stops where `exit()`
  begins to destroy `global_server_ptr`; up to there it is proved.
* Characters are code points: how ICU steps over surrogates is taken as right.
* Disguises that the code does not see through, and that `SeenThrough` does not ask
  for: a stretched word of different signs for one letter ("ga4ay"), a sign that is
  punctuation in one place and a letter in another ("gay!" is read as "gayi"), and a
  few added letters of the other alphabet that turn the orientation.
* A disagreement between a comment and the code that a reader should know of,
  without a run of its own: `text_normalization.cpp:98` ("Skip zero-width and format
  characters") also skips the line and paragraph separators (lines 114-115), so that
  two words on two lines become one. The models have it as the code does.
* NFC and `toLower()` are operators on whole texts (`NFC`, `ToLower`), of which the
  proofs assume only that they give texts; the run has compositions, capitals and a
  capital that becomes two characters.
* Of three things that may go wrong the models have the step, and no property calls
  it wrong, since nothing in the repository says what should happen: a failed bind
  (`server.cpp:26`), `~KafkaClient` on the consumer thread (`kafkaclient.cpp:448`),
  a connection that is never reopened (`repository.cpp:22`). What a fault takes is
  put into `lost`, and the accounts of `ModerationFlow` ask only that nothing is
  missing without being there.
* The identifier inside the payload, which the code never reads (it uses the
  message's key).
* Data races on `global_server_ptr` between a handler on another thread and
  `main()`, and functions in the handler that are not async-signal-safe.
* `isHealthy()`, which only tests call and which changes nothing; logging and its
  gRPC interceptor (formatting, and one flag set before any other thread exists);
  tests, benchmark and build files.

## 6. Plan

1. *Done:* the message path (`ModerationMessages`, `ModerationPromise`,
   `ModerationFlow`), the process (`ProcessModes`, `Lifecycle`), their runs, and
   the proofs of their safety.
2. *Done:* the start and its failures (`Startup`), the text pipeline, the key, and
   the call that composes them (`ProcessMessage`), with their proofs.
3. *Done:* several instances in one group (`AnswerOrder`), with the proof of the
   order of their answers.
4. *Done:* the proofs that the stages decide what `TextVerdict` says, that a key is
   read back as the identifier it was written from, and that a call answers what
   `ModerationMessages` says.
5. *Done:* RPCs during a start that fails late, the locks of a stop, an owner that
   reads on after its expulsion, the bound on the steps of a call, with their proofs.
6. Left: `AnswerOrder` with unacceptable messages, as an implementation of an
   abstract log that keeps the newest verdict per object; signals during a failing
   start.
