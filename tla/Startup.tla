------------------------------- MODULE Startup -------------------------------
(***************************************************************************)
(* main() from its first getenv to Wait(), and every way out of it before: *)
(* what throws, what has been built by then, who still owns it, and which  *)
(* thread takes it apart.  Lifecycle has the rest of main() and the        *)
(* signals; here one statement after another may throw.                    *)
(*                                                                         *)
(* Ownership is by shared_ptr.  main() holds one reference per local, the  *)
(* server holds the handler, the handler the service, the service the      *)
(* repository and the Kafka client; global_server_ptr holds the server,    *)
(* and the consumer thread holds the service while it is in the callback.  *)
(***************************************************************************)
EXTENDS Naturals, Sequences

CONSTANTS
  Environments,  \* functions from Variables to "set", "malformed", "absent"
  MayThrow       \* statements that may throw besides reading the environment

\* In the order Config::New and KafkaConfig::New read them.
Required ==
  <<"HOST", "PORT", "DATABASE_URL", "LOG_LEVEL", "LOG_FORMAT", "LOG_DATEFMT",
    "KAFKA_BROKERS", "KAFKA_REQUEST_TOPIC", "KAFKA_RESULT_TOPIC",
    "KAFKA_CONSUMER_GROUP_ID", "KAFKA_MAX_RETRIES", "KAFKA_RETRY_BACKOFF_MS",
    "KAFKA_ENABLE_SSL">>
Variables == {Required[n] : n \in DOMAIN Required}

\* Read by std::stoi.
Numeric == {"KAFKA_MAX_RETRIES", "KAFKA_RETRY_BACKOFF_MS"}

\* What main() builds, in order.
Locals == <<"repository", "client", "service", "handler", "server">>
LocalNames == {Locals[n] : n \in DOMAIN Locals}

Main == "main"
Worker == "worker"

\* What may throw once the consumer thread is there.
PastStart == {"handler", "server", "listen", "log"}

Statements ==
  {"read", "repository", "client", "service", "producer", "consumer", "subscribe",
   "start", "thread", "handler", "server", "publish", "listen", "log", "wait",
   "unwind", "exit", "over"}

ASSUME StartupAssumption ==
  /\ Environments \subseteq [Variables -> {"set", "malformed", "absent"}]
  /\ MayThrow \subseteq Statements \ {"read", "publish", "wait", "unwind", "exit", "over"}

VARIABLES
  env,       \* the environment of the process
  nread,     \* how many of the required variables have been read
  pc,        \* the statement main() executes next
  failedAt,  \* the statement that threw, or "none"
  held,      \* main()'s locals that hold a reference
  published, \* global_server_ptr holds a reference to the server
  self,      \* the consumer thread holds a reference to the service
  parts,     \* members of the client: "producer", "consumer"
  initialized, \* KafkaClient::initialized_
  running,   \* KafkaConsumer::running_
  worker,    \* consumer thread: none, loop, process, callback, exited
  dtor,      \* ~KafkaClient: none, stop, join, flush, consumer, producer, done
  dtorBy,    \* the thread that runs it
  fate       \* alive, failed (status 1), crashed, terminated

vars == <<env, nread, pc, failedAt, held, published, self, parts, initialized,
          running, worker, dtor, dtorBy, fate>>

-----------------------------------------------------------------------------
\* An object lives as long as somebody holds a reference to it.
ServerAlive == "server" \in held \/ published
HandlerAlive == "handler" \in held \/ ServerAlive
ServiceAlive == "service" \in held \/ HandlerAlive \/ self
ClientAlive == "client" \in held \/ ServiceAlive
RepositoryAlive == "repository" \in held \/ ServiceAlive

TypeOK ==
  /\ env \in [Variables -> {"set", "malformed", "absent"}]
  /\ nread \in 0..Len(Required)
  /\ pc \in Statements
  /\ failedAt \in Statements \cup {"none"}
  /\ held \subseteq LocalNames
  /\ published \in BOOLEAN /\ self \in BOOLEAN
  /\ parts \subseteq {"producer", "consumer"}
  /\ initialized \in BOOLEAN /\ running \in BOOLEAN
  /\ worker \in {"none", "loop", "process", "callback", "exited"}
  /\ dtor \in {"none", "stop", "join", "flush", "consumer", "producer", "done"}
  /\ dtorBy \in {Main, Worker}
  /\ fate \in {"alive", "failed", "crashed", "terminated"}
  \* ~KafkaClient runs once, when nobody holds the client any more.
  /\ dtor # "none" => ~ClientAlive

Init ==
  /\ env \in Environments
  /\ nread = 0 /\ pc = "read" /\ failedAt = "none"
  /\ held = {} /\ published = FALSE /\ self = FALSE
  /\ parts = {} /\ initialized = FALSE /\ running = FALSE
  /\ worker = "none" /\ dtor = "none" /\ dtorBy = Main
  /\ fate = "alive"

-----------------------------------------------------------------------------
(***************************************************************************)
(* main(), statement by statement.                                         *)
(***************************************************************************)

Busy(t) == dtor \notin {"none", "done"} /\ dtorBy = t
At(s) == fate = "alive" /\ pc = s /\ ~Busy(Main)

Go(next) == pc' = next /\ UNCHANGED failedAt

\* An exception on its way to the catch block of main().
Throw == pc' = "unwind" /\ failedAt' = pc

\* getenv, and stoi where a number is wanted.
ReadVariable ==
  /\ At("read")
  /\ nread < Len(Required)
  /\ LET name == Required[nread + 1]
     IN  IF env[name] = "absent" \/ (name \in Numeric /\ env[name] = "malformed")
           THEN Throw /\ UNCHANGED nread
           ELSE nread' = nread + 1 /\ UNCHANGED <<pc, failedAt>>
  /\ UNCHANGED <<env, held, published, self, parts, initialized, running, worker,
                 dtor, dtorBy, fate>>

HaveConfig ==
  /\ At("read")
  /\ nread = Len(Required)
  /\ Go("repository")
  /\ UNCHANGED <<env, nread, held, published, self, parts, initialized, running,
                 worker, dtor, dtorBy, fate>>

\* std::make_shared of the object that is named like the statement.
Make(what, next) ==
  /\ At(what)
  /\ \/ Go(next) /\ held' = held \cup {what}
     \/ what \in MayThrow /\ Throw /\ UNCHANGED held
  /\ UNCHANGED <<env, nread, published, self, parts, initialized, running, worker,
                 dtor, dtorBy, fate>>

MakeObjects ==
  \/ Make("repository", "client")  \* connects to the database
  \/ Make("client", "service")
  \/ Make("service", "producer")
  \/ Make("handler", "server")
  \/ Make("server", "publish")

\* KafkaClient::Initialize, through InitializeKafkaCallback.
MakeProducer ==
  /\ At("producer")
  /\ \/ Go("consumer") /\ parts' = parts \cup {"producer"}
     \/ "producer" \in MayThrow /\ Throw /\ UNCHANGED parts
  /\ UNCHANGED <<env, nread, held, published, self, initialized, running, worker,
                 dtor, dtorBy, fate>>

MakeConsumer ==
  /\ At("consumer")
  /\ \/ Go("subscribe")
     \/ "consumer" \in MayThrow /\ Throw
  /\ UNCHANGED <<env, nread, held, published, self, parts, initialized, running,
                 worker, dtor, dtorBy, fate>>

\* The constructor of KafkaConsumer ends with subscribe(): when that fails the
\* consumer never becomes a member, and the producer stays one.
\* Mutant: the catch block of Initialize swallows the exception.
Subscribe_Swallowed ==
  /\ At("subscribe")
  /\ Go("start")
  /\ \/ parts' = parts \cup {"consumer"} /\ initialized' = TRUE
     \/ "subscribe" \in MayThrow /\ UNCHANGED <<parts, initialized>>
  /\ UNCHANGED <<env, nread, held, published, self, running, worker, dtor, dtorBy,
                 fate>>
Subscribe ==
  /\ At("subscribe")
  /\ \/ Go("start") /\ parts' = parts \cup {"consumer"} /\ initialized' = TRUE
     \/ "subscribe" \in MayThrow /\ Throw /\ UNCHANGED <<parts, initialized>>
  /\ UNCHANGED <<env, nread, held, published, self, running, worker, dtor, dtorBy,
                 fate>>

\* KafkaClient::StartConsumer: running_ is set, then the thread is created.
StartConsumer ==
  /\ At("start")
  /\ IF initialized THEN Go("thread") /\ running' = TRUE
                    ELSE Go("handler") /\ UNCHANGED running
  /\ UNCHANGED <<env, nread, held, published, self, parts, initialized, worker,
                 dtor, dtorBy, fate>>

CreateThread ==
  /\ At("thread")
  /\ \/ Go("handler") /\ worker' = "loop"
     \/ "thread" \in MayThrow /\ Throw /\ UNCHANGED worker
  /\ UNCHANGED <<env, nread, held, published, self, parts, initialized, running,
                 dtor, dtorBy, fate>>

\* global_server_ptr = server.  Mutant: the global is a bare pointer.
Publish_Bare ==
  /\ At("publish")
  /\ Go("listen")
  /\ UNCHANGED <<env, nread, held, published, self, parts, initialized, running, worker,
                 dtor, dtorBy, fate>>
Publish ==
  /\ At("publish")
  /\ Go("listen")
  /\ published' = TRUE
  /\ UNCHANGED <<env, nread, held, self, parts, initialized, running, worker, dtor,
                 dtorBy, fate>>

\* Server::Start up to BuildAndStart, which returns null when the address is
\* taken; Wait() is called on it all the same.
Listen ==
  /\ At("listen")
  /\ \/ Go("log") /\ UNCHANGED fate
     \/ "listen" \in MayThrow /\ Throw /\ UNCHANGED fate
     \/ Go("listen") /\ fate' = "crashed"
  /\ UNCHANGED <<env, nread, held, published, self, parts, initialized, running,
                 worker, dtor, dtorBy>>

\* "listening on": RPCs are served by now.
LogListening ==
  /\ At("log")
  /\ Go("wait") \/ ("log" \in MayThrow /\ Throw)
  /\ UNCHANGED <<env, nread, held, published, self, parts, initialized, running,
                 worker, dtor, dtorBy, fate>>

-----------------------------------------------------------------------------
(***************************************************************************)
(* The way out: main()'s locals are destroyed in the reverse of the order  *)
(* they were built in, the catch block returns 1, and exit() destroys what *)
(* is static.  Whoever drops the last reference to the client runs its     *)
(* destructor.                                                             *)
(***************************************************************************)

\* Dropping a reference runs ~KafkaClient on thread t when it was the last one.
\* Mutant: main() owns the client, and the service has a bare pointer to it.
Dropped_Owner(t) ==
  IF "client" \in held /\ "client" \notin held' THEN dtor' = "stop" /\ dtorBy' = t
                                                ELSE UNCHANGED <<dtor, dtorBy>>
Dropped(t) ==
  IF ClientAlive /\ ~ClientAlive' THEN dtor' = "stop" /\ dtorBy' = t
                                  ELSE UNCHANGED <<dtor, dtorBy>>

DropLocal ==
  /\ At("unwind")
  /\ \E n \in DOMAIN Locals :
       /\ Locals[n] \in held
       /\ \A later \in (n + 1)..Len(Locals) : Locals[later] \notin held
       /\ held' = held \ {Locals[n]}
  /\ UNCHANGED <<published, self>>
  /\ Dropped(Main)
  /\ UNCHANGED <<env, nread, pc, failedAt, parts, initialized, running, worker, fate>>

Catch ==
  /\ At("unwind")
  /\ held = {}
  /\ Go("exit")
  /\ UNCHANGED <<env, nread, held, published, self, parts, initialized, running,
                 worker, dtor, dtorBy, fate>>

\* The destructor of global_server_ptr.
DropServer ==
  /\ At("exit")
  /\ published
  /\ published' = FALSE
  /\ UNCHANGED <<held, self>>
  /\ Dropped(Main)
  /\ UNCHANGED <<env, nread, pc, failedAt, parts, initialized, running, worker, fate>>

Exit ==
  /\ At("exit")
  /\ ~published
  /\ Go("over")
  /\ fate' = "failed"
  /\ UNCHANGED <<env, nread, held, published, self, parts, initialized, running,
                 worker, dtor, dtorBy>>

-----------------------------------------------------------------------------
(***************************************************************************)
(* ~KafkaClient, that is Shutdown().                                       *)
(***************************************************************************)

Destroying(step) == fate = "alive" /\ dtor = step
Destroy(next) == dtor' = next /\ UNCHANGED dtorBy

\* KafkaClient::StopConsumer, up to the join.  Mutant: running_ stays true.
StopConsumer_Unflagged ==
  /\ Destroying("stop")
  /\ Destroy(IF initialized /\ running THEN "join" ELSE "flush")
  /\ UNCHANGED <<env, nread, pc, failedAt, held, published, self, parts, initialized,
                 running, worker, fate>>
StopConsumer ==
  /\ Destroying("stop")
  /\ IF initialized /\ "consumer" \in parts /\ running
       THEN running' = FALSE /\ Destroy("join")
       ELSE Destroy("flush") /\ UNCHANGED running
  /\ UNCHANGED <<env, nread, pc, failedAt, held, published, self, parts, initialized,
                 worker, fate>>

\* join(), of a thread that was created: it has to exit first, and joining
\* itself throws out of a destructor.  Mutant: joinable() is not asked.
Join_Unasked ==
  /\ Destroying("join")
  /\ \/ worker = "exited" /\ Destroy("flush") /\ UNCHANGED fate
     \/ (dtorBy = Worker \/ worker = "none") /\ fate' = "terminated" /\ UNCHANGED <<dtor, dtorBy>>
  /\ UNCHANGED <<env, nread, pc, failedAt, held, published, self, parts, initialized,
                 running, worker>>
Join ==
  /\ Destroying("join")
  /\ \/ worker \in {"none", "exited"} /\ Destroy("flush") /\ UNCHANGED fate
     \/ dtorBy = Worker /\ fate' = "terminated" /\ UNCHANGED <<dtor, dtorBy>>
  /\ UNCHANGED <<env, nread, pc, failedAt, held, published, self, parts, initialized,
                 running, worker>>

Flush ==
  /\ Destroying("flush")
  /\ Destroy("consumer")
  /\ UNCHANGED <<env, nread, pc, failedAt, held, published, self, parts, initialized,
                 running, worker, fate>>

ResetConsumer ==
  /\ Destroying("consumer")
  /\ Destroy("producer")
  /\ parts' = parts \ {"consumer"}
  /\ UNCHANGED <<env, nread, pc, failedAt, held, published, self, initialized, running,
                 worker, fate>>

ResetProducer ==
  /\ Destroying("producer")
  /\ Destroy("done")
  /\ parts' = parts \ {"producer"}
  /\ initialized' = FALSE
  /\ UNCHANGED <<env, nread, pc, failedAt, held, published, self, running, worker, fate>>

-----------------------------------------------------------------------------
(***************************************************************************)
(* The consumer thread.                                                    *)
(***************************************************************************)

WorkerAt(step) == fate = "alive" /\ worker = step /\ ~Busy(Worker)

\* while (running_.load()), and a message or none.
LoopHead ==
  /\ WorkerAt("loop")
  /\ worker' \in IF running THEN {"loop", "process"} ELSE {"exited"}
  /\ UNCHANGED <<env, nread, pc, failedAt, held, published, self, parts, initialized,
                 running, dtor, dtorBy, fate>>

\* The answer is sent; then weakThis.lock().  Mutant: the callback captured this.
LockService_Raw ==
  /\ WorkerAt("process")
  /\ worker' \in {"loop", "callback"}
  /\ UNCHANGED <<env, nread, pc, failedAt, held, published, self, parts, initialized,
                 running, dtor, dtorBy, fate>>
LockService ==
  /\ WorkerAt("process")
  /\ \/ ServiceAlive /\ worker' = "callback" /\ self' = TRUE
     \/ worker' = "loop" /\ UNCHANGED self  \* refused, or the service has expired
  /\ UNCHANGED <<env, nread, pc, failedAt, held, published, parts, initialized, running,
                 dtor, dtorBy, fate>>

\* The row is written and self goes out of scope.
LeaveCallback ==
  /\ WorkerAt("callback")
  /\ worker' = "loop"
  /\ self' = FALSE
  /\ UNCHANGED <<held, published>>
  /\ Dropped(Worker)
  /\ UNCHANGED <<env, nread, pc, failedAt, parts, initialized, running, fate>>

-----------------------------------------------------------------------------
\* The server serves, or the process is gone.
Ended == (pc = "wait" \/ fate # "alive") /\ UNCHANGED vars

MainNext ==
  \/ ReadVariable \/ HaveConfig \/ MakeObjects \/ MakeProducer \/ MakeConsumer
  \/ Subscribe \/ StartConsumer \/ CreateThread \/ Publish \/ Listen \/ LogListening
  \/ DropLocal \/ Catch \/ DropServer \/ Exit

Destructor ==
  StopConsumer \/ Join \/ Flush \/ ResetConsumer \/ ResetProducer

WorkerNext == LoopHead \/ LockService \/ LeaveCallback

Next == MainNext \/ Destructor \/ WorkerNext \/ Ended

Spec == Init /\ [][Next]_vars

\* Main and whoever runs a destructor go on; the consumer thread does too.
FairSpec == Spec /\ WF_vars(MainNext) /\ WF_vars(Destructor) /\ WF_vars(WorkerNext)

-----------------------------------------------------------------------------
(***************************************************************************)
(* Properties                                                              *)
(***************************************************************************)

\* The consumer thread finds what it uses: the consumer and the producer in its
\* loop, the service and its repository in the callback, whichever statement of
\* main() threw, and whoever takes the objects apart meanwhile.
NothingUsedAfterFree ==
  fate = "alive" =>
    /\ worker \in {"loop", "process", "callback"} => parts = {"producer", "consumer"}
    /\ worker = "callback" => ServiceAlive /\ RepositoryAlive

\* A process that serves is whole: it has read its configuration, has its
\* connection and its consumer thread, and will consume what it accepts.
ServesWhole ==
  pc = "wait" =>
    /\ nread = Len(Required)
    /\ held = LocalNames /\ published
    /\ initialized /\ parts = {"producer", "consumer"}
    /\ running /\ worker \in {"loop", "process", "callback"}

\* What throws before there is a consumer thread (a variable, the database, the
\* broker, the thread itself) ends the process with status 1 and everything
\* that was opened closed, the half-initialized client included.  Past that, the
\* consumer thread may be left with the last reference to the service, and the
\* process aborts when it tries to join itself.
CleanFailure ==
  fate \in {"failed", "terminated"} /\ failedAt \notin PastStart =>
    fate = "failed" /\ parts = {} /\ ~RepositoryAlive

\* grpc::Server serves from BuildAndStart on, and nothing on the way out stops it:
\* it goes with the process, when ~Server has destroyed all else.
Listening == pc \in {"log", "wait"} \/ (failedAt = "log" /\ fate = "alive")

\* As long as RPCs are served they find the handler, which grpc::Server knows by a
\* bare pointer, and behind it a client that is whole, even while an exception
\* destroys main()'s locals one after another: global_server_ptr keeps them.  It
\* ends when exit() destroys that, as ~Server lets the handler go before
\* grpc::Server (server.hpp:22-23).
CallsFindTheirHandler ==
  Listening /\ (pc = "exit" => published) =>
    HandlerAlive /\ initialized /\ parts = {"producer", "consumer"}

\* The start comes to an end: the server serves or the process is gone.
StartEnds == <>(pc = "wait" \/ fate # "alive")
=============================================================================
